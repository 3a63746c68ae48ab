------------------------------- MODULE Delivery -------------------------------
(***************************************************************************)
(* How an activity finds its way to an inbox: the profile cache            *)
(* (src/src/data/cache.rs), which is filled from the follows when the      *)
(* server starts and then by the lookups of the deliveries themselves      *)
(* (src/src/api/mastodon/federation_delivery.rs), and the fan-out of a     *)
(* post to the followers (src/src/federation/delivery.rs).                 *)
(*                                                                         *)
(* One remote actor is looked up, by its address or by its URI. Now and    *)
(* then it moves to another inbox; its server may be slow, and what it     *)
(* said may be old when it is used. A lookup is for a delivery of its own, *)
(* or for the author of a post that the owner replies to, whose inbox      *)
(* joins those of the followers.                                           *)
(***************************************************************************)
EXTENDS Naturals, Sequences, FiniteSets, Bags

CONSTANTS
    Warmups,        \* the fetches of initialize_from_addresses
    Lookups,        \* the deliveries that look the actor up
    ActorInboxes,   \* the inboxes it has one after the other
    Followers,      \* the lists of inboxes a fan-out may begin with
    Ttl,            \* cache.profile_ttl
    PruneEvery,     \* PROFILE_PRUNE_INTERVAL_MS
    Deadline,       \* OUTBOUND_DELIVERY_TIMEOUT_SECS
    FetchTimeout,   \* the timeout of the HTTP client
    MaxConcurrent,  \* POSTs of one fan-out at one time
    MaxNow,         \* bound: the clock
    MaxRestarts     \* bound: restarts

Names == {"address", "uri"}

ASSUME DeliveryAssumption ==
    /\ Warmups \cap Lookups = {}
    /\ ActorInboxes # {}
    /\ \A list \in Followers : list \in Seq({list[k] : k \in DOMAIN list})
    /\ {Ttl, PruneEvery, MaxNow, MaxRestarts} \subseteq Nat
    /\ {Deadline, FetchTimeout, MaxConcurrent} \subseteq Nat \ {0}

VARIABLES
    now,         \* the clock; 1 is the first moment
    inbox,       \* the inbox of the actor
    wasAt,       \* history: when each inbox was last the actor's, 0 for never
    hasKey,      \* its document has a public key, without which it is not cached
    profiles,    \* the cache: by name, the inbox and the time of the fetch
    lastPrune,
    lookup,      \* lookup[t]: how far the fetch or the delivery is
    sends,       \* the tasks of the fan-out
    owed,        \* history: the inboxes it is for
    permits,     \* what its semaphore has left
    tried,       \* history: the inboxes POSTed to by the fan-out
    restarts

deliveryVars == <<now, inbox, wasAt, hasKey, profiles, lastPrune, lookup, sends,
                  owed, permits, tried, restarts>>
cache == <<profiles, lastPrune>>
world == <<now, inbox, wasAt, hasKey>>
fanout == <<sends, owed, permits, tried>>

Begun(name, reply, targets) ==
    [at |-> "cache", name |-> name, reply |-> reply, targets |-> targets,
     since |-> now, left |-> 0, found |-> <<>>]

NotYet == [at |-> "idle"]
Over == [at |-> "over"]

\* AppState::new waits for the fetches before it serves.
Cold == [Begun("address", FALSE, <<>>) EXCEPT !.at = "urls"]

DeliveryInit ==
    /\ now = 1
    /\ inbox \in ActorInboxes
    /\ wasAt = [i \in ActorInboxes |-> IF i = inbox THEN 1 ELSE 0]
    /\ hasKey \in BOOLEAN
    /\ profiles = <<>> /\ lastPrune = 0
    /\ lookup = [t \in Warmups \cup Lookups |-> IF t \in Warmups THEN Cold ELSE NotYet]
    /\ sends = <<>> /\ owed = {} /\ permits = MaxConcurrent /\ tried = EmptyBag
    /\ restarts = 0

-----------------------------------------------------------------------------
(* The cache.                                                              *)

\* With a bug: what is in the table counts, since old rows are pruned.
FreshIfThere(n) == n \in DOMAIN profiles

\* get: the row of that name, if it is young enough.
Fresh(n) == n \in DOMAIN profiles /\ profiles[n].fetched >= now - Ttl

\* get_by_uri: every row here is of the actor's URI; the newest one.
Newest ==
    LET rows == {profiles[n] : n \in {m \in DOMAIN profiles : Fresh(m)}}
    IN  CHOOSE p \in rows : \A q \in rows : q.fetched <= p.fetched

\* prune_expired_if_needed, over the rows as they are then.
Pruned(rows) ==
    LET skipped == lastPrune > 0 /\ now - lastPrune < PruneEvery
        young == {n \in DOMAIN rows : rows[n].fetched >= now - Ttl}
    IN  /\ profiles' = IF skipped THEN rows ELSE [n \in young |-> rows[n]]
        /\ lastPrune' = IF skipped THEN lastPrune ELSE now

\* insert: the last one to come has the row.
Insert(n, p) ==
    Pruned([m \in DOMAIN profiles \cup {n} |-> IF m = n THEN p ELSE profiles[m]])

-----------------------------------------------------------------------------
(* A lookup.                                                               *)

At(t, s) == lookup[t].at = s
Working == {t \in DOMAIN lookup : lookup[t] \notin {NotYet, Over}}
\* The fields of r change, the others stay.
Proceeds(t, r) ==
    lookup' = [lookup EXCEPT ![t] =
                  [f \in DOMAIN @ \cup DOMAIN r |-> IF f \in DOMAIN r THEN r[f] ELSE @[f]]]
Ends(t) == lookup' = [lookup EXCEPT ![t] = Over]

\* The server serves when all of initialize_from_addresses has ended.
Serves == \A t \in Warmups : lookup[t] = Over

\* follow_account and the like, with the address or the URI they have.
BeginSingle(t, n) ==
    /\ Serves /\ At(t, "idle") /\ sends = <<>>
    /\ \A u \in Working : ~lookup[u].reply
    /\ lookup' = [lookup EXCEPT ![t] = Begun(n, FALSE, <<>>)]
    /\ UNCHANGED <<world, cache, fanout, restarts>>

\* create_status has read the inboxes of the followers before it writes the
\* post, and then looks up whom it replies to.
BeginReply(t, inboxes) ==
    /\ Serves /\ At(t, "idle")
    /\ \A u \in Lookups : At(u, "idle")
    /\ lookup' = [lookup EXCEPT ![t] = Begun("address", TRUE, inboxes)]
    /\ UNCHANGED <<world, cache, fanout, restarts>>

\* resolve_remote_actor_and_inbox begins: by name, then by URI.
GetByName(t) ==
    /\ At(t, "cache")
    /\ Pruned(profiles)
    /\ LET n == lookup[t].name
       IN  Proceeds(t, IF Fresh(n) THEN [at |-> "ready", found |-> <<profiles[n].inbox>>]
                   ELSE [at |-> IF n = "uri" THEN "byUri" ELSE "urls"])
    /\ UNCHANGED <<world, fanout, restarts>>

GetByUri(t) ==
    /\ At(t, "byUri")
    /\ Pruned(profiles)
    /\ Proceeds(t, IF \E n \in DOMAIN profiles : Fresh(n)
               THEN [at |-> "ready", found |-> <<Newest.inbox>>]
               ELSE [at |-> "document"])
    /\ UNCHANGED <<world, fanout, restarts>>

\* webfinger_urls_for_domain: https, or http behind it with a port of its own.
Urls(t) ==
    /\ At(t, "urls")
    /\ \E n \in {1, 2} : Proceeds(t, [at |-> "webfinger", left |-> n])
    /\ UNCHANGED <<world, cache, fanout, restarts>>

\* The timeout of the HTTP client runs for each request.
WebFinger(t) ==
    /\ At(t, "webfinger")
    /\ Proceeds(t, [at |-> "document", since |-> IF t \in Warmups THEN now ELSE lookup[t].since])
    /\ UNCHANGED <<world, cache, fanout, restarts>>

\* Nothing was found: the followers still get a reply.
NotFound(t) == IF lookup[t].reply THEN Proceeds(t, [at |-> "ready"]) ELSE Ends(t)

NextUrl(t) ==
    /\ At(t, "webfinger")
    /\ IF lookup[t].left > 1
       THEN Proceeds(t, [left |-> 1, since |-> IF t \in Warmups THEN now ELSE lookup[t].since])
       ELSE NotFound(t)
    /\ UNCHANGED <<world, cache, fanout, restarts>>

\* fetch_actor_document: the server says what its inbox is now.
Document(t) ==
    /\ At(t, "document")
    /\ Proceeds(t, [at |-> "read", found |-> <<inbox>>])
    /\ UNCHANGED <<world, cache, fanout, restarts>>

\* It cannot be fetched, or has no inbox, or one that is not allowed.
NoDocument(t) ==
    /\ At(t, "document") \/ (At(t, "read") /\ t \in Lookups)
    /\ IF lookup[t].reply THEN Proceeds(t, [at |-> "ready", found |-> <<>>]) ELSE Ends(t)
    /\ UNCHANGED <<world, cache, fanout, restarts>>

\* build_cached_profile.
Profile(t) == [inbox |-> lookup[t].found[1], fetched |-> now]

\* The hosts are checked, and the profile is built, now, and kept by its name.
Keep(t) ==
    /\ At(t, "read")
    /\ LET p == Profile(t)
       IN  /\ IF hasKey THEN Insert(lookup[t].name, p) ELSE UNCHANGED cache
           /\ IF t \in Warmups THEN Ends(t)
              ELSE IF hasKey /\ lookup[t].name = "address"
                   THEN Proceeds(t, [at |-> "alias", profile |-> p])
                   ELSE Proceeds(t, [at |-> "ready"])
    /\ UNCHANGED <<world, fanout, restarts>>

\* And once more by the URI of the actor.
KeepAlias(t) ==
    /\ At(t, "alias")
    /\ Insert("uri", lookup[t].profile)
    /\ Proceeds(t, [at |-> "ready"])
    /\ UNCHANGED <<world, fanout, restarts>>

\* The activity is POSTed, successfully or not.
Deliver(t) ==
    /\ At(t, "ready") /\ ~lookup[t].reply
    /\ Ends(t)
    /\ UNCHANGED <<world, cache, fanout, restarts>>

-----------------------------------------------------------------------------
(* The fan-out.                                                            *)

Entries(s) == {s[k] : k \in DOMAIN s}

\* With a bug: the inbox of the author may be in twice.
UniqueEvery(list) == DOMAIN list

\* unique_inbox_targets: where each inbox comes first.
Unique(list) == {k \in DOMAIN list : \A j \in 1..(k - 1) : list[j] # list[k]}

\* A task for each; the fan-out waits for them.
FanOut(t) ==
    /\ At(t, "ready") /\ lookup[t].reply
    /\ LET list == lookup[t].targets \o lookup[t].found
       IN  /\ sends' = [k \in Unique(list) |-> [to |-> list[k], at |-> "waiting"]]
           /\ owed' = Entries(list)
    /\ Proceeds(t, [at |-> "collect"])
    /\ UNCHANGED <<world, cache, permits, tried, restarts>>

Acquire(k) ==
    /\ sends[k].at = "waiting" /\ permits > 0
    /\ permits' = permits - 1
    /\ sends' = [sends EXCEPT ![k] = [to |-> @.to, at |-> "posting", since |-> now]]
    /\ tried' = tried (+) SetToBag({sends[k].to})
    /\ UNCHANGED <<world, cache, lookup, owed, restarts>>

\* With a bug: a task whose POST failed keeps its permit.
ReleasedIfSent(outcome) == IF outcome = "sent" THEN permits + 1 ELSE permits

\* The permit is dropped with the task, whatever became of the POST.
Released(outcome) == permits + 1

Finish(k, outcome) ==
    /\ sends[k].at = "posting"
    /\ permits' = Released(outcome)
    /\ sends' = [sends EXCEPT ![k] = [to |-> @.to, at |-> outcome]]
    /\ UNCHANGED <<world, cache, lookup, owed, tried, restarts>>

Collected(t) ==
    /\ At(t, "collect")
    /\ \A k \in DOMAIN sends : sends[k].at \in {"sent", "failed"}
    /\ Ends(t)
    /\ UNCHANGED <<world, cache, fanout, restarts>>

\* With a bug: the tasks of the fan-out end with the delivery.
LeftOverNone(k) == sends[k].at # "waiting"

\* The tasks that go on when the delivery is dropped: all, they were spawned.
LeftOver(k) == TRUE

InTime(t) == now < lookup[t].since + Deadline

\* spawn_best_effort_delivery, spawn_best_effort_batch_delivery: the time is over.
TimeOut(t) ==
    /\ t \in Working \cap Lookups /\ ~InTime(t)
    /\ Ends(t)
    /\ sends' = [k \in {j \in DOMAIN sends : LeftOver(j)} |-> sends[k]]
    /\ UNCHANGED <<world, cache, owed, permits, tried, restarts>>

-----------------------------------------------------------------------------
\* The actor moves to another inbox.
Move ==
    /\ inbox' \in {i \in ActorInboxes : wasAt[i] = 0}
    /\ wasAt' = [wasAt EXCEPT ![inbox'] = now]
    /\ UNCHANGED <<now, hasKey, cache, lookup, fanout, restarts>>

\* The timers are not late.
NextMoment ==
    /\ now < MaxNow /\ now' = now + 1
    /\ \A t \in Working \cap Lookups : InTime(t)
    /\ \A t \in Working \cap Warmups : now < lookup[t].since + FetchTimeout
    /\ \A k \in DOMAIN sends : sends[k].at = "posting" => now < sends[k].since + FetchTimeout
    /\ wasAt' = [wasAt EXCEPT ![inbox] = now']
    /\ UNCHANGED <<inbox, hasKey, cache, lookup, fanout, restarts>>

\* The cache and the deliveries are gone.
StartAgain ==
    /\ restarts < MaxRestarts /\ restarts' = restarts + 1
    /\ profiles' = <<>> /\ lastPrune' = 0
    /\ lookup' = [t \in Warmups \cup Lookups |->
                     IF t \in Warmups THEN Cold
                     ELSE IF lookup[t] = NotYet THEN NotYet ELSE Over]
    /\ sends' = <<>> /\ owed' = {} /\ permits' = MaxConcurrent /\ tried' = EmptyBag
    /\ UNCHANGED world

DeliveryNext ==
    \/ Move \/ NextMoment \/ StartAgain
    \/ \E t \in DOMAIN lookup :
           \/ GetByName(t) \/ GetByUri(t) \/ Urls(t) \/ WebFinger(t) \/ NextUrl(t)
           \/ Document(t) \/ NoDocument(t) \/ Keep(t) \/ KeepAlias(t)
           \/ Deliver(t) \/ FanOut(t) \/ Collected(t) \/ TimeOut(t)
    \/ \E t \in Lookups : \/ \E n \in Names : BeginSingle(t, n)
                          \/ \E list \in Followers : BeginReply(t, list)
    \/ \E k \in DOMAIN sends : \/ Acquire(k)
                               \/ \E outcome \in {"sent", "failed"} : Finish(k, outcome)

DeliverySpec == DeliveryInit /\ [][DeliveryNext]_deliveryVars

-----------------------------------------------------------------------------
(* Properties.                                                             *)

Longest == IF Deadline > FetchTimeout THEN Deadline ELSE FetchTimeout

\* An activity goes to an inbox that was the actor's not long ago: the age of a
\* cached profile, the time its fetch took and the time the delivery has had
\* bound how old the answer is, however lookups under both names, with answers
\* that are slow, fill the cache together.
InboxIsRecent ==
    \A t \in Lookups : At(t, "ready") /\ lookup[t].found # <<>> =>
        now - wasAt[lookup[t].found[1]] <= Ttl + Longest + Deadline

\* Once a fan-out has begun, each inbox of the followers, and that of the author
\* replied to, is tried once, though POSTs fail, and though the delivery that
\* began it is dropped while its tasks wait for their turn.
EveryInboxOnce ==
    LET rests == \A k \in DOMAIN sends : /\ sends[k].at # "posting"
                                         /\ sends[k].at = "waiting" => permits = 0
    IN  /\ tried \sqsubseteq SetToBag(owed)
        /\ rests => BagToSet(tried) = owed
=============================================================================
