------------------------------- MODULE Inbox -------------------------------
(***************************************************************************)
(* The inboxes and what a delivered activity does                          *)
(* (api/activitypub.rs, federation/signature.rs, federation/activity.rs).  *)
(*                                                                         *)
(* A request names an actor.  The server fetches the actor's key, verifies *)
(* the signature, charges the limiter of RateLimiter.tla, looks the domain *)
(* up in the blocklist, and hands the activity to its handler, one         *)
(* statement after another.  Other servers deliver late, twice, and in     *)
(* any order, rotate their keys, and what arrives need not be what they    *)
(* signed.  Follow and Undo have a module of their own, FollowHandshake.   *)
(*                                                                         *)
(* The clock is the limiter's.                                             *)
(***************************************************************************)
EXTENDS RateLimiter

CONSTANTS
    Requests,    \* deliveries that arrive
    Authors, DomainOf,
    Acts,        \* activities
    Nobody,      \* no activity
    Act,         \* what each of them says
    Posts, Own,  \* statuses of remote authors, and one of this server
    AuthorOf,
    DateWindow,  \* how old a signature may be, 300 seconds
    MaxKeys,     \* bound: keys an actor has one after another
    Followees,   \* actors the owner follows
    Blockable,   \* domains an administrator may block
    Traffic,     \* bound, for each world: what is offered, how many messages
                 \* are signed and how many requests come, and the
                 \* max_tracked_keys of the limiter
    Worlds       \* what may happen in a run:
                 \* "calm": senders deliver each activity once, and a Delete
                 \*   after the answer to the Create
                 \* "foul": requests are altered on the way, keys rotated
                 \* "blocks": domains are blocked and unblocked
                 \* "keeps": the owner marks cached posts

Types == {"Create", "Delete", "Like", "Announce", "Update", "Accept",
          "Reject", "Block"}

ASSUME InboxAssumption ==
    /\ DomainOf \in [Authors -> Domains]
    /\ Act \in [Acts -> [type : Types, actor : Authors, post : Posts \cup {Own},
                         mentions : BOOLEAN, replies : BOOLEAN]]
    /\ AuthorOf \in [Posts -> Authors]
    /\ Own \notin Posts /\ Nobody \notin Acts
    /\ Followees \subseteq Authors /\ Blockable \subseteq Domains
    /\ Traffic \in [Worlds -> [offered : SUBSET Acts, signed : Nat, most : Nat,
                             tracked : Limits]]
    /\ DateWindow \in Nat /\ MaxKeys \in Nat
    /\ Worlds \subseteq SUBSET {"calm", "foul", "blocks", "keeps"}

VARIABLES
    world,
    published,   \* the key each actor's document shows
    sent,        \* the messages that were signed
    req,         \* the requests
    blocks,      \* domain_blocks: a domain, as the blocklist is asked for it
                 \* or as an administrator typed it
    cached,      \* posts in the timeline cache
    rows,        \* posts in the table statuses
    keep,        \* what the owner's request to keep a post does
    notes,       \* notifications, each with the request that made it
    gone,        \* history: posts whose author's Delete was answered
    late         \* history: posts whose copy was read before, and not yet
                 \* written when, a Delete looked for their row

limiterVars == <<maxTracked, entries, now, admitted>>
storeVars   == <<cached, rows, notes, gone, late>>
inboxVars   == <<world, published, sent, req, blocks, keep, storeVars,
                 limiterVars>>

Waiting == [pc |-> "idle", act |-> Nobody, signed |-> Nobody, key |-> 0,
            date |-> 0, pem |-> 0, barred |-> FALSE]

Handling == {"followee", "like", "announce", "mention", "reply", "store", "find",
             "remove", "row", "erase"}

Signature == [act : Acts, key : 0..MaxKeys, date : 0..MaxTime]

InboxTypeOK ==
    /\ LimiterTypeOK
    /\ world \in Worlds
    /\ published \in [Authors -> 0..MaxKeys]
    /\ sent \subseteq Signature
    /\ req \in [Requests ->
                  [pc : {"idle", "fetch", "judge", "check", "done"} \cup Handling,
                   act : Acts \cup {Nobody}, signed : Acts \cup {Nobody},
                   key : 0..MaxKeys, date : 0..MaxTime, pem : 0..MaxKeys,
                   barred : BOOLEAN]]
    /\ blocks \subseteq Domains \X {"lower", "typed"}
    /\ cached \subseteq Posts \cup {Own} /\ rows \subseteq Posts
    /\ keep \in [Posts -> {"idle", "write"}]
    /\ notes \subseteq Requests \X {"favourite", "reblog", "mention", "reply"}
    /\ gone \subseteq Posts /\ late \subseteq Posts

InboxInit ==
    /\ LimiterInit
    /\ world \in Worlds /\ maxTracked = Traffic[world].tracked
    /\ published = [a \in Authors |-> 0]
    /\ sent = {}
    /\ req = [r \in Requests |-> Waiting]
    /\ blocks = {}
    /\ cached = {} /\ rows = {}
    /\ keep = [p \in Posts |-> "idle"]
    /\ notes = {} /\ gone = {} /\ late = {}

AboutPost(r) == Act[req[r].act].post
ActorOf(r)   == Act[req[r].act].actor

GoesTo(r, pc) == req' = [req EXCEPT ![r].pc = pc]

-----------------------------------------------------------------------------
(* Other servers                                                           *)

(* sign_request: the sender signs the path, host, date and digest.         *)
Sign(a) ==
    /\ Cardinality(sent) < Traffic[world].signed
    /\ sent' = sent \cup {[act |-> a, key |-> published[Act[a].actor],
                           date |-> now]}
    /\ UNCHANGED <<world, published, req, blocks, keep, storeVars,
                   limiterVars>>

Rotate(a) ==
    /\ "foul" \in world
    /\ published[a] < MaxKeys
    /\ published' = [published EXCEPT ![a] = @ + 1]
    /\ UNCHANGED <<world, sent, req, blocks, keep, storeVars, limiterVars>>

(* In a calm world nothing comes twice, and nothing about a post while, or *)
(* after, it is deleted.                                                   *)
Calm(a) ==
    "calm" \in world =>
        \A o \in Requests : req[o].act # Nobody
            => /\ req[o].act # a
               /\ Act[req[o].act].post = Act[a].post
                  => IF Act[a].type = "Delete"
                     THEN req[o].pc = "done"
                     ELSE Act[req[o].act].type # "Delete"

-----------------------------------------------------------------------------
(* The inboxes                                                             *)

(* key_id_matches_actor *)
Named(m, a) == Act[m.act].actor = Act[a].actor

(* A request goes on if it is signed and its keyId is the actor's; the     *)
(* others change nothing.  Its body says a, its signature was made for m.  *)
Take(r, m, a) ==
    /\ req[r] = Waiting
    /\ Cardinality({o \in Requests : req[o] # Waiting}) < Traffic[world].most
    /\ Named(m, a)
    /\ a = m.act \/ "foul" \in world
    /\ Calm(a)
    /\ req' = [req EXCEPT ![r] =
                 [pc |-> "fetch", act |-> a, signed |-> m.act, key |-> m.key,
                  date |-> m.date, pem |-> 0,
                  barred |-> <<DomainOf[Act[a].actor], "lower">> \in blocks]]
    /\ UNCHANGED <<world, published, sent, blocks, keep, storeVars,
                   limiterVars>>

(* validate_remote_actor_url: the server's name does not resolve, or to an *)
(* address that is not asked.                                              *)
Unreachable(r) ==
    /\ req[r].pc = "fetch"
    /\ GoesTo(r, "done")
    /\ UNCHANGED <<world, published, sent, blocks, keep, storeVars,
                   limiterVars>>

(* fetch_public_key: the key as the actor's document shows it.             *)
FetchKey(r) ==
    /\ req[r].pc = "fetch"
    /\ req' = [req EXCEPT ![r].pc = "judge", ![r].pem = published[ActorOf(r)]]
    /\ UNCHANGED <<world, published, sent, blocks, keep, storeVars,
                   limiterVars>>

(* With a bug: the digest is not compared with the body.                   *)
VerifiedBody(q) == q.key = q.pem /\ now - q.date <= DateWindow

(* With a bug: the date is not looked at.                                  *)
VerifiedDate(q) == q.key = q.pem /\ q.act = q.signed

(* verify_signature: the digest is the body's, the date is recent, and the *)
(* key is the one that was fetched.                                        *)
Verified(q) ==
    /\ q.act = q.signed
    /\ now - q.date <= DateWindow
    /\ q.key = q.pem

(* With a bug: the limiter is asked first.                                 *)
ChargesEvery(q) == q.act # Nobody

(* The limiter is asked about verified requests only.                      *)
Charges(q) == Verified(q)

Judge(r) ==
    LET d == DomainOf[ActorOf(r)]
    IN  /\ req[r].pc = "judge"
        /\ IF Charges(req[r])
           THEN \/ /\ Admit(d)
                   /\ GoesTo(r, IF Verified(req[r]) THEN "check" ELSE "done")
                \/ Refuse(d) /\ GoesTo(r, "done")
           ELSE GoesTo(r, "done") /\ UNCHANGED limiterVars
        /\ UNCHANGED <<world, published, sent, blocks, keep, storeVars>>

-----------------------------------------------------------------------------
(* process                                                                 *)

(* decide_persistence; an Update has no case of its own.                   *)
Decide(a, followee) ==
    CASE a.type \in {"Like", "Accept"} -> "persist"
      [] a.type = "Announce" /\ (a.mentions \/ a.post = Own) -> "persist"
      [] a.type = "Create" /\ (a.mentions \/ a.replies) -> "persist"
      [] a.type = "Create" /\ followee -> "cache"
      [] a.type = "Delete" -> "cache"
      [] OTHER -> "ignore"

(* The first statement of the handler; an Accept has none.                 *)
Handler(a, followee) ==
    CASE Decide(a, followee) = "ignore" \/ a.type = "Accept" -> "done"
      [] a.type = "Like" /\ a.post # Own -> "done"
      [] a.type = "Like" -> "like"
      [] a.type = "Announce" -> "announce"
      [] a.type = "Delete" -> "find"
      [] a.type = "Create" /\ Decide(a, followee) = "cache" -> "store"
      [] a.type = "Create" /\ a.mentions -> "mention"
      [] OTHER -> "reply"

(* With a bug: the blocklist is asked for the domain as it was typed.      *)
IsBlockedTyped(d) == <<d, "typed">> \in blocks

(* is_domain_blocked, for the actor's domain in small letters.             *)
IsBlocked(d) == <<d, "lower">> \in blocks

Check(r) ==
    /\ req[r].pc = "check"
    /\ GoesTo(r, IF IsBlocked(DomainOf[ActorOf(r)]) THEN "done"
               ELSE IF Act[req[r].act].type = "Create" THEN "followee"
               ELSE Handler(Act[req[r].act], FALSE))
    /\ UNCHANGED <<world, published, sent, blocks, keep, storeVars,
                   limiterVars>>

(* is_followee: a SELECT that fails counts as no.                          *)
IsFollowee(r) ==
    /\ req[r].pc = "followee"
    /\ \E yes \in {ActorOf(r) \in Followees, FALSE} :
          GoesTo(r, Handler(Act[req[r].act], yes))
    /\ UNCHANGED <<world, published, sent, blocks, keep, storeVars,
                   limiterVars>>

(* handle_like *)
Like(r) ==
    /\ req[r].pc = "like"
    /\ notes' = notes \cup {<<r, "favourite">>}
    /\ GoesTo(r, "done")
    /\ UNCHANGED <<world, published, sent, blocks, keep, cached, rows,
                   gone, late, limiterVars>>

(* handle_announce: a quote that mentions the owner, or a boost.           *)
Announce(r) ==
    /\ req[r].pc = "announce"
    /\ notes' = notes \cup
           {<<r, IF Act[req[r].act].mentions THEN "mention" ELSE "reblog">>}
    /\ GoesTo(r, "done")
    /\ UNCHANGED <<world, published, sent, blocks, keep, cached, rows,
                   gone, late, limiterVars>>

(* With a bug: a reply is notified whether it mentions the owner or not.   *)
IsReplyOnlyAny(a) == a.replies

(* A reply that mentions the owner is notified as a mention alone.         *)
IsReplyOnly(a) == a.replies /\ ~a.mentions

(* handle_create: the mention, the reply, or the copy for the cache.       *)
Mention(r) ==
    /\ req[r].pc = "mention"
    /\ notes' = notes \cup {<<r, "mention">>}
    /\ GoesTo(r, IF IsReplyOnly(Act[req[r].act]) THEN "reply" ELSE "done")
    /\ UNCHANGED <<world, published, sent, blocks, keep, cached, rows,
                   gone, late, limiterVars>>

Reply(r) ==
    /\ req[r].pc = "reply"
    /\ notes' = notes \cup {<<r, "reply">>}
    /\ GoesTo(r, "done")
    /\ UNCHANGED <<world, published, sent, blocks, keep, cached, rows,
                   gone, late, limiterVars>>

Store(r) ==
    /\ req[r].pc = "store"
    /\ cached' = cached \cup {AboutPost(r)}
    /\ GoesTo(r, "done")
    /\ UNCHANGED <<world, published, sent, blocks, keep, rows, notes,
                   gone, late, limiterVars>>

(* follow_addresses_match, of the actor and the author of the post         *)
Owns(r) == AboutPost(r) \in Posts /\ AuthorOf[AboutPost(r)] = ActorOf(r)

(* With a bug: what was found in the cache is all that is looked for.      *)
AfterCacheDone == "done"

(* The row is looked for whatever the cache had.                           *)
AfterCache == "row"

Answered(r) == gone' = IF Owns(r) THEN gone \cup {AboutPost(r)} ELSE gone

(* handle_delete: the copy in the cache, then the row.                     *)
Find(r) ==
    /\ req[r].pc = "find"
    /\ GoesTo(r, IF AboutPost(r) \in cached /\ Owns(r) THEN "remove"
               ELSE "row")
    /\ UNCHANGED <<world, published, sent, blocks, keep, storeVars,
                   limiterVars>>

Remove(r) ==
    /\ req[r].pc = "remove"
    /\ cached' = cached \ {AboutPost(r)}
    /\ GoesTo(r, AfterCache)
    /\ IF AfterCache = "done" THEN Answered(r) ELSE UNCHANGED gone
    /\ UNCHANGED <<world, published, sent, blocks, keep, rows, notes,
                   late, limiterVars>>

Row(r) ==
    LET p == AboutPost(r)
        Mine == p \in rows /\ Owns(r)
    IN  /\ req[r].pc = "row"
        /\ GoesTo(r, IF Mine THEN "erase" ELSE "done")
        /\ IF Mine THEN UNCHANGED gone ELSE Answered(r)
        /\ late' = IF p \in Posts /\ keep[p] = "write" THEN late \cup {p}
                                                       ELSE late
        /\ UNCHANGED <<world, published, sent, blocks, keep, cached,
                       rows, notes, limiterVars>>

Erase(r) ==
    /\ req[r].pc = "erase"
    /\ rows' = rows \ {AboutPost(r)}
    /\ GoesTo(r, "done")
    /\ Answered(r)
    /\ UNCHANGED <<world, published, sent, blocks, keep, cached, notes,
                   late, limiterVars>>

(* A statement of the handler fails and ends the request.                  *)
Fail(r) ==
    /\ req[r].pc \in Handling \cup {"check"}
    /\ GoesTo(r, "done")
    /\ UNCHANGED <<world, published, sent, blocks, keep, storeVars,
                   limiterVars>>

-----------------------------------------------------------------------------
(* The owner                                                               *)

(* block_domain writes the domain in small letters.                        *)
BlockDomain(d) ==
    /\ "blocks" \in world
    /\ blocks' = blocks \cup {<<d, "lower">>}
    /\ req' = [r \in Requests |->
                 IF /\ req[r].pc \in {"fetch", "judge", "check"}
                    /\ DomainOf[ActorOf(r)] = d
                 THEN [req[r] EXCEPT !.barred = TRUE] ELSE req[r]]
    /\ UNCHANGED <<world, published, sent, keep, storeVars, limiterVars>>

(* The endpoint of the Mastodon API writes it as it was typed.  Its way to *)
(* take a block back answers and changes nothing.                          *)
CreateDomainBlockV1(d) ==
    /\ "blocks" \in world
    /\ blocks' = blocks \cup {<<d, "typed">>}
    /\ UNCHANGED <<world, published, sent, req, keep, storeVars, limiterVars>>

(* unblock_domain: the row with the domain in small letters goes.          *)
UnblockDomain(d) ==
    /\ <<d, "lower">> \in blocks
    /\ blocks' = blocks \ {<<d, "lower">>}
    /\ req' = [r \in Requests |->
                 IF req[r].act # Nobody /\ DomainOf[ActorOf(r)] = d
                 THEN [req[r] EXCEPT !.barred = FALSE] ELSE req[r]]
    /\ UNCHANGED <<world, published, sent, keep, storeVars, limiterVars>>

(* persist_remote_status: the owner marks a post that only the cache has.  *)
KeepRead(p) ==
    /\ "keeps" \in world
    /\ keep[p] = "idle" /\ p \in cached /\ p \notin rows
    /\ keep' = [keep EXCEPT ![p] = "write"]
    /\ UNCHANGED <<world, published, sent, req, blocks, storeVars,
                   limiterVars>>

KeepWrite(p) ==
    /\ keep[p] = "write"
    /\ keep' = [keep EXCEPT ![p] = "idle"]
    /\ rows' = rows \cup {p}
    /\ UNCHANGED <<world, published, sent, req, blocks, cached,
                   notes, gone, late, limiterVars>>

InboxTick ==
    /\ Tick
    /\ UNCHANGED <<world, published, sent, req, blocks, keep, storeVars>>

-----------------------------------------------------------------------------
Senders ==
    \/ \E a \in Traffic[world].offered : Sign(a)
    \/ \E a \in Authors : Rotate(a)
    \/ \E r \in Requests, m \in sent, a \in Traffic[world].offered : Take(r, m, a)

Handle ==
    \E r \in Requests :
        \/ Unreachable(r) \/ FetchKey(r) \/ Judge(r) \/ Check(r) \/ IsFollowee(r)
        \/ Like(r) \/ Announce(r) \/ Mention(r) \/ Reply(r) \/ Store(r)
        \/ Find(r) \/ Remove(r) \/ Row(r) \/ Erase(r)
        \/ Fail(r)

Administrator ==
    \/ \E d \in Blockable :
          BlockDomain(d) \/ CreateDomainBlockV1(d) \/ UnblockDomain(d)
    \/ \E p \in Posts : KeepRead(p) \/ KeepWrite(p)

InboxNext == Senders \/ Handle \/ Administrator \/ InboxTick

InboxSpec == InboxInit /\ [][InboxNext]_inboxVars

-----------------------------------------------------------------------------
(* What is notified, cached or kept comes from a request whose body its    *)
(* actor signed.                                                           *)
Genuine == {r \in Requests : /\ req[r].act # Nobody
                             /\ req[r].act = req[r].signed}

OnlySigned ==
    /\ \A n \in notes : n[1] \in Genuine
    /\ \A p \in cached \cup rows : \E r \in Genuine : AboutPost(r) = p

(* The share of a domain is charged only for a request that was signed no  *)
(* longer ago than the window, with the key its actor published while the  *)
(* request waited: one that is altered, too old, or signed with a key      *)
(* given up before takes nothing from it.                                  *)
ChargedIsFresh ==
    [][entries' # entries \/ admitted' # admitted
       => \E r \in Genuine, m \in sent :
             /\ req[r].pc = "judge" /\ req'[r].pc # "judge"
             /\ m.act = req[r].act
             /\ m.key = req[r].pem
             /\ now - m.date <= DateWindow]_inboxVars

(* Once the block of a domain is answered, nothing its actors send gets to *)
(* a handler; only what was in its handler already goes on.                *)
BlockedIsOut ==
    \A r \in Requests : req[r].pc \in Handling => ~req[r].barred

(* One delivery makes one notification at most, also of a reply that       *)
(* mentions the owner.                                                     *)
OneNotePerDelivery ==
    \A n, o \in notes : n[1] = o[1] => n = o

(* In a calm world, a post whose author's Delete was answered is in        *)
(* neither the cache nor the table, unless the owner's request had read    *)
(* the copy before and wrote it afterwards.                                *)
DeletedIsGone ==
    "calm" \in world =>
        \A p \in gone : p \notin cached /\ (p \in rows => p \in late)

=============================================================================
