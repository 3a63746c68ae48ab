--------------------------- MODULE ServicesProofs ----------------------------
(***************************************************************************)
(* Proofs about four parts of the server that share no state.              *)
(*                                                                         *)
(* The images (AvatarUpdate).  The account's key always names a stored     *)
(* image: a request publishes its image once, by its swap, and a key is    *)
(* never published again, so the image a request replaced cannot be        *)
(* current any more when it is deleted.  And without faults every image    *)
(* in the bucket but the current one has a request that is about to        *)
(* publish or to delete it.                                                *)
(*                                                                         *)
(* The deliveries (Delivery).  InboxIsRecent follows a true answer through *)
(* time: when a document is read, its inbox is the actor's, so a cached    *)
(* profile is at most one fetch older than its stamp, a lookup takes it    *)
(* only within the time to live, and no delivery outlives its deadline.    *)
(* EveryInboxOnce follows the tasks of a fan-out: they have an inbox each, *)
(* the bag of what was tried is the set of those that have begun, and the  *)
(* permits are what the POSTs under way have left; so no task waits when   *)
(* none posts.  That one reply at most is looked up keeps fan-outs apart.  *)
(*                                                                         *)
(* The backups (Backup).  Fewer objects than there are tasks are put after *)
(* an object and have an earlier second (FewOvertake): each is of a backup *)
(* that was under way in that second.  So what a cleanup lists, which has  *)
(* Retention newer objects, has one of a later second, and of all that is  *)
(* listed some object of the latest second or later remains.               *)
(*                                                                         *)
(* The timelines (Timelines).  A conversation keeps its root while nothing *)
(* in it is deleted, and a new root is a status that has just gone, so the *)
(* mutes that a request has read stay the roots to hide.  In a timeline of *)
(* one order a page is the first rows of what is below its cursor          *)
(* (FirstRowsAreFirst): what the request holds is sorted, below what the   *)
(* client has (PageInv), and a row that is shown all the time has been     *)
(* read or is past the last row held (CoverInv).                           *)
(***************************************************************************)
EXTENDS AvatarUpdate, Delivery, Backup, Timelines, FiniteSetTheorems, WellFoundedInduction, TLAPS

\* An image that is, or may have been, the account's.
Published(i) ==
    \/ i = Original
    \/ i \in Requests /\ pc[i] \in {"deleteOld", "done", "dropped"}

IInv ==
    /\ TypeOK
    /\ CurrentIsStored
    /\ current # NoImage => Published(current)
    /\ \A r \in Requests :
          /\ pc[r] = "swap" => r \in stored
          /\ previous[r] # NoImage => Published(previous[r])
          /\ pc[r] = "deleteOld" => current # previous[r]

LEMMA InitInv == Init => IInv
<1> SUFFICES ASSUME Init PROVE IInv
  OBVIOUS
<1>1. /\ current \in Images \cup {NoImage} /\ stored \subseteq Images
      /\ CurrentIsStored /\ (current # NoImage => Published(current))
  BY DEF Init, Images, CurrentIsStored, Published
<1>2. /\ pc \in [Requests -> PCs]
      /\ previous \in [Requests -> Images \cup {NoImage}]
      /\ \A r \in Requests : pc[r] = "read" /\ previous[r] = NoImage
  BY DEF Init, PCs
<1>3. faults \in 0..MaxFaults
  BY AvatarAssumption DEF Init
<1> QED
  BY <1>1, <1>2, <1>3 DEF IInv, TypeOK

\* What was published once stays published.
LEMMA PublishedStays ==
    ASSUME IInv, NEW r \in Requests, NEW s \in PCs, pc' = [pc EXCEPT ![r] = s],
           pc[r] \in {"deleteOld", "done", "dropped"} =>
               s \in {"deleteOld", "done", "dropped"}
    PROVE  \A i : Published(i) => Published(i)'
  BY DEF IInv, TypeOK, Published

LEMMA StepInv == IInv /\ [Next]_vars => IInv'
<1> SUFFICES ASSUME IInv, [Next]_vars PROVE IInv'
  OBVIOUS
<1>a. TypeOK /\ CurrentIsStored /\ (current # NoImage => Published(current))
  BY DEF IInv
<1>b. \A r \in Requests :
          /\ pc[r] = "swap" => r \in stored
          /\ previous[r] # NoImage => Published(previous[r])
          /\ pc[r] = "deleteOld" => current # previous[r]
  BY DEF IInv
<1>t. ASSUME NEW r \in Requests,
             Step(r) \/ FailUpload(r) \/ FailSwap(r) \/ FailDelete(r) \/ Cancel(r)
      PROVE  TypeOK' /\ \A i : Published(i) => Published(i)'
  <2>1. TypeOK'
    BY <1>a, <1>t, AvatarAssumption
       DEF Step, ReadKey, Upload, Swap, Cleanup, DeleteOld, FailUpload, FailSwap,
           FailDelete, Cancel, Fault, Goto, TypeOK, PCs, Ended, Images
  <2>2. PICK s \in PCs :
            /\ pc' = [pc EXCEPT ![r] = s]
            /\ pc[r] \in {"deleteOld", "done", "dropped"} =>
                   s \in {"deleteOld", "done", "dropped"}
    BY <1>t DEF Step, ReadKey, Upload, Swap, Cleanup, DeleteOld, FailUpload, FailSwap,
           FailDelete, Cancel, Fault, Goto, PCs, Ended
  <2> QED
    BY <2>1, <2>2, PublishedStays
<1>1. ASSUME NEW r \in Requests, ReadKey(r) PROVE IInv'
  <2>1. TypeOK' /\ \A i : Published(i) => Published(i)'
    BY <1>1, <1>t DEF Step
  <2> QED
    BY <1>1, <2>1, <1>a, <1>b DEF ReadKey, Goto, IInv, TypeOK, CurrentIsStored
<1>2. ASSUME NEW r \in Requests, Upload(r) PROVE IInv'
  <2>1. TypeOK' /\ \A i : Published(i) => Published(i)'
    BY <1>2, <1>t DEF Step
  <2> QED
    BY <1>2, <2>1, <1>a, <1>b DEF Upload, Goto, IInv, TypeOK, CurrentIsStored
<1>3. ASSUME NEW r \in Requests, Swap(r) PROVE IInv'
  <2>1. TypeOK' /\ \A i : Published(i) => Published(i)'
    BY <1>3, <1>t DEF Step
  <2>2. CASE current = previous[r]
    <3>1. /\ pc[r] = "swap" /\ current' = r /\ pc' = [pc EXCEPT ![r] = "deleteOld"]
          /\ UNCHANGED <<stored, previous>>
      BY <1>3, <2>2 DEF Swap, Goto
    <3>2. r \in stored /\ ~Published(r)
      BY <3>1, <1>b, AvatarAssumption DEF Published
    <3>3. Published(r)'
      BY <3>1, <1>a DEF Published, TypeOK
    <3>4. \A q \in Requests : previous[q] # r
      BY <3>2, <1>b, AvatarAssumption
    <3> QED
      BY <3>1, <3>2, <3>3, <3>4, <2>1, <1>a, <1>b
         DEF IInv, TypeOK, CurrentIsStored
  <2>3. CASE current # previous[r]
    BY <1>3, <2>1, <2>3, <1>a, <1>b DEF Swap, Goto, IInv, TypeOK, CurrentIsStored
  <2> QED
    BY <2>2, <2>3
<1>4. ASSUME NEW r \in Requests, Cleanup(r) PROVE IInv'
  <2>1. TypeOK' /\ \A i : Published(i) => Published(i)'
    BY <1>4, <1>t DEF Step
  <2>2. ~Published(r)
    BY <1>4, AvatarAssumption DEF Cleanup, Published
  <2> QED
    BY <1>4, <2>1, <2>2, <1>a, <1>b DEF Cleanup, Goto, IInv, TypeOK, CurrentIsStored
<1>5. ASSUME NEW r \in Requests, DeleteOld(r) PROVE IInv'
  <2>1. TypeOK' /\ \A i : Published(i) => Published(i)'
    BY <1>5, <1>t DEF Step
  <2>2. /\ pc[r] = "deleteOld" /\ pc' = [pc EXCEPT ![r] = "done"]
        /\ stored' = stored \ {previous[r]} /\ UNCHANGED <<current, previous>>
    BY <1>5 DEF DeleteOld, Goto
  <2>3. current # previous[r]
    BY <2>2, <1>b
  <2>4. ASSUME NEW q \in Requests, pc'[q] = "swap" PROVE q \in stored'
    <3>1. pc[q] = "swap" /\ q \in stored
      BY <2>4, <2>2, <1>a, <1>b DEF TypeOK
    <3>2. ~Published(q) /\ q # NoImage
      BY <3>1, AvatarAssumption DEF Published
    <3> QED
      BY <3>1, <3>2, <2>2, <1>b
  <2> QED
    BY <2>1, <2>2, <2>3, <2>4, <1>a, <1>b DEF IInv, TypeOK, CurrentIsStored
<1>6. ASSUME NEW r \in Requests, FailUpload(r) PROVE IInv'
  <2>1. TypeOK' /\ \A i : Published(i) => Published(i)'
    BY <1>6, <1>t
  <2> QED
    BY <1>6, <2>1, <1>a, <1>b DEF FailUpload, Goto, IInv, TypeOK, CurrentIsStored
<1>7. ASSUME NEW r \in Requests, FailSwap(r) PROVE IInv'
  <2>1. TypeOK' /\ \A i : Published(i) => Published(i)'
    BY <1>7, <1>t
  <2> QED
    BY <1>7, <2>1, <1>a, <1>b DEF FailSwap, Goto, IInv, TypeOK, CurrentIsStored
<1>8. ASSUME NEW r \in Requests, FailDelete(r) PROVE IInv'
  <2>1. TypeOK' /\ \A i : Published(i) => Published(i)'
    BY <1>8, <1>t
  <2> QED
    BY <1>8, <2>1, <1>a, <1>b DEF FailDelete, Goto, IInv, TypeOK, CurrentIsStored
<1>9. ASSUME NEW r \in Requests, Cancel(r) PROVE IInv'
  <2>1. TypeOK' /\ \A i : Published(i) => Published(i)'
    BY <1>9, <1>t
  <2> QED
    BY <1>9, <2>1, <1>a, <1>b DEF Cancel, Goto, IInv, TypeOK, CurrentIsStored
<1>10. CASE UNCHANGED vars
  BY <1>10, <1>a, <1>b DEF vars, IInv, TypeOK, CurrentIsStored, Published
<1> QED
  BY <1>1, <1>2, <1>3, <1>4, <1>5, <1>6, <1>7, <1>8, <1>9, <1>10 DEF Next, Step

\* The key in the account row always names an image that is in the bucket.
THEOREM CurrentIsStoredHolds == Spec => []CurrentIsStored
<1>1. IInv => CurrentIsStored
  BY DEF IInv
<1> QED
  BY <1>1, InitInv, StepInv, PTL DEF Spec

\* An image that a request is about to publish or to delete.
Attended(i) ==
    \E r \in Requests : \/ pc[r] \in {"swap", "cleanup"} /\ i = r
                        \/ pc[r] = "deleteOld" /\ i = previous[r]

TidyInv == TypeOK /\ (faults = 0 => \A i \in stored : i = current \/ Attended(i))

LEMMA TypeStep ==
    ASSUME IInv, NEW r \in Requests,
           Step(r) \/ FailUpload(r) \/ FailSwap(r) \/ FailDelete(r) \/ Cancel(r)
    PROVE  TypeOK'
  BY StepInv DEF IInv, Next

\* Without a fault, no step leaves an image unattended.
LEMMA TidyStep == IInv /\ TidyInv /\ [Next]_vars => TidyInv'
<1> SUFFICES ASSUME IInv, TidyInv, [Next]_vars PROVE TidyInv'
  OBVIOUS
<1>1. ASSUME NEW r \in Requests, Step(r), NEW i \in stored', faults' = 0
      PROVE  i = current' \/ Attended(i)'
  <2>1. TypeOK /\ TypeOK'
    BY <1>1, TypeStep DEF TidyInv
  <2>2. /\ faults = 0
        /\ \A q \in Requests \ {r} : pc'[q] = pc[q] /\ previous'[q] = previous[q]
    BY <1>1, <2>1 DEF Step, ReadKey, Upload, Swap, Cleanup, DeleteOld, Goto, TypeOK
  <2>3. ASSUME NEW q \in Requests, q # r,
               \/ pc[q] \in {"swap", "cleanup"} /\ i = q
               \/ pc[q] = "deleteOld" /\ i = previous[q]
        PROVE  Attended(i)'
    BY <2>2, <2>3 DEF Attended
  <2>4. CASE i \notin stored
    <3>1. Upload(r)
      BY <1>1, <2>4 DEF Step, ReadKey, Upload, Swap, Cleanup, DeleteOld
    <3>2. i = r /\ pc'[r] = "swap"
      BY <1>1, <2>1, <2>4, <3>1 DEF Upload, Goto, TypeOK
    <3> QED
      BY <3>2 DEF Attended
  <2>5. CASE i \in stored /\ i = current
    <3>1. current' = current \/ (pc'[r] = "deleteOld" /\ i = previous'[r])
      BY <1>1, <2>1, <2>5 DEF Step, ReadKey, Upload, Swap, Cleanup, DeleteOld, Goto, TypeOK
    <3> QED
      BY <2>5, <3>1 DEF Attended
  <2>6. CASE i \in stored /\ pc[r] \in {"swap", "cleanup"} /\ i = r
    BY <1>1, <2>1, <2>6 DEF Step, ReadKey, Upload, Swap, Cleanup, DeleteOld, Goto, TypeOK,
                            Attended
  <2>7. CASE i \in stored /\ pc[r] = "deleteOld" /\ i = previous[r]
    BY <1>1, <2>7 DEF Step, ReadKey, Upload, Swap, Cleanup, DeleteOld
  <2>8. i \in stored => i = current \/ Attended(i)
    BY <2>2 DEF TidyInv
  <2>9. CASE i \in stored /\ Attended(i)
    <3>1. PICK q \in Requests : \/ pc[q] \in {"swap", "cleanup"} /\ i = q
                                \/ pc[q] = "deleteOld" /\ i = previous[q]
      BY <2>9 DEF Attended
    <3> QED
      BY <2>3, <2>6, <2>7, <2>9, <3>1
  <2> QED
    BY <2>4, <2>5, <2>8, <2>9
<1>2. ASSUME NEW r \in Requests, Step(r) PROVE TidyInv'
  BY <1>1, <1>2, TypeStep DEF TidyInv
<1>3. ASSUME NEW r \in Requests, FailUpload(r) \/ FailSwap(r) \/ FailDelete(r) \/ Cancel(r)
      PROVE  TidyInv'
  <2>1. TypeOK'
    BY <1>3, TypeStep
  <2>2. faults' # 0
    BY <1>3, AvatarAssumption DEF FailUpload, FailSwap, FailDelete, Cancel, Fault, TidyInv, TypeOK
  <2> QED
    BY <2>1, <2>2 DEF TidyInv
<1>4. CASE UNCHANGED vars
  BY <1>4 DEF vars, TidyInv, TypeOK, Attended
<1> QED
  BY <1>2, <1>3, <1>4 DEF Next

\* Without faults, when all requests have ended no image is left in the bucket
\* that the account does not use.
THEOREM NoOrphansHolds == Spec => []NoOrphans
<1>1. Init => TidyInv
  <2> SUFFICES ASSUME Init PROVE TidyInv
    OBVIOUS
  <2>1. TypeOK
    BY InitInv DEF IInv
  <2> QED
    BY <2>1 DEF Init, TidyInv
<1>2. TidyInv => NoOrphans
  BY DEF TidyInv, NoOrphans, AllEnded, Attended, Ended, TypeOK
<1> QED
  BY <1>1, <1>2, InitInv, StepInv, TidyStep, PTL DEF Spec
-----------------------------------------------------------------------------
(* The deliveries.                                                         *)

Stages == {"cache", "byUri", "urls", "webfinger", "document", "read", "alias",
           "ready", "collect"}
Fields == {"at", "name", "reply", "targets", "since", "left", "found"}

Times ==
    /\ now \in Nat /\ inbox \in ActorInboxes
    /\ wasAt \in [ActorInboxes -> Nat]
    /\ wasAt[inbox] = now
    /\ \A i \in ActorInboxes : wasAt[i] <= now

\* What a lookup keeps was true when the lookup began or later.
Sound(p) ==
    /\ p.inbox \in ActorInboxes
    /\ p.fetched \in Nat /\ p.fetched <= now
    /\ p.fetched - Longest <= wasAt[p.inbox]

Filed(rows) == DOMAIN rows \subseteq Names /\ \A n \in DOMAIN rows : Sound(rows[n])

\* How long a fetch or a delivery may take.
Allowed(t) == IF t \in Warmups THEN FetchTimeout ELSE Deadline

Lookup(t) ==
    LET l == lookup[t]
    IN  /\ Fields \subseteq DOMAIN l
        /\ l.name \in Names /\ l.reply \in BOOLEAN
        /\ l.targets \in Followers \cup {<<>>}
        /\ l.since \in Nat /\ l.since <= now /\ now <= l.since + Allowed(t)
        /\ \/ l.found = <<>>
           \/ \E i \in ActorInboxes : /\ l.found = <<i>>
                                      /\ l.since - (Ttl + Longest) <= wasAt[i]
        /\ l.at \in {"cache", "byUri", "urls", "webfinger", "document"} => l.found = <<>>
        /\ l.at = "read" => \E i \in ActorInboxes : /\ l.found = <<i>>
                                                    /\ l.since <= wasAt[i]
        /\ l.at = "alias" => "profile" \in DOMAIN l /\ Sound(l.profile)

LookupInv ==
    /\ Times
    /\ DOMAIN lookup = Warmups \cup Lookups
    /\ \A t \in Warmups \cup Lookups :
          lookup[t] \in {NotYet, Over} \/ (lookup[t].at \in Stages /\ Lookup(t))
    /\ Filed(profiles)

Replying(t) == lookup[t].at \in Stages /\ lookup[t].reply
Posting == {k \in DOMAIN sends : sends[k].at = "posting"}
Started == {k \in DOMAIN sends : sends[k].at # "waiting"}
Inboxes(K) == {sends[k].to : k \in K}

SendsInv ==
    /\ sends = [k \in DOMAIN sends |-> sends[k]]
    /\ IsFiniteSet(DOMAIN sends)
    /\ \A k \in DOMAIN sends : sends[k].at \in {"waiting", "posting", "sent", "failed"}
    /\ \A j, k \in DOMAIN sends : sends[j].to = sends[k].to => j = k
    /\ owed = Inboxes(DOMAIN sends)
    /\ tried = SetToBag(Inboxes(Started))
    /\ permits \in Nat /\ permits + Cardinality(Posting) = MaxConcurrent

OneReply ==
    /\ \A t, u \in Warmups \cup Lookups : Replying(t) /\ Replying(u) => t = u
    /\ \A t \in Warmups : ~Replying(t)
    /\ \A t \in Lookups : Replying(t) /\ lookup[t].at # "collect" => DOMAIN sends = {}
    /\ DOMAIN sends # {} => \E t \in Lookups : lookup[t].at # "idle"

LEMMA DeliveryNumbers ==
    /\ Ttl \in Nat /\ PruneEvery \in Nat
    /\ Deadline \in Nat \ {0} /\ FetchTimeout \in Nat \ {0} /\ MaxConcurrent \in Nat \ {0}
    /\ Longest \in Nat /\ Deadline <= Longest /\ FetchTimeout <= Longest
    /\ \A t : Allowed(t) \in Nat /\ Allowed(t) <= Longest
  BY DeliveryAssumption DEF Longest, Allowed

LEMMA Apart ==
    /\ NotYet.at = "idle" /\ Over.at = "over"
    /\ "idle" \notin Stages /\ "over" \notin Stages
  BY DEF NotYet, Over, Stages

\* What a lookup is once it has proceeded.
LEMMA Proceeded ==
    ASSUME DOMAIN lookup = Warmups \cup Lookups, NEW t \in Warmups \cup Lookups,
           NEW r, Proceeds(t, r)
    PROVE  /\ DOMAIN lookup' = Warmups \cup Lookups
           /\ \A u \in (Warmups \cup Lookups) \ {t} : lookup'[u] = lookup[u]
           /\ DOMAIN lookup'[t] = DOMAIN lookup[t] \cup DOMAIN r
           /\ \A f \in DOMAIN lookup'[t] :
                 lookup'[t][f] = IF f \in DOMAIN r THEN r[f] ELSE lookup[t][f]
  BY DEF Proceeds

LEMMA LookupEnded ==
    ASSUME DOMAIN lookup = Warmups \cup Lookups, NEW t \in Warmups \cup Lookups, Ends(t)
    PROVE  /\ DOMAIN lookup' = Warmups \cup Lookups
           /\ \A u \in (Warmups \cup Lookups) \ {t} : lookup'[u] = lookup[u]
           /\ lookup'[t] = Over
  BY DEF Ends

\* While the world stands still, it is enough that the lookup that moved is sound.
LEMMA OneMoves ==
    ASSUME LookupInv, UNCHANGED world, NEW t \in Warmups \cup Lookups,
           DOMAIN lookup' = Warmups \cup Lookups,
           \A u \in (Warmups \cup Lookups) \ {t} : lookup'[u] = lookup[u],
           \/ lookup'[t] \in {NotYet, Over}
           \/ lookup'[t].at \in Stages /\ Lookup(t)',
           Filed(profiles')
    PROVE  LookupInv'
<1>1. Times'
  BY DEF LookupInv, Times, world
<1>2. Filed(profiles)'
  BY DEF Filed, Sound, world
<1>3. ASSUME NEW u \in (Warmups \cup Lookups) \ {t}
      PROVE  lookup'[u] \in {NotYet, Over} \/ (lookup'[u].at \in Stages /\ Lookup(u)')
  BY <1>3 DEF LookupInv, Lookup, Sound, world, Allowed
<1> QED
  BY <1>1, <1>2, <1>3 DEF LookupInv

\* Pruning drops rows, and changes none.
LEMMA PrunedSound ==
    ASSUME NEW rows, Pruned(rows), Filed(rows)
    PROVE  Filed(profiles')
  BY DEF Pruned, Filed

LEMMA InsertSound ==
    ASSUME LookupInv, NEW n \in Names, NEW p, Sound(p), Insert(n, p)
    PROVE  Filed(profiles')
<1> DEFINE rows == [m \in DOMAIN profiles \cup {n} |-> IF m = n THEN p ELSE profiles[m]]
<1>1. Filed(rows)
  BY DEF LookupInv, Filed
<1>2. Pruned(rows)
  BY DEF Insert
<1> QED
  BY <1>1, <1>2, PrunedSound

LEMMA AtStage ==
    ASSUME LookupInv, NEW t \in Warmups \cup Lookups, NEW s \in Stages, At(t, s)
    PROVE  Lookup(t) /\ lookup[t].at = s
  BY Apart DEF At, LookupInv

\* A lookup that stays sound in its fields may go on, with the stage and the
\* answer that r gives.
LEMMA GoesOn ==
    ASSUME LookupInv, UNCHANGED world, NEW t \in Warmups \cup Lookups, Lookup(t),
           NEW r, Proceeds(t, r),
           {"at"} \subseteq DOMAIN r, DOMAIN r \subseteq {"at", "found", "left"},
           r.at \in Stages \ {"alias"},
           NEW found, found = IF "found" \in DOMAIN r THEN r.found ELSE lookup[t].found,
           \/ found = <<>>
           \/ \E i \in ActorInboxes : /\ found = <<i>>
                                      /\ lookup[t].since - (Ttl + Longest) <= wasAt[i],
           r.at \in {"cache", "byUri", "urls", "webfinger", "document"} => found = <<>>,
           r.at = "read" => \E i \in ActorInboxes : /\ found = <<i>>
                                                    /\ lookup[t].since <= wasAt[i],
           Filed(profiles')
    PROVE  LookupInv'
<1>1. /\ DOMAIN lookup' = Warmups \cup Lookups
      /\ \A u \in (Warmups \cup Lookups) \ {t} : lookup'[u] = lookup[u]
      /\ DOMAIN lookup'[t] = DOMAIN lookup[t] \cup DOMAIN r
      /\ \A f \in DOMAIN lookup'[t] :
            lookup'[t][f] = IF f \in DOMAIN r THEN r[f] ELSE lookup[t][f]
  BY Proceeded DEF LookupInv
<1>2. Fields \subseteq DOMAIN lookup[t]
  BY DEF Lookup
<1>3. /\ Fields \subseteq DOMAIN lookup'[t]
      /\ lookup'[t].at = r.at
      /\ lookup'[t].name = lookup[t].name /\ lookup'[t].reply = lookup[t].reply
      /\ lookup'[t].targets = lookup[t].targets /\ lookup'[t].since = lookup[t].since
      /\ lookup'[t].found = found
  BY <1>1, <1>2 DEF Fields
<1>4. lookup'[t].at \in Stages /\ Lookup(t)'
  BY <1>3 DEF Lookup, world, Allowed
<1> QED
  BY <1>1, <1>4, OneMoves

LEMMA Begins ==
    ASSUME LookupInv, NEW t \in Lookups, NEW n \in Names, NEW reply \in BOOLEAN,
           NEW list \in Followers \cup {<<>>}, UNCHANGED <<world, cache>>,
           lookup' = [lookup EXCEPT ![t] = Begun(n, reply, list)]
    PROVE  LookupInv'
<1>1. /\ DOMAIN lookup' = Warmups \cup Lookups
      /\ \A u \in (Warmups \cup Lookups) \ {t} : lookup'[u] = lookup[u]
      /\ lookup'[t] = Begun(n, reply, list)
  BY DEF LookupInv
<1>2. lookup'[t].at \in Stages /\ Lookup(t)'
  BY <1>1, DeliveryNumbers DEF Begun, Lookup, Stages, Fields, LookupInv, Times, world, Allowed
<1>3. Filed(profiles')
  BY DEF LookupInv, cache
<1> QED
  BY <1>1, <1>2, <1>3, OneMoves DEF world

\* A lookup that is over disturbs nothing.
LEMMA IsOver ==
    ASSUME LookupInv, UNCHANGED <<world, cache>>, NEW t \in Warmups \cup Lookups, Ends(t)
    PROVE  LookupInv'
<1>1. Filed(profiles')
  BY DEF LookupInv, cache
<1> QED
  BY <1>1, LookupEnded, OneMoves DEF LookupInv, world

LEMMA GetByNameInv ==
    ASSUME LookupInv, NEW t \in Warmups \cup Lookups, GetByName(t) PROVE LookupInv'
<1> DEFINE n == lookup[t].name
           r == IF Fresh(n) THEN [at |-> "ready", found |-> <<profiles[n].inbox>>]
                ELSE [at |-> IF n = "uri" THEN "byUri" ELSE "urls"]
           found == IF "found" \in DOMAIN r THEN r.found ELSE lookup[t].found
<1>1. Lookup(t) /\ lookup[t].at = "cache" /\ Proceeds(t, r) /\ Pruned(profiles)
      /\ UNCHANGED world
  BY AtStage DEF GetByName, Stages, At
<1>2. Filed(profiles')
  BY <1>1, PrunedSound DEF LookupInv
<1>3. CASE Fresh(n)
  <2>1. DOMAIN r = {"at", "found"} /\ r.at = "ready" /\ r.found = <<profiles[n].inbox>>
    BY <1>3
  <2>2. Sound(profiles[n]) /\ now - Ttl <= profiles[n].fetched
    BY <1>3, DeliveryNumbers DEF Fresh, LookupInv, Filed, Sound, Times
  <2>3. lookup[t].since - (Ttl + Longest) <= wasAt[profiles[n].inbox]
    <3>1. /\ profiles[n].fetched \in Nat /\ wasAt[profiles[n].inbox] \in Nat
          /\ profiles[n].fetched - Longest <= wasAt[profiles[n].inbox]
      BY <2>2 DEF Sound, LookupInv, Times
    <3>2. lookup[t].since \in Nat /\ lookup[t].since <= now /\ now \in Nat
      BY <1>1 DEF Lookup, LookupInv, Times
    <3> QED
      BY <2>2, <3>1, <3>2, DeliveryNumbers
  <2>4. found = <<profiles[n].inbox>> /\ profiles[n].inbox \in ActorInboxes
    BY <2>1, <2>2 DEF Sound
  <2> HIDE DEF r, found
  <2> QED
    BY <1>1, <1>2, <2>1, <2>3, <2>4, GoesOn DEF Stages, found
<1>4. CASE ~Fresh(n)
  <2>1. DOMAIN r = {"at"} /\ r.at \in {"byUri", "urls"}
    BY <1>4
  <2>2. found = <<>>
    BY <1>1, <2>1 DEF Lookup
  <2> HIDE DEF r, found
  <2> QED
    BY <1>1, <1>2, <2>1, <2>2, GoesOn DEF Stages, found
<1> QED
  BY <1>3, <1>4

\* The newest of the fresh rows is one of them.
LEMMA NewestIsFresh ==
    ASSUME LookupInv, \E n \in DOMAIN profiles : Fresh(n)
    PROVE  Sound(Newest) /\ now - Ttl <= Newest.fetched
<1> DEFINE rows == {profiles[n] : n \in {m \in DOMAIN profiles : Fresh(m)}}
<1>1. \A p \in rows : /\ Sound(p) /\ now - Ttl <= p.fetched
                      /\ p.fetched \in Nat
  BY DeliveryNumbers DEF LookupInv, Filed, Fresh, Times, Sound
<1>2. \E p \in rows : \A q \in rows : q.fetched <= p.fetched
  <2>1. PICK n \in DOMAIN profiles : Fresh(n)
    OBVIOUS
  <2>2. n \in Names /\ profiles[n] \in rows
    BY <2>1 DEF LookupInv, Filed
  <2>3. CASE \A m \in DOMAIN profiles : Fresh(m) => profiles[m].fetched <= profiles[n].fetched
    BY <2>2, <2>3
  <2>4. CASE \E m \in DOMAIN profiles : /\ Fresh(m)
                                        /\ ~(profiles[m].fetched <= profiles[n].fetched)
    <3>1. PICK m \in DOMAIN profiles : /\ Fresh(m)
                                       /\ ~(profiles[m].fetched <= profiles[n].fetched)
      BY <2>4
    <3>2. profiles[m] \in rows /\ profiles[m].fetched \in Nat /\ profiles[n].fetched \in Nat
      BY <1>1, <2>2, <3>1
    <3>3. m # n
      BY <3>1, <3>2
    <3>4. \A k \in DOMAIN profiles : k \in {m, n}
      BY <3>3, <2>2 DEF LookupInv, Filed, Names
    <3>5. \A q \in rows : q \in {profiles[m], profiles[n]}
      BY <3>4
    <3>6. \A q \in rows : q.fetched <= profiles[m].fetched
      BY <3>1, <3>2, <3>5
    <3> QED
      BY <3>2, <3>6
  <2> QED
    BY <2>3, <2>4
<1>3. Newest \in rows
  BY <1>2 DEF Newest
<1> QED
  BY <1>1, <1>3

LEMMA GetByUriInv ==
    ASSUME LookupInv, NEW t \in Warmups \cup Lookups, GetByUri(t) PROVE LookupInv'
<1> DEFINE there == \E n \in DOMAIN profiles : Fresh(n)
           r == IF there THEN [at |-> "ready", found |-> <<Newest.inbox>>]
                ELSE [at |-> "document"]
           found == IF "found" \in DOMAIN r THEN r.found ELSE lookup[t].found
<1>1. Lookup(t) /\ lookup[t].at = "byUri" /\ Proceeds(t, r) /\ Pruned(profiles)
      /\ UNCHANGED world
  BY AtStage DEF GetByUri, Stages, At
<1>2. Filed(profiles')
  BY <1>1, PrunedSound DEF LookupInv
<1>3. CASE there
  <2>1. DOMAIN r = {"at", "found"} /\ r.at = "ready" /\ r.found = <<Newest.inbox>>
    BY <1>3
  <2>2. Sound(Newest) /\ now - Ttl <= Newest.fetched
    BY <1>3, NewestIsFresh
  <2>3. lookup[t].since - (Ttl + Longest) <= wasAt[Newest.inbox]
    <3>1. /\ Newest.fetched \in Nat /\ wasAt[Newest.inbox] \in Nat
          /\ Newest.fetched - Longest <= wasAt[Newest.inbox]
      BY <2>2 DEF Sound, LookupInv, Times
    <3>2. lookup[t].since \in Nat /\ lookup[t].since <= now /\ now \in Nat
      BY <1>1 DEF Lookup, LookupInv, Times
    <3> QED
      BY <2>2, <3>1, <3>2, DeliveryNumbers
  <2>4. found = <<Newest.inbox>> /\ Newest.inbox \in ActorInboxes
    BY <2>1, <2>2 DEF Sound
  <2> HIDE DEF r, found
  <2> QED
    BY <1>1, <1>2, <2>1, <2>3, <2>4, GoesOn DEF Stages, found
<1>4. CASE ~there
  <2>1. DOMAIN r = {"at"} /\ r.at = "document"
    BY <1>4
  <2>2. found = <<>>
    BY <1>1, <2>1 DEF Lookup
  <2> HIDE DEF r, found
  <2> QED
    BY <1>1, <1>2, <2>1, <2>2, GoesOn DEF Stages, found
<1> QED
  BY <1>3, <1>4

\* A fetch that has no answer yet may begin its wait anew.
LEMMA WaitsAnew ==
    ASSUME LookupInv, UNCHANGED <<world, cache>>, NEW t \in Warmups \cup Lookups, Lookup(t),
           lookup[t].at = "webfinger",
           NEW r, Proceeds(t, r), DOMAIN r \subseteq {"at", "left", "since"},
           "at" \in DOMAIN r => r.at \in {"webfinger", "document"},
           "since" \in DOMAIN r => r.since \in {now, lookup[t].since}
    PROVE  LookupInv'
<1>1. /\ DOMAIN lookup' = Warmups \cup Lookups
      /\ \A u \in (Warmups \cup Lookups) \ {t} : lookup'[u] = lookup[u]
      /\ DOMAIN lookup'[t] = DOMAIN lookup[t] \cup DOMAIN r
      /\ \A f \in DOMAIN lookup'[t] :
            lookup'[t][f] = IF f \in DOMAIN r THEN r[f] ELSE lookup[t][f]
  BY Proceeded DEF LookupInv
<1>2. Fields \subseteq DOMAIN lookup[t] /\ lookup[t].found = <<>>
  BY DEF Lookup
<1>3. /\ Fields \subseteq DOMAIN lookup'[t]
      /\ lookup'[t].at \in {"webfinger", "document"}
      /\ lookup'[t].name = lookup[t].name /\ lookup'[t].reply = lookup[t].reply
      /\ lookup'[t].targets = lookup[t].targets
      /\ lookup'[t].since \in {now, lookup[t].since}
      /\ lookup'[t].found = <<>>
  BY <1>1, <1>2 DEF Fields
<1>4. lookup'[t].at \in Stages /\ Lookup(t)'
  BY <1>3, DeliveryNumbers DEF Lookup, world, Allowed, Stages, LookupInv, Times
<1>5. Filed(profiles')
  BY DEF LookupInv, cache
<1> QED
  BY <1>1, <1>4, <1>5, OneMoves DEF world

LEMMA SearchInv ==
    ASSUME LookupInv, NEW t \in Warmups \cup Lookups, Urls(t) \/ WebFinger(t) \/ NextUrl(t)
    PROVE  LookupInv'
<1>a. Filed(profiles)
  BY DEF LookupInv
<1>1. CASE Urls(t)
  <2>1. /\ Lookup(t) /\ lookup[t].at = "urls" /\ lookup[t].found = <<>>
        /\ UNCHANGED <<world, cache>>
    BY <1>1, AtStage DEF Urls, Stages, At, Lookup
  <2>2. PICK n \in {1, 2} : Proceeds(t, [at |-> "webfinger", left |-> n])
    BY <1>1 DEF Urls
  <2> DEFINE r == [at |-> "webfinger", left |-> n]
  <2>3. Proceeds(t, r) /\ DOMAIN r = {"at", "left"} /\ r.at = "webfinger"
    BY <2>2
  <2> HIDE DEF r
  <2> QED
    BY <2>1, <2>3, <1>a, GoesOn DEF Stages, world, cache
<1>2. CASE WebFinger(t)
  <2>1. Lookup(t) /\ lookup[t].at = "webfinger" /\ UNCHANGED <<world, cache>>
    BY <1>2, AtStage DEF WebFinger, Stages, At
  <2> DEFINE r == [at |-> "document", since |-> IF t \in Warmups THEN now ELSE lookup[t].since]
  <2>2. /\ Proceeds(t, r) /\ DOMAIN r = {"at", "since"} /\ r.at = "document"
        /\ r.since \in {now, lookup[t].since}
    BY <1>2 DEF WebFinger
  <2> HIDE DEF r
  <2> QED
    BY <2>1, <2>2, WaitsAnew
<1>3. CASE NextUrl(t)
  <2>1. Lookup(t) /\ lookup[t].at = "webfinger" /\ UNCHANGED <<world, cache>>
    BY <1>3, AtStage DEF NextUrl, Stages, At
  <2>2. CASE lookup[t].left > 1
    <3> DEFINE r == [left |-> 1, since |-> IF t \in Warmups THEN now ELSE lookup[t].since]
    <3>1. /\ Proceeds(t, r) /\ DOMAIN r = {"left", "since"}
          /\ r.since \in {now, lookup[t].since}
      BY <1>3, <2>2 DEF NextUrl
    <3> HIDE DEF r
    <3> QED
      BY <2>1, <3>1, WaitsAnew
  <2>3. CASE ~(lookup[t].left > 1)
    <3>1. CASE lookup[t].reply
      <4> DEFINE r == [at |-> "ready"]
      <4>1. Proceeds(t, r) /\ DOMAIN r = {"at"} /\ r.at = "ready"
        BY <1>3, <2>3, <3>1 DEF NextUrl, NotFound
      <4>2. lookup[t].found = <<>>
        BY <2>1 DEF Lookup
      <4> HIDE DEF r
      <4> QED
        BY <2>1, <4>1, <4>2, <1>a, GoesOn DEF Stages, world, cache
    <3>2. CASE ~lookup[t].reply
      BY <1>3, <2>1, <2>3, <3>2, IsOver DEF NextUrl, NotFound
    <3> QED
      BY <3>1, <3>2
  <2> QED
    BY <2>2, <2>3
<1> QED
  BY <1>1, <1>2, <1>3

LEMMA DocumentInv ==
    ASSUME LookupInv, NEW t \in Warmups \cup Lookups, Document(t) \/ NoDocument(t)
    PROVE  LookupInv'
<1>a. Filed(profiles)
  BY DEF LookupInv
<1>1. CASE Document(t)
  <2> DEFINE r == [at |-> "read", found |-> <<inbox>>]
  <2>1. Lookup(t) /\ UNCHANGED <<world, cache>>
    BY <1>1, AtStage DEF Document, Stages, At
  <2>2. Proceeds(t, r) /\ DOMAIN r = {"at", "found"} /\ r.at = "read" /\ r.found = <<inbox>>
    BY <1>1 DEF Document
  <2>3. inbox \in ActorInboxes /\ wasAt[inbox] = now /\ now \in Nat
    BY DEF LookupInv, Times
  <2>4. lookup[t].since \in Nat /\ lookup[t].since <= now
    BY <2>1 DEF Lookup
  <2>5. /\ lookup[t].since <= wasAt[inbox]
        /\ lookup[t].since - (Ttl + Longest) <= wasAt[inbox]
    BY <2>3, <2>4, DeliveryNumbers
  <2> HIDE DEF r
  <2> QED
    BY <2>1, <2>2, <2>3, <2>5, <1>a, GoesOn DEF Stages, world, cache
<1>2. CASE NoDocument(t)
  <2>1. Lookup(t) /\ UNCHANGED <<world, cache>>
    BY <1>2, AtStage DEF NoDocument, Stages, At
  <2>2. CASE lookup[t].reply
    <3> DEFINE r == [at |-> "ready", found |-> <<>>]
    <3>1. Proceeds(t, r) /\ DOMAIN r = {"at", "found"} /\ r.at = "ready" /\ r.found = <<>>
      BY <1>2, <2>2 DEF NoDocument
    <3> HIDE DEF r
    <3> QED
      BY <2>1, <3>1, <1>a, GoesOn DEF Stages, world, cache
  <2>3. CASE ~lookup[t].reply
    BY <1>2, <2>1, <2>3, IsOver DEF NoDocument
  <2> QED
    BY <2>2, <2>3
<1> QED
  BY <1>1, <1>2

LEMMA KeepInv ==
    ASSUME LookupInv, NEW t \in Warmups \cup Lookups, Keep(t) PROVE LookupInv'
<1> DEFINE p == Profile(t)
<1>1. /\ Lookup(t) /\ lookup[t].at = "read" /\ UNCHANGED world
      /\ lookup[t].name \in Names
    BY AtStage DEF Keep, Stages, At, Lookup
<1>2. PICK i \in ActorInboxes : lookup[t].found = <<i>> /\ lookup[t].since <= wasAt[i]
  BY <1>1 DEF Lookup
<1>3. /\ lookup[t].since \in Nat /\ lookup[t].since <= now
      /\ now <= lookup[t].since + Allowed(t) /\ now \in Nat /\ wasAt[i] \in Nat
  BY <1>1 DEF Lookup, LookupInv, Times
<1>4. /\ now - Longest <= wasAt[i]
      /\ lookup[t].since - (Ttl + Longest) <= wasAt[i]
  BY <1>2, <1>3, DeliveryNumbers
<1>5. p.inbox = i /\ p.fetched = now
  BY <1>2 DEF Profile
<1> HIDE DEF p
<1>6. Sound(p)
  BY <1>3, <1>4, <1>5 DEF Sound
<1>7. Filed(profiles')
  <2>1. CASE hasKey
    <3>1. Insert(lookup[t].name, p)
      BY <2>1 DEF Keep, p
    <3> QED
      BY <3>1, <1>1, <1>6, InsertSound
  <2>2. CASE ~hasKey
    <3>1. UNCHANGED cache
      BY <2>2 DEF Keep
    <3> QED
      BY <3>1 DEF cache, LookupInv
  <2> QED
    BY <2>1, <2>2
<1>8. CASE t \in Warmups
  <2>1. Ends(t)
    BY <1>8 DEF Keep
  <2> QED
    BY <2>1, <1>1, <1>7, LookupEnded, OneMoves DEF LookupInv
<1>9. CASE t \notin Warmups /\ ~(hasKey /\ lookup[t].name = "address")
  <2> DEFINE r == [at |-> "ready"]
  <2>1. Proceeds(t, r) /\ DOMAIN r = {"at"} /\ r.at = "ready"
    BY <1>9 DEF Keep
  <2> HIDE DEF r
  <2> QED
    BY <1>1, <1>2, <1>4, <1>7, <2>1, GoesOn DEF Stages
<1>10. CASE t \notin Warmups /\ hasKey /\ lookup[t].name = "address"
  <2> DEFINE r == [at |-> "alias", profile |-> p]
  <2>1. /\ Proceeds(t, r) /\ DOMAIN r = {"at", "profile"}
        /\ r.at = "alias" /\ r.profile = p
    BY <1>10 DEF Keep, p
  <2> HIDE DEF r
  <2>2. /\ DOMAIN lookup' = Warmups \cup Lookups
        /\ \A u \in (Warmups \cup Lookups) \ {t} : lookup'[u] = lookup[u]
        /\ DOMAIN lookup'[t] = DOMAIN lookup[t] \cup DOMAIN r
        /\ \A f \in DOMAIN lookup'[t] :
              lookup'[t][f] = IF f \in DOMAIN r THEN r[f] ELSE lookup[t][f]
    BY <2>1, Proceeded DEF LookupInv
  <2>3. Fields \subseteq DOMAIN lookup[t]
    BY <1>1 DEF Lookup
  <2>4. /\ Fields \subseteq DOMAIN lookup'[t] /\ "profile" \in DOMAIN lookup'[t]
        /\ lookup'[t].at = "alias" /\ lookup'[t].profile = p
        /\ lookup'[t].name = lookup[t].name /\ lookup'[t].reply = lookup[t].reply
        /\ lookup'[t].targets = lookup[t].targets /\ lookup'[t].since = lookup[t].since
        /\ lookup'[t].found = <<i>>
    BY <2>1, <2>2, <2>3, <1>2 DEF Fields
  <2>5. Sound(lookup'[t].profile)
    BY <2>4, <1>6
  <2>6. Sound(lookup[t].profile)'
    BY <1>1, <2>5 DEF Sound, world
  <2>7. lookup'[t].at \in Stages /\ Lookup(t)'
    BY <2>4, <2>6, <1>1, <1>4 DEF Lookup, world, Allowed, Stages
  <2> QED
    BY <1>1, <1>7, <2>2, <2>7, OneMoves
<1> QED
  BY <1>8, <1>9, <1>10

LEMMA KeepAliasInv ==
    ASSUME LookupInv, NEW t \in Warmups \cup Lookups, KeepAlias(t) PROVE LookupInv'
<1>1. Lookup(t) /\ lookup[t].at = "alias" /\ UNCHANGED world
  BY AtStage DEF KeepAlias, Stages, At
<1>2. Filed(profiles')
  BY <1>1, InsertSound DEF KeepAlias, Names, Lookup
<1> DEFINE r == [at |-> "ready"]
<1>3. Proceeds(t, r) /\ DOMAIN r = {"at"} /\ r.at = "ready"
  BY DEF KeepAlias
<1>4. \/ lookup[t].found = <<>>
      \/ \E i \in ActorInboxes : /\ lookup[t].found = <<i>>
                                 /\ lookup[t].since - (Ttl + Longest) <= wasAt[i]
  BY <1>1 DEF Lookup
<1> HIDE DEF r
<1> QED
  BY <1>1, <1>2, <1>3, <1>4, GoesOn DEF Stages

LEMMA EndsInv ==
    ASSUME LookupInv, NEW t \in Warmups \cup Lookups,
           Deliver(t) \/ FanOut(t) \/ Collected(t) \/ TimeOut(t)
    PROVE  LookupInv'
<1>1. CASE Deliver(t) \/ Collected(t) \/ TimeOut(t)
  BY <1>1, IsOver DEF Deliver, Collected, TimeOut
<1>2. CASE FanOut(t)
  <2> DEFINE r == [at |-> "collect"]
  <2>1. Lookup(t) /\ UNCHANGED <<world, cache>>
    BY <1>2, AtStage DEF FanOut, Stages, At
  <2>2. Proceeds(t, r) /\ DOMAIN r = {"at"} /\ r.at = "collect"
    BY <1>2 DEF FanOut
  <2>3. \/ lookup[t].found = <<>>
        \/ \E i \in ActorInboxes : /\ lookup[t].found = <<i>>
                                   /\ lookup[t].since - (Ttl + Longest) <= wasAt[i]
    BY <2>1 DEF Lookup
  <2>4. Filed(profiles')
    BY <2>1 DEF LookupInv, cache
  <2> HIDE DEF r
  <2> QED
    BY <2>1, <2>2, <2>3, <2>4, GoesOn DEF Stages, world
<1> QED
  BY <1>1, <1>2

\* Time that passes, and a move of the actor, leave every answer as true as it was.
LEMMA WorldInv ==
    ASSUME LookupInv, Move \/ NextMoment PROVE LookupInv'
<1>1. /\ UNCHANGED <<lookup, profiles>> /\ now' \in Nat /\ now <= now'
      /\ wasAt' \in [ActorInboxes -> Nat] /\ inbox' \in ActorInboxes
      /\ \A i \in ActorInboxes : wasAt[i] <= wasAt'[i] /\ wasAt'[i] <= now'
      /\ wasAt'[inbox'] = now'
  <2>1. CASE Move
    BY <2>1 DEF Move, LookupInv, Times, cache
  <2>2. CASE NextMoment
    BY <2>2 DEF NextMoment, LookupInv, Times, cache
  <2> QED
    BY <2>1, <2>2
<1>2. ASSUME NEW p, Sound(p)
      PROVE  /\ p.inbox \in ActorInboxes /\ p.fetched \in Nat /\ p.fetched <= now'
             /\ p.fetched - Longest <= wasAt'[p.inbox]
  BY <1>1, <1>2, DeliveryNumbers DEF Sound, LookupInv, Times
<1>3. Times'
  BY <1>1 DEF Times
<1>4. Filed(profiles)'
  BY <1>1, <1>2 DEF LookupInv, Filed, Sound
<1>5. ASSUME NEW t \in Warmups \cup Lookups, lookup[t].at \in Stages, Lookup(t)
      PROVE  Lookup(t)'
  <2>1. now' <= lookup[t].since + Allowed(t)
    <3>1. CASE Move
      BY <3>1, <1>5 DEF Move, Lookup
    <3>2. CASE NextMoment
      <4>1. lookup[t] \notin {NotYet, Over} /\ DOMAIN lookup = Warmups \cup Lookups
        BY <1>5, Apart DEF LookupInv
      <4>2. t \in Working
        BY <4>1 DEF Working
      <4>3. now < lookup[t].since + Allowed(t) /\ now' = now + 1
        <5>1. CASE t \in Warmups
          BY <3>2, <4>2, <5>1 DEF NextMoment, Allowed
        <5>2. CASE t \notin Warmups
          BY <3>2, <4>2, <5>2 DEF NextMoment, Allowed, InTime
        <5> QED
          BY <5>1, <5>2
      <4>4. lookup[t].since \in Nat /\ now \in Nat
        BY <1>5 DEF Lookup, LookupInv, Times
      <4> QED
        BY <4>3, <4>4, DeliveryNumbers
    <3> QED
      BY <3>1, <3>2
  <2>2. lookup[t].since \in Nat /\ lookup[t].since <= now /\ now \in Nat
    BY <1>5 DEF Lookup, LookupInv, Times
  <2>3. ASSUME NEW i \in ActorInboxes
        PROVE  /\ wasAt[i] \in Nat /\ wasAt'[i] \in Nat
               /\ lookup[t].since <= wasAt[i] => lookup[t].since <= wasAt'[i]
               /\ (lookup[t].since - (Ttl + Longest) <= wasAt[i]) =>
                      (lookup[t].since - (Ttl + Longest) <= wasAt'[i])
    <3>1. wasAt[i] \in Nat /\ wasAt'[i] \in Nat /\ wasAt[i] <= wasAt'[i]
      BY <1>1 DEF LookupInv, Times
    <3> QED
      BY <2>2, <3>1, DeliveryNumbers
  <2>4. lookup[t].at = "alias" => Sound(lookup[t].profile)'
    <3>1. CASE lookup[t].at = "alias"
      <4>1. Sound(lookup[t].profile)
        BY <3>1, <1>5 DEF Lookup
      <4> QED
        BY <4>1, <1>1, <1>2 DEF Sound
    <3> QED
      BY <3>1
  <2>5. lookup[t].since <= now' /\ lookup'[t] = lookup[t] /\ Allowed(t)' = Allowed(t)
    BY <1>1, <2>2 DEF Allowed
  <2> QED
    BY <1>5, <2>1, <2>3, <2>4, <2>5 DEF Lookup
<1> QED
  BY <1>1, <1>3, <1>4, <1>5 DEF LookupInv

LEMMA ColdInv ==
    ASSUME Times, NEW t \in Warmups PROVE Cold.at \in Stages /\ Fields \subseteq DOMAIN Cold
              /\ Cold.name \in Names /\ Cold.reply \in BOOLEAN /\ Cold.targets = <<>>
              /\ Cold.since = now /\ Cold.found = <<>> /\ Cold.at = "urls"
  BY DEF Cold, Begun, Stages, Fields, Names

LEMMA StartsInv ==
    ASSUME Times, Times', now' = now,
           DOMAIN lookup' = Warmups \cup Lookups, profiles' = <<>>,
           \A t \in Warmups : lookup'[t] = Cold,
           \A t \in Lookups : lookup'[t] \in {NotYet, Over}
    PROVE  LookupInv'
<1>1. Filed(profiles)'
  BY DEF Filed
<1>2. ASSUME NEW t \in Warmups PROVE lookup'[t].at \in Stages /\ Lookup(t)'
  BY <1>2, ColdInv, DeliveryNumbers DEF Lookup, Times, Allowed
<1> QED
  BY <1>1, <1>2 DEF LookupInv

LEMMA LookupNext == LookupInv /\ [DeliveryNext]_deliveryVars => LookupInv'
<1> SUFFICES ASSUME LookupInv, [DeliveryNext]_deliveryVars PROVE LookupInv'
  OBVIOUS
<1>1. ASSUME NEW t \in DOMAIN lookup,
             \/ GetByName(t) \/ GetByUri(t) \/ Urls(t) \/ WebFinger(t) \/ NextUrl(t)
             \/ Document(t) \/ NoDocument(t) \/ Keep(t) \/ KeepAlias(t)
             \/ Deliver(t) \/ FanOut(t) \/ Collected(t) \/ TimeOut(t)
      PROVE  LookupInv'
  <2>1. t \in Warmups \cup Lookups
    BY DEF LookupInv
  <2> QED
    BY <1>1, <2>1, GetByNameInv, GetByUriInv, SearchInv, DocumentInv, KeepInv, KeepAliasInv,
       EndsInv
<1>2. ASSUME NEW t \in Lookups, NEW n \in Names, BeginSingle(t, n) PROVE LookupInv'
  BY <1>2, Begins DEF BeginSingle
<1>3. ASSUME NEW t \in Lookups, NEW list \in Followers, BeginReply(t, list) PROVE LookupInv'
  BY <1>3, Begins DEF BeginReply, Names
<1>4. ASSUME NEW k, Acquire(k) \/ (\E outcome : Finish(k, outcome)) PROVE LookupInv'
  BY <1>4 DEF Acquire, Finish, world, cache, LookupInv, Times, Filed, Sound, Lookup, Allowed
<1>5. CASE Move \/ NextMoment
  BY <1>5, WorldInv
<1>6. CASE StartAgain
  <2>1. Times /\ Times'
    BY <1>6 DEF StartAgain, LookupInv, Times, world
  <2> QED
    BY <1>6, <2>1, StartsInv, DeliveryAssumption DEF StartAgain, world
<1>7. CASE UNCHANGED deliveryVars
  BY <1>7 DEF deliveryVars, LookupInv, Times, Filed, Sound, Lookup, Allowed
<1> QED
  BY <1>1, <1>2, <1>3, <1>4, <1>5, <1>6, <1>7 DEF DeliveryNext

LEMMA LookupInit == DeliveryInit => LookupInv
<1> SUFFICES ASSUME DeliveryInit PROVE LookupInv
  OBVIOUS
<1>1. Times
  BY DEF DeliveryInit, Times
<1>2. Filed(profiles)
  BY DEF Filed, DeliveryInit
<1>3. ASSUME NEW t \in Warmups PROVE lookup[t].at \in Stages /\ Lookup(t)
  <2>1. lookup[t] = Cold /\ now = 1
    BY DEF DeliveryInit
  <2> QED
    BY <1>1, <2>1, ColdInv, DeliveryNumbers DEF Lookup, Times, Allowed
<1>4. \A t \in Lookups : lookup[t] = NotYet
  BY DeliveryAssumption DEF DeliveryInit
<1> QED
  BY <1>1, <1>2, <1>3, <1>4 DEF LookupInv, DeliveryInit

\* An activity goes to an inbox that was the actor's not long ago.
THEOREM InboxIsRecentHolds == DeliverySpec => []InboxIsRecent
<1>1. ASSUME LookupInv, NEW t \in Lookups, At(t, "ready"), lookup[t].found # <<>>
      PROVE  now - wasAt[lookup[t].found[1]] <= Ttl + Longest + Deadline
  <2>1. Lookup(t) /\ t \notin Warmups
    BY <1>1, AtStage, DeliveryAssumption DEF Stages
  <2>2. PICK i \in ActorInboxes : /\ lookup[t].found = <<i>>
                                  /\ lookup[t].since - (Ttl + Longest) <= wasAt[i]
    BY <1>1, <2>1 DEF Lookup
  <2>3. /\ wasAt[i] \in Nat /\ now \in Nat /\ lookup[t].since \in Nat
        /\ now <= lookup[t].since + Deadline
    BY <1>1, <2>1 DEF Lookup, LookupInv, Times, Allowed
  <2>4. now - wasAt[i] <= Ttl + Longest + Deadline
    BY <2>2, <2>3, DeliveryNumbers
  <2> QED
    BY <2>2, <2>4
<1>2. LookupInv => InboxIsRecent
  BY <1>1 DEF InboxIsRecent
<1> QED
  BY <1>2, LookupInit, LookupNext, PTL DEF DeliverySpec

-----------------------------------------------------------------------------
(* The fan-out.                                                            *)

FanInv == LookupInv /\ SendsInv /\ OneReply

\* A set of naturals has a least one.
LEMMA Smallest ==
    ASSUME NEW S \in SUBSET Nat, NEW n \in S
    PROVE  \E m \in S : \A k \in S : m <= k
<1>1. PICK m \in S : \A k \in S : ~(<<k, m>> \in OpToRel(<, Nat))
  BY NatLessThanWellFounded, WFMin
<1>2. ASSUME NEW k \in S PROVE m <= k
  <2>1. k \in Nat /\ m \in Nat
    OBVIOUS
  <2>2. <<k, m>> \notin OpToRel(<, Nat)
    BY <1>1
  <2>3. ~(k < m)
    BY <2>1, <2>2 DEF OpToRel
  <2> QED
    BY <2>1, <2>3
<1> QED
  BY <1>2

\* unique_inbox_targets keeps each inbox of the list, once.
LEMMA UniqueKeeps ==
    ASSUME NEW S, NEW list \in Seq(S)
    PROVE  /\ IsFiniteSet(Unique(list))
           /\ \A j, k \in Unique(list) : list[j] = list[k] => j = k
           /\ Entries(list) = {list[k] : k \in Unique(list)}
<1>1. DOMAIN list = 1..Len(list) /\ Len(list) \in Nat
  OBVIOUS
<1>2. Unique(list) \subseteq 1..Len(list)
  BY <1>1 DEF Unique
<1>3. IsFiniteSet(Unique(list))
  <2>1. IsFiniteSet(1..Len(list))
    BY <1>1, FS_Interval
  <2> QED
    BY <1>2, <2>1, FS_Subset
<1>4. ASSUME NEW j \in Unique(list), NEW k \in Unique(list), list[j] = list[k], j < k
      PROVE  FALSE
  BY <1>1, <1>4 DEF Unique
<1>5. \A j, k \in Unique(list) : list[j] = list[k] => j = k
  <2> SUFFICES ASSUME NEW j \in Unique(list), NEW k \in Unique(list), list[j] = list[k]
               PROVE  j = k
    OBVIOUS
  <2>1. j \in Nat /\ k \in Nat
    BY <1>2
  <2> QED
    BY <2>1, <1>4
<1>6. ASSUME NEW j \in DOMAIN list PROVE \E k \in Unique(list) : list[k] = list[j]
  <2> DEFINE Same == {i \in DOMAIN list : list[i] = list[j]}
  <2>1. Same \in SUBSET Nat /\ j \in Same
    BY <1>1
  <2>2. PICK k \in Same : \A i \in Same : k <= i
    BY <2>1, Smallest
  <2>3. ASSUME NEW i \in 1..(k - 1), list[i] = list[k] PROVE FALSE
    <3>1. k \in 1..Len(list) /\ list[k] = list[j]
      BY <1>1
    <3>2. i \in Same /\ i < k
      BY <1>1, <2>3, <3>1
    <3> QED
      BY <2>2, <3>1, <3>2
  <2> QED
    BY <2>2, <2>3 DEF Unique
<1>7. Unique(list) \subseteq DOMAIN list
  BY DEF Unique
<1>8. Entries(list) = {list[k] : k \in Unique(list)}
  BY <1>6, <1>7 DEF Entries
<1> QED
  BY <1>3, <1>5, <1>8

\* A lookup that goes on, or ends, leaves the fan-out alone.
LEMMA QuietFan ==
    ASSUME FanInv, LookupInv', UNCHANGED fanout, NEW t \in Warmups \cup Lookups,
           lookup[t].at \in Stages,
           \A u \in (Warmups \cup Lookups) \ {t} : lookup'[u] = lookup[u],
           \/ lookup'[t] = Over
           \/ /\ lookup[t].at # "collect" /\ lookup'[t].at \in Stages \ {"collect"}
              /\ lookup'[t].reply = lookup[t].reply
    PROVE  FanInv'
<1>1. SendsInv' /\ sends' = sends
  BY DEF FanInv, SendsInv, fanout, Inboxes, Started, Posting
<1>2. ASSUME NEW u \in Warmups \cup Lookups, Replying(u)'
      PROVE  Replying(u) /\ (lookup'[u].at # "collect" => lookup[u].at # "collect")
  BY <1>2, Apart DEF Replying
<1>3. ASSUME DOMAIN sends # {} PROVE \E u \in Lookups : lookup'[u].at # "idle"
  BY <1>3, Apart DEF FanInv, OneReply
<1> QED
  BY <1>1, <1>2, <1>3 DEF FanInv, OneReply

LEMMA LookupFan ==
    ASSUME FanInv, LookupInv', NEW t \in Warmups \cup Lookups,
           \/ GetByName(t) \/ GetByUri(t) \/ Urls(t) \/ WebFinger(t) \/ NextUrl(t)
           \/ Document(t) \/ NoDocument(t) \/ Keep(t) \/ KeepAlias(t)
    PROVE  FanInv'
<1>1. /\ lookup[t].at \in Stages \ {"collect"} /\ UNCHANGED fanout
      /\ DOMAIN lookup = Warmups \cup Lookups
  BY DEF GetByName, GetByUri, Urls, WebFinger, NextUrl, Document, NoDocument, Keep,
         KeepAlias, At, Stages, FanInv, LookupInv
<1>2. Fields \subseteq DOMAIN lookup[t]
  BY <1>1, Apart DEF FanInv, LookupInv, Lookup
<1>3. CASE Ends(t)
  BY <1>1, <1>3, LookupEnded, QuietFan
<1>4. ASSUME NEW r, Proceeds(t, r), "reply" \notin DOMAIN r,
             "at" \in DOMAIN r => r.at \in Stages \ {"collect"}
      PROVE  FanInv'
  <2>1. /\ \A u \in (Warmups \cup Lookups) \ {t} : lookup'[u] = lookup[u]
        /\ DOMAIN lookup'[t] = DOMAIN lookup[t] \cup DOMAIN r
        /\ \A f \in DOMAIN lookup'[t] :
              lookup'[t][f] = IF f \in DOMAIN r THEN r[f] ELSE lookup[t][f]
    BY <1>1, <1>4, Proceeded
  <2>2. lookup'[t].at \in Stages \ {"collect"} /\ lookup'[t].reply = lookup[t].reply
    BY <1>1, <1>2, <1>4, <2>1 DEF Fields
  <2> QED
    BY <1>1, <2>1, <2>2, QuietFan
<1>5. Ends(t) \/ \E r : /\ Proceeds(t, r) /\ "reply" \notin DOMAIN r
                        /\ "at" \in DOMAIN r => r.at \in Stages \ {"collect"}
  <2>1. CASE GetByName(t) \/ GetByUri(t)
    BY <2>1 DEF GetByName, GetByUri, Stages
  <2>2. CASE Urls(t) \/ WebFinger(t) \/ NextUrl(t)
    BY <2>2 DEF Urls, WebFinger, NextUrl, NotFound, Stages
  <2>3. CASE Document(t) \/ NoDocument(t)
    BY <2>3 DEF Document, NoDocument, Stages
  <2>4. CASE Keep(t) \/ KeepAlias(t)
    BY <2>4 DEF Keep, KeepAlias, Stages
  <2> QED
    BY <2>1, <2>2, <2>3, <2>4
<1> QED
  BY <1>3, <1>4, <1>5

LEMMA EndsFan ==
    ASSUME FanInv, LookupInv', NEW t \in Warmups \cup Lookups,
           Deliver(t) \/ Collected(t) \/ TimeOut(t)
    PROVE  FanInv'
<1>1. Ends(t) /\ DOMAIN lookup = Warmups \cup Lookups /\ UNCHANGED <<owed, permits, tried>>
  BY DEF Deliver, Collected, TimeOut, fanout, FanInv, LookupInv
<1>2. sends' = sends
  <2>1. CASE TimeOut(t)
    <3>1. {j \in DOMAIN sends : LeftOver(j)} = DOMAIN sends
      BY DEF LeftOver
    <3>2. sends' = [k \in DOMAIN sends |-> sends[k]]
      BY <2>1, <3>1 DEF TimeOut
    <3> QED
      BY <3>2 DEF FanInv, SendsInv
  <2> QED
    BY <2>1 DEF Deliver, Collected, fanout
<1>3. lookup[t].at \in Stages
  <2>1. CASE TimeOut(t)
    BY <2>1 DEF TimeOut, Working, FanInv, LookupInv
  <2> QED
    BY <2>1 DEF Deliver, Collected, At, Stages
<1> QED
  BY <1>1, <1>2, <1>3, LookupEnded, QuietFan DEF fanout

\* A fan-out begins with a task for each inbox, none of which has begun.
LEMMA FanOutFan ==
    ASSUME FanInv, LookupInv', NEW t \in Warmups \cup Lookups, FanOut(t) PROVE FanInv'
<1> DEFINE list == lookup[t].targets \o lookup[t].found
           r == [at |-> "collect"]
<1>1. /\ lookup[t].at = "ready" /\ lookup[t].reply /\ lookup[t].at \in Stages
      /\ DOMAIN lookup = Warmups \cup Lookups /\ Proceeds(t, r)
      /\ UNCHANGED <<permits, tried>>
      /\ sends' = [k \in Unique(list) |-> [to |-> list[k], at |-> "waiting"]]
      /\ owed' = Entries(list)
  BY DEF FanOut, At, Stages, FanInv, LookupInv
<1>2. Lookup(t) /\ Replying(t)
  BY <1>1, Apart DEF FanInv, LookupInv, Replying
<1>3. t \in Lookups /\ DOMAIN sends = {}
  BY <1>1, <1>2 DEF FanInv, OneReply
<1>4. PICK S : list \in Seq(S)
  <2> DEFINE T == Entries(lookup[t].targets) \cup ActorInboxes
  <2>1. lookup[t].targets \in Seq(Entries(lookup[t].targets))
    <3>1. lookup[t].targets \in Followers \cup {<<>>}
      BY <1>2 DEF Lookup
    <3>2. CASE lookup[t].targets \in Followers
      BY <3>2, DeliveryAssumption DEF Entries
    <3>3. CASE lookup[t].targets = <<>>
      BY <3>3
    <3> QED
      BY <3>1, <3>2, <3>3
  <2>2. lookup[t].found \in Seq(ActorInboxes)
    <3>1. CASE lookup[t].found = <<>>
      BY <3>1
    <3>2. ASSUME NEW i \in ActorInboxes, lookup[t].found = <<i>>
          PROVE  lookup[t].found \in Seq(ActorInboxes)
      BY <3>2
    <3> QED
      BY <1>2, <3>1, <3>2 DEF Lookup
  <2> HIDE DEF T
  <2>3. lookup[t].targets \in Seq(T) /\ lookup[t].found \in Seq(T)
    BY <2>1, <2>2 DEF T
  <2>4. list \in Seq(T)
    BY <2>3
  <2> QED
    BY <2>4
<1> HIDE DEF list
<1>5. /\ IsFiniteSet(Unique(list))
      /\ \A j, k \in Unique(list) : list[j] = list[k] => j = k
      /\ Entries(list) = {list[k] : k \in Unique(list)}
  BY <1>4, UniqueKeeps
<1>6. /\ DOMAIN sends' = Unique(list)
      /\ \A k \in DOMAIN sends' : sends'[k].to = list[k] /\ sends'[k].at = "waiting"
      /\ sends' = [k \in DOMAIN sends' |-> sends'[k]]
  BY <1>1
<1>7. SendsInv'
  <2>1. Posting = {} /\ Started = {} /\ Posting' = {} /\ Started' = {}
    BY <1>3, <1>6 DEF Posting, Started
  <2>2. Inboxes(Started)' = Inboxes(Started)
    BY <2>1 DEF Inboxes
  <2>3. tried' = SetToBag(Inboxes(Started)')
    BY <1>1, <2>2 DEF FanInv, SendsInv
  <2>4. owed' = {sends'[k].to : k \in DOMAIN sends'}
    BY <1>1, <1>5, <1>6
  <2> QED
    BY <1>1, <1>5, <1>6, <2>1, <2>3, <2>4 DEF FanInv, SendsInv, Inboxes
<1>8. /\ \A u \in (Warmups \cup Lookups) \ {t} : lookup'[u] = lookup[u]
      /\ lookup'[t].at = "collect" /\ lookup'[t].reply
  <2>1. "at" \in DOMAIN lookup[t] /\ "reply" \in DOMAIN lookup[t]
    BY <1>2 DEF Lookup, Fields
  <2>2. DOMAIN r = {"at"} /\ r.at = "collect"
    OBVIOUS
  <2> HIDE DEF r
  <2> QED
    BY <1>1, <2>1, <2>2, Proceeded
<1>9. \A u \in Warmups \cup Lookups : Replying(u)' => Replying(u)
  BY <1>2, <1>8 DEF Replying
<1>10. OneReply'
  <2>1. \A u \in Lookups : Replying(u)' => u = t
    BY <1>2, <1>9 DEF FanInv, OneReply
  <2>2. \A u \in Warmups : ~Replying(u)'
    BY <1>9 DEF FanInv, OneReply
  <2> QED
    BY <1>3, <1>8, <2>1, <2>2 DEF OneReply
<1> QED
  BY <1>7, <1>10 DEF FanInv

\* Steps that leave the lookups alone.
LEMMA SameLookups ==
    ASSUME FanInv, LookupInv', SendsInv', UNCHANGED lookup, DOMAIN sends' = DOMAIN sends
    PROVE  FanInv'
  BY DEF FanInv, OneReply, Replying

LEMMA AcquireFan ==
    ASSUME FanInv, LookupInv', NEW k \in DOMAIN sends, Acquire(k) PROVE FanInv'
<1> DEFINE s == [to |-> sends[k].to, at |-> "posting", since |-> now]
<1>1. /\ sends[k].at = "waiting" /\ permits > 0 /\ permits' = permits - 1
      /\ sends' = [sends EXCEPT ![k] = s]
      /\ tried' = tried (+) SetToBag({sends[k].to}) /\ UNCHANGED <<lookup, owed>>
  BY DEF Acquire
<1>2. s.to = sends[k].to /\ s.at = "posting"
  OBVIOUS
<1> HIDE DEF s
<1>3. /\ DOMAIN sends' = DOMAIN sends /\ sends'[k] = s
      /\ \A j \in DOMAIN sends \ {k} : sends'[j] = sends[j]
      /\ sends' = [j \in DOMAIN sends' |-> sends'[j]]
      /\ \A j \in DOMAIN sends : sends'[j].to = sends[j].to
  BY <1>1, <1>2
<1>4. Posting' = Posting \cup {k} /\ k \notin Posting /\ IsFiniteSet(Posting)
  <2>1. IsFiniteSet(Posting)
    BY FS_Subset DEF FanInv, SendsInv, Posting
  <2> QED
    BY <1>1, <1>2, <1>3, <2>1 DEF Posting
<1>5. Cardinality(Posting') = Cardinality(Posting) + 1 /\ Cardinality(Posting) \in Nat
  BY <1>4, FS_AddElement, FS_CardinalityType
<1>6. permits' \in Nat /\ permits' + Cardinality(Posting') = MaxConcurrent
  BY <1>1, <1>5, DeliveryNumbers DEF FanInv, SendsInv
<1>7. Started' = Started \cup {k} /\ k \notin Started
  BY <1>1, <1>2, <1>3 DEF Started
<1>8. /\ {sends'[j].to : j \in Started'} = Inboxes(Started) \cup {sends[k].to}
      /\ sends[k].to \notin Inboxes(Started)
  BY <1>1, <1>3, <1>7 DEF Inboxes, Started, FanInv, SendsInv
<1>9. tried' = SetToBag(Inboxes(Started) \cup {sends[k].to})
  <2> DEFINE I == Inboxes(Started)
             x == sends[k].to
  <2>1. tried' = SetToBag(I) (+) SetToBag({x})
    BY <1>1 DEF FanInv, SendsInv
  <2> HIDE DEF I, x
  <2>2. x \notin I
    BY <1>8 DEF I, x
  <2>3. SetToBag(I) (+) SetToBag({x}) = SetToBag(I \cup {x})
    BY <2>2 DEF (+), SetToBag
  <2> QED
    BY <2>1, <2>3 DEF I, x
<1>10. owed' = {sends'[j].to : j \in DOMAIN sends'}
  BY <1>1, <1>3 DEF FanInv, SendsInv, Inboxes
<1>11. SendsInv'
  <2>1. /\ \A j \in DOMAIN sends' : sends'[j].at \in {"waiting", "posting", "sent", "failed"}
        /\ \A i, j \in DOMAIN sends' : sends'[i].to = sends'[j].to => i = j
        /\ IsFiniteSet(DOMAIN sends')
    BY <1>2, <1>3 DEF FanInv, SendsInv
  <2> QED
    BY <1>3, <1>6, <1>8, <1>9, <1>10, <2>1 DEF SendsInv, Inboxes
<1> QED
  BY <1>1, <1>3, <1>11, SameLookups

LEMMA FinishFan ==
    ASSUME FanInv, LookupInv', NEW k \in DOMAIN sends, NEW outcome \in {"sent", "failed"},
           Finish(k, outcome)
    PROVE  FanInv'
<1> DEFINE s == [to |-> sends[k].to, at |-> outcome]
<1>1. /\ sends[k].at = "posting" /\ permits' = permits + 1
      /\ sends' = [sends EXCEPT ![k] = s]
      /\ UNCHANGED <<lookup, owed, tried>>
  BY DEF Finish, Released
<1>2. s.to = sends[k].to /\ s.at = outcome
  OBVIOUS
<1> HIDE DEF s
<1>3. /\ DOMAIN sends' = DOMAIN sends /\ sends'[k] = s
      /\ \A j \in DOMAIN sends \ {k} : sends'[j] = sends[j]
      /\ sends' = [j \in DOMAIN sends' |-> sends'[j]]
      /\ \A j \in DOMAIN sends : sends'[j].to = sends[j].to
  BY <1>1, <1>2
<1>4. Posting' = Posting \ {k} /\ k \in Posting /\ IsFiniteSet(Posting)
  <2>1. IsFiniteSet(Posting)
    BY FS_Subset DEF FanInv, SendsInv, Posting
  <2> QED
    BY <1>1, <1>2, <1>3, <2>1 DEF Posting
<1>5. Cardinality(Posting') = Cardinality(Posting) - 1 /\ Cardinality(Posting) \in Nat
  BY <1>4, FS_RemoveElement, FS_CardinalityType
<1>6. permits' \in Nat /\ permits' + Cardinality(Posting') = MaxConcurrent
  BY <1>1, <1>5, DeliveryNumbers DEF FanInv, SendsInv
<1>7. Started' = Started
  BY <1>1, <1>2, <1>3 DEF Started
<1>8. {sends'[j].to : j \in Started'} = Inboxes(Started)
  BY <1>3, <1>7 DEF Inboxes, Started
<1>9. owed' = {sends'[j].to : j \in DOMAIN sends'}
  BY <1>1, <1>3 DEF FanInv, SendsInv, Inboxes
<1>10. SendsInv'
  <2>1. /\ \A j \in DOMAIN sends' : sends'[j].at \in {"waiting", "posting", "sent", "failed"}
        /\ \A i, j \in DOMAIN sends' : sends'[i].to = sends'[j].to => i = j
        /\ IsFiniteSet(DOMAIN sends')
    BY <1>2, <1>3 DEF FanInv, SendsInv
  <2>2. tried' = SetToBag(Inboxes(Started))
    BY <1>1 DEF FanInv, SendsInv
  <2> QED
    BY <1>3, <1>6, <1>8, <1>9, <2>1, <2>2 DEF SendsInv, Inboxes
<1> QED
  BY <1>1, <1>3, <1>10, SameLookups

LEMMA BeginsFan ==
    ASSUME FanInv, LookupInv', NEW t \in Lookups,
           \/ \E n \in Names : BeginSingle(t, n)
           \/ \E list \in Followers : BeginReply(t, list)
    PROVE  FanInv'
<1>1. /\ lookup[t].at = "idle" /\ UNCHANGED fanout /\ DOMAIN lookup = Warmups \cup Lookups
      /\ \A u \in (Warmups \cup Lookups) \ {t} : lookup'[u] = lookup[u]
  BY DEF BeginSingle, BeginReply, At, FanInv, LookupInv
<1>2. /\ lookup'[t].at = "cache"
      /\ \/ ~lookup'[t].reply
         \/ \A u \in Lookups : lookup[u].at = "idle"
  BY <1>1 DEF BeginSingle, BeginReply, At, Begun
<1>3. SendsInv' /\ sends' = sends
  BY <1>1 DEF FanInv, SendsInv, fanout, Inboxes, Started, Posting
<1>4. OneReply'
  <2>1. CASE ~lookup'[t].reply
    <3>1. \A u \in Warmups \cup Lookups : Replying(u)' => Replying(u) /\ u # t
      BY <1>1, <2>1 DEF Replying
    <3>2. DOMAIN sends # {} => \E u \in Lookups : lookup'[u].at # "idle"
      BY <1>2
    <3> QED
      BY <1>1, <1>3, <3>1, <3>2 DEF FanInv, OneReply
  <2>2. CASE \A u \in Lookups : lookup[u].at = "idle"
    <3>1. \A u \in Warmups \cup Lookups : ~Replying(u)
      BY <2>2, Apart DEF FanInv, OneReply, Replying
    <3>2. DOMAIN sends = {}
      BY <2>2 DEF FanInv, OneReply
    <3>3. \A u \in Warmups \cup Lookups : Replying(u)' => u = t
      BY <1>1, <3>1 DEF Replying
    <3> QED
      BY <1>3, <3>2, <3>3, DeliveryAssumption DEF OneReply
  <2> QED
    BY <1>2, <2>1, <2>2
<1> QED
  BY <1>3, <1>4 DEF FanInv

\* A start begins with no fan-out.
LEMMA FreshFan ==
    ASSUME LookupInv, sends = <<>>, owed = {}, permits = MaxConcurrent, tried = EmptyBag,
           \A t \in Warmups : lookup[t] = Cold,
           \A t \in Lookups : lookup[t] \in {NotYet, Over}
    PROVE  FanInv
<1>1. DOMAIN sends = {}
  OBVIOUS
<1>2. Posting = {} /\ Started = {}
  BY <1>1 DEF Posting, Started
<1>3. Cardinality({}) = 0 /\ IsFiniteSet({})
  BY FS_EmptySet
<1>4. SendsInv
  <2>1. Inboxes(DOMAIN sends) = {} /\ Inboxes(Started) = {}
    BY <1>1, <1>2 DEF Inboxes
  <2>2. sends = [k \in DOMAIN sends |-> sends[k]]
    OBVIOUS
  <2>3. tried = SetToBag(Inboxes(Started))
    BY <2>1 DEF EmptyBag
  <2>4. permits \in Nat /\ permits + Cardinality(Posting) = MaxConcurrent
    BY <1>2, <1>3, DeliveryNumbers
  <2> QED
    BY <1>1, <1>3, <2>1, <2>2, <2>3, <2>4 DEF SendsInv
<1>5. \A t \in Warmups \cup Lookups : ~Replying(t)
  BY Apart DEF Replying, Cold, Begun
<1>6. OneReply
  BY <1>1, <1>5 DEF OneReply
<1> QED
  BY <1>4, <1>6 DEF FanInv

LEMMA FanNext == FanInv /\ [DeliveryNext]_deliveryVars => FanInv'
<1> SUFFICES ASSUME FanInv, [DeliveryNext]_deliveryVars PROVE FanInv'
  OBVIOUS
<1>1. LookupInv'
  BY LookupNext DEF FanInv
<1>2. ASSUME NEW t \in DOMAIN lookup,
             \/ GetByName(t) \/ GetByUri(t) \/ Urls(t) \/ WebFinger(t) \/ NextUrl(t)
             \/ Document(t) \/ NoDocument(t) \/ Keep(t) \/ KeepAlias(t)
             \/ Deliver(t) \/ FanOut(t) \/ Collected(t) \/ TimeOut(t)
      PROVE  FanInv'
  <2>1. t \in Warmups \cup Lookups
    BY DEF FanInv, LookupInv
  <2> QED
    BY <1>1, <1>2, <2>1, LookupFan, EndsFan, FanOutFan
<1>3. CASE Move \/ NextMoment \/ UNCHANGED deliveryVars
  <2>1. UNCHANGED <<lookup, fanout>>
    BY <1>3 DEF Move, NextMoment, deliveryVars, fanout
  <2>2. SendsInv'
    BY <2>1 DEF FanInv, SendsInv, fanout, Inboxes, Started, Posting
  <2> QED
    BY <1>1, <2>1, <2>2, SameLookups DEF fanout
<1>4. CASE StartAgain
  <2>1. /\ sends' = <<>> /\ owed' = {} /\ permits' = MaxConcurrent /\ tried' = EmptyBag
        /\ \A t \in Lookups : lookup'[t] \in {NotYet, Over}
        /\ \A t \in Warmups : lookup'[t] = Cold' 
    BY <1>4, DeliveryAssumption DEF StartAgain, world, Cold, Begun
  <2>2. EmptyBag' = EmptyBag /\ NotYet' = NotYet /\ Over' = Over
    BY DEF EmptyBag, NotYet, Over
  <2>3. FanInv'
    <3>1. DOMAIN sends' = {}
      BY <2>1
    <3>2. Posting' = {} /\ Started' = {}
      BY <3>1 DEF Posting, Started
    <3>3. Cardinality({}) = 0 /\ IsFiniteSet({})
      BY FS_EmptySet
    <3>4. SendsInv'
      <4>1. Inboxes(DOMAIN sends)' = {} /\ Inboxes(Started)' = {}
        BY <3>1, <3>2 DEF Inboxes
      <4>2. sends' = [k \in DOMAIN sends' |-> sends'[k]]
        BY <2>1
      <4>3. tried' = SetToBag(Inboxes(Started)')
        BY <2>1, <2>2, <4>1 DEF EmptyBag
      <4>4. permits' \in Nat /\ permits' + Cardinality(Posting') = MaxConcurrent
        BY <2>1, <3>2, <3>3, DeliveryNumbers
      <4> QED
        BY <2>1, <3>1, <3>3, <4>1, <4>2, <4>3, <4>4 DEF SendsInv
    <3>5. \A t \in Warmups \cup Lookups : ~Replying(t)'
      BY <2>1, Apart DEF Replying, Cold, Begun
    <3> QED
      BY <1>1, <3>1, <3>4, <3>5 DEF FanInv, OneReply
  <2> QED
    BY <2>3
<1> QED
  BY <1>1, <1>2, <1>3, <1>4, AcquireFan, FinishFan, BeginsFan DEF DeliveryNext

\* Each inbox that a fan-out is for is tried once, and none twice.
THEOREM EveryInboxOnceHolds == DeliverySpec => []EveryInboxOnce
<1>1. DeliveryInit => FanInv
  BY LookupInit, FreshFan, DeliveryAssumption DEF DeliveryInit
<1>2. FanInv => EveryInboxOnce
  <2> SUFFICES ASSUME FanInv PROVE EveryInboxOnce
    OBVIOUS
  <2>1. Inboxes(Started) \subseteq owed
    BY DEF FanInv, SendsInv, Inboxes, Started
  <2>2. tried \sqsubseteq SetToBag(owed)
    <3>1. tried = SetToBag(Inboxes(Started))
      BY DEF FanInv, SendsInv
    <3> DEFINE I == Inboxes(Started)
    <3>2. I \subseteq owed
      BY <2>1
    <3> HIDE DEF I
    <3>3. SetToBag(I) \sqsubseteq SetToBag(owed)
      BY <3>2 DEF \sqsubseteq, SetToBag
    <3> QED
      BY <3>1, <3>3 DEF I
  <2>3. ASSUME \A k \in DOMAIN sends : /\ sends[k].at # "posting"
                                       /\ sends[k].at = "waiting" => permits = 0
        PROVE  BagToSet(tried) = owed
    <3>1. Posting = {}
      BY <2>3 DEF Posting
    <3>2. permits = MaxConcurrent
      BY <3>1, FS_EmptySet, DeliveryNumbers DEF FanInv, SendsInv
    <3>3. Started = DOMAIN sends
      BY <2>3, <3>2, DeliveryNumbers DEF Started
    <3>4. tried = SetToBag(owed)
      BY <3>3 DEF FanInv, SendsInv
    <3> QED
      BY <3>4 DEF BagToSet, SetToBag
  <2> QED
    BY <2>2, <2>3 DEF EveryInboxOnce
<1> QED
  BY <1>1, <1>2, FanNext, PTL DEF DeliverySpec

-----------------------------------------------------------------------------
(* The backups.                                                            *)

Objects == [begun : Nat, seal : Seals \cup {Plain}, holds : Nat, put : Nat]

TaskStates == {Idle, [at |-> "listing"]}
              \cup [at : {"sealing"}, holds : Nat]
              \cup [at : {"uploading"}, holds : Nat, begun : Nat]
              \cup [at : {"deleting"}, doomed : SUBSET Objects]

BackupTypeOK ==
    /\ version \in Nat /\ second \in Nat /\ puts \in Nat /\ promised \in Nat
    /\ slips \in Nat /\ seal \in Seals \cup {Plain}
    /\ bucket \in SUBSET Objects /\ IsFiniteSet(bucket)
    /\ task \in [Tasks -> TaskStates]

Uploading == {t \in Tasks : task[t].at = "uploading"}
Carrying == {t \in Tasks : task[t].at \in {"sealing", "uploading"}}
IsDoomed(d) == \E u \in Tasks : task[u].at = "deleting" /\ d \in task[u].doomed

\* What is on its way or promised is no newer than the database, and what is on
\* its way is no older than the promise.
InOrder ==
    /\ promised <= version
    /\ \A t \in Carrying : promised <= task[t].holds /\ task[t].holds <= version

\* A second has one object. It has the key of now if it is of the second of now,
\* or of the one in which an upload under way began, or later.
OfItsSecond ==
    /\ \A o \in bucket : o.put <= puts /\ o.begun <= second
    /\ \A o, p \in bucket : o.begun = p.begun => o = p
    /\ \A o \in bucket : o.begun = second => o.seal = seal
    /\ \A t \in Uploading :
          /\ task[t].begun <= second
          /\ \A o \in bucket : task[t].begun <= o.begun => o.seal = seal

\* Fewer than there are tasks began before second b and were put after object q,
\* or may yet be.
Overtakers(q, b) == {p \in bucket : p.put > q /\ p.begun < b}
Early(b) == {t \in Uploading : task[t].begun < b}
FewOvertake(q, b) ==
    Cardinality(Overtakers(q, b)) + Cardinality(Early(b)) < Cardinality(Tasks)

FewOvertakeAny == \A o \in bucket : FewOvertake(o.put, o.begun)

\* What a cleanup has listed is of an earlier second, and there is some.
ListedBefore ==
    /\ \A d \in Objects : IsDoomed(d) => d.begun < second /\ d.put <= puts
    /\ \A t \in Tasks : task[t].at = "deleting" => task[t].doomed # {}

Good(o) == Opens(o) /\ o.holds >= promised

\* No cleanup will delete z: it is of a later second than all that is listed, or
\* it is object q, and none of second b or later is listed.
Safe(z, q, b) ==
    \/ z.begun >= b /\ \A d \in Objects : IsDoomed(d) => d.begun < z.begun
    \/ z.put = q /\ \A d \in Objects : IsDoomed(d) => d.begun < b /\ Name(d) # Name(z)

\* Since object q was put, in second b, all is good, and one object is safe.
Since(q, b) ==
    /\ q <= puts /\ b <= second
    /\ \A p \in bucket : /\ p.put >= q => Good(p)
                         /\ p.begun > b => p.put > q
    /\ FewOvertake(q, b)
    /\ \E z \in bucket : z.put >= q /\ Safe(z, q, b)

Restorable == promised > 0 => \E q, b \in Nat : Since(q, b)

BackupInv == /\ BackupTypeOK /\ InOrder /\ OfItsSecond /\ FewOvertakeAny
             /\ ListedBefore /\ Restorable

LEMMA Largest ==
    ASSUME NEW S \in SUBSET Nat, NEW n \in S, NEW b \in Nat, \A k \in S : k <= b
    PROVE  \E m \in S : \A k \in S : k <= m
<1> DEFINE T == {b - k : k \in S}
<1>1. T \in SUBSET Nat /\ b - n \in T
  OBVIOUS
<1>2. PICK m \in T : \A k \in T : m <= k
  BY <1>1, Smallest
<1>3. PICK j \in S : m = b - j
  BY <1>2
<1>4. ASSUME NEW k \in S PROVE k <= j
  <2>1. b - k \in T /\ k \in Nat /\ j \in Nat
    OBVIOUS
  <2>2. b - j <= b - k
    BY <1>2, <1>3, <2>1
  <2> QED
    BY <2>1, <2>2
<1> QED
  BY <1>4

LEMMA BackupNumbers ==
    /\ IsFiniteSet(Tasks) /\ Cardinality(Tasks) \in Nat /\ Retention \in Nat
    /\ Cardinality(Tasks) <= Retention
    /\ {} \in SUBSET Tasks
  BY BackupAssumption, FS_CardinalityType

\* What a task carries, by where it is.
LEMMA Carries ==
    ASSUME BackupTypeOK, NEW t \in Tasks
    PROVE  /\ task[t].at \in {"sealing", "uploading"} => task[t].holds \in Nat
           /\ task[t].at = "uploading" => task[t].begun \in Nat
           /\ task[t].at = "deleting" => task[t].doomed \in SUBSET Objects
<1>1. task[t] \in TaskStates
  BY DEF BackupTypeOK
<1> QED
  BY <1>1 DEF TaskStates, Idle

\* The promise of an upload is that of the oldest snapshot on its way.
LEMMA FloorIsLeast ==
    ASSUME BackupTypeOK, NEW t \in Tasks, task[t].at = "uploading"
    PROVE  /\ Floor(t) \in Nat
           /\ \E u \in Carrying : Floor(t) = task[u].holds
           /\ \A u \in Carrying : Floor(t) <= task[u].holds
<1> DEFINE H == {task[u].holds : u \in Carrying}
<1>1. H \in SUBSET Nat
  BY Carries DEF Carrying
<1>2. t \in Carrying /\ task[t].holds \in H
  BY DEF Carrying
<1>3. PICK m \in H : \A k \in H : m <= k
  BY <1>1, <1>2, Smallest
<1>4. \A u \in Carrying : m <= task[u].holds
  BY <1>3
<1>5. Floor(t) = CHOOSE v \in H : \A u \in Carrying : v <= task[u].holds
  BY DEF Floor, Carrying
<1>6. Floor(t) \in H /\ \A u \in Carrying : Floor(t) <= task[u].holds
  <2> HIDE DEF H
  <2> QED
    BY <1>3, <1>4, <1>5
<1> QED
  BY <1>1, <1>6

LEMMA SetsAreFinite ==
    ASSUME BackupTypeOK, NEW q, NEW b
    PROVE  /\ IsFiniteSet(Overtakers(q, b)) /\ Cardinality(Overtakers(q, b)) \in Nat
           /\ IsFiniteSet(Early(b)) /\ Cardinality(Early(b)) \in Nat
<1>1. Overtakers(q, b) \in SUBSET bucket /\ IsFiniteSet(bucket)
  BY DEF Overtakers, BackupTypeOK
<1>2. Early(b) \in SUBSET Tasks
  BY DEF Early, Uploading
<1> QED
  BY <1>1, <1>2, BackupNumbers, FS_Subset, FS_CardinalityType

\* Among Retention objects after q one is of second b or later.
LEMMA OneIsLater ==
    ASSUME BackupTypeOK, NEW q \in Nat, NEW b \in Nat, FewOvertake(q, b),
           Cardinality({p \in bucket : p.put > q}) >= Retention
    PROVE  \E y \in bucket : y.put > q /\ y.begun >= b
<1> SUFFICES ASSUME \A y \in bucket : y.put > q => ~(y.begun >= b) PROVE FALSE
  OBVIOUS
<1>1. \A y \in bucket : y.put \in Nat /\ y.begun \in Nat
  BY DEF BackupTypeOK, Objects
<1>2. {p \in bucket : p.put > q} = Overtakers(q, b)
  BY <1>1 DEF Overtakers
<1>3. Cardinality(Overtakers(q, b)) < Cardinality(Tasks)
  BY SetsAreFinite, BackupNumbers DEF FewOvertake
<1> QED
  BY <1>2, <1>3, SetsAreFinite, BackupNumbers

\* What a cleanup is to delete has a newer object of a later second.
LEMMA ExcessHasLater ==
    ASSUME BackupInv, NEW d \in Excess
    PROVE  \E y \in bucket : y.put > d.put /\ y.begun > d.begun
<1>1. /\ d \in bucket /\ d.put \in Nat /\ d.begun \in Nat
      /\ Cardinality({p \in bucket : p.put > d.put}) >= Retention
  BY DEF Excess, Newer, BackupInv, BackupTypeOK, Objects
<1>2. PICK y \in bucket : y.put > d.put /\ y.begun >= d.begun
  BY <1>1, OneIsLater DEF BackupInv, FewOvertakeAny
<1>3. y.put \in Nat /\ y.begun \in Nat /\ y # d
  BY <1>1, <1>2 DEF BackupInv, BackupTypeOK, Objects
<1>4. y.begun # d.begun
  BY <1>1, <1>3 DEF BackupInv, OfItsSecond
<1> QED
  BY <1>1, <1>2, <1>3, <1>4

-----------------------------------------------------------------------------
(* The kinds of steps.                                                     *)

\* Nothing is put or listed, and at most objects are deleted that are listed.
Rests ==
    /\ bucket' \subseteq bucket /\ puts' = puts
    /\ \A o \in bucket \ bucket' : \E d \in Objects : IsDoomed(d) /\ Name(d) = Name(o)
    /\ second' \in Nat /\ second <= second' /\ seal' \in Seals \cup {Plain}
    /\ \A d : IsDoomed(d)' => IsDoomed(d)
    /\ \A t \in Uploading' :
           \/ t \in Uploading /\ task'[t].begun = task[t].begun
           \/ task'[t].begun = second /\ second' = second
    /\ promised' = promised \/ promised' = 0
    /\ seal' # seal => promised' = 0 /\ Uploading' = {} /\ second < second'

\* A task puts its object, and promises or not.
Puts(t) ==
    /\ t \in Uploading /\ t \notin Uploading'
    /\ bucket' = With(Object(t)) /\ puts' = puts + 1
    /\ UNCHANGED <<version, second, seal>>
    /\ \A u \in Tasks \ {t} : task'[u] = task[u]
    /\ task'[t].at \in {"idle", "listing"}
    /\ promised' = promised \/ (promised' = Floor(t) /\ ~Doomed(t) /\ promised < Floor(t))

\* A task lists what is to be deleted.
Lists(t) ==
    /\ UNCHANGED <<version, second, seal, bucket, puts, promised>>
    /\ \A u \in Tasks \ {t} : task'[u] = task[u]
    /\ t \in Tasks /\ task[t].at = "listing"
    /\ task'[t] = [at |-> "deleting", doomed |-> Excess] /\ Excess # {}

LEMMA BackupKinds ==
    ASSUME BackupInv, [BackupNext]_backupVars
    PROVE  Rests \/ \E t \in Tasks : Puts(t) \/ Lists(t)
<1> USE DEF BackupInv
<1>0. /\ second \in Nat /\ seal \in Seals \cup {Plain} /\ task \in [Tasks -> TaskStates]
      /\ second <= second
  BY DEF BackupTypeOK
<1>1. ASSUME UNCHANGED <<second, seal, bucket, puts, promised>>, NEW t \in Tasks, NEW r,
             task' = [task EXCEPT ![t] = r],
             r.at = "uploading" => r.begun = second,
             r.at = "deleting" => task[t].at = "deleting" /\ r.doomed \subseteq task[t].doomed
      PROVE  Rests
  BY <1>0, <1>1 DEF Rests, Uploading, IsDoomed
<1>2. ASSUME NEW t \in Tasks, Snapshot(t) PROVE Rests
  BY <1>1, <1>2 DEF Snapshot, Becomes
<1>3. ASSUME NEW t \in Tasks, BeginUpload(t) PROVE Rests
  BY <1>1, <1>3 DEF BeginUpload, Becomes
<1>4. ASSUME NEW t \in Tasks, FailCleanup(t) PROVE Rests
  BY <1>1, <1>4 DEF FailCleanup, Becomes, Idle
<1>5. ASSUME NEW t \in Tasks, List(t) PROVE Rests \/ Lists(t)
  <2>1. CASE Excess = {}
    BY <1>1, <1>5, <2>1 DEF List, Becomes, Idle
  <2>2. CASE Excess # {}
    BY <1>0, <1>5, <2>2 DEF List, Becomes, Lists
  <2> QED
    BY <2>1, <2>2
<1>6. ASSUME NEW t \in Tasks, task[t].at = "uploading",
             task'[t].at \in {"idle", "listing"},
             \A u \in Tasks \ {t} : task'[u] = task[u],
             bucket' = With(Object(t)), puts' = puts + 1, UNCHANGED <<version, second, seal>>,
             \/ promised' = promised
             \/ promised' = Floor(t) /\ ~Doomed(t) /\ promised < Floor(t)
      PROVE  Puts(t)
  BY <1>0, <1>6 DEF Puts, Uploading
<1>7. ASSUME NEW t \in Tasks, Put(t) PROVE Puts(t)
  <2> DEFINE r == [at |-> "listing"]
  <2>0. r.at = "listing" /\ task' = [task EXCEPT ![t] = r]
    BY <1>7 DEF Put, Becomes
  <2>1. /\ task[t].at = "uploading"
        /\ bucket' = With(Object(t)) /\ puts' = puts + 1 /\ UNCHANGED <<version, second, seal>>
    BY <1>7 DEF Put, Becomes
  <2>2. \/ promised' = promised
        \/ promised' = Floor(t) /\ ~Doomed(t) /\ promised < Floor(t)
    BY <1>7 DEF Put
  <2> HIDE DEF r
  <2>3. task'[t].at = "listing" /\ \A u \in Tasks \ {t} : task'[u] = task[u]
    BY <1>0, <2>0
  <2> QED
    BY <1>6, <2>1, <2>2, <2>3
<1>8. ASSUME NEW t \in Tasks, FailBackup(t) PROVE Rests \/ Puts(t)
  <2>1. /\ task' = [task EXCEPT ![t] = Idle] /\ Idle.at = "idle"
        /\ UNCHANGED <<version, second, seal, promised>>
    BY <1>8 DEF FailBackup, Becomes, Idle
  <2>2. CASE UNCHANGED <<bucket, puts>>
    BY <1>1, <2>1, <2>2
  <2>3. CASE /\ task[t].at = "uploading" /\ bucket' = With(Object(t)) /\ puts' = puts + 1
    <3>1. task'[t].at = "idle" /\ \A u \in Tasks \ {t} : task'[u] = task[u]
      BY <1>0, <2>1
    <3> QED
      BY <1>6, <2>1, <2>3, <3>1
  <2> QED
    BY <1>8, <2>2, <2>3 DEF FailBackup
<1>9. ASSUME NEW t \in Tasks, Delete(t) PROVE Rests
  <2> DEFINE doomed == task[t].doomed
             next == CHOOSE o \in doomed : \A p \in doomed : p.put <= o.put
  <2>1. /\ task[t].at = "deleting"
        /\ bucket' = {p \in bucket : Name(p) # Name(next)}
        /\ \/ task' = [task EXCEPT ![t] = Idle]
           \/ task' = [task EXCEPT ![t] = [at |-> "deleting", doomed |-> doomed \ {next}]]
        /\ UNCHANGED <<version, second, seal, puts, promised, slips>>
    BY <1>9 DEF Delete, Becomes
  <2>2. doomed \in SUBSET Objects /\ doomed # {} /\ puts \in Nat
    BY <2>1, Carries DEF ListedBefore, BackupTypeOK
  <2>3. \A d \in doomed : IsDoomed(d) /\ d.put \in Nat /\ d.put <= puts
    BY <2>1, <2>2 DEF IsDoomed, ListedBefore, Objects
  <2>4. PICK m \in {d.put : d \in doomed} : \A k \in {d.put : d \in doomed} : k <= m
    <3>1. {d.put : d \in doomed} \in SUBSET Nat /\ \E n \in {d.put : d \in doomed} : TRUE
      BY <2>2, <2>3
    <3>2. \A k \in {d.put : d \in doomed} : k <= puts
      BY <2>3
    <3> HIDE DEF doomed
    <3> QED
      BY <2>2, <3>1, <3>2, Largest
  <2>5. \E o \in doomed : \A p \in doomed : p.put <= o.put
    BY <2>4
  <2>6. next \in doomed
    <3> HIDE DEF doomed
    <3> QED
      BY <2>5
  <2> HIDE DEF next
  <2>7. \A o \in bucket \ bucket' : next \in Objects /\ IsDoomed(next) /\ Name(next) = Name(o)
    BY <2>1, <2>2, <2>3, <2>6
  <2>8. Uploading' \subseteq Uploading /\ \A u \in Uploading' : task'[u] = task[u]
    BY <1>0, <2>1 DEF Uploading, Idle
  <2>9. ASSUME NEW d, IsDoomed(d)' PROVE IsDoomed(d)
    BY <1>0, <2>1, <2>9 DEF IsDoomed, Idle
  <2> QED
    BY <1>0, <2>1, <2>7, <2>8, <2>9 DEF Rests
<1>10. ASSUME Restart PROVE Rests
  <2>1. /\ task' = [t \in Tasks |-> Idle] /\ second' = second + 1
        /\ seal' \in Seals \cup {Plain} /\ promised' = IF seal' = seal THEN promised ELSE 0
        /\ UNCHANGED <<bucket, puts>>
    BY <1>10 DEF Restart
  <2>2. Uploading' = {} /\ \A d : ~IsDoomed(d)'
    BY <2>1 DEF Uploading, IsDoomed, Idle
  <2> QED
    BY <1>0, <2>1, <2>2 DEF Rests
<1>11. ASSUME Write \/ NextSecond \/ UNCHANGED backupVars PROVE Rests
  BY <1>0, <1>11 DEF Write, NextSecond, backupVars, Rests, Uploading, IsDoomed
<1> QED
  BY <1>2, <1>3, <1>4, <1>5, <1>7, <1>8, <1>9, <1>10, <1>11 DEF BackupNext

LEMMA ObjectType ==
    ASSUME BackupTypeOK, NEW t \in Uploading
    PROVE  /\ Object(t) \in Objects
           /\ Object(t).put = puts + 1 /\ Object(t).begun = task[t].begun
           /\ Object(t).seal = seal /\ Object(t).holds = task[t].holds
           /\ With(Object(t)) \in SUBSET Objects /\ IsFiniteSet(With(Object(t)))
<1>1. task[t].holds \in Nat /\ task[t].begun \in Nat /\ puts + 1 \in Nat
  BY Carries DEF Uploading, BackupTypeOK
<1>2. Object(t) \in Objects
  BY <1>1 DEF Object, Objects, BackupTypeOK
<1>3. {p \in bucket : Name(p) # Name(Object(t))} \in SUBSET bucket
  OBVIOUS
<1>4. IsFiniteSet(With(Object(t)))
  BY <1>3, FS_Subset, FS_AddElement DEF With, BackupTypeOK
<1>5. With(Object(t)) \in SUBSET Objects
  BY <1>2, <1>3 DEF With, BackupTypeOK
<1> QED
  BY <1>2, <1>4, <1>5 DEF Object

LEMMA BackupTypeStep == BackupInv /\ [BackupNext]_backupVars => BackupTypeOK'
<1> SUFFICES ASSUME BackupInv, [BackupNext]_backupVars PROVE BackupTypeOK'
  OBVIOUS
<1>0. BackupTypeOK
  BY DEF BackupInv
<1>1. /\ version' \in Nat /\ second' \in Nat /\ slips' \in Nat
  <2>1. version \in Nat /\ second \in Nat /\ slips \in Nat
    BY <1>0 DEF BackupTypeOK
  <2>2. ASSUME NEW t \in Tasks,
               \/ Snapshot(t) \/ BeginUpload(t) \/ Put(t) \/ List(t)
               \/ Delete(t) \/ FailBackup(t) \/ FailCleanup(t)
        PROVE  UNCHANGED <<version, second>> /\ slips' \in {slips, slips + 1}
    BY <2>2 DEF Snapshot, BeginUpload, Put, List, Delete, FailBackup, FailCleanup, Slip
  <2>3. CASE Restart \/ Write \/ NextSecond \/ UNCHANGED backupVars
    BY <2>1, <2>3 DEF Restart, Write, NextSecond, Slip, backupVars
  <2> QED
    BY <2>1, <2>2, <2>3 DEF BackupNext
<1>2. task' \in [Tasks -> TaskStates]
  <2>1. ASSUME NEW t \in Tasks, NEW r \in TaskStates, Becomes(t, r)
        PROVE  task' \in [Tasks -> TaskStates]
    BY <1>0, <2>1 DEF Becomes, BackupTypeOK
  <2>2. Idle \in TaskStates /\ [at |-> "listing"] \in TaskStates
    BY DEF TaskStates
  <2>3. ASSUME NEW t \in Tasks, Snapshot(t) PROVE task' \in [Tasks -> TaskStates]
    <3>1. [at |-> "sealing", holds |-> version] \in TaskStates
      BY <1>0 DEF TaskStates, BackupTypeOK
    <3> QED
      BY <2>1, <2>3, <3>1 DEF Snapshot
  <2>4. ASSUME NEW t \in Tasks, BeginUpload(t) PROVE task' \in [Tasks -> TaskStates]
    <3>1. task[t].holds \in Nat /\ second \in Nat
      BY <1>0, <2>4, Carries DEF BeginUpload, BackupTypeOK
    <3>2. [at |-> "uploading", holds |-> task[t].holds, begun |-> second] \in TaskStates
      BY <3>1 DEF TaskStates
    <3> QED
      BY <2>1, <2>4, <3>2 DEF BeginUpload
  <2>5. ASSUME NEW t \in Tasks, Put(t) \/ FailBackup(t) \/ FailCleanup(t)
        PROVE  task' \in [Tasks -> TaskStates]
    BY <2>1, <2>2, <2>5 DEF Put, FailBackup, FailCleanup
  <2>6. ASSUME NEW t \in Tasks, List(t) PROVE task' \in [Tasks -> TaskStates]
    <3>1. [at |-> "deleting", doomed |-> Excess] \in TaskStates
      BY <1>0 DEF TaskStates, BackupTypeOK, Excess
    <3> QED
      BY <2>1, <2>2, <2>6, <3>1 DEF List
  <2>7. ASSUME NEW t \in Tasks, Delete(t) PROVE task' \in [Tasks -> TaskStates]
    <3>1. task[t].doomed \in SUBSET Objects
      BY <1>0, <2>7, Carries DEF Delete
    <3>2. \A n : [at |-> "deleting", doomed |-> task[t].doomed \ {n}] \in TaskStates
      BY <3>1 DEF TaskStates
    <3> QED
      BY <2>1, <2>2, <2>7, <3>2 DEF Delete
  <2>8. CASE Restart \/ Write \/ NextSecond \/ UNCHANGED backupVars
    BY <1>0, <2>2, <2>8 DEF Restart, Write, NextSecond, backupVars, BackupTypeOK
  <2> QED
    BY <2>3, <2>4, <2>5, <2>6, <2>7, <2>8 DEF BackupNext
<1>3. /\ puts' \in Nat /\ promised' \in Nat /\ seal' \in Seals \cup {Plain}
      /\ bucket' \in SUBSET Objects /\ IsFiniteSet(bucket')
  <2>1. CASE Rests
    <3>1. bucket' \in SUBSET bucket /\ IsFiniteSet(bucket')
      BY <1>0, <2>1, FS_Subset DEF Rests, BackupTypeOK
    <3> QED
      BY <1>0, <2>1, <3>1 DEF Rests, BackupTypeOK
  <2>2. ASSUME NEW t \in Tasks, Puts(t)
        PROVE  /\ puts' \in Nat /\ promised' \in Nat /\ seal' \in Seals \cup {Plain}
               /\ bucket' \in SUBSET Objects /\ IsFiniteSet(bucket')
    <3>1. t \in Uploading /\ Floor(t) \in Nat
      BY <1>0, <2>2, FloorIsLeast DEF Puts, Uploading
    <3> QED
      BY <1>0, <2>2, <3>1, ObjectType DEF Puts, BackupTypeOK
  <2>3. ASSUME NEW t \in Tasks, Lists(t)
        PROVE  /\ puts' \in Nat /\ promised' \in Nat /\ seal' \in Seals \cup {Plain}
               /\ bucket' \in SUBSET Objects /\ IsFiniteSet(bucket')
    BY <1>0, <2>3 DEF Lists, BackupTypeOK
  <2> QED
    BY <2>1, <2>2, <2>3, BackupKinds
<1> QED
  BY <1>1, <1>2, <1>3 DEF BackupTypeOK

LEMMA InOrderStep == BackupInv /\ [BackupNext]_backupVars => InOrder'
<1> SUFFICES ASSUME BackupInv, [BackupNext]_backupVars PROVE InOrder'
  OBVIOUS
<1>0. /\ version \in Nat /\ version' \in Nat /\ promised \in Nat /\ promised' \in Nat
      /\ task \in [Tasks -> TaskStates] /\ InOrder /\ BackupTypeOK
      /\ \A t \in Carrying : task[t].holds \in Nat
  BY BackupTypeStep, Carries DEF BackupInv, BackupTypeOK, Carrying
<1>1. ASSUME promised' = promised \/ promised' = 0, version <= version',
             \A t \in Carrying' : t \in Carrying /\ task'[t].holds = task[t].holds
      PROVE  InOrder'
  BY <1>0, <1>1 DEF InOrder
<1>2. ASSUME NEW t \in Tasks, Snapshot(t) PROVE InOrder'
  <2>1. /\ task' = [task EXCEPT ![t] = [at |-> "sealing", holds |-> version]]
        /\ UNCHANGED <<version, promised>>
    BY <1>2 DEF Snapshot, Becomes
  <2>2. \A u \in Carrying' : (u = t /\ task'[u].holds = version)
                             \/ (u \in Carrying /\ task'[u] = task[u])
    BY <1>0, <2>1 DEF Carrying
  <2> QED
    BY <1>0, <2>1, <2>2 DEF InOrder
<1>3. ASSUME NEW t \in Tasks, BeginUpload(t) PROVE InOrder'
  BY <1>0, <1>1, <1>3 DEF BeginUpload, Becomes, Carrying
<1>4. ASSUME NEW t \in Tasks, Put(t) PROVE InOrder'
  <2>1. /\ task' = [task EXCEPT ![t] = [at |-> "listing"]] /\ version' = version
        /\ promised' = promised \/ promised' = Floor(t)
        /\ task[t].at = "uploading"
    BY <1>4 DEF Put, Becomes
  <2>2. \A u \in Carrying' : u \in Carrying /\ task'[u].holds = task[u].holds
    BY <1>0, <2>1 DEF Carrying
  <2>3. /\ Floor(t) \in Nat
        /\ \E u \in Carrying : Floor(t) = task[u].holds
        /\ \A u \in Carrying : Floor(t) <= task[u].holds
    BY <1>0, <2>1, FloorIsLeast
  <2> QED
    BY <1>0, <2>1, <2>2, <2>3 DEF InOrder
<1>5. ASSUME NEW t \in Tasks, FailBackup(t) \/ FailCleanup(t) PROVE InOrder'
  BY <1>0, <1>1, <1>5 DEF FailBackup, FailCleanup, Becomes, Carrying, Idle
<1>6. ASSUME NEW t \in Tasks, List(t) PROVE InOrder'
  BY <1>0, <1>1, <1>6 DEF List, Becomes, Carrying, Idle
<1>7. ASSUME NEW t \in Tasks, Delete(t) PROVE InOrder'
  <2>1. /\ \/ task' = [task EXCEPT ![t] = Idle]
           \/ \E S : task' = [task EXCEPT ![t] = [at |-> "deleting", doomed |-> S]]
        /\ UNCHANGED <<version, promised>>
    BY <1>7 DEF Delete, Becomes
  <2> QED
    BY <1>0, <1>1, <2>1 DEF Carrying, Idle
<1>8. ASSUME Restart PROVE InOrder'
  BY <1>0, <1>1, <1>8 DEF Restart, Carrying, Idle
<1>9. ASSUME Write \/ NextSecond \/ UNCHANGED backupVars PROVE InOrder'
  BY <1>0, <1>1, <1>9 DEF Write, NextSecond, backupVars, Carrying
<1> QED
  BY <1>2, <1>3, <1>4, <1>5, <1>6, <1>7, <1>8, <1>9 DEF BackupNext

\* What the types say of objects and of uploads.
LEMMA BackupNats ==
    ASSUME BackupTypeOK
    PROVE  /\ \A o \in bucket : o \in Objects
           /\ \A o \in Objects : o.put \in Nat /\ o.begun \in Nat /\ o.holds \in Nat
           /\ \A t \in Uploading : t \in Tasks /\ task[t].begun \in Nat /\ task[t].holds \in Nat
           /\ second \in Nat /\ puts \in Nat /\ promised \in Nat
  BY Carries DEF BackupTypeOK, Objects, Uploading

LEMMA OfItsSecondStep == BackupInv /\ [BackupNext]_backupVars => OfItsSecond'
<1> SUFFICES ASSUME BackupInv, [BackupNext]_backupVars PROVE OfItsSecond'
  OBVIOUS
<1>0. BackupTypeOK /\ OfItsSecond
  BY DEF BackupInv
<1>n. /\ \A o \in bucket : o \in Objects
      /\ \A o \in Objects : o.put \in Nat /\ o.begun \in Nat /\ o.holds \in Nat
      /\ \A t \in Uploading : t \in Tasks /\ task[t].begun \in Nat /\ task[t].holds \in Nat
      /\ second \in Nat /\ puts \in Nat /\ promised \in Nat
  BY <1>0, BackupNats
<1>1. CASE Rests
  <2>1. \A o \in bucket' : o \in bucket /\ o.put <= puts' /\ o.begun <= second'
    BY <1>0, <1>1, <1>n DEF Rests, OfItsSecond
  <2>2. \A o \in bucket' : o.begun = second' => o.seal = seal'
    BY <1>0, <1>1, <1>n DEF Rests, OfItsSecond
  <2>3. ASSUME NEW t \in Uploading'
        PROVE  /\ task'[t].begun <= second'
               /\ \A o \in bucket' : task'[t].begun <= o.begun => o.seal = seal'
    BY <1>0, <1>1, <1>n, <2>3 DEF Rests, OfItsSecond
  <2> QED
    BY <1>0, <2>1, <2>2, <2>3 DEF OfItsSecond
<1>2. ASSUME NEW t \in Tasks, Puts(t) PROVE OfItsSecond'
  <2> DEFINE o == Object(t)
  <2>1. /\ o \in Objects /\ o.put = puts + 1 /\ o.begun = task[t].begun /\ o.seal = seal
        /\ t \in Uploading
    BY <1>0, <1>2, ObjectType DEF Puts
  <2> HIDE DEF o
  <2>2. /\ bucket' = {p \in bucket : Name(p) # Name(o)} \cup {o}
        /\ puts' = puts + 1 /\ second' = second /\ seal' = seal
        /\ \A u \in Uploading' : u \in Uploading /\ task'[u] = task[u]
    BY <1>2 DEF Puts, With, o, Uploading
  <2>3. \A p \in bucket' : p # o => p \in bucket /\ p.begun # o.begun
    BY <1>0, <2>1, <2>2, <1>n DEF OfItsSecond, Name
  <2>4. \A p \in bucket' : p.put <= puts' /\ p.begun <= second'
    BY <1>0, <1>n, <2>1, <2>2, <2>3 DEF OfItsSecond
  <2> QED
    BY <1>0, <1>n, <2>1, <2>2, <2>3, <2>4 DEF OfItsSecond
<1>3. ASSUME NEW t \in Tasks, Lists(t) PROVE OfItsSecond'
  <2>1. Uploading' = Uploading /\ \A u \in Uploading : task'[u] = task[u]
    BY <1>3 DEF Lists, Uploading
  <2> QED
    BY <1>0, <1>3, <2>1 DEF Lists, OfItsSecond
<1> QED
  BY <1>1, <1>2, <1>3, BackupKinds

LEMMA ListedBeforeStep == BackupInv /\ [BackupNext]_backupVars => ListedBefore'
<1> SUFFICES ASSUME BackupInv, [BackupNext]_backupVars PROVE ListedBefore'
  OBVIOUS
<1>0. BackupTypeOK /\ OfItsSecond /\ ListedBefore /\ task \in [Tasks -> TaskStates]
  BY DEF BackupInv, BackupTypeOK
<1>n. /\ \A o \in bucket : o \in Objects
      /\ \A o \in Objects : o.put \in Nat /\ o.begun \in Nat /\ o.holds \in Nat
      /\ \A t \in Uploading : t \in Tasks /\ task[t].begun \in Nat /\ task[t].holds \in Nat
      /\ second \in Nat /\ puts \in Nat /\ promised \in Nat
  BY <1>0, BackupNats
<1>1. ASSUME NEW d \in Objects, IsDoomed(d)' PROVE d.begun < second' /\ d.put <= puts'
  <2>1. CASE Rests
    BY <1>0, <1>1, <1>n, <2>1 DEF Rests, ListedBefore
  <2>2. ASSUME NEW t \in Tasks, Puts(t) PROVE d.begun < second' /\ d.put <= puts'
    <3>1. IsDoomed(d)
      BY <1>1, <2>2 DEF Puts, IsDoomed
    <3> QED
      BY <1>0, <1>n, <2>2, <3>1 DEF Puts, ListedBefore
  <2>3. ASSUME NEW t \in Tasks, Lists(t) PROVE d.begun < second' /\ d.put <= puts'
    <3>1. CASE IsDoomed(d)
      BY <1>0, <1>n, <2>3, <3>1 DEF Lists, ListedBefore
    <3>2. CASE d \in Excess
      <4>1. PICK y \in bucket : y.put > d.put /\ y.begun > d.begun
        BY <3>2, ExcessHasLater
      <4> QED
        BY <1>0, <1>n, <2>3, <4>1 DEF OfItsSecond, Lists
    <3> QED
      BY <1>1, <2>3, <3>1, <3>2 DEF Lists, IsDoomed
  <2> QED
    BY <2>1, <2>2, <2>3, BackupKinds
<1>2. \A t \in Tasks : task'[t].at = "deleting" => task'[t].doomed # {}
  <2>1. ASSUME NEW t \in Tasks, NEW r, task' = [task EXCEPT ![t] = r],
               r.at = "deleting" => r.doomed # {}
        PROVE  \A u \in Tasks : task'[u].at = "deleting" => task'[u].doomed # {}
    BY <1>0, <2>1 DEF ListedBefore
  <2>2. ASSUME NEW t \in Tasks, Snapshot(t) \/ BeginUpload(t)
        PROVE  \A u \in Tasks : task'[u].at = "deleting" => task'[u].doomed # {}
    BY <2>1, <2>2 DEF Snapshot, BeginUpload, Becomes
  <2>3. ASSUME NEW t \in Tasks, Put(t) \/ FailBackup(t) \/ FailCleanup(t)
        PROVE  \A u \in Tasks : task'[u].at = "deleting" => task'[u].doomed # {}
    BY <2>1, <2>3 DEF Put, FailBackup, FailCleanup, Becomes, Idle
  <2>4. ASSUME NEW t \in Tasks, List(t)
        PROVE  \A u \in Tasks : task'[u].at = "deleting" => task'[u].doomed # {}
    <3>1. CASE Excess = {}
      BY <2>1, <2>4, <3>1 DEF List, Becomes, Idle
    <3>2. CASE Excess # {}
      BY <2>1, <2>4, <3>2 DEF List, Becomes
    <3> QED
      BY <3>1, <3>2
  <2>5. ASSUME NEW t \in Tasks, Delete(t)
        PROVE  \A u \in Tasks : task'[u].at = "deleting" => task'[u].doomed # {}
    <3>1. task[t].doomed # {}
      BY <1>0, <2>5 DEF Delete, ListedBefore
    <3>2. \/ task' = [task EXCEPT ![t] = Idle]
          \/ \E n : /\ task[t].doomed # {n}
                    /\ task' = [task EXCEPT ![t] = [at |-> "deleting",
                                                    doomed |-> task[t].doomed \ {n}]]
      BY <2>5 DEF Delete, Becomes
    <3>3. \A n : task[t].doomed # {n} => task[t].doomed \ {n} # {}
      BY <3>1
    <3> QED
      BY <2>1, <3>2, <3>3 DEF Idle
  <2>6. CASE Restart \/ Write \/ NextSecond \/ UNCHANGED backupVars
    BY <1>0, <2>6 DEF Restart, Write, NextSecond, backupVars, ListedBefore, Idle
  <2> QED
    BY <2>2, <2>3, <2>4, <2>5, <2>6 DEF BackupNext
<1> QED
  BY <1>1, <1>2 DEF ListedBefore

\* Where fewer overtake an object of the past than there are tasks, that stays so.
LEMMA FewStays ==
    ASSUME BackupInv, [BackupNext]_backupVars, NEW q \in Nat, NEW b \in Nat,
           q <= puts, b <= second, FewOvertake(q, b)
    PROVE  FewOvertake(q, b)'
<1> DEFINE O == Overtakers(q, b)
           E == Early(b)
           On == Overtakers(q, b)'
           En == Early(b)'
<1>0. BackupTypeOK /\ BackupTypeOK'
  BY BackupTypeStep DEF BackupInv
<1>n. /\ \A o \in bucket : o \in Objects
      /\ \A o \in Objects : o.put \in Nat /\ o.begun \in Nat /\ o.holds \in Nat
      /\ \A t \in Uploading : t \in Tasks /\ task[t].begun \in Nat /\ task[t].holds \in Nat
      /\ second \in Nat /\ puts \in Nat /\ promised \in Nat
  BY <1>0, BackupNats
<1>1. /\ IsFiniteSet(O) /\ IsFiniteSet(E) /\ Cardinality(O) \in Nat /\ Cardinality(E) \in Nat
      /\ Cardinality(O) + Cardinality(E) < Cardinality(Tasks) /\ Cardinality(Tasks) \in Nat
  BY <1>0, SetsAreFinite, BackupNumbers DEF FewOvertake
<1>2. ASSUME Cardinality(On) \in Nat, Cardinality(En) \in Nat,
             Cardinality(On) + Cardinality(En) <= Cardinality(O) + Cardinality(E)
      PROVE  FewOvertake(q, b)'
  BY <1>1, <1>2 DEF FewOvertake
<1>3. ASSUME On \in SUBSET O, En \in SUBSET E PROVE FewOvertake(q, b)'
  <2> HIDE DEF O, E, On, En
  <2>1. /\ Cardinality(On) <= Cardinality(O) /\ Cardinality(En) <= Cardinality(E)
        /\ Cardinality(On) \in Nat /\ Cardinality(En) \in Nat
    BY <1>1, <1>3, FS_Subset, FS_CardinalityType
  <2> QED
    BY <1>1, <1>2, <2>1
<1>4. CASE Rests
  <2>1. On \in SUBSET O
    BY <1>4 DEF Rests, Overtakers
  <2>2. ASSUME NEW t \in En PROVE t \in E
    BY <1>4, <1>n DEF Rests, Early
  <2> HIDE DEF O, E, On, En
  <2> QED
    BY <1>3, <2>1, <2>2
<1>5. ASSUME NEW t \in Tasks, Puts(t) PROVE FewOvertake(q, b)'
  <2> DEFINE o == Object(t)
  <2>1. /\ o \in Objects /\ o.put = puts + 1 /\ o.begun = task[t].begun
        /\ t \in Uploading
    BY <1>0, <1>5, ObjectType DEF Puts
  <2> HIDE DEF o
  <2>2. /\ bucket' = {p \in bucket : Name(p) # Name(o)} \cup {o}
        /\ \A u \in Uploading' : u \in Uploading /\ u # t /\ task'[u] = task[u]
    BY <1>5 DEF Puts, With, o, Uploading
  <2>3. En \in SUBSET (E \ {t})
    BY <2>2 DEF Early
  <2>4. CASE task[t].begun < b
    <3>1. t \in E
      BY <2>1, <2>4 DEF Early
    <3>2. On \in SUBSET (O \cup {o})
      BY <2>2 DEF Overtakers
    <3> HIDE DEF O, E, On, En
    <3>3. /\ IsFiniteSet(E \ {t}) /\ Cardinality(E \ {t}) = Cardinality(E) - 1
      BY <1>1, <3>1, FS_RemoveElement
    <3>4. /\ IsFiniteSet(O \cup {o}) /\ Cardinality(O \cup {o}) <= Cardinality(O) + 1
          /\ Cardinality(O \cup {o}) \in Nat
      <4>1. IsFiniteSet(O) /\ Cardinality(O) \in Nat
        BY <1>1
      <4>2. /\ IsFiniteSet(O \cup {o})
            /\ Cardinality(O \cup {o}) = IF o \in O THEN Cardinality(O) ELSE Cardinality(O) + 1
        BY <4>1, FS_AddElement
      <4> QED
        BY <4>1, <4>2
    <3>5. /\ Cardinality(On) <= Cardinality(O \cup {o}) /\ Cardinality(On) \in Nat
      BY <3>2, <3>4, FS_Subset, FS_CardinalityType
    <3>6. /\ Cardinality(En) <= Cardinality(E \ {t}) /\ Cardinality(En) \in Nat
      BY <2>3, <3>3, FS_Subset, FS_CardinalityType
    <3> QED
      BY <1>1, <1>2, <3>3, <3>4, <3>5, <3>6
  <2>5. CASE ~(task[t].begun < b)
    <3>1. On \in SUBSET O
      BY <2>1, <2>2, <2>5 DEF Overtakers
    <3> HIDE DEF O, E, On, En
    <3> QED
      BY <1>3, <2>3, <3>1
  <2> QED
    BY <2>4, <2>5
<1>6. ASSUME NEW t \in Tasks, Lists(t) PROVE FewOvertake(q, b)'
  <2>1. \A u \in Uploading' : u \in Uploading /\ task'[u] = task[u]
    BY <1>6 DEF Lists, Uploading
  <2>2. En \in SUBSET E
    BY <2>1 DEF Early
  <2>3. On \in SUBSET O
    BY <1>6 DEF Overtakers, Lists
  <2> HIDE DEF O, E, On, En
  <2> QED
    BY <1>3, <2>2, <2>3
<1> QED
  BY <1>4, <1>5, <1>6, BackupKinds

\* No more than the other tasks can overtake an object that is put now.
LEMMA FewAtPut ==
    ASSUME BackupInv, [BackupNext]_backupVars, NEW t \in Tasks, Puts(t),
           NEW b \in Nat, NEW q, q = puts + 1
    PROVE  FewOvertake(q, b)'
<1> DEFINE On == Overtakers(q, b)'
           En == Early(b)'
           o == Object(t)
<1>0. BackupTypeOK /\ OfItsSecond
  BY DEF BackupInv
<1>1. bucket' \subseteq bucket \cup {o} /\ o.put = puts + 1
  BY <1>0, ObjectType DEF Puts, With
<1>2. \A p \in bucket : p.put \in Nat /\ p.put <= puts /\ puts \in Nat
  BY <1>0, BackupNats DEF OfItsSecond
<1> HIDE DEF o
<1>3. On = {}
  BY <1>1, <1>2 DEF Overtakers
<1>4. En \in SUBSET (Tasks \ {t})
  BY DEF Puts, Early, Uploading
<1> HIDE DEF On, En
<1>5. /\ IsFiniteSet(Tasks \ {t}) /\ Cardinality(Tasks \ {t}) = Cardinality(Tasks) - 1
  BY BackupNumbers, FS_RemoveElement
<1>6. Cardinality(En) <= Cardinality(Tasks \ {t}) /\ Cardinality(En) \in Nat
  BY <1>4, <1>5, FS_Subset, FS_CardinalityType
<1>7. Cardinality(On) = 0
  BY <1>3, FS_EmptySet
<1>8. Cardinality(On) + Cardinality(En) < Cardinality(Tasks)
  BY <1>5, <1>6, <1>7, BackupNumbers
<1> QED
  BY <1>8 DEF FewOvertake, On, En

LEMMA FewOvertakeAnyStep == BackupInv /\ [BackupNext]_backupVars => FewOvertakeAny'
<1> SUFFICES ASSUME BackupInv, [BackupNext]_backupVars, NEW o \in bucket'
             PROVE  FewOvertake(o.put, o.begun)'
  BY DEF FewOvertakeAny
<1>0. BackupTypeOK /\ BackupTypeOK' /\ OfItsSecond /\ FewOvertakeAny
  BY BackupTypeStep DEF BackupInv
<1>1. o \in Objects /\ o.put \in Nat /\ o.begun \in Nat
  BY <1>0 DEF BackupTypeOK, Objects
<1>2. CASE o \in bucket
  <2>1. o.put <= puts /\ o.begun <= second /\ FewOvertake(o.put, o.begun)
    BY <1>0, <1>2 DEF OfItsSecond, FewOvertakeAny
  <2> QED
    BY <1>1, <2>1, FewStays
<1>3. CASE o \notin bucket
  <2>1. PICK t \in Tasks : Puts(t)
    BY <1>3, BackupKinds DEF Rests, Lists
  <2>2. o.put = puts + 1
    BY <1>0, <1>3, <2>1, ObjectType DEF Puts, With
  <2> QED
    BY <1>1, <2>1, <2>2, FewAtPut
<1> QED
  BY <1>2, <1>3

LEMMA RestorableStep == BackupInv /\ [BackupNext]_backupVars => Restorable'
<1> SUFFICES ASSUME BackupInv, [BackupNext]_backupVars, promised' > 0
             PROVE  \E q, b \in Nat : Since(q, b)'
  BY DEF Restorable
<1>0. /\ BackupTypeOK /\ OfItsSecond /\ ListedBefore /\ InOrder
      /\ Restorable /\ promised' \in Nat
  BY BackupTypeStep DEF BackupInv, BackupTypeOK
<1>n. /\ \A o \in bucket : o \in Objects
      /\ \A o \in Objects : o.put \in Nat /\ o.begun \in Nat /\ o.holds \in Nat
      /\ \A t \in Uploading : t \in Tasks /\ task[t].begun \in Nat /\ task[t].holds \in Nat
      /\ second \in Nat /\ puts \in Nat /\ promised \in Nat
  BY <1>0, BackupNats
<1>m. \A o, p : Name(o) = Name(p) => o.begun = p.begun
  BY DEF Name
\* Where the promise stays, so do q and b: the objects of now and the new one are good.
<1>k. ASSUME promised > 0 PROVE \E q, b \in Nat : Since(q, b)
  BY <1>0, <1>k DEF Restorable
<1>1. CASE Rests
  <2>1. promised' = promised /\ seal' = seal /\ puts' = puts
    BY <1>1, <1>n DEF Rests
  <2>2. PICK q, b \in Nat : Since(q, b)
    BY <1>k, <2>1
  <2>3. PICK z \in bucket : z.put >= q /\ Safe(z, q, b)
    BY <2>2 DEF Since
  <2>4. q <= puts' /\ b <= second'
    BY <1>1, <1>n, <2>1, <2>2 DEF Rests, Since
  <2>5. \A p \in bucket' : /\ p.put >= q => Good(p)'
                           /\ p.begun > b => p.put > q
    BY <1>1, <2>1, <2>2 DEF Rests, Since, Good, Opens
  <2>6. FewOvertake(q, b)'
    BY <2>2, FewStays DEF Since
  <2>7. \A d \in Objects : IsDoomed(d) => Name(d) # Name(z)
    BY <1>m, <1>n, <2>3 DEF Safe
  <2>8. z \in bucket'
    BY <1>1, <2>7 DEF Rests
  <2>9. Safe(z, q, b)'
    BY <1>1, <2>3 DEF Rests, Safe
  <2> QED
    BY <2>3, <2>4, <2>5, <2>6, <2>8, <2>9 DEF Since
<1>2. ASSUME NEW t \in Tasks, Puts(t) PROVE \E q, b \in Nat : Since(q, b)'
  <2>0. PICK o \in Objects : o = Object(t)
    BY <1>0, <1>2, ObjectType DEF Puts
  <2>1. /\ o \in Objects /\ o.put = puts + 1 /\ o.begun = task[t].begun
        /\ o.seal = seal /\ o.holds = task[t].holds /\ t \in Uploading
    BY <1>0, <1>2, <2>0, ObjectType DEF Puts
  <2>2. /\ bucket' = {p \in bucket : Name(p) # Name(o)} \cup {o}
        /\ puts' = puts + 1 /\ second' = second /\ seal' = seal
    BY <1>2, <2>0 DEF Puts, With
  <2>3. Doomed(t) <=> \E d \in Objects : IsDoomed(d) /\ Name(d) = Name(o)
    BY <1>0, <2>0, Carries DEF Doomed, IsDoomed
  <2>4. \A d : IsDoomed(d)' => IsDoomed(d)
    BY <1>2 DEF Puts, IsDoomed
  <2>5. Good(o)'
    <3>1. t \in Carrying /\ task[t].at = "uploading"
      BY <2>1 DEF Carrying, Uploading
    <3>2. promised <= task[t].holds /\ Floor(t) \in Nat /\ Floor(t) <= task[t].holds
      BY <1>0, <3>1, FloorIsLeast DEF InOrder
    <3>3. promised' <= task[t].holds
      BY <1>2, <3>2 DEF Puts
    <3> QED
      BY <1>0, <1>n, <2>1, <2>2, <3>3 DEF Good, Opens
  <2>6. CASE ~Doomed(t)
    <3>2. PICK r \in Nat : r = puts + 1
      BY <1>n
    <3>3. PICK c \in Nat : c = second
      BY <1>n
    <3>4. r <= puts' /\ c <= second'
      BY <2>2, <3>2, <3>3
    <3>5. \A p \in bucket' : /\ p.put >= r => Good(p)'
                             /\ p.begun > c => p.put > r
      <4>1. o.begun <= second
        BY <1>0, <2>1 DEF OfItsSecond
      <4>2. \A p \in bucket : p.put <= puts /\ p.begun <= second
        BY <1>0 DEF OfItsSecond
      <4> QED
        BY <1>n, <2>1, <2>2, <2>5, <3>2, <3>3, <4>1, <4>2
    <3>6. FewOvertake(r, c)'
      BY <1>2, <3>2, FewAtPut
    <3>7. o \in bucket' /\ o.put >= r
      BY <2>1, <2>2, <3>2
    <3>8. \A d \in Objects : IsDoomed(d)' => d.begun < c /\ Name(d) # Name(o)
      BY <1>0, <2>3, <2>4, <2>6, <3>3 DEF ListedBefore
    <3>9. Safe(o, r, c)'
      BY <2>1, <3>2, <3>8 DEF Safe, Name
    <3> QED
      BY <3>4, <3>5, <3>6, <3>7, <3>9 DEF Since
  <2>7. CASE Doomed(t)
    <3>1. promised' = promised
      BY <1>2, <2>7 DEF Puts
    <3>2. PICK q, b \in Nat : Since(q, b)
      BY <1>k, <3>1
    <3>3. PICK z \in bucket : z.put >= q /\ Safe(z, q, b)
      BY <3>2 DEF Since
    <3>4. q <= puts' /\ b <= second' /\ q <= puts
      BY <1>n, <2>2, <3>2 DEF Since
    <3>5. \A p \in bucket : Good(p) => Good(p)'
      BY <2>2, <3>1 DEF Good, Opens
    <3>6. \A p \in bucket' : /\ p.put >= q => Good(p)'
                             /\ p.begun > b => p.put > q
      BY <1>n, <2>1, <2>2, <2>5, <3>2, <3>4, <3>5 DEF Since
    <3>7. FewOvertake(q, b)'
      BY <3>2, FewStays DEF Since
    <3>8. \A d \in Objects : IsDoomed(d) => Name(d) # Name(z)
      BY <1>m, <1>n, <3>3 DEF Safe
    <3>9. z \in bucket'
      BY <2>2, <2>3, <2>7, <3>8
    <3>10. Safe(z, q, b)'
      BY <2>4, <3>3 DEF Safe, Name
    <3> QED
      BY <3>3, <3>4, <3>6, <3>7, <3>9, <3>10 DEF Since
  <2> QED
    BY <2>6, <2>7
<1>3. ASSUME NEW v \in Tasks, Lists(v) PROVE \E q, b \in Nat : Since(q, b)'
  <2>1. /\ promised' = promised /\ seal' = seal /\ puts' = puts
        /\ bucket' = bucket /\ second' = second /\ Excess # {}
        /\ Excess \subseteq bucket
    BY <1>3 DEF Lists, Excess
  <2>2. PICK q, b \in Nat : Since(q, b)
    BY <1>k, <2>1
  <2>3. PICK z \in bucket : z.put >= q /\ Safe(z, q, b)
    BY <2>2 DEF Since
  <2>4. \A d : IsDoomed(d)' => IsDoomed(d) \/ d \in Excess
    BY <1>3 DEF Lists, IsDoomed
  <2>5. ASSUME NEW y \in bucket, y.put >= q, Safe(y, q, b)' PROVE Since(q, b)'
    <3>1. FewOvertake(q, b)'
      BY <2>2, FewStays DEF Since
    <3>2. \A p \in bucket : Good(p) => Good(p)'
      BY <2>1 DEF Good, Opens
    <3> QED
      BY <2>1, <2>2, <2>5, <3>1, <3>2 DEF Since
  <2>6. PICK d \in Excess : \A e \in Excess : e.begun <= d.begun
    <3> DEFINE B == {e.begun : e \in Excess}
    <3>1. B \in SUBSET Nat /\ \A k \in B : k <= second
      BY <1>0, <1>n, <2>1 DEF OfItsSecond
    <3>2. PICK n \in B : TRUE
      BY <2>1
    <3> HIDE DEF B
    <3>3. PICK m \in B : \A k \in B : k <= m
      BY <1>n, <3>1, <3>2, Largest
    <3> QED
      BY <3>3 DEF B
  <2>7. PICK y \in bucket : y.put > d.put /\ y.begun > d.begun
    BY ExcessHasLater
  <2>8. /\ d.begun \in Nat /\ y.begun \in Nat /\ y.put \in Nat /\ z.begun \in Nat
        /\ z.put \in Nat /\ \A e \in Excess : e.begun \in Nat
        /\ \A e \in Objects : e.begun \in Nat
    BY <1>n, <2>1
  <2>9. CASE z.begun >= b /\ \A e \in Objects : IsDoomed(e) => e.begun < z.begun
    <3>1. CASE d.begun < z.begun
      <4>1. \A e \in Objects : IsDoomed(e)' => e.begun < z.begun
        BY <2>4, <2>6, <2>8, <2>9, <3>1
      <4> QED
        BY <2>3, <2>5, <2>9, <4>1 DEF Safe, Name
    <3>2. CASE ~(d.begun < z.begun)
      <4>1. y.begun > b /\ y.put > q
        BY <2>2, <2>7, <2>8, <2>9, <3>2 DEF Since
      <4>2. \A e \in Objects : IsDoomed(e)' => e.begun < y.begun
        BY <2>4, <2>6, <2>7, <2>8, <2>9, <3>2
      <4> QED
        BY <2>5, <2>8, <4>1, <4>2 DEF Safe, Name
    <3> QED
      BY <3>1, <3>2
  <2>10. CASE z.put = q /\ \A e \in Objects : IsDoomed(e) => e.begun < b /\ Name(e) # Name(z)
    <3>1. CASE d.begun >= b
      <4>1. y.begun > b /\ y.put > q
        BY <2>2, <2>7, <2>8, <3>1 DEF Since
      <4>2. \A e \in Objects : IsDoomed(e)' => e.begun < y.begun
        BY <2>4, <2>6, <2>7, <2>8, <2>10, <3>1
      <4> QED
        BY <2>5, <2>8, <4>1, <4>2 DEF Safe, Name
    <3>2. CASE ~(d.begun >= b)
      <4>1. \A e \in Objects : IsDoomed(e)' => e.begun < b
        BY <2>4, <2>6, <2>8, <2>10, <3>2
      <4>2. CASE z \in Excess
        <5>1. Cardinality({p \in bucket : p.put > q}) >= Retention /\ FewOvertake(q, b)
          BY <2>2, <2>10, <4>2 DEF Excess, Newer, Since
        <5>2. PICK x \in bucket : x.put > q /\ x.begun >= b
          BY <1>0, <5>1, OneIsLater
        <5>3. x.begun \in Nat /\ x.put \in Nat
          BY <1>n
        <5>4. \A e \in Objects : IsDoomed(e)' => e.begun < x.begun
          BY <2>8, <4>1, <5>2, <5>3
        <5> QED
          BY <2>5, <5>2, <5>3, <5>4 DEF Safe, Name
      <4>3. CASE z \notin Excess
        <5>1. \A e \in Excess : Name(e) # Name(z)
          BY <1>0, <1>m, <2>1, <4>3 DEF OfItsSecond
        <5>2. \A e \in Objects : IsDoomed(e)' => Name(e) # Name(z)
          BY <2>4, <2>10, <5>1
        <5> QED
          BY <2>3, <2>5, <2>10, <4>1, <5>2 DEF Safe, Name
      <4> QED
        BY <4>2, <4>3
    <3> QED
      BY <3>1, <3>2
  <2> QED
    BY <2>3, <2>9, <2>10 DEF Safe
<1> QED
  BY <1>1, <1>2, <1>3, BackupKinds

\* A finished backup can be restored, however backups overlap, fail and restart.
THEOREM FinishedIsRestorableHolds == BackupSpec => []FinishedIsRestorable
<1>1. BackupInit => BackupInv
  <2> SUFFICES ASSUME BackupInit PROVE BackupInv
    OBVIOUS
  <2> USE DEF BackupInit, Idle
  <2>1. BackupTypeOK
    BY FS_EmptySet DEF BackupTypeOK, TaskStates
  <2>2. InOrder /\ OfItsSecond /\ FewOvertakeAny
    BY DEF InOrder, OfItsSecond, FewOvertakeAny, Carrying, Uploading
  <2>3. ListedBefore /\ Restorable
    BY DEF ListedBefore, IsDoomed, Restorable
  <2> QED
    BY <2>1, <2>2, <2>3 DEF BackupInv
<1>2. BackupInv /\ [BackupNext]_backupVars => BackupInv'
  BY BackupTypeStep, InOrderStep, OfItsSecondStep, FewOvertakeAnyStep, ListedBeforeStep,
     RestorableStep DEF BackupInv
<1>3. BackupInv => FinishedIsRestorable
  <2> SUFFICES ASSUME BackupInv, promised > 0
               PROVE  \E o \in bucket : Opens(o) /\ o.holds >= promised
    BY DEF FinishedIsRestorable
  <2>1. PICK q, b \in Nat : Since(q, b)
    BY DEF BackupInv, Restorable
  <2> QED
    BY <2>1 DEF Since, Good
<1> QED
  BY <1>1, <1>2, <1>3, PTL DEF BackupSpec

-----------------------------------------------------------------------------
(* Conversations.                                                          *)

TablesOK ==
    /\ row \in Seq(ToSet(row)) /\ Len(row) <= MaxId
    /\ \A p \in Ids : row[p].parent \in 0..(p - 1)
    /\ standing \subseteq Ids
    /\ muted \subseteq Ids
    /\ \A m \in muted \cap standing : row[m].parent = 0

RootsAreAbove ==
    \A p \in Ids :
        RootOf(p) = IF row[p].parent \in standing THEN RootOf(row[p].parent)
                    ELSE IF row[p].parent = 0 THEN p ELSE row[p].parent

ConversationsGrow ==
    \A p \in Ids :
        Conversation(p) = IF row[p].parent = 0 THEN {p}
                          ELSE {p} \cup Conversation(row[p].parent)

LEMMA RootsLemma == TablesOK => RootsAreAbove
<1> SUFFICES ASSUME TablesOK PROVE RootsAreAbove
  OBVIOUS
<1> DEFINE N == Len(row)
           up == CHOOSE f : f = [q \in 0..N |->
                     IF q \in standing /\ row[q].parent # 0 THEN f[row[q].parent] ELSE q]
           Bad == {n \in 0..N : ~ \E f : f = [q \in 0..n |->
                     IF q \in standing /\ row[q].parent # 0 THEN f[row[q].parent] ELSE q]}
<1>1. N \in Nat /\ \A q \in 1..N : row[q].parent \in 0..(q - 1)
  BY DEF TablesOK, Ids
<1>2. standing \subseteq 1..N
  BY DEF TablesOK, Ids
<1>3. Bad = {}
  <2>1. SUFFICES ASSUME Bad # {} PROVE FALSE
    OBVIOUS
  <2>2. Bad \in SUBSET Nat
    BY <1>1
  <2>3. PICK n \in Bad : \A k \in Bad : n <= k
    <3> HIDE DEF Bad
    <3> QED
      BY <2>1, <2>2, Smallest
  <2>4. CASE n = 0
    <3> DEFINE f == [q \in 0..0 |-> q]
    <3>1. f = [q \in 0..0 |->
                 IF q \in standing /\ row[q].parent # 0 THEN f[row[q].parent] ELSE q]
      BY <1>1, <1>2
    <3> QED
      BY <2>4, <3>1
  <2>5. CASE n # 0
    <3>0. n \in 0..N
      BY <2>3
    <3>1. n \in 1..N /\ n - 1 \in 0..N /\ n - 1 \notin Bad
      <4> HIDE DEF Bad
      <4> QED
        BY <1>1, <2>3, <2>5, <3>0
    <3>2. PICK f : f = [q \in 0..(n - 1) |->
                     IF q \in standing /\ row[q].parent # 0 THEN f[row[q].parent] ELSE q]
      BY <3>1
    <3> DEFINE g == [q \in 0..n |-> IF q < n THEN f[q]
                       ELSE IF q \in standing /\ row[q].parent # 0 THEN f[row[q].parent] ELSE q]
    <3>3. \A q \in 0..(n - 1) : g[q] = f[q]
      BY <3>1
    <3>4. \A q \in 0..n : q \in standing /\ row[q].parent # 0 =>
              row[q].parent \in 0..(n - 1) /\ (q < n => row[q].parent \in 0..(n - 1))
      BY <1>1, <1>2, <3>1
    <3>5. ASSUME NEW q \in 0..n
          PROVE  g[q] = IF q \in standing /\ row[q].parent # 0 THEN g[row[q].parent] ELSE q
      <4>1. CASE q < n
        <5>1. q \in 0..(n - 1) /\ g[q] = f[q]
          BY <3>1, <3>3, <4>1
        <5>2. f[q] = IF q \in standing /\ row[q].parent # 0 THEN f[row[q].parent] ELSE q
          BY <3>2, <5>1
        <5> QED
          BY <3>3, <3>4, <5>1, <5>2
      <4>2. CASE ~(q < n)
        BY <3>3, <3>4, <4>2
      <4> QED
        BY <4>1, <4>2
    <3>6. g = [q \in 0..n |->
                 IF q \in standing /\ row[q].parent # 0 THEN g[row[q].parent] ELSE q]
      <4> DEFINE h == [q \in 0..n |->
                 IF q \in standing /\ row[q].parent # 0 THEN g[row[q].parent] ELSE q]
      <4>1. \A q \in 0..n : g[q] = h[q]
        BY <3>5
      <4> QED
        BY <4>1
    <3> QED
      BY <2>3, <3>6
  <2> QED
    BY <2>4, <2>5
<1>4. up = [q \in 0..N |->
              IF q \in standing /\ row[q].parent # 0 THEN up[row[q].parent] ELSE q]
  <2>0. N \in 0..N
    BY <1>1
  <2>1. N \notin Bad /\ N \in 0..N
    <3> HIDE DEF Bad
    <3> QED
      BY <1>3, <2>0
  <2>2. \E f : f = [q \in 0..N |->
                 IF q \in standing /\ row[q].parent # 0 THEN f[row[q].parent] ELSE q]
    BY <2>1
  <2> QED
    BY <2>2
<1>5. \A p : RootOf(p) = IF row[p].parent = 0 THEN p ELSE up[row[p].parent]
  BY DEF RootOf
<1> HIDE DEF up
<1>6. ASSUME NEW p \in Ids
      PROVE  RootOf(p) = IF row[p].parent \in standing THEN RootOf(row[p].parent)
                         ELSE IF row[p].parent = 0 THEN p ELSE row[p].parent
  <2> DEFINE r == row[p].parent
  <2>1. r \in 0..N
    BY <1>1 DEF Ids
  <2>2. up[r] = IF r \in standing /\ row[r].parent # 0 THEN up[row[r].parent] ELSE r
    BY <1>4, <2>1
  <2>3. RootOf(p) = IF r = 0 THEN p ELSE up[r]
    BY <1>5
  <2>4. RootOf(r) = IF row[r].parent = 0 THEN r ELSE up[row[r].parent]
    BY <1>5
  <2>5. 0 \notin standing
    BY <1>2
  <2> QED
    BY <2>2, <2>3, <2>4, <2>5
<1> QED
  BY <1>6 DEF RootsAreAbove

LEMMA ConversationsLemma == TablesOK => ConversationsGrow
<1> SUFFICES ASSUME TablesOK PROVE ConversationsGrow
  OBVIOUS
<1> DEFINE N == Len(row)
           up == CHOOSE f : f = [q \in 0..N |->
                     IF q = 0 THEN {} ELSE {q} \cup f[row[q].parent]]
           Bad == {n \in 0..N : ~ \E f : f = [q \in 0..n |->
                     IF q = 0 THEN {} ELSE {q} \cup f[row[q].parent]]}
<1>1. N \in Nat /\ \A q \in 1..N : row[q].parent \in 0..(q - 1)
  BY DEF TablesOK, Ids
<1>3. Bad = {}
  <2>1. SUFFICES ASSUME Bad # {} PROVE FALSE
    OBVIOUS
  <2>2. Bad \in SUBSET Nat
    BY <1>1
  <2>3. PICK n \in Bad : \A k \in Bad : n <= k
    <3> HIDE DEF Bad
    <3> QED
      BY <2>1, <2>2, Smallest
  <2>4. CASE n = 0
    <3> DEFINE f == [q \in 0..0 |-> {}]
    <3>1. f = [q \in 0..0 |-> IF q = 0 THEN {} ELSE {q} \cup f[row[q].parent]]
      OBVIOUS
    <3> QED
      BY <2>4, <3>1
  <2>5. CASE n # 0
    <3>0. n \in 0..N
      BY <2>3
    <3>1. n \in 1..N /\ n - 1 \in 0..N /\ n - 1 \notin Bad
      <4> HIDE DEF Bad
      <4> QED
        BY <1>1, <2>3, <2>5, <3>0
    <3>2. PICK f : f = [q \in 0..(n - 1) |->
                     IF q = 0 THEN {} ELSE {q} \cup f[row[q].parent]]
      BY <3>1
    <3> DEFINE g == [q \in 0..n |-> IF q < n THEN f[q] ELSE {q} \cup f[row[q].parent]]
    <3>3. \A q \in 0..(n - 1) : g[q] = f[q]
      BY <3>1
    <3>4. \A q \in 0..n : q # 0 => row[q].parent \in 0..(n - 1)
      BY <1>1, <3>1
    <3>5. ASSUME NEW q \in 0..n
          PROVE  g[q] = IF q = 0 THEN {} ELSE {q} \cup g[row[q].parent]
      <4>1. CASE q < n
        <5>1. q \in 0..(n - 1) /\ g[q] = f[q]
          BY <3>1, <3>3, <4>1
        <5>2. f[q] = IF q = 0 THEN {} ELSE {q} \cup f[row[q].parent]
          BY <3>2, <5>1
        <5> QED
          BY <3>3, <3>4, <5>1, <5>2
      <4>2. CASE ~(q < n)
        BY <3>1, <3>3, <3>4, <4>2
      <4> QED
        BY <4>1, <4>2
    <3>6. g = [q \in 0..n |-> IF q = 0 THEN {} ELSE {q} \cup g[row[q].parent]]
      <4> DEFINE h == [q \in 0..n |-> IF q = 0 THEN {} ELSE {q} \cup g[row[q].parent]]
      <4>1. \A q \in 0..n : g[q] = h[q]
        BY <3>5
      <4> QED
        BY <4>1
    <3> QED
      BY <2>3, <3>6
  <2> QED
    BY <2>4, <2>5
<1>4. up = [q \in 0..N |-> IF q = 0 THEN {} ELSE {q} \cup up[row[q].parent]]
  <2>0. N \in 0..N
    BY <1>1
  <2>1. N \notin Bad /\ N \in 0..N
    <3> HIDE DEF Bad
    <3> QED
      BY <1>3, <2>0
  <2>2. \E f : f = [q \in 0..N |-> IF q = 0 THEN {} ELSE {q} \cup f[row[q].parent]]
    BY <2>1
  <2> QED
    BY <2>2
<1>5. \A p : Conversation(p) = up[p]
  BY DEF Conversation
<1> HIDE DEF up
<1>6. ASSUME NEW p \in Ids
      PROVE  Conversation(p) = IF row[p].parent = 0 THEN {p}
                               ELSE {p} \cup Conversation(row[p].parent)
  <2>1. p \in 0..N /\ p # 0 /\ 0 \in 0..N
    BY <1>1 DEF Ids
  <2>2. up[p] = {p} \cup up[row[p].parent] /\ up[0] = {}
    BY <1>4, <2>1
  <2> QED
    BY <1>5, <2>2
<1> QED
  BY <1>6 DEF ConversationsGrow

\* The same of the next state.
LEMMA NextTables == TablesOK' => RootsAreAbove' /\ ConversationsGrow'
<1>1. TablesOK => RootsAreAbove /\ ConversationsGrow
  BY RootsLemma, ConversationsLemma
<1> QED
  BY <1>1, PTL

\* A conversation begins with a status that is no reply, or is not here.
LEMMA RootsBegin ==
    ASSUME TablesOK, NEW p \in Ids
    PROVE  RootOf(p) \in Ids /\ (RootOf(p) \in standing => row[RootOf(p)].parent = 0)
<1> DEFINE IsRoot(q) == /\ RootOf(q) \in Ids
                        /\ RootOf(q) \in standing => row[RootOf(q)].parent = 0
           Bad == {q \in Ids : ~IsRoot(q)}
<1>1. Ids \in SUBSET Nat /\ standing \subseteq Ids /\ \A q \in Ids : row[q].parent \in 0..(q - 1)
  BY DEF TablesOK, Ids
<1>2. SUFFICES ASSUME Bad # {} PROVE FALSE
  <2>1. p \notin Bad => IsRoot(p)
    <3> HIDE DEF IsRoot
    <3> QED
      OBVIOUS
  <2> QED
    BY <2>1
<1>3. PICK n \in Bad : \A k \in Bad : n <= k
  <2>1. Bad \in SUBSET Nat
    BY <1>1
  <2> HIDE DEF Bad
  <2> QED
    BY <1>2, <2>1, Smallest
<1> DEFINE r == row[n].parent
<1>4. n \in Ids /\ r \in 0..(n - 1) /\ ~IsRoot(n)
  BY <1>1, <1>3
<1>5. r \in Ids => IsRoot(r)
  <2>1. r \in Nat /\ n \in Nat /\ ~(n <= r)
    BY <1>1, <1>4
  <2>2. r \notin Bad
    <3> HIDE DEF Bad, r
    <3> QED
      BY <1>3, <2>1
  <2> QED
    BY <2>2
<1>6. r # 0 => r \in Ids
  BY <1>4 DEF Ids, TablesOK
<1>7. RootOf(n) = IF r \in standing THEN RootOf(r) ELSE IF r = 0 THEN n ELSE r
  BY <1>4, RootsLemma DEF RootsAreAbove
<1> QED
  BY <1>1, <1>4, <1>5, <1>6, <1>7

\* Rows stay as they were made, and none comes back.
Grown == /\ \A p \in Ids : p \in Ids' /\ row'[p] = row[p]
         /\ standing' \cap Ids \subseteq standing

\* A conversation that is whole keeps its beginning.
LEMMA WholeKeepsRoot ==
    ASSUME TablesOK, TablesOK', Grown, NEW p \in Ids, Conversation(p)' \subseteq standing'
    PROVE  RootOf(p)' = RootOf(p)
<1> DEFINE Bad == {q \in Ids : Conversation(q)' \subseteq standing' /\ RootOf(q)' # RootOf(q)}
<1>1. /\ Ids \in SUBSET Nat /\ standing \subseteq Ids /\ 0 \notin Ids /\ 0 \notin standing'
      /\ \A q \in Ids : row[q].parent \in 0..(q - 1)
  BY DEF TablesOK, Ids
<1>2. SUFFICES ASSUME Bad # {} PROVE FALSE
  OBVIOUS
<1>3. PICK n \in Bad : \A k \in Bad : n <= k
  <2>1. Bad \in SUBSET Nat
    BY <1>1
  <2> HIDE DEF Bad
  <2> QED
    BY <1>2, <2>1, Smallest
<1>4. PICK r \in Nat : r = row[n].parent /\ r = row'[n].parent
  BY <1>1, <1>3 DEF Grown
<1>5. n \in Ids /\ n \in Ids' /\ Conversation(n)' \subseteq standing' /\ RootOf(n)' # RootOf(n)
  BY <1>3 DEF Grown
<1>6. RootOf(n) = IF r \in standing THEN RootOf(r) ELSE IF r = 0 THEN n ELSE r
  BY <1>4, <1>5, RootsLemma DEF RootsAreAbove
<1>7. RootOf(n)' = IF r \in standing' THEN RootOf(r)' ELSE IF r = 0 THEN n ELSE r
  BY <1>4, <1>5, NextTables DEF RootsAreAbove
<1>8. CASE r = 0
  BY <1>1, <1>5, <1>6, <1>7, <1>8
<1>9. CASE r # 0
  <2>1. r \in Ids /\ r < n /\ r \in Ids'
    <3>1. r \in 0..(n - 1) /\ n \in Nat
      BY <1>1, <1>4, <1>5
    <3>2. r < n /\ r \in Ids
      BY <1>5, <1>9, <3>1 DEF Ids, TablesOK
    <3> QED
      BY <3>2 DEF Grown
  <2>2. Conversation(r)' \subseteq Conversation(n)' /\ r \in Conversation(r)'
    BY <1>4, <1>5, <1>9, <2>1, NextTables DEF ConversationsGrow
  <2>3. r \in standing' /\ r \in standing /\ Conversation(r)' \subseteq standing'
    BY <1>5, <2>1, <2>2 DEF Grown
  <2>4. ~(n <= r)
    BY <1>1, <1>5, <2>1
  <2>5. r \notin Bad
    <3> HIDE DEF Bad
    <3> QED
      BY <1>3, <2>4
  <2> QED
    BY <1>5, <1>6, <1>7, <2>1, <2>3, <2>5
<1> QED
  BY <1>8, <1>9

\* The root of a conversation is the one before, or a status that has just gone.
LEMMA RootsMove ==
    ASSUME TablesOK, TablesOK', Grown, NEW p \in Ids
    PROVE  \/ RootOf(p)' = RootOf(p)
           \/ /\ RootOf(p)' \in standing \ standing'
              /\ row[RootOf(p)'].parent # 0
<1> DEFINE Moved(q) == RootOf(q)' \in standing \ standing' /\ row[RootOf(q)'].parent # 0
           Bad == {q \in Ids : RootOf(q)' # RootOf(q) /\ ~Moved(q)}
<1>1. /\ Ids \in SUBSET Nat /\ standing \subseteq Ids /\ 0 \notin Ids /\ 0 \notin standing'
      /\ \A q \in Ids : row[q].parent \in 0..(q - 1)
  BY DEF TablesOK, Ids
<1>2. SUFFICES ASSUME Bad # {} PROVE FALSE
  OBVIOUS
<1>3. PICK n \in Bad : \A k \in Bad : n <= k
  <2>1. Bad \in SUBSET Nat
    BY <1>1
  <2> HIDE DEF Bad
  <2> QED
    BY <1>2, <2>1, Smallest
<1>4. PICK r \in Nat : r = row[n].parent /\ r = row'[n].parent
  BY <1>1, <1>3 DEF Grown
<1>5. n \in Ids /\ n \in Ids' /\ RootOf(n)' # RootOf(n) /\ ~Moved(n)
  BY <1>3 DEF Grown
<1>6. RootOf(n) = IF r \in standing THEN RootOf(r) ELSE IF r = 0 THEN n ELSE r
  BY <1>4, <1>5, RootsLemma DEF RootsAreAbove
<1>7. RootOf(n)' = IF r \in standing' THEN RootOf(r)' ELSE IF r = 0 THEN n ELSE r
  BY <1>4, <1>5, NextTables DEF RootsAreAbove
<1>8. CASE r = 0
  BY <1>1, <1>5, <1>6, <1>7, <1>8
<1>9. CASE r # 0
  <2>1. r \in Ids /\ r < n /\ r \in Ids'
    BY <1>1, <1>4, <1>5, <1>9 DEF Ids, TablesOK, Grown
  <2>2. ~(n <= r)
    BY <1>1, <1>5, <2>1
  <2>3. r \notin Bad
    <3> HIDE DEF Bad
    <3> QED
      BY <1>3, <2>2
  <2>4. CASE r \in standing'
    BY <1>5, <1>6, <1>7, <2>1, <2>3, <2>4 DEF Grown
  <2>5. CASE r \notin standing'
    <3>1. RootOf(n)' = r
      BY <1>7, <1>9, <2>5
    <3>2. r \in standing /\ row[r].parent = 0
      BY <1>5, <1>6, <1>9, <2>5, <3>1
    <3>3. RootOf(r) = r
      BY <1>1, <2>1, <3>2, RootsLemma DEF RootsAreAbove
    <3> QED
      BY <1>5, <1>6, <3>1, <3>2, <3>3
  <2> QED
    BY <2>4, <2>5
<1> QED
  BY <1>8, <1>9

\* The root of a silenced status is muted.
LEMMA SilencedIsMuted ==
    ASSUME TablesOK, NEW p \in Silenced
    PROVE  p \in Ids /\ RootOf(p) \in muted
<1> DEFINE Bad == {q \in Ids : /\ Conversation(q) \subseteq standing
                               /\ Conversation(q) \cap muted # {} /\ RootOf(q) \notin muted}
<1>1. /\ Ids \in SUBSET Nat /\ standing \subseteq Ids /\ 0 \notin Ids
      /\ \A q \in Ids : row[q].parent \in 0..(q - 1)
  BY DEF TablesOK, Ids
<1>2. SUFFICES ASSUME Bad # {} PROVE FALSE
  BY <1>1 DEF Silenced
<1>3. PICK n \in Bad : \A k \in Bad : n <= k
  <2>1. Bad \in SUBSET Nat
    BY <1>1
  <2> HIDE DEF Bad
  <2> QED
    BY <1>2, <2>1, Smallest
<1> DEFINE r == row[n].parent
<1>4. n \in Ids /\ r \in 0..(n - 1)
  BY <1>1, <1>3
<1>5. RootOf(n) = IF r \in standing THEN RootOf(r) ELSE IF r = 0 THEN n ELSE r
  BY <1>4, RootsLemma DEF RootsAreAbove
<1>6. Conversation(n) = IF r = 0 THEN {n} ELSE {n} \cup Conversation(r)
  BY <1>4, ConversationsLemma DEF ConversationsGrow
<1>7. CASE r = 0
  BY <1>1, <1>3, <1>5, <1>6, <1>7
<1>8. CASE r # 0
  <2>1. r \in Ids /\ ~(n <= r) /\ r \in Conversation(r)
    <3>1. r \in Ids /\ ~(n <= r)
      BY <1>1, <1>4, <1>8 DEF Ids, TablesOK
    <3> QED
      BY <3>1, ConversationsLemma DEF ConversationsGrow
  <2>2. n \notin muted
    <3>1. n \in standing
      BY <1>3, <1>6
    <3> QED
      BY <1>8, <3>1 DEF TablesOK
  <2>3. Conversation(r) \subseteq standing /\ Conversation(r) \cap muted # {}
    BY <1>3, <1>6, <1>8, <2>2
  <2>4. r \notin Bad
    <3> HIDE DEF Bad, r
    <3> QED
      BY <1>3, <2>1
  <2> QED
    BY <1>3, <1>5, <2>1, <2>3, <2>4
<1> QED
  BY <1>7, <1>8

-----------------------------------------------------------------------------
(* Sequences.                                                              *)

LEMMA AppendSet ==
    ASSUME NEW s, s \in Seq(ToSet(s)), NEW e
    PROVE  /\ Append(s, e) \in Seq(ToSet(Append(s, e)))
           /\ ToSet(Append(s, e)) = ToSet(s) \cup {e}
<1> DEFINE S == ToSet(s) \cup {e}
           t == Append(s, e)
<1>1. s \in Seq(S) /\ e \in S
  BY DEF ToSet
<1>2. t \in Seq(S) /\ Len(t) = Len(s) + 1 /\ t[Len(s) + 1] = e /\ Len(s) \in Nat
      /\ \A i \in 1..Len(s) : t[i] = s[i]
  <2> HIDE DEF S
  <2> QED
    BY <1>1
<1>3. DOMAIN s = 1..Len(s) /\ DOMAIN t = 1..(Len(s) + 1)
  BY <1>1, <1>2
<1> HIDE DEF t
<1>4. ToSet(t) = S
  <2>1. ASSUME NEW x \in S PROVE x \in ToSet(t)
    <3>1. CASE x = e
      BY <1>2, <1>3, <3>1 DEF ToSet
    <3>2. CASE x \in ToSet(s)
      BY <1>2, <1>3, <3>2 DEF ToSet
    <3> QED
      BY <2>1, <3>1, <3>2
  <2>2. ASSUME NEW x \in ToSet(t) PROVE x \in S
    <3>1. PICK i \in 1..(Len(s) + 1) : x = t[i]
      BY <1>3, <2>2 DEF ToSet
    <3>2. i = Len(s) + 1 \/ i \in 1..Len(s)
      BY <1>2, <3>1
    <3> QED
      BY <1>2, <1>3, <3>1, <3>2 DEF ToSet
  <2> QED
    BY <2>1, <2>2
<1> QED
  BY <1>2, <1>4 DEF t

LEMMA TailSet ==
    ASSUME NEW s, s \in Seq(ToSet(s)), s # <<>>
    PROVE  /\ Tail(s) \in Seq(ToSet(Tail(s)))
           /\ ToSet(Tail(s)) \subseteq ToSet(s)
           /\ Head(s) \in ToSet(s)
           /\ ToSet(s) = {Head(s)} \cup ToSet(Tail(s))
<1> DEFINE S == ToSet(s)
           t == Tail(s)
<1>1. /\ t \in Seq(S) /\ Len(s) \in Nat \ {0} /\ Len(t) = Len(s) - 1
      /\ \A i \in 1..Len(t) : t[i] = s[i + 1]
      /\ Head(s) = s[1]
  <2> HIDE DEF S
  <2> QED
    BY DEF S
<1>2. DOMAIN s = 1..Len(s) /\ DOMAIN t = 1..(Len(s) - 1)
  BY <1>1
<1> HIDE DEF t
<1>3. ToSet(t) \subseteq S
  BY <1>1, <1>2 DEF ToSet
<1>4. Head(s) \in S
  BY <1>1, <1>2 DEF ToSet
<1>5. ASSUME NEW x \in S, x # Head(s) PROVE x \in ToSet(t)
  <2>1. PICK i \in 1..Len(s) : x = s[i]
    BY <1>2, <1>5 DEF ToSet
  <2>2. i # 1
    BY <1>1, <1>5, <2>1
  <2>3. i - 1 \in 1..(Len(s) - 1) /\ (i - 1) + 1 = i
    BY <1>1, <2>1, <2>2
  <2>4. t[i - 1] = x
    BY <1>1, <1>2, <2>1, <2>3
  <2> QED
    BY <1>2, <2>3, <2>4 DEF ToSet
<1>6. t \in Seq(ToSet(t))
  <2>1. \A i \in 1..Len(t) : t[i] \in ToSet(t)
    BY <1>1, <1>2 DEF ToSet
  <2> QED
    BY <1>1, <2>1
<1> QED
  BY <1>3, <1>4, <1>5, <1>6 DEF t

-----------------------------------------------------------------------------
(* What is muted stays hidden.                                             *)

LEMMA TablesStep ==
    ASSUME TablesOK, [TimelineNext]_timelineVars
    PROVE  TablesOK' /\ Grown
<1>0. row \in Seq(ToSet(row)) /\ Len(row) \in Nat
  BY DEF TablesOK
<1>1. CASE UNCHANGED <<row, standing, muted>>
  BY <1>1 DEF TablesOK, Grown, Ids
<1>2. ASSUME NEW r \in NewRows, Post(r) PROVE TablesOK' /\ Grown
  <2>1. PICK new : new.parent = r.parent /\ row' = Append(row, new)
    <3>1. PICK time : row' = Append(row, [local |-> r.local, public |-> r.public,
                                      tagged |-> r.tagged, author |-> r.author,
                                      parent |-> r.parent, time |-> time])
      BY <1>2 DEF Post
    <3> QED
      BY <3>1
  <2>2. /\ r.parent \in standing \cup {0} /\ Len(row) < MaxId /\ MaxId \in Nat
        /\ standing' = standing \cup {Len(row) + 1} /\ muted' = muted
    BY <1>2, TimelinesAssumption DEF Post
  <2>3. row' \in Seq(ToSet(row'))
    BY <1>0, <2>1, AppendSet
  <2>4. /\ Len(row') = Len(row) + 1 /\ row'[Len(row) + 1] = new
        /\ \A p \in 1..Len(row) : row'[p] = row[p]
    <3>1. row \in Seq(ToSet(row) \cup {new})
      BY <1>0
    <3> HIDE DEF TablesOK
    <3> QED
      BY <2>1, <3>1
  <2>5. \A p \in Ids' : row'[p].parent \in 0..(p - 1)
    <3>1. ASSUME NEW p \in Ids' PROVE row'[p].parent \in 0..(p - 1)
      <4>1. CASE p \in Ids
        BY <2>4, <4>1 DEF TablesOK, Ids
      <4>2. CASE p \notin Ids
        <5>1. p = Len(row) + 1
          BY <1>0, <2>4, <4>2 DEF Ids
        <5>2. r.parent \in 0..Len(row)
          <6>1. \A q \in standing : q \in 0..Len(row)
            BY DEF TablesOK, Ids
          <6> QED
            BY <1>0, <2>2, <6>1
        <5> QED
          BY <1>0, <2>1, <2>4, <5>1, <5>2
      <4> QED
        BY <4>1, <4>2
    <3> QED
      BY <3>1
  <2>6. Ids' = Ids \cup {Len(row) + 1} /\ Len(row) + 1 \notin Ids
    BY <1>0, <2>4 DEF Ids
  <2>7. \A m \in muted' \cap standing' : row'[m].parent = 0
    BY <2>2, <2>4, <2>6 DEF TablesOK, Ids
  <2>8. Len(row') <= MaxId
    BY <1>0, <2>2, <2>4
  <2> QED
    BY <2>2, <2>3, <2>4, <2>5, <2>6, <2>7, <2>8 DEF TablesOK, Grown, Ids
<1>3. ASSUME NEW p \in Ids, Erase(p) PROVE TablesOK' /\ Grown
  BY <1>3 DEF Erase, TablesOK, Grown, Ids
<1>4. ASSUME NEW p \in Ids, Mute(p) PROVE TablesOK' /\ Grown
  <2>1. RootOf(p) \in Ids /\ (RootOf(p) \in standing => row[RootOf(p)].parent = 0)
    BY RootsBegin
  <2> QED
    BY <1>4, <2>1 DEF Mute, TablesOK, Grown, Ids
<1>5. ASSUME NEW p \in Ids, Unmute(p) PROVE TablesOK' /\ Grown
  BY <1>5 DEF Unmute, TablesOK, Grown, Ids
<1>6. ASSUME NEW p \in Ids, Mark(p) \/ Unmark(p) \/ Pin(p) PROVE TablesOK' /\ Grown
  BY <1>1, <1>6 DEF Mark, Unmark, Pin
<1>7. ASSUME NEW authors, AddToList(authors) \/ RemoveFromList(authors)
      PROVE  TablesOK' /\ Grown
  BY <1>1, <1>7 DEF AddToList, RemoveFromList
<1>8. CASE Ask \/ Serve \/ UNCHANGED timelineVars
  BY <1>1, <1>8 DEF Ask, Serve, ReadMutes, Fetch, Filter, Answer, AnswerWithoutReplies,
                   tables, timelineVars
<1> QED
  BY <1>2, <1>3, <1>4, <1>5, <1>6, <1>7, <1>8 DEF TimelineNext, Meanwhile

IsSeq(s) == s \in Seq(ToSet(s))

ReaderFields == {"limit", "min", "ordered", "at", "below", "found", "kept", "rows", "short",
                 "mutes", "size", "shown", "cursor", "done"}

ReaderOK ==
    /\ DOMAIN reader = ReaderFields
    /\ reader.limit \in Limits /\ reader.size \in Nat
    /\ reader.at # "rest" => IsSeq(reader.found)
    /\ IsSeq(reader.rows)
    /\ reader.at = "begin" => reader.found = <<>>
    /\ reader.at = "filter" => reader.rows # <<>>

\* A silenced status has its root among the mutes that the request has read.
MutedInv ==
    /\ TablesOK /\ ReaderOK
    /\ silent \subseteq Silenced
    /\ HidesMuted /\ reader.at \in {"fetch", "filter", "found"} =>
           \A p \in silent : RootOf(p) \in reader.mutes /\ p \notin ToSet(reader.found)

LEMMA FirstRowsIsSeq ==
    ASSUME NEW S, IsFiniteSet(S), NEW n \in Nat
    PROVE  IsSeq(FirstRows(S, n))
<1> DEFINE s == FirstRows(S, n)
           k == IF Cardinality(S) <= n THEN Cardinality(S) ELSE n
<1>1. k \in Nat
  BY FS_CardinalityType
<1> HIDE DEF k
<1>2. s = [i \in 1..k |-> CHOOSE p \in S : Cardinality({q \in S : Before(q, p)}) = i - 1]
  BY DEF FirstRows, k
<1>3. DOMAIN s = 1..k /\ s = [i \in 1..k |-> s[i]]
  BY <1>2
<1> HIDE DEF s
<1>4. \A i \in 1..k : s[i] \in ToSet(s)
  BY <1>3 DEF ToSet
<1>5. s \in Seq(ToSet(s))
  BY <1>1, <1>3, <1>4
<1> QED
  BY <1>5 DEF IsSeq, s

LEMMA RowsAreFinite ==
    ASSUME TablesOK, NEW c
    PROVE  /\ IsFiniteSet(standing)
           /\ IsFiniteSet({p \in Rows : Below(p, c) /\ Above(p)})
<1>1. standing \in SUBSET (1..Len(row)) /\ Len(row) \in Nat
  BY DEF TablesOK, Ids
<1>2. IsFiniteSet(standing)
  <2>1. IsFiniteSet(1..Len(row))
    BY <1>1, FS_Interval
  <2> QED
    BY <1>1, <2>1, FS_Subset
<1>3. {p \in Rows : Below(p, c) /\ Above(p)} \in SUBSET standing
  BY DEF Rows
<1> QED
  BY <1>2, <1>3, FS_Subset

LEMMA SizeIsNat ==
    ASSUME ReaderOK, NEW mutes PROVE FetchSize(mutes) \in Nat
<1>1. /\ reader.limit \in Nat /\ Overfetch \in Nat /\ MaxFetch \in Nat
  BY TimelinesAssumption DEF ReaderOK
<1>2. \A a, b \in Nat : a * b \in Nat
  OBVIOUS
<1>3. reader.limit * Overfetch \in Nat
  BY <1>1, <1>2
<1> QED
  BY <1>1, <1>3 DEF FetchSize

LEMMA EmptyIsSeq == IsSeq(<<>>) /\ ToSet(<<>>) = {}
  BY DEF IsSeq, ToSet

LEMMA ReaderStep ==
    ASSUME TablesOK, ReaderOK, [TimelineNext]_timelineVars PROVE ReaderOK'
<1>1. CASE reader' = reader
  BY <1>1 DEF ReaderOK
<1>2. CASE Ask
  BY <1>2, EmptyIsSeq DEF Ask, ReaderOK, ReaderFields
<1>3. CASE ReadMutes
  <2>1. PICK mutes : reader' = [reader EXCEPT !.at = "fetch", !.mutes = mutes,
                                              !.size = FetchSize(mutes)]
    BY <1>3 DEF ReadMutes
  <2>2. FetchSize(mutes) \in Nat
    BY SizeIsNat
  <2>3. /\ reader'.at = "fetch" /\ reader'.size = FetchSize(mutes)
        /\ reader'.found = reader.found /\ reader'.rows = reader.rows
        /\ reader'.limit = reader.limit /\ DOMAIN reader' = ReaderFields
    BY <2>1 DEF ReaderOK, ReaderFields
  <2>4. reader.at # "rest"
    BY <1>3 DEF ReadMutes
  <2> QED
    BY <2>2, <2>3, <2>4 DEF ReaderOK
<1>4. CASE Fetch
  <2>1. PICK rows : rows = Page(reader.below, reader.size)
    OBVIOUS
  <2>2. IsSeq(rows)
    BY <2>1, RowsAreFinite, FirstRowsIsSeq DEF Page, ReaderOK
  <2>3. \/ reader' = [reader EXCEPT !.found = rows, !.at = "found"]
        \/ reader' = [reader EXCEPT !.rows = rows, !.short = Len(rows) < reader.size,
                          !.at = IF rows = <<>> THEN "found" ELSE "filter"]
    BY <1>4, <2>1 DEF Fetch
  <2>4. reader.at = "fetch"
    BY <1>4 DEF Fetch
  <2>5. /\ DOMAIN reader' = ReaderFields
        /\ reader'.limit = reader.limit /\ reader'.size = reader.size
        /\ reader'.at = "filter" => reader'.rows # <<>>
        /\ reader'.at # "begin"
        /\ reader'.found \in {rows, reader.found} /\ reader'.rows \in {rows, reader.rows}
    BY <2>3 DEF ReaderOK, ReaderFields
  <2> QED
    BY <2>2, <2>4, <2>5 DEF ReaderOK
<1>5. CASE Filter
  <2> DEFINE p == Head(reader.rows)
             shown == RootOf(p) \notin reader.mutes /\ Keeps(p)
             found == IF shown THEN Append(reader.found, p) ELSE reader.found
             rest == Tail(reader.rows)
  <2>1. IsSeq(found) /\ IsSeq(rest)
    BY <1>5, AppendSet, TailSet DEF Filter, ReaderOK, IsSeq
  <2>2. reader' = [reader EXCEPT
               !.found = found,
               !.rows = rest,
               !.below = IF rest = <<>> THEN p ELSE reader.below,
               !.at = IF Len(found) >= reader.limit THEN "found"
                      ELSE IF rest # <<>> THEN "filter"
                      ELSE IF reader.short THEN "found" ELSE "fetch"]
    BY <1>5 DEF Filter
  <2> HIDE DEF found, rest, p
  <2> QED
    BY <2>1, <2>2 DEF ReaderOK, ReaderFields
<1>6. ASSUME NEW rows, reader' = Answered(rows) PROVE ReaderOK'
  BY <1>6 DEF Answered, ReaderOK, ReaderFields
<1>7. CASE Answer
  BY <1>6, <1>7 DEF Answer
<1>8. CASE AnswerWithoutReplies
  <2>1. \/ \E kept : reader' = Answered(kept)
        \/ \E kept, below : reader' = [reader EXCEPT !.kept = kept, !.found = <<>>,
                                                     !.below = below, !.at = "begin"]
    BY <1>8 DEF AnswerWithoutReplies
  <2>2. ASSUME NEW kept, NEW below,
               reader' = [reader EXCEPT !.kept = kept, !.found = <<>>,
                                        !.below = below, !.at = "begin"]
        PROVE  ReaderOK'
    BY <2>2, EmptyIsSeq DEF ReaderOK, ReaderFields
  <2> QED
    BY <1>6, <2>1, <2>2
<1>9. ASSUME Meanwhile PROVE reader' = reader
  BY <1>9 DEF Meanwhile, Post, Erase, Mute, Unmute, Mark, Unmark, Pin, AddToList,
              RemoveFromList, Change
<1> QED
  BY <1>1, <1>2, <1>3, <1>4, <1>5, <1>7, <1>8, <1>9
     DEF TimelineNext, Serve, timelineVars

LEMMA MutedStep ==
    ASSUME MutedInv, [TimelineNext]_timelineVars PROVE MutedInv'
<1>0. TablesOK /\ ReaderOK /\ TablesOK' /\ Grown /\ ReaderOK'
  BY TablesStep, ReaderStep DEF MutedInv
<1>1. silent' \subseteq Silenced'
  <2>1. CASE Ask
    <3>1. silent' = Silenced /\ UNCHANGED <<row, standing, muted>>
      BY <2>1 DEF Ask, tables
    <3>2. Silenced' = Silenced
      BY <3>1 DEF Silenced, Conversation
    <3> QED
      BY <3>1, <3>2
  <2>2. CASE silent' = silent \cap Silenced'
    BY <2>2
  <2>3. CASE UNCHANGED timelineVars
    <3>1. Silenced' = Silenced /\ silent' = silent
      BY <2>3 DEF Silenced, Conversation, timelineVars, tables
    <3> QED
      BY <3>1 DEF MutedInv
  <2> QED
    BY <2>1, <2>2, <2>3 DEF TimelineNext
<1>2. view' = view
  BY DEF TimelineNext, Ask, Serve, ReadMutes, Fetch, Filter, Answer, AnswerWithoutReplies,
         Meanwhile, Post, Erase, Mute, Unmute, Mark, Unmark, Pin, AddToList,
         RemoveFromList, Change, timelineVars
<1>3. SUFFICES ASSUME HidesMuted, reader'.at \in {"fetch", "filter", "found"},
                      NEW p \in silent'
               PROVE  RootOf(p)' \in reader'.mutes /\ p \notin ToSet(reader'.found)
  BY <1>0, <1>1, <1>2 DEF MutedInv, HidesMuted
<1>a. ASSUME Ask PROVE reader'.at = "begin"
  BY <1>0, <1>a DEF Ask, ReaderOK, ReaderFields
<1>4. p \in silent
  BY <1>3, <1>a DEF TimelineNext, timelineVars
<1>5. p \in Ids /\ RootOf(p) \in muted
  BY <1>0, <1>4, SilencedIsMuted DEF MutedInv
<1>6. RootOf(p)' = RootOf(p)
  <2>1. Conversation(p)' \subseteq standing'
    BY <1>1, <1>3 DEF Silenced
  <2> QED
    BY <1>0, <1>5, <2>1, WholeKeepsRoot
<1>7. ASSUME reader.at \in {"fetch", "filter", "found"}
      PROVE  RootOf(p) \in reader.mutes /\ p \notin ToSet(reader.found)
  BY <1>2, <1>3, <1>4, <1>7 DEF MutedInv
<1>8. CASE reader' = reader
  BY <1>3, <1>6, <1>7, <1>8
<1>9. CASE ReadMutes
  <2>1. reader'.mutes = muted /\ reader'.found = reader.found /\ reader.at = "begin"
    BY <1>0, <1>3, <1>9 DEF ReadMutes, ReaderOK, ReaderFields
  <2> QED
    BY <1>0, <1>5, <1>6, <2>1, EmptyIsSeq DEF ReaderOK
<1>10. CASE Fetch
  <2>1. reader.at = "fetch" /\ reader.mutes # {}
    BY <1>7, <1>10 DEF Fetch
  <2>2. reader'.mutes = reader.mutes /\ reader'.found = reader.found
    BY <1>0, <1>10, <2>1 DEF Fetch, ReaderOK, ReaderFields
  <2> QED
    BY <1>6, <1>7, <2>1, <2>2
<1>11. CASE Filter
  <2> DEFINE q == Head(reader.rows)
  <2>1. /\ reader.at = "filter" /\ reader'.mutes = reader.mutes
        /\ \/ reader'.found = reader.found
           \/ reader'.found = Append(reader.found, q) /\ RootOf(q) \notin reader.mutes
    BY <1>0, <1>11 DEF Filter, ReaderOK, ReaderFields
  <2>2. ToSet(Append(reader.found, q)) = ToSet(reader.found) \cup {q}
    BY <1>0, <2>1, AppendSet DEF ReaderOK, IsSeq
  <2> HIDE DEF q
  <2> QED
    BY <1>6, <1>7, <2>1, <2>2
<1>12. CASE Answer \/ AnswerWithoutReplies
  <2>1. reader'.at \in {"rest", "begin"}
    <3>1. \A rows : Answered(rows).at = "rest"
      BY <1>0 DEF Answered, ReaderOK, ReaderFields
    <3> QED
      BY <1>0, <1>12, <3>1 DEF Answer, AnswerWithoutReplies, ReaderOK, ReaderFields
  <2> QED
    BY <1>3, <2>1
<1>13. ASSUME Meanwhile PROVE reader' = reader
  BY <1>13 DEF Meanwhile, Post, Erase, Mute, Unmute, Mark, Unmark, Pin, AddToList,
               RemoveFromList, Change
<1> QED
  BY <1>3, <1>8, <1>9, <1>10, <1>11, <1>12, <1>13, <1>a
     DEF TimelineNext, Serve, timelineVars

LEMMA MutedStart == TimelineInit => MutedInv
<1> SUFFICES ASSUME TimelineInit PROVE MutedInv
  OBVIOUS
<1>1. PICK t \in Tables : row = t.row /\ muted = t.muted
  BY DEF TimelineInit
<1>2. IsTable(t)
  BY TimelinesAssumption
<1>3. TablesOK
  BY <1>1, <1>2 DEF TimelineInit, TablesOK, IsTable, Ids
<1>4. PICK limit \in Limits, min \in {0, 1}, ordered \in BOOLEAN : reader = Resting(limit, min, ordered)
  BY DEF TimelineInit
<1>5. ReaderOK
  BY <1>4, EmptyIsSeq DEF ReaderOK, ReaderFields, Resting
<1> QED
  BY <1>3, <1>4, <1>5 DEF MutedInv, TimelineInit, Resting

\* A page has nothing of a conversation that was muted before it was asked for and
\* is whole, whatever is posted, deleted, muted and unmuted while it is made.
THEOREM MutedIsHiddenHolds == TimelineSpec => []MutedIsHidden
<1>1. MutedInv /\ [TimelineNext]_timelineVars => MutedInv'
  BY MutedStep
<1>2. MutedInv => MutedIsHidden
  BY DEF MutedInv, MutedIsHidden
<1> QED
  BY <1>1, <1>2, MutedStart, PTL DEF TimelineSpec

-----------------------------------------------------------------------------
(* The order of the rows.                                                  *)

\* A row that can be told from the others of a page.
Live(p) == p \in Ids /\ (view \in MarkViews => marks[p] > 0)

\* p comes before c in the timeline, and would if it were marked again.
Past(p, c) ==
    IF view \in MarkViews
    THEN IF marks[p] > 0 THEN marks[p] > marks[c] \/ (marks[p] = marks[c] /\ p > c)
                         ELSE lastMark > marks[c] \/ p > c
    ELSE p > c

\* Below c, or anywhere if there is no c.
From(c, p) == c = 0 \/ Past(c, p)

MarksOK ==
    /\ marks \in [1..MaxId -> Nat] /\ lastMark \in Nat
    /\ \A p \in 1..MaxId : marks[p] <= lastMark
    /\ view \in Views
    /\ reader.ordered => \A p \in Ids : row[p].time = 2 * p

OrderOK == TablesOK /\ MarksOK /\ IsOneOrder

LEMMA OrderNumbers ==
    ASSUME OrderOK
    PROVE  /\ lastMark \in Nat
           /\ \A p \in Ids : p \in Nat /\ marks[p] \in Nat /\ marks[p] <= lastMark
<1>1. Len(row) \in Nat /\ Len(row) <= MaxId /\ MaxId \in Nat
  BY TimelinesAssumption DEF OrderOK, TablesOK
<1>2. \A p \in Ids : p \in 1..MaxId /\ p \in Nat
  BY <1>1 DEF Ids
<1> QED
  BY <1>2 DEF OrderOK, MarksOK

LEMMA PastIsOrder ==
    ASSUME OrderOK, NEW p \in Ids, NEW c, Live(c), NEW d, Live(d)
    PROVE  /\ ~Past(d, d)
           /\ Past(p, c) /\ Past(c, d) => Past(p, d)
           /\ Past(c, d) \/ Past(d, c) \/ c = d
  BY OrderNumbers DEF Live, Past

LEMMA BeforeIsPast ==
    ASSUME OrderOK, NEW c, Live(c), NEW d, Live(d)
    PROVE  Before(c, d) <=> Past(c, d)
<1>1. /\ c \in Ids /\ d \in Ids /\ c \in Nat /\ d \in Nat
      /\ view \in MarkViews => marks[c] \in Nat /\ marks[d] \in Nat /\ marks[c] > 0
  BY OrderNumbers DEF Live
<1>2. view \in MarkViews \cup IdViews \cup TimeViews
  BY TimelinesAssumption DEF OrderOK, MarksOK
<1>3. CASE view \in MarkViews
  BY <1>1, <1>3 DEF Before, Past, MarkViews, IdViews, TimeViews
<1>4. CASE view \in IdViews
  BY <1>1, <1>4 DEF Before, Past, MarkViews, IdViews, TimeViews
<1>5. CASE view \in TimeViews
  <2>1. row[c].time = 2 * c /\ row[d].time = 2 * d
    BY <1>1, <1>5 DEF OrderOK, MarksOK, IsOneOrder
  <2> QED
    BY <1>1, <1>5, <2>1 DEF Before, Past, MarkViews, IdViews, TimeViews
<1> QED
  BY <1>2, <1>3, <1>4, <1>5

\* Each row has a rank of its own, and each rank a row.
LEMMA Ranks ==
    ASSUME OrderOK, NEW S, IsFiniteSet(S), \A p \in S : Live(p)
    PROVE  /\ \A i \in 1..Cardinality(S) :
                  \E p \in S : Cardinality({q \in S : Before(q, p)}) = i - 1
           /\ \A p, q \in S : Past(p, q) <=>
                  Cardinality({r \in S : Before(r, p)}) < Cardinality({r \in S : Before(r, q)})
           /\ \A p \in S : Cardinality({q \in S : Before(q, p)}) \in 0..(Cardinality(S) - 1)
<1> DEFINE B(p) == {q \in S : Before(q, p)}
           n == Cardinality(S)
           f == [p \in S |-> Cardinality(B(p))]
<1>1. n \in Nat
  BY FS_CardinalityType
<1>2. \A p \in S : p \in Ids
  BY DEF Live
<1>3. \A p \in S : B(p) \in SUBSET S /\ IsFiniteSet(B(p)) /\ Cardinality(B(p)) \in Nat
  <2>1. ASSUME NEW p \in S
        PROVE  B(p) \in SUBSET S /\ IsFiniteSet(B(p)) /\ Cardinality(B(p)) \in Nat
    <3>1. B(p) \in SUBSET S
      OBVIOUS
    <3> HIDE DEF B
    <3> QED
      BY <3>1, FS_Subset, FS_CardinalityType
  <2> QED
    BY <2>1
<1>4. ASSUME NEW p \in S, NEW q \in S, Past(p, q)
      PROVE  Cardinality(B(p)) < Cardinality(B(q))
  <2>1. p \in B(q) /\ p \notin B(p)
    BY <1>2, <1>4, BeforeIsPast, PastIsOrder
  <2>2. \A r \in B(p) : r \in B(q)
    BY <1>2, <1>4, BeforeIsPast, PastIsOrder
  <2> HIDE DEF B
  <2>3. B(p) \in SUBSET (B(q) \ {p})
    BY <2>1, <2>2
  <2>4. IsFiniteSet(B(q) \ {p}) /\ Cardinality(B(q) \ {p}) = Cardinality(B(q)) - 1
    BY <1>3, <2>1, FS_RemoveElement
  <2>5. Cardinality(B(p)) <= Cardinality(B(q) \ {p})
    BY <2>3, <2>4, FS_Subset
  <2> QED
    BY <1>3, <2>4, <2>5
<1>5. \A p \in S : Cardinality(B(p)) \in 0..(n - 1)
  <2>1. ASSUME NEW p \in S PROVE Cardinality(B(p)) \in 0..(n - 1)
    <3>1. B(p) \in SUBSET (S \ {p})
      BY <1>2, BeforeIsPast, PastIsOrder
    <3> HIDE DEF B
    <3>2. IsFiniteSet(S \ {p}) /\ Cardinality(S \ {p}) = n - 1
      BY FS_RemoveElement
    <3>3. Cardinality(B(p)) <= n - 1
      BY <3>1, <3>2, FS_Subset
    <3> QED
      BY <1>1, <1>3, <3>3
  <2> QED
    BY <2>1
<1>6. \A p, q \in S : Past(p, q) <=> Cardinality(B(p)) < Cardinality(B(q))
  <2>1. ASSUME NEW p \in S, NEW q \in S, Cardinality(B(p)) < Cardinality(B(q))
        PROVE  Past(p, q)
    <3> HIDE DEF B
    <3>1. ~(Cardinality(B(q)) < Cardinality(B(p))) /\ Cardinality(B(p)) # Cardinality(B(q))
      BY <1>3, <2>1
    <3>2. p # q /\ ~Past(q, p)
      BY <1>4, <3>1
    <3> QED
      BY <1>2, <3>2, PastIsOrder
  <2> HIDE DEF B
  <2> QED
    BY <1>4, <2>1
<1>7. ASSUME NEW i \in 1..n PROVE \E p \in S : Cardinality(B(p)) = i - 1
  <2>1. f \in Injection(S, 0..(n - 1))
    <3>1. f \in [S -> 0..(n - 1)]
      BY <1>5
    <3>2. ASSUME NEW p \in S, NEW q \in S, f[p] = f[q] PROVE p = q
      <4> HIDE DEF B
      <4>1. ~Past(p, q) /\ ~Past(q, p)
        BY <1>3, <1>4, <3>2
      <4> QED
        BY <1>2, <4>1, PastIsOrder
    <3> HIDE DEF f
    <3> QED
      BY <3>1, <3>2 DEF Injection, IsInjective
  <2>2. IsFiniteSet(0..(n - 1)) /\ Cardinality(0..(n - 1)) = n
    <3>1. 0 \in Int /\ n - 1 \in Int /\ n > 0
      BY <1>1
    <3> HIDE DEF n
    <3> QED
      BY <1>1, <3>1, FS_Interval
  <2> HIDE DEF f
  <2>3. f \in Surjection(S, 0..(n - 1))
    BY <2>1, <2>2, FS_Injection
  <2>4. i - 1 \in 0..(n - 1)
    BY <1>1
  <2>5. \E p \in S : f[p] = i - 1
    BY <2>3, <2>4 DEF Surjection
  <2> QED
    BY <2>5 DEF f
<1> QED
  BY <1>5, <1>6, <1>7

Sorted(s) == /\ s \in Seq(Ids)
             /\ \A p \in ToSet(s) : Live(p)
             /\ \A i, j \in 1..Len(s) : i < j => Past(s[i], s[j])

Precedes(s, t) == \A p \in ToSet(s), q \in ToSet(t) : Past(p, q)

\* What a page has: the first rows in their order, and all of them if it is short.
LEMMA FirstRowsAreFirst ==
    ASSUME OrderOK, NEW S, IsFiniteSet(S), \A p \in S : Live(p), NEW n \in Nat
    PROVE  /\ Sorted(FirstRows(S, n))
           /\ ToSet(FirstRows(S, n)) \subseteq S
           /\ Len(FirstRows(S, n)) <= n
           /\ \A p \in S : \/ p \in ToSet(FirstRows(S, n))
                           \/ /\ Len(FirstRows(S, n)) = n
                              /\ \A q \in ToSet(FirstRows(S, n)) : Past(q, p)
<1> DEFINE R(p) == Cardinality({q \in S : Before(q, p)})
           s == FirstRows(S, n)
           k == IF Cardinality(S) <= n THEN Cardinality(S) ELSE n
<1>1. Cardinality(S) \in Nat /\ k \in Nat /\ k <= n /\ k <= Cardinality(S)
      /\ (k = n \/ k = Cardinality(S))
  BY FS_CardinalityType
<1>2. /\ \A i \in 1..Cardinality(S) : \E p \in S : R(p) = i - 1
      /\ \A p, q \in S : Past(p, q) <=> R(p) < R(q)
      /\ \A p \in S : R(p) \in 0..(Cardinality(S) - 1)
  BY Ranks
<1>3. s = [i \in 1..k |-> CHOOSE p \in S : R(p) = i - 1]
  BY DEF FirstRows
<1> HIDE DEF R, s, k
<1>4. \A i \in 1..k : s[i] \in S /\ R(s[i]) = i - 1
  <2>1. ASSUME NEW i \in 1..k PROVE s[i] \in S /\ R(s[i]) = i - 1
    <3>1. i \in 1..Cardinality(S)
      BY <1>1
    <3>2. \E p \in S : R(p) = i - 1
      BY <1>2, <3>1
    <3>3. s[i] = CHOOSE p \in S : R(p) = i - 1
      BY <1>3
    <3> QED
      BY <3>2, <3>3
  <2> QED
    BY <2>1
<1>5. s \in Seq(S) /\ Len(s) = k /\ DOMAIN s = 1..k
  BY <1>1, <1>3, <1>4
<1>6. ToSet(s) \subseteq S
  BY <1>4, <1>5 DEF ToSet
<1>7. \A p \in S : p \in Ids
  BY DEF Live
<1>8. Sorted(s)
  <2>1. s \in Seq(Ids)
    BY <1>5, <1>7
  <2>2. ASSUME NEW i \in 1..k, NEW j \in 1..k, i < j PROVE Past(s[i], s[j])
    <3>1. R(s[i]) = i - 1 /\ R(s[j]) = j - 1 /\ s[i] \in S /\ s[j] \in S
      BY <1>4
    <3>2. i - 1 < j - 1
      BY <1>1, <2>2
    <3> QED
      BY <1>2, <3>1, <3>2
  <2> QED
    BY <1>5, <1>6, <2>1, <2>2 DEF Sorted
<1>9. ASSUME NEW p \in S, p \notin ToSet(s)
      PROVE  k = n /\ \A q \in ToSet(s) : Past(q, p)
  <2>1. PICK r \in Nat : r = R(p) /\ r < Cardinality(S)
    BY <1>1, <1>2
  <2>2. ASSUME r < k PROVE FALSE
    <3>1. r + 1 \in 1..k /\ r + 1 - 1 = r
      BY <1>1, <2>1, <2>2
    <3>2. s[r + 1] \in S /\ R(s[r + 1]) = r
      BY <1>4, <3>1
    <3>3. s[r + 1] # p
      BY <1>5, <1>9, <3>1 DEF ToSet
    <3>4. ~Past(p, s[r + 1]) /\ ~Past(s[r + 1], p)
      BY <1>2, <2>1, <3>2
    <3> QED
      BY <3>2, <3>3, <3>4, PastIsOrder, <1>7
  <2>3. k = n
    BY <1>1, <2>1, <2>2
  <2>4. ASSUME NEW q \in ToSet(s) PROVE Past(q, p)
    <3>1. PICK i \in 1..k : q = s[i]
      BY <1>5, <2>4 DEF ToSet
    <3>2. R(q) = i - 1 /\ q \in S
      BY <1>4, <3>1
    <3>3. i - 1 < r
      BY <1>1, <2>1, <2>2, <3>1
    <3> QED
      BY <1>2, <2>1, <3>2, <3>3
  <2> QED
    BY <2>3, <2>4
<1> QED
  BY <1>1, <1>5, <1>6, <1>8, <1>9 DEF s

-----------------------------------------------------------------------------
(* What happens meanwhile.                                                 *)

Reads == Ask \/ Serve
Nothing == UNCHANGED <<view, tables, reader, moved>>

LEMMA TimelineKinds ==
    ASSUME [TimelineNext]_timelineVars
    PROVE  /\ Reads \/ Meanwhile \/ Nothing
           /\ Reads => UNCHANGED <<view, tables, moved>>
           /\ Meanwhile => UNCHANGED <<view, reader>> /\ ~reader.done
           /\ stayed' \subseteq stayed
           /\ (stayed' = stayed /\ Nothing) \/ \A p \in stayed' : Shows(p)'
<1>1. Reads \/ Meanwhile \/ Nothing
  BY DEF TimelineNext, Reads, Nothing, timelineVars
<1>2. Reads => UNCHANGED <<view, tables, moved>>
  BY DEF Reads, Ask, Serve, ReadMutes, Fetch, Filter, Answer, AnswerWithoutReplies
<1>3. Meanwhile => UNCHANGED <<view, reader>> /\ ~reader.done
  BY DEF Meanwhile, Post, Erase, Mute, Unmute, Mark, Unmark, Pin, AddToList,
         RemoveFromList, Change
<1>4. /\ stayed' \subseteq stayed
      /\ (stayed' = stayed /\ Nothing) \/ \A p \in stayed' : Shows(p)'
  BY DEF TimelineNext, timelineVars, Nothing
<1> QED
  BY <1>1, <1>2, <1>3, <1>4

LEMMA OrderStep ==
    ASSUME OrderOK, ReaderOK, [TimelineNext]_timelineVars PROVE OrderOK'
<1>0. TablesOK' /\ Grown /\ ReaderOK'
  BY TablesStep, ReaderStep DEF OrderOK
<1>1. reader'.ordered = reader.ordered /\ view' = view
  <2>1. ASSUME Reads PROVE reader'.ordered = reader.ordered
    <3>1. DOMAIN reader = ReaderFields
      BY DEF ReaderOK
    <3>2. \A rows : Answered(rows).ordered = reader.ordered
      BY <3>1 DEF Answered, ReaderFields
    <3> QED
      BY <2>1, <3>1, <3>2 DEF Reads, Ask, Serve, ReadMutes, Fetch, Filter, Answer,
                        AnswerWithoutReplies, ReaderFields
  <2> QED
    BY <2>1, TimelineKinds DEF Nothing
<1>2. IsOneOrder'
  BY <1>1 DEF OrderOK, IsOneOrder
<1>3. ASSUME UNCHANGED <<marks, lastMark, row>> PROVE OrderOK'
  BY <1>0, <1>1, <1>2, <1>3 DEF OrderOK, MarksOK, Ids
<1>4. ASSUME NEW r \in NewRows, Post(r) PROVE OrderOK'
  <2>1. UNCHANGED <<marks, lastMark>> /\ Len(row) \in Nat
    BY <1>4 DEF Post, OrderOK, TablesOK
  <2>2. ASSUME reader'.ordered, NEW p \in Ids' PROVE row'[p].time = 2 * p
    <3>1. PICK new : new.time = 2 * (Len(row) + 1) /\ row' = Append(row, new)
      <4>1. PICK time \in {2 * (Len(row) + 1)} :
               row' = Append(row, [local |-> r.local, public |-> r.public,
                                      tagged |-> r.tagged, author |-> r.author,
                                      parent |-> r.parent, time |-> time])
        BY <1>1, <1>4, <2>2 DEF Post
      <4> QED
        BY <4>1
    <3>2. row \in Seq(ToSet(row) \cup {new})
      BY DEF OrderOK, TablesOK
    <3>3. Len(row') = Len(row) + 1 /\ row'[Len(row) + 1] = new
      BY <3>1, <3>2
    <3>4. CASE p \in Ids
      BY <1>0, <1>1, <2>2, <3>4 DEF OrderOK, MarksOK, Grown
    <3>5. CASE p \notin Ids
      <4>1. p = Len(row) + 1
        BY <2>1, <3>3, <3>5 DEF Ids
      <4> QED
        BY <3>1, <3>3, <4>1
    <3> QED
      BY <3>4, <3>5
  <2> QED
    BY <1>0, <1>1, <1>2, <2>1, <2>2 DEF OrderOK, MarksOK
<1>5. ASSUME NEW p \in Ids, Erase(p) \/ Mark(p) \/ Unmark(p) PROVE OrderOK'
  <2>1. p \in 1..MaxId /\ row' = row
    <3>1. Len(row) \in Nat /\ Len(row) <= MaxId /\ MaxId \in Nat
      BY TimelinesAssumption DEF OrderOK, TablesOK
    <3> QED
      BY <1>5, <3>1 DEF Ids, Erase, Mark, Unmark
  <2>2. PICK m \in Nat : /\ marks' = [marks EXCEPT ![p] = m]
                         /\ lastMark' \in Nat /\ m <= lastMark' /\ lastMark <= lastMark'
    BY <1>5 DEF Erase, Mark, Unmark, OrderOK, MarksOK
  <2>3. marks' \in [1..MaxId -> Nat] /\ \A q \in 1..MaxId : marks'[q] <= lastMark'
    BY <2>1, <2>2 DEF OrderOK, MarksOK
  <2> QED
    BY <1>0, <1>1, <1>2, <2>1, <2>2, <2>3 DEF OrderOK, MarksOK, Ids
<1>6. ASSUME NEW p \in Ids, Mute(p) \/ Unmute(p) \/ Pin(p) PROVE OrderOK'
  BY <1>3, <1>6 DEF Mute, Unmute, Pin
<1>7. ASSUME NEW authors, AddToList(authors) \/ RemoveFromList(authors) PROVE OrderOK'
  BY <1>3, <1>7 DEF AddToList, RemoveFromList
<1> QED
  BY <1>3, <1>4, <1>5, <1>6, <1>7, TimelineKinds DEF Meanwhile, Nothing, tables

\* What comes before a row does so as long as that row has its mark.
LEMMA PastStays ==
    ASSUME OrderOK, OrderOK', Grown, Meanwhile, NEW c, Live(c), Live(c)',
           NEW p \in Ids, Past(p, c)
    PROVE  Past(p, c)'
<1>1. /\ p \in Nat /\ c \in Nat /\ c \in Ids /\ marks[p] \in Nat /\ marks[c] \in Nat
      /\ lastMark \in Nat /\ marks[p] <= lastMark /\ marks[c] <= lastMark
  BY OrderNumbers DEF Live
<1>2. view' = view
  BY DEF Meanwhile, Post, Erase, Mute, Unmute, Mark, Unmark, Pin, AddToList,
         RemoveFromList, Change
<1>3. CASE UNCHANGED <<marks, lastMark>>
  BY <1>2, <1>3 DEF Past
<1>4. CASE view \notin MarkViews
  BY <1>2, <1>4 DEF Past
<1>5. ASSUME NEW q \in Ids, Erase(q) \/ Mark(q) \/ Unmark(q), view \in MarkViews
      PROVE  Past(p, c)'
  <2>1. q \in DOMAIN marks /\ p \in DOMAIN marks /\ c \in DOMAIN marks
    <3>1. Len(row) \in Nat /\ Len(row) <= MaxId /\ MaxId \in Nat
      BY TimelinesAssumption DEF OrderOK, TablesOK
    <3>2. \A i \in Ids : i \in 1..MaxId
      BY <3>1 DEF Ids
    <3>3. DOMAIN marks = 1..MaxId
      BY DEF OrderOK, MarksOK
    <3> QED
      BY <1>1, <3>2, <3>3
  <2>2. marks[c] > 0 /\ marks'[c] > 0
    BY <1>2, <1>5 DEF Live
  <2>3. CASE Mark(q)
    <3>1. /\ marks[q] = 0 /\ marks' = [marks EXCEPT ![q] = lastMark']
          /\ lastMark' \in Nat /\ lastMark <= lastMark'
      BY <1>1, <2>3 DEF Mark
    <3>2. marks'[c] = marks[c]
      BY <2>1, <2>2, <3>1
    <3>3. \/ q # p /\ marks'[p] = marks[p]
          \/ q = p /\ marks[p] = 0 /\ marks'[p] = lastMark'
      BY <2>1, <3>1
    <3> QED
      BY <1>1, <1>2, <1>5, <2>2, <3>1, <3>2, <3>3 DEF Past
  <2>4. CASE Erase(q) \/ Unmark(q)
    <3>1. marks' = [marks EXCEPT ![q] = 0] /\ lastMark' = lastMark
      BY <2>4 DEF Erase, Unmark
    <3>2. marks'[c] = marks[c]
      BY <2>1, <2>2, <3>1
    <3>3. marks'[p] = marks[p] \/ marks'[p] = 0
      BY <2>1, <3>1
    <3> QED
      BY <1>1, <1>2, <1>5, <2>2, <3>1, <3>2, <3>3 DEF Past
  <2> QED
    BY <1>5, <2>3, <2>4
<1>6. ASSUME NEW r, Post(r) PROVE UNCHANGED <<marks, lastMark>>
  BY <1>6 DEF Post
<1>7. ASSUME NEW q \in Ids, Mute(q) \/ Unmute(q) \/ Pin(q) PROVE UNCHANGED <<marks, lastMark>>
  BY <1>7 DEF Mute, Unmute, Pin
<1>8. ASSUME NEW authors, AddToList(authors) \/ RemoveFromList(authors)
      PROVE  UNCHANGED <<marks, lastMark>>
  BY <1>8 DEF AddToList, RemoveFromList
<1> QED
  BY <1>3, <1>4, <1>5, <1>6, <1>7, <1>8 DEF Meanwhile

\* A row that the reader holds keeps its mark, unless the history says so.
LEMMA HeldStays ==
    ASSUME OrderOK, Grown, Meanwhile, ~moved', NEW c, Live(c),
           \/ view \notin MarkViews
           \/ c \in {reader.cursor, reader.below}
           \/ c \in ToSet(reader.rows) \cup ToSet(reader.found)
    PROVE  Live(c)'
<1>1. view' = view /\ c \in Ids /\ c \in Ids'
  BY DEF Meanwhile, Post, Erase, Mute, Unmute, Mark, Unmark, Pin, AddToList,
         RemoveFromList, Change, Live, Grown
<1>d. c \in DOMAIN marks
  <2>1. Len(row) \in Nat /\ Len(row) <= MaxId /\ MaxId \in Nat
    BY TimelinesAssumption DEF OrderOK, TablesOK
  <2> QED
    BY <1>1, <2>1 DEF Ids, OrderOK, MarksOK
<1>2. CASE view \notin MarkViews
  BY <1>1, <1>2 DEF Live
<1>3. ASSUME marks' = marks PROVE Live(c)'
  BY <1>1, <1>3 DEF Live
<1>4. ASSUME NEW q \in Ids, Erase(q) \/ Unmark(q), view \in MarkViews PROVE Live(c)'
  <2>1. q # c
    BY <1>4 DEF Erase, Unmark, Loses
  <2>2. marks'[c] = marks[c]
    BY <1>4, <1>d, <2>1 DEF Erase, Unmark, OrderOK, MarksOK
  <2> QED
    BY <1>1, <2>2 DEF Live
<1>5. ASSUME NEW q \in Ids, Mark(q), view \in MarkViews PROVE Live(c)'
  <2>1. q # c
    BY <1>5 DEF Mark, Live
  <2>2. marks'[c] = marks[c]
    BY <1>5, <1>d, <2>1 DEF Mark, OrderOK, MarksOK
  <2> QED
    BY <1>1, <2>2 DEF Live
<1>6. ASSUME NEW r, Post(r) PROVE marks' = marks
  BY <1>6 DEF Post
<1>7. ASSUME NEW q \in Ids, Mute(q) \/ Unmute(q) \/ Pin(q) PROVE marks' = marks
  BY <1>7 DEF Mute, Unmute, Pin
<1>8. ASSUME NEW authors, AddToList(authors) \/ RemoveFromList(authors) PROVE marks' = marks
  BY <1>8 DEF AddToList, RemoveFromList
<1> QED
  BY <1>2, <1>3, <1>4, <1>5, <1>6, <1>7, <1>8 DEF Meanwhile

-----------------------------------------------------------------------------
(* Sorted sequences of rows.                                               *)

LEMMA SeqSet ==
    ASSUME NEW S, NEW s \in Seq(S)
    PROVE  /\ Len(s) \in Nat /\ DOMAIN s = 1..Len(s)
           /\ \A i \in 1..Len(s) : s[i] \in ToSet(s) /\ s[i] \in S
           /\ \A p \in ToSet(s) : p \in S /\ \E i \in 1..Len(s) : p = s[i]
           /\ s # <<>> <=> Len(s) > 0
           /\ IsSeq(s)
<1>1. Len(s) \in Nat /\ DOMAIN s = 1..Len(s) /\ (s # <<>> <=> Len(s) > 0)
      /\ \A i \in 1..Len(s) : s[i] \in S
  OBVIOUS
<1>2. /\ \A i \in 1..Len(s) : s[i] \in ToSet(s)
      /\ \A p \in ToSet(s) : p \in S /\ \E i \in 1..Len(s) : p = s[i]
  BY <1>1 DEF ToSet
<1>3. s \in Seq(ToSet(s))
  BY <1>1, <1>2
<1> QED
  BY <1>1, <1>2, <1>3 DEF IsSeq

LEMMA EmptySorted == Sorted(<<>>)
  BY EmptyIsSeq DEF Sorted

LEMMA SortedAppend ==
    ASSUME NEW s, Sorted(s), NEW x, Live(x), \A p \in ToSet(s) : Past(p, x)
    PROVE  /\ Sorted(Append(s, x)) /\ ToSet(Append(s, x)) = ToSet(s) \cup {x}
           /\ Len(Append(s, x)) = Len(s) + 1 /\ Last(Append(s, x)) = x
<1>1. s \in Seq(Ids) /\ x \in Ids
  BY DEF Sorted, Live
<1>2. PICK t : t = Append(s, x)
  OBVIOUS
<1>3. /\ t \in Seq(Ids) /\ Len(t) = Len(s) + 1 /\ t[Len(s) + 1] = x
      /\ \A i \in 1..Len(s) : t[i] = s[i]
  BY <1>1, <1>2
<1>4. Len(s) \in Nat /\ \A i \in 1..Len(s) : s[i] \in ToSet(s)
  BY <1>1, SeqSet
<1>5. ToSet(t) = ToSet(s) \cup {x}
  BY <1>1, <1>2, SeqSet, AppendSet DEF IsSeq
<1>6. ASSUME NEW i \in 1..Len(t), NEW j \in 1..Len(t), i < j PROVE Past(t[i], t[j])
  <2>1. i \in 1..Len(s) /\ (j \in 1..Len(s) \/ j = Len(s) + 1)
    BY <1>3, <1>4, <1>6
  <2> QED
    BY <1>3, <1>4, <1>6, <2>1 DEF Sorted
<1>7. Last(t) = x
  BY <1>3 DEF Last
<1> QED
  BY <1>2, <1>3, <1>5, <1>6, <1>7 DEF Sorted

LEMMA SortedTail ==
    ASSUME NEW s, Sorted(s), s # <<>>
    PROVE  /\ Sorted(Tail(s)) /\ Live(Head(s))
           /\ ToSet(s) = {Head(s)} \cup ToSet(Tail(s))
           /\ \A q \in ToSet(Tail(s)) : Past(Head(s), q)
           /\ IF Tail(s) = <<>> THEN Last(s) = Head(s)
                                ELSE Last(s) = Last(Tail(s)) /\ Last(s) \in ToSet(Tail(s))
<1>1. s \in Seq(Ids)
  BY DEF Sorted
<1>2. PICK t : t = Tail(s)
  OBVIOUS
<1>3. /\ t \in Seq(Ids) /\ Len(s) \in Nat /\ Len(s) > 0 /\ Len(t) = Len(s) - 1
      /\ \A i \in 1..Len(t) : t[i] = s[i + 1]
      /\ Head(s) = s[1]
  BY <1>1, <1>2
<1>4. /\ \A i \in 1..Len(s) : s[i] \in ToSet(s)
      /\ \A p \in ToSet(t) : \E i \in 1..Len(t) : p = t[i]
      /\ \A i \in 1..Len(t) : t[i] \in ToSet(t)
      /\ t # <<>> <=> Len(t) > 0
  BY <1>1, <1>3, SeqSet
<1>5. ToSet(s) = {Head(s)} \cup ToSet(t)
  <2>1. IsSeq(s)
    BY <1>1, SeqSet
  <2> QED
    BY <1>2, <2>1, TailSet DEF IsSeq
<1>6. \A q \in ToSet(t) : Past(Head(s), q)
  <2>1. ASSUME NEW q \in ToSet(t) PROVE Past(Head(s), q)
    <3>1. PICK i \in 1..Len(t) : q = s[i + 1]
      BY <1>3, <1>4
    <3>2. 1 \in 1..Len(s) /\ i + 1 \in 1..Len(s) /\ 1 < i + 1
      BY <1>3
    <3> QED
      BY <1>3, <3>1, <3>2 DEF Sorted
  <2> QED
    BY <2>1
<1>7. ASSUME NEW i \in 1..Len(t), NEW j \in 1..Len(t), i < j PROVE Past(t[i], t[j])
  <2>1. i + 1 \in 1..Len(s) /\ j + 1 \in 1..Len(s) /\ i + 1 < j + 1
    BY <1>3, <1>7
  <2> QED
    BY <1>3, <2>1 DEF Sorted
<1>8. IF t = <<>> THEN Last(s) = Head(s) ELSE Last(s) = Last(t) /\ Last(s) \in ToSet(t)
  <2>1. CASE t = <<>>
    <3>1. Len(s) = 1
      BY <1>3, <1>4, <2>1
    <3> QED
      BY <1>3, <2>1, <3>1 DEF Last
  <2>2. CASE t # <<>>
    <3>1. Len(t) \in 1..Len(t) /\ Len(t) + 1 = Len(s)
      BY <1>3, <1>4, <2>2
    <3>2. t[Len(t)] = s[Len(s)] /\ t[Len(t)] \in ToSet(t)
      BY <1>3, <1>4, <3>1
    <3> QED
      BY <2>2, <3>2 DEF Last
  <2> QED
    BY <2>1, <2>2
<1>9. Live(Head(s)) /\ \A p \in ToSet(t) : Live(p)
  BY <1>5 DEF Sorted
<1> QED
  BY <1>2, <1>3, <1>5, <1>6, <1>7, <1>8, <1>9 DEF Sorted

LEMMA SortedConcat ==
    ASSUME NEW s, Sorted(s), NEW t, Sorted(t), Precedes(s, t)
    PROVE  Sorted(s \o t) /\ ToSet(s \o t) = ToSet(s) \cup ToSet(t)
           /\ Len(s \o t) = Len(s) + Len(t)
<1>1. s \in Seq(Ids) /\ t \in Seq(Ids)
  BY DEF Sorted
<1>2. PICK u : u = s \o t
  OBVIOUS
<1>3. /\ u \in Seq(Ids) /\ Len(u) = Len(s) + Len(t) /\ Len(s) \in Nat /\ Len(t) \in Nat
      /\ \A i \in 1..Len(s) : u[i] = s[i]
      /\ \A i \in 1..Len(u) : i > Len(s) => u[i] = t[i - Len(s)]
  BY <1>1, <1>2
<1>4. /\ \A i \in 1..Len(s) : s[i] \in ToSet(s)
      /\ \A i \in 1..Len(t) : t[i] \in ToSet(t)
      /\ \A i \in 1..Len(u) : u[i] \in ToSet(u)
      /\ \A p \in ToSet(s) : \E i \in 1..Len(s) : p = s[i]
      /\ \A p \in ToSet(t) : \E i \in 1..Len(t) : p = t[i]
      /\ \A p \in ToSet(u) : \E i \in 1..Len(u) : p = u[i]
  BY <1>1, <1>3, SeqSet
<1>5. \A i \in 1..Len(u) : \/ i \in 1..Len(s) /\ u[i] = s[i]
                           \/ i > Len(s) /\ i - Len(s) \in 1..Len(t) /\ u[i] = t[i - Len(s)]
  BY <1>3
<1>6. ToSet(u) = ToSet(s) \cup ToSet(t)
  <2>1. ASSUME NEW p \in ToSet(s) PROVE p \in ToSet(u)
    <3>1. PICK i \in 1..Len(s) : p = s[i]
      BY <1>4
    <3>2. i \in 1..Len(u) /\ u[i] = s[i]
      BY <1>3
    <3> QED
      BY <1>4, <3>1, <3>2
  <2>2. ASSUME NEW p \in ToSet(t) PROVE p \in ToSet(u)
    <3>1. PICK i \in 1..Len(t) : p = t[i]
      BY <1>4
    <3>2. i + Len(s) \in 1..Len(u) /\ i + Len(s) > Len(s) /\ (i + Len(s)) - Len(s) = i
      BY <1>3
    <3>3. u[i + Len(s)] = t[i]
      BY <1>3, <3>2
    <3> QED
      BY <1>4, <3>1, <3>2, <3>3
  <2>3. ASSUME NEW p \in ToSet(u) PROVE p \in ToSet(s) \cup ToSet(t)
    BY <1>4, <1>5, <2>3
  <2> QED
    BY <2>1, <2>2, <2>3
<1>7. ASSUME NEW i \in 1..Len(u), NEW j \in 1..Len(u), i < j PROVE Past(u[i], u[j])
  <2>1. CASE j \in 1..Len(s)
    <3>1. i \in 1..Len(s) /\ u[i] = s[i] /\ u[j] = s[j]
      BY <1>3, <1>7, <2>1
    <3> QED
      BY <1>7, <2>1, <3>1 DEF Sorted
  <2>2. CASE i \in 1..Len(s) /\ j \notin 1..Len(s)
    <3>1. u[i] \in ToSet(s) /\ u[j] \in ToSet(t)
      BY <1>4, <1>5, <2>2
    <3> QED
      BY <3>1 DEF Precedes
  <2>3. CASE i \notin 1..Len(s)
    <3>1. /\ i - Len(s) \in 1..Len(t) /\ j - Len(s) \in 1..Len(t)
          /\ i - Len(s) < j - Len(s)
          /\ u[i] = t[i - Len(s)] /\ u[j] = t[j - Len(s)]
      BY <1>3, <1>7, <2>3
    <3> QED
      BY <3>1 DEF Sorted
  <2> QED
    BY <2>1, <2>2, <2>3
<1>8. \A p \in ToSet(u) : Live(p)
  BY <1>6 DEF Sorted
<1> QED
  BY <1>2, <1>3, <1>6, <1>7, <1>8 DEF Sorted

LEMMA SortedPrefix ==
    ASSUME NEW s, Sorted(s), NEW n \in Nat \ {0}, n < Len(s)
    PROVE  /\ Sorted(SubSeq(s, 1, n)) /\ Len(SubSeq(s, 1, n)) = n
           /\ ToSet(SubSeq(s, 1, n)) \subseteq ToSet(s)
           /\ \A p \in ToSet(s) : \/ p \in ToSet(SubSeq(s, 1, n))
                                  \/ Past(Last(SubSeq(s, 1, n)), p)
<1>1. s \in Seq(Ids)
  BY DEF Sorted
<1>2. PICK t : t = SubSeq(s, 1, n)
  OBVIOUS
<1>3. /\ t \in Seq(Ids) /\ Len(t) = n /\ Len(s) \in Nat
      /\ \A i \in 1..n : t[i] = s[i]
  BY <1>1, <1>2
<1>4. /\ \A i \in 1..Len(s) : s[i] \in ToSet(s)
      /\ \A i \in 1..n : t[i] \in ToSet(t)
      /\ \A p \in ToSet(s) : \E i \in 1..Len(s) : p = s[i]
      /\ \A p \in ToSet(t) : \E i \in 1..n : p = t[i]
  <2>1. /\ \A i \in 1..Len(s) : s[i] \in ToSet(s)
        /\ \A p \in ToSet(s) : \E i \in 1..Len(s) : p = s[i]
    BY <1>1, SeqSet
  <2>2. /\ \A i \in 1..Len(t) : t[i] \in ToSet(t)
        /\ \A p \in ToSet(t) : \E i \in 1..Len(t) : p = t[i]
    BY <1>3, SeqSet
  <2> QED
    BY <1>3, <2>1, <2>2
<1>5. ToSet(t) \subseteq ToSet(s)
  BY <1>3, <1>4
<1>6. ASSUME NEW p \in ToSet(s), p \notin ToSet(t) PROVE Past(Last(t), p)
  <2>1. PICK i \in 1..Len(s) : p = s[i]
    BY <1>4
  <2>2. i \notin 1..n
    BY <1>3, <1>4, <1>6, <2>1
  <2>3. n \in 1..Len(s) /\ n < i /\ Last(t) = s[n]
    BY <1>3, <2>2 DEF Last
  <2> QED
    BY <2>1, <2>3 DEF Sorted
<1>7. \A i, j \in 1..n : i < j => Past(t[i], t[j])
  BY <1>3 DEF Sorted
<1>8. \A p \in ToSet(t) : Live(p)
  BY <1>5 DEF Sorted
<1> QED
  BY <1>2, <1>3, <1>5, <1>6, <1>7, <1>8 DEF Sorted

LEMMA SortedLast ==
    ASSUME NEW s, Sorted(s), s # <<>>
    PROVE  /\ Last(s) \in ToSet(s) /\ Live(Last(s))
           /\ \A p \in ToSet(s) : p = Last(s) \/ Past(p, Last(s))
<1>1. s \in Seq(Ids)
  BY DEF Sorted
<1>2. /\ Len(s) \in Nat /\ Len(s) > 0
      /\ \A i \in 1..Len(s) : s[i] \in ToSet(s)
      /\ \A p \in ToSet(s) : \E i \in 1..Len(s) : p = s[i]
  BY <1>1, SeqSet
<1>3. Len(s) \in 1..Len(s) /\ Last(s) = s[Len(s)]
  BY <1>2 DEF Last
<1>4. ASSUME NEW p \in ToSet(s), p # Last(s) PROVE Past(p, Last(s))
  <2>1. PICK i \in 1..Len(s) : p = s[i]
    BY <1>2
  <2>2. i < Len(s)
    BY <1>2, <1>3, <1>4, <2>1
  <2> QED
    BY <1>3, <2>1, <2>2 DEF Sorted
<1> QED
  BY <1>2, <1>3, <1>4 DEF Sorted

LEMMA SortedOnce ==
    ASSUME OrderOK, NEW s, Sorted(s)
    PROVE  \A i, j \in 1..Len(s) : s[i] = s[j] => i = j
<1> SUFFICES ASSUME NEW i \in 1..Len(s), NEW j \in 1..Len(s), s[i] = s[j], i # j
             PROVE  FALSE
  OBVIOUS
<1>1. s \in Seq(Ids) /\ i \in Nat /\ j \in Nat
  BY DEF Sorted
<1>2. s[i] \in ToSet(s) /\ Live(s[i]) /\ s[i] \in Ids
  BY <1>1, SeqSet DEF Sorted
<1>3. i < j \/ j < i
  BY <1>1
<1> QED
  BY <1>2, <1>3, PastIsOrder DEF Sorted

-----------------------------------------------------------------------------
(* A reading.                                                              *)

Whole == reader.mutes = {} /\ view \notin {"account", "pinned"}

\* What holds of every request.
SizesInv ==
    /\ TablesOK /\ ReaderOK
    /\ reader.at \in {"rest", "begin", "fetch", "filter", "found"}
    /\ view # "listNone" => reader.kept = <<>>
    /\ reader.at # "rest" => ~reader.done
    /\ reader.at \in {"begin", "fetch", "filter"} => Len(reader.found) < reader.limit
    /\ reader.at \in {"fetch", "filter"} => reader.size > 0
    /\ reader.at = "fetch" /\ Whole => reader.found = <<>> /\ reader.size = reader.limit
    /\ reader.at = "filter" => ~Whole

\* What the client has is what is listed down to its cursor, each once.
ShownOK(r) ==
    /\ r.shown \in Seq(Ids) /\ IsInjective(r.shown)
    /\ IF r.cursor = 0 THEN r.shown = <<>>
       ELSE /\ Live(r.cursor)
            /\ \A p \in ToSet(r.shown) : p = r.cursor \/ Past(p, r.cursor)

\* What the request has found is below that, in its order.
GotOK(r) ==
    r.at # "rest" =>
        /\ Sorted(r.kept) /\ Sorted(r.found) /\ Precedes(r.kept, r.found)
        /\ \A p \in ToSet(r.kept) \cup ToSet(r.found) : From(r.cursor, p)

\* The next query is below all of it.
BelowOK(r) ==
    r.at \in {"begin", "fetch"} =>
        IF r.below = 0
        THEN r.cursor = 0 /\ r.kept = <<>> /\ r.found = <<>>
        ELSE /\ Live(r.below)
             /\ r.cursor = r.below \/ From(r.cursor, r.below)
             /\ \A p \in ToSet(r.kept) \cup ToSet(r.found) : p = r.below \/ Past(p, r.below)

\* So are the rows of the last one.
RowsOK(r) ==
    r.at = "filter" =>
        /\ Sorted(r.rows) /\ Precedes(r.kept, r.rows) /\ Precedes(r.found, r.rows)
        /\ \A p \in ToSet(r.rows) : From(r.cursor, p)

PageOK(r) == ShownOK(r) /\ GotOK(r) /\ BelowOK(r) /\ RowsOK(r)

PageInv ==
    /\ OrderOK /\ SizesInv
    /\ ~moved => PageOK(reader)

\* What is shown all the time is not dropped.
StayInv ==
    /\ TablesOK /\ ReaderOK
    /\ \A p \in stayed : Shows(p)
    /\ ~HidesMuted => reader.mutes = {}
    /\ reader.mutes \subseteq Ids
    /\ \A m \in reader.mutes \cap standing : row[m].parent = 0
    /\ HidesMuted /\ reader.at \in {"fetch", "filter"} =>
           \A p \in stayed : RootOf(p) \notin reader.mutes

\* p is to come.
Ahead(r, p) ==
    CASE r.at = "rest" -> From(r.cursor, p)
      [] r.at \in {"begin", "fetch"} -> From(r.below, p)
      [] r.at = "filter" -> p \in ToSet(r.rows) \/ (~r.short /\ Past(Last(r.rows), p))
      [] r.at = "found" -> Len(r.found) >= r.limit /\ Past(Last(r.found), p)

Covered(r, p) ==
    \/ p \in ToSet(r.shown)
    \/ r.at # "rest" /\ p \in ToSet(r.kept) \cup ToSet(r.found)
    \/ ~r.done /\ Ahead(r, p)

\* What is shown all the time has been read, or is to come.
CoverInv ==
    /\ PageInv /\ StayInv
    /\ ~moved => \A p \in stayed : Covered(reader, p)

\* What each step does to the request.
LEMMA AskFields ==
    ASSUME ReaderOK, Ask
    PROVE  /\ reader.at = "rest" /\ ~reader.done
           /\ reader'.at = "begin" /\ reader'.below = reader.cursor
           /\ reader'.found = <<>> /\ reader'.kept = <<>>
           /\ reader'.limit = reader.limit /\ reader'.rows = reader.rows
           /\ reader'.short = reader.short /\ reader'.mutes = reader.mutes
           /\ reader'.size = reader.size /\ reader'.shown = reader.shown
           /\ reader'.cursor = reader.cursor /\ reader'.done = reader.done
  BY DEF ReaderOK, ReaderFields, Ask

LEMMA MutesFields ==
    ASSUME ReaderOK, ReadMutes
    PROVE  /\ reader.at = "begin" /\ reader'.at = "fetch"
           /\ reader'.mutes = (IF HidesMuted THEN muted ELSE {})
           /\ reader'.size = FetchSize(reader'.mutes)
           /\ reader'.below = reader.below
           /\ reader'.found = reader.found /\ reader'.kept = reader.kept
           /\ reader'.limit = reader.limit /\ reader'.rows = reader.rows
           /\ reader'.short = reader.short
           /\ reader'.shown = reader.shown
           /\ reader'.cursor = reader.cursor /\ reader'.done = reader.done
<1>1. PICK mutes : /\ mutes = (IF HidesMuted THEN muted ELSE {})
                   /\ reader' = [reader EXCEPT !.at = "fetch", !.mutes = mutes,
                                               !.size = FetchSize(mutes)]
  BY DEF ReadMutes
<1>2. reader'.mutes = mutes /\ reader'.size = FetchSize(mutes) /\ reader'.at = "fetch"
  BY <1>1 DEF ReaderOK, ReaderFields
<1> QED
  BY <1>1, <1>2 DEF ReaderOK, ReaderFields, ReadMutes

LEMMA FetchFields ==
    ASSUME ReaderOK, Fetch
    PROVE  LET rows == Page(reader.below, reader.size)
           IN  /\ reader.at = "fetch"
               /\ reader'.at \in {"found", "filter"}
               /\ IF Whole
                  THEN reader'.at = "found" /\ reader'.found = rows
                  ELSE /\ reader'.found = reader.found /\ reader'.rows = rows
                       /\ reader'.short = (Len(rows) < reader.size)
                       /\ reader'.at = "found" <=> rows = <<>>
               /\ reader'.below = reader.below /\ reader'.kept = reader.kept
               /\ reader'.limit = reader.limit
               /\ reader'.mutes = reader.mutes
               /\ reader'.size = reader.size /\ reader'.shown = reader.shown
               /\ reader'.cursor = reader.cursor /\ reader'.done = reader.done
<1>1. PICK rows : rows = Page(reader.below, reader.size)
  OBVIOUS
<1>2. /\ reader.at = "fetch"
      /\ reader' = IF Whole THEN [reader EXCEPT !.found = rows, !.at = "found"]
                   ELSE [reader EXCEPT !.rows = rows,
                                       !.short = Len(rows) < reader.size,
                                       !.at = IF rows = <<>> THEN "found" ELSE "filter"]
  BY <1>1 DEF Fetch, Whole
<1>3. CASE Whole
  BY <1>1, <1>2, <1>3 DEF ReaderOK, ReaderFields
<1>4. CASE ~Whole
  BY <1>1, <1>2, <1>4 DEF ReaderOK, ReaderFields
<1> QED
  BY <1>3, <1>4

LEMMA FilterFields ==
    ASSUME ReaderOK, Filter
    PROVE  LET p == Head(reader.rows)
               shown == RootOf(p) \notin reader.mutes /\ Keeps(p)
               found == IF shown THEN Append(reader.found, p) ELSE reader.found
               rest == Tail(reader.rows)
           IN  /\ reader.at = "filter" /\ reader.rows # <<>>
               /\ reader'.found = found /\ reader'.rows = rest
               /\ reader'.below = (IF rest = <<>> THEN p ELSE reader.below)
               /\ reader'.at = (IF Len(found) >= reader.limit THEN "found"
                                ELSE IF rest # <<>> THEN "filter"
                                ELSE IF reader.short THEN "found" ELSE "fetch")
               /\ reader'.kept = reader.kept
               /\ reader'.limit = reader.limit
               /\ reader'.short = reader.short /\ reader'.mutes = reader.mutes
               /\ reader'.size = reader.size /\ reader'.shown = reader.shown
               /\ reader'.cursor = reader.cursor /\ reader'.done = reader.done
<1>1. PICK p, found, rest :
          /\ p = Head(reader.rows) /\ rest = Tail(reader.rows)
          /\ found = (IF RootOf(p) \notin reader.mutes /\ Keeps(p)
                      THEN Append(reader.found, p) ELSE reader.found)
  OBVIOUS
<1>2. /\ reader.at = "filter"
      /\ reader' = [reader EXCEPT
               !.found = found,
               !.rows = rest,
               !.below = IF rest = <<>> THEN p ELSE reader.below,
               !.at = IF Len(found) >= reader.limit THEN "found"
                      ELSE IF rest # <<>> THEN "filter"
                      ELSE IF reader.short THEN "found" ELSE "fetch"]
  BY <1>1 DEF Filter
<1>3. /\ reader'.found = found /\ reader'.rows = rest
      /\ reader'.below = (IF rest = <<>> THEN p ELSE reader.below)
      /\ reader'.at = (IF Len(found) >= reader.limit THEN "found"
                       ELSE IF rest # <<>> THEN "filter"
                       ELSE IF reader.short THEN "found" ELSE "fetch")
      /\ reader'.kept = reader.kept
      /\ reader'.limit = reader.limit
      /\ reader'.short = reader.short /\ reader'.mutes = reader.mutes
      /\ reader'.size = reader.size /\ reader'.shown = reader.shown
      /\ reader'.cursor = reader.cursor /\ reader'.done = reader.done
  BY <1>2 DEF ReaderOK, ReaderFields
<1> QED
  BY <1>1, <1>2, <1>3 DEF ReaderOK

LEMMA AnsweredFields ==
    ASSUME ReaderOK, NEW rows, reader' = Answered(rows)
    PROVE  /\ reader'.at = "rest" /\ reader'.shown = reader.shown \o rows
           /\ reader'.cursor = (IF rows = <<>> THEN reader.cursor ELSE Last(rows))
           /\ reader'.done = (Len(rows) < reader.limit)
           /\ reader'.kept = reader.kept /\ reader'.limit = reader.limit
           /\ reader'.mutes = reader.mutes /\ reader'.size = reader.size
  BY DEF ReaderOK, ReaderFields, Answered

\* The rows of the page that are no replies.
RootRows == {p \in ToSet(reader.found) : IsNoReply(p)}

Listed == reader.kept \o FirstRows(RootRows, reader.limit)
Kept == IF Len(Listed) > reader.limit THEN SubSeq(Listed, 1, reader.limit) ELSE Listed

LEMMA RepliesFields ==
    ASSUME ReaderOK, AnswerWithoutReplies
    PROVE  LET kept == Kept
           IN  /\ reader.at = "found" /\ view = "listNone"
               /\ IF Len(kept) = reader.limit \/ Len(reader.found) < reader.limit
                  THEN reader' = Answered(kept)
                  ELSE /\ reader'.at = "begin" /\ reader'.kept = kept /\ reader'.found = <<>>
                       /\ reader'.below = Last(reader.found)
                       /\ reader'.limit = reader.limit
                       /\ reader'.mutes = reader.mutes
                       /\ reader'.size = reader.size /\ reader'.shown = reader.shown
                       /\ reader'.cursor = reader.cursor /\ reader'.done = reader.done
<1>1. PICK kept : kept = Kept
  OBVIOUS
<1>2. /\ reader.at = "found" /\ view = "listNone"
      /\ reader' = IF Len(kept) = reader.limit \/ Len(reader.found) < reader.limit
                   THEN Answered(kept)
                   ELSE [reader EXCEPT !.kept = kept, !.found = <<>>,
                                       !.below = Last(reader.found), !.at = "begin"]
  BY <1>1 DEF AnswerWithoutReplies, RootRows, Listed, Kept
<1>3. CASE Len(kept) = reader.limit \/ Len(reader.found) < reader.limit
  BY <1>1, <1>2, <1>3
<1>4. CASE ~(Len(kept) = reader.limit \/ Len(reader.found) < reader.limit)
  <2>1. /\ reader'.at = "begin" /\ reader'.kept = kept /\ reader'.found = <<>>
        /\ reader'.below = Last(reader.found)
        /\ reader'.limit = reader.limit
        /\ reader'.mutes = reader.mutes
        /\ reader'.size = reader.size /\ reader'.shown = reader.shown
        /\ reader'.cursor = reader.cursor /\ reader'.done = reader.done
    BY <1>2, <1>4 DEF ReaderOK, ReaderFields
  <2> QED
    BY <1>1, <1>2, <1>4, <2>1
<1> QED
  BY <1>3, <1>4

LEMMA LimitsAndSizes ==
    ASSUME ReaderOK
    PROVE  /\ reader.limit \in Nat /\ reader.limit > 0
           /\ \A mutes : FetchSize(mutes) > 0
           /\ view \notin {"account", "pinned"} => FetchSize({}) = reader.limit
<1>1. /\ reader.limit \in Nat /\ reader.limit > 0
      /\ Overfetch \in Nat /\ Overfetch > 0 /\ MaxFetch \in Nat /\ MaxFetch > 0
  <2>1. /\ reader.limit \in Limits /\ Limits \subseteq Nat /\ 0 \notin Limits
        /\ Overfetch \in Nat \ {0} /\ MaxFetch \in Nat \ {0}
    BY TimelinesAssumption DEF ReaderOK
  <2>2. reader.limit \in Nat /\ reader.limit # 0
    BY <2>1
  <2> QED
    BY <2>1, <2>2
<1>2. \A a, b \in Nat : a > 0 /\ b > 0 => a * b \in Nat /\ a * b > 0
  OBVIOUS
<1>3. reader.limit * Overfetch \in Nat /\ reader.limit * Overfetch > 0
  BY <1>1, <1>2
<1>4. \A mutes : FetchSize(mutes) > 0
  BY <1>1, <1>3 DEF FetchSize
<1> QED
  BY <1>1, <1>4 DEF FetchSize

LEMMA SizesStep ==
    ASSUME SizesInv, [TimelineNext]_timelineVars PROVE SizesInv'
<1>0. TablesOK /\ ReaderOK /\ TablesOK' /\ ReaderOK'
  BY TablesStep, ReaderStep DEF SizesInv
<1>1. reader.limit \in Nat /\ reader.limit > 0
  BY <1>0, LimitsAndSizes
<1>2. reader' = reader \/ Reads
  BY TimelineKinds DEF Nothing
<1>3. view' = view
  BY TimelineKinds DEF Nothing
<1>4. CASE reader' = reader
  BY <1>0, <1>3, <1>4 DEF SizesInv, Whole
<1>5. CASE Ask
  <2>1. /\ ~reader.done /\ reader'.done = reader.done /\ reader'.at = "begin"
        /\ reader'.found = <<>> /\ reader'.kept = <<>> /\ reader'.limit = reader.limit
    BY <1>0, <1>5, AskFields
  <2> QED
    BY <1>0, <1>1, <2>1 DEF SizesInv
<1>6. CASE ReadMutes
  <2>1. /\ reader.at = "begin" /\ reader'.at = "fetch"
        /\ reader'.size = FetchSize(reader'.mutes) /\ reader'.kept = reader.kept
        /\ reader'.found = reader.found /\ reader'.limit = reader.limit
        /\ reader'.done = reader.done
    BY <1>0, <1>6, MutesFields
  <2>2. reader.found = <<>>
    BY <1>0, <2>1 DEF ReaderOK
  <2>3. reader'.size > 0 /\ (Whole' => reader'.size = reader'.limit)
    BY <1>0, <1>3, <2>1, LimitsAndSizes DEF Whole
  <2> QED
    BY <1>0, <1>3, <2>1, <2>2, <2>3 DEF SizesInv
<1>7. CASE Fetch
  <2>1. /\ reader.at = "fetch" /\ reader'.at \in {"found", "filter"}
        /\ reader'.kept = reader.kept /\ reader'.limit = reader.limit
        /\ reader'.size = reader.size /\ reader'.done = reader.done
        /\ reader'.mutes = reader.mutes /\ (Whole => reader'.at = "found")
        /\ ~Whole => reader'.found = reader.found
    BY <1>0, <1>7, FetchFields
  <2> QED
    BY <1>0, <1>3, <2>1 DEF SizesInv, Whole
<1>8. CASE Filter
  <2>1. /\ reader.at = "filter" /\ reader'.at \in {"found", "filter", "fetch"}
        /\ reader'.kept = reader.kept /\ reader'.limit = reader.limit
        /\ reader'.size = reader.size /\ reader'.done = reader.done
        /\ reader'.mutes = reader.mutes
        /\ reader'.at # "found" => ~(Len(reader'.found) >= reader.limit)
    BY <1>0, <1>8, FilterFields
  <2>2. ~Whole
    <3>1. reader.at = "filter" => ~Whole
      BY DEF SizesInv
    <3> QED
      BY <2>1, <3>1
  <2>3. Len(reader'.found) \in Nat
    BY <1>0, <2>1, SeqSet DEF ReaderOK, IsSeq
  <2>4. ~Whole'
    BY <1>3, <2>1, <2>2 DEF Whole
  <2> QED
    BY <1>0, <1>1, <1>3, <2>1, <2>3, <2>4 DEF SizesInv
<1>9. ASSUME NEW rows, reader' = Answered(rows), reader.at = "found" PROVE SizesInv'
  BY <1>0, <1>3, <1>9, AnsweredFields DEF SizesInv
<1>10. CASE Answer
  BY <1>9, <1>10 DEF Answer
<1>11. CASE AnswerWithoutReplies
  <2>1. /\ reader.at = "found" /\ view = "listNone"
        /\ \/ \E rows : reader' = Answered(rows)
           \/ /\ reader'.at = "begin" /\ reader'.found = <<>>
              /\ reader'.limit = reader.limit /\ reader'.done = reader.done
    BY <1>0, <1>11, RepliesFields
  <2> QED
    BY <1>0, <1>1, <1>3, <1>9, <2>1 DEF SizesInv
<1> QED
  BY <1>2, <1>4, <1>5, <1>6, <1>7, <1>8, <1>10, <1>11 DEF Reads, Serve

LEMMA StayStep ==
    ASSUME StayInv, [TimelineNext]_timelineVars PROVE StayInv'
<1>0. TablesOK /\ ReaderOK /\ TablesOK' /\ ReaderOK' /\ Grown
  BY TablesStep, ReaderStep DEF StayInv
<1>1. view' = view /\ stayed' \subseteq stayed
  BY TimelineKinds DEF Nothing
<1>2. \A p \in stayed' : Shows(p)'
  <2>1. CASE stayed' = stayed /\ Nothing
    <3>1. \A p \in stayed : Shows(p)' <=> Shows(p)
      BY <2>1 DEF Nothing, tables, Shows, Rows, Above, Keeps, HidesMuted, RootOf, IsNoReply,
                  Home, Public, Tagged, OnList, Marked
    <3> QED
      BY <2>1, <3>1 DEF StayInv
  <2> QED
    BY <2>1, TimelineKinds
<1>3. \A p \in stayed : p \in Ids
  BY <1>0 DEF StayInv, Shows, Rows, TablesOK
<1>4. ASSUME reader'.mutes = reader.mutes
      PROVE  /\ ~HidesMuted' => reader'.mutes = {}
             /\ reader'.mutes \subseteq Ids'
             /\ \A m \in reader'.mutes \cap standing' : row'[m].parent = 0
  BY <1>0, <1>1, <1>4 DEF StayInv, Grown, HidesMuted
<1>5. ASSUME reader'.mutes = reader.mutes, HidesMuted, NEW p \in stayed,
             RootOf(p) \notin reader.mutes
      PROVE  RootOf(p)' \notin reader'.mutes
  BY <1>0, <1>3, <1>5, RootsMove DEF StayInv
<1>6. ASSUME reader'.mutes = reader.mutes,
             reader'.at \in {"fetch", "filter"} => reader.at \in {"fetch", "filter"}
      PROVE  StayInv'
  BY <1>0, <1>1, <1>2, <1>4, <1>5, <1>6 DEF StayInv, HidesMuted
<1>7. CASE ReadMutes
  <2>1. reader'.mutes = (IF HidesMuted THEN muted ELSE {}) /\ UNCHANGED <<view, tables>>
    BY <1>0, <1>7, MutesFields DEF ReadMutes
  <2>2. /\ ~HidesMuted' => reader'.mutes = {}
        /\ reader'.mutes \subseteq Ids'
        /\ \A m \in reader'.mutes \cap standing' : row'[m].parent = 0
    BY <1>0, <2>1 DEF TablesOK, tables, HidesMuted, Ids
  <2>3. HidesMuted' => \A p \in stayed' : RootOf(p)' \notin reader'.mutes
    BY <1>2, <2>1 DEF Shows, tables, HidesMuted
  <2> QED
    BY <1>0, <1>2, <2>2, <2>3 DEF StayInv
<1>8. CASE Reads /\ ~ReadMutes
  <2>1. ASSUME Ask \/ Fetch PROVE StayInv'
    BY <1>0, <1>6, <2>1, AskFields, FetchFields
  <2>2. ASSUME Filter PROVE StayInv'
    BY <1>0, <1>6, <2>2, FilterFields
  <2>3. ASSUME NEW rows, reader' = Answered(rows) PROVE StayInv'
    BY <1>0, <1>6, <2>3, AnsweredFields
  <2>4. ASSUME Answer PROVE StayInv'
    BY <2>3, <2>4 DEF Answer
  <2>5. ASSUME AnswerWithoutReplies PROVE StayInv'
    BY <1>0, <1>6, <2>3, <2>5, RepliesFields
  <2> QED
    BY <1>8, <2>1, <2>2, <2>4, <2>5 DEF Reads, Serve
<1>9. CASE reader' = reader
  BY <1>6, <1>9
<1> QED
  BY <1>7, <1>8, <1>9, TimelineKinds DEF Nothing

-----------------------------------------------------------------------------
(* A page keeps its order.                                                 *)

LEMMA ReadsOnly ==
    ASSUME UNCHANGED <<view, tables>>, NEW r, r = reader', PageOK(r)
    PROVE  PageOK(reader)'
<1>1. UNCHANGED <<view, row, marks, lastMark>>
  BY DEF tables
<1>a. Ids' = Ids /\ \A p : Live(p)' <=> Live(p)
  BY <1>1 DEF Live, Ids
<1>b. \A p, c : (Past(p, c)' <=> Past(p, c)) /\ (From(c, p)' <=> From(c, p))
  BY <1>1 DEF Past, From
<1>c. \A s, t : (Sorted(s)' <=> Sorted(s)) /\ (Precedes(s, t)' <=> Precedes(s, t))
  BY <1>a, <1>b DEF Sorted, Precedes
<1>2. ShownOK(r)'
  BY <1>a, <1>b DEF PageOK, ShownOK
<1>3. GotOK(r)'
  BY <1>b, <1>c DEF PageOK, GotOK
<1>4. BelowOK(r)'
  BY <1>a, <1>b DEF PageOK, BelowOK
<1>5. RowsOK(r)'
  BY <1>b, <1>c DEF PageOK, RowsOK
<1> QED
  BY <1>2, <1>3, <1>4, <1>5
     DEF PageOK, ShownOK, GotOK, BelowOK, RowsOK, Sorted, Precedes

LEMMA EmptyPrecedes == \A s : Precedes(<<>>, s) /\ Precedes(s, <<>>)
  BY EmptyIsSeq DEF Precedes

LEMMA PageAsk ==
    ASSUME ReaderOK, PageOK(reader), Ask, NEW r, r = reader' PROVE PageOK(r)
<1>1. /\ r.at = "begin" /\ r.below = reader.cursor /\ r.cursor = reader.cursor
      /\ r.found = <<>> /\ r.kept = <<>> /\ r.shown = reader.shown
  BY AskFields
<1> QED
  BY <1>1, EmptyIsSeq, EmptySorted, EmptyPrecedes DEF PageOK, ShownOK, GotOK, BelowOK, RowsOK

LEMMA PageMutes ==
    ASSUME ReaderOK, PageOK(reader), ReadMutes, NEW r, r = reader' PROVE PageOK(r)
<1>1. /\ reader.at = "begin" /\ r.at = "fetch"
      /\ r.below = reader.below /\ r.cursor = reader.cursor
      /\ r.found = reader.found /\ r.kept = reader.kept /\ r.shown = reader.shown
  BY MutesFields
<1> QED
  BY <1>1 DEF PageOK, ShownOK, GotOK, BelowOK, RowsOK

\* What a query returns, below the rows of the page so far.
LEMMA FetchedRows ==
    ASSUME OrderOK, ReaderOK, PageOK(reader), reader.at = "fetch",
           NEW rows, rows = Page(reader.below, reader.size)
    PROVE  /\ Sorted(rows) /\ Len(rows) <= reader.size
           /\ \A p \in ToSet(rows) : From(reader.cursor, p)
           /\ Precedes(reader.kept, rows) /\ Precedes(reader.found, rows)
           /\ \A p \in Rows : Above(p) /\ From(reader.below, p) =>
                  \/ p \in ToSet(rows)
                  \/ Len(rows) = reader.size /\ \A q \in ToSet(rows) : Past(q, p)
<1> DEFINE S == {p \in Rows : Below(p, reader.below) /\ Above(p)}
<1>1. \A p \in Rows : Live(p)
  <2>1. view \in MarkViews \cup IdViews \cup TimeViews
    BY TimelinesAssumption DEF OrderOK, MarksOK
  <2>2. \A p \in Rows : p \in Ids /\ (view \in MarkViews => Marked(p))
    BY <2>1 DEF Rows, OrderOK, TablesOK, MarkViews, IdViews, TimeViews
  <2> QED
    BY <2>2 DEF Live, Marked
<1>2. \A p \in Rows : Below(p, reader.below) <=> From(reader.below, p)
  <2>1. CASE reader.below = 0
    BY <2>1 DEF Below, From
  <2>2. CASE reader.below # 0
    <3>1. Live(reader.below)
      BY <2>2 DEF PageOK, BelowOK
    <3> QED
      BY <1>1, <2>2, <3>1, OrderNumbers DEF Below, From, Past, MarkedBelow, Live
  <2> QED
    BY <2>1, <2>2
<1>3. IsFiniteSet(S)
  BY RowsAreFinite DEF OrderOK
<1>4. \A p \in S : Live(p) /\ p \in Rows /\ From(reader.below, p)
  BY <1>1, <1>2
<1>5. \A p \in Rows : Above(p) /\ From(reader.below, p) => p \in S
  BY <1>2
<1>6. rows = FirstRows(S, reader.size) /\ reader.size \in Nat
  BY DEF Page, ReaderOK
<1> HIDE DEF S
<1>7. /\ Sorted(rows) /\ ToSet(rows) \subseteq S /\ Len(rows) <= reader.size
      /\ \A p \in S : \/ p \in ToSet(rows)
                      \/ Len(rows) = reader.size /\ \A q \in ToSet(rows) : Past(q, p)
  BY <1>3, <1>4, <1>6, FirstRowsAreFirst
<1>8. CASE reader.below = 0
  <2>1. reader.cursor = 0 /\ reader.kept = <<>> /\ reader.found = <<>>
    BY <1>8 DEF PageOK, BelowOK
  <2> QED
    BY <1>5, <1>7, <2>1, EmptyPrecedes DEF From
<1>9. CASE reader.below # 0
  <2>1. /\ Live(reader.below)
        /\ reader.cursor = reader.below \/ From(reader.cursor, reader.below)
        /\ \A p \in ToSet(reader.kept) \cup ToSet(reader.found) :
               p = reader.below \/ Past(p, reader.below)
    BY <1>9 DEF PageOK, BelowOK
  <2>2. \A p \in ToSet(rows) : Live(p) /\ Past(reader.below, p)
    BY <1>4, <1>7, <1>9 DEF From
  <2>3. \A p \in Ids : \A q \in ToSet(rows) : Past(p, reader.below) => Past(p, q)
    BY <2>1, <2>2, PastIsOrder
  <2>4. \A p \in ToSet(rows) : From(reader.cursor, p)
    <3>1. reader.cursor # 0 => reader.cursor \in Ids
      BY DEF PageOK, ShownOK, Live
    <3> QED
      BY <2>1, <2>2, <2>3, <3>1 DEF From
  <2>5. \A p \in ToSet(reader.kept) \cup ToSet(reader.found) : p \in Ids
    BY DEF PageOK, GotOK, Sorted, Live
  <2>6. Precedes(reader.kept, rows) /\ Precedes(reader.found, rows)
    BY <2>1, <2>2, <2>3, <2>5 DEF Precedes
  <2> QED
    BY <1>5, <1>7, <2>4, <2>6
<1> QED
  BY <1>8, <1>9

LEMMA PageFetch ==
    ASSUME OrderOK, ReaderOK, PageOK(reader), Fetch, NEW r, r = reader' PROVE PageOK(r)
<1>1. PICK rows : rows = Page(reader.below, reader.size)
  OBVIOUS
<1>2. /\ reader.at = "fetch" /\ r.at \in {"found", "filter"}
      /\ \/ r.at = "found" /\ r.found = rows
         \/ r.found = reader.found /\ r.rows = rows
      /\ r.kept = reader.kept /\ r.shown = reader.shown /\ r.cursor = reader.cursor
  BY <1>1, FetchFields
<1>3. /\ Sorted(rows) /\ \A p \in ToSet(rows) : From(reader.cursor, p)
      /\ Precedes(reader.kept, rows) /\ Precedes(reader.found, rows)
  BY <1>1, <1>2, FetchedRows
<1> QED
  BY <1>2, <1>3 DEF PageOK, ShownOK, GotOK, BelowOK, RowsOK

LEMMA PageFilter ==
    ASSUME OrderOK, ReaderOK, PageOK(reader), Filter, NEW r, r = reader' PROVE PageOK(r)
<1>1. PICK h, rest : h = Head(reader.rows) /\ rest = Tail(reader.rows)
  OBVIOUS
<1>2. /\ reader.at = "filter" /\ reader.rows # <<>>
      /\ r.found = Append(reader.found, h) \/ r.found = reader.found
      /\ r.rows = rest /\ r.below = (IF rest = <<>> THEN h ELSE reader.below)
      /\ r.at \in {"found", "filter", "fetch"} /\ (r.at = "fetch" => rest = <<>>)
      /\ r.kept = reader.kept /\ r.shown = reader.shown /\ r.cursor = reader.cursor
  BY <1>1, FilterFields
<1>3. /\ Sorted(reader.kept) /\ Sorted(reader.found) /\ Precedes(reader.kept, reader.found)
      /\ Sorted(reader.rows)
      /\ Precedes(reader.kept, reader.rows) /\ Precedes(reader.found, reader.rows)
      /\ \A p \in ToSet(reader.kept) \cup ToSet(reader.found) \cup ToSet(reader.rows) :
             From(reader.cursor, p)
  BY <1>2 DEF PageOK, GotOK, RowsOK
<1>4. /\ Sorted(rest) /\ Live(h) /\ ToSet(reader.rows) = {h} \cup ToSet(rest)
      /\ \A q \in ToSet(rest) : Past(h, q)
  BY <1>1, <1>2, <1>3, SortedTail
<1>5. \A p \in ToSet(reader.found) : Past(p, h)
  BY <1>3, <1>4 DEF Precedes
<1>6. Sorted(r.found) /\ ToSet(r.found) \subseteq ToSet(reader.found) \cup {h}
  <2>1. /\ Sorted(Append(reader.found, h))
        /\ ToSet(Append(reader.found, h)) = ToSet(reader.found) \cup {h}
    BY <1>3, <1>4, <1>5, SortedAppend
  <2> QED
    BY <1>2, <1>3, <2>1
<1>7. Precedes(r.kept, r.found) /\ Precedes(r.found, r.rows) /\ Precedes(r.kept, r.rows)
  BY <1>2, <1>3, <1>4, <1>6 DEF Precedes
<1>8. \A p \in ToSet(r.kept) \cup ToSet(r.found) \cup ToSet(r.rows) : From(r.cursor, p)
  BY <1>2, <1>3, <1>4, <1>6
<1>9. BelowOK(r)
  <2>1. SUFFICES ASSUME r.at = "fetch" PROVE BelowOK(r)
    BY <1>2 DEF BelowOK
  <2>2. r.below = h /\ r.below # 0
    BY <1>2, <1>4, <2>1 DEF Live, Ids
  <2>3. \A p \in ToSet(r.kept) \cup ToSet(r.found) : p = h \/ Past(p, h)
    BY <1>2, <1>3, <1>4, <1>5, <1>6 DEF Precedes
  <2> QED
    BY <1>2, <1>3, <1>4, <2>2, <2>3 DEF BelowOK
<1> QED
  BY <1>2, <1>3, <1>4, <1>6, <1>7, <1>8, <1>9 DEF PageOK, ShownOK, GotOK, RowsOK

LEMMA ConcatSet ==
    ASSUME NEW S, NEW s \in Seq(S), NEW t \in Seq(S)
    PROVE  /\ s \o t \in Seq(S) /\ ToSet(s \o t) = ToSet(s) \cup ToSet(t)
           /\ Len(s \o t) = Len(s) + Len(t)
           /\ \A i \in 1..Len(s \o t) :
                  \/ i \in 1..Len(s) /\ (s \o t)[i] = s[i]
                  \/ /\ i > Len(s) /\ i - Len(s) \in 1..Len(t)
                     /\ (s \o t)[i] = t[i - Len(s)]
<1>2. PICK u : u = s \o t
  OBVIOUS
<1>3. /\ u \in Seq(S) /\ Len(u) = Len(s) + Len(t) /\ Len(s) \in Nat /\ Len(t) \in Nat
      /\ \A i \in 1..Len(s) : u[i] = s[i]
      /\ \A i \in 1..Len(u) : i > Len(s) => u[i] = t[i - Len(s)]
  BY <1>2
<1>4. /\ \A i \in 1..Len(s) : s[i] \in ToSet(s)
      /\ \A p \in ToSet(s) : \E i \in 1..Len(s) : p = s[i]
  BY SeqSet
<1>5. /\ \A i \in 1..Len(t) : t[i] \in ToSet(t)
      /\ \A p \in ToSet(t) : \E i \in 1..Len(t) : p = t[i]
  BY SeqSet
<1>6. /\ \A i \in 1..Len(u) : u[i] \in ToSet(u)
      /\ \A p \in ToSet(u) : \E i \in 1..Len(u) : p = u[i]
  <2>1. u \in Seq(S)
    BY <1>3
  <2> QED
    BY <2>1, SeqSet
<1>7. \A i \in 1..Len(u) : \/ i \in 1..Len(s) /\ u[i] = s[i]
                           \/ i > Len(s) /\ i - Len(s) \in 1..Len(t) /\ u[i] = t[i - Len(s)]
  BY <1>3
<1>8. ASSUME NEW p \in ToSet(s) PROVE p \in ToSet(u)
  <2>1. PICK i \in 1..Len(s) : p = s[i]
    BY <1>4
  <2>2. i \in 1..Len(u) /\ u[i] = s[i]
    BY <1>3
  <2> QED
    BY <1>6, <2>1, <2>2
<1>9. ASSUME NEW p \in ToSet(t) PROVE p \in ToSet(u)
  <2>1. PICK i \in 1..Len(t) : p = t[i]
    BY <1>5
  <2>2. i + Len(s) \in 1..Len(u) /\ i + Len(s) > Len(s) /\ (i + Len(s)) - Len(s) = i
    BY <1>3
  <2>3. u[i + Len(s)] = t[i]
    BY <1>3, <2>2
  <2> QED
    BY <1>6, <2>1, <2>2, <2>3
<1>10. ASSUME NEW p \in ToSet(u) PROVE p \in ToSet(s) \cup ToSet(t)
  <2>1. PICK i \in 1..Len(u) : p = u[i]
    BY <1>6
  <2>2. CASE i \in 1..Len(s) /\ u[i] = s[i]
    BY <1>4, <2>1, <2>2
  <2>3. CASE i - Len(s) \in 1..Len(t) /\ u[i] = t[i - Len(s)]
    BY <1>5, <2>1, <2>3
  <2> QED
    BY <1>7, <2>2, <2>3
<1> QED
  BY <1>2, <1>3, <1>7, <1>8, <1>9, <1>10

\* The client has the rows of the page after those it had.
LEMMA PageAnswered ==
    ASSUME OrderOK, ReaderOK, PageOK(reader),
           NEW rows, Sorted(rows), \A q \in ToSet(rows) : From(reader.cursor, q),
           reader' = Answered(rows), NEW r, r = reader'
    PROVE  PageOK(r) /\ ToSet(r.shown) = ToSet(reader.shown) \cup ToSet(rows)
<1>1. PICK old : old = reader.shown
  OBVIOUS
<1>2. /\ old \in Seq(Ids) /\ IsInjective(old) /\ rows \in Seq(Ids)
      /\ IF reader.cursor = 0 THEN old = <<>>
         ELSE /\ Live(reader.cursor)
              /\ \A p \in ToSet(old) : p = reader.cursor \/ Past(p, reader.cursor)
  BY <1>1 DEF PageOK, ShownOK, Sorted
<1>3. PICK new : new = old \o rows
  OBVIOUS
<1>4. /\ r.at = "rest" /\ r.shown = new
      /\ r.cursor = (IF rows = <<>> THEN reader.cursor ELSE Last(rows))
  BY <1>1, <1>3, AnsweredFields
<1>5. /\ new \in Seq(Ids) /\ ToSet(new) = ToSet(old) \cup ToSet(rows)
      /\ Len(new) = Len(old) + Len(rows)
      /\ \A i \in 1..Len(new) :
             \/ i \in 1..Len(old) /\ new[i] = old[i]
             \/ i > Len(old) /\ i - Len(old) \in 1..Len(rows) /\ new[i] = rows[i - Len(old)]
  BY <1>2, <1>3, ConcatSet
<1>6. /\ DOMAIN new = 1..Len(new) /\ DOMAIN old = 1..Len(old)
      /\ Len(old) \in Nat /\ Len(rows) \in Nat
      /\ \A i \in 1..Len(rows) : rows[i] \in ToSet(rows)
      /\ \A i \in 1..Len(old) : old[i] \in ToSet(old) /\ old[i] \in Ids
  BY <1>2, <1>5, SeqSet
<1>7. \A p \in ToSet(old), q \in ToSet(rows) : Past(p, q)
  <2>1. ASSUME NEW p \in ToSet(old), NEW q \in ToSet(rows) PROVE Past(p, q)
    <3>1. reader.cursor # 0
      BY <1>2, <2>1, EmptyIsSeq
    <3>2. Live(q) /\ Past(reader.cursor, q)
      BY <3>1 DEF From, Sorted
    <3>3. p \in Ids
      BY <1>2, SeqSet
    <3> QED
      BY <1>2, <3>1, <3>2, <3>3, PastIsOrder
  <2> QED
    BY <2>1
<1>8. ASSUME NEW i \in 1..Len(new), NEW j \in 1..Len(new), new[i] = new[j] PROVE i = j
  <2>1. CASE i \in 1..Len(old) /\ j \in 1..Len(old)
    <3>1. ~(i > Len(old)) /\ ~(j > Len(old))
      BY <1>6, <2>1
    <3>2. old[i] = old[j] /\ i \in DOMAIN old /\ j \in DOMAIN old
      BY <1>5, <1>6, <1>8, <2>1, <3>1
    <3> QED
      BY <1>2, <3>2 DEF IsInjective
  <2>2. CASE i \notin 1..Len(old) /\ j \notin 1..Len(old)
    <3>1. PICK k, l : k = i - Len(old) /\ l = j - Len(old)
      OBVIOUS
    <3>2. k \in 1..Len(rows) /\ l \in 1..Len(rows) /\ rows[k] = rows[l]
      BY <1>5, <1>8, <2>2, <3>1
    <3>3. k = l
      BY <3>2, SortedOnce
    <3> QED
      BY <1>6, <3>1, <3>3
  <2>3. ASSUME NEW k \in 1..Len(old), NEW l \in 1..Len(rows), old[k] = rows[l] PROVE FALSE
    <3>1. Past(rows[l], rows[l]) /\ Live(rows[l]) /\ rows[l] \in Ids
      BY <1>6, <1>7, <2>3 DEF Sorted, Live
    <3> QED
      BY <3>1, PastIsOrder
  <2>4. ASSUME NEW k \in 1..Len(new), NEW l \in 1..Len(new), new[k] = new[l],
               k \in 1..Len(old), l \notin 1..Len(old)
        PROVE  FALSE
    <3>1. new[k] = old[k]
      <4>1. ~(k > Len(old))
        BY <1>6, <2>4
      <4> QED
        BY <1>5, <4>1
    <3>2. l - Len(old) \in 1..Len(rows) /\ new[l] = rows[l - Len(old)]
      BY <1>5, <2>4
    <3> QED
      BY <2>3, <2>4, <3>1, <3>2
  <2> QED
    BY <1>8, <2>1, <2>2, <2>4
<1>9. IsInjective(new)
  BY <1>6, <1>8 DEF IsInjective
<1>10. IF r.cursor = 0 THEN new = <<>>
       ELSE /\ Live(r.cursor)
            /\ \A p \in ToSet(new) : p = r.cursor \/ Past(p, r.cursor)
  <2>1. CASE rows = <<>>
    <3>1. new = old /\ r.cursor = reader.cursor
      BY <1>2, <1>3, <1>4, <2>1
    <3> QED
      BY <1>2, <3>1
  <2>2. CASE rows # <<>>
    <3>1. /\ r.cursor \in ToSet(rows) /\ Live(r.cursor)
          /\ \A p \in ToSet(rows) : p = r.cursor \/ Past(p, r.cursor)
      BY <1>4, <2>2, SortedLast
    <3>2. r.cursor # 0
      BY <3>1 DEF Live, Ids
    <3> QED
      BY <1>5, <1>7, <3>1, <3>2
  <2> QED
    BY <2>1, <2>2
<1> QED
  BY <1>1, <1>4, <1>5, <1>9, <1>10 DEF PageOK, ShownOK, GotOK, BelowOK, RowsOK

\* What a list without replies takes from a page of the service.
LEMMA ListedRoots ==
    ASSUME OrderOK, ReaderOK, PageOK(reader), reader.at = "found", NEW kept, kept = Kept
    PROVE  /\ Sorted(kept) /\ ToSet(kept) \subseteq ToSet(reader.kept) \cup ToSet(reader.found)
           /\ Len(kept) \in Nat /\ Len(kept) <= reader.limit
           /\ \A p \in ToSet(reader.kept) \cup RootRows :
                  p \in ToSet(kept) \/ (Len(kept) = reader.limit /\ Past(Last(kept), p))
<1>1. PICK roots, all : roots = FirstRows(RootRows, reader.limit) /\ all = Listed
  OBVIOUS
<1>2. /\ Sorted(reader.kept) /\ Sorted(reader.found) /\ Precedes(reader.kept, reader.found)
  BY DEF PageOK, GotOK
<1>3. RootRows \subseteq ToSet(reader.found) /\ \A p \in RootRows : Live(p)
  BY <1>2 DEF RootRows, Sorted
<1>4. IsFiniteSet(RootRows)
  <2>1. RootRows \in SUBSET Ids
    BY <1>3 DEF Live
  <2>2. IsFiniteSet(Ids)
    <3>1. Len(row) \in Nat
      BY DEF OrderOK, TablesOK
    <3> QED
      BY <3>1, FS_Interval DEF Ids
  <2> QED
    BY <2>1, <2>2, FS_Subset
<1>5. reader.limit \in Nat /\ reader.limit > 0
  BY LimitsAndSizes
<1>6. /\ Sorted(roots) /\ ToSet(roots) \subseteq RootRows /\ Len(roots) <= reader.limit
      /\ \A p \in RootRows : \/ p \in ToSet(roots)
                             \/ /\ Len(roots) = reader.limit
                                /\ \A q \in ToSet(roots) : Past(q, p)
  BY <1>1, <1>3, <1>4, <1>5, FirstRowsAreFirst
<1>7. Precedes(reader.kept, roots)
  BY <1>2, <1>3, <1>6 DEF Precedes
<1>8. /\ Sorted(all) /\ ToSet(all) = ToSet(reader.kept) \cup ToSet(roots)
      /\ Len(all) = Len(reader.kept) + Len(roots)
  <2>1. all = reader.kept \o roots
    BY <1>1 DEF Listed
  <2> QED
    BY <1>2, <1>6, <1>7, <2>1, SortedConcat
<1>9. Len(all) \in Nat /\ Len(reader.kept) \in Nat /\ Len(roots) \in Nat
  BY <1>2, <1>6, <1>8, SeqSet DEF Sorted
<1>10. /\ Sorted(kept) /\ ToSet(kept) \subseteq ToSet(all)
       /\ Len(kept) \in Nat /\ Len(kept) <= reader.limit
       /\ Len(all) >= reader.limit => Len(kept) = reader.limit
       /\ \A p \in ToSet(all) : p \in ToSet(kept) \/ (Len(kept) = reader.limit /\ Past(Last(kept), p))
  <2>1. CASE Len(all) > reader.limit
    <3>1. /\ kept = SubSeq(all, 1, reader.limit) /\ reader.limit \in Nat \ {0}
          /\ reader.limit < Len(all)
      BY <1>1, <1>5, <1>9, <2>1 DEF Kept
    <3>2. /\ Sorted(kept) /\ Len(kept) = reader.limit /\ ToSet(kept) \subseteq ToSet(all)
          /\ \A p \in ToSet(all) : p \in ToSet(kept) \/ Past(Last(kept), p)
      BY <1>8, <3>1, SortedPrefix
    <3> QED
      BY <1>5, <3>2
  <2>2. CASE ~(Len(all) > reader.limit)
    <3>1. kept = all
      BY <1>1, <2>2 DEF Kept
    <3> QED
      BY <1>5, <1>8, <1>9, <2>2, <3>1
  <2> QED
    BY <2>1, <2>2
<1>11. ASSUME NEW p \in RootRows, p \notin ToSet(roots)
       PROVE  Len(kept) = reader.limit /\ Past(Last(kept), p)
  <2>1. Len(roots) = reader.limit /\ \A q \in ToSet(roots) : Past(q, p)
    BY <1>6, <1>11
  <2>2. \A q \in ToSet(reader.kept) : Past(q, p)
    BY <1>2, <1>3, <1>11 DEF Precedes
  <2>3. Len(kept) = reader.limit
    BY <1>5, <1>8, <1>9, <1>10, <2>1
  <2>4. kept # <<>>
    BY <1>5, <2>3
  <2>5. Last(kept) \in ToSet(all)
    BY <1>10, <2>4, SortedLast
  <2> QED
    BY <1>8, <2>1, <2>2, <2>3, <2>5
<1> QED
  BY <1>3, <1>6, <1>8, <1>10, <1>11

LEMMA PageReplies ==
    ASSUME OrderOK, ReaderOK, PageOK(reader), AnswerWithoutReplies, NEW r, r = reader'
    PROVE  PageOK(r)
<1>1. PICK kept : kept = Kept
  OBVIOUS
<1>2. reader.at = "found"
  BY RepliesFields
<1>3. /\ Sorted(kept) /\ ToSet(kept) \subseteq ToSet(reader.kept) \cup ToSet(reader.found)
  BY <1>1, <1>2, ListedRoots
<1>4. /\ Sorted(reader.found) /\ Precedes(reader.kept, reader.found)
      /\ \A p \in ToSet(reader.kept) \cup ToSet(reader.found) : From(reader.cursor, p)
  BY <1>2 DEF PageOK, GotOK
<1>5. CASE reader' = Answered(kept)
  BY <1>3, <1>4, <1>5, PageAnswered
<1>6. CASE reader' # Answered(kept)
  <2>1. /\ Len(reader.found) >= reader.limit
        /\ r.at = "begin" /\ r.kept = kept /\ r.found = <<>>
        /\ r.below = Last(reader.found) /\ r.shown = reader.shown
        /\ r.cursor = reader.cursor
    <3>1. /\ ~(Len(reader.found) < reader.limit)
          /\ r.at = "begin" /\ r.kept = kept /\ r.found = <<>>
          /\ r.below = Last(reader.found) /\ r.shown = reader.shown
          /\ r.cursor = reader.cursor
      BY <1>1, <1>6, RepliesFields
    <3>2. Len(reader.found) \in Nat /\ reader.limit \in Nat
      BY <1>4, SeqSet, LimitsAndSizes DEF Sorted
    <3> QED
      BY <3>1, <3>2
  <2>2. reader.found # <<>>
    BY <2>1, LimitsAndSizes
  <2>3. /\ r.below \in ToSet(reader.found) /\ Live(r.below)
        /\ \A p \in ToSet(reader.found) : p = r.below \/ Past(p, r.below)
    BY <1>4, <2>1, <2>2, SortedLast
  <2>4. r.below # 0
    BY <2>3 DEF Live, Ids
  <2>5. \A p \in ToSet(kept) : p = r.below \/ Past(p, r.below)
    BY <1>3, <1>4, <2>3 DEF Precedes
  <2> QED
    BY <1>3, <1>4, <2>1, <2>3, <2>4, <2>5, EmptyIsSeq, EmptySorted, EmptyPrecedes
       DEF PageOK, ShownOK, GotOK, BelowOK, RowsOK
<1> QED
  BY <1>5, <1>6

\* What happens meanwhile leaves the page in its order.
LEMMA PageMeanwhile ==
    ASSUME OrderOK, OrderOK', Grown, SizesInv, PageOK(reader),
           Meanwhile, [TimelineNext]_timelineVars, ~moved',
           NEW r, r = reader
    PROVE  PageOK(r)'
<1>0. view' = view /\ r = reader' /\ Ids \subseteq Ids' /\ 0 \notin Ids
  BY TimelineKinds DEF Grown, Ids
<1>1. ASSUME NEW c, Live(c), \/ view \notin MarkViews
                             \/ c \in {r.cursor, r.below}
                             \/ c \in ToSet(r.rows) \cup ToSet(r.found)
      PROVE  Live(c)'
  BY <1>1, HeldStays
<1>2. ASSUME NEW p \in Ids, NEW c, Live(c), Live(c)', Past(p, c) PROVE Past(p, c)'
  BY <1>2, PastStays
<1>3. r.kept = <<>> \/ view \notin MarkViews
  BY DEF SizesInv, MarkViews
<1>4. \A s \in Seq(Ids) : s \in Seq(Ids') /\ \A p \in ToSet(s) : p \in Ids
  BY <1>0, SeqSet
<1>6. ASSUME NEW c, c # 0 => c \in Ids, NEW p, Live(p), Live(p)', From(c, p)
      PROVE  From(c, p)'
  BY <1>2, <1>6 DEF From
<1>7. ASSUME NEW s, Sorted(s), \A p \in ToSet(s) : Live(p)' PROVE Sorted(s)'
  <2>1. s \in Seq(Ids) /\ s \in Seq(Ids')
    BY <1>4, <1>7 DEF Sorted
  <2>2. ASSUME NEW i \in 1..Len(s), NEW j \in 1..Len(s), i < j PROVE Past(s[i], s[j])'
    <3>1. s[i] \in ToSet(s) /\ s[j] \in ToSet(s) /\ s[i] \in Ids /\ Past(s[i], s[j])
      BY <1>7, <2>1, <2>2, SeqSet DEF Sorted
    <3> QED
      BY <1>2, <1>7, <3>1 DEF Sorted
  <2> QED
    BY <1>7, <2>1, <2>2 DEF Sorted
<1>8. ASSUME NEW s, NEW t, Precedes(s, t), \A p \in ToSet(s) : p \in Ids,
             \A p \in ToSet(t) : Live(p) /\ Live(p)'
      PROVE  Precedes(s, t)'
  BY <1>2, <1>8 DEF Precedes
<1>9. ShownOK(r)'
  <2>1. r.cursor # 0 => Live(r.cursor)'
    BY <1>1 DEF PageOK, ShownOK
  <2>2. \A p \in ToSet(r.shown) : p \in Ids
    BY <1>4 DEF PageOK, ShownOK
  <2>3. r.cursor # 0 =>
            \A p \in ToSet(r.shown) : p = r.cursor \/ Past(p, r.cursor)'
    BY <1>2, <2>1, <2>2 DEF PageOK, ShownOK
  <2> QED
    BY <1>4, <2>1, <2>3 DEF PageOK, ShownOK
<1>10. r.cursor # 0 => r.cursor \in Ids
  BY DEF PageOK, ShownOK, Live
<1>11. ASSUME r.at # "rest"
       PROVE  /\ \A p \in ToSet(r.kept) \cup ToSet(r.found) : Live(p) /\ Live(p)' /\ p \in Ids
              /\ Sorted(r.kept)' /\ Sorted(r.found)' /\ Precedes(r.kept, r.found)'
              /\ \A p \in ToSet(r.kept) \cup ToSet(r.found) : From(r.cursor, p)'
  <2>1. /\ Sorted(r.kept) /\ Sorted(r.found) /\ Precedes(r.kept, r.found)
        /\ \A p \in ToSet(r.kept) \cup ToSet(r.found) : From(r.cursor, p)
    BY <1>11 DEF PageOK, GotOK
  <2>2. \A p \in ToSet(r.kept) \cup ToSet(r.found) : Live(p) /\ Live(p)' /\ p \in Ids
    BY <1>1, <1>3, <2>1, EmptyIsSeq DEF Sorted, Live
  <2>3. Sorted(r.kept)' /\ Sorted(r.found)' /\ Precedes(r.kept, r.found)'
    BY <1>7, <1>8, <2>1, <2>2
  <2> QED
    BY <1>6, <1>10, <2>1, <2>2, <2>3
<1>12. GotOK(r)'
  BY <1>11 DEF GotOK
<1>13. BelowOK(r)'
  <2>1. SUFFICES ASSUME r.at \in {"begin", "fetch"}, r.below # 0
                 PROVE  /\ Live(r.below)'
                        /\ r.cursor = r.below \/ From(r.cursor, r.below)'
                        /\ \A p \in ToSet(r.kept) \cup ToSet(r.found) :
                               p = r.below \/ Past(p, r.below)'
    BY DEF PageOK, BelowOK
  <2>2. /\ Live(r.below)
        /\ r.cursor = r.below \/ From(r.cursor, r.below)
        /\ \A p \in ToSet(r.kept) \cup ToSet(r.found) : p = r.below \/ Past(p, r.below)
    BY <2>1 DEF PageOK, BelowOK
  <2>3. Live(r.below)'
    BY <1>1, <2>2
  <2>4. r.cursor = r.below \/ From(r.cursor, r.below)'
    BY <1>6, <1>10, <2>2, <2>3
  <2> QED
    BY <1>2, <1>11, <2>1, <2>2, <2>3, <2>4
<1>14. RowsOK(r)'
  <2>1. SUFFICES ASSUME r.at = "filter"
                 PROVE  /\ Sorted(r.rows)' /\ Precedes(r.kept, r.rows)' /\ Precedes(r.found, r.rows)'
                        /\ \A p \in ToSet(r.rows) : From(r.cursor, p)'
    BY DEF RowsOK
  <2>2. /\ Sorted(r.rows) /\ Precedes(r.kept, r.rows) /\ Precedes(r.found, r.rows)
        /\ \A p \in ToSet(r.rows) : From(r.cursor, p)
    BY <2>1 DEF PageOK, RowsOK
  <2>3. \A p \in ToSet(r.rows) : Live(p) /\ Live(p)'
    BY <1>1, <2>2 DEF Sorted
  <2> QED
    BY <1>6, <1>7, <1>8, <1>10, <1>11, <2>1, <2>2, <2>3
<1> QED
  BY <1>9, <1>12, <1>13, <1>14 DEF PageOK

LEMMA PageStep ==
    ASSUME PageInv, [TimelineNext]_timelineVars PROVE PageInv'
<1>0. OrderOK /\ OrderOK' /\ Grown /\ SizesInv /\ SizesInv' /\ ReaderOK
  BY OrderStep, TablesStep, SizesStep DEF PageInv, SizesInv
<1>1. SUFFICES ASSUME ~moved' PROVE PageOK(reader)'
  BY <1>0 DEF PageInv
<1>2. moved => moved'
  BY TimelineKinds DEF Nothing, Meanwhile, Post, Erase, Mute, Unmute, Mark, Unmark, Pin,
                       AddToList, RemoveFromList, Loses
<1>3. PageOK(reader)
  BY <1>1, <1>2 DEF PageInv
<1>4. PICK r : r = reader'
  OBVIOUS
<1>5. CASE Reads
  <2>1. PageOK(r)
    <3>1. CASE Answer
      <4>1. reader.at = "found" /\ reader' = Answered(reader.found)
        BY <3>1 DEF Answer
      <4>2. /\ Sorted(reader.found)
            /\ \A q \in ToSet(reader.found) : From(reader.cursor, q)
        BY <1>3, <4>1 DEF PageOK, GotOK
      <4> QED
        BY <1>0, <1>3, <1>4, <4>1, <4>2, PageAnswered
    <3> QED
      BY <1>0, <1>3, <1>4, <1>5, <3>1, PageAsk, PageMutes, PageFetch, PageFilter, PageReplies
         DEF Reads, Serve
  <2> QED
    BY <1>4, <1>5, <2>1, ReadsOnly, TimelineKinds
<1>6. CASE Nothing
  BY <1>3, <1>6, <1>4, ReadsOnly DEF Nothing
<1>7. CASE Meanwhile
  <2>1. r = reader
    BY <1>4, <1>7, TimelineKinds
  <2>2. PageOK(r)'
    BY <1>0, <1>1, <1>3, <1>7, <2>1, PageMeanwhile
  <2> QED
    BY <1>4, <2>2 DEF PageOK, ShownOK, GotOK, BelowOK, RowsOK, Sorted, Precedes
<1> QED
  BY <1>5, <1>6, <1>7, TimelineKinds

LEMMA OrderIsKept ==
    ASSUME ReaderOK, [TimelineNext]_timelineVars PROVE IsOneOrder' <=> IsOneOrder
<1>1. view' = view
  BY TimelineKinds DEF Nothing
<1>2. ASSUME Reads PROVE reader'.ordered = reader.ordered
  <2>1. DOMAIN reader = ReaderFields
    BY DEF ReaderOK
  <2>2. \A rows : Answered(rows).ordered = reader.ordered
    BY <2>1 DEF Answered, ReaderFields
  <2> QED
    BY <1>2, <2>1, <2>2 DEF Reads, Ask, Serve, ReadMutes, Fetch, Filter, Answer,
                            AnswerWithoutReplies, ReaderFields
<1>3. reader'.ordered = reader.ordered
  BY <1>2, TimelineKinds DEF Nothing
<1> QED
  BY <1>1, <1>3 DEF IsOneOrder

\* A finite sequence of naturals has a greatest.
LEMMA Greatest ==
    ASSUME NEW n \in Nat \ {0}, NEW f \in [1..n -> Nat]
    PROVE  \E i \in 1..n : \A j \in 1..n : f[j] <= f[i]
<1> DEFINE Bad == {m \in 1..n : ~ \E i \in 1..m : \A j \in 1..m : f[j] <= f[i]}
<1>1. SUFFICES ASSUME Bad # {} PROVE FALSE
  <2>1. n \in 1..n
    OBVIOUS
  <2> QED
    BY <2>1
<1>2. PICK m \in Bad : \A k \in Bad : m <= k
  <2>1. Bad \in SUBSET Nat
    OBVIOUS
  <2> HIDE DEF Bad
  <2> QED
    BY <1>1, <2>1, Smallest
<1>3. m \in 1..n /\ m \in Nat /\ ~ \E i \in 1..m : \A j \in 1..m : f[j] <= f[i]
  OBVIOUS
<1>4. m # 1
  <2>1. f[1] \in Nat
    OBVIOUS
  <2> QED
    BY <1>3, <2>1
<1>5. m - 1 \in 1..n /\ ~(m <= m - 1)
  BY <1>3, <1>4
<1>6. m - 1 \notin Bad
  <2> HIDE DEF Bad
  <2> QED
    BY <1>2, <1>5
<1>7. PICK i \in 1..(m - 1) : \A j \in 1..(m - 1) : f[j] <= f[i]
  BY <1>5, <1>6
<1> HIDE DEF Bad
<1>8. i \in 1..m /\ f[i] \in Nat /\ f[m] \in Nat /\ m \in 1..m
      /\ \A j \in 1..m : f[j] \in Nat /\ (j = m \/ j \in 1..(m - 1))
  BY <1>3, <1>5, <1>7
<1>9. CASE f[m] <= f[i]
  BY <1>3, <1>7, <1>8, <1>9
<1>10. CASE ~(f[m] <= f[i])
  <2>1. ASSUME NEW j \in 1..m PROVE f[j] <= f[m]
    <3>1. f[j] \in Nat /\ (j = m \/ f[j] <= f[i])
      BY <1>7, <1>8
    <3> QED
      BY <1>8, <1>10, <3>1
  <2> QED
    BY <1>3, <1>8, <2>1
<1> QED
  BY <1>9, <1>10

LEMMA PageStart == TimelineInit => TablesOK /\ ReaderOK /\ (IsOneOrder => PageInv)
<1> SUFFICES ASSUME TimelineInit
             PROVE  TablesOK /\ ReaderOK /\ (IsOneOrder => PageInv)
  OBVIOUS
<1>1. TablesOK /\ ReaderOK
  BY MutedStart DEF MutedInv
<1>2. PICK limit \in Limits, min \in {0, 1}, ordered \in BOOLEAN :
          /\ reader = Resting(limit, min, ordered)
          /\ ordered => \A p \in Ids : row[p].time = 2 * p
  BY DEF TimelineInit
<1>3. /\ reader.at = "rest" /\ reader.kept = <<>> /\ reader.cursor = 0 /\ reader.shown = <<>>
      /\ reader.ordered = ordered
  BY <1>2 DEF Resting
<1>4. SizesInv
  BY <1>1, <1>3 DEF SizesInv
<1>5. marks \in [1..MaxId -> Nat] /\ lastMark = Max(ToSet(marks)) /\ view \in Views
      /\ MaxId \in Nat \ {0}
  BY TimelinesAssumption DEF TimelineInit, IsTable
<1>6. lastMark \in Nat /\ \A p \in 1..MaxId : marks[p] <= lastMark
  <2>1. PICK i \in 1..MaxId : \A j \in 1..MaxId : marks[j] <= marks[i]
    BY <1>5, Greatest
  <2>2. /\ \A x \in ToSet(marks) : x \in Nat /\ \E j \in 1..MaxId : x = marks[j]
        /\ \A j \in 1..MaxId : marks[j] \in ToSet(marks)
    BY <1>5 DEF ToSet
  <2>3. \E x \in ToSet(marks) : \A y \in ToSet(marks) : x >= y
    BY <2>1, <2>2
  <2>4. lastMark \in ToSet(marks) /\ \A y \in ToSet(marks) : lastMark >= y
    BY <1>5, <2>3 DEF Max
  <2> QED
    BY <2>2, <2>4
<1>7. IsOneOrder => OrderOK
  BY <1>1, <1>2, <1>3, <1>5, <1>6 DEF OrderOK, MarksOK
<1>8. PageOK(reader)
  BY <1>3, EmptyIsSeq DEF PageOK, ShownOK, GotOK, BelowOK, RowsOK, IsInjective
<1> QED
  BY <1>1, <1>4, <1>7, <1>8 DEF PageInv

\* A client that reads down a timeline in one order has no row twice, whatever is
\* posted, deleted, muted, marked or unmarked between and within its pages, as long
\* as the row that a page ended at keeps its mark.
THEOREM NothingTwiceHolds == TimelineSpec => []NothingTwice
<1> DEFINE Inv == TablesOK /\ ReaderOK /\ (IsOneOrder => PageInv)
<1>1. TimelineInit => Inv
  BY PageStart
<1>2. Inv /\ [TimelineNext]_timelineVars => Inv'
  <2> SUFFICES ASSUME Inv, [TimelineNext]_timelineVars PROVE Inv'
    OBVIOUS
  <2>1. TablesOK' /\ ReaderOK'
    BY TablesStep, ReaderStep
  <2>2. IsOneOrder' => PageInv'
    BY OrderIsKept, PageStep
  <2> QED
    BY <2>1, <2>2
<1>3. Inv => NothingTwice
  BY DEF PageInv, PageOK, ShownOK, NothingTwice
<1> QED
  BY <1>1, <1>2, <1>3, PTL DEF TimelineSpec

-----------------------------------------------------------------------------
(* Nothing is missed.                                                      *)

LEMMA ShownIsLive ==
    ASSUME OrderOK, NEW p, Shows(p) PROVE Live(p) /\ p \in Ids /\ p \in Rows /\ Above(p)
<1>1. view \in MarkViews \cup IdViews \cup TimeViews
  BY TimelinesAssumption DEF OrderOK, MarksOK
<1>2. p \in Rows /\ Above(p) /\ p \in Ids /\ (view \in MarkViews => Marked(p))
  BY <1>1 DEF Shows, Rows, OrderOK, TablesOK, MarkViews, IdViews, TimeViews
<1> QED
  BY <1>2 DEF Live, Marked

\* A row that is shown is not dropped.
LEMMA ShownIsKept ==
    ASSUME StayInv, reader.at = "filter", NEW p \in stayed
    PROVE  RootOf(p) \notin reader.mutes /\ Keeps(p)
  BY DEF StayInv, Shows

LEMMA CoverAsk ==
    ASSUME ReaderOK, Ask, NEW r, r = reader', NEW p, Covered(reader, p)
    PROVE  Covered(r, p)
<1>1. /\ reader.at = "rest" /\ r.at = "begin" /\ r.below = reader.cursor
      /\ r.shown = reader.shown /\ r.done = reader.done
  BY AskFields
<1> QED
  BY <1>1 DEF Covered, Ahead

LEMMA CoverMutes ==
    ASSUME ReaderOK, ReadMutes, NEW r, r = reader', NEW p, Covered(reader, p)
    PROVE  Covered(r, p)
<1>1. /\ reader.at = "begin" /\ r.at = "fetch" /\ r.below = reader.below
      /\ r.found = reader.found /\ r.kept = reader.kept
      /\ r.shown = reader.shown /\ r.done = reader.done
  BY MutesFields
<1> QED
  BY <1>1 DEF Covered, Ahead

LEMMA CoverFetch ==
    ASSUME PageInv, StayInv, PageOK(reader), Fetch, NEW r, r = reader',
           NEW p \in stayed, Covered(reader, p)
    PROVE  Covered(r, p)
<1>0. OrderOK /\ SizesInv /\ ReaderOK
  BY DEF PageInv, SizesInv
<1>1. PICK rows : rows = Page(reader.below, reader.size)
  OBVIOUS
<1>2. /\ reader.at = "fetch"
      /\ IF Whole THEN r.at = "found" /\ r.found = rows
         ELSE /\ r.found = reader.found /\ r.rows = rows
              /\ r.short = (Len(rows) < reader.size)
              /\ r.at \in {"found", "filter"} /\ (r.at = "found" <=> rows = <<>>)
      /\ r.kept = reader.kept /\ r.shown = reader.shown /\ r.limit = reader.limit
      /\ r.done = reader.done
  BY <1>0, <1>1, FetchFields
<1>3. /\ Sorted(rows)
      /\ \A q \in Rows : Above(q) /\ From(reader.below, q) =>
             \/ q \in ToSet(rows)
             \/ Len(rows) = reader.size /\ \A x \in ToSet(rows) : Past(x, q)
  BY <1>0, <1>1, <1>2, FetchedRows
<1>4. p \in Rows /\ Above(p)
  BY <1>0, ShownIsLive DEF StayInv
<1>5. /\ reader.size \in Nat /\ reader.size > 0 /\ ~reader.done
      /\ Whole => reader.found = <<>> /\ reader.size = reader.limit
  BY <1>0, <1>2 DEF SizesInv, ReaderOK
<1>6. Len(rows) \in Nat /\ (rows = <<>> => ToSet(rows) = {} /\ Len(rows) = 0)
  BY <1>3, EmptyIsSeq, SeqSet DEF Sorted
<1>7. rows # <<>> => Last(rows) \in ToSet(rows)
  BY <1>3, SortedLast
<1>8. CASE p \in ToSet(reader.shown) \cup ToSet(reader.kept)
  BY <1>2, <1>8 DEF Covered
<1>9. CASE p \in ToSet(reader.found)
  BY <1>2, <1>5, <1>9, EmptyIsSeq DEF Covered
<1>10. CASE From(reader.below, p)
  <2>1. p \in ToSet(rows) \/ (Len(rows) = reader.size /\ Past(Last(rows), p) /\ rows # <<>>)
    BY <1>3, <1>4, <1>5, <1>6, <1>7, <1>10
  <2>2. CASE Whole
    <3>1. Len(rows) = reader.size => Len(r.found) >= r.limit
      BY <1>2, <1>5, <1>6, <2>2
    <3> QED
      BY <1>2, <1>5, <2>1, <2>2, <3>1 DEF Covered, Ahead
  <2>3. CASE ~Whole
    <3>1. rows # <<>>
      BY <1>6, <2>1
    <3>2. r.at = "filter" /\ r.short = (Len(rows) < reader.size)
      BY <1>2, <2>3, <3>1
    <3>3. ASSUME Len(rows) = reader.size PROVE ~r.short
      <4>1. (Len(rows) < reader.size) = FALSE
        BY <1>5, <3>3
      <4>2. r.short = FALSE
        BY <3>2, <4>1
      <4> QED
        BY <4>2
    <3> QED
      BY <1>2, <1>5, <2>1, <2>3, <3>2, <3>3 DEF Covered, Ahead
  <2> QED
    BY <2>2, <2>3
<1> QED
  BY <1>2, <1>8, <1>9, <1>10 DEF Covered, Ahead

LEMMA CoverFilter ==
    ASSUME PageInv, StayInv, PageOK(reader), Filter, NEW r, r = reader',
           NEW p \in stayed, Covered(reader, p)
    PROVE  Covered(r, p)
<1>0. OrderOK /\ SizesInv /\ ReaderOK
  BY DEF PageInv, SizesInv
<1>1. PICK h, rest : h = Head(reader.rows) /\ rest = Tail(reader.rows)
  OBVIOUS
<1>2. /\ reader.at = "filter" /\ reader.rows # <<>>
      /\ r.found = (IF RootOf(h) \notin reader.mutes /\ Keeps(h)
                    THEN Append(reader.found, h) ELSE reader.found)
      /\ r.rows = rest /\ r.below = (IF rest = <<>> THEN h ELSE reader.below)
      /\ r.at = (IF Len(r.found) >= reader.limit THEN "found"
                 ELSE IF rest # <<>> THEN "filter"
                 ELSE IF reader.short THEN "found" ELSE "fetch")
      /\ r.kept = reader.kept /\ r.shown = reader.shown /\ r.limit = reader.limit
      /\ r.short = reader.short /\ r.done = reader.done
  BY <1>0, <1>1, FilterFields
<1>3. Sorted(reader.found) /\ Sorted(reader.rows) /\ Precedes(reader.found, reader.rows)
  BY <1>2 DEF PageOK, GotOK, RowsOK
<1>4. /\ Live(h) /\ ToSet(reader.rows) = {h} \cup ToSet(rest) /\ Sorted(rest)
      /\ \A q \in ToSet(rest) : Past(h, q)
      /\ IF rest = <<>> THEN Last(reader.rows) = h
                        ELSE Last(reader.rows) = Last(rest) /\ Last(reader.rows) \in ToSet(rest)
  <2>1. PICK rows : rows = reader.rows
    OBVIOUS
  <2>2. rows # <<>> /\ Sorted(rows) /\ h = Head(rows) /\ rest = Tail(rows)
    BY <1>1, <1>2, <1>3, <2>1
  <2> QED
    BY <2>1, <2>2, SortedTail
<1>5. /\ Sorted(Append(reader.found, h))
      /\ ToSet(Append(reader.found, h)) = ToSet(reader.found) \cup {h}
      /\ Last(Append(reader.found, h)) = h
  <2>1. \A q \in ToSet(reader.found) : Past(q, h)
    BY <1>3, <1>4 DEF Precedes
  <2> QED
    BY <1>3, <1>4, <2>1, SortedAppend
<1>6. /\ ToSet(reader.found) \subseteq ToSet(r.found)
      /\ h \in stayed => h \in ToSet(r.found)
  BY <1>2, <1>5, ShownIsKept
<1>7. Len(reader.found) < reader.limit /\ ~reader.done
  BY <1>0, <1>2 DEF SizesInv
<1>8. Len(reader.found) \in Nat /\ reader.limit \in Nat
  BY <1>0, <1>3, SeqSet, LimitsAndSizes DEF Sorted
<1>9. Len(r.found) >= reader.limit => Last(r.found) = h
  BY <1>2, <1>5, <1>7, <1>8
<1>10. r.at # "rest" /\ r.done = reader.done
  BY <1>2
<1>11. CASE p \in ToSet(reader.shown) \cup ToSet(reader.kept) \cup ToSet(reader.found) \cup {h}
  BY <1>2, <1>6, <1>10, <1>11 DEF Covered
<1>12. CASE \/ p \in ToSet(rest)
            \/ ~reader.short /\ Past(Last(reader.rows), p)
  <2>1. Live(p) /\ p \in Ids
    BY <1>0, ShownIsLive DEF StayInv
  <2>2. Past(h, p)
    <3>1. CASE p \in ToSet(rest)
      BY <1>4, <3>1
    <3>2. CASE Past(Last(reader.rows), p)
      <4>1. Last(reader.rows) = h \/ (Past(h, Last(reader.rows)) /\ Live(Last(reader.rows)))
        BY <1>4 DEF Sorted
      <4>2. h \in Ids
        BY <1>4 DEF Live
      <4> QED
        BY <1>0, <2>1, <3>2, <4>1, <4>2, PastIsOrder
    <3> QED
      BY <1>12, <3>1, <3>2
  <2>3. CASE Len(r.found) >= reader.limit
    <3>1. r.at = "found" /\ Len(r.found) >= r.limit /\ Past(Last(r.found), p)
      BY <1>2, <1>9, <2>2, <2>3
    <3> QED
      BY <1>7, <1>10, <3>1 DEF Covered, Ahead
  <2>4. CASE ~(Len(r.found) >= reader.limit) /\ rest # <<>>
    <3>1. r.at = "filter" /\ Last(r.rows) = Last(reader.rows) /\ r.short = reader.short
      BY <1>2, <1>4, <2>4
    <3> QED
      BY <1>2, <1>7, <1>12, <3>1 DEF Covered, Ahead
  <2>5. CASE ~(Len(r.found) >= reader.limit) /\ rest = <<>>
    <3>1. ~reader.short
      BY <1>12, <2>5, EmptyIsSeq
    <3>2. r.at = "fetch" /\ r.below = h
      BY <1>2, <2>5, <3>1
    <3> QED
      BY <1>7, <1>10, <2>2, <3>2 DEF Covered, Ahead, From
  <2> QED
    BY <2>3, <2>4, <2>5
<1>13. \/ p \in ToSet(reader.shown) \cup ToSet(reader.kept) \cup ToSet(reader.found) \cup {h}
       \/ p \in ToSet(rest) \/ (~reader.short /\ Past(Last(reader.rows), p))
  BY <1>2, <1>4 DEF Covered, Ahead
<1> QED
  BY <1>11, <1>12, <1>13

\* The rows are the client's, and what is past them is to come.
LEMMA CoverAnswered ==
    ASSUME OrderOK, ReaderOK, PageOK(reader),
           NEW rows, Sorted(rows), \A q \in ToSet(rows) : From(reader.cursor, q),
           reader' = Answered(rows), NEW r, r = reader',
           NEW p, \/ p \in ToSet(reader.shown) \cup ToSet(rows)
                  \/ Len(rows) >= reader.limit /\ Past(Last(rows), p)
    PROVE  Covered(r, p)
<1>1. /\ r.at = "rest"
      /\ r.cursor = (IF rows = <<>> THEN reader.cursor ELSE Last(rows))
      /\ r.done = (Len(rows) < reader.limit)
  BY AnsweredFields
<1>2. ToSet(r.shown) = ToSet(reader.shown) \cup ToSet(rows)
  BY PageAnswered
<1>3. Len(rows) \in Nat /\ (rows = <<>> => Len(rows) = 0)
      /\ reader.limit \in Nat /\ reader.limit > 0
  BY SeqSet, LimitsAndSizes DEF Sorted
<1>4. CASE p \in ToSet(reader.shown) \cup ToSet(rows)
  BY <1>2, <1>4 DEF Covered
<1>5. CASE Len(rows) >= reader.limit /\ Past(Last(rows), p)
  <2>1. rows # <<>> /\ ~(Len(rows) < reader.limit)
    BY <1>3, <1>5
  <2>2. r.cursor = Last(rows) /\ ~r.done
    BY <1>1, <2>1
  <2> QED
    BY <1>1, <1>5, <2>2 DEF Covered, Ahead, From
<1> QED
  BY <1>4, <1>5

LEMMA CoverAnswer ==
    ASSUME PageInv, StayInv, PageOK(reader), Answer, NEW r, r = reader',
           NEW p \in stayed, Covered(reader, p)
    PROVE  Covered(r, p)
<1>0. OrderOK /\ SizesInv /\ ReaderOK
  BY DEF PageInv, SizesInv
<1>1. reader.at = "found" /\ reader' = Answered(reader.found) /\ reader.kept = <<>>
  BY <1>0 DEF Answer, SizesInv
<1>2. Sorted(reader.found) /\ \A q \in ToSet(reader.found) : From(reader.cursor, q)
  BY <1>1 DEF PageOK, GotOK
<1>3. \/ p \in ToSet(reader.shown) \cup ToSet(reader.found)
      \/ Len(reader.found) >= reader.limit /\ Past(Last(reader.found), p)
  BY <1>1, EmptyIsSeq DEF Covered, Ahead
<1> QED
  BY <1>0, <1>1, <1>2, <1>3, CoverAnswered

LEMMA CoverReplies ==
    ASSUME PageInv, StayInv, PageOK(reader), AnswerWithoutReplies, NEW r, r = reader',
           NEW p \in stayed, Covered(reader, p)
    PROVE  Covered(r, p)
<1>0. OrderOK /\ SizesInv /\ ReaderOK
  BY DEF PageInv, SizesInv
<1>1. PICK kept : kept = Kept
  OBVIOUS
<1>2. reader.at = "found" /\ view = "listNone"
  BY <1>0, RepliesFields
<1>3. /\ Sorted(kept) /\ ToSet(kept) \subseteq ToSet(reader.kept) \cup ToSet(reader.found)
      /\ Len(kept) \in Nat /\ Len(kept) <= reader.limit
      /\ \A q \in ToSet(reader.kept) \cup RootRows :
             q \in ToSet(kept) \/ (Len(kept) = reader.limit /\ Past(Last(kept), q))
  BY <1>0, <1>1, <1>2, ListedRoots
<1>4. /\ Sorted(reader.kept) /\ Sorted(reader.found) /\ Precedes(reader.kept, reader.found)
      /\ \A q \in ToSet(reader.kept) \cup ToSet(reader.found) : From(reader.cursor, q)
  BY <1>2 DEF PageOK, GotOK
<1>5. Live(p) /\ p \in Ids /\ IsNoReply(p)
  BY <1>0, <1>2, ShownIsLive DEF StayInv, Shows
<1>6. reader.limit \in Nat /\ reader.limit > 0 /\ Len(reader.found) \in Nat
  BY <1>0, <1>4, SeqSet, LimitsAndSizes DEF Sorted
<1>7. \/ p \in ToSet(reader.shown)
      \/ p \in ToSet(reader.kept) \cup RootRows
      \/ ~reader.done /\ Len(reader.found) >= reader.limit /\ Past(Last(reader.found), p)
  BY <1>2, <1>5 DEF Covered, Ahead, RootRows
<1>8. ASSUME Len(kept) = reader.limit, Len(reader.found) >= reader.limit,
             Past(Last(reader.found), p)
      PROVE  Past(Last(kept), p)
  <2>1. kept # <<>> /\ reader.found # <<>>
    BY <1>6, <1>8
  <2>2. /\ Last(reader.found) \in ToSet(reader.found) /\ Live(Last(reader.found))
        /\ \A q \in ToSet(reader.found) : q = Last(reader.found) \/ Past(q, Last(reader.found))
    BY <1>4, <2>1, SortedLast
  <2>3. Last(kept) \in ToSet(kept) /\ Last(kept) \in Ids
    BY <1>3, <2>1, SortedLast DEF Live
  <2>4. Last(kept) = Last(reader.found) \/ Past(Last(kept), Last(reader.found))
    BY <1>3, <1>4, <2>2, <2>3 DEF Precedes
  <2> QED
    BY <1>0, <1>5, <1>8, <2>2, <2>3, <2>4, PastIsOrder
<1>9. CASE Len(kept) = reader.limit \/ Len(reader.found) < reader.limit
  <2>1. reader' = Answered(kept)
    BY <1>0, <1>1, <1>9, RepliesFields
  <2>2. \/ p \in ToSet(reader.shown) \cup ToSet(kept)
        \/ Len(kept) = reader.limit /\ Past(Last(kept), p)
    BY <1>3, <1>6, <1>7, <1>8, <1>9
  <2>3. \/ p \in ToSet(reader.shown) \cup ToSet(kept)
        \/ Len(kept) >= reader.limit /\ Past(Last(kept), p)
    BY <1>6, <2>2
  <2>4. \A q \in ToSet(kept) : From(reader.cursor, q)
    BY <1>3, <1>4
  <2> QED
    BY <1>0, <1>3, <2>1, <2>3, <2>4, CoverAnswered
<1>10. CASE ~(Len(kept) = reader.limit \/ Len(reader.found) < reader.limit)
  <2>1. /\ r.at = "begin" /\ r.kept = kept /\ r.found = <<>>
        /\ r.below = Last(reader.found) /\ r.shown = reader.shown /\ r.done = reader.done
    BY <1>0, <1>1, <1>10, RepliesFields
  <2>2. \/ p \in ToSet(reader.shown) \cup ToSet(kept)
        \/ ~reader.done /\ Past(Last(reader.found), p)
    BY <1>3, <1>7, <1>10
  <2> QED
    BY <2>1, <2>2 DEF Covered, Ahead, From
<1> QED
  BY <1>9, <1>10

LEMMA CoverMeanwhile ==
    ASSUME OrderOK, OrderOK', Grown, SizesInv, PageOK(reader),
           Meanwhile, [TimelineNext]_timelineVars, ~moved', NEW r, r = reader,
           NEW p, Live(p), Live(p)', Covered(r, p)
    PROVE  Covered(r, p)'
<1>1. \A c \in Ids : Past(c, p) => Past(c, p)'
  BY PastStays
<1>2. SUFFICES ASSUME ~r.done, Ahead(r, p) PROVE Ahead(r, p)'
  BY DEF Covered
<1>3. r.cursor # 0 => r.cursor \in Ids
  BY DEF PageOK, ShownOK, Live
<1>4. CASE r.at = "rest"
  BY <1>1, <1>2, <1>3, <1>4 DEF Ahead, From
<1>5. CASE r.at \in {"begin", "fetch"}
  <2>1. r.below # 0 => r.below \in Ids
    BY <1>5 DEF PageOK, BelowOK, Live
  <2> QED
    BY <1>1, <1>2, <1>5, <2>1 DEF Ahead, From
<1>6. CASE r.at = "filter"
  <2>1. r.rows # <<>> /\ Sorted(r.rows)
    BY <1>6 DEF SizesInv, ReaderOK, PageOK, RowsOK
  <2>2. Last(r.rows) \in Ids
    BY <2>1, SortedLast DEF Live
  <2> QED
    BY <1>1, <1>2, <1>6, <2>2 DEF Ahead
<1>7. CASE r.at = "found"
  <2>1. Sorted(r.found) /\ Len(r.found) >= r.limit /\ Past(Last(r.found), p)
    BY <1>2, <1>7 DEF PageOK, GotOK, Ahead
  <2>2. r.found # <<>>
    BY <2>1, LimitsAndSizes DEF SizesInv
  <2>3. Last(r.found) \in Ids
    BY <2>1, <2>2, SortedLast DEF Live
  <2> QED
    BY <1>1, <1>7, <2>1, <2>3 DEF Ahead
<1>8. r.at \in {"rest", "begin", "fetch", "filter", "found"}
  BY DEF SizesInv
<1> QED
  BY <1>4, <1>5, <1>6, <1>7, <1>8

LEMMA CoverStep ==
    ASSUME CoverInv, [TimelineNext]_timelineVars PROVE CoverInv'
<1>0. PageInv /\ PageInv' /\ StayInv /\ StayInv'
  BY PageStep, StayStep DEF CoverInv
<1>1. OrderOK /\ OrderOK' /\ Grown /\ SizesInv /\ ReaderOK
  BY <1>0, TablesStep DEF PageInv, SizesInv
<1>2. SUFFICES ASSUME ~moved', NEW p \in stayed' PROVE Covered(reader, p)'
  BY <1>0 DEF CoverInv
<1>3. moved => moved'
  BY TimelineKinds DEF Nothing, Meanwhile, Post, Erase, Mute, Unmute, Mark, Unmark, Pin,
                       AddToList, RemoveFromList, Loses
<1>4. p \in stayed /\ PageOK(reader) /\ Covered(reader, p)
  BY <1>2, <1>3, TimelineKinds DEF CoverInv, PageInv
<1>5. PICK r : r = reader'
  OBVIOUS
<1>6. CASE Reads
  <2>1. Covered(r, p)
    BY <1>0, <1>1, <1>4, <1>5, <1>6, CoverAsk, CoverMutes, CoverFetch, CoverFilter,
       CoverAnswer, CoverReplies DEF Reads, Serve
  <2>2. UNCHANGED <<view, row, marks, lastMark>>
    BY <1>6, TimelineKinds DEF tables
  <2> QED
    BY <1>5, <2>1, <2>2 DEF Covered, Ahead, From, Past
<1>7. CASE Nothing
  <2>1. UNCHANGED <<view, row, marks, lastMark>> /\ reader' = reader
    BY <1>7 DEF Nothing, tables
  <2> QED
    BY <1>4, <2>1 DEF Covered, Ahead, From, Past
<1>8. CASE Meanwhile
  <2>1. r = reader
    BY <1>5, <1>8, TimelineKinds
  <2>2. Live(p)
    BY <1>0, <1>1, <1>4, ShownIsLive DEF StayInv
  <2>3. Live(p)'
    <3>1. Shows(p)'
      BY <1>0, <1>2 DEF StayInv
    <3>2. /\ p \in standing'
          /\ view \in MarkViews /\ view' = view => marks'[p] > 0
      BY <3>1, TimelinesAssumption
         DEF Shows, Rows, Marked, MarkViews, IdViews, TimeViews
    <3> QED
      BY <1>0, <1>1, <3>2, TimelineKinds DEF Live, StayInv, TablesOK, Nothing
  <2>4. Covered(r, p)'
    BY <1>1, <1>2, <1>4, <1>8, <2>1, <2>2, <2>3, CoverMeanwhile
  <2> QED
    BY <1>5, <2>4 DEF Covered, Ahead
<1> QED
  BY <1>6, <1>7, <1>8, TimelineKinds

LEMMA CoverStart == TimelineInit => (IsOneOrder => CoverInv)
<1> SUFFICES ASSUME TimelineInit, IsOneOrder PROVE CoverInv
  OBVIOUS
<1>1. PageInv /\ TablesOK /\ ReaderOK
  BY PageStart
<1>2. PICK limit \in Limits, min \in {0, 1}, ordered \in BOOLEAN :
          reader = Resting(limit, min, ordered)
  BY DEF TimelineInit
<1>3. reader.at = "rest" /\ reader.cursor = 0 /\ reader.mutes = {} /\ ~reader.done
  BY <1>2 DEF Resting
<1>4. StayInv
  BY <1>1, <1>3 DEF StayInv, TimelineInit
<1> QED
  BY <1>1, <1>3, <1>4 DEF CoverInv, Covered, Ahead, From

\* A client that reads down such a timeline until a page is short has seen every row
\* that was in it all the time: none falls between two pages, or between two queries
\* of one page, and none is dropped with the muted.
THEOREM NothingIsMissedHolds == TimelineSpec => []NothingIsMissed
<1> DEFINE Inv == TablesOK /\ ReaderOK /\ (IsOneOrder => CoverInv)
<1>1. TimelineInit => Inv
  BY PageStart, CoverStart
<1>2. Inv /\ [TimelineNext]_timelineVars => Inv'
  <2> SUFFICES ASSUME Inv, [TimelineNext]_timelineVars PROVE Inv'
    OBVIOUS
  <2>1. TablesOK' /\ ReaderOK'
    BY TablesStep, ReaderStep
  <2>2. IsOneOrder' => CoverInv'
    BY OrderIsKept, CoverStep
  <2> QED
    BY <2>1, <2>2
<1>3. Inv => NothingIsMissed
  <2> SUFFICES ASSUME Inv, reader.done, IsOneOrder, ~moved, NEW p \in stayed
               PROVE  p \in ToSet(reader.shown)
    BY DEF NothingIsMissed
  <2>1. reader.at = "rest" /\ Covered(reader, p)
    BY DEF CoverInv, PageInv, SizesInv
  <2> QED
    BY <2>1 DEF Covered
<1> QED
  BY <1>1, <1>2, <1>3, PTL DEF TimelineSpec

==============================================================================
