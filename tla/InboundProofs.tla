---------------------------- MODULE InboundProofs ----------------------------
(***************************************************************************)
(* Proofs about what comes into the server, for any number of actors,      *)
(* deliveries and activities.                                              *)
(*                                                                         *)
(* The followers (FollowHandshake).  An accepted follow stays in the       *)
(* table, whatever is delivered twice, late or out of order, and whatever  *)
(* faults happen, as long as every Undo names its Follow: an Undo of the   *)
(* Follow an actor last issued exists only when the actor has stopped      *)
(* following (IsOver).  Without faults, and with senders that wait, what   *)
(* both sides have settled is the same: every difference between them is   *)
(* an activity that is still posted or a handler that still works on it.   *)
(*                                                                         *)
(* The limiter (RateLimiter).  The counter of a domain is never less than  *)
(* what was admitted in its window, so two windows that follow each other  *)
(* let no more than twice the limit through.                               *)
(*                                                                         *)
(* The inbox (Inbox).  A request that has passed the signature is one a    *)
(* key of the actor was put to, and what it did was signed; the block is   *)
(* asked before the effect; a notification is made by one request at one   *)
(* step; a deleted post is neither in the cache nor, unless the owner's    *)
(* copy was on its way, in the table.                                      *)
(***************************************************************************)
EXTENDS FollowHandshake, Inbox, FiniteSetTheorems, SequenceTheorems, TLAPS

-----------------------------------------------------------------------------
(* The followers.                                                          *)

UndosNameTheirFollow == software.undo # "bare"

\* A handler works on an activity of the kind its place in the code is for.
HandlerTypes ==
    \A h \in Handlers :
        /\ pc[h] \in {"insert", "notify", "accept"} => act[h] \in Follows
        /\ pc[h] \in {"match", "remove"} => act[h] \in Undos
        /\ pc[h] # "idle" => act[h] \in Activities

\* Activities name their Follow, one that was issued, and an Undo of the last one
\* means that the actor follows no more.
IsOver(m) ==
    /\ m.form # "bare"
    /\ m.n <= issued[m.actor]
    /\ m.kind = "Undo" /\ m.n = issued[m.actor] => ~following[m.actor]

ActivitiesAreIssued ==
    /\ \A a \in Actors : following[a] => issued[a] \in Ids
    /\ \A m \in outbox : IsOver(m)
    /\ \A h \in Handlers : pc[h] # "idle" => IsOver(act[h])
    /\ \A a \in Actors : \A n \in accepted[a] : n <= issued[a]

\* Between the insert and the Accept the row is there.
InsertedIsFollower ==
    \A h \in Handlers :
        LET m == act[h] IN
        pc[h] \in {"notify", "accept"} /\ following[m.actor] /\ m.n = issued[m.actor]
            => follower[m.actor] = m.n

IInv == /\ TypeOK /\ HandlerTypes /\ ActivitiesAreIssued /\ InsertedIsFollower
        /\ AcceptedIsFollower

-----------------------------------------------------------------------------
\* A Follow is not an Undo.
LEMMA Kinds ==
    /\ \A m \in Follows : m.kind = "Follow" /\ m.actor \in Actors /\ m.n \in Ids
    /\ \A m \in Undos : m.kind = "Undo" /\ m.actor \in Actors /\ m.n \in Ids
    /\ \A m \in Activities : m.actor \in Actors /\ m.n \in Ids
  BY DEF Follows, Undos, Activities

LEMMA TypeInit == Init => TypeOK
  BY FollowAssumption DEF Init, TypeOK, PCs, Ids

LEMMA InitInv == Init => IInv
<1> SUFFICES ASSUME Init PROVE IInv
  OBVIOUS
<1>1. TypeOK
  BY TypeInit
<1> QED
  BY <1>1 DEF Init, IInv, HandlerTypes, ActivitiesAreIssued, InsertedIsFollower,
              AcceptedIsFollower

LEMMA StepInv == IInv /\ UndosNameTheirFollow /\ [Next]_vars => IInv'
<1> SUFFICES ASSUME IInv, UndosNameTheirFollow, [Next]_vars PROVE IInv'
  OBVIOUS
<1>a. TypeOK /\ HandlerTypes /\ ActivitiesAreIssued /\ InsertedIsFollower
      /\ AcceptedIsFollower
  BY DEF IInv
<1> USE Kinds
<1>1. ASSUME NEW a \in Actors, IssueFollow(a) PROVE IInv'
  <2>m. PICK m : m = [kind |-> "Follow", actor |-> a, n |-> issued[a] + 1, form |-> "id"]
    OBVIOUS
  <2>0. /\ ~following[a] /\ issued[a] < MaxFollows
        /\ issued' = [issued EXCEPT ![a] = @ + 1]
        /\ following' = [following EXCEPT ![a] = TRUE]
        /\ outbox' = outbox \cup {m}
        /\ UNCHANGED <<software, accepted, follower, notified, act, pc, faults>>
    BY <1>1, <2>m DEF IssueFollow
  <2>1. issued[a] \in 0..MaxFollows /\ issued[a] + 1 \in Ids
    BY <2>0, <1>a, FollowAssumption DEF TypeOK, Ids
  <2>2. m \in Activities
    BY <2>1, <2>m DEF Activities, Follows
  <2>3. TypeOK'
    <3>1. issued' \in [Actors -> 0..MaxFollows]
      <4>1. issued[a] + 1 \in 0..MaxFollows
        BY <2>1, FollowAssumption DEF Ids
      <4> QED
        BY <4>1, <2>0, <1>a DEF TypeOK
    <3> QED
      BY <3>1, <2>0, <2>2, <1>a DEF TypeOK
  <2>4. HandlerTypes'
    BY <2>0, <1>a DEF HandlerTypes
  <2>5. ASSUME NEW x \in Activities, IsOver(x) PROVE IsOver(x)'
    <3>1. x.actor \in Actors /\ x.n \in Nat /\ issued[x.actor] \in Nat
      BY <1>a, FollowAssumption DEF TypeOK, Ids
    <3>2. CASE x.actor = a
      <4>1. issued'[a] = issued[a] + 1 /\ following'[a]
        BY <2>0, <1>a DEF TypeOK
      <4>2. x.n <= issued[a]
        BY <3>2, <2>5 DEF IsOver
      <4>3. x.n <= issued[a] + 1 /\ x.n # issued[a] + 1
        BY <4>2, <3>1, <3>2
      <4> QED
        BY <4>1, <4>3, <3>2, <2>5 DEF IsOver
    <3>3. CASE x.actor # a
      <4>1. issued'[x.actor] = issued[x.actor] /\ following'[x.actor] = following[x.actor]
        BY <2>0, <3>1, <3>3, <1>a DEF TypeOK
      <4> QED
        BY <4>1, <2>5 DEF IsOver
    <3> QED
      BY <3>2, <3>3
  <2>6. ActivitiesAreIssued'
    <3>1. IsOver(m)'
      <4>1. m.actor = a /\ m.n = issued[a] + 1 /\ m.kind = "Follow" /\ m.form = "id"
        BY <2>m
      <4>2. issued'[a] = issued[a] + 1
        BY <2>0, <1>a DEF TypeOK
      <4>3. issued[a] + 1 <= issued[a] + 1
        BY <2>1
      <4> QED
        BY <4>1, <4>2, <4>3 DEF IsOver
    <3>2. \A x \in outbox' : IsOver(x)'
      <4>1. \A x \in outbox : x \in Activities /\ IsOver(x)
        BY <1>a DEF ActivitiesAreIssued, TypeOK
      <4>2. \A x \in outbox : IsOver(x)'
        BY <4>1, <2>5
      <4> QED
        BY <4>2, <3>1, <2>0
    <3>3. \A h \in Handlers : pc'[h] # "idle" => IsOver(act[h])'
      BY <2>0, <2>5, <1>a DEF ActivitiesAreIssued, HandlerTypes
    <3>5. \A b \in Actors : following'[b] => issued'[b] \in Ids
      BY <2>0, <2>1, <1>a DEF ActivitiesAreIssued, TypeOK
    <3>4. \A b \in Actors : \A n \in accepted'[b] : n <= issued'[b]
      BY <2>0, <2>1, <1>a DEF ActivitiesAreIssued, TypeOK, Ids
    <3> QED
      BY <2>0, <3>2, <3>3, <3>4, <3>5 DEF ActivitiesAreIssued
  <2>7. InsertedIsFollower'
    <3> SUFFICES ASSUME NEW h \in Handlers, pc[h] \in {"notify", "accept"},
                        following'[act[h].actor], act[h].n = issued'[act[h].actor]
                 PROVE  follower[act[h].actor] = act[h].n
      BY <2>0 DEF InsertedIsFollower
    <3>1. act[h] \in Activities /\ IsOver(act[h])
      BY <1>a DEF HandlerTypes, ActivitiesAreIssued
    <3>2. act[h].actor # a
      BY <3>1, <2>0, <2>1, <1>a DEF IsOver, TypeOK, Ids
    <3> QED
      BY <3>1, <3>2, <2>0, <1>a DEF InsertedIsFollower, TypeOK
  <2>8. AcceptedIsFollower'
    <3>1. issued'[a] \notin accepted[a]
      BY <2>0, <2>1, <1>a DEF ActivitiesAreIssued, TypeOK, Ids
    <3> QED
      BY <3>1, <2>0, <1>a DEF AcceptedIsFollower, TypeOK
  <2> QED
    BY <2>3, <2>4, <2>6, <2>7, <2>8 DEF IInv
<1>2. ASSUME NEW a \in Actors, IssueUndo(a) PROVE IInv'
  <2>f. PICK f : f = software.undo
    OBVIOUS
  <2>0. /\ following[a]
        /\ following' = [following EXCEPT ![a] = FALSE]
        /\ outbox' = outbox \cup
              {[kind |-> "Undo", actor |-> a, n |-> issued[a], form |-> f]}
        /\ UNCHANGED <<software, issued, accepted, follower, notified, act, pc, faults>>
    BY <1>2, <2>f DEF IssueUndo
  <2>m. PICK m : m = [kind |-> "Undo", actor |-> a, n |-> issued[a], form |-> f]
    OBVIOUS
  <2>1. issued[a] \in Ids
    BY <2>0, <1>a DEF ActivitiesAreIssued
  <2>2. m \in Activities /\ f # "bare"
    <3>1. f \in {"id", "uri", "bare"}
      BY <2>f, <1>a, FollowAssumption DEF TypeOK
    <3> QED
      BY <3>1, <2>1, <2>m, <2>f DEF Activities, Undos, UndosNameTheirFollow
  <2>3. TypeOK'
    BY <2>0, <2>2, <2>m, <1>a DEF TypeOK
  <2>4. \A x \in Activities : IsOver(x) => IsOver(x)'
    BY <2>0, <1>a DEF IsOver, TypeOK
  <2>5. IsOver(m)'
    <3>1. m.actor = a /\ m.n = issued[a] /\ issued[a] <= issued[a] /\ m.form # "bare"
      BY <2>1, <2>2, <2>m, FollowAssumption DEF Ids
    <3>2. ~following'[a] /\ issued' = issued
      BY <2>0, <1>a DEF TypeOK
    <3> QED
      BY <3>1, <3>2 DEF IsOver
  <2>6. ActivitiesAreIssued'
    <3>1. \A x \in outbox' : IsOver(x)'
      <4>1. outbox' = outbox \cup {m}
        BY <2>0, <2>m
      <4> QED
        BY <4>1, <2>4, <2>5, <1>a DEF ActivitiesAreIssued, TypeOK
    <3>2. \A h \in Handlers : pc'[h] # "idle" => IsOver(act[h])'
      BY <2>0, <2>4, <1>a DEF ActivitiesAreIssued, HandlerTypes
    <3>3. \A b \in Actors : following'[b] => following[b]
      BY <2>0, <1>a DEF TypeOK
    <3> QED
      BY <2>0, <3>1, <3>2, <3>3, <1>a DEF ActivitiesAreIssued
  <2>7. \A b \in Actors : following'[b] => following[b]
    BY <2>0, <1>a DEF TypeOK
  <2>8. InsertedIsFollower' /\ AcceptedIsFollower' /\ HandlerTypes'
    BY <2>0, <2>7, <1>a DEF HandlerTypes, InsertedIsFollower, AcceptedIsFollower
  <2> QED
    BY <2>3, <2>6, <2>8 DEF IInv
<1>3. ASSUME NEW h \in Handlers, NEW m \in outbox, Receive(h, m) PROVE IInv'
  <2>0. /\ pc[h] = "idle" /\ m \in Activities
        /\ act' = [act EXCEPT ![h] = m]
        /\ pc' = [pc EXCEPT ![h] = IF m.kind = "Follow" THEN "insert" ELSE "match"]
        /\ UNCHANGED <<software, issued, following, accepted, outbox, follower, notified, faults>>
    BY <1>3, <1>a DEF Receive, remote, TypeOK
  <2>1. (m.kind = "Follow" => m \in Follows) /\ (m.kind # "Follow" => m \in Undos)
    BY <2>0 DEF Activities
  <2>2. TypeOK'
    <3>1. m # Idle
      BY <2>1 DEF Idle
    <3>2. \A g \in Handlers : pc'[g] = "idle" <=> act'[g] = Idle
      BY <3>1, <2>0, <1>a DEF TypeOK
    <3>3. pc' \in [Handlers -> PCs] /\ act' \in [Handlers -> Activities \cup {Idle}]
      BY <2>0, <1>a DEF TypeOK, PCs
    <3> QED
      BY <3>2, <3>3, <2>0, <1>a DEF TypeOK
  <2>3. HandlerTypes'
    BY <2>0, <2>1, <1>a DEF HandlerTypes, TypeOK
  <2>4. ActivitiesAreIssued'
    BY <2>0, <1>a DEF ActivitiesAreIssued, TypeOK, IsOver
  <2>5. InsertedIsFollower' /\ AcceptedIsFollower'
    BY <2>0, <1>a DEF InsertedIsFollower, AcceptedIsFollower, TypeOK
  <2> QED
    BY <2>2, <2>3, <2>4, <2>5 DEF IInv
<1>4. ASSUME NEW h \in Handlers, InsertFollower(h) PROVE IInv'
  <2> DEFINE a == act[h].actor
  <2>0. /\ pc[h] = "insert" /\ act[h] \in Follows /\ a \in Actors /\ act[h].n \in Ids
        /\ UNCHANGED <<software, issued, following, accepted, outbox, notified, act, faults>>
    BY <1>4, <1>a DEF InsertFollower, remote, HandlerTypes
  <2>1. CASE follower[a] = 0
    <3>1. /\ follower' = [follower EXCEPT ![a] = act[h].n]
          /\ pc' = [pc EXCEPT ![h] = "notify"]
      BY <1>4, <2>1 DEF InsertFollower, Goto
    <3>2. TypeOK'
      BY <2>0, <3>1, <1>a DEF TypeOK, PCs, Ids
    <3>3. HandlerTypes' /\ ActivitiesAreIssued'
      BY <2>0, <3>1, <1>a DEF HandlerTypes, ActivitiesAreIssued, IsOver, TypeOK
    <3>4. \A b \in Actors : follower[b] # 0 => follower'[b] = follower[b]
      BY <2>1, <3>1, <1>a DEF TypeOK
    <3>5. \A n \in Ids : n # 0
      BY DEF Ids
    <3>6. InsertedIsFollower'
      <4> SUFFICES ASSUME NEW g \in Handlers, pc'[g] \in {"notify", "accept"},
                          following[act[g].actor], act[g].n = issued[act[g].actor]
                   PROVE  follower'[act[g].actor] = act[g].n
        BY <2>0 DEF InsertedIsFollower
      <4>1. CASE g = h
        BY <4>1, <2>0, <3>1, <1>a DEF TypeOK
      <4>2. CASE g # h
        <5>1. pc[g] \in {"notify", "accept"} /\ act[g] \in Follows
          BY <4>2, <3>1, <1>a DEF TypeOK, HandlerTypes
        <5>2. follower[act[g].actor] = act[g].n
          BY <5>1, <1>a DEF InsertedIsFollower
        <5> QED
          BY <5>1, <5>2, <3>4, <3>5
      <4> QED
        BY <4>1, <4>2
    <3>7. AcceptedIsFollower'
      <4> SUFFICES ASSUME NEW b \in Actors, following[b], issued[b] \in accepted[b]
                   PROVE  follower'[b] = issued[b]
        BY <2>0, UndosNameTheirFollow DEF AcceptedIsFollower, UndosNameTheirFollow
      <4>1. follower[b] = issued[b] /\ issued[b] \in Ids
        BY <1>a, UndosNameTheirFollow
           DEF AcceptedIsFollower, ActivitiesAreIssued, UndosNameTheirFollow
      <4> QED
        BY <4>1, <3>4, <3>5
    <3> QED
      BY <3>2, <3>3, <3>6, <3>7 DEF IInv
  <2>2. CASE follower[a] # 0
    <3>1. pc' = [pc EXCEPT ![h] = "error"] /\ UNCHANGED follower
      BY <1>4, <2>2 DEF InsertFollower, Goto
    <3> QED
      BY <2>0, <3>1, <1>a DEF IInv, TypeOK, PCs, HandlerTypes, ActivitiesAreIssued,
         IsOver, InsertedIsFollower, AcceptedIsFollower
  <2> QED
    BY <2>1, <2>2
<1>5. ASSUME NEW h \in Handlers, InsertNotification(h) PROVE IInv'
  <2>0. /\ pc[h] = "notify" /\ pc' = [pc EXCEPT ![h] = "accept"]
        /\ UNCHANGED <<software, issued, following, accepted, outbox, follower, act, faults>>
        /\ act[h] \in Follows
    BY <1>5, <1>a DEF InsertNotification, Goto, remote, HandlerTypes
  <2>1. TypeOK'
    BY <2>0, <1>5, <1>a DEF InsertNotification, TypeOK, PCs
  <2> QED
    BY <2>0, <2>1, <1>a DEF IInv, TypeOK, HandlerTypes, ActivitiesAreIssued, IsOver,
       InsertedIsFollower, AcceptedIsFollower
<1>6. ASSUME NEW h \in Handlers, SendAccept(h) PROVE IInv'
  <2> DEFINE a == act[h].actor
  <2>0. /\ pc[h] = "accept" /\ pc' = [pc EXCEPT ![h] = "ok"]
        /\ accepted' = [accepted EXCEPT ![a] = @ \cup {act[h].n}]
        /\ UNCHANGED <<software, issued, following, outbox, follower, notified, act, faults>>
        /\ act[h] \in Follows /\ a \in Actors /\ act[h].n \in Ids
    BY <1>6, <1>a DEF SendAccept, Goto, HandlerTypes
  <2>1. TypeOK'
    BY <2>0, <1>a DEF TypeOK, PCs
  <2>2. act[h].n <= issued[a]
    BY <2>0, <1>a DEF ActivitiesAreIssued, IsOver
  <2>3. HandlerTypes' /\ ActivitiesAreIssued' /\ InsertedIsFollower'
    BY <2>0, <2>2, <1>a DEF TypeOK, HandlerTypes, ActivitiesAreIssued, IsOver,
       InsertedIsFollower
  <2>4. AcceptedIsFollower'
    <3>1. following[a] /\ act[h].n = issued[a] => follower[a] = issued[a]
      BY <2>0, <1>a DEF InsertedIsFollower
    <3> QED
      BY <2>0, <3>1, <1>a DEF AcceptedIsFollower, TypeOK
  <2> QED
    BY <2>1, <2>3, <2>4 DEF IInv
<1>7. ASSUME NEW h \in Handlers, MatchFollower(h) PROVE IInv'
  <2>0. /\ pc[h] = "match" /\ act[h] \in Undos
        /\ \E s \in {"ok", "remove"} : pc' = [pc EXCEPT ![h] = s]
        /\ UNCHANGED <<software, issued, following, accepted, outbox, follower, notified, act, faults>>
    BY <1>7, <1>a DEF MatchFollower, Goto, remote, HandlerTypes
  <2> QED
    BY <2>0, <1>a DEF IInv, TypeOK, PCs, HandlerTypes, ActivitiesAreIssued, IsOver,
       InsertedIsFollower, AcceptedIsFollower
<1>8. ASSUME NEW h \in Handlers, RemoveFollower(h) PROVE IInv'
  <2> DEFINE a == act[h].actor
  <2>0. /\ pc[h] = "remove" /\ act[h] \in Undos /\ a \in Actors
        /\ pc' = [pc EXCEPT ![h] = "ok"]
        /\ follower' = [follower EXCEPT ![a] = IF Undoes(act[h], @) THEN 0 ELSE @]
        /\ UNCHANGED <<software, issued, following, accepted, outbox, notified, act, faults>>
    BY <1>8, <1>a DEF RemoveFollower, Goto, remote, HandlerTypes
  <2>1. TypeOK'
    <3>1. follower'[a] \in {0, follower[a]} /\ 0 \in 0..MaxFollows
      BY <2>0, <1>a, FollowAssumption DEF TypeOK
    <3>2. follower' \in [Actors -> 0..MaxFollows]
      BY <3>1, <2>0, <1>a DEF TypeOK
    <3> QED
      BY <3>2, <2>0, <1>a DEF TypeOK, PCs
  <2>2. HandlerTypes' /\ ActivitiesAreIssued'
    BY <2>0, <1>a DEF TypeOK, HandlerTypes, ActivitiesAreIssued, IsOver
  <2>3. act[h].form # "bare" /\ (act[h].n = issued[a] => ~following[a])
    BY <2>0, <1>a DEF ActivitiesAreIssued, IsOver
  <2>4. Undoes(act[h], follower[a]) => follower[a] = act[h].n
    BY <2>3 DEF Undoes
  <2>5. \A b \in Actors :
            following[b] /\ follower[b] = issued[b] => follower'[b] = follower[b]
    BY <2>0, <2>3, <2>4, <1>a DEF TypeOK
  <2>6. InsertedIsFollower'
    <3> SUFFICES ASSUME NEW g \in Handlers, pc'[g] \in {"notify", "accept"},
                        following[act[g].actor], act[g].n = issued[act[g].actor]
                 PROVE  follower'[act[g].actor] = act[g].n
      BY <2>0 DEF InsertedIsFollower
    <3>1. pc[g] \in {"notify", "accept"} /\ act[g].actor \in Actors
      BY <2>0, <1>a DEF TypeOK, HandlerTypes
    <3> QED
      BY <3>1, <2>5, <1>a DEF InsertedIsFollower
  <2>7. AcceptedIsFollower'
    BY <2>0, <2>5, <1>a DEF AcceptedIsFollower
  <2> QED
    BY <2>1, <2>2, <2>6, <2>7 DEF IInv
<1>9. ASSUME NEW h \in Handlers,
             \/ Respond(h) \/ RespondError(h) \/ LoseResponse(h)
      PROVE  IInv'
  <2>0. /\ act' = [act EXCEPT ![h] = Idle] /\ pc' = [pc EXCEPT ![h] = "idle"]
        /\ outbox' \subseteq outbox
        /\ faults' \in 0..MaxFaults
        /\ UNCHANGED <<software, issued, following, accepted, follower, notified>>
    BY <1>9, <1>a, FollowAssumption
       DEF Respond, RespondError, LoseResponse, Free, Goto, remote, Fault, TypeOK
  <2> QED
    BY <2>0, <1>a DEF IInv, TypeOK, PCs, HandlerTypes, ActivitiesAreIssued, IsOver,
       InsertedIsFollower, AcceptedIsFollower
<1>10. ASSUME NEW h \in Handlers, FailStatement(h) \/ LoseAccept(h) PROVE IInv'
  <2>0. /\ pc[h] # "idle"
        /\ \E s \in {"ok", "error"} : pc' = [pc EXCEPT ![h] = s]
        /\ faults' \in 0..MaxFaults
        /\ UNCHANGED <<software, issued, following, accepted, outbox, follower, notified, act>>
    BY <1>10, <1>a, FollowAssumption
       DEF FailStatement, LoseAccept, Goto, remote, Fault, TypeOK
  <2> QED
    BY <2>0, <1>a DEF IInv, TypeOK, PCs, HandlerTypes, ActivitiesAreIssued, IsOver,
       InsertedIsFollower, AcceptedIsFollower
<1>11. ASSUME NEW m \in outbox, GiveUp(m) PROVE IInv'
  <2>0. /\ outbox' \subseteq outbox /\ faults' \in 0..MaxFaults
        /\ UNCHANGED <<software, issued, following, accepted, follower, notified, act, pc>>
    BY <1>11, <1>a, FollowAssumption DEF GiveUp, remote, Fault, TypeOK
  <2> QED
    BY <2>0, <1>a DEF IInv, TypeOK, HandlerTypes, ActivitiesAreIssued, IsOver,
       InsertedIsFollower, AcceptedIsFollower
<1>12. CASE Crash
  <2>0. /\ act' = [h \in Handlers |-> Idle] /\ pc' = [h \in Handlers |-> "idle"]
        /\ faults' \in 0..MaxFaults
        /\ UNCHANGED <<software, issued, following, accepted, outbox, follower, notified>>
    BY <1>12, <1>a, FollowAssumption DEF Crash, remote, Fault, TypeOK
  <2> QED
    BY <2>0, <1>a DEF IInv, TypeOK, PCs, HandlerTypes, ActivitiesAreIssued, IsOver,
       InsertedIsFollower, AcceptedIsFollower
<1>13. CASE UNCHANGED vars
  BY <1>13, <1>a DEF vars, IInv, TypeOK, HandlerTypes, ActivitiesAreIssued, IsOver,
     InsertedIsFollower, AcceptedIsFollower
<1> QED
  BY <1>1, <1>2, <1>3, <1>4, <1>5, <1>6, <1>7, <1>8, <1>9, <1>10, <1>11, <1>12, <1>13
     DEF Next, Step

\* No step changes what the remote servers run.
LEMMA SoftwareStays == [Next]_vars => software' = software
<1> SUFFICES ASSUME [Next]_vars PROVE software' = software
  OBVIOUS
<1> USE DEF remote, vars
<1>1. ASSUME NEW a \in Actors, IssueFollow(a) \/ IssueUndo(a) PROVE software' = software
  BY <1>1 DEF IssueFollow, IssueUndo
<1>2. ASSUME NEW h \in Handlers, NEW m \in outbox, Receive(h, m)
      PROVE  software' = software
  BY <1>2 DEF Receive
<1>3. ASSUME NEW h \in Handlers, Step(h) PROVE software' = software
  BY <1>3 DEF Step, InsertFollower, InsertNotification, SendAccept, MatchFollower,
     RemoveFollower, Respond, RespondError
<1>4. ASSUME NEW h \in Handlers, FailStatement(h) \/ LoseAccept(h) \/ LoseResponse(h)
      PROVE  software' = software
  BY <1>4 DEF FailStatement, LoseAccept, LoseResponse
<1>5. ASSUME NEW m \in outbox, GiveUp(m) PROVE software' = software
  BY <1>5 DEF GiveUp
<1>6. CASE Crash
  BY <1>6 DEF Crash
<1> QED
  BY <1>1, <1>2, <1>3, <1>4, <1>5, <1>6 DEF Next

\* A remote actor whose current Follow was accepted is a follower until it
\* takes the Follow back, when every Undo names its Follow.
THEOREM AcceptedIsFollowerHolds == Spec => []AcceptedIsFollower
<1> DEFINE Inv == UndosNameTheirFollow => IInv
<1>1. Init => Inv
  BY InitInv
<1>2. Inv /\ [Next]_vars => Inv'
  BY StepInv, SoftwareStays DEF UndosNameTheirFollow
<1>3. Inv => AcceptedIsFollower
  BY DEF IInv, AcceptedIsFollower, UndosNameTheirFollow
<1> QED
  BY <1>1, <1>2, <1>3, PTL DEF Spec

-----------------------------------------------------------------------------
(* Types, whatever the Undos name.                                         *)

FollowTypes ==
    /\ TypeOK /\ HandlerTypes
    /\ \A a \in Actors : following[a] => issued[a] \in Ids

LEMMA FollowTypesInit == Init => FollowTypes
  BY TypeInit DEF Init, FollowTypes, HandlerTypes

\* A handler that goes on with its activity, to a place of its kind.
HandlerGoes(h, s) ==
    /\ pc[h] # "idle" /\ s \in PCs \ {"idle"} /\ Goto(h, s)
    /\ s \in {"notify", "accept"} => act[h] \in Follows
    /\ s = "remove" => act[h] \in Undos
    /\ s # "insert" /\ s # "match"
    /\ UNCHANGED <<software, issued, following, outbox, act>>

LEMMA HandlerTypesGo ==
    ASSUME FollowTypes, NEW h \in Handlers, NEW s, HandlerGoes(h, s)
    PROVE  /\ pc' \in [Handlers -> PCs] /\ HandlerTypes'
           /\ \A g \in Handlers : pc'[g] = "idle" <=> act'[g] = Idle
           /\ \A g \in Handlers : pc'[g] = IF g = h THEN s ELSE pc[g]
           /\ act[h] \in Activities /\ act[h].actor \in Actors /\ act[h].n \in Ids
  BY Kinds DEF FollowTypes, TypeOK, HandlerTypes, HandlerGoes, Goto

\* What each step of a handler is.
LEMMA HandlerSteps ==
    ASSUME FollowTypes, NEW h \in Handlers,
           \/ InsertFollower(h) \/ InsertNotification(h) \/ SendAccept(h)
           \/ MatchFollower(h) \/ RemoveFollower(h)
           \/ FailStatement(h) \/ LoseAccept(h)
    PROVE  \E s \in {"notify", "accept", "remove", "ok", "error"} : HandlerGoes(h, s)
<1>1. CASE InsertFollower(h)
  BY <1>1 DEF InsertFollower, FollowTypes, HandlerTypes, HandlerGoes, PCs, remote
<1>2. CASE InsertNotification(h)
  BY <1>2 DEF InsertNotification, FollowTypes, HandlerTypes, HandlerGoes, PCs, remote
<1>3. CASE SendAccept(h)
  BY <1>3 DEF SendAccept, FollowTypes, HandlerTypes, HandlerGoes, PCs
<1>4. CASE MatchFollower(h)
  BY <1>4 DEF MatchFollower, FollowTypes, HandlerTypes, HandlerGoes, PCs, remote
<1>5. CASE RemoveFollower(h)
  BY <1>5 DEF RemoveFollower, FollowTypes, HandlerTypes, HandlerGoes, PCs, remote
<1>6. CASE FailStatement(h) \/ LoseAccept(h)
  BY <1>6 DEF FailStatement, LoseAccept, HandlerGoes, PCs, remote
<1> QED
  BY <1>1, <1>2, <1>3, <1>4, <1>5, <1>6

LEMMA FollowTypesStep == FollowTypes /\ [Next]_vars => FollowTypes'
<1> SUFFICES ASSUME FollowTypes, [Next]_vars PROVE FollowTypes'
  OBVIOUS
<1>0. /\ TypeOK /\ HandlerTypes
      /\ \A a \in Actors : following[a] => issued[a] \in Ids
  BY DEF FollowTypes
<1>1. ASSUME NEW a \in Actors, IssueFollow(a) PROVE FollowTypes'
  <2>1. /\ issued' = [issued EXCEPT ![a] = @ + 1]
        /\ following' = [following EXCEPT ![a] = TRUE]
        /\ outbox' = outbox \cup {[kind |-> "Follow", actor |-> a,
                                   n |-> issued[a] + 1, form |-> "id"]}
        /\ UNCHANGED <<software, accepted, follower, notified, act, pc, faults>>
    BY <1>1 DEF IssueFollow
  <2>2. issued[a] + 1 \in Ids /\ issued[a] + 1 \in 0..MaxFollows
    BY <1>0, <1>1, FollowAssumption DEF IssueFollow, TypeOK, Ids
  <2>3. [kind |-> "Follow", actor |-> a, n |-> issued[a] + 1, form |-> "id"]
            \in Activities
    BY <2>2 DEF Activities, Follows
  <2>4. \A b \in Actors : following'[b] => issued'[b] \in Ids
    BY <1>0, <2>1, <2>2 DEF TypeOK
  <2>5. issued' \in [Actors -> 0..MaxFollows] /\ following' \in [Actors -> BOOLEAN]
        /\ outbox' \subseteq Activities
    BY <1>0, <2>1, <2>2, <2>3 DEF TypeOK
  <2> QED
    BY <1>0, <2>1, <2>4, <2>5 DEF FollowTypes, TypeOK, HandlerTypes
<1>2. ASSUME NEW a \in Actors, IssueUndo(a) PROVE FollowTypes'
  <2>f. PICK f \in {"id", "uri", "bare"} : f = software.undo
    BY <1>0, FollowAssumption DEF TypeOK
  <2>1. /\ following[a] /\ following' = [following EXCEPT ![a] = FALSE]
        /\ outbox' = outbox \cup {[kind |-> "Undo", actor |-> a,
                                   n |-> issued[a], form |-> f]}
        /\ UNCHANGED <<software, issued, accepted, follower, notified, act, pc, faults>>
    BY <1>2, <2>f DEF IssueUndo
  <2>2. [kind |-> "Undo", actor |-> a, n |-> issued[a], form |-> f] \in Activities
    BY <1>0, <2>1 DEF Activities, Undos
  <2>3. following' \in [Actors -> BOOLEAN] /\ \A b \in Actors : following'[b] => following[b]
    BY <1>0, <2>1 DEF TypeOK
  <2> QED
    BY <1>0, <2>1, <2>2, <2>3 DEF FollowTypes, TypeOK, HandlerTypes
<1>3. ASSUME NEW h \in Handlers, NEW m \in outbox, Receive(h, m) PROVE FollowTypes'
  <2>1. /\ pc[h] = "idle" /\ m \in Activities
        /\ act' = [act EXCEPT ![h] = m]
        /\ pc' = [pc EXCEPT ![h] = IF m.kind = "Follow" THEN "insert" ELSE "match"]
        /\ UNCHANGED <<software, issued, following, accepted, outbox, follower, notified,
                       faults>>
    BY <1>0, <1>3 DEF Receive, remote, TypeOK
  <2>2. (m.kind = "Follow" => m \in Follows) /\ (m.kind # "Follow" => m \in Undos)
    BY <2>1, Kinds DEF Activities
  <2>3. m # Idle
    BY <2>1, <2>2, Kinds DEF Idle, Activities
  <2>4. \A g \in Handlers : pc'[g] = "idle" <=> act'[g] = Idle
    BY <1>0, <2>1, <2>3 DEF TypeOK
  <2>5. pc' \in [Handlers -> PCs] /\ act' \in [Handlers -> Activities \cup {Idle}]
    BY <1>0, <2>1 DEF TypeOK, PCs
  <2>6. HandlerTypes'
    BY <1>0, <2>1, <2>2 DEF HandlerTypes, TypeOK
  <2> QED
    BY <1>0, <2>1, <2>4, <2>5, <2>6 DEF FollowTypes, TypeOK
<1>4. ASSUME NEW h \in Handlers,
             \/ InsertFollower(h) \/ InsertNotification(h) \/ SendAccept(h)
             \/ MatchFollower(h) \/ RemoveFollower(h)
             \/ FailStatement(h) \/ LoseAccept(h)
      PROVE  FollowTypes'
  <2>1. PICK s \in {"notify", "accept", "remove", "ok", "error"} : HandlerGoes(h, s)
    BY <1>4, HandlerSteps
  <2>2. /\ pc' \in [Handlers -> PCs] /\ HandlerTypes'
        /\ \A g \in Handlers : pc'[g] = "idle" <=> act'[g] = Idle
        /\ act[h] \in Activities /\ act[h].actor \in Actors /\ act[h].n \in Ids
    BY <2>1, HandlerTypesGo
  <2>3. UNCHANGED <<software, issued, following, outbox, act>>
    BY <2>1 DEF HandlerGoes
  <2>4. accepted' \in [Actors -> SUBSET Ids]
    BY <1>0, <1>4, <2>2 DEF InsertFollower, InsertNotification, SendAccept,
       MatchFollower, RemoveFollower, FailStatement, LoseAccept, remote, TypeOK
  <2>5. notified' \in [Actors -> [Ids -> Nat]]
    <3>1. CASE InsertNotification(h)
      BY <1>0, <2>2, <3>1 DEF InsertNotification, TypeOK
    <3>2. CASE ~InsertNotification(h)
      BY <1>0, <1>4, <3>2 DEF InsertFollower, SendAccept, MatchFollower,
         RemoveFollower, FailStatement, LoseAccept, TypeOK
    <3> QED
      BY <3>1, <3>2
  <2>6. follower' \in [Actors -> 0..MaxFollows]
    <3>1. follower' = follower
          \/ \E n \in Ids \cup {0} : follower' = [follower EXCEPT ![act[h].actor] = n]
      <4>1. CASE InsertFollower(h)
        BY <2>2, <4>1 DEF InsertFollower
      <4>2. CASE RemoveFollower(h)
        <5>1. follower' = [follower EXCEPT ![act[h].actor] =
                               IF Undoes(act[h], @) THEN 0 ELSE @]
          BY <4>2 DEF RemoveFollower
        <5>2. CASE Undoes(act[h], follower[act[h].actor])
          <6>1. follower' = [follower EXCEPT ![act[h].actor] = 0]
            BY <5>1, <5>2
          <6> QED
            BY <6>1
        <5>3. CASE ~Undoes(act[h], follower[act[h].actor])
          <6>1. follower' = follower
            BY <1>0, <5>1, <5>3 DEF TypeOK
          <6> QED
            BY <6>1
        <5> QED
          BY <5>2, <5>3
      <4> QED
        BY <1>4, <4>1, <4>2 DEF InsertNotification, SendAccept, MatchFollower,
           FailStatement, LoseAccept
    <3>2. Ids \cup {0} \subseteq 0..MaxFollows
      BY FollowAssumption DEF Ids
    <3> QED
      BY <1>0, <3>1, <3>2 DEF TypeOK
  <2>7. faults' \in 0..MaxFaults
    BY <1>0, <1>4, FollowAssumption DEF InsertFollower, InsertNotification, SendAccept,
       MatchFollower, RemoveFollower, FailStatement, LoseAccept, Fault, TypeOK
  <2> QED
    BY <1>0, <2>2, <2>3, <2>4, <2>5, <2>6, <2>7 DEF FollowTypes, TypeOK
<1>5. ASSUME NEW h \in Handlers, Respond(h) \/ RespondError(h) \/ LoseResponse(h)
      PROVE  FollowTypes'
  <2>0. /\ act' = [act EXCEPT ![h] = Idle] /\ pc' = [pc EXCEPT ![h] = "idle"]
        /\ outbox' \subseteq outbox /\ faults' \in 0..MaxFaults
        /\ UNCHANGED <<software, issued, following, accepted, follower, notified>>
    BY <1>5, <1>0, FollowAssumption
       DEF Respond, RespondError, LoseResponse, Free, Goto, remote, Fault, TypeOK
  <2> QED
    BY <2>0, <1>0 DEF FollowTypes, TypeOK, PCs, HandlerTypes
<1>6. ASSUME NEW m \in outbox, GiveUp(m) PROVE FollowTypes'
  <2>0. /\ outbox' \subseteq outbox /\ faults' \in 0..MaxFaults
        /\ UNCHANGED <<software, issued, following, accepted, follower, notified, act, pc>>
    BY <1>6, <1>0, FollowAssumption DEF GiveUp, remote, Fault, TypeOK
  <2> QED
    BY <2>0, <1>0 DEF FollowTypes, TypeOK, HandlerTypes
<1>7. CASE Crash
  <2>0. /\ act' = [h \in Handlers |-> Idle] /\ pc' = [h \in Handlers |-> "idle"]
        /\ faults' \in 0..MaxFaults
        /\ UNCHANGED <<software, issued, following, accepted, outbox, follower, notified>>
    BY <1>7, <1>0, FollowAssumption DEF Crash, remote, Fault, TypeOK
  <2> QED
    BY <2>0, <1>0 DEF FollowTypes, TypeOK, PCs, HandlerTypes
<1>8. CASE UNCHANGED vars
  BY <1>8, <1>0 DEF vars, FollowTypes, TypeOK, HandlerTypes
<1> QED
  BY <1>1, <1>2, <1>3, <1>4, <1>5, <1>6, <1>7, <1>8 DEF Next, Step

\* Types are right whatever the remote servers run.
THEOREM FollowTypeCorrect == Spec => []TypeOK
<1>1. FollowTypes => TypeOK
  BY DEF FollowTypes
<1> QED
  BY <1>1, FollowTypesInit, FollowTypesStep, PTL DEF Spec

-----------------------------------------------------------------------------
(* Servers that post the activities of an actor one by one.                *)

\* One activity of an actor is on its way, and one handler works on it.
OneAtATime ==
    /\ \A m, k \in outbox : m.actor = k.actor => m = k
    /\ \A h \in Handlers : pc[h] # "idle" => act[h] \in outbox
    /\ \A g, h \in Handlers : pc[g] # "idle" /\ act[g] = act[h] => g = h

\* It is the last that was issued, and the row is that Follow's if there is one.
OnItsWay(m) ==
    /\ m.n = issued[m.actor]
    /\ m.kind = "Follow" <=> following[m.actor]
    /\ follower[m.actor] \in {0, m.n}
    /\ m.kind = "Follow" /\ follower[m.actor] = 0 => notified[m.actor][m.n] = 0

\* What the handler that works on it has done.
Handled(h) ==
    LET m == act[h]
    IN  /\ pc[h] = "notify" => follower[m.actor] = m.n /\ notified[m.actor][m.n] = 0
        /\ (pc[h] = "accept" \/ (pc[h] = "ok" /\ m.kind = "Follow"))
               => follower[m.actor] = m.n /\ notified[m.actor][m.n] = 1
        /\ pc[h] = "ok" /\ m.kind = "Undo" => follower[m.actor] = 0

\* What the table holds when nothing is on its way.
Agrees(a) ==
    (\A m \in outbox : m.actor # a) =>
        /\ follower[a] = IF following[a] THEN issued[a] ELSE 0
        /\ follower[a] # 0 => notified[a][follower[a]] = 1

ToldOnce(a) ==
    \A n \in Ids : notified[a][n] <= 1 /\ (n > issued[a] => notified[a][n] = 0)

InOrder ==
    /\ OneAtATime
    /\ \A m \in outbox : OnItsWay(m)
    /\ \A h \in Handlers : pc[h] # "idle" => Handled(h)
    /\ \A a \in Actors : Agrees(a) /\ ToldOnce(a)

OrderInv == software.ordered => InOrder

LEMMA OrderInvInit == Init => OrderInv
  BY DEF Init, OrderInv, InOrder, OneAtATime, Agrees, ToldOnce

\* A handler goes on and touches nobody but the actor it works for.
LEMMA HandlerFrame ==
    ASSUME FollowTypes, InOrder, NEW h \in Handlers, NEW s, HandlerGoes(h, s),
           \A b \in Actors \ {act[h].actor} :
               follower'[b] = follower[b] /\ notified'[b] = notified[b],
           OnItsWay(act[h])', Handled(h)', ToldOnce(act[h].actor)'
    PROVE  InOrder'
<1>0. /\ FollowTypes /\ outbox \subseteq Activities
      /\ \A g \in Handlers : pc'[g] = IF g = h THEN s ELSE pc[g]
      /\ act[h].actor \in Actors /\ pc[h] # "idle" /\ s # "idle"
      /\ UNCHANGED <<software, issued, following, outbox, act>>
  BY HandlerTypesGo DEF HandlerGoes, FollowTypes, TypeOK
<1>1. OneAtATime'
  BY <1>0 DEF InOrder, OneAtATime
<1>2. act[h] \in outbox
  BY <1>0 DEF InOrder, OneAtATime
<1>3. ASSUME NEW m \in outbox PROVE OnItsWay(m)'
  <2>1. CASE m.actor = act[h].actor
    <3>1. m = act[h]
      BY <2>1, <1>2 DEF InOrder, OneAtATime
    <3> QED
      BY <3>1, <1>0
  <2>2. CASE m.actor # act[h].actor
    <3>1. m.actor \in Actors
      BY <1>0, Kinds
    <3>2. follower'[m.actor] = follower[m.actor] /\ notified'[m.actor] = notified[m.actor]
      BY <3>1, <2>2
    <3> QED
      BY <1>0, <3>2 DEF InOrder, OnItsWay
  <2> QED
    BY <2>1, <2>2
<1>4. ASSUME NEW g \in Handlers, pc'[g] # "idle" PROVE Handled(g)'
  <2>1. CASE g = h
    BY <2>1
  <2>2. CASE g # h
    <3>1. pc'[g] = pc[g] /\ act[g] \in outbox
      BY <1>0, <1>4, <2>2 DEF InOrder, OneAtATime
    <3>2. act[g].actor # act[h].actor /\ act[g].actor \in Actors
      BY <1>0, <1>2, <2>2, <3>1, <1>4, Kinds DEF InOrder, OneAtATime
    <3>3. /\ follower'[act[g].actor] = follower[act[g].actor]
          /\ notified'[act[g].actor] = notified[act[g].actor]
      BY <3>2
    <3> QED
      BY <1>0, <1>4, <3>1, <3>3 DEF InOrder, Handled
  <2> QED
    BY <2>1, <2>2
<1>5. ASSUME NEW a \in Actors PROVE Agrees(a)' /\ ToldOnce(a)'
  <2>1. CASE a = act[h].actor
    BY <1>0, <1>2, <2>1 DEF Agrees
  <2>2. CASE a # act[h].actor
    BY <1>0, <2>2 DEF InOrder, Agrees, ToldOnce
  <2> QED
    BY <2>1, <2>2
<1> QED
  BY <1>0, <1>1, <1>3, <1>4, <1>5 DEF InOrder

\* Handlers end, whatever they did.
LEMMA HandlersEnd ==
    ASSUME InOrder, UNCHANGED <<issued, following, follower, notified, outbox>>,
           \A g \in Handlers : \/ pc'[g] = "idle"
                               \/ pc'[g] = pc[g] /\ act'[g] = act[g],
           \A g, h \in Handlers : pc'[g] # "idle" /\ act'[g] = act'[h]
                                      => act[g] = act[h]
    PROVE  InOrder'
  BY DEF InOrder, OneAtATime, OnItsWay, Handled, Agrees, ToldOnce

LEMMA OrderInvStep == FollowTypes /\ OrderInv /\ [Next]_vars => OrderInv'
<1> SUFFICES ASSUME FollowTypes, OrderInv, [Next]_vars, software.ordered PROVE InOrder'
  BY SoftwareStays DEF OrderInv
<1>0. /\ TypeOK /\ HandlerTypes /\ InOrder /\ OneAtATime
      /\ \A a \in Actors : following[a] => issued[a] \in Ids
      /\ outbox \subseteq Activities
      /\ \A n \in Ids : n \in Nat /\ n # 0
      /\ \A h \in Handlers : pc[h] = "idle" <=> act[h] = Idle
  BY FollowAssumption DEF FollowTypes, OrderInv, InOrder, TypeOK, Ids
<1>1. ASSUME NEW a \in Actors, Settled(a) PROVE \A m \in outbox : m.actor # a
  BY <1>1 DEF Settled
<1>2. ASSUME NEW a \in Actors, IssueFollow(a) PROVE InOrder'
  <2>m. PICK m : m = [kind |-> "Follow", actor |-> a, n |-> issued[a] + 1, form |-> "id"]
    OBVIOUS
  <2>0. /\ ~following[a] /\ issued[a] < MaxFollows
        /\ issued' = [issued EXCEPT ![a] = @ + 1]
        /\ following' = [following EXCEPT ![a] = TRUE]
        /\ outbox' = outbox \cup {m}
        /\ UNCHANGED <<software, accepted, follower, notified, act, pc, faults>>
    BY <1>2, <2>m DEF IssueFollow
  <2>1. \A k \in outbox : k.actor # a
    BY <1>1, <1>2 DEF IssueFollow, MayIssue
  <2>2. /\ issued[a] \in Nat /\ issued[a] + 1 \in Ids /\ m.actor = a
        /\ m.n = issued[a] + 1 /\ m.kind = "Follow"
        /\ issued'[a] = issued[a] + 1 /\ following'[a]
    BY <1>0, <2>0, <2>m, FollowAssumption DEF TypeOK, Ids
  <2>3. \A b \in Actors \ {a} : issued'[b] = issued[b] /\ following'[b] = following[b]
    BY <1>0, <2>0 DEF TypeOK
  <2>4. follower[a] = 0 /\ notified[a][issued[a] + 1] = 0
    BY <1>0, <2>0, <2>1, <2>2 DEF InOrder, Agrees, ToldOnce
  <2>5. OneAtATime'
    BY <1>0, <2>0, <2>1, <2>2 DEF OneAtATime
  <2>6. ASSUME NEW k \in outbox' PROVE OnItsWay(k)'
    <3>1. CASE k = m
      BY <2>0, <2>2, <2>4, <3>1 DEF OnItsWay
    <3>2. CASE k \in outbox
      <4>1. k.actor \in Actors \ {a}
        BY <1>0, <2>1, <3>2, Kinds
      <4> QED
        BY <1>0, <2>0, <2>3, <3>2, <4>1 DEF InOrder, OnItsWay
    <3> QED
      BY <2>0, <3>1, <3>2
  <2>7. \A h \in Handlers : pc'[h] # "idle" => Handled(h)'
    BY <1>0, <2>0 DEF InOrder, Handled
  <2>8. ASSUME NEW b \in Actors PROVE Agrees(b)' /\ ToldOnce(b)'
    <3>1. CASE b = a
      <4>1. Agrees(a)'
        BY <2>0, <2>2 DEF Agrees
      <4>2. ToldOnce(a)'
        <5> SUFFICES ASSUME NEW n \in Ids
                     PROVE  /\ notified[a][n] <= 1
                            /\ n > issued[a] + 1 => notified[a][n] = 0
          BY <2>0, <2>2 DEF ToldOnce
        <5>1. /\ notified[a][n] <= 1
              /\ n > issued[a] => notified[a][n] = 0
          BY <1>0 DEF InOrder, ToldOnce
        <5>2. n > issued[a] + 1 => n > issued[a]
          BY <1>0, <2>2
        <5> QED
          BY <5>1, <5>2
      <4> QED
        BY <3>1, <4>1, <4>2
    <3>2. CASE b # a
      BY <1>0, <2>0, <2>3, <3>2 DEF InOrder, Agrees, ToldOnce
    <3> QED
      BY <3>1, <3>2
  <2> QED
    BY <2>5, <2>6, <2>7, <2>8 DEF InOrder
<1>3. ASSUME NEW a \in Actors, IssueUndo(a) PROVE InOrder'
  <2>m. PICK m : m = [kind |-> "Undo", actor |-> a, n |-> issued[a],
                      form |-> software.undo]
    OBVIOUS
  <2>0. /\ following[a] /\ following' = [following EXCEPT ![a] = FALSE]
        /\ outbox' = outbox \cup {m}
        /\ UNCHANGED <<software, issued, accepted, follower, notified, act, pc, faults>>
    BY <1>3, <2>m DEF IssueUndo
  <2>1. \A k \in outbox : k.actor # a
    BY <1>1, <1>3 DEF IssueUndo, MayIssue
  <2>2. /\ m.actor = a /\ m.n = issued[a] /\ m.kind = "Undo" /\ ~following'[a]
        /\ \A b \in Actors \ {a} : following'[b] = following[b]
    BY <1>0, <2>0, <2>m DEF TypeOK
  <2>3. follower[a] = issued[a]
    BY <1>0, <2>0, <2>1 DEF InOrder, Agrees
  <2>4. OneAtATime'
    BY <1>0, <2>0, <2>1, <2>2 DEF OneAtATime
  <2>5. ASSUME NEW k \in outbox' PROVE OnItsWay(k)'
    <3>1. CASE k = m
      BY <2>0, <2>2, <2>3, <3>1 DEF OnItsWay
    <3>2. CASE k \in outbox
      <4>1. k.actor \in Actors \ {a}
        BY <1>0, <2>1, <3>2, Kinds
      <4> QED
        BY <1>0, <2>0, <2>2, <3>2, <4>1 DEF InOrder, OnItsWay
    <3> QED
      BY <2>0, <3>1, <3>2
  <2>6. \A h \in Handlers : pc'[h] # "idle" => Handled(h)'
    BY <1>0, <2>0 DEF InOrder, Handled
  <2>7. \A b \in Actors : Agrees(b)' /\ ToldOnce(b)'
    BY <1>0, <2>0, <2>2 DEF InOrder, Agrees, ToldOnce
  <2> QED
    BY <2>4, <2>5, <2>6, <2>7 DEF InOrder
<1>4. ASSUME NEW h \in Handlers, NEW m \in outbox, Receive(h, m) PROVE InOrder'
  <2>1. /\ pc[h] = "idle" /\ \A g \in Handlers : act[g] # m
        /\ act' = [act EXCEPT ![h] = m]
        /\ \E s \in {"insert", "match"} : pc' = [pc EXCEPT ![h] = s]
        /\ UNCHANGED <<issued, following, outbox, follower, notified>>
    BY <1>4 DEF Receive, remote
  <2>2. \A g \in Handlers : /\ act'[g] = IF g = h THEN m ELSE act[g]
                            /\ g # h => pc'[g] = pc[g]
                            /\ g = h => pc'[g] \in {"insert", "match"}
    BY <1>0, <2>1 DEF TypeOK
  <2>3. OneAtATime'
    BY <1>0, <2>1, <2>2 DEF OneAtATime
  <2>4. \A g \in Handlers : pc'[g] # "idle" => Handled(g)'
    BY <1>0, <2>1, <2>2 DEF InOrder, Handled
  <2> QED
    BY <1>0, <2>1, <2>3, <2>4 DEF InOrder, OnItsWay, Agrees, ToldOnce
<1>5. ASSUME NEW h \in Handlers,
             \/ InsertFollower(h) \/ InsertNotification(h) \/ SendAccept(h)
             \/ MatchFollower(h) \/ RemoveFollower(h)
             \/ FailStatement(h) \/ LoseAccept(h)
      PROVE  InOrder'
  <2> DEFINE m == act[h]
             a == m.actor
  <2>1. PICK s \in {"notify", "accept", "remove", "ok", "error"} : HandlerGoes(h, s)
    BY <1>5, HandlerSteps
  <2>2. /\ \A g \in Handlers : pc'[g] = IF g = h THEN s ELSE pc[g]
        /\ m \in Activities /\ a \in Actors /\ m.n \in Ids
        /\ UNCHANGED <<issued, following, outbox, act>>
    BY <2>1, HandlerTypesGo DEF HandlerGoes
  <2>3. /\ OnItsWay(m) /\ Handled(h) /\ ToldOnce(a) /\ pc[h] # "idle"
    BY <1>0, <2>1, <2>2 DEF InOrder, OneAtATime, HandlerGoes
  <2>4. /\ pc[h] \in {"insert", "notify", "accept"} => m.kind = "Follow"
        /\ pc[h] \in {"match", "remove"} => m.kind = "Undo"
    BY <1>0, Kinds DEF HandlerTypes
  <2>5. notified[a] \in [Ids -> Nat] /\ follower \in [Actors -> 0..MaxFollows]
        /\ notified \in [Actors -> [Ids -> Nat]]
    BY <1>0, <2>2 DEF TypeOK
  <2>6. m.n = issued[a]
    BY <2>3 DEF OnItsWay
  <2>7. pc'[h] = s
    BY <2>2
  <2>8. CASE InsertFollower(h) /\ follower[a] = 0
    <3>1. /\ follower' = [follower EXCEPT ![a] = m.n] /\ pc[h] = "insert"
          /\ pc' = [pc EXCEPT ![h] = "notify"] /\ UNCHANGED notified
      BY <2>8 DEF InsertFollower, Goto
    <3>2. follower'[a] = m.n /\ s = "notify"
          /\ \A b \in Actors \ {a} : follower'[b] = follower[b]
      BY <1>0, <2>2, <2>5, <3>1 DEF TypeOK
    <3>3. OnItsWay(m)' /\ Handled(h)' /\ ToldOnce(a)'
      BY <1>0, <2>2, <2>3, <2>4, <2>7, <2>8, <3>1, <3>2
         DEF OnItsWay, Handled, ToldOnce
    <3> QED
      BY <1>0, <2>1, <2>2, <3>1, <3>2, <3>3, HandlerFrame
  <2>9. CASE InsertNotification(h)
    <3>1. /\ notified' = [notified EXCEPT ![a][m.n] = @ + 1] /\ pc[h] = "notify"
          /\ pc' = [pc EXCEPT ![h] = "accept"] /\ UNCHANGED follower
      BY <2>9 DEF InsertNotification, Goto
    <3>2. notified[a][m.n] = 0 /\ follower[a] = m.n
      BY <2>3, <3>1 DEF Handled
    <3>3. /\ notified'[a][m.n] = 1 /\ s = "accept"
          /\ \A n \in Ids \ {m.n} : notified'[a][n] = notified[a][n]
          /\ \A b \in Actors \ {a} : notified'[b] = notified[b]
      BY <1>0, <2>2, <2>5, <3>1, <3>2 DEF TypeOK
    <3>4. OnItsWay(m)' /\ Handled(h)'
      BY <1>0, <2>2, <2>3, <2>7, <3>1, <3>2, <3>3 DEF OnItsWay, Handled
    <3>5. ToldOnce(a)'
      BY <1>0, <2>2, <2>3, <2>6, <3>3 DEF ToldOnce
    <3> QED
      BY <1>0, <2>1, <2>2, <3>1, <3>3, <3>4, <3>5, HandlerFrame
  <2>10. CASE RemoveFollower(h)
    <3>1. /\ follower' = [follower EXCEPT ![a] = IF Undoes(m, @) THEN 0 ELSE @]
          /\ pc[h] = "remove" /\ pc' = [pc EXCEPT ![h] = "ok"] /\ UNCHANGED notified
      BY <2>10 DEF RemoveFollower, Goto
    <3>2. follower[a] \in {0, m.n} /\ m.kind = "Undo"
      BY <2>3, <2>4, <3>1 DEF OnItsWay
    <3>3. /\ follower'[a] = 0 /\ s = "ok"
          /\ \A b \in Actors \ {a} : follower'[b] = follower[b]
      BY <1>0, <2>2, <2>5, <3>1, <3>2 DEF TypeOK, Undoes
    <3>4. OnItsWay(m)' /\ Handled(h)' /\ ToldOnce(a)'
      BY <2>2, <2>3, <2>7, <3>1, <3>2, <3>3 DEF OnItsWay, Handled, ToldOnce
    <3> QED
      BY <1>0, <2>1, <2>2, <3>1, <3>3, <3>4, HandlerFrame
  <2>11. CASE \/ InsertFollower(h) /\ follower[a] # 0
              \/ SendAccept(h)
              \/ MatchFollower(h) \/ FailStatement(h) \/ LoseAccept(h)
    <3>1. UNCHANGED <<follower, notified>>
      BY <2>11 DEF InsertFollower, SendAccept, MatchFollower, FailStatement, LoseAccept
    <3>2. \/ s = "error"
          \/ s = "ok" /\ pc[h] = "accept"
          \/ s = "ok" /\ pc[h] = "match" /\ follower[a] = 0
          \/ s = "remove"
      BY <2>7, <1>0, <2>11 DEF InsertFollower, SendAccept, MatchFollower, FailStatement,
         LoseAccept, Goto, TypeOK
    <3>3. OnItsWay(m)' /\ ToldOnce(a)'
      BY <2>2, <2>3, <3>1 DEF OnItsWay, ToldOnce
    <3>4. Handled(h)'
      BY <2>2, <2>3, <2>4, <2>7, <3>1, <3>2 DEF Handled
    <3> QED
      BY <1>0, <2>1, <2>2, <3>1, <3>3, <3>4, HandlerFrame
  <2> QED
    BY <1>5, <2>8, <2>9, <2>10, <2>11
<1>6. ASSUME NEW h \in Handlers, Respond(h) PROVE InOrder'
  <2> DEFINE m == act[h]
             a == m.actor
  <2>1. /\ pc[h] = "ok" /\ outbox' = outbox \ {m}
        /\ act' = [act EXCEPT ![h] = Idle] /\ pc' = [pc EXCEPT ![h] = "idle"]
        /\ UNCHANGED <<issued, following, follower, notified>>
    BY <1>6 DEF Respond, Free, Goto, remote
  <2>2. /\ m \in outbox /\ OnItsWay(m) /\ Handled(h) /\ a \in Actors /\ m.n \in Ids
        /\ m.kind \in {"Follow", "Undo"}
    BY <1>0, <2>1, Kinds DEF InOrder, OneAtATime, Activities
  <2>3. \A g \in Handlers : /\ pc'[g] = IF g = h THEN "idle" ELSE pc[g]
                            /\ g # h => act'[g] = act[g]
    BY <1>0, <2>1 DEF TypeOK
  <2>4. OneAtATime'
    BY <1>0, <2>1, <2>3 DEF OneAtATime, TypeOK
  <2>5. \A g \in Handlers : pc'[g] # "idle" => Handled(g)'
    BY <1>0, <2>1, <2>3 DEF InOrder, Handled
  <2>6. \A k \in outbox' : OnItsWay(k)'
    BY <1>0, <2>1 DEF InOrder, OnItsWay
  <2>7. ASSUME NEW b \in Actors PROVE Agrees(b)' /\ ToldOnce(b)'
    <3>1. CASE b = a
      <4>1. /\ follower[a] = IF following[a] THEN issued[a] ELSE 0
            /\ follower[a] # 0 => notified[a][follower[a]] = 1
        BY <2>1, <2>2 DEF OnItsWay, Handled
      <4> QED
        BY <1>0, <2>1, <3>1, <4>1 DEF InOrder, Agrees, ToldOnce
    <3>2. CASE b # a
      BY <1>0, <2>1, <3>2 DEF InOrder, Agrees, ToldOnce
    <3> QED
      BY <3>1, <3>2
  <2> QED
    BY <2>4, <2>5, <2>6, <2>7 DEF InOrder
<1>7. ASSUME NEW h \in Handlers, RespondError(h) \/ LoseResponse(h) PROVE InOrder'
  <2>1. /\ act' = [act EXCEPT ![h] = Idle] /\ pc' = [pc EXCEPT ![h] = "idle"]
        /\ UNCHANGED <<issued, following, follower, notified, outbox>>
    BY <1>7 DEF RespondError, LoseResponse, Free, Goto, remote
  <2>2. \A g \in Handlers : \/ pc'[g] = "idle"
                            \/ pc'[g] = pc[g] /\ act'[g] = act[g]
    BY <1>0, <2>1 DEF TypeOK
  <2>3. ASSUME NEW g \in Handlers, NEW k \in Handlers,
               pc'[g] # "idle", act'[g] = act'[k]
        PROVE  act[g] = act[k]
    <3>1. g # h /\ act'[g] = act[g] /\ act[g] # Idle
      BY <1>0, <2>1, <2>3 DEF TypeOK
    <3> QED
      BY <1>0, <2>1, <2>3, <3>1 DEF TypeOK
  <2> QED
    BY <1>0, <2>1, <2>2, <2>3, HandlersEnd
<1>8. ASSUME NEW m \in outbox, GiveUp(m) PROVE InOrder'
  BY <1>8 DEF GiveUp
<1>9. CASE Crash
  <2>1. /\ \A g \in Handlers : pc'[g] = "idle"
        /\ UNCHANGED <<issued, following, follower, notified, outbox>>
    BY <1>9 DEF Crash, remote
  <2> QED
    BY <1>0, <2>1, HandlersEnd
<1>10. CASE UNCHANGED vars
  BY <1>0, <1>10, HandlersEnd DEF vars
<1> QED
  BY <1>2, <1>3, <1>4, <1>5, <1>6, <1>7, <1>8, <1>9, <1>10 DEF Next, Step

\* Once everything that was sent in order is settled, the table agrees with it and
\* the owner was told once.
THEOREM SettledAgreementHolds == Spec => []SettledAgreement
<1>1. FollowTypes /\ OrderInv => SettledAgreement
  <2> SUFFICES ASSUME FollowTypes, OrderInv, software.ordered, NEW a \in Actors
               PROVE  /\ Settled(a) => /\ Agrees(a) /\ \A m \in outbox : m.actor # a
                      /\ ToldOnce(a)
    BY DEF SettledAgreement, Agrees, ToldOnce
  <2> QED
    BY DEF OrderInv, InOrder, Settled
<1> QED
  BY <1>1, FollowTypesInit, FollowTypesStep, OrderInvInit, OrderInvStep, PTL DEF Spec

-----------------------------------------------------------------------------
(* The limiter.                                                            *)

\* A table without a domain, or with one more, is one entry smaller or larger.
LEMMA TableSizes ==
    ASSUME NEW S, IsFiniteSet(S), NEW d
    PROVE  /\ IsFiniteSet(S \ {d}) /\ IsFiniteSet(S \cup {d})
           /\ Cardinality(S) \in Nat
           /\ d \in S => Cardinality(S \ {d}) = Cardinality(S) - 1
           /\ Cardinality(S \cup {d}) =
                  IF d \in S THEN Cardinality(S) ELSE Cardinality(S) + 1
  BY FS_RemoveElement, FS_AddElement, FS_CardinalityType

\* Whatever table room is made in, it holds entries that were there, and has
\* room for the domain.
LEMMA RoomIsMade ==
    ASSUME LimiterTypeOK, NEW d \in Domains, NEW f \in WithRoom(d)
    PROVE  /\ DOMAIN f \subseteq DOMAIN entries
           /\ \A o \in DOMAIN f : f[o] = entries[o]
           /\ Cardinality(DOMAIN f \cup {d}) <= maxTracked
<1> DEFINE live == {o \in DOMAIN entries : ~IsNewWindow(entries[o])}
<1>0. maxTracked \in Nat \ {0}
  BY RateLimiterAssumption DEF LimiterTypeOK
<1>1. /\ IsFiniteSet(Domains) /\ DOMAIN entries \subseteq Domains
      /\ Cardinality(DOMAIN entries) <= maxTracked
  BY RateLimiterAssumption DEF LimiterTypeOK
<1>2. /\ IsFiniteSet(DOMAIN entries) /\ IsFiniteSet(live)
      /\ Cardinality(live) <= Cardinality(DOMAIN entries)
      /\ Cardinality(DOMAIN entries) \in Nat /\ Cardinality(live) \in Nat
  <2>1. IsFiniteSet(DOMAIN entries)
    BY <1>1, FS_Subset
  <2>2. live \in SUBSET DOMAIN entries
    OBVIOUS
  <2> QED
    BY <2>1, <2>2, FS_Subset, FS_CardinalityType
<1>3. DOMAIN Live = live /\ \A o \in live : Live[o] = entries[o]
  BY DEF Live, Only
<1>4. CASE d \in DOMAIN entries \/ Cardinality(DOMAIN entries) < maxTracked
  <2>1. f = entries
    BY <1>4 DEF WithRoom
  <2>2. Cardinality(DOMAIN entries \cup {d}) =
            IF d \in DOMAIN entries THEN Cardinality(DOMAIN entries)
                                   ELSE Cardinality(DOMAIN entries) + 1
    BY <1>2, TableSizes
  <2>3. Cardinality(DOMAIN entries \cup {d}) <= maxTracked
    BY <2>2, <1>0, <1>1, <1>2, <1>4
  <2> QED
    BY <2>1, <2>3
<1>5. CASE ~(d \in DOMAIN entries \/ Cardinality(DOMAIN entries) < maxTracked)
           /\ Cardinality(DOMAIN Live) < maxTracked
  <2>1. f = Live
    BY <1>5 DEF WithRoom
  <2>2. Cardinality(live \cup {d}) =
            IF d \in live THEN Cardinality(live) ELSE Cardinality(live) + 1
    BY <1>2, TableSizes
  <2>3. Cardinality(live \cup {d}) <= maxTracked
    <3> HIDE DEF live
    <3> QED
      BY <2>2, <1>0, <1>2, <1>3, <1>5
  <2> QED
    BY <2>1, <2>3, <1>3
<1>6. CASE ~(d \in DOMAIN entries \/ Cardinality(DOMAIN entries) < maxTracked)
           /\ ~(Cardinality(DOMAIN Live) < maxTracked)
  <2>1. PICK o \in Oldest(Live) : f = Only(Live, DOMAIN Live \ {o})
    BY <1>6 DEF WithRoom
  <2>2. o \in live
    BY <2>1, <1>3 DEF Oldest
  <2>3. DOMAIN f = live \ {o} /\ \A q \in live \ {o} : f[q] = entries[q]
    BY <2>1, <1>3 DEF Only
  <2>4. Cardinality(live \ {o}) = Cardinality(live) - 1 /\ IsFiniteSet(live \ {o})
    BY <2>2, <1>2, TableSizes
  <2>5. Cardinality((live \ {o}) \cup {d}) =
            IF d \in live \ {o} THEN Cardinality(live \ {o})
                               ELSE Cardinality(live \ {o}) + 1
    BY ZenonT(30), <2>4, TableSizes
  <2>6. Cardinality((live \ {o}) \cup {d}) <= maxTracked
    <3> HIDE DEF live
    <3> QED
      BY <2>4, <2>5, <1>0, <1>1, <1>2
  <2> QED
    BY <2>3, <2>6
<1> QED
  BY <1>4, <1>5, <1>6

\* The clock passes, and the table stays within its limit.
LEMMA LimiterStep ==
    ASSUME LimiterTypeOK,
           \/ Tick \/ UNCHANGED limiterVars
           \/ \E d \in Domains : Admit(d) \/ Refuse(d)
    PROVE  LimiterTypeOK'
<1>1. CASE Tick
  BY <1>1, RateLimiterAssumption DEF Tick, LimiterTypeOK
<1>2. CASE UNCHANGED limiterVars
  BY <1>2 DEF limiterVars, LimiterTypeOK
<1>3. ASSUME NEW d \in Domains, Admit(d) \/ Refuse(d)
      PROVE  LimiterTypeOK'
  <2>0. /\ maxTracked \in Limits /\ now \in 0..MaxTime
        /\ \A o \in DOMAIN entries : entries[o] \in Entry
        /\ DOMAIN entries \subseteq Domains
        /\ admitted \in Seq([domain : Domains, at : 0..MaxTime])
    BY DEF LimiterTypeOK
  <2>1. UNCHANGED <<now, maxTracked>>
    BY <1>3 DEF Admit, Refuse
  <2>f. PICK f \in WithRoom(d) :
            \/ entries' = Put(f, d, EntryOf(f, d))
            \/ entries' = Put(f, d, Increment(EntryOf(f, d)))
    BY <1>3 DEF Admit, Refuse
  <2>2. PICK e \in {EntryOf(f, d), Increment(EntryOf(f, d))} :
            entries' = Put(f, d, e)
    BY <2>f
  <2>3. /\ DOMAIN f \subseteq DOMAIN entries
        /\ \A o \in DOMAIN f : f[o] = entries[o]
        /\ Cardinality(DOMAIN f \cup {d}) <= maxTracked
    BY RoomIsMade
  <2>4. EntryOf(f, d) \in Entry
    BY <2>0, <2>3 DEF EntryOf, Entry
  <2>5. e \in Entry
    BY <2>0, <2>2, <2>4 DEF Increment, Entry
  <2>6. DOMAIN entries' = DOMAIN f \cup {d}
        /\ \A o \in DOMAIN entries' : entries'[o] = IF o = d THEN e ELSE f[o]
    BY <2>2 DEF Put
  <2>7. admitted' \in Seq([domain : Domains, at : 0..MaxTime])
    <3>1. \/ admitted' = admitted
          \/ admitted' = Append(admitted, [domain |-> d, at |-> now])
      BY <1>3 DEF Admit, Refuse
    <3>2. [domain |-> d, at |-> now] \in [domain : Domains, at : 0..MaxTime]
      BY <2>0
    <3>3. Append(admitted, [domain |-> d, at |-> now])
              \in Seq([domain : Domains, at : 0..MaxTime])
      BY <3>2, <2>0, AppendProperties
    <3> QED
      BY <3>1, <3>3, <2>0
  <2>8. \A o \in DOMAIN entries' : entries'[o] \in Entry
    BY <2>0, <2>3, <2>5, <2>6
  <2>9. Cardinality(DOMAIN entries') <= maxTracked /\ DOMAIN entries' \subseteq Domains
    BY <2>0, <2>3, <2>6
  <2> QED
    BY <2>0, <2>1, <2>7, <2>8, <2>9 DEF LimiterTypeOK, Entry
<1> QED
  BY <1>1, <1>2, <1>3

-----------------------------------------------------------------------------
(* What a request is.                                                      *)

Places == {"idle", "fetch", "judge", "check", "done"} \cup Handling

ARequest == [pc : Places, act : Acts \cup {Nobody}, signed : Acts \cup {Nobody},
             key : 0..MaxKeys, date : 0..MaxTime, pem : 0..MaxKeys,
             barred : BOOLEAN]

\* A request that goes on stays what it is, and the others stay where they are.
LEMMA OneMoves ==
    ASSUME req \in [Requests -> ARequest], NEW r \in Requests, NEW s \in Places,
           GoesTo(r, s)
    PROVE  /\ req' \in [Requests -> ARequest]
           /\ \A q \in Requests :
                 /\ req'[q].pc = IF q = r THEN s ELSE req[q].pc
                 /\ req'[q].act = req[q].act /\ req'[q].signed = req[q].signed
                 /\ req'[q].key = req[q].key /\ req'[q].date = req[q].date
                 /\ req'[q].pem = req[q].pem /\ req'[q].barred = req[q].barred
  BY DEF GoesTo, ARequest

\* Whether a request is to be barred is all that a block changes of it.
LEMMA OnlyBarred ==
    ASSUME NEW q \in ARequest, NEW b \in BOOLEAN
    PROVE  LET n == [q EXCEPT !.barred = b]
           IN  /\ n \in ARequest
               /\ n.pc = q.pc /\ n.act = q.act /\ n.signed = q.signed
               /\ n.key = q.key /\ n.date = q.date /\ n.pem = q.pem
               /\ n.barred = b
  BY DEF ARequest

\* What an activity says, of a request that has one.
LEMMA Says ==
    ASSUME NEW a \in Acts
    PROVE  /\ Act[a].type \in Types /\ Act[a].actor \in Authors
           /\ Act[a].post \in Posts \cup {Own}
           /\ Act[a].mentions \in BOOLEAN /\ Act[a].replies \in BOOLEAN
           /\ DomainOf[Act[a].actor] \in Domains
  BY InboxAssumption

\* Where a handler begins, and of what.
LEMMA HandlerFits ==
    ASSUME NEW a, a.type \in Types, a.mentions \in BOOLEAN, a.replies \in BOOLEAN,
           NEW yes \in BOOLEAN
    PROVE  /\ Handler(a, yes) \in {"done", "like", "announce", "mention", "reply",
                                   "store", "find"}
           /\ Handler(a, yes) = "store" => a.type = "Create"
           /\ Handler(a, yes) = "find" => a.type = "Delete"
           /\ Handler(a, yes) = "mention" => a.mentions
<1>1. CASE a.type = "Like"
  BY <1>1 DEF Handler, Decide
<1>2. CASE a.type = "Accept"
  BY <1>2 DEF Handler, Decide
<1>3. CASE a.type = "Announce"
  BY <1>3 DEF Handler, Decide
<1>4. CASE a.type = "Create"
  BY <1>4 DEF Handler, Decide
<1>5. CASE a.type = "Delete"
  BY <1>5 DEF Handler, Decide
<1>6. CASE a.type \in {"Update", "Reject", "Block"}
  BY <1>6 DEF Handler, Decide
<1> QED
  BY <1>1, <1>2, <1>3, <1>4, <1>5, <1>6 DEF Types

\* What a request has when it is past its arrival.
Carries ==
    \A r \in Requests :
        /\ req[r].pc = "idle" <=> req[r].act = Nobody
        /\ req[r].act = Nobody => ~req[r].barred
        /\ req[r].act # Nobody =>
               [act |-> req[r].signed, key |-> req[r].key, date |-> req[r].date] \in sent

InboxTypes == InboxTypeOK /\ Carries

LEMMA InboxTypesInit == InboxInit => InboxTypes
<1> SUFFICES ASSUME InboxInit PROVE InboxTypes
  OBVIOUS
<1>1. LimiterTypeOK
  <2>1. entries = <<>> /\ DOMAIN entries = {} /\ admitted = <<>>
    BY DEF InboxInit, LimiterInit
  <2>2. Cardinality(DOMAIN entries) = 0
    BY <2>1, FS_EmptySet
  <2>3. maxTracked \in Limits /\ now = 0
    BY DEF InboxInit, LimiterInit
  <2> QED
    BY <2>1, <2>2, <2>3, RateLimiterAssumption DEF LimiterTypeOK
<1>2. Waiting \in ARequest
  BY RateLimiterAssumption, InboxAssumption DEF Waiting, ARequest, Places
<1>3. InboxTypeOK
  BY <1>1, <1>2, InboxAssumption
     DEF InboxInit, InboxTypeOK, ARequest, Places, Signature
<1>4. Carries
  BY DEF InboxInit, Carries, Waiting
<1> QED
  BY <1>3, <1>4 DEF InboxTypes

\* What a step of a handler is: it moves one request on.
LEMMA HandlerMoves ==
    ASSUME InboxTypes, NEW r \in Requests,
           \/ Unreachable(r) \/ Judge(r) \/ Check(r) \/ IsFollowee(r)
           \/ Like(r) \/ Announce(r) \/ Mention(r) \/ Reply(r) \/ Store(r)
           \/ Find(r) \/ Remove(r) \/ Row(r) \/ Erase(r)
           \/ Fail(r)
    PROVE  /\ req[r].pc \notin {"idle", "done"}
           /\ \E s \in Places \ {"idle"} : GoesTo(r, s)
           /\ UNCHANGED <<world, published, sent, blocks, keep>>
<1>0. /\ req[r] \in ARequest /\ req[r].act \in Acts \cup {Nobody}
      /\ (req[r].pc # "idle" => req[r].act \in Acts)
  BY DEF InboxTypes, InboxTypeOK, Carries, ARequest, Places
<1>1. CASE Unreachable(r) \/ Judge(r)
  BY <1>1 DEF Unreachable, Judge, Places
<1>2. CASE Check(r) \/ IsFollowee(r)
  <2>1. req[r].pc \in {"check", "followee"} /\ req[r].act \in Acts
    BY <1>0, <1>2 DEF Check, IsFollowee
  <2>2. \A yes \in BOOLEAN : Handler(Act[req[r].act], yes) \in Places \ {"idle"}
    BY <2>1, Says, HandlerFits DEF Places, Handling
  <2>3. CASE Check(r)
    BY <2>1, <2>2, <2>3 DEF Check, Places, Handling
  <2>4. CASE IsFollowee(r)
    <3>1. PICK yes \in {ActorOf(r) \in Followees, FALSE} :
              GoesTo(r, Handler(Act[req[r].act], yes))
      BY <2>4 DEF IsFollowee
    <3>2. yes \in BOOLEAN
      <4>1. CASE ActorOf(r) \in Followees
        <5>1. (ActorOf(r) \in Followees) = TRUE
          BY <4>1
        <5> QED
          BY <5>1
      <4>2. CASE ~(ActorOf(r) \in Followees)
        <5>1. (ActorOf(r) \in Followees) = FALSE
          BY <4>2
        <5> QED
          BY <5>1
      <4> QED
        BY <4>1, <4>2
    <3>3. req[r].pc \notin {"idle", "done"}
          /\ UNCHANGED <<world, published, sent, blocks, keep>>
      BY <2>4 DEF IsFollowee
    <3> QED
      BY <3>1, <3>2, <3>3, <2>2
  <2> QED
    BY <1>2, <2>3, <2>4
<1>3. CASE Like(r) \/ Announce(r) \/ Mention(r) \/ Reply(r) \/ Store(r)
  BY <1>3 DEF Like, Announce, Mention, Reply, Store, Places, Handling
<1>4. CASE Find(r) \/ Remove(r) \/ Row(r) \/ Erase(r)
  BY <1>4 DEF Find, Remove, Row, Erase, Places, Handling, AfterCache
<1>5. CASE Fail(r)
  BY <1>5 DEF Fail, Places, Handling
<1> QED
  BY <1>1, <1>2, <1>3, <1>4, <1>5

\* Types of what a handler writes.
LEMMA StoresAreTyped ==
    ASSUME InboxTypes, NEW r \in Requests,
           \/ Unreachable(r) \/ Judge(r) \/ Check(r) \/ IsFollowee(r)
           \/ Like(r) \/ Announce(r) \/ Mention(r) \/ Reply(r)
           \/ Find(r) \/ Remove(r) \/ Row(r) \/ Erase(r)
           \/ Fail(r) \/ FetchKey(r)
    PROVE  /\ cached' \subseteq cached /\ rows' \subseteq rows
           /\ notes' \subseteq notes \cup ({r} \X {"favourite", "reblog", "mention", "reply"})
           /\ gone' \subseteq Posts /\ late' \subseteq Posts
<1>0. gone \subseteq Posts /\ late \subseteq Posts
  BY DEF InboxTypes, InboxTypeOK
<1>1. CASE \/ Unreachable(r) \/ Judge(r) \/ Check(r) \/ IsFollowee(r)
           \/ Find(r) \/ Fail(r) \/ FetchKey(r)
  BY <1>0, <1>1 DEF Unreachable, Judge, Check, IsFollowee, Find, Fail, FetchKey, storeVars
<1>2. CASE Like(r) \/ Announce(r) \/ Mention(r) \/ Reply(r)
  BY <1>0, <1>2 DEF Like, Announce, Mention, Reply
<1>3. CASE Remove(r)
  BY <1>0, <1>3 DEF Remove, AfterCache
<1>4. CASE Row(r)
  BY <1>0, <1>4 DEF Row, Answered, Owns
<1>5. CASE Erase(r)
  BY <1>0, <1>5 DEF Erase, Answered, Owns
<1> QED
  BY <1>1, <1>2, <1>3, <1>4, <1>5

\* No step of a handler makes room in the limiter but the one that asks it.
LEMMA LimiterAsked ==
    ASSUME InboxTypes, InboxNext
    PROVE  \/ Tick \/ UNCHANGED limiterVars
           \/ \E d \in Domains : Admit(d) \/ Refuse(d)
<1>1. CASE Senders
  BY <1>1 DEF Senders, Sign, Rotate, Take
<1>2. CASE Administrator
  BY <1>2 DEF Administrator, BlockDomain, CreateDomainBlockV1, UnblockDomain,
              KeepRead, KeepWrite
<1>3. CASE InboxTick
  BY <1>3 DEF InboxTick
<1>4. ASSUME NEW r \in Requests, Judge(r)
      PROVE  \/ UNCHANGED limiterVars
             \/ \E d \in Domains : Admit(d) \/ Refuse(d)
  <2>1. req[r].pc = "judge"
    BY <1>4 DEF Judge
  <2>2. req[r].act \in Acts
    BY <2>1 DEF InboxTypes, InboxTypeOK, Carries
  <2>3. DomainOf[ActorOf(r)] \in Domains
    BY <2>2, Says DEF ActorOf
  <2> QED
    BY <1>4, <2>3 DEF Judge
<1>5. ASSUME NEW r \in Requests,
             \/ Unreachable(r) \/ FetchKey(r) \/ Check(r) \/ IsFollowee(r)
             \/ Like(r) \/ Announce(r) \/ Mention(r) \/ Reply(r) \/ Store(r)
             \/ Find(r) \/ Remove(r) \/ Row(r) \/ Erase(r)
             \/ Fail(r)
      PROVE  UNCHANGED limiterVars
  BY <1>5 DEF Unreachable, FetchKey, Check, IsFollowee, Like, Announce, Mention,
     Reply, Store, Find, Remove, Row, Erase, Fail
<1> QED
  BY <1>1, <1>2, <1>3, <1>4, <1>5 DEF InboxNext, Handle

LEMMA InboxTypesStep == InboxTypes /\ [InboxNext]_inboxVars => InboxTypes'
<1> SUFFICES ASSUME InboxTypes, [InboxNext]_inboxVars PROVE InboxTypes'
  OBVIOUS
<1>0. /\ InboxTypeOK /\ Carries /\ LimiterTypeOK
      /\ req \in [Requests -> ARequest] /\ world \in Worlds
      /\ published \in [Authors -> 0..MaxKeys] /\ sent \subseteq Signature
      /\ now \in 0..MaxTime
  BY DEF InboxTypes, InboxTypeOK, LimiterTypeOK, ARequest, Places
<1>1. CASE UNCHANGED inboxVars
  BY <1>1 DEF inboxVars, storeVars, limiterVars, InboxTypes, InboxTypeOK, LimiterTypeOK,
              Carries
<1>2. CASE InboxNext
  <2>1. LimiterTypeOK'
    BY <1>0, <1>2, LimiterAsked, LimiterStep
  <2>2. ASSUME NEW a \in Acts, Sign(a) PROVE InboxTypes'
    <3>1. [act |-> a, key |-> published[Act[a].actor], date |-> now] \in Signature
      BY <1>0, Says DEF Signature
    <3>2. sent' \subseteq Signature /\ sent \subseteq sent'
          /\ UNCHANGED <<world, published, req, blocks, keep, storeVars>>
      BY <2>2, <3>1, <1>0 DEF Sign
    <3> QED
      BY <3>2, <2>1, <1>0 DEF InboxTypes, InboxTypeOK, Carries, storeVars
  <2>3. ASSUME NEW a \in Authors, Rotate(a) PROVE InboxTypes'
    <3>1. published' \in [Authors -> 0..MaxKeys]
      BY <2>3, <1>0, InboxAssumption DEF Rotate
    <3> QED
      BY <2>3, <3>1, <2>1, <1>0 DEF Rotate, InboxTypes, InboxTypeOK, Carries, storeVars
  <2>4. ASSUME NEW r \in Requests, NEW m \in sent, NEW a \in Acts, Take(r, m, a)
        PROVE  InboxTypes'
    <3> DEFINE new == [pc |-> "fetch", act |-> a, signed |-> m.act, key |-> m.key,
                       date |-> m.date, pem |-> 0,
                       barred |-> <<DomainOf[Act[a].actor], "lower">> \in blocks]
    <3>1. m \in Signature /\ m = [act |-> m.act, key |-> m.key, date |-> m.date]
      BY <1>0 DEF Signature
    <3>2. new.barred \in BOOLEAN
      OBVIOUS
    <3>3. new \in ARequest
      BY <3>1, <3>2, InboxAssumption DEF ARequest, Places, Signature
    <3>4. req' = [req EXCEPT ![r] = new]
          /\ UNCHANGED <<world, published, sent, blocks, keep, storeVars>>
      BY <2>4 DEF Take
    <3>5. req' \in [Requests -> ARequest]
      BY <3>3, <3>4, <1>0
    <3>6. Carries'
      <4>1. /\ new.pc = "fetch" /\ new.act = a /\ a # Nobody
            /\ [act |-> new.signed, key |-> new.key, date |-> new.date] = m
        BY <3>1, InboxAssumption
      <4> HIDE DEF new
      <4> QED
        BY <4>1, <3>4, <1>0 DEF Carries
    <3> QED
      BY <3>4, <3>5, <3>6, <2>1, <1>0
         DEF InboxTypes, InboxTypeOK, storeVars, ARequest, Places
  <2>5. ASSUME NEW r \in Requests, FetchKey(r) PROVE InboxTypes'
    <3>1. /\ req[r].pc = "fetch" /\ req[r].act \in Acts
          /\ req' = [req EXCEPT ![r].pc = "judge", ![r].pem = published[ActorOf(r)]]
          /\ UNCHANGED <<world, published, sent, blocks, keep, storeVars>>
      BY <2>5, <1>0 DEF FetchKey, Carries, ARequest
    <3>2. published[ActorOf(r)] \in 0..MaxKeys
      BY <3>1, <1>0, Says DEF ActorOf
    <3>3. /\ req'[r] = [req[r] EXCEPT !.pc = "judge", !.pem = published[ActorOf(r)]]
          /\ \A q \in Requests \ {r} : req'[q] = req[q]
          /\ DOMAIN req' = Requests /\ req' = [q \in Requests |-> req'[q]]
      BY <3>1, <1>0
    <3>4. req'[r] \in ARequest
      BY ZenonT(30), <3>2, <3>3, <1>0 DEF ARequest, Places
    <3>5. req' \in [Requests -> ARequest]
      BY <3>3, <3>4, <1>0
    <3>6. /\ req'[r].pc = "judge" /\ req'[r].act = req[r].act
          /\ req'[r].barred = req[r].barred /\ req'[r].signed = req[r].signed
          /\ req'[r].key = req[r].key /\ req'[r].date = req[r].date
      BY <3>3, <1>0 DEF ARequest
    <3>7. Carries'
      BY <3>1, <3>3, <3>6, <1>0 DEF Carries
    <3> QED
      BY <3>1, <3>5, <3>7, <2>1, <1>0
         DEF InboxTypes, InboxTypeOK, storeVars, ARequest, Places
  <2>6. ASSUME NEW r \in Requests,
               \/ Unreachable(r) \/ Judge(r) \/ Check(r) \/ IsFollowee(r)
               \/ Like(r) \/ Announce(r) \/ Mention(r) \/ Reply(r) \/ Store(r)
               \/ Find(r) \/ Remove(r) \/ Row(r) \/ Erase(r)
               \/ Fail(r)
        PROVE  InboxTypes'
    <3>1. /\ req[r].pc \notin {"idle", "done"}
          /\ UNCHANGED <<world, published, sent, blocks, keep>>
      BY <2>6, HandlerMoves
    <3>2. PICK s \in Places \ {"idle"} : GoesTo(r, s)
      BY <2>6, HandlerMoves
    <3>3. /\ req' \in [Requests -> ARequest]
          /\ \A q \in Requests :
                /\ req'[q].pc = IF q = r THEN s ELSE req[q].pc
                /\ req'[q].act = req[q].act /\ req'[q].signed = req[q].signed
                /\ req'[q].key = req[q].key /\ req'[q].date = req[q].date
                /\ req'[q].pem = req[q].pem /\ req'[q].barred = req[q].barred
      BY <3>2, <1>0, OneMoves
    <3>4. Carries'
      BY <3>1, <3>3, <1>0 DEF Carries
    <3>5. /\ cached' \subseteq Posts \cup {Own} /\ rows' \subseteq Posts
          /\ notes' \subseteq Requests \X {"favourite", "reblog", "mention", "reply"}
          /\ gone' \subseteq Posts /\ late' \subseteq Posts
      <4>1. CASE Store(r)
        <5>1. req[r].pc = "store" /\ cached' = cached \cup {AboutPost(r)}
              /\ UNCHANGED <<rows, notes, gone, late>>
          BY <4>1 DEF Store
        <5>2. AboutPost(r) \in Posts \cup {Own}
          BY <5>1, <1>0, Says DEF Carries, ARequest, AboutPost
        <5> QED
          BY <5>1, <5>2, <1>0 DEF InboxTypeOK
      <4>2. CASE ~Store(r)
        BY <4>2, <2>6, <1>0, StoresAreTyped DEF InboxTypeOK
      <4> QED
        BY <4>1, <4>2
    <3> QED
      BY <3>1, <3>3, <3>4, <3>5, <2>1, <1>0
         DEF InboxTypes, InboxTypeOK, ARequest, Places
  <2>7. ASSUME NEW d \in Domains, BlockDomain(d) PROVE InboxTypes'
    <3>1. /\ blocks' = blocks \cup {<<d, "lower">>}
          /\ UNCHANGED <<world, published, sent, keep, storeVars>>
      BY <2>7 DEF BlockDomain
    <3>2. ASSUME NEW q \in Requests
          PROVE  /\ req'[q] \in ARequest
                 /\ req'[q].pc = req[q].pc /\ req'[q].act = req[q].act
                 /\ req'[q].signed = req[q].signed
                 /\ req'[q].key = req[q].key /\ req'[q].date = req[q].date
                 /\ req[q].pc = "idle" /\ req'[q].barred => req[q].barred
      <4>1. CASE req'[q] = req[q]
        BY <4>1, <1>0
      <4>2. CASE req'[q] # req[q]
        <5>1. PICK b \in BOOLEAN : req'[q] = [req[q] EXCEPT !.barred = b]
          BY <4>2, <2>7 DEF BlockDomain
        <5>2. req[q].pc # "idle"
          BY <4>2, <2>7 DEF BlockDomain
        <5>3. req[q] \in ARequest
          BY <1>0
        <5>4. /\ req'[q] \in ARequest
              /\ req'[q].pc = req[q].pc /\ req'[q].act = req[q].act
              /\ req'[q].signed = req[q].signed
              /\ req'[q].key = req[q].key /\ req'[q].date = req[q].date
          BY <5>1, <5>3, OnlyBarred
        <5> QED
          BY <5>2, <5>4
      <4> QED
        BY <4>1, <4>2
    <3>3. req' \in [Requests -> ARequest] /\ Carries'
      <4>1. req' = [q \in Requests |-> req'[q]]
        BY <2>7 DEF BlockDomain
      <4> QED
        BY <4>1, <3>1, <3>2, <1>0 DEF Carries
    <3> QED
      BY <3>1, <3>3, <2>1, <1>0
         DEF InboxTypes, InboxTypeOK, storeVars, ARequest, Places
  <2>8. ASSUME NEW d \in Domains, UnblockDomain(d) PROVE InboxTypes'
    <3>1. /\ blocks' \subseteq blocks
          /\ UNCHANGED <<world, published, sent, keep, storeVars>>
      BY <2>8 DEF UnblockDomain
    <3>2. ASSUME NEW q \in Requests
          PROVE  /\ req'[q] \in ARequest
                 /\ req'[q].pc = req[q].pc /\ req'[q].act = req[q].act
                 /\ req'[q].signed = req[q].signed
                 /\ req'[q].key = req[q].key /\ req'[q].date = req[q].date
                 /\ req'[q].barred => req[q].barred
      <4>1. CASE req'[q] = req[q]
        BY <4>1, <1>0
      <4>2. CASE req'[q] # req[q]
        <5>1. req'[q] = [req[q] EXCEPT !.barred = FALSE]
          BY <4>2, <2>8 DEF UnblockDomain
        <5>2. req[q] \in ARequest
          BY <1>0
        <5> QED
          BY ZenonT(30), <5>1, <5>2, OnlyBarred
      <4> QED
        BY <4>1, <4>2
    <3>3. req' \in [Requests -> ARequest] /\ Carries'
      <4>1. req' = [q \in Requests |-> req'[q]]
        BY <2>8 DEF UnblockDomain
      <4> QED
        BY <4>1, <3>1, <3>2, <1>0 DEF Carries
    <3> QED
      BY <3>1, <3>3, <2>1, <1>0
         DEF InboxTypes, InboxTypeOK, storeVars, ARequest, Places
  <2>9. ASSUME NEW d \in Domains, CreateDomainBlockV1(d) PROVE InboxTypes'
    BY <2>9, <2>1, <1>0
       DEF CreateDomainBlockV1, InboxTypes, InboxTypeOK, Carries, storeVars
  <2>10. ASSUME NEW p \in Posts, KeepRead(p) \/ KeepWrite(p) PROVE InboxTypes'
    <3>1. /\ keep' \in [Posts -> {"idle", "write"}] /\ rows' \subseteq Posts
          /\ UNCHANGED <<world, published, sent, req, blocks, cached, notes, gone, late>>
      BY <2>10, <1>0 DEF KeepRead, KeepWrite, InboxTypeOK, storeVars
    <3> QED
      BY <3>1, <2>1, <1>0 DEF InboxTypes, InboxTypeOK, Carries
  <2>11. CASE InboxTick
    BY <2>11, <2>1, <1>0 DEF InboxTick, InboxTypes, InboxTypeOK, Carries, storeVars
  <2>12. Traffic[world].offered \subseteq Acts /\ Blockable \subseteq Domains
    BY <1>0, InboxAssumption
  <2>13. CASE Senders
    BY <2>13, <2>2, <2>3, <2>4, <2>12 DEF Senders
  <2>14. CASE Handle
    BY <2>14, <2>5, <2>6 DEF Handle
  <2>15. CASE Administrator
    BY <2>15, <2>7, <2>8, <2>9, <2>10, <2>12 DEF Administrator
  <2> QED
    BY <1>2, <2>11, <2>13, <2>14, <2>15 DEF InboxNext
<1> QED
  BY <1>1, <1>2

\* The limiter's table keeps within its limit, and requests and tables are what
\* they are meant to be.
THEOREM InboxTypeCorrect == InboxSpec => []InboxTypeOK
<1>1. InboxTypes => InboxTypeOK
  BY DEF InboxTypes
<1> QED
  BY <1>1, InboxTypesInit, InboxTypesStep, PTL DEF InboxSpec

-----------------------------------------------------------------------------
(* Signatures, blocks and notifications.                                   *)

\* Where a request may be: past the limiter only if its body is the one that was
\* signed, in a handler only if its domain was not blocked before, and in the
\* handler of what it says.
MayBe(q, s) ==
    /\ s \in {"check"} \cup Handling => q.act = q.signed
    /\ s \in Handling => ~q.barred
    /\ s \in {"find", "remove", "row", "erase"} => Act[q.act].type = "Delete"
    /\ s \in {"store", "followee"} => Act[q.act].type = "Create"
    /\ s = "mention" => Act[q.act].mentions

Placed == \A r \in Requests : MayBe(req[r], req[r].pc)

\* A request is barred while the block it has met stands.
Barred ==
    \A r \in Requests : req[r].barred => <<DomainOf[ActorOf(r)], "lower">> \in blocks

\* What the owner's request has read was signed as well.
Stored ==
    /\ OnlySigned
    /\ \A p \in Posts : keep[p] = "write" => \E r \in Genuine : AboutPost(r) = p

\* A request has ended when it has notified.
Noted ==
    /\ OneNotePerDelivery
    /\ \A n \in notes : req[n[1]].pc = "done"

InboxInv == Placed /\ Barred /\ Stored /\ Noted

LEMMA InboxInvInit == InboxInit => InboxInv
  BY InboxAssumption
     DEF InboxInit, InboxInv, Placed, MayBe, Barred, Stored, OnlySigned, Noted,
         OneNotePerDelivery, Waiting, Handling

\* Requests that keep what they carry keep what was signed.
LEMMA StaysGenuine ==
    ASSUME \A q \in Requests :
               req[q].act # Nobody =>
                   req'[q].act = req[q].act /\ req'[q].signed = req[q].signed
    PROVE  \A q \in Genuine : q \in Genuine' /\ AboutPost(q)' = AboutPost(q)
  BY DEF Genuine, AboutPost

\* One request moves to where it may be, and nothing is stored.
LEMMA MoveInv ==
    ASSUME InboxTypes, InboxInv, NEW r \in Requests, NEW s \in Places,
           GoesTo(r, s), req[r].pc \notin {"idle", "done"}, MayBe(req[r], s),
           UNCHANGED blocks
    PROVE  /\ Placed' /\ Barred'
           /\ \A q \in Genuine : q \in Genuine' /\ AboutPost(q)' = AboutPost(q)
           /\ \A n \in notes : n[1] # r /\ req'[n[1]].pc = "done"
           /\ UNCHANGED <<cached, rows, keep, notes>> => InboxInv'
<1>0. req \in [Requests -> ARequest]
  BY DEF InboxTypes, InboxTypeOK, ARequest, Places
<1>1. \A q \in Requests :
          /\ req'[q].pc = IF q = r THEN s ELSE req[q].pc
          /\ req'[q].act = req[q].act /\ req'[q].signed = req[q].signed
          /\ req'[q].key = req[q].key /\ req'[q].date = req[q].date
          /\ req'[q].pem = req[q].pem /\ req'[q].barred = req[q].barred
  BY <1>0, OneMoves
<1>2. Placed'
  BY <1>1 DEF InboxInv, Placed, MayBe
<1>3. Barred'
  BY <1>1 DEF InboxInv, Barred, ActorOf
<1>4. \A q \in Genuine : q \in Genuine' /\ AboutPost(q)' = AboutPost(q)
  BY <1>1, StaysGenuine
<1>5. \A n \in notes : n[1] # r /\ req'[n[1]].pc = "done"
  <2> SUFFICES ASSUME NEW n \in notes PROVE n[1] # r /\ req'[n[1]].pc = "done"
    OBVIOUS
  <2>1. n[1] \in Requests /\ req[n[1]].pc = "done"
    BY DEF InboxInv, Noted, InboxTypes, InboxTypeOK
  <2> QED
    BY <2>1, <1>1
<1>6. ASSUME UNCHANGED <<cached, rows, keep, notes>> PROVE InboxInv'
  <2>1. Stored'
    BY <1>4, <1>6 DEF InboxInv, Stored, OnlySigned
  <2>2. Noted'
    BY <1>5, <1>6 DEF InboxInv, Noted, OneNotePerDelivery
  <2> QED
    BY <1>2, <1>3, <2>1, <2>2 DEF InboxInv
<1> QED
  BY <1>2, <1>3, <1>4, <1>5, <1>6


\* Where a request of a delete, a create or any other activity goes.
LEMMA MovesFit ==
    ASSUME InboxTypes, InboxInv, NEW r \in Requests,
           \/ Unreachable(r) \/ Judge(r) \/ Check(r) \/ IsFollowee(r) \/ Find(r)
           \/ Fail(r)
    PROVE  \E s \in Places : GoesTo(r, s) /\ MayBe(req[r], s)
<1>0. /\ req[r].pc # "idle" => req[r].act \in Acts
      /\ MayBe(req[r], req[r].pc)
      /\ req[r].barred => <<DomainOf[ActorOf(r)], "lower">> \in blocks
  BY DEF InboxTypes, InboxTypeOK, Carries, InboxInv, Placed, Barred
<1>1. CASE Unreachable(r) \/ Fail(r)
  BY <1>1 DEF Unreachable, Fail, MayBe, Handling, Places
<1>2. CASE Judge(r)
  BY <1>2 DEF Judge, Charges, Verified, MayBe, Handling, Places
<1>3. CASE Find(r)
  BY <1>3, <1>0 DEF Find, MayBe, Handling, Places
<1>4. CASE Check(r)
  <2>1. req[r].pc = "check" /\ req[r].act \in Acts /\ req[r].act = req[r].signed
    BY <1>4, <1>0 DEF Check, MayBe
  <2>2. CASE IsBlocked(DomainOf[ActorOf(r)])
    BY <1>4, <2>2 DEF Check, MayBe, Handling, Places
  <2>3. CASE ~IsBlocked(DomainOf[ActorOf(r)]) /\ Act[req[r].act].type = "Create"
    BY <1>4, <1>0, <2>1, <2>3 DEF Check, IsBlocked, MayBe, Handling, Places
  <2>4. CASE ~IsBlocked(DomainOf[ActorOf(r)]) /\ Act[req[r].act].type # "Create"
    <3>1. /\ Handler(Act[req[r].act], FALSE)
                 \in {"done", "like", "announce", "mention", "reply", "store", "find"}
          /\ Handler(Act[req[r].act], FALSE) = "store" => Act[req[r].act].type = "Create"
          /\ Handler(Act[req[r].act], FALSE) = "find" => Act[req[r].act].type = "Delete"
          /\ Handler(Act[req[r].act], FALSE) = "mention" => Act[req[r].act].mentions
      BY <2>1, Says, HandlerFits
    <3>2. GoesTo(r, Handler(Act[req[r].act], FALSE))
      BY <1>4, <2>4 DEF Check
    <3>3. MayBe(req[r], Handler(Act[req[r].act], FALSE))
      BY <3>1, <2>1, <2>4, <1>0 DEF IsBlocked, MayBe, Handling
    <3> QED
      BY <3>1, <3>2, <3>3 DEF Places, Handling
  <2> QED
    BY <2>2, <2>3, <2>4
<1>5. CASE IsFollowee(r)
  <2>1. /\ req[r].pc = "followee" /\ req[r].act \in Acts
        /\ req[r].act = req[r].signed /\ ~req[r].barred
        /\ Act[req[r].act].type = "Create"
    BY <1>5, <1>0 DEF IsFollowee, MayBe, Handling
  <2>2. PICK yes \in {ActorOf(r) \in Followees, FALSE} :
            GoesTo(r, Handler(Act[req[r].act], yes))
    BY <1>5 DEF IsFollowee
  <2>3. yes \in BOOLEAN
    <3>1. CASE ActorOf(r) \in Followees
      <4>1. (ActorOf(r) \in Followees) = TRUE
        BY <3>1
      <4> QED
        BY <4>1
    <3>2. CASE ~(ActorOf(r) \in Followees)
      <4>1. (ActorOf(r) \in Followees) = FALSE
        BY <3>2
      <4> QED
        BY <4>1
    <3> QED
      BY <3>1, <3>2
  <2>4. /\ Handler(Act[req[r].act], yes)
               \in {"done", "like", "announce", "mention", "reply", "store", "find"}
        /\ Handler(Act[req[r].act], yes) = "store" => Act[req[r].act].type = "Create"
        /\ Handler(Act[req[r].act], yes) = "find" => Act[req[r].act].type = "Delete"
        /\ Handler(Act[req[r].act], yes) = "mention" => Act[req[r].act].mentions
    BY <2>1, <2>3, Says, HandlerFits
  <2>5. MayBe(req[r], Handler(Act[req[r].act], yes))
    BY <2>4, <2>1 DEF MayBe, Handling
  <2> QED
    BY <2>2, <2>4, <2>5 DEF Places, Handling
<1> QED
  BY <1>1, <1>2, <1>3, <1>4, <1>5

\* A handler that notifies ends.
LEMMA NotingInv ==
    ASSUME InboxTypes, InboxInv, NEW r \in Requests,
           Like(r) \/ Announce(r) \/ Mention(r) \/ Reply(r)
    PROVE  InboxInv'
<1>0. /\ req[r].pc \in {"like", "announce", "mention", "reply"}
      /\ req[r].act \in Acts /\ req[r].act = req[r].signed
      /\ UNCHANGED <<blocks, keep, cached, rows>>
  BY DEF Like, Announce, Mention, Reply, InboxTypes, InboxTypeOK, Carries,
         InboxInv, Placed, MayBe, Handling
<1>1. GoesTo(r, "done")
  <2>1. CASE Mention(r)
    <3>1. Act[req[r].act].mentions
      BY <2>1 DEF Mention, InboxInv, Placed, MayBe
    <3> QED
      BY <2>1, <3>1 DEF Mention, IsReplyOnly
  <2> QED
    BY <2>1 DEF Like, Announce, Reply
<1>2. MayBe(req[r], "done")
  BY DEF MayBe, Handling
<1>3. /\ Placed' /\ Barred'
      /\ \A q \in Genuine : q \in Genuine' /\ AboutPost(q)' = AboutPost(q)
      /\ \A n \in notes : n[1] # r /\ req'[n[1]].pc = "done"
  BY <1>0, <1>1, <1>2, MoveInv DEF Places
<1>4. PICK k : notes' = notes \cup {<<r, k>>}
  BY DEF Like, Announce, Mention, Reply
<1>5. r \in Genuine' /\ req'[r].pc = "done"
  <2>1. r \in Genuine
    BY <1>0, InboxAssumption DEF Genuine
  <2>2. req'[r].pc = "done"
    BY <1>1, OneMoves DEF InboxTypes, InboxTypeOK, ARequest, Places
  <2> QED
    BY <2>1, <2>2, <1>3
<1>6. Stored'
  BY <1>0, <1>3, <1>4, <1>5 DEF InboxInv, Stored, OnlySigned
<1>7. Noted'
  <2>1. \A n \in notes' : req'[n[1]].pc = "done"
    BY <1>3, <1>4, <1>5
  <2>2. \A n, o \in notes' : n[1] = o[1] => n = o
    BY <1>3, <1>4 DEF InboxInv, Noted, OneNotePerDelivery
  <2> QED
    BY <2>1, <2>2 DEF Noted, OneNotePerDelivery
<1> QED
  BY <1>3, <1>6, <1>7 DEF InboxInv

\* A handler writes to the cache or the tables.
LEMMA WritingInv ==
    ASSUME InboxTypes, InboxInv, NEW r \in Requests,
           Store(r) \/ Remove(r) \/ Row(r) \/ Erase(r)
    PROVE  InboxInv'
<1>0. /\ req[r].pc \in {"store", "remove", "row", "erase"}
      /\ req[r].act \in Acts /\ req[r].act = req[r].signed /\ ~req[r].barred
      /\ req[r].pc # "store" => Act[req[r].act].type = "Delete"
      /\ UNCHANGED <<blocks, keep, notes>>
  BY DEF Store, Remove, Row, Erase, InboxTypes, InboxTypeOK, Carries,
         InboxInv, Placed, MayBe, Handling
<1>1. PICK s \in {"done", "row", "erase"} :
          GoesTo(r, s) /\ (s # "done" => req[r].pc # "store")
  BY DEF Store, Remove, Row, Erase, AfterCache
<1>2. MayBe(req[r], s) /\ s \in Places
  BY <1>0, <1>1 DEF MayBe, Handling, Places
<1>3. /\ Placed' /\ Barred'
      /\ \A q \in Genuine : q \in Genuine' /\ AboutPost(q)' = AboutPost(q)
      /\ \A n \in notes : n[1] # r /\ req'[n[1]].pc = "done"
  BY <1>0, <1>1, <1>2, MoveInv
<1>4. rows' \subseteq rows /\ cached' \subseteq cached \cup {AboutPost(r)}
  BY DEF Store, Remove, Row, Erase
<1>5. r \in Genuine
  BY <1>0, InboxAssumption DEF Genuine
<1>6. Stored'
  BY <1>0, <1>3, <1>4, <1>5 DEF InboxInv, Stored, OnlySigned
<1>7. Noted'
  BY <1>0, <1>3 DEF InboxInv, Noted, OneNotePerDelivery
<1> QED
  BY <1>3, <1>6, <1>7 DEF InboxInv

\* Requests change in nothing but being barred, and nothing is stored.
LEMMA BarringInv ==
    ASSUME InboxTypes, InboxInv, UNCHANGED <<cached, rows, keep, notes>>,
           \A q \in Requests :
               /\ req'[q].pc = req[q].pc /\ req'[q].act = req[q].act
               /\ req'[q].signed = req[q].signed
               /\ req'[q].barred =>
                      /\ <<DomainOf[ActorOf(q)], "lower">> \in blocks'
                      /\ req[q].barred \/ req[q].pc \notin Handling
    PROVE  InboxInv'
<1>1. Placed' /\ Barred'
  BY ZenonT(30) DEF InboxInv, Placed, MayBe, Barred, ActorOf
<1>2. \A q \in Genuine : q \in Genuine' /\ AboutPost(q)' = AboutPost(q)
  BY StaysGenuine
<1>3. Stored'
  BY <1>2 DEF InboxInv, Stored, OnlySigned
<1>4. Noted'
  <2>1. \A n \in notes : n[1] \in Requests
    BY DEF InboxTypes, InboxTypeOK
  <2> QED
    BY <2>1 DEF InboxInv, Noted, OneNotePerDelivery
<1> QED
  BY <1>1, <1>3, <1>4 DEF InboxInv

LEMMA InboxInvStep == InboxTypes /\ InboxInv /\ [InboxNext]_inboxVars => InboxInv'
<1> SUFFICES ASSUME InboxTypes, InboxInv, [InboxNext]_inboxVars PROVE InboxInv'
  OBVIOUS
<1>0. /\ req \in [Requests -> ARequest] /\ InboxTypeOK /\ Carries
      /\ \A q \in Requests : req[q].pc # "idle" => req[q].act \in Acts
  BY DEF InboxTypes, InboxTypeOK, Carries, ARequest, Places
<1>1. ASSUME UNCHANGED <<req, blocks, cached, rows, keep, notes>>
      PROVE  InboxInv'
  BY <1>1 DEF InboxInv, Placed, MayBe, Barred, ActorOf, Stored, OnlySigned, Genuine,
              AboutPost, Noted, OneNotePerDelivery
<1>2. ASSUME NEW a \in Acts, Sign(a) PROVE InboxInv'
  BY <1>1, <1>2 DEF Sign, storeVars
<1>3. ASSUME NEW a \in Authors, Rotate(a) PROVE InboxInv'
  BY <1>1, <1>3 DEF Rotate, storeVars
<1>4. ASSUME NEW r \in Requests, NEW m \in sent, NEW a \in Acts, Take(r, m, a)
      PROVE  InboxInv'
  <2> DEFINE new == [pc |-> "fetch", act |-> a, signed |-> m.act, key |-> m.key,
                     date |-> m.date, pem |-> 0,
                     barred |-> <<DomainOf[Act[a].actor], "lower">> \in blocks]
  <2>1. /\ req' = [req EXCEPT ![r] = new] /\ req[r] = Waiting
        /\ UNCHANGED <<cached, rows, keep, notes, blocks>>
    BY <1>4 DEF Take, storeVars
  <2>2. /\ new.pc = "fetch" /\ new.act = a
        /\ new.barred => <<DomainOf[Act[a].actor], "lower">> \in blocks
    OBVIOUS
  <2> HIDE DEF new
  <2>3. \A q \in Requests : req'[q] = IF q = r THEN new ELSE req[q]
    BY <2>1, <1>0
  <2>4. req[r].act = Nobody /\ req[r].pc = "idle"
    BY <2>1 DEF Waiting
  <2>5. Placed'
    BY <2>2, <2>3 DEF InboxInv, Placed, MayBe, Handling
  <2>6. Barred'
    BY <2>1, <2>2, <2>3 DEF InboxInv, Barred, ActorOf
  <2>7. \A q \in Genuine : q \in Genuine' /\ AboutPost(q)' = AboutPost(q)
    <3>1. \A q \in Requests :
              req[q].act # Nobody =>
                  req'[q].act = req[q].act /\ req'[q].signed = req[q].signed
      BY <2>3, <2>4
    <3> QED
      BY <3>1, StaysGenuine
  <2>8. Stored'
    BY <2>1, <2>7 DEF InboxInv, Stored, OnlySigned
  <2>9. \A n \in notes : n[1] \in Requests /\ req[n[1]].pc = "done"
    BY <1>0 DEF InboxInv, Noted, InboxTypeOK
  <2>10. \A n \in notes : req'[n[1]].pc = "done"
    BY <2>3, <2>4, <2>9
  <2>11. Noted'
    BY <2>1, <2>10 DEF InboxInv, Noted, OneNotePerDelivery
  <2> QED
    BY <2>5, <2>6, <2>8, <2>11 DEF InboxInv
<1>5. ASSUME NEW r \in Requests, FetchKey(r) PROVE InboxInv'
  <2>1. /\ \A q \in Requests :
              /\ req'[q].act = req[q].act /\ req'[q].signed = req[q].signed
              /\ req'[q].barred = req[q].barred
              /\ req'[q].pc = IF q = r THEN "judge" ELSE req[q].pc
        /\ UNCHANGED <<cached, rows, keep, notes, blocks>>
        /\ req[r].pc = "fetch"
    BY <1>5, <1>0 DEF FetchKey, ARequest, storeVars
  <2>2. Placed' /\ Barred'
    BY <2>1 DEF InboxInv, Placed, MayBe, Handling, Barred, ActorOf
  <2>3. \A q \in Genuine : q \in Genuine' /\ AboutPost(q)' = AboutPost(q)
    BY <2>1, StaysGenuine
  <2>4. Stored'
    BY <2>1, <2>3 DEF InboxInv, Stored, OnlySigned
  <2>5. \A n \in notes : n[1] \in Requests /\ req[n[1]].pc = "done"
    BY <1>0 DEF InboxInv, Noted, InboxTypeOK
  <2>6. \A n \in notes : req'[n[1]].pc = "done"
    BY <2>1, <2>5
  <2>7. Noted'
    BY <2>1, <2>6 DEF InboxInv, Noted, OneNotePerDelivery
  <2> QED
    BY <2>2, <2>4, <2>7 DEF InboxInv
<1>6. ASSUME NEW r \in Requests,
             \/ Unreachable(r) \/ Judge(r) \/ Check(r) \/ IsFollowee(r) \/ Find(r)
             \/ Fail(r)
      PROVE  InboxInv'
  <2>1. req[r].pc \notin {"idle", "done"} /\ UNCHANGED blocks
    BY <1>6, HandlerMoves
  <2>2. UNCHANGED <<cached, rows, keep, notes>>
    BY <1>6 DEF Unreachable, Judge, Check, IsFollowee, Find, Fail, storeVars
  <2>3. PICK s \in Places : GoesTo(r, s) /\ MayBe(req[r], s)
    BY <1>6, MovesFit
  <2> QED
    BY <2>1, <2>2, <2>3, MoveInv
<1>7. ASSUME NEW r \in Requests,
             \/ Like(r) \/ Announce(r) \/ Mention(r) \/ Reply(r)
             \/ Store(r) \/ Remove(r) \/ Row(r) \/ Erase(r)
      PROVE  InboxInv'
  BY <1>7, NotingInv, WritingInv
<1>8. ASSUME NEW d \in Domains, BlockDomain(d) PROVE InboxInv'
  <2>1. /\ blocks' = blocks \cup {<<d, "lower">>}
        /\ UNCHANGED <<keep, cached, rows, notes>>
    BY <1>8 DEF BlockDomain, storeVars
  <2>2. ASSUME NEW q \in Requests
        PROVE  /\ req'[q].pc = req[q].pc /\ req'[q].act = req[q].act
               /\ req'[q].signed = req[q].signed
               /\ req'[q].barred =>
                      /\ <<DomainOf[ActorOf(q)], "lower">> \in blocks'
                      /\ req[q].barred \/ req[q].pc \notin Handling
    <3>1. CASE req'[q] = req[q]
      BY <3>1, <2>1 DEF InboxInv, Barred
    <3>2. CASE req'[q] # req[q]
      <4>1. /\ req[q].pc \in {"fetch", "judge", "check"}
            /\ DomainOf[ActorOf(q)] = d
        BY <3>2, <1>8 DEF BlockDomain
      <4>2. PICK b \in BOOLEAN : req'[q] = [req[q] EXCEPT !.barred = b]
        BY <3>2, <1>8 DEF BlockDomain
      <4>3. req'[q].pc = req[q].pc /\ req'[q].act = req[q].act
            /\ req'[q].signed = req[q].signed
        BY <4>2, <1>0, OnlyBarred
      <4> QED
        BY <4>1, <4>3, <2>1 DEF Handling
    <3> QED
      BY <3>1, <3>2
  <2> QED
    BY <2>1, <2>2, BarringInv
<1>9. ASSUME NEW d \in Domains, UnblockDomain(d) PROVE InboxInv'
  <2>1. /\ blocks' = blocks \ {<<d, "lower">>}
        /\ UNCHANGED <<keep, cached, rows, notes>>
    BY <1>9 DEF UnblockDomain, storeVars
  <2>2. ASSUME NEW q \in Requests
        PROVE  /\ req'[q].pc = req[q].pc /\ req'[q].act = req[q].act
               /\ req'[q].signed = req[q].signed
               /\ req'[q].barred =>
                      /\ <<DomainOf[ActorOf(q)], "lower">> \in blocks'
                      /\ req[q].barred \/ req[q].pc \notin Handling
    <3>1. CASE req[q].act # Nobody /\ DomainOf[ActorOf(q)] = d
      <4>1. req'[q] = [req[q] EXCEPT !.barred = FALSE]
        BY <3>1, <1>9 DEF UnblockDomain
      <4> QED
        BY <4>1, <1>0, OnlyBarred
    <3>2. CASE ~(req[q].act # Nobody /\ DomainOf[ActorOf(q)] = d)
      <4>1. req'[q] = req[q]
        BY <3>2, <1>9 DEF UnblockDomain
      <4>2. req[q].barred => DomainOf[ActorOf(q)] # d
        BY <3>2, <1>0 DEF Carries
      <4> QED
        BY <4>1, <4>2, <2>1 DEF InboxInv, Barred
    <3> QED
      BY <3>1, <3>2
  <2> QED
    BY <2>1, <2>2, BarringInv
<1>10. ASSUME NEW d \in Domains, CreateDomainBlockV1(d) PROVE InboxInv'
  <2>1. /\ blocks \subseteq blocks' /\ UNCHANGED <<req, keep, cached, rows, notes>>
    BY <1>10 DEF CreateDomainBlockV1, storeVars
  <2> QED
    BY <2>1, BarringInv DEF InboxInv, Barred, Placed, MayBe
<1>11. ASSUME NEW p \in Posts, KeepRead(p) \/ KeepWrite(p) PROVE InboxInv'
  <2>1. UNCHANGED <<req, blocks, cached, notes>>
    BY <1>11 DEF KeepRead, KeepWrite, storeVars
  <2>2. Genuine' = Genuine /\ \A r \in Requests : AboutPost(r)' = AboutPost(r)
    BY <2>1 DEF Genuine, AboutPost
  <2>3. keep \in [Posts -> {"idle", "write"}]
    BY <1>0 DEF InboxTypeOK
  <2>4. Stored'
    <3>1. CASE KeepRead(p)
      <4>1. p \in cached /\ keep' = [keep EXCEPT ![p] = "write"] /\ rows' = rows
        BY <3>1 DEF KeepRead, storeVars
      <4> QED
        BY <4>1, <2>1, <2>2, <2>3 DEF InboxInv, Stored, OnlySigned, Genuine
    <3>2. CASE KeepWrite(p)
      <4>1. /\ keep[p] = "write" /\ keep' = [keep EXCEPT ![p] = "idle"]
            /\ rows' = rows \cup {p}
        BY <3>2 DEF KeepWrite
      <4> QED
        BY <4>1, <2>1, <2>2, <2>3 DEF InboxInv, Stored, OnlySigned, Genuine
    <3> QED
      BY <1>11, <3>1, <3>2
  <2>5. Placed' /\ Barred' /\ Noted'
    BY <2>1 DEF InboxInv, Placed, MayBe, Barred, ActorOf, Noted, OneNotePerDelivery
  <2> QED
    BY <2>4, <2>5 DEF InboxInv
<1>12. CASE InboxTick
  BY <1>1, <1>12 DEF InboxTick, storeVars
<1>13. CASE UNCHANGED inboxVars
  BY <1>1, <1>13 DEF inboxVars, storeVars
<1>14. Traffic[world].offered \subseteq Acts /\ Blockable \subseteq Domains
  BY <1>0, InboxAssumption DEF InboxTypeOK
<1>15. CASE Senders
  BY <1>15, <1>2, <1>3, <1>4, <1>14 DEF Senders
<1>16. CASE Handle
  BY <1>16, <1>5, <1>6, <1>7 DEF Handle
<1>17. CASE Administrator
  BY <1>17, <1>8, <1>9, <1>10, <1>11, <1>14 DEF Administrator
<1> QED
  BY <1>12, <1>13, <1>15, <1>16, <1>17 DEF InboxNext

LEMMA InboxInvAlways == InboxSpec => [](InboxTypes /\ InboxInv)
  BY InboxTypesInit, InboxTypesStep, InboxInvInit, InboxInvStep, PTL DEF InboxSpec

\* A note, a cached post and a kept post have a request behind them whose body is
\* the one that was signed.
THEOREM OnlySignedHolds == InboxSpec => []OnlySigned
<1>1. InboxInv => OnlySigned
  BY DEF InboxInv, Stored
<1> QED
  BY <1>1, InboxInvAlways, PTL

\* No request that a block has met is in a handler.
THEOREM BlockedIsOutHolds == InboxSpec => []BlockedIsOut
<1>1. InboxInv => BlockedIsOut
  BY DEF InboxInv, Placed, MayBe, BlockedIsOut
<1> QED
  BY <1>1, InboxInvAlways, PTL

\* One delivery makes one notification at most.
THEOREM OneNoteHolds == InboxSpec => []OneNotePerDelivery
<1>1. InboxInv => OneNotePerDelivery
  BY DEF InboxInv, Noted
<1> QED
  BY <1>1, InboxInvAlways, PTL

\* What charges the limiter is a verified request, whose message was signed.
THEOREM ChargedIsFreshHolds == InboxSpec => ChargedIsFresh
<1> DEFINE Fresh == entries' # entries \/ admitted' # admitted
                    => \E r \in Genuine, m \in sent :
                          /\ req[r].pc = "judge" /\ req'[r].pc # "judge"
                          /\ m.act = req[r].act
                          /\ m.key = req[r].pem
                          /\ now - m.date <= DateWindow
<1>1. ASSUME InboxTypes, InboxNext, entries' # entries \/ admitted' # admitted
      PROVE  \E r \in Genuine, m \in sent :
                          /\ req[r].pc = "judge" /\ req'[r].pc # "judge"
                          /\ m.act = req[r].act
                          /\ m.key = req[r].pem
                          /\ now - m.date <= DateWindow
  <2>1. ~Senders
    BY <1>1 DEF Senders, Sign, Rotate, Take, limiterVars
  <2>2. ~Administrator
    BY <1>1 DEF Administrator, BlockDomain, CreateDomainBlockV1, UnblockDomain,
                KeepRead, KeepWrite, limiterVars
  <2>3. ~InboxTick
    BY <1>1 DEF InboxTick, Tick
  <2>4. PICK r \in Requests : Judge(r) /\ Charges(req[r])
    BY <1>1, <2>1, <2>2, <2>3 DEF InboxNext, Handle, Unreachable, FetchKey, Judge,
       Check, IsFollowee, Like, Announce, Mention, Reply, Store, Find, Remove, Row,
       Erase, Fail, limiterVars
  <2>5. /\ req[r].pc = "judge" /\ Verified(req[r])
        /\ \E s \in {"check", "done"} : GoesTo(r, s)
    BY <2>4 DEF Judge, Charges
  <2>6. req'[r].pc # "judge"
    BY <2>5, <1>1, OneMoves DEF InboxTypes, InboxTypeOK, ARequest, Places
  <2>7. req[r].act \in Acts /\ r \in Genuine
    BY <2>5, <1>1, InboxAssumption
       DEF InboxTypes, InboxTypeOK, Carries, Verified, Genuine
  <2> DEFINE m == [act |-> req[r].signed, key |-> req[r].key, date |-> req[r].date]
  <2>8. m \in sent
    BY <2>7, <1>1, InboxAssumption DEF InboxTypes, Carries
  <2>9. m.act = req[r].act /\ m.key = req[r].pem /\ now - m.date <= DateWindow
    BY <2>5 DEF Verified
  <2> QED
    BY <2>5, <2>6, <2>7, <2>8, <2>9
<1>2. InboxTypes /\ [InboxNext]_inboxVars => [Fresh]_inboxVars
  BY <1>1
<1>3. InboxSpec => []InboxTypes
  BY InboxTypesInit, InboxTypesStep, PTL DEF InboxSpec
<1>4. InboxSpec => [][Fresh]_inboxVars
  BY <1>2, <1>3, PTL DEF InboxSpec
<1> QED
  BY <1>4 DEF ChargedIsFresh

-----------------------------------------------------------------------------
(* Deletes in a calm world.                                                *)

Deletes(r) == req[r].act # Nobody /\ Act[req[r].act].type = "Delete"

\* Nothing else about a post is on its way when its Delete has come.
Quiet ==
    \A r, q \in Requests :
        /\ Deletes(r) /\ req[q].act # Nobody /\ ~Deletes(q)
        /\ AboutPost(r) = AboutPost(q)
        => req[q].pc = "done"

\* What is gone was deleted by a request.
Answers == \A p \in gone : \E r \in Requests : Deletes(r) /\ AboutPost(r) = p

\* A Delete that is past the cache has left no copy there.
Emptied ==
    \A r \in Requests :
        /\ req[r].pc \in {"remove", "erase"} => Owns(r)
        /\ req[r].pc \in {"row", "erase"} /\ Owns(r) => AboutPost(r) \notin cached

\* A copy that the owner's request still holds when the row was looked for.
TooLate ==
    \A p \in Posts :
        /\ p \in gone \/ \E r \in Requests : req[r].pc = "erase" /\ AboutPost(r) = p
        /\ keep[p] = "write"
        => p \in late

NoCopy == \A p \in gone : p \notin cached
NoRow  == \A p \in gone : p \in rows => p \in late

CalmInv ==
    "calm" \in world => Quiet /\ Answers /\ Emptied /\ TooLate /\ NoCopy /\ NoRow

LEMMA CalmInvInit == InboxInit => CalmInv
  BY DEF InboxInit, CalmInv, Quiet, Deletes, Answers, Emptied, TooLate, NoCopy, NoRow,
         Waiting

\* Requests stay what they are about.
LEMMA StaysAbout ==
    ASSUME NEW q \in Requests, req'[q].act = req[q].act
    PROVE  /\ Deletes(q)' = Deletes(q) /\ AboutPost(q)' = AboutPost(q)
           /\ Owns(q)' = Owns(q)
  BY DEF Deletes, AboutPost, Owns, ActorOf

\* Requests move on, and only what looks for a copy, or has it taken away,
\* comes nearer to the row.
LEMMA CalmMove ==
    ASSUME CalmInv, UNCHANGED <<world, cached, rows, keep, gone, late>>,
           \A q \in Requests :
               /\ req'[q].act = req[q].act
               /\ \/ req'[q].pc = req[q].pc
                  \/ /\ req[q].pc # "done" /\ req'[q].pc # "erase"
                     /\ req'[q].pc = "remove" => Owns(q)
                     /\ req'[q].pc = "row" => ~(AboutPost(q) \in cached /\ Owns(q))
    PROVE  CalmInv'
<1> SUFFICES ASSUME "calm" \in world
             PROVE  (Quiet /\ Answers /\ Emptied /\ TooLate /\ NoCopy /\ NoRow)'
  BY DEF CalmInv
<1>0. /\ Quiet /\ Answers /\ Emptied /\ TooLate /\ NoCopy /\ NoRow
      /\ \A q \in Requests : /\ Deletes(q)' = Deletes(q)
                             /\ AboutPost(q)' = AboutPost(q)
                             /\ Owns(q)' = Owns(q)
  BY StaysAbout DEF CalmInv
<1>1. Quiet'
  BY <1>0 DEF Quiet
<1>2. Answers'
  BY <1>0 DEF Answers
<1>3. Emptied'
  BY <1>0 DEF Emptied
<1>4. TooLate'
  BY <1>0 DEF TooLate
<1>5. NoCopy' /\ NoRow'
  BY <1>0 DEF NoCopy, NoRow
<1> QED
  BY <1>1, <1>2, <1>3, <1>4, <1>5

LEMMA CalmTake ==
    ASSUME InboxTypes, CalmInv, NEW r \in Requests, NEW m \in sent, NEW a \in Acts,
           Take(r, m, a)
    PROVE  CalmInv'
<1> SUFFICES ASSUME "calm" \in world
             PROVE  (Quiet /\ Answers /\ Emptied /\ TooLate /\ NoCopy /\ NoRow)'
  BY DEF CalmInv, Take
<1> DEFINE new == [pc |-> "fetch", act |-> a, signed |-> m.act, key |-> m.key,
                   date |-> m.date, pem |-> 0,
                   barred |-> <<DomainOf[Act[a].actor], "lower">> \in blocks]
<1>1. /\ req' = [req EXCEPT ![r] = new] /\ req[r] = Waiting /\ Calm(a)
      /\ UNCHANGED <<cached, rows, keep, gone, late>>
  BY DEF Take, storeVars
<1>2. new.pc = "fetch" /\ new.act = a /\ a # Nobody
  BY InboxAssumption
<1> HIDE DEF new
<1>3. /\ \A q \in Requests : req'[q] = IF q = r THEN new ELSE req[q]
      /\ req[r].act = Nobody
  BY <1>1 DEF InboxTypes, InboxTypeOK, Waiting
<1>4. /\ Quiet /\ Answers /\ Emptied /\ TooLate /\ NoCopy /\ NoRow
      /\ \A q \in Requests \ {r} : /\ Deletes(q)' = Deletes(q)
                                   /\ AboutPost(q)' = AboutPost(q)
                                   /\ Owns(q)' = Owns(q)
                                   /\ req'[q].act = req[q].act
                                   /\ req'[q].pc = req[q].pc
  BY <1>3, StaysAbout DEF CalmInv
<1>5. /\ ~Deletes(r) /\ AboutPost(r)' = Act[a].post /\ req'[r].pc = "fetch"
      /\ Deletes(r)' = (Act[a].type = "Delete")
  BY <1>2, <1>3 DEF Deletes, AboutPost
<1>6. \A q \in Requests : req[q].act # Nobody /\ AboutPost(q) = Act[a].post
          => IF Act[a].type = "Delete" THEN req[q].pc = "done" ELSE ~Deletes(q)
  BY <1>1 DEF Calm, AboutPost, Deletes
<1>7. Quiet'
  <2> SUFFICES ASSUME NEW o \in Requests, NEW q \in Requests,
                      Deletes(o)', (req[q].act # Nobody)', ~Deletes(q)',
                      AboutPost(o)' = AboutPost(q)'
               PROVE  req'[q].pc = "done"
    BY DEF Quiet
  <2>1. CASE o = r
    <3>1. q # r
      BY <2>1
    <3>2. Act[a].type = "Delete"
      BY <2>1, <1>2, <1>3 DEF Deletes
    <3>3. AboutPost(q)' = Act[a].post
      BY <2>1, <1>2, <1>3 DEF AboutPost
    <3>4. req[q].act # Nobody /\ AboutPost(q) = Act[a].post
      BY <3>1, <3>3, <1>4
    <3> QED
      BY <3>1, <3>2, <3>4, <1>4, <1>6
  <2>2. CASE o # r /\ q = r
    <3>1. Deletes(o) /\ req[o].act # Nobody /\ AboutPost(o) = Act[a].post
      BY <2>2, <1>4, <1>5 DEF Deletes
    <3>2. Act[a].type # "Delete"
      BY <2>2, <1>5
    <3> QED
      BY <3>1, <3>2, <1>6
  <2>3. CASE o # r /\ q # r
    BY <2>3, <1>4 DEF Quiet
  <2> QED
    BY <2>1, <2>2, <2>3
<1>8. Answers'
  BY <1>1, <1>4, <1>5 DEF Answers
<1>9. Emptied'
  BY <1>1, <1>4, <1>5 DEF Emptied
<1>10. TooLate'
  BY <1>1, <1>4, <1>5 DEF TooLate
<1>11. NoCopy' /\ NoRow'
  BY <1>1, <1>4 DEF NoCopy, NoRow
<1> QED
  BY <1>7, <1>8, <1>9, <1>10, <1>11

LEMMA CalmWrites ==
    ASSUME InboxTypes, InboxInv, CalmInv, NEW r \in Requests,
           Store(r) \/ Remove(r) \/ Row(r) \/ Erase(r)
    PROVE  CalmInv'
<1> SUFFICES ASSUME "calm" \in world
             PROVE  (Quiet /\ Answers /\ Emptied /\ TooLate /\ NoCopy /\ NoRow)'
  BY DEF CalmInv, Store, Remove, Row, Erase
<1>0. /\ Quiet /\ Answers /\ Emptied /\ TooLate /\ NoCopy /\ NoRow
      /\ req[r].act # Nobody
      /\ req[r].pc # "store" => Deletes(r)
      /\ req[r].pc = "store" => ~Deletes(r)
      /\ gone \subseteq Posts
      /\ \A q \in Requests : req[q].pc \in {"remove", "row", "erase"} => Deletes(q)
  BY InboxAssumption
     DEF CalmInv, InboxTypes, InboxTypeOK, Carries, InboxInv, Placed, MayBe,
         Store, Remove, Row, Erase, Deletes
<1>1. PICK s \in {"done", "row", "erase"} :
          /\ GoesTo(r, s)
          /\ s = "row" => Remove(r)
          /\ s = "erase" => Row(r) /\ AboutPost(r) \in rows /\ Owns(r)
  BY DEF Store, Remove, Row, Erase, AfterCache
<1>2. \A q \in Requests : /\ req'[q].pc = IF q = r THEN s ELSE req[q].pc
                          /\ req'[q].act = req[q].act
  BY <1>1, OneMoves DEF InboxTypes, InboxTypeOK, ARequest, Places, Handling
<1>3. \A q \in Requests : /\ Deletes(q)' = Deletes(q)
                          /\ AboutPost(q)' = AboutPost(q)
                          /\ Owns(q)' = Owns(q)
  BY <1>2, StaysAbout
<1>4. Quiet'
  <2>1. req[r].pc # "done"
    BY DEF Store, Remove, Row, Erase
  <2>2. ASSUME NEW q \in Requests, req[q].pc = "done"
        PROVE  req'[q].pc = "done"
    BY <2>1, <2>2, <1>2
  <2> QED
    BY <1>0, <1>2, <1>3, <2>2 DEF Quiet
<1>5. CASE Store(r)
  <2>1. /\ cached' = cached \cup {AboutPost(r)} /\ s = "done"
        /\ req[r].pc = "store" /\ UNCHANGED <<rows, keep, gone, late>>
    BY <1>1, <1>5 DEF Store, Remove, Row
  <2>2. \A q \in Requests : Deletes(q) => AboutPost(q) # AboutPost(r)
    BY <2>1, <1>0 DEF Quiet
  <2>3. Answers'
    BY <1>0, <1>3, <2>1 DEF Answers
  <2>4. Emptied'
    BY <1>0, <1>2, <1>3, <2>1, <2>2 DEF Emptied
  <2>5. TooLate'
    BY <1>0, <1>2, <1>3, <2>1 DEF TooLate
  <2>6. NoCopy' /\ NoRow'
    BY <1>0, <2>1, <2>2 DEF NoCopy, NoRow, Answers
  <2> QED
    BY <1>4, <2>3, <2>4, <2>5, <2>6
<1>6. CASE Remove(r)
  <2>1. /\ cached' = cached \ {AboutPost(r)} /\ s # "erase"
        /\ req[r].pc = "remove" /\ UNCHANGED <<rows, keep, gone, late>>
    BY <1>1, <1>6 DEF Remove, AfterCache, Row
  <2>2. Answers'
    BY <1>0, <1>3, <2>1 DEF Answers
  <2>3. Emptied'
    BY <1>0, <1>1, <1>2, <1>3, <2>1 DEF Emptied
  <2>4. TooLate'
    BY <1>0, <1>2, <1>3, <2>1 DEF TooLate
  <2>5. NoCopy' /\ NoRow'
    BY <1>0, <2>1 DEF NoCopy, NoRow
  <2> QED
    BY <1>4, <2>2, <2>3, <2>4, <2>5
<1>7. CASE Row(r)
  <2>1. /\ req[r].pc = "row" /\ Deletes(r) /\ UNCHANGED <<cached, rows, keep>>
        /\ late' = IF AboutPost(r) \in Posts /\ keep[AboutPost(r)] = "write"
                   THEN late \cup {AboutPost(r)} ELSE late
        /\ gone' = IF s # "erase" /\ Owns(r) THEN gone \cup {AboutPost(r)} ELSE gone
        /\ s # "erase" => ~(AboutPost(r) \in rows /\ Owns(r))
    <3>1. req'[r].pc = IF AboutPost(r) \in rows /\ Owns(r) THEN "erase" ELSE "done"
      BY <1>7 DEF Row, GoesTo, InboxTypes, InboxTypeOK
    <3> QED
      BY <3>1, <1>0, <1>2, <1>7 DEF Row, Answered
  <2>2. s # "row"
    BY <1>1, <1>7 DEF Remove, Row
  <2>3. Owns(r) => AboutPost(r) \notin cached /\ AboutPost(r) \in Posts
    BY <2>1, <1>0 DEF Emptied, Owns
  <2>4. Answers'
    BY <1>0, <1>3, <2>1 DEF Answers
  <2>5. Emptied'
    BY <1>0, <1>1, <1>2, <1>3, <2>1, <2>2, <2>3 DEF Emptied
  <2>6. TooLate'
    BY <1>0, <1>2, <1>3, <2>1 DEF TooLate
  <2>7. NoCopy' /\ NoRow'
    BY <1>0, <2>1, <2>3 DEF NoCopy, NoRow
  <2> QED
    BY <1>4, <2>4, <2>5, <2>6, <2>7
<1>8. CASE Erase(r)
  <2>1. /\ req[r].pc = "erase" /\ Deletes(r) /\ Owns(r) /\ s = "done"
        /\ UNCHANGED <<cached, keep, late>>
        /\ rows' = rows \ {AboutPost(r)}
        /\ gone' = gone \cup {AboutPost(r)}
    BY <1>8, <1>0, <1>1 DEF Erase, Answered, Emptied, Remove, Row
  <2>2. AboutPost(r) \notin cached /\ AboutPost(r) \in Posts
    BY <2>1, <1>0 DEF Emptied, Owns
  <2>3. Answers'
    BY <1>0, <1>3, <2>1 DEF Answers
  <2>4. Emptied'
    BY <1>0, <1>2, <1>3, <2>1 DEF Emptied
  <2>5. TooLate'
    BY <1>0, <1>2, <1>3, <2>1 DEF TooLate
  <2>6. NoCopy' /\ NoRow'
    BY <1>0, <2>1, <2>2 DEF NoCopy, NoRow
  <2> QED
    BY <1>4, <2>3, <2>4, <2>5, <2>6
<1> QED
  BY <1>5, <1>6, <1>7, <1>8

LEMMA CalmKeeps ==
    ASSUME InboxTypes, InboxInv, CalmInv, NEW p \in Posts, KeepRead(p) \/ KeepWrite(p)
    PROVE  CalmInv'
<1> SUFFICES ASSUME "calm" \in world
             PROVE  (Quiet /\ Answers /\ Emptied /\ TooLate /\ NoCopy /\ NoRow)'
  BY DEF CalmInv, KeepRead, KeepWrite
<1>0. /\ Quiet /\ Answers /\ Emptied /\ TooLate /\ NoCopy /\ NoRow
      /\ keep \in [Posts -> {"idle", "write"}]
      /\ UNCHANGED <<req, cached, gone, late>>
  BY DEF CalmInv, KeepRead, KeepWrite, storeVars, InboxTypes, InboxTypeOK
<1>1. \A q \in Requests : /\ Deletes(q)' = Deletes(q)
                          /\ AboutPost(q)' = AboutPost(q)
                          /\ Owns(q)' = Owns(q)
  BY <1>0, StaysAbout
<1>2. Quiet' /\ Answers' /\ Emptied' /\ NoCopy'
  BY <1>0, <1>1 DEF Quiet, Answers, Emptied, NoCopy
<1>3. CASE KeepRead(p)
  <2>1. p \in cached /\ keep' = [keep EXCEPT ![p] = "write"] /\ rows' = rows
    BY <1>3 DEF KeepRead, storeVars
  <2>2. p \notin gone /\ ~\E r \in Requests : req[r].pc = "erase" /\ AboutPost(r) = p
    BY <2>1, <1>0 DEF NoCopy, Emptied
  <2>3. TooLate' /\ NoRow'
    BY <2>1, <2>2, <1>0, <1>1 DEF TooLate, NoRow
  <2> QED
    BY <2>3, <1>2
<1>4. CASE KeepWrite(p)
  <2>1. /\ keep[p] = "write" /\ keep' = [keep EXCEPT ![p] = "idle"]
        /\ rows' = rows \cup {p}
    BY <1>4 DEF KeepWrite
  <2>2. TooLate' /\ NoRow'
    BY <2>1, <1>0, <1>1 DEF TooLate, NoRow
  <2> QED
    BY <2>2, <1>2
<1> QED
  BY <1>3, <1>4

LEMMA CalmInvStep ==
    InboxTypes /\ InboxInv /\ CalmInv /\ [InboxNext]_inboxVars => CalmInv'
<1> SUFFICES ASSUME InboxTypes, InboxInv, CalmInv, [InboxNext]_inboxVars PROVE CalmInv'
  OBVIOUS
<1>0. req \in [Requests -> ARequest] /\ InboxTypeOK
  BY DEF InboxTypes, InboxTypeOK, ARequest, Places
<1>1. ASSUME UNCHANGED <<world, req, keep, storeVars>> PROVE CalmInv'
  BY <1>1, CalmMove DEF storeVars
<1>2. ASSUME NEW r \in Requests, FetchKey(r) PROVE CalmInv'
  <2>1. /\ \A q \in Requests : /\ req'[q].act = req[q].act
                               /\ req'[q].pc = IF q = r THEN "judge" ELSE req[q].pc
        /\ UNCHANGED <<world, keep, storeVars>> /\ req[r].pc = "fetch"
    BY <1>2, <1>0 DEF FetchKey, ARequest
  <2> QED
    BY <2>1, CalmMove DEF storeVars
<1>3. ASSUME NEW r \in Requests,
             \/ Unreachable(r) \/ Judge(r) \/ Check(r) \/ IsFollowee(r) \/ Find(r)
             \/ Fail(r) \/ Like(r) \/ Announce(r) \/ Mention(r) \/ Reply(r)
      PROVE  CalmInv'
  <2>1. /\ req[r].pc \notin {"idle", "done"}
        /\ UNCHANGED <<world, keep, cached, rows, gone, late>>
    <3>1. UNCHANGED <<cached, rows, gone, late>>
      BY <1>3 DEF Unreachable, Judge, Check, IsFollowee, Find, Fail, Like, Announce,
         Mention, Reply, storeVars
    <3> QED
      BY <3>1, <1>3, HandlerMoves
  <2>2. PICK s \in Places :
            /\ GoesTo(r, s) /\ s # "erase"
            /\ s = "remove" => Owns(r)
            /\ s = "row" => ~(AboutPost(r) \in cached /\ Owns(r))
    <3>1. CASE Unreachable(r) \/ Judge(r) \/ Fail(r)
      BY <3>1 DEF Unreachable, Judge, Fail, Places
    <3>2. CASE Like(r) \/ Announce(r) \/ Mention(r) \/ Reply(r)
      BY <3>2 DEF Like, Announce, Mention, Reply, Places, Handling
    <3>3. CASE Find(r)
      BY <3>3 DEF Find, Places, Handling
    <3>4. CASE Check(r) \/ IsFollowee(r)
      <4>1. req[r].act \in Acts
        BY <3>4, <1>0 DEF Check, IsFollowee, InboxTypes, Carries, ARequest
      <4>2. \A yes \in BOOLEAN :
                Handler(Act[req[r].act], yes)
                    \in {"done", "like", "announce", "mention", "reply", "store", "find"}
        BY <4>1, Says, HandlerFits
      <4>3. CASE Check(r)
        <5>1. Handler(Act[req[r].act], FALSE)
                  \in {"done", "like", "announce", "mention", "reply", "store", "find"}
          BY <4>2
        <5>2. GoesTo(r, IF IsBlocked(DomainOf[ActorOf(r)]) THEN "done"
                        ELSE IF Act[req[r].act].type = "Create" THEN "followee"
                        ELSE Handler(Act[req[r].act], FALSE))
          BY <4>3 DEF Check
        <5>3. \E s \in {"done", "followee", "like", "announce", "mention", "reply",
                       "store", "find"} : GoesTo(r, s)
          BY <5>1, <5>2
        <5> QED
          BY <5>3 DEF Places, Handling
      <4>4. CASE IsFollowee(r)
        <5>1. PICK yes \in {ActorOf(r) \in Followees, FALSE} :
                  GoesTo(r, Handler(Act[req[r].act], yes))
          BY <4>4 DEF IsFollowee
        <5>2. yes \in BOOLEAN
          <6>1. CASE ActorOf(r) \in Followees
            <7>1. (ActorOf(r) \in Followees) = TRUE
              BY <6>1
            <7> QED
              BY <7>1
          <6>2. CASE ~(ActorOf(r) \in Followees)
            <7>1. (ActorOf(r) \in Followees) = FALSE
              BY <6>2
            <7> QED
              BY <7>1
          <6> QED
            BY <6>1, <6>2
        <5> QED
          BY <5>1, <5>2, <4>2 DEF Places, Handling
      <4> QED
        BY <3>4, <4>3, <4>4
    <3> QED
      BY <1>3, <3>1, <3>2, <3>3, <3>4
  <2>3. \A q \in Requests : /\ req'[q].pc = IF q = r THEN s ELSE req[q].pc
                            /\ req'[q].act = req[q].act
    BY <2>2, <1>0, OneMoves
  <2> QED
    BY <2>1, <2>2, <2>3, CalmMove
<1>4. ASSUME NEW d, BlockDomain(d) \/ UnblockDomain(d) PROVE CalmInv'
  <2>1. UNCHANGED <<world, keep, storeVars>>
    BY <1>4 DEF BlockDomain, UnblockDomain
  <2>2. ASSUME NEW q \in Requests
        PROVE  req'[q].act = req[q].act /\ req'[q].pc = req[q].pc
    <3>1. req'[q] = req[q] \/ \E b \in BOOLEAN : req'[q] = [req[q] EXCEPT !.barred = b]
      BY <1>4 DEF BlockDomain, UnblockDomain
    <3>2. req[q] \in ARequest
      BY <1>0
    <3> QED
      BY <3>1, <3>2 DEF ARequest
  <2> QED
    BY <2>1, <2>2, CalmMove DEF storeVars
<1>5. ASSUME NEW d, CreateDomainBlockV1(d) PROVE CalmInv'
  BY <1>1, <1>5 DEF CreateDomainBlockV1
<1>6. CASE InboxTick
  BY <1>1, <1>6 DEF InboxTick
<1>7. CASE UNCHANGED inboxVars
  BY <1>1, <1>7 DEF inboxVars
<1>8. CASE Senders
  <2>1. Traffic[world].offered \subseteq Acts
    BY <1>0, InboxAssumption DEF InboxTypeOK
  <2>2. ASSUME NEW a, Sign(a) \/ Rotate(a) PROVE CalmInv'
    BY <1>1, <2>2 DEF Sign, Rotate
  <2> QED
    BY <1>8, <2>1, <2>2, CalmTake DEF Senders
<1>9. CASE Handle
  BY <1>9, <1>2, <1>3, CalmWrites DEF Handle
<1>10. CASE Administrator
  BY <1>10, <1>4, <1>5, CalmKeeps DEF Administrator
<1> QED
  BY <1>6, <1>7, <1>8, <1>9, <1>10 DEF InboxNext

\* In a calm world, a post whose author's Delete was answered is in neither the cache
\* nor the table, but for a copy that was read before.
THEOREM DeletedIsGoneHolds == InboxSpec => []DeletedIsGone
<1>1. CalmInv => DeletedIsGone
  BY DEF CalmInv, DeletedIsGone, NoCopy, NoRow
<1> QED
  BY <1>1, InboxTypesInit, InboxTypesStep, InboxInvInit, InboxInvStep, CalmInvInit,
     CalmInvStep, PTL DEF InboxSpec

-----------------------------------------------------------------------------
(* What the limiter lets through.                                          *)

Admissions == [domain : Domains, at : 0..MaxTime]

\* The requests of d that were let through from one instant to another, of a history.
Those(a, d, lo, hi) ==
    {i \in DOMAIN a : a[i].domain = d /\ lo <= a[i].at /\ a[i].at <= hi}

LEMMA ThoseAreMany ==
    ASSUME NEW a \in Seq(Admissions), NEW d, NEW lo \in Int, NEW hi \in Int
    PROVE  IsFiniteSet(Those(a, d, lo, hi)) /\ Cardinality(Those(a, d, lo, hi)) \in Nat
<1>1. DOMAIN a = 1..Len(a) /\ Len(a) \in Nat
  OBVIOUS
<1>2. IsFiniteSet(DOMAIN a)
  BY <1>1, FS_Interval
<1>3. Those(a, d, lo, hi) \in SUBSET DOMAIN a
  BY DEF Those
<1> QED
  BY <1>2, <1>3, FS_Subset, FS_CardinalityType

\* A longer stretch has at least as many.
LEMMA ThoseWithin ==
    ASSUME NEW a \in Seq(Admissions), NEW d, NEW lo \in Int, NEW hi \in Int,
           NEW from \in Int, NEW to \in Int,
           \A i \in Those(a, d, lo, hi) : from <= a[i].at /\ a[i].at <= to
    PROVE  Cardinality(Those(a, d, lo, hi)) <= Cardinality(Those(a, d, from, to))
<1>1. Those(a, d, lo, hi) \in SUBSET Those(a, d, from, to)
  BY DEF Those
<1> QED
  BY <1>1, ThoseAreMany, FS_Subset

\* Two stretches that cover a third have at least as many together.
LEMMA ThoseCovered ==
    ASSUME NEW a \in Seq(Admissions), NEW d, NEW lo \in Int, NEW hi \in Int,
           NEW f1 \in Int, NEW t1 \in Int, NEW f2 \in Int, NEW t2 \in Int,
           \A i \in Those(a, d, lo, hi) : \/ f1 <= a[i].at /\ a[i].at <= t1
                                          \/ f2 <= a[i].at /\ a[i].at <= t2
    PROVE  Cardinality(Those(a, d, lo, hi))
               <= Cardinality(Those(a, d, f1, t1)) + Cardinality(Those(a, d, f2, t2))
<1> DEFINE one == Those(a, d, f1, t1)
           two == Those(a, d, f2, t2)
           all == Those(a, d, lo, hi)
<1>1. all \in SUBSET (one \cup two)
  BY DEF Those
<1>2. IsFiniteSet(one) /\ IsFiniteSet(two)
      /\ Cardinality(one) \in Nat /\ Cardinality(two) \in Nat
  BY ThoseAreMany
<1>3. /\ IsFiniteSet(one \cup two)
      /\ Cardinality(one \cup two)
             = Cardinality(one) + Cardinality(two) - Cardinality(one \cap two)
  BY <1>2, FS_Union
<1>4. IsFiniteSet(one \cap two) /\ Cardinality(one \cap two) \in Nat
  BY <1>2, FS_Intersection, FS_CardinalityType
<1>5. Cardinality(all) <= Cardinality(one \cup two) /\ Cardinality(all) \in Nat
  BY <1>1, <1>3, FS_Subset, FS_CardinalityType
<1> HIDE DEF one, two, all
<1>6. Cardinality(all) <= Cardinality(one) + Cardinality(two)
  BY <1>2, <1>3, <1>4, <1>5
<1> QED
  BY <1>6 DEF one, two, all

\* One more is let through.
LEMMA OneMore ==
    ASSUME NEW a \in Seq(Admissions), NEW x \in Admissions,
           NEW d, NEW lo \in Int, NEW hi \in Int
    PROVE  /\ Append(a, x) \in Seq(Admissions)
           /\ \A i \in DOMAIN a : Append(a, x)[i] = a[i]
           /\ Cardinality(Those(Append(a, x), d, lo, hi)) =
                  IF x.domain = d /\ lo <= x.at /\ x.at <= hi
                  THEN Cardinality(Those(a, d, lo, hi)) + 1
                  ELSE Cardinality(Those(a, d, lo, hi))
<1> DEFINE n == Len(a) + 1
<1>1. /\ Append(a, x) \in Seq(Admissions)
      /\ DOMAIN a = 1..Len(a) /\ DOMAIN Append(a, x) = 1..n /\ Len(a) \in Nat
      /\ \A i \in 1..Len(a) : Append(a, x)[i] = a[i]
      /\ Append(a, x)[n] = x
  OBVIOUS
<1>2. n \notin Those(a, d, lo, hi)
  BY <1>1 DEF Those
<1>3. Those(Append(a, x), d, lo, hi) =
          IF x.domain = d /\ lo <= x.at /\ x.at <= hi
          THEN Those(a, d, lo, hi) \cup {n} ELSE Those(a, d, lo, hi)
  BY <1>1 DEF Those
<1>4. Cardinality(Those(a, d, lo, hi) \cup {n}) = Cardinality(Those(a, d, lo, hi)) + 1
  BY <1>2, ThoseAreMany, FS_AddElement
<1> QED
  BY <1>1, <1>3, <1>4

\* What the entry of a tracked domain says of the requests that were let through.
\* The one that opened the window is counted, and lies at its start.
Counted(d, e, a, time) ==
    /\ e.start <= time /\ e.count <= MaxRequests
    /\ \A i \in DOMAIN a : a[i].domain = d => a[i].at < e.start + Window
    /\ Cardinality(Those(a, d, e.start, MaxTime)) <= e.count
    /\ Cardinality(Those(a, d, e.start + 1, MaxTime)) < e.count
    /\ Cardinality(Those(a, d, e.start - Window + 1, e.start - 1)) < MaxRequests

Past == \A i \in DOMAIN admitted : admitted[i].at <= now

Counts ==
    \A d \in Domains :
        IF d \in DOMAIN entries THEN Counted(d, entries[d], admitted, now)
        ELSE \A i \in DOMAIN admitted : admitted[i].domain # d

TwoWindows(d, a) ==
    \A t \in 0..MaxTime : Cardinality(Those(a, d, t, t + Window - 1)) < 2 * MaxRequests

WindowsInv ==
    Cardinality(Domains) <= maxTracked =>
        Past /\ Counts /\ \A d \in Domains : TwoWindows(d, admitted)

LEMMA WindowsInvInit == InboxInit => WindowsInv
<1> SUFFICES ASSUME InboxInit PROVE WindowsInv
  OBVIOUS
<1>1. entries = <<>> /\ admitted = <<>> /\ DOMAIN entries = {} /\ DOMAIN admitted = {}
  BY DEF InboxInit, LimiterInit
<1>2. \A d \in Domains, t \in 0..MaxTime : Those(admitted, d, t, t + Window - 1) = {}
  BY <1>1 DEF Those
<1>3. Cardinality({}) = 0
  BY FS_EmptySet
<1>4. \A d \in Domains : TwoWindows(d, admitted)
  BY <1>2, <1>3, RateLimiterAssumption DEF TwoWindows
<1> QED
  BY <1>1, <1>4 DEF WindowsInv, Past, Counts

\* A domain that is not tracked finds room when every domain can be tracked.
LEMMA RoomForAll ==
    ASSUME LimiterTypeOK, Cardinality(Domains) <= maxTracked, NEW d \in Domains
    PROVE  WithRoom(d) = {entries}
<1>1. CASE d \in DOMAIN entries
  BY <1>1 DEF WithRoom
<1>2. CASE d \notin DOMAIN entries
  <2>1. /\ IsFiniteSet(Domains) /\ DOMAIN entries \in SUBSET Domains
        /\ maxTracked \in Nat
    BY RateLimiterAssumption DEF LimiterTypeOK
  <2>2. /\ Cardinality(DOMAIN entries) <= Cardinality(Domains)
        /\ Cardinality(DOMAIN entries) # Cardinality(Domains)
        /\ Cardinality(DOMAIN entries) \in Nat /\ Cardinality(Domains) \in Nat
    BY <1>2, <2>1, FS_Subset, FS_CardinalityType
  <2>3. Cardinality(DOMAIN entries) < maxTracked
    BY <2>1, <2>2
  <2> QED
    BY <2>3 DEF WithRoom
<1> QED
  BY <1>1, <1>2

\* A request that is let through is counted, in the window that is running or in
\* a new one.
LEMMA CountedNext ==
    ASSUME NEW a \in Seq(Admissions), NEW time \in 0..MaxTime, NEW d \in Domains,
           \A i \in DOMAIN a : a[i].at <= time,
           NEW e \in Entry, NEW n \in Entry,
           \/ /\ Counted(d, e, a, time)
              /\ IF time - e.start >= Window
                 THEN n = [count |-> 1, start |-> time]
                 ELSE e.count < MaxRequests
                      /\ n = [count |-> e.count + 1, start |-> e.start]
           \/ /\ \A i \in DOMAIN a : a[i].domain # d
              /\ n = [count |-> 1, start |-> time]
    PROVE  Counted(d, n, Append(a, [domain |-> d, at |-> time]), time)
<1> DEFINE x == [domain |-> d, at |-> time]
           b == Append(a, x)
<1>0. /\ x \in Admissions /\ x.domain = d /\ x.at = time /\ time \in Nat
      /\ MaxRequests \in Nat \ {0} /\ Window \in Nat \ {0} /\ MaxTime \in Nat
      /\ e.start \in Nat /\ e.count \in Nat /\ n.start \in Nat /\ n.count \in Nat
      /\ e.start <= MaxTime /\ time <= MaxTime
  BY RateLimiterAssumption DEF Admissions, Entry
<1>1. /\ b \in Seq(Admissions)
      /\ \A i \in DOMAIN a : b[i] = a[i]
      /\ \A lo \in Int, hi \in Int :
            Cardinality(Those(b, d, lo, hi)) =
                IF x.domain = d /\ lo <= x.at /\ x.at <= hi
                THEN Cardinality(Those(a, d, lo, hi)) + 1
                ELSE Cardinality(Those(a, d, lo, hi))
  <2>1. b \in Seq(Admissions) /\ \A i \in DOMAIN a : b[i] = a[i]
    BY SMTT(30), <1>0
  <2>2. ASSUME NEW lo \in Int, NEW hi \in Int
        PROVE  Cardinality(Those(b, d, lo, hi)) =
                   IF x.domain = d /\ lo <= x.at /\ x.at <= hi
                   THEN Cardinality(Those(a, d, lo, hi)) + 1
                   ELSE Cardinality(Those(a, d, lo, hi))
    <3> HIDE DEF x
    <3> QED
      BY <1>0, OneMore
  <2> QED
    BY <2>1, <2>2
<1>2. DOMAIN b = DOMAIN a \cup {Len(a) + 1} /\ b[Len(a) + 1] = x
  BY SMTT(30), <1>0
<1>t. \A i \in DOMAIN a : a[i].at \in Nat
  <2>1. \A i \in DOMAIN a : a[i] \in Admissions
    OBVIOUS
  <2> QED
    BY <2>1, <1>0 DEF Admissions
<1> HIDE DEF b, x
<1>f. \A i \in DOMAIN b : \/ i \in DOMAIN a /\ b[i] = a[i]
                          \/ b[i].domain = d /\ b[i].at = time
  BY <1>0, <1>1, <1>2
<1>3. ASSUME Counted(d, e, a, time), ~(time - e.start >= Window),
             e.count < MaxRequests, n = [count |-> e.count + 1, start |-> e.start]
      PROVE  Counted(d, n, b, time)
  <2>1. n.start = e.start /\ n.count = e.count + 1
    BY <1>3
  <2>2. Cardinality(Those(b, d, e.start, MaxTime))
            = Cardinality(Those(a, d, e.start, MaxTime)) + 1
    BY <1>0, <1>1, <1>3 DEF Counted
  <2>9. Cardinality(Those(b, d, e.start + 1, MaxTime))
            <= Cardinality(Those(a, d, e.start + 1, MaxTime)) + 1
    <3>1. e.start + 1 \in Int /\ MaxTime \in Int
      BY <1>0
    <3>2. Cardinality(Those(a, d, e.start + 1, MaxTime)) \in Nat
      BY <3>1, ThoseAreMany
    <3> QED
      BY <3>1, <3>2, <1>1
  <2>3. Cardinality(Those(b, d, e.start - Window + 1, e.start - 1))
            = Cardinality(Those(a, d, e.start - Window + 1, e.start - 1))
    <3>1. e.start - Window + 1 \in Int /\ e.start - 1 \in Int /\ ~(time <= e.start - 1)
      BY SMTT(30), <1>0, <1>3 DEF Counted
    <3> QED
      BY <3>1, <1>0, <1>1
  <2>4. Cardinality(Those(a, d, e.start, MaxTime)) \in Nat
    BY <1>0, ThoseAreMany
  <2>5. \A i \in DOMAIN b : b[i].domain = d => b[i].at < n.start + Window
    BY SMTT(30), <1>0, <1>f, <1>3, <2>1 DEF Counted
  <2>6. n.start <= time /\ n.count <= MaxRequests
    BY <1>0, <1>3, <2>1 DEF Counted
  <2>7. Cardinality(Those(b, d, n.start, MaxTime)) <= n.count
    BY SMTT(30), <1>0, <1>3, <2>1, <2>2, <2>4 DEF Counted
  <2>8. Cardinality(Those(b, d, n.start - Window + 1, n.start - 1)) < MaxRequests
    BY <1>3, <2>1, <2>3 DEF Counted
  <2>10. Cardinality(Those(b, d, n.start + 1, MaxTime)) < n.count
    <3>1. e.start + 1 \in Int /\ MaxTime \in Int
      BY <1>0
    <3>2. /\ Cardinality(Those(a, d, e.start + 1, MaxTime)) \in Nat
          /\ Cardinality(Those(b, d, e.start + 1, MaxTime)) \in Nat
      BY <3>1, <1>1, ThoseAreMany
    <3>3. Cardinality(Those(a, d, e.start + 1, MaxTime)) < e.count
      BY <1>3 DEF Counted
    <3> QED
      BY <1>0, <2>1, <2>9, <3>2, <3>3
  <2> QED
    BY <2>5, <2>6, <2>7, <2>8, <2>10 DEF Counted
<1>4. ASSUME n = [count |-> 1, start |-> time],
             \A i \in DOMAIN a : a[i].domain = d => a[i].at < time,
             Cardinality(Those(a, d, time - Window + 1, time - 1)) < MaxRequests
      PROVE  Counted(d, n, b, time)
  <2>1. n.start = time /\ n.count = 1
    BY <1>4
  <2>2. Those(a, d, time, MaxTime) = {}
    BY <1>4, <1>0, <1>t DEF Those
  <2>3. Cardinality(Those(b, d, time, MaxTime)) = 1
    <3>1. Cardinality(Those(a, d, time, MaxTime)) = 0
      BY <2>2, FS_EmptySet
    <3> QED
      BY <3>1, <1>0, <1>1
  <2>4. Cardinality(Those(b, d, time - Window + 1, time - 1))
            = Cardinality(Those(a, d, time - Window + 1, time - 1))
    <3>1. time - Window + 1 \in Int /\ time - 1 \in Int /\ ~(time <= time - 1)
      BY <1>0
    <3> QED
      BY <3>1, <1>0, <1>1
  <2>6. Cardinality(Those(b, d, time + 1, MaxTime)) < 1
    <3>1. time + 1 \in Int /\ MaxTime \in Int /\ ~(time + 1 <= time)
      BY <1>0
    <3>2. Those(a, d, time + 1, MaxTime) = {}
      BY <1>4, <1>0, <1>t DEF Those
    <3>3. Cardinality(Those(a, d, time + 1, MaxTime)) = 0
      BY <3>2, FS_EmptySet
    <3> QED
      BY <3>1, <3>3, <1>0, <1>1
  <2>5. ASSUME NEW i \in DOMAIN b, b[i].domain = d
        PROVE  b[i].at < n.start + Window
    <3>1. CASE i \in DOMAIN a /\ b[i] = a[i]
      <4>1. a[i].at < time /\ a[i].at \in Nat
        BY <1>4, <1>t, <2>5, <3>1
      <4> QED
        BY <1>0, <2>1, <3>1, <4>1
    <3>2. CASE b[i].at = time
      BY <1>0, <2>1, <3>2
    <3> QED
      BY <1>f, <3>1, <3>2
  <2> QED
    BY <1>0, <1>4, <2>1, <2>3, <2>4, <2>5, <2>6 DEF Counted
<1>5. CASE Counted(d, e, a, time) /\ time - e.start >= Window
           /\ n = [count |-> 1, start |-> time]
  <2>1. \A i \in DOMAIN a : a[i].domain = d => a[i].at < time
    BY SMTT(30), <1>5, <1>0, <1>t DEF Counted
  <2>2. /\ time - Window + 1 \in Int /\ time - 1 \in Int
        /\ e.start + 1 \in Int /\ MaxTime \in Int
    BY <1>0
  <2>3. \A i \in Those(a, d, time - Window + 1, time - 1) :
            e.start + 1 <= a[i].at /\ a[i].at <= MaxTime
    BY <1>5, <1>0, <1>t DEF Those
  <2>4. Cardinality(Those(a, d, time - Window + 1, time - 1))
            <= Cardinality(Those(a, d, e.start + 1, MaxTime))
    BY <2>2, <2>3, ThoseWithin
  <2>5. /\ Cardinality(Those(a, d, time - Window + 1, time - 1)) \in Nat
        /\ Cardinality(Those(a, d, e.start + 1, MaxTime)) \in Nat
    BY <2>2, ThoseAreMany
  <2>6. Cardinality(Those(a, d, time - Window + 1, time - 1)) < MaxRequests
    BY SMTT(30), <1>0, <1>5, <2>4, <2>5 DEF Counted
  <2> QED
    BY <1>4, <1>5, <2>1, <2>6 DEF b, x
<1>6. CASE (\A i \in DOMAIN a : a[i].domain # d) /\ n = [count |-> 1, start |-> time]
  <2>1. Those(a, d, time - Window + 1, time - 1) = {}
    BY <1>6 DEF Those
  <2>2. Cardinality(Those(a, d, time - Window + 1, time - 1)) < MaxRequests
    <3>1. Cardinality(Those(a, d, time - Window + 1, time - 1)) = 0
      BY <2>1, FS_EmptySet
    <3> QED
      BY <3>1, <1>0
  <2> QED
    BY <1>4, <1>6, <2>2 DEF b, x
<1> QED
  BY <1>3, <1>5, <1>6 DEF b, x

\* No stretch has as much as two windows, when none had that ended before the
\* window that is running.
LEMMA StretchNext ==
    ASSUME NEW a \in Seq(Admissions), NEW d \in Domains, NEW e \in Entry,
           NEW time \in 0..MaxTime, Counted(d, e, a, time),
           \A t \in 0..MaxTime : t + Window - 1 < e.start =>
               Cardinality(Those(a, d, t, t + Window - 1)) < 2 * MaxRequests
    PROVE  TwoWindows(d, a)
<1> SUFFICES ASSUME NEW t \in 0..MaxTime
             PROVE  Cardinality(Those(a, d, t, t + Window - 1)) < 2 * MaxRequests
  BY DEF TwoWindows
<1>0. /\ MaxRequests \in Nat /\ Window \in Nat \ {0} /\ MaxTime \in Nat
      /\ e.start \in Nat /\ e.count \in Nat /\ t \in Nat
  BY RateLimiterAssumption DEF Entry
<1>t. \A i \in DOMAIN a : a[i].at \in 0..MaxTime
  <2>1. \A i \in DOMAIN a : a[i] \in Admissions
    OBVIOUS
  <2> QED
    BY <2>1 DEF Admissions
<1>1. CASE t + Window - 1 < e.start
  BY <1>1
<1>2. CASE ~(t + Window - 1 < e.start)
  <2>1. /\ t \in Int /\ t + Window - 1 \in Int /\ e.start \in Int /\ MaxTime \in Int
        /\ e.start - Window + 1 \in Int /\ e.start - 1 \in Int
    BY <1>0
  <2>2. \A i \in Those(a, d, t, t + Window - 1) :
            \/ e.start <= a[i].at /\ a[i].at <= MaxTime
            \/ e.start - Window + 1 <= a[i].at /\ a[i].at <= e.start - 1
    BY SMTT(30), <1>0, <1>t, <1>2 DEF Those
  <2>3. Cardinality(Those(a, d, t, t + Window - 1))
            <= Cardinality(Those(a, d, e.start, MaxTime))
                 + Cardinality(Those(a, d, e.start - Window + 1, e.start - 1))
    BY <2>1, <2>2, ThoseCovered
  <2>4. /\ Cardinality(Those(a, d, t, t + Window - 1)) \in Nat
        /\ Cardinality(Those(a, d, e.start, MaxTime)) \in Nat
        /\ Cardinality(Those(a, d, e.start - Window + 1, e.start - 1)) \in Nat
    BY <2>1, ThoseAreMany
  <2> QED
    BY <1>0, <2>3, <2>4 DEF Counted
<1> QED
  BY <1>1, <1>2

LEMMA WindowsInvStep ==
    ASSUME LimiterTypeOK, WindowsInv,
           \/ Tick \/ UNCHANGED limiterVars
           \/ \E d \in Domains : Admit(d) \/ Refuse(d)
    PROVE  WindowsInv'
<1> SUFFICES ASSUME Cardinality(Domains) <= maxTracked
             PROVE  (Past /\ Counts /\ \A d \in Domains : TwoWindows(d, admitted))'
  BY DEF WindowsInv, Tick, Admit, Refuse, limiterVars
<1>0. /\ Past /\ Counts /\ \A d \in Domains : TwoWindows(d, admitted)
      /\ admitted \in Seq(Admissions) /\ now \in 0..MaxTime
      /\ MaxTime \in Nat /\ MaxRequests \in Nat \ {0} /\ Window \in Nat \ {0}
      /\ \A o \in DOMAIN entries : entries[o] \in Entry
  BY RateLimiterAssumption DEF WindowsInv, LimiterTypeOK, Admissions
<1>1. CASE UNCHANGED limiterVars
  BY <1>0, <1>1 DEF limiterVars, Past, Counts
<1>2. CASE Tick
  <2>1. now' = now + 1 /\ now \in Nat /\ UNCHANGED <<entries, admitted>>
    BY <1>0, <1>2 DEF Tick
  <2>2. \A i \in DOMAIN admitted : admitted[i].at \in Nat
    <3>1. \A i \in DOMAIN admitted : admitted[i] \in Admissions
      BY <1>0
    <3> QED
      BY <3>1, <1>0 DEF Admissions
  <2>3. Past'
    BY <1>0, <2>1, <2>2 DEF Past
  <2>4. Counts'
    BY <1>0, <2>1 DEF Counts, Counted, Entry
  <2> QED
    BY <1>0, <2>1, <2>3, <2>4
<1>3. ASSUME NEW d \in Domains, Refuse(d)
      PROVE  (Past /\ Counts /\ \A o \in Domains : TwoWindows(o, admitted))'
  <2>1. /\ Full(EntryOf(entries, d)) /\ entries' = Put(entries, d, EntryOf(entries, d))
        /\ UNCHANGED <<now, admitted>>
    BY <1>3, RoomForAll DEF Refuse
  <2>2. d \in DOMAIN entries
    BY <1>0, <2>1 DEF Full, EntryOf
  <2>3. /\ DOMAIN entries' = DOMAIN entries
        /\ \A o \in DOMAIN entries : entries'[o] = entries[o]
    BY <2>1, <2>2 DEF Put, EntryOf
  <2> QED
    BY <1>0, <2>1, <2>3 DEF Past, Counts
<1>4. ASSUME NEW d \in Domains, Admit(d)
      PROVE  (Past /\ Counts /\ \A o \in Domains : TwoWindows(o, admitted))'
  <2> DEFINE x == [domain |-> d, at |-> now]
             e == EntryOf(entries, d)
             n == Increment(e)
  <2>1. /\ ~Full(e) /\ entries' = Put(entries, d, n)
        /\ UNCHANGED now /\ admitted' = Append(admitted, x)
    BY <1>4, RoomForAll DEF Admit
  <2>2. /\ x \in Admissions /\ x.domain = d /\ x.at = now /\ now \in Nat
    BY <1>0 DEF Admissions
  <2>3. e \in Entry /\ n \in Entry
    BY <1>0 DEF EntryOf, Increment, Entry
  <2>4. /\ DOMAIN entries' = DOMAIN entries \cup {d} /\ entries'[d] = n
        /\ \A o \in DOMAIN entries \ {d} : entries'[o] = entries[o]
    BY <2>1 DEF Put
  <2>5. /\ admitted' \in Seq(Admissions)
        /\ DOMAIN admitted' = DOMAIN admitted \cup {Len(admitted) + 1}
        /\ \A i \in DOMAIN admitted : admitted'[i] = admitted[i]
        /\ admitted'[Len(admitted) + 1] = x
    BY <1>0, <2>1, <2>2
  <2>6. Past'
    BY <1>0, <2>1, <2>2, <2>5 DEF Past
  <2>7. Counted(d, n, admitted', now)
    <3>1. CASE d \in DOMAIN entries
      <4>1. e = entries[d] /\ Counted(d, e, admitted, now)
        BY <1>0, <3>1 DEF EntryOf, Counts
      <4>2. IF now - e.start >= Window
            THEN n = [count |-> 1, start |-> now]
            ELSE e.count < MaxRequests
                 /\ n = [count |-> e.count + 1, start |-> e.start]
        BY SMTT(30), <1>0, <2>1, <2>3 DEF Full, IsNewWindow, Increment, Entry
      <4> HIDE DEF e, n
      <4> QED
        BY <1>0, <2>1, <2>3, <4>1, <4>2, CountedNext DEF Past
    <3>2. CASE d \notin DOMAIN entries
      <4>1. \A i \in DOMAIN admitted : admitted[i].domain # d
        BY <1>0, <3>2 DEF Counts
      <4>2. e = [count |-> 0, start |-> now]
        BY <3>2 DEF EntryOf
      <4>3. n = [count |-> 1, start |-> now]
        BY <4>2, <1>0, <2>2 DEF Increment, IsNewWindow
      <4> HIDE DEF e, n
      <4> QED
        BY <1>0, <2>1, <2>3, <4>1, <4>3, CountedNext DEF Past
    <3> QED
      BY <3>1, <3>2
  <2>8. \A o \in Domains \ {d}, lo \in Int, hi \in Int :
            Cardinality(Those(admitted', o, lo, hi))
                = Cardinality(Those(admitted, o, lo, hi))
    <3> HIDE DEF x
    <3> QED
      BY <1>0, <2>1, <2>2, OneMore
  <2>9. \A lo \in Int, hi \in Int :
            ~(lo <= now /\ now <= hi) =>
                Cardinality(Those(admitted', d, lo, hi))
                    = Cardinality(Those(admitted, d, lo, hi))
    <3> HIDE DEF x
    <3> QED
      BY <1>0, <2>1, <2>2, OneMore
  <2> HIDE DEF e, n, x
  <2>10. ASSUME NEW o \in Domains \ {d}, o \in DOMAIN entries
         PROVE  Counted(o, entries[o], admitted', now)
    <3>1. Counted(o, entries[o], admitted, now) /\ entries[o] \in Entry
      BY <1>0, <2>10 DEF Counts
    <3>2. /\ entries[o].start \in Int /\ MaxTime \in Int
          /\ entries[o].start - Window + 1 \in Int /\ entries[o].start - 1 \in Int
          /\ entries[o].start + 1 \in Int
      BY <1>0, <3>1 DEF Entry
    <3>3. \A i \in DOMAIN admitted' :
              admitted'[i].domain = o => admitted'[i].at < entries[o].start + Window
      BY <2>2, <2>5, <3>1 DEF Counted
    <3>4. /\ Cardinality(Those(admitted', o, entries[o].start, MaxTime))
                 = Cardinality(Those(admitted, o, entries[o].start, MaxTime))
          /\ Cardinality(Those(admitted', o, entries[o].start + 1, MaxTime))
                 = Cardinality(Those(admitted, o, entries[o].start + 1, MaxTime))
          /\ Cardinality(Those(admitted', o, entries[o].start - Window + 1,
                               entries[o].start - 1))
                 = Cardinality(Those(admitted, o, entries[o].start - Window + 1,
                                     entries[o].start - 1))
      BY <2>8, <3>2
    <3> QED
      BY <3>1, <3>3, <3>4 DEF Counted
  <2>11. Counts'
    <3> SUFFICES ASSUME NEW o \in Domains
                 PROVE  IF o \in DOMAIN entries'
                        THEN Counted(o, entries'[o], admitted', now')
                        ELSE \A i \in DOMAIN admitted' : admitted'[i].domain # o
      BY DEF Counts
    <3>1. CASE o = d
      BY <2>1, <2>4, <2>7, <3>1
    <3>2. CASE o # d /\ o \in DOMAIN entries
      BY <2>1, <2>4, <2>10, <3>2
    <3>3. CASE o # d /\ o \notin DOMAIN entries
      BY <1>0, <2>2, <2>4, <2>5, <3>3 DEF Counts
    <3> QED
      BY <3>1, <3>2, <3>3
  <2>12. ASSUME NEW o \in Domains PROVE TwoWindows(o, admitted')
    <3>1. CASE o = d
      <4>1. ASSUME NEW t \in 0..MaxTime, t + Window - 1 < n.start
            PROVE  Cardinality(Those(admitted', d, t, t + Window - 1)) < 2 * MaxRequests
        <5>1. n.start <= now /\ n.start \in Nat
          BY <2>3, <2>7 DEF Counted, Entry
        <5>2. t \in Int /\ t + Window - 1 \in Int /\ ~(now <= t + Window - 1)
          BY <1>0, <2>2, <4>1, <5>1
        <5>3. Cardinality(Those(admitted', d, t, t + Window - 1))
                  = Cardinality(Those(admitted, d, t, t + Window - 1))
          BY <2>9, <5>2
        <5> QED
          BY <1>0, <5>3 DEF TwoWindows
      <4> QED
        BY <1>0, <2>3, <2>5, <2>7, <3>1, <4>1, StretchNext
    <3>2. CASE o # d
      <4>1. \A t \in 0..MaxTime : t \in Int /\ t + Window - 1 \in Int
        BY <1>0
      <4> QED
        BY <1>0, <2>8, <3>2, <4>1 DEF TwoWindows
    <3> QED
      BY <3>1, <3>2
  <2> QED
    BY <2>6, <2>11, <2>12
<1> QED
  BY <1>1, <1>2, <1>3, <1>4

\* While every domain can be tracked, a stretch of one window lets fewer than two
\* windows' worth of a domain's requests through (TwoWindowBound).
THEOREM TwoWindowBoundHolds == InboxSpec => []TwoWindowBound
<1>1. InboxTypes /\ WindowsInv /\ [InboxNext]_inboxVars => WindowsInv'
  <2> SUFFICES ASSUME InboxTypes, WindowsInv, [InboxNext]_inboxVars PROVE WindowsInv'
    OBVIOUS
  <2>1. \/ Tick \/ UNCHANGED limiterVars
        \/ \E d \in Domains : Admit(d) \/ Refuse(d)
    BY LimiterAsked DEF inboxVars
  <2>2. LimiterTypeOK
    BY DEF InboxTypes, InboxTypeOK
  <2> QED
    BY <2>1, <2>2, WindowsInvStep
<1>2. WindowsInv => TwoWindowBound
  BY DEF WindowsInv, TwoWindows, TwoWindowBound, Through, Those
<1> QED
  BY <1>1, <1>2, InboxTypesInit, InboxTypesStep, WindowsInvInit, PTL DEF InboxSpec
==============================================================================
