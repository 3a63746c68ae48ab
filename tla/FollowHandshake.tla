--------------------------- MODULE FollowHandshake ---------------------------
(***************************************************************************)
(* Remote actors follow and unfollow the local account                     *)
(* (src/src/federation/activity.rs, handle_follow and handle_undo, over    *)
(* the followers and notifications tables).                                *)
(*                                                                         *)
(* The remote side is external: an actor issues Follow and Undo activities *)
(* and its server posts each to the inbox until it is answered 2xx, so an  *)
(* activity can arrive twice, late or out of order.  Handlers run at once; *)
(* each await of one is a step.  The Follow handler inserts the follower   *)
(* row, inserts a notification and posts an Accept, in that order and      *)
(* without a transaction.                                                  *)
(***************************************************************************)
EXTENDS Naturals, FiniteSets

CONSTANTS
    Actors,      \* the remote actors, one address each
    Handlers,    \* handler tasks that may run at once
    Softwares,   \* the remote server software there is: whether it posts an actor's
                 \* activities one by one, each until it is settled, and how
                 \* its Undo names the Follow: object "id", "uri" or "bare"
    FaultKinds,  \* "crash", "dbError", "lostAccept", "lostResponse", "giveUp"
    MaxFollows,  \* bound: Follow activities an actor issues
    MaxFaults    \* bound: faults

ASSUME FollowAssumption ==
    /\ Softwares \subseteq [ordered : BOOLEAN, undo : {"id", "uri", "bare"}]
    /\ FaultKinds \subseteq {"crash", "dbError", "lostAccept", "lostResponse", "giveUp"}
    /\ MaxFollows \in Nat \ {0} /\ MaxFaults \in Nat

Ids == 1..MaxFollows

\* The activities: the n-th Follow of an actor, and the Undo of it.  The n
\* stands for the Follow's id.
Follows == [kind : {"Follow"}, actor : Actors, n : Ids, form : {"id"}]
Undos   == [kind : {"Undo"}, actor : Actors, n : Ids, form : {"id", "uri", "bare"}]
Activities == Follows \cup Undos

Idle == [kind |-> "none"]

VARIABLES
    software,   \* what the remote servers run
    issued,     \* issued[a]: how many Follows a has issued
    following,  \* following[a]: a's user wants to follow
    outbox,     \* activities the remote servers still post
    accepted,   \* accepted[a]: the Follows of a an Accept has come back for
    follower,   \* follower[a]: uri of a's row in followers, 0 if none
    notified,   \* notified[a][n]: follow notifications stored for Follow n
    act,        \* act[h]: the activity handler h works on, or Idle
    pc,         \* pc[h]: where it is
    faults

remote == <<software, issued, following, accepted>>
vars == <<software, issued, following, outbox, accepted, follower, notified, act, pc, faults>>

PCs == {"idle", "insert", "notify", "accept", "match", "remove", "ok", "error"}

TypeOK ==
    /\ software \in Softwares
    /\ issued \in [Actors -> 0..MaxFollows]
    /\ following \in [Actors -> BOOLEAN]
    /\ outbox \subseteq Activities
    /\ accepted \in [Actors -> SUBSET Ids]
    /\ follower \in [Actors -> 0..MaxFollows]
    /\ notified \in [Actors -> [Ids -> Nat]]
    /\ act \in [Handlers -> Activities \cup {Idle}]
    /\ pc \in [Handlers -> PCs]
    /\ \A h \in Handlers : pc[h] = "idle" <=> act[h] = Idle
    /\ faults \in 0..MaxFaults

Init ==
    /\ software \in Softwares
    /\ issued = [a \in Actors |-> 0]
    /\ following = [a \in Actors |-> FALSE]
    /\ outbox = {}
    /\ accepted = [a \in Actors |-> {}]
    /\ follower = [a \in Actors |-> 0]
    /\ notified = [a \in Actors |-> [n \in Ids |-> 0]]
    /\ act = [h \in Handlers |-> Idle]
    /\ pc = [h \in Handlers |-> "idle"]
    /\ faults = 0

-----------------------------------------------------------------------------
(* The remote servers.                                                     *)

Working(a) == \E h \in Handlers : act[h] # Idle /\ act[h].actor = a

\* Nothing of a is on its way or being handled.
Settled(a) == ~Working(a) /\ \A m \in outbox : m.actor # a

MayIssue(a) == software.ordered => Settled(a)

\* The remote user follows: a Follow with a new id.
IssueFollow(a) ==
    /\ ~following[a] /\ issued[a] < MaxFollows /\ MayIssue(a)
    /\ issued' = [issued EXCEPT ![a] = @ + 1]
    /\ following' = [following EXCEPT ![a] = TRUE]
    /\ outbox' = outbox \cup
          {[kind |-> "Follow", actor |-> a, n |-> issued[a] + 1, form |-> "id"]}
    /\ UNCHANGED <<software, accepted, follower, notified, act, pc, faults>>

\* The remote user unfollows: an Undo of the last Follow.
IssueUndo(a) ==
    /\ following[a] /\ MayIssue(a)
    /\ following' = [following EXCEPT ![a] = FALSE]
    /\ outbox' = outbox \cup
          {[kind |-> "Undo", actor |-> a, n |-> issued[a], form |-> software.undo]}
    /\ UNCHANGED <<software, issued, accepted, follower, notified, act, pc, faults>>

\* An activity is posted to the inbox and passes the signature, rate limit and
\* domain block checks; process dispatches on its type.
Receive(h, m) ==
    /\ m \in outbox /\ pc[h] = "idle"
    /\ software.ordered => \A g \in Handlers : act[g] # m
    /\ act' = [act EXCEPT ![h] = m]
    /\ pc' = [pc EXCEPT ![h] = IF m.kind = "Follow" THEN "insert" ELSE "match"]
    /\ UNCHANGED <<remote, outbox, follower, notified, faults>>

-----------------------------------------------------------------------------
(* The inbox handlers.                                                     *)

Goto(h, s) == pc' = [pc EXCEPT ![h] = s]

\* insert_follower is a plain INSERT: the UNIQUE address makes it fail when the
\* actor already has a row, whatever its uri, and process returns the error.
InsertFollower(h) ==
    LET a == act[h].actor IN
    /\ pc[h] = "insert"
    /\ IF follower[a] = 0
       THEN /\ follower' = [follower EXCEPT ![a] = act[h].n]
            /\ Goto(h, "notify")
       ELSE Goto(h, "error") /\ UNCHANGED follower
    /\ UNCHANGED <<remote, outbox, notified, act, faults>>

\* With a bug: the handler ends after the notification.
InsertNotificationLast(h) ==
    /\ pc[h] = "notify"
    /\ notified' = [notified EXCEPT ![act[h].actor][act[h].n] = @ + 1]
    /\ Goto(h, "ok")
    /\ UNCHANGED <<remote, outbox, follower, act, faults>>

\* insert_notification.
InsertNotification(h) ==
    /\ pc[h] = "notify"
    /\ notified' = [notified EXCEPT ![act[h].actor][act[h].n] = @ + 1]
    /\ Goto(h, "accept")
    /\ UNCHANGED <<remote, outbox, follower, act, faults>>

\* send_accept reaches the actor's inbox.
SendAccept(h) ==
    /\ pc[h] = "accept"
    /\ accepted' = [accepted EXCEPT ![act[h].actor] = @ \cup {act[h].n}]
    /\ Goto(h, "ok")
    /\ UNCHANGED <<software, issued, following, outbox, follower, notified, act, faults>>

\* Undo: the follower addresses are read, and only a matching one is deleted.
MatchFollower(h) ==
    /\ pc[h] = "match"
    /\ Goto(h, IF follower[act[h].actor] = 0 THEN "ok" ELSE "remove")
    /\ UNCHANGED <<remote, outbox, follower, notified, act, faults>>

\* With a bug: the DELETE compares the address alone.
UndoesAny(m, uri) == TRUE

\* The DELETE also compares the stored Follow id, unless the Undo gave none.
Undoes(m, uri) == m.form = "bare" \/ uri = m.n

\* With a bug: the DELETE compares the id of the Undo, which matches no row.
RemoveFollowerNone(h) ==
    /\ pc[h] = "remove"
    /\ Goto(h, "ok")
    /\ UNCHANGED <<remote, outbox, follower, notified, act, faults>>

RemoveFollower(h) ==
    LET a == act[h].actor IN
    /\ pc[h] = "remove"
    /\ follower' = [follower EXCEPT ![a] = IF Undoes(act[h], @) THEN 0 ELSE @]
    /\ Goto(h, "ok")
    /\ UNCHANGED <<remote, outbox, notified, act, faults>>

\* The handler is done; the next post finds it free.
Free(h) == /\ act' = [act EXCEPT ![h] = Idle]
           /\ Goto(h, "idle")

\* A 2xx answer settles the activity.
Respond(h) ==
    /\ pc[h] = "ok"
    /\ outbox' = outbox \ {act[h]}
    /\ Free(h)
    /\ UNCHANGED <<remote, follower, notified, faults>>

\* An error answer leaves it to be posted again.
RespondError(h) ==
    /\ pc[h] = "error"
    /\ Free(h)
    /\ UNCHANGED <<remote, outbox, follower, notified, faults>>

-----------------------------------------------------------------------------
(* Faults.                                                                 *)

Fault(kind) == /\ kind \in FaultKinds
               /\ faults < MaxFaults
               /\ faults' = faults + 1

\* The notification INSERT, the follower INSERT or the DELETE fails.
FailStatement(h) ==
    /\ Fault("dbError")
    /\ pc[h] \in {"insert", "notify", "match", "remove"}
    /\ Goto(h, "error")
    /\ UNCHANGED <<remote, outbox, follower, notified, act>>

\* send_accept fails; the failure is only logged.
LoseAccept(h) ==
    /\ Fault("lostAccept")
    /\ pc[h] = "accept"
    /\ Goto(h, "ok")
    /\ UNCHANGED <<remote, outbox, follower, notified, act>>

\* The remote server does not see the 2xx answer.
LoseResponse(h) ==
    /\ Fault("lostResponse")
    /\ pc[h] = "ok"
    /\ Free(h)
    /\ UNCHANGED <<remote, outbox, follower, notified>>

\* A server stops posting an activity.  One that keeps to the order is taken to
\* post each until it is answered: what it gives up on it never said.
GiveUp(m) ==
    /\ Fault("giveUp")
    /\ ~software.ordered
    /\ m \in outbox
    /\ outbox' = outbox \ {m}
    /\ UNCHANGED <<remote, follower, notified, act, pc>>

\* The server restarts: handlers are lost, the tables stay.
Crash ==
    /\ Fault("crash")
    /\ \E h \in Handlers : pc[h] # "idle"
    /\ act' = [h \in Handlers |-> Idle]
    /\ pc' = [h \in Handlers |-> "idle"]
    /\ UNCHANGED <<remote, outbox, follower, notified>>

Step(h) ==
    \/ InsertFollower(h) \/ InsertNotification(h) \/ SendAccept(h)
    \/ MatchFollower(h) \/ RemoveFollower(h) \/ Respond(h) \/ RespondError(h)

Next ==
    \/ \E a \in Actors : IssueFollow(a) \/ IssueUndo(a)
    \/ \E h \in Handlers :
          \/ \E m \in outbox : Receive(h, m)
          \/ Step(h) \/ FailStatement(h) \/ LoseAccept(h) \/ LoseResponse(h)
    \/ \E m \in outbox : GiveUp(m)
    \/ Crash

Spec == Init /\ [][Next]_vars

\* The runtime runs every handler, and a remote server keeps posting what has
\* not been answered 2xx.
Fairness ==
    /\ \A h \in Handlers : WF_vars(Step(h))
    /\ \A m \in Activities : SF_vars(\E h \in Handlers : Receive(h, m))

FairSpec == Spec /\ Fairness

-----------------------------------------------------------------------------
(* Properties.                                                             *)

\* A remote actor whose current Follow was accepted, and who has not undone it,
\* is in the followers table under that Follow: no late or repeated Undo of an
\* earlier Follow removes it (delete_follower_by_address_and_uri), unless an
\* Undo does not say which Follow it is about.
AcceptedIsFollower ==
    software.undo # "bare" =>
        \A a \in Actors :
            following[a] /\ issued[a] \in accepted[a] => follower[a] = issued[a]

\* Once everything an actor sent in order, each activity posted until it was
\* answered, is settled, the followers table agrees with it, and the owner has
\* been told of the follower; and a Follow that is delivered again, after a lost
\* answer or a crash, is not told again.
SettledAgreement ==
    software.ordered =>
        \A a \in Actors :
            /\ Settled(a) => follower[a] = IF following[a] THEN issued[a] ELSE 0
            /\ Settled(a) /\ follower[a] # 0 => notified[a][follower[a]] = 1
            /\ \A n \in Ids : notified[a][n] <= 1

\* A Follow that the remote user does not take back is answered with an Accept
\* (docs/FEDERATION.md, Follow: "Check if already following", "Send Accept
\* activity").
FollowIsAccepted ==
    \A a \in Actors, n \in Ids :
        (issued[a] = n /\ following[a]) ~>
            (n \in accepted[a] \/ ~following[a] \/ issued[a] # n)
==============================================================================
