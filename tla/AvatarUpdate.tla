---------------------------- MODULE AvatarUpdate -----------------------------
(***************************************************************************)
(* Replacing the avatar of the account                                     *)
(* (src/src/service/account.rs, update_avatar; update_header is the same   *)
(* over the other column) in two stores: the key in the account row and    *)
(* the image in object storage.                                            *)
(*                                                                         *)
(* A request reads the key, uploads its image under a fresh key, swaps the *)
(* key only if it still is the one it read, and deletes the image that is  *)
(* no longer used: the old one after a swap, its own otherwise.            *)
(***************************************************************************)
EXTENDS Naturals

CONSTANTS
    Requests,    \* the requests; each uploads an image of the same name
    Original,    \* the image the account may begin with
    NoImage,     \* avatar_s3_key IS NULL
    FaultKinds,  \* "upload", "swap", "delete", "cancel"
    MaxFaults    \* bound: faults

ASSUME AvatarAssumption ==
    /\ Original \notin Requests /\ NoImage \notin Requests /\ Original # NoImage
    /\ FaultKinds \subseteq {"upload", "swap", "delete", "cancel"}
    /\ MaxFaults \in Nat

VARIABLES
    current,   \* avatar_s3_key of the account
    stored,    \* the images in the bucket
    pc,        \* pc[r]: where request r is
    previous,  \* previous[r]: the key r read
    faults

vars == <<current, stored, pc, previous, faults>>

Images == Requests \cup {Original}
Ended == {"done", "failed", "dropped"}
PCs == {"read", "upload", "swap", "cleanup", "deleteOld"} \cup Ended

TypeOK ==
    /\ current \in Images \cup {NoImage}
    /\ stored \subseteq Images
    /\ pc \in [Requests -> PCs]
    /\ previous \in [Requests -> Images \cup {NoImage}]
    /\ faults \in 0..MaxFaults

Init ==
    /\ current \in {Original, NoImage}
    /\ stored = {current} \ {NoImage}
    /\ pc = [r \in Requests |-> "read"]
    /\ previous = [r \in Requests |-> NoImage]
    /\ faults = 0

-----------------------------------------------------------------------------
Goto(r, s) == pc' = [pc EXCEPT ![r] = s]

\* get_account.
ReadKey(r) ==
    /\ pc[r] = "read"
    /\ previous' = [previous EXCEPT ![r] = current]
    /\ Goto(r, "upload")
    /\ UNCHANGED <<current, stored, faults>>

\* storage.upload_avatar, under a new id.
Upload(r) ==
    /\ pc[r] = "upload"
    /\ stored' = stored \cup {r}
    /\ Goto(r, "swap")
    /\ UNCHANGED <<current, previous, faults>>

\* update_account_avatar_key_if_matches: one UPDATE with the key it read in its
\* WHERE clause.
Swap(r) ==
    /\ pc[r] = "swap"
    /\ IF current = previous[r]
       THEN current' = r /\ Goto(r, "deleteOld")
       ELSE UNCHANGED current /\ Goto(r, "cleanup")
    /\ UNCHANGED <<stored, previous, faults>>

\* With a bug: a request that lost leaves its image.
CleanupNot(r) ==
    /\ pc[r] = "cleanup"
    /\ Goto(r, "failed")
    /\ UNCHANGED <<current, stored, previous, faults>>

\* With a bug: a request that lost deletes the image it read.
CleanupPrevious(r) ==
    /\ pc[r] = "cleanup"
    /\ stored' = stored \ {previous[r]}
    /\ Goto(r, "failed")
    /\ UNCHANGED <<current, previous, faults>>

\* The request deletes the image it uploaded and fails.
Cleanup(r) ==
    /\ pc[r] = "cleanup"
    /\ stored' = stored \ {r}
    /\ Goto(r, "failed")
    /\ UNCHANGED <<current, previous, faults>>

\* The request deletes the image it replaced, if there was one.
DeleteOld(r) ==
    /\ pc[r] = "deleteOld"
    /\ stored' = stored \ {previous[r]}
    /\ Goto(r, "done")
    /\ UNCHANGED <<current, previous, faults>>

-----------------------------------------------------------------------------
Fault(kind) == /\ kind \in FaultKinds
               /\ faults < MaxFaults
               /\ faults' = faults + 1

\* The upload fails; the object may be there all the same.
FailUpload(r) ==
    /\ Fault("upload")
    /\ pc[r] = "upload"
    /\ stored' \in {stored, stored \cup {r}}
    /\ Goto(r, "failed")
    /\ UNCHANGED <<current, previous>>

\* The UPDATE fails.
FailSwap(r) ==
    /\ Fault("swap")
    /\ pc[r] = "swap"
    /\ Goto(r, "cleanup")
    /\ UNCHANGED <<current, stored, previous>>

\* Deleting an object fails: it is logged, and the image stays.
FailDelete(r) ==
    /\ Fault("delete")
    /\ \/ pc[r] = "cleanup" /\ Goto(r, "failed")
       \/ pc[r] = "deleteOld" /\ Goto(r, "done")
    /\ UNCHANGED <<current, stored, previous>>

\* The client goes away or the server stops.
Cancel(r) ==
    /\ Fault("cancel")
    /\ pc[r] \notin Ended
    /\ Goto(r, "dropped")
    /\ UNCHANGED <<current, stored, previous>>

Step(r) == ReadKey(r) \/ Upload(r) \/ Swap(r) \/ Cleanup(r) \/ DeleteOld(r)

Next == \E r \in Requests :
            Step(r) \/ FailUpload(r) \/ FailSwap(r) \/ FailDelete(r) \/ Cancel(r)

Spec == Init /\ [][Next]_vars

-----------------------------------------------------------------------------
(* Properties.                                                             *)

\* The key in the account row always names an image that is in the bucket: no
\* request deletes an image another one has put in place.
CurrentIsStored == current # NoImage => current \in stored

AllEnded == \A r \in Requests : pc[r] \in Ended

\* Without faults, no image is left in the bucket that the account does not use.
NoOrphans == faults = 0 /\ AllEnded => stored \subseteq {current}

==============================================================================
