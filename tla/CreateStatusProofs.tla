------------------------- MODULE CreateStatusProofs --------------------------
(***************************************************************************)
(* Proofs about CreateStatus, for any requests, keys and bounds.  In a     *)
(* prompt run a live reservation cannot be taken over, so                  *)
(* the row of its key stays a fresh NULL row until the request itself ends *)
(* it; everything else rests on that.                                      *)
(***************************************************************************)
EXTENDS CreateStatus, TLAPS

\* The states only a request that carries a key can be in.
KeyedStates == {"lookup", "reserve", "clear", "store", "insert"} \cup Waiting

\* No request without a key is ever in one of them.
KeyedOnly == \A r \in Requests : pc[r] \in KeyedStates => KeyOf[r] \in Keys

\* The row of an owned key is a reservation that nobody may take over.
OwnedIsFresh ==
    \A r \in Requests : Owner(r) =>
        row[KeyOf[r]] = Null /\ now <= createdAt[KeyOf[r]] + StaleAfter

\* The UPDATE of store_idempotency_response always finds its row.
NoInsert == \A r \in Requests : pc[r] # "insert"

TypeInv == TypeOK /\ KeyedOnly

\* SingleOwner, of a prompt run.
OneOwner ==
    \A r, s \in Requests :
        Owner(r) /\ Owner(s) /\ KeyOf[r] = KeyOf[s] => r = s

OwnerInv == TypeInv /\ prompt /\ OwnedIsFresh /\ NoInsert /\ OneOwner

\* A keyed answer is the response stored under the key.
AnswerIsStored ==
    \A r \in Requests : KeyOf[r] \in Keys /\ answer[r] # None =>
        row[KeyOf[r]] = answer[r]

-----------------------------------------------------------------------------
(* Type correctness.                                                       *)

\* Writing a row by INSERT keeps the table well typed.
LEMMA AfterInsertType ==
    ASSUME TypeOK, NEW k \in Keys, NEW v \in Requests \cup {Null}
    PROVE  AfterInsert(k, v) \in [Keys -> Requests \cup {Null, NoRow}]
  BY DEF AfterInsert, TypeOK

\* Every step of the handler, every fault and the clock keep the types, and a
\* request without a key stays out of the states that work on one.
LEMMA TypeStep == TypeInv /\ [Next]_vars => TypeInv'
<1> SUFFICES ASSUME TypeInv, [Next]_vars PROVE TypeInv'
  OBVIOUS
<1> USE ConstantsAssumption
<1> USE DEF TypeInv, TypeOK, KeyedOnly, KeyedStates, States, Waiting, Owning,
            Ended, Goto, Serve
<1>1. ASSUME NEW r \in Requests, Arrive(r) PROVE TypeInv'
  BY <1>1 DEF Arrive
<1>2. ASSUME NEW r \in Requests, Lookup(r) \/ WaitLookup(r) PROVE TypeInv'
  BY <1>2 DEF Lookup, WaitLookup, ReadKey
<1>3. ASSUME NEW r \in Requests, TakeKey(r) PROVE TypeInv'
  <2>1. KeyOf[r] \in Keys
    BY <1>3 DEF TakeKey
  <2>2. row' \in [Keys -> Requests \cup {Null, NoRow}]
    BY <1>3, <2>1, AfterInsertType DEF TakeKey, WriteReservation
  <2>3. QED
    BY <1>3, <2>1, <2>2 DEF TakeKey, WriteReservation
<1>4. ASSUME NEW r \in Requests, AwaitOwner(r) \/ GiveUp(r) PROVE TypeInv'
  BY <1>4 DEF AwaitOwner, GiveUp
<1>5. ASSUME NEW r \in Requests, RejectBody(r) PROVE TypeInv'
  BY <1>5 DEF RejectBody, AfterError
<1>6. ASSUME NEW r \in Requests, PersistStatus(r) PROVE TypeInv'
  BY <1>6 DEF PersistStatus
<1>7. ASSUME NEW r \in Requests, BuildResponse(r) PROVE TypeInv'
  BY <1>7 DEF BuildResponse
<1>8. ASSUME NEW r \in Requests, ClearPending(r) PROVE TypeInv'
  BY <1>8 DEF ClearPending
<1>9. ASSUME NEW r \in Requests, StoreResponse(r) PROVE TypeInv'
  BY <1>9 DEF StoreResponse, Reply, Fault
<1>10. ASSUME NEW r \in Requests, InsertResponse(r) PROVE TypeInv'
  <2>1. KeyOf[r] \in Keys
    BY <1>10 DEF InsertResponse
  <2>2. row' \in [Keys -> Requests \cup {Null, NoRow}]
    BY <1>10, <2>1, AfterInsertType DEF InsertResponse
  <2>3. QED
    BY <1>10, <2>1, <2>2 DEF InsertResponse, Reply, Fault
<1>11. ASSUME NEW r \in Requests, FailStatement(r) PROVE TypeInv'
  BY <1>11 DEF FailStatement, Fault, AfterError
<1>12. ASSUME NEW r \in Requests, Cancel(r) PROVE TypeInv'
  BY <1>12 DEF Cancel, Fault
<1>13. ASSUME Restart PROVE TypeInv'
  BY <1>13 DEF Restart, Fault, InFlight
<1>14. ASSUME Tick PROVE TypeInv'
  BY <1>14 DEF Tick
<1>15. CASE UNCHANGED vars
  BY <1>15 DEF vars
<1>16. QED
  BY <1>1, <1>2, <1>3, <1>4, <1>5, <1>6, <1>7, <1>8, <1>9, <1>10, <1>11,
     <1>12, <1>13, <1>14, <1>15 DEF Next, Step

LEMMA TypeInit == Init => TypeInv
  BY ConstantsAssumption
     DEF Init, TypeInv, TypeOK, KeyedOnly, KeyedStates, States, Waiting

\* The type invariant holds in every reachable state.
THEOREM TypeCorrect == Spec => []TypeOK
<1>1. TypeInv => TypeOK
  BY DEF TypeInv
<1>2. QED
  BY <1>1, TypeInit, TypeStep, PTL DEF Spec
-----------------------------------------------------------------------------
(* Single ownership of a key.                                              *)

\* Two requests that both own a key, one of them only since this step, are one:
\* the row of an owned key is fresh, so nobody can reserve it.
LEMMA NotTakenOver ==
    ASSUME OwnerInv, NEW r \in Requests, NEW s \in Requests,
           KeyOf[r] = KeyOf[s], Owner(s), CanReserve(KeyOf[r])
    PROVE  FALSE
  BY ConstantsAssumption
     DEF OwnerInv, TypeInv, TypeOK, OwnedIsFresh, CanReserve, Older, Owner

\* An owned row is too young for the trigger to delete.
LEMMA NotPruned ==
    ASSUME OwnerInv, NEW s \in Requests, Owner(s)
    PROVE  row[KeyOf[s]] # NoRow /\ ~Older(KeyOf[s], PruneAfter)
  BY ConstantsAssumption
     DEF OwnerInv, TypeInv, TypeOK, OwnedIsFresh, Older, Owner

\* What a step that leaves the table and the clock alone and makes nobody an
\* owner has to show.
LEMMA OwnersShrink ==
    ASSUME OwnerInv, TypeInv', UNCHANGED <<row, createdAt, now, prompt>>,
           \A r \in Requests : Owner(r)' => Owner(r),
           \A r \in Requests : pc'[r] # "insert"
    PROVE  OwnerInv'
  BY DEF OwnerInv, OwnedIsFresh, NoInsert, OneOwner, Owner

\* Whether a run is prompt never changes.
LEMMA PromptStays == [Next]_vars => prompt' = prompt
  BY DEF Next, Step, Arrive, Lookup, WaitLookup, ReadKey, TakeKey, AwaitOwner,
         GiveUp, RejectBody, PersistStatus, BuildResponse, ClearPending,
         StoreResponse, InsertResponse, FailStatement, Cancel, Restart, Tick, vars

\* While requests end within StaleAfter, ownership is kept by every step.
LEMMA OwnerStep == OwnerInv /\ [Next]_vars => OwnerInv'
<1> SUFFICES ASSUME OwnerInv, [Next]_vars PROVE OwnerInv'
  OBVIOUS
<1>p. prompt'
  BY PromptStays DEF OwnerInv
<1> USE ConstantsAssumption
<1>0. TypeInv /\ TypeInv'
  BY TypeStep DEF OwnerInv
<1> USE DEF Goto, Serve, Owner, Owning, NoInsert
<1>1. ASSUME NEW r \in Requests, Arrive(r) PROVE OwnerInv'
  <2>1. \A s \in Requests : Owner(s)' => Owner(s)
    BY <1>1, <1>0 DEF Arrive, TypeInv, TypeOK
  <2>2. \A s \in Requests : pc'[s] # "insert"
    BY <1>1, <1>0 DEF Arrive, OwnerInv, TypeInv, TypeOK
  <2>3. QED
    BY <1>0, <1>1, <2>1, <2>2, OwnersShrink DEF Arrive
<1>2. ASSUME NEW r \in Requests, Lookup(r) \/ WaitLookup(r) PROVE OwnerInv'
  <2>1. \A s \in Requests : Owner(s)' => Owner(s)
    BY <1>2, <1>0 DEF Lookup, WaitLookup, ReadKey, TypeInv, TypeOK
  <2>a. /\ pc' = [pc EXCEPT ![r] = pc'[r]]
        /\ pc'[r] \in {"served", "reserve", "waitReserve"}
    BY <1>2, <1>0 DEF Lookup, WaitLookup, ReadKey, TypeInv, TypeOK
  <2>2. \A s \in Requests : pc'[s] # "insert"
    BY <1>0, <2>a DEF OwnerInv, TypeInv, TypeOK
  <2>3. QED
    BY <1>0, <1>2, <2>1, <2>2, OwnersShrink DEF Lookup, WaitLookup, ReadKey
<1>3. ASSUME NEW r \in Requests, TakeKey(r) PROVE OwnerInv'
  <2> DEFINE k == KeyOf[r]
  <2>1. k \in Keys
    BY <1>3, <1>0 DEF TakeKey, TypeInv, KeyedOnly, KeyedStates, Waiting
  <2>2. \A s \in Requests : Owner(s)' => s = r \/ (Owner(s) /\ KeyOf[s] # k)
    BY <1>3, <1>0, NotTakenOver DEF TakeKey, TypeInv, TypeOK
  <2>3. row'[k] = Null /\ createdAt'[k] = now /\ now' = now
    BY <1>3, <1>0, <2>1
       DEF TakeKey, WriteReservation, AfterInsert, TypeInv, TypeOK
  <2>4. \A s \in Requests : Owner(s) /\ KeyOf[s] # k =>
            row'[KeyOf[s]] = row[KeyOf[s]] /\ createdAt'[KeyOf[s]] = createdAt[KeyOf[s]]
    BY <1>3, <1>0, <2>1, NotPruned
       DEF TakeKey, WriteReservation, AfterInsert, TypeInv, TypeOK
  <2>5. OwnedIsFresh'
    BY <1>0, <2>2, <2>3, <2>4 DEF OwnerInv, OwnedIsFresh, TypeInv, TypeOK
  <2>6. OneOwner'
    BY <2>2 DEF OwnerInv, OneOwner
  <2>7. NoInsert'
    BY <1>3, <1>0 DEF TakeKey, OwnerInv, TypeInv, TypeOK
  <2>8. QED
    BY <1>0, <1>p, <2>5, <2>6, <2>7 DEF OwnerInv
<1>4. ASSUME NEW r \in Requests, AwaitOwner(r) \/ GiveUp(r) PROVE OwnerInv'
  <2>1. \A s \in Requests : Owner(s)' => Owner(s)
    BY <1>4, <1>0 DEF AwaitOwner, GiveUp, TypeInv, TypeOK
  <2>2. \A s \in Requests : pc'[s] # "insert"
    BY <1>4, <1>0 DEF AwaitOwner, GiveUp, OwnerInv, TypeInv, TypeOK
  <2>3. QED
    BY <1>0, <1>4, <2>1, <2>2, OwnersShrink DEF AwaitOwner, GiveUp
<1>5. ASSUME NEW r \in Requests, RejectBody(r) \/ PersistStatus(r) \/ BuildResponse(r)
      PROVE OwnerInv'
  <2>1. \A s \in Requests : Owner(s)' => Owner(s)
    BY <1>5, <1>0
       DEF RejectBody, AfterError, PersistStatus, BuildResponse, TypeInv, TypeOK
  <2>2. \A s \in Requests : pc'[s] # "insert"
    BY ZenonT(30), <1>5, <1>0 DEF RejectBody, AfterError, PersistStatus, BuildResponse,
                      OwnerInv, TypeInv, TypeOK
  <2>3. QED
    BY <1>0, <1>5, <2>1, <2>2, OwnersShrink
       DEF RejectBody, PersistStatus, BuildResponse
<1>6. ASSUME NEW r \in Requests, ClearPending(r) \/ StoreResponse(r) PROVE OwnerInv'
  <2> DEFINE k == KeyOf[r]
  <2>1. k \in Keys /\ Owner(r)
    BY <1>6, <1>0
       DEF ClearPending, StoreResponse, TypeInv, KeyedOnly, KeyedStates
  <2>2. row[k] = Null
    BY <2>1 DEF OwnerInv, OwnedIsFresh
  <2>a. \/ pc' = [pc EXCEPT ![r] = "failed"]
        \/ pc' = [pc EXCEPT ![r] = "served"]
        \/ pc' = [pc EXCEPT ![r] = "dropped"]
    BY <1>6, <2>2 DEF ClearPending, StoreResponse, Reply, OwnerInv, NoInsert, OwnedIsFresh
  <2>3. \A s \in Requests : Owner(s)' => Owner(s) /\ KeyOf[s] # k
    BY <1>0, <2>1, <2>a DEF OwnerInv, OneOwner, TypeInv, TypeOK
  <2>4. \A s \in Requests : Owner(s) /\ KeyOf[s] # k => row'[KeyOf[s]] = row[KeyOf[s]]
    BY <1>6, <1>0, <2>1 DEF ClearPending, StoreResponse, TypeInv, TypeOK
  <2>b. UNCHANGED <<createdAt, now>>
    BY <1>6 DEF ClearPending, StoreResponse
  <2>5. OwnedIsFresh'
    BY <2>3, <2>4, <2>b DEF OwnerInv, OwnedIsFresh
  <2>6. OneOwner'
    BY <2>3 DEF OwnerInv, OneOwner
  <2>7. NoInsert'
    BY <1>0, <2>a DEF OwnerInv, TypeInv, TypeOK
  <2>8. QED
    BY <1>0, <1>p, <2>5, <2>6, <2>7 DEF OwnerInv
<1>7. ASSUME NEW r \in Requests, InsertResponse(r) PROVE OwnerInv'
  BY <1>7 DEF InsertResponse, OwnerInv
<1>8. ASSUME NEW r \in Requests, FailStatement(r) \/ Cancel(r) PROVE OwnerInv'
  <2>1. \A s \in Requests : Owner(s)' => Owner(s)
    BY <1>8, <1>0 DEF FailStatement, Cancel, AfterError, TypeInv, TypeOK
  <2>2. \A s \in Requests : pc'[s] # "insert"
    BY <1>8, <1>0 DEF FailStatement, Cancel, AfterError, OwnerInv, TypeInv, TypeOK
  <2>3. QED
    BY <1>0, <1>8, <2>1, <2>2, OwnersShrink DEF FailStatement, Cancel
<1>9. ASSUME Restart PROVE OwnerInv'
  <2>1. \A s \in Requests : Owner(s)' => Owner(s)
    BY <1>9, <1>0 DEF Restart, InFlight, TypeInv, TypeOK
  <2>2. \A s \in Requests : pc'[s] # "insert"
    BY <1>9, <1>0 DEF Restart, InFlight, OwnerInv, TypeInv, TypeOK
  <2>3. QED
    BY <1>0, <1>9, <2>1, <2>2, OwnersShrink DEF Restart
<1>10. ASSUME Tick PROVE OwnerInv'
  <2>1. OwnedIsFresh'
    BY <1>10, <1>0 DEF Tick, OwnerInv, OwnedIsFresh, TypeInv, TypeOK
  <2>2. OneOwner' /\ NoInsert'
    BY <1>10 DEF Tick, OwnerInv, OneOwner
  <2>3. QED
    BY <1>0, <1>p, <2>1, <2>2 DEF OwnerInv
<1>11. CASE UNCHANGED vars
  BY <1>0, <1>11, OwnersShrink DEF vars, OwnerInv
<1>12. QED
  BY <1>1, <1>2, <1>3, <1>4, <1>5, <1>6, <1>7, <1>8, <1>9, <1>10, <1>11
     DEF Next, Step

LEMMA OwnerInit == ASSUME Init, prompt PROVE OwnerInv
<1>1. TypeInv
  BY TypeInit
<1>2. OwnedIsFresh /\ NoInsert /\ OneOwner
  BY DEF Init, OwnedIsFresh, NoInsert, OneOwner, Owner, Owning
<1>3. QED
  BY <1>1, <1>2 DEF OwnerInv

\* A request owns its key alone from the reservation to the end, for any number
\* of requests and keys, whatever fails and whatever the trigger prunes.
THEOREM SingleOwnerHolds == Spec => []SingleOwner
<1>1. (prompt => OwnerInv) => SingleOwner
  BY DEF OwnerInv, OneOwner, SingleOwner
<1>2. Init => (prompt => OwnerInv)
  BY OwnerInit
<1>3. (prompt => OwnerInv) /\ [Next]_vars => (prompt => OwnerInv)'
  BY OwnerStep, PromptStays
<1>4. QED
  BY <1>1, <1>2, <1>3, PTL DEF Spec
-----------------------------------------------------------------------------
(* What is stored and answered.                                            *)

\* How a step may change the row of one key: a stored response stays, or the
\* trigger removes it for its age.
LEMMA RowStep ==
    ASSUME OwnerInv, [Next]_vars, NEW k \in Keys, row[k] \in Requests
    PROVE  row'[k] = row[k] \/ (row'[k] = NoRow /\ Older(k, PruneAfter))
<1> USE ConstantsAssumption DEF Goto, Serve, Owner, Owning
<1>0. TypeInv
  BY DEF OwnerInv
<1>1. ASSUME NEW r \in Requests, TakeKey(r)
      PROVE row'[k] = row[k] \/ (row'[k] = NoRow /\ Older(k, PruneAfter))
  BY <1>1, <1>0 DEF TakeKey, CanReserve, WriteReservation, AfterInsert,
                    TypeInv, TypeOK
<1>2. ASSUME NEW r \in Requests, ClearPending(r) PROVE row'[k] = row[k]
  BY <1>2, <1>0 DEF ClearPending, TypeInv, TypeOK
<1>3. ASSUME NEW r \in Requests, StoreResponse(r) PROVE row'[k] = row[k]
  <2>1. KeyOf[r] \in Keys /\ row[KeyOf[r]] = Null
    BY <1>3, <1>0 DEF StoreResponse, TypeInv, KeyedOnly, KeyedStates,
                      OwnerInv, OwnedIsFresh
  <2>2. QED
    BY <1>3, <1>0, <2>1 DEF StoreResponse, TypeInv, TypeOK
<1>4. ASSUME NEW r \in Requests, InsertResponse(r) PROVE row'[k] = row[k]
  BY <1>4 DEF InsertResponse, OwnerInv, NoInsert
<1>5. ASSUME NEW r \in Requests,
             \/ Arrive(r) \/ Lookup(r) \/ WaitLookup(r) \/ AwaitOwner(r)
             \/ GiveUp(r) \/ RejectBody(r) \/ PersistStatus(r)
             \/ BuildResponse(r) \/ FailStatement(r) \/ Cancel(r)
      PROVE row'[k] = row[k]
  BY <1>5 DEF Arrive, Lookup, WaitLookup, ReadKey, AwaitOwner, GiveUp,
              RejectBody, PersistStatus, BuildResponse, FailStatement, Cancel
<1>6. CASE Restart \/ Tick \/ UNCHANGED vars
  BY <1>6 DEF Restart, Tick, vars
<1>7. QED
  BY <1>1, <1>2, <1>3, <1>4, <1>5, <1>6 DEF Next, Step

\* A stored response is never replaced, and only the trigger removes it.
THEOREM StoredResponseIsFinalHolds == Spec => StoredResponseIsFinal
<1>1. (prompt => OwnerInv) /\ [Next]_vars =>
         [\A k \in Keys : prompt /\ row[k] \in Requests =>
             \/ row'[k] = row[k]
             \/ row'[k] = NoRow /\ Older(k, PruneAfter)]_vars
  BY RowStep
<1>2. Init => (prompt => OwnerInv)
  BY OwnerInit
<1>3. (prompt => OwnerInv) /\ [Next]_vars => (prompt => OwnerInv)'
  BY OwnerStep, PromptStays
<1>4. QED
  BY <1>1, <1>2, <1>3, PTL DEF Spec, StoredResponseIsFinal

\* A request that has passed the commit has its status in the table, and a
\* response under a key was made for that key.
CommitInv == /\ TypeInv
             /\ \A r \in Requests :
                   pc[r] \in {"read", "store", "insert"} => r \in posts
             /\ AnswersAreCommitted

\* Responses are stored and answered only after the commit, prompt or not.
LEMMA CommitStep == CommitInv /\ [Next]_vars => CommitInv'
<1> SUFFICES ASSUME CommitInv, [Next]_vars PROVE CommitInv'
  OBVIOUS
<1>0. TypeInv /\ TypeInv'
  BY TypeStep DEF CommitInv
<1> USE ConstantsAssumption
<1> USE DEF CommitInv, AnswersAreCommitted, Goto, Serve
<1>1. ASSUME NEW r \in Requests,
             Arrive(r) \/ AwaitOwner(r) \/ GiveUp(r) \/ RejectBody(r)
      PROVE CommitInv'
  BY <1>0, <1>1
     DEF Arrive, AwaitOwner, GiveUp, RejectBody, AfterError, TypeInv, TypeOK
<1>2. ASSUME NEW r \in Requests, Lookup(r) \/ WaitLookup(r) PROVE CommitInv'
  <2>1. KeyOf[r] \in Keys
    BY <1>0, <1>2 DEF Lookup, WaitLookup, ReadKey, TypeInv, KeyedOnly,
                      KeyedStates, Waiting
  <2>2. QED
    BY <1>0, <1>2, <2>1 DEF Lookup, WaitLookup, ReadKey, TypeInv, TypeOK
<1>3. ASSUME NEW r \in Requests, TakeKey(r) PROVE CommitInv'
  <2>1. \A k \in Keys : row'[k] \in Requests => row'[k] = row[k]
    BY <1>3, <1>0 DEF TakeKey, WriteReservation, AfterInsert, TypeInv, TypeOK
  <2>2. QED
    BY <1>0, <1>3, <2>1 DEF TakeKey, TypeInv, TypeOK
<1>4. ASSUME NEW r \in Requests, PersistStatus(r) PROVE CommitInv'
  BY <1>0, <1>4 DEF PersistStatus, TypeInv, TypeOK
<1>5. ASSUME NEW r \in Requests, BuildResponse(r) PROVE CommitInv'
  BY <1>0, <1>5 DEF BuildResponse, TypeInv, TypeOK
<1>6. ASSUME NEW r \in Requests, ClearPending(r) PROVE CommitInv'
  BY <1>0, <1>6 DEF ClearPending, TypeInv, TypeOK
<1>7. ASSUME NEW r \in Requests, StoreResponse(r) PROVE CommitInv'
  BY <1>0, <1>7 DEF StoreResponse, Reply, TypeInv, TypeOK
<1>8. ASSUME NEW r \in Requests, InsertResponse(r) PROVE CommitInv'
  <2>1. \A k \in Keys : row'[k] \in Requests =>
            row'[k] = row[k] \/ (k = KeyOf[r] /\ row'[k] = r)
    BY <1>8, <1>0 DEF InsertResponse, AfterInsert, TypeInv, TypeOK
  <2>2. QED
    BY <1>0, <1>8, <2>1 DEF InsertResponse, Reply, TypeInv, TypeOK
<1>9. ASSUME NEW r \in Requests, FailStatement(r) \/ Cancel(r) PROVE CommitInv'
  BY <1>0, <1>9 DEF FailStatement, Cancel, AfterError, TypeInv, TypeOK
<1>10. CASE Restart
  BY <1>0, <1>10 DEF Restart, InFlight, TypeInv, TypeOK
<1>11. CASE Tick \/ UNCHANGED vars
  BY <1>0, <1>11 DEF Tick, vars
<1>12. QED
  BY <1>1, <1>2, <1>3, <1>4, <1>5, <1>6, <1>7, <1>8, <1>9, <1>10, <1>11
     DEF Next, Step

\* No answer and no stored response names a status that is not committed, even
\* when reservations are taken over from requests that still run.
THEOREM AnswersAreCommittedHolds == Spec => []AnswersAreCommitted
<1>1. Init => CommitInv
  BY ConstantsAssumption
     DEF Init, CommitInv, AnswersAreCommitted, TypeInv, TypeOK, KeyedOnly,
         KeyedStates, States, Waiting
<1>2. CommitInv => AnswersAreCommitted
  BY DEF CommitInv
<1>3. QED
  BY <1>1, <1>2, CommitStep, PTL DEF Spec
-----------------------------------------------------------------------------
(* Agreement, over a span of time no longer than rows are kept.            *)

\* Only a request that has been served has an answer.
AnswerOnlyServed == \A r \in Requests : answer[r] # None => pc[r] = "served"

AgreeInv == OwnerInv /\ AnswerOnlyServed /\ AnswerIsStored

\* Within the retention period the trigger deletes nothing.
LEMMA NothingPruned ==
    ASSUME TypeOK, MaxTime <= PruneAfter, NEW k \in Keys
    PROVE  ~Older(k, PruneAfter)
  BY ConstantsAssumption DEF TypeOK, Older

\* Every step leaves each answer and the response it was taken from, or serves
\* one request with the response of its key.
LEMMA AnswerStep ==
    ASSUME AgreeInv, [Next]_vars, NEW r \in Requests, answer'[r] # answer[r]
    PROVE  /\ answer[r] = None
           /\ pc'[r] = "served"
           /\ KeyOf[r] \in Keys => row'[KeyOf[r]] = answer'[r]
<1> USE ConstantsAssumption
<1> USE DEF Goto, Serve
<1>0. TypeInv /\ [pc EXCEPT ![r] = "served"][r] = "served"
  BY DEF AgreeInv, OwnerInv, TypeInv, TypeOK
<1>1. CASE \E s \in Requests : Lookup(s) \/ WaitLookup(s)
  BY <1>0, <1>1 DEF Lookup, WaitLookup, ReadKey, AgreeInv, AnswerOnlyServed,
                    TypeInv, TypeOK
<1>2. CASE \E s \in Requests : BuildResponse(s)
  BY <1>0, <1>2 DEF BuildResponse, AgreeInv, AnswerOnlyServed, TypeInv, TypeOK
<1>3. CASE \E s \in Requests : StoreResponse(s)
  BY <1>0, <1>3 DEF StoreResponse, Reply, AgreeInv, AnswerOnlyServed, TypeInv, TypeOK
<1>4. CASE \E s \in Requests : InsertResponse(s)
  BY <1>4 DEF InsertResponse, AgreeInv, OwnerInv, NoInsert
<1>5. CASE \/ \E s \in Requests :
                  \/ Arrive(s) \/ TakeKey(s) \/ AwaitOwner(s) \/ GiveUp(s)
                  \/ RejectBody(s) \/ PersistStatus(s) \/ ClearPending(s)
                  \/ FailStatement(s) \/ Cancel(s)
           \/ Restart \/ Tick \/ UNCHANGED vars
  BY <1>5 DEF Arrive, TakeKey, AwaitOwner, GiveUp, RejectBody, PersistStatus,
              ClearPending, FailStatement, Cancel, Restart, Tick, vars
<1>6. QED
  BY <1>1, <1>2, <1>3, <1>4, <1>5 DEF Next, Step

\* A request that has been served stays served.
LEMMA ServedStays ==
    ASSUME TypeInv, [Next]_vars, NEW r \in Requests, pc[r] = "served"
    PROVE  pc'[r] = "served"
  BY DEF Next, Step, Arrive, Lookup, WaitLookup, ReadKey, TakeKey, AwaitOwner,
         GiveUp, RejectBody, PersistStatus, BuildResponse, ClearPending,
         StoreResponse, InsertResponse, FailStatement, Cancel, Restart, Tick,
         InFlight, Ended, Waiting, Goto, Serve, Reply, vars, TypeInv, TypeOK

LEMMA AgreeStep ==
    ASSUME MaxTime <= PruneAfter
    PROVE  AgreeInv /\ [Next]_vars => AgreeInv'
<1> SUFFICES ASSUME AgreeInv, [Next]_vars PROVE AgreeInv'
  OBVIOUS
<1>1. OwnerInv /\ OwnerInv'
  BY OwnerStep DEF AgreeInv
<1>2. AnswerOnlyServed'
  <2> SUFFICES ASSUME NEW r \in Requests, answer'[r] # None
               PROVE pc'[r] = "served"
    BY DEF AnswerOnlyServed
  <2>1. CASE answer'[r] = answer[r]
    BY <1>1, <2>1, ServedStays DEF AgreeInv, AnswerOnlyServed, OwnerInv
  <2>2. CASE answer'[r] # answer[r]
    BY <2>2, AnswerStep
  <2>3. QED
    BY <2>1, <2>2
<1>3. AnswerIsStored'
  <2> SUFFICES ASSUME NEW r \in Requests, KeyOf[r] \in Keys, answer'[r] # None
               PROVE row'[KeyOf[r]] = answer'[r]
    BY DEF AnswerIsStored
  <2>1. CASE answer'[r] = answer[r]
    <3>1. row[KeyOf[r]] = answer[r] /\ answer[r] \in Requests
      BY <1>1, <2>1 DEF AgreeInv, AnswerIsStored, OwnerInv, TypeInv, TypeOK
    <3>2. ~Older(KeyOf[r], PruneAfter)
      BY <1>1, NothingPruned DEF OwnerInv, TypeInv
    <3>3. QED
      BY <1>1, <2>1, <3>1, <3>2, RowStep
  <2>2. CASE answer'[r] # answer[r]
    BY <2>2, AnswerStep
  <2>3. QED
    BY <2>1, <2>2
<1>4. QED
  BY <1>1, <1>2, <1>3 DEF AgreeInv

LEMMA AgreeInit == Init /\ prompt => AgreeInv
  BY OwnerInit DEF AgreeInv, AnswerOnlyServed, AnswerIsStored, Init

\* No two requests with one key are answered with different posts, however many
\* there are and whatever fails, within the retention period of the rows.
THEOREM AgreedAnswerHolds ==
    ASSUME MaxTime <= PruneAfter
    PROVE  Spec => []AgreedAnswer
<1>1. (prompt => AgreeInv) => AgreedAnswer
  BY ConstantsAssumption DEF AgreeInv, AnswerIsStored, AgreedAnswer
<1>2. Init => (prompt => AgreeInv)
  BY AgreeInit
<1>3. (prompt => AgreeInv) /\ [Next]_vars => (prompt => AgreeInv)'
  BY AgreeStep, PromptStays
<1>4. QED
  BY <1>1, <1>2, <1>3, PTL DEF Spec

-----------------------------------------------------------------------------
(* Refinement of the contract.                                             *)

\* Each step is one of the contract's, or one the client cannot see.
LEMMA ContractStep ==
    ASSUME MaxTime <= PruneAfter
    PROVE  AgreeInv /\ [Next]_vars => [Contract!Next]_(Contract!vars)
<1> SUFFICES ASSUME AgreeInv, [Next]_vars
             PROVE [Contract!Next]_(Contract!vars)
  OBVIOUS
<1> USE ConstantsAssumption
<1> DEFINE winner == [k \in Keys |-> IF prompt /\ row[k] \in Requests THEN row[k]
                                                                    ELSE None]
<1>p. prompt /\ prompt'
  BY PromptStays DEF AgreeInv, OwnerInv
<1>0. OwnerInv /\ TypeInv /\ AnswerOnlyServed
  BY DEF AgreeInv, OwnerInv
<1>k. \A k \in Keys : row[k] \in Requests => row'[k] = row[k]
  BY <1>p, <1>0, RowStep, NothingPruned DEF TypeInv
<1>1. ASSUME NEW r \in Requests, Lookup(r) \/ WaitLookup(r)
      PROVE Contract!Replay(r) \/ UNCHANGED Contract!vars
  <2>1. KeyOf[r] \in Keys /\ answer[r] = None
    BY <1>p, <1>0, <1>1 DEF Lookup, WaitLookup, ReadKey, TypeInv, KeyedOnly,
                      KeyedStates, Waiting, AnswerOnlyServed
  <2>2. UNCHANGED row
    BY <1>p, <1>1 DEF Lookup, WaitLookup, ReadKey
  <2>3. CASE row[KeyOf[r]] \in Requests
    BY <1>p, <1>1, <2>1, <2>2, <2>3
       DEF Lookup, WaitLookup, ReadKey, Serve, Contract!Replay
  <2>4. CASE row[KeyOf[r]] \notin Requests
    BY <1>p, <1>1, <2>2, <2>4 DEF Lookup, WaitLookup, ReadKey, Contract!vars
  <2>5. QED
    BY <2>3, <2>4
<1>2. ASSUME NEW r \in Requests, StoreResponse(r) PROVE Contract!Claim(r)
  <2>1. /\ KeyOf[r] \in Keys /\ answer[r] = None
        /\ row[KeyOf[r]] = Null
    BY <1>p, <1>0, <1>2 DEF StoreResponse, TypeInv, KeyedOnly, KeyedStates,
                      AnswerOnlyServed, OwnerInv, OwnedIsFresh, Owner, Owning
  <2>2. /\ row' = [row EXCEPT ![KeyOf[r]] = r]
        /\ answer' \in {answer, [answer EXCEPT ![r] = r]}
    BY <1>p, <1>2, <2>1 DEF StoreResponse, Reply, Serve
  <2>3. winner' = [winner EXCEPT ![KeyOf[r]] = r]
    BY <1>p, <1>0, <2>1, <2>2 DEF TypeInv, TypeOK
  <2>4. winner[KeyOf[r]] = None
    BY <1>p, <2>1
  <2>5. QED
    BY <1>p, <2>1, <2>2, <2>3, <2>4 DEF Contract!Claim
<1>3. ASSUME NEW r \in Requests, BuildResponse(r)
      PROVE Contract!Unkeyed(r) \/ UNCHANGED Contract!vars
  <2>1. answer[r] = None /\ UNCHANGED row
    BY <1>p, <1>0, <1>3 DEF BuildResponse, AnswerOnlyServed
  <2>2. QED
    BY <1>p, <1>3, <2>1 DEF BuildResponse, Serve, Contract!Unkeyed, Contract!vars
<1>4. ASSUME NEW r \in Requests, TakeKey(r) \/ ClearPending(r)
      PROVE UNCHANGED Contract!vars
  <2>1. KeyOf[r] \in Keys /\ UNCHANGED answer
    BY <1>p, <1>0, <1>4 DEF TakeKey, ClearPending, TypeInv, KeyedOnly, KeyedStates, Waiting
  <2>2. \A k \in Keys : row[k] \notin Requests => row'[k] \notin Requests
    BY <1>p, <1>0, <1>4, <2>1
       DEF TakeKey, WriteReservation, AfterInsert, ClearPending, TypeInv, TypeOK
  <2>3. UNCHANGED winner
    BY <1>p, <1>k, <2>2
  <2>4. QED
    BY <1>p, <2>1, <2>3 DEF Contract!vars
<1>5. ASSUME NEW r \in Requests, InsertResponse(r) PROVE FALSE
  BY <1>p, <1>0, <1>5 DEF InsertResponse, OwnerInv, NoInsert
<1>6. CASE \/ \E s \in Requests :
                  \/ Arrive(s) \/ AwaitOwner(s) \/ GiveUp(s) \/ RejectBody(s)
                  \/ PersistStatus(s) \/ FailStatement(s) \/ Cancel(s)
           \/ Restart \/ Tick \/ UNCHANGED vars
  BY <1>p, <1>6 DEF Arrive, AwaitOwner, GiveUp, RejectBody, PersistStatus,
              FailStatement, Cancel, Restart, Tick, vars, Contract!vars
<1>7. QED
  BY <1>1, <1>2, <1>3, <1>4, <1>5, <1>6 DEF Next, Step, Contract!Next

\* The handler implements the contract: while requests are prompt and rows are
\* kept, every behaviour of it is one the contract allows.
THEOREM ContractHolds ==
    ASSUME MaxTime <= PruneAfter
    PROVE  Spec => ImplementsContract
<1>1. Init => Contract!Init
  BY ConstantsAssumption DEF Init, Contract!Init
<1>2. Init => (prompt => AgreeInv)
  BY AgreeInit
<1>3. (prompt => AgreeInv) /\ [Next]_vars => (prompt => AgreeInv)'
  BY AgreeStep, PromptStays
<1>4. (prompt => AgreeInv) /\ [Next]_vars => [Contract!Next]_(Contract!vars)
  <2>1. CASE prompt
    BY <2>1, ContractStep
  <2>2. CASE ~prompt
    BY <2>2, PromptStays DEF Contract!vars
  <2>3. QED
    BY <2>1, <2>2
<1>5. QED
  BY <1>1, <1>2, <1>3, <1>4, PTL DEF Spec, ImplementsContract, Contract!Spec
==============================================================================
