---------------------------- MODULE CreateStatus -----------------------------
(***************************************************************************)
(* POST /api/v1/statuses with an Idempotency-Key                           *)
(* (src/src/api/mastodon/statuses.rs, create_status) over the              *)
(* idempotency_keys table (src/src/data/database.rs, migration 009).       *)
(*                                                                         *)
(* Any number of requests run at once on the tokio runtime.  Every await   *)
(* of the handler that touches the database is a step of its own: look the *)
(* key up, reserve it, wait for the reservation of another request, run    *)
(* the body (which commits the status in one transaction), read the media  *)
(* or poll back for the response, store the response or clear the          *)
(* reservation.  A reservation is a row with a NULL response; it names no  *)
(* owner, and one that is older than StaleAfter may be taken over.         *)
(***************************************************************************)
EXTENDS Naturals

CONSTANTS
    Requests,    \* the HTTP requests; a request also names the post it makes
    Keys,        \* the idempotency keys
    NoKey,       \* the key of a request that carries no Idempotency-Key
    KeyOf,       \* the key each request carries
    Null,        \* response_json IS NULL: the key is reserved
    NoRow,       \* the table has no row for the key
    None,        \* no post
    StaleAfter,  \* age past which a reservation may be taken over (5 minutes)
    PruneAfter,  \* age past which the trigger deletes a row (30 days)
    Prompts,     \* the values `prompt` may have
    FaultKinds,  \* which faults may happen: "dbError", "cancel", "restart"
    MaxFaults,   \* bound: how many of them
    MaxTime      \* bound: the last instant of the clock

ASSUME ConstantsAssumption ==
    /\ NoKey \notin Keys
    /\ KeyOf \in [Requests -> Keys \cup {NoKey}]
    /\ Null # NoRow
    /\ {Null, NoRow, None} \cap Requests = {}
    /\ {StaleAfter, PruneAfter, MaxTime, MaxFaults} \subseteq Nat
    /\ StaleAfter < PruneAfter
    /\ Prompts \subseteq BOOLEAN
    /\ FaultKinds \subseteq {"dbError", "cancel", "restart"}

VARIABLES
    pc,         \* pc[r]: where request r is in the handler
    row,        \* row[k]: response_json of the row of k, or NoRow
    createdAt,  \* createdAt[k]: created_at of that row
    posts,      \* the committed statuses, each named by the request that made it
    answer,     \* answer[r]: the status the 200 answer to r names, or None
    now,        \* the database's clock
    faults,     \* how many faults have happened
    prompt      \* a request that holds a reservation ends within StaleAfter

vars == <<pc, row, createdAt, posts, answer, now, faults, prompt>>

Waiting == {"waitLookup", "waitReserve"}
Owning  == {"body", "read", "clear", "store", "insert"}
Ended   == {"served", "failed", "busy", "dropped"}
States  == {"idle", "lookup", "reserve"} \cup Waiting \cup Owning \cup Ended

TypeOK ==
    /\ pc \in [Requests -> States]
    /\ row \in [Keys -> Requests \cup {Null, NoRow}]
    /\ createdAt \in [Keys -> 0..MaxTime]
    /\ posts \subseteq Requests
    /\ answer \in [Requests -> Requests \cup {None}]
    /\ now \in 0..MaxTime
    /\ faults \in 0..MaxFaults
    /\ prompt \in Prompts

Init ==
    /\ pc = [r \in Requests |-> "idle"]
    /\ row = [k \in Keys |-> NoRow]
    /\ createdAt = [k \in Keys |-> 0]
    /\ posts = {}
    /\ answer = [r \in Requests |-> None]
    /\ now = 0
    /\ faults = 0
    /\ prompt \in Prompts

-----------------------------------------------------------------------------
(* The idempotency_keys table.                                             *)

Older(k, age) == createdAt[k] + age < now

\* With a bug: a reservation may be taken over at any age.
CanReserveAnyAge(k) == row[k] \in {NoRow, Null}

\* With a bug: a stale row may be taken over even when it holds a response.
CanReserveAnswered(k) == row[k] = NoRow \/ Older(k, StaleAfter)

\* reserve_idempotency_key changes one row: there is none, or the one there is
\* a reservation that has gone stale.
CanReserve(k) == \/ row[k] = NoRow
                 \/ row[k] = Null /\ Older(k, StaleAfter)

\* The table after an INSERT of value v for k: the trigger of migration 009
\* deletes every row that is too old.
AfterInsert(k, v) ==
    [j \in Keys |-> IF j = k THEN v
                    ELSE IF row[j] # NoRow /\ Older(j, PruneAfter) THEN NoRow
                    ELSE row[j]]

\* The upsert of a reservation: an INSERT when there is no row (the trigger
\* runs), an UPDATE of the stale row otherwise (it does not).
WriteReservation(k) ==
    /\ row' = IF row[k] = NoRow THEN AfterInsert(k, Null)
                                ELSE [row EXCEPT ![k] = Null]
    /\ createdAt' = [createdAt EXCEPT ![k] = now]

-----------------------------------------------------------------------------
(* The handler, one action per await.                                      *)

Goto(r, s) == pc' = [pc EXCEPT ![r] = s]

\* Answer r with the status p and end it.
Serve(r, p) == /\ Goto(r, "served")
               /\ answer' = [answer EXCEPT ![r] = p]

\* Faults are counted against MaxFaults.
Fault(kind) == /\ kind \in FaultKinds
               /\ faults < MaxFaults
               /\ faults' = faults + 1

\* The response of r is stored: r is answered, unless its client disconnects or
\* the server stops in between.
Reply(r) == \/ Serve(r, r) /\ UNCHANGED faults
            \/ /\ \E kind \in {"cancel", "restart"} : Fault(kind)
               /\ Goto(r, "dropped")
               /\ UNCHANGED answer

\* A client sends the request.
Arrive(r) ==
    /\ pc[r] = "idle"
    /\ Goto(r, IF KeyOf[r] = NoKey THEN "body" ELSE "lookup")
    /\ UNCHANGED <<row, createdAt, posts, answer, now, faults, prompt>>

\* get_idempotency_response from state `from`: a stored response is the answer,
\* a missing or NULL one sends the request on to `next`.
ReadKey(r, from, next) ==
    /\ pc[r] = from
    /\ IF row[KeyOf[r]] \in Requests
       THEN Serve(r, row[KeyOf[r]])
       ELSE Goto(r, next) /\ UNCHANGED answer
    /\ UNCHANGED <<row, createdAt, posts, now, faults, prompt>>

Lookup(r)     == ReadKey(r, "lookup", "reserve")
WaitLookup(r) == ReadKey(r, "waitLookup", "waitReserve")

\* reserve_idempotency_key succeeds: the request goes on to the body as the
\* owner of the key.
TakeKey(r) ==
    /\ pc[r] \in {"reserve", "waitReserve"}
    /\ CanReserve(KeyOf[r])
    /\ WriteReservation(KeyOf[r])
    /\ Goto(r, "body")
    /\ UNCHANGED <<posts, answer, now, faults, prompt>>

\* reserve_idempotency_key returns false: wait for the request that owns the
\* key, or go round the waiting loop once more.
AwaitOwner(r) ==
    /\ pc[r] \in {"reserve", "waitReserve"}
    /\ ~CanReserve(KeyOf[r])
    /\ Goto(r, "waitLookup")
    /\ UNCHANGED <<row, createdAt, posts, answer, now, faults, prompt>>

\* With a bug: the waiting loop has no deadline.
GiveUpNever(r) == pc[r] = "waitReserve" /\ FALSE /\ UNCHANGED vars

\* The waiting loop ends at its deadline: 422 Unprocessable.
GiveUp(r) ==
    /\ pc[r] = "waitReserve"
    /\ ~CanReserve(KeyOf[r])
    /\ Goto(r, "busy")
    /\ UNCHANGED <<row, createdAt, posts, answer, now, faults, prompt>>

\* With a bug: an error of the body leaves the reservation.
AfterErrorKeep(r) == "failed"

\* What an error of the body leads to: the owner of a key clears it first.
AfterError(r) == IF KeyOf[r] = NoKey THEN "failed" ELSE "clear"

\* The body fails before anything is committed: validation, an unknown reply
\* target, an attachment that is in use, or the transaction rolled back.
RejectBody(r) ==
    /\ pc[r] = "body"
    /\ Goto(r, AfterError(r))
    /\ UNCHANGED <<row, createdAt, posts, answer, now, faults, prompt>>

\* The transaction that inserts the status, its media and its poll commits
\* (or the INSERT of a scheduled status).
PersistStatus(r) ==
    /\ pc[r] = "body"
    /\ posts' = posts \cup {r}
    /\ Goto(r, "read")
    /\ UNCHANGED <<row, createdAt, answer, now, faults, prompt>>

\* The media, the poll or the scheduled status is read back and the response
\* built; a request without a key answers at once.
BuildResponse(r) ==
    /\ pc[r] = "read"
    /\ IF KeyOf[r] = NoKey
       THEN Serve(r, r)
       ELSE Goto(r, "store") /\ UNCHANGED answer
    /\ UNCHANGED <<row, createdAt, posts, now, faults, prompt>>

\* clear_pending_idempotency_key: deletes the row only while its response is
\* NULL, whoever reserved it; then the body's error is returned.
ClearPending(r) ==
    /\ pc[r] = "clear"
    /\ row' = [row EXCEPT ![KeyOf[r]] = IF @ = Null THEN NoRow ELSE @]
    /\ Goto(r, "failed")
    /\ UNCHANGED <<createdAt, posts, answer, now, faults, prompt>>

\* store_idempotency_response: the UPDATE, which matches the row whatever its
\* response is; when there is none, the INSERT comes next.
StoreResponse(r) ==
    /\ pc[r] = "store"
    /\ IF row[KeyOf[r]] # NoRow
       THEN /\ row' = [row EXCEPT ![KeyOf[r]] = r]
            /\ Reply(r)
       ELSE /\ Goto(r, "insert")
            /\ UNCHANGED <<row, answer, faults>>
    /\ UNCHANGED <<createdAt, posts, now, prompt>>

\* INSERT OR IGNORE of the response.
InsertResponse(r) ==
    /\ pc[r] = "insert"
    /\ IF row[KeyOf[r]] = NoRow
       THEN /\ row' = AfterInsert(KeyOf[r], r)
            /\ createdAt' = [createdAt EXCEPT ![KeyOf[r]] = now]
       ELSE UNCHANGED <<row, createdAt>>
    /\ Reply(r)
    /\ UNCHANGED <<posts, now, prompt>>

-----------------------------------------------------------------------------
(* Faults.                                                                 *)

\* A statement of r returns an error.  After the commit the error takes the
\* same way as one of the body; an error of the clearing DELETE is dropped.
FailStatement(r) ==
    /\ Fault("dbError")
    /\ pc[r] \in {"lookup", "reserve", "read", "clear", "store", "insert"} \cup Waiting
    /\ Goto(r, IF pc[r] = "read" THEN AfterError(r) ELSE "failed")
    /\ UNCHANGED <<row, createdAt, posts, answer, now, prompt>>

InFlight(r) == pc[r] \notin Ended \cup {"idle"}

\* The client disconnects and the handler's future is dropped.
Cancel(r) ==
    /\ Fault("cancel")
    /\ InFlight(r)
    /\ Goto(r, "dropped")
    /\ UNCHANGED <<row, createdAt, posts, answer, now, prompt>>

\* The server stops and starts again: the tables survive, no request does.
Restart ==
    /\ Fault("restart")
    /\ \E r \in Requests : InFlight(r)
    /\ pc' = [r \in Requests |-> IF InFlight(r) THEN "dropped" ELSE pc[r]]
    /\ UNCHANGED <<row, createdAt, posts, answer, now, prompt>>

\* r holds the reservation of its key.
Owner(r) == KeyOf[r] # NoKey /\ pc[r] \in Owning

\* Time passes; if `prompt`, never so far that a reservation goes stale while
\* the request that made it still runs.
Tick ==
    /\ now < MaxTime
    /\ prompt => \A r \in Requests :
                    Owner(r) => now < createdAt[KeyOf[r]] + StaleAfter
    /\ now' = now + 1
    /\ UNCHANGED <<pc, row, createdAt, posts, answer, faults, prompt>>

Step(r) ==
    \/ Lookup(r) \/ TakeKey(r) \/ AwaitOwner(r) \/ WaitLookup(r) \/ GiveUp(r)
    \/ RejectBody(r) \/ PersistStatus(r) \/ BuildResponse(r)
    \/ ClearPending(r) \/ StoreResponse(r) \/ InsertResponse(r)

Next ==
    \/ \E r \in Requests : Arrive(r) \/ Step(r) \/ FailStatement(r) \/ Cancel(r)
    \/ Restart
    \/ Tick

Spec == Init /\ [][Next]_vars

\* The runtime polls every request that is ready, and a waiter that keeps going
\* round the loop reaches its deadline.
Fairness == \A r \in Requests : WF_vars(Step(r)) /\ SF_vars(GiveUp(r))

FairSpec == Spec /\ Fairness

-----------------------------------------------------------------------------
(* Properties.                                                             *)

\* Between reserving a key and giving it back, a request owns it alone: no
\* takeover, no clearing DELETE and no restart lets a second one in
\* (reserve_idempotency_key, "Returns `true` when this request successfully
\* reserved the key and should proceed").
SingleOwner ==
    prompt => \A r, s \in Requests :
        Owner(r) /\ Owner(s) /\ KeyOf[r] = KeyOf[s] => r = s

\* However requests with one key interleave, fail, are dropped or retried, no
\* two of them are answered with different posts.
AgreedAnswer ==
    prompt => \A r, s \in Requests :
        /\ KeyOf[r] = KeyOf[s] /\ KeyOf[r] # NoKey
        /\ answer[r] # None /\ answer[s] # None
        => answer[r] = answer[s]

\* A response that is stored or answered names a status that is committed, and
\* one that was made for the same key.
AnswersAreCommitted ==
    /\ \A r \in Requests : answer[r] # None =>
          answer[r] \in posts /\ KeyOf[answer[r]] = KeyOf[r]
    /\ \A k \in Keys : row[k] \in Requests =>
          row[k] \in posts /\ KeyOf[row[k]] = k

\* One post per key, whatever happens to the requests: what the tests
\* test_create_status_is_idempotent_with_* assert of the statuses table.
OnePostPerKey ==
    \A p, q \in posts : KeyOf[p] = KeyOf[q] /\ KeyOf[p] # NoKey => p = q

\* A stored response is never replaced, and leaves the table only when the
\* trigger deletes it for its age.
StoredResponseIsFinal ==
    [][\A k \in Keys : prompt /\ row[k] \in Requests =>
          \/ row'[k] = row[k]
          \/ row'[k] = NoRow /\ Older(k, PruneAfter)]_vars

\* Every request that arrives is answered, whatever becomes of the request it
\* waits for.
EveryRequestEnds ==
    \A r \in Requests : pc[r] = "lookup" ~> pc[r] \in Ended

\* No reservation is left behind but by a fault: it becomes a response or is
\* cleared.
ReservationResolved ==
    \A k \in Keys : row[k] = Null ~> (row[k] # Null \/ faults > 0)

\* The contract, with a key standing for the response stored under it; it is
\* claimed of executions in which no live reservation goes stale.
Contract == INSTANCE IdempotencyContract
    WITH winner <- [k \in Keys |-> IF prompt /\ row[k] \in Requests THEN row[k]
                                                                    ELSE None],
         answer <- IF prompt THEN answer ELSE [r \in Requests |-> None]

ImplementsContract == Contract!Spec
==============================================================================
