------------------------- MODULE IdempotencyContract -------------------------
(***************************************************************************)
(* What POST /api/v1/statuses promises a client that sends an              *)
(* Idempotency-Key: every successful answer given for one key names the    *)
(* same post.  The module knows nothing of tables, reservations or clocks; *)
(* CreateStatus implements it.                                             *)
(***************************************************************************)
CONSTANTS
    Requests,  \* the HTTP requests; a request also names the post it makes
    Keys,      \* the idempotency keys
    NoKey,     \* the key of a request that carries no Idempotency-Key
    KeyOf,     \* the key each request carries
    None       \* no post

VARIABLES
    winner,    \* winner[k]: the post that key k stands for, None at first
    answer     \* answer[r]: the post a successful answer to r names

vars == <<winner, answer>>

Init == /\ winner = [k \in Keys |-> None]
        /\ answer = [r \in Requests |-> None]

\* A request whose key stands for nothing yet answers with its own post, unless
\* the answer gets lost, and from then on the key stands for that post.
Claim(r) == /\ KeyOf[r] \in Keys
            /\ answer[r] = None
            /\ winner[KeyOf[r]] = None
            /\ winner' = [winner EXCEPT ![KeyOf[r]] = r]
            /\ answer' \in {answer, [answer EXCEPT ![r] = r]}

\* A later request with the key is answered with the post it stands for.
Replay(r) == /\ KeyOf[r] \in Keys
             /\ answer[r] = None
             /\ winner[KeyOf[r]] # None
             /\ answer' = [answer EXCEPT ![r] = winner[KeyOf[r]]]
             /\ UNCHANGED winner

\* A request without a key always answers with its own post.
Unkeyed(r) == /\ KeyOf[r] = NoKey
              /\ answer[r] = None
              /\ answer' = [answer EXCEPT ![r] = r]
              /\ UNCHANGED winner

Next == \E r \in Requests : Claim(r) \/ Replay(r) \/ Unkeyed(r)

Spec == Init /\ [][Next]_vars
==============================================================================
