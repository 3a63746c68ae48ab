---------------------------- MODULE Relationships ----------------------------
(***************************************************************************)
(* The owner follows, blocks and mutes remote accounts, and stops doing so *)
(* (src/src/api/mastodon/accounts.rs, src/src/data/database.rs), and a     *)
(* task tells the account's server (federation_delivery.rs, delivery.rs).  *)
(*                                                                         *)
(* An account has several addresses (with and without the default port);   *)
(* a table holds at most one row for an address, and every operation has   *)
(* to find the rows of the other addresses itself.  A statement is a step  *)
(* of its own; only insert_follow_if_absent reads and writes in one        *)
(* transaction.                                                            *)
(***************************************************************************)
EXTENDS Naturals

CONSTANTS
    Requests,   \* the owner's requests; a row has the name of the one that made it
    Accounts,   \* remote accounts
    Addresses,  \* their addresses, as normalize_account_address leaves them
    AccountOf,  \* the account of an address
    Modes,      \* the values `mode` may have
    None        \* no row, no request

Tables == {"follow", "block", "mute"}
Begins == {"follow", "block", "mute"}
Ends   == {"unfollow", "unblock", "unmute"}

ASSUME ConstantsAssumption ==
    /\ AccountOf \in [Addresses -> Accounts]
    /\ None \notin Requests \cup Addresses \cup Begins \cup Ends
    /\ Modes \subseteq SUBSET {"faulty", "serial"}

VARIABLES
    row,    \* row[t][a]: the row of address a in table t, by the request that wrote it
    op,     \* op[r]: what request r asks for, None before it arrives
    addr,   \* addr[r]: the address in its path
    at,     \* at[r]: the statement it is about to execute, or how it ended
    found,  \* found[r]: the addresses it has read and not yet deleted
    follow, \* follow[r]: the follow an unfollow has read
    fresh,  \* fresh[r]: the request has changed what its server is to be told
    task,   \* task[r]: its delivery is "none", "pending" or "over"
    theirs, \* theirs[c]: the owner's follow, and whether blocked, as c's server knows it
    before, \* history; before[r]: the rows of its account a request that ends them met
    latest, \* history; latest[c]: the last request about c if it has succeeded
    mode    \* "faulty": statements and deliveries fail and handlers are dropped;
            \* "serial": the owner waits for one request, and what it sends,
            \* before the next

vars == <<row, op, addr, at, found, follow, fresh, task, theirs, before, latest, mode>>

Running == {"insertFollow", "readFollow", "read", "insertBlock", "replaceMute",
            "readFollows", "erase", "answer"}
Ended   == {"done", "failed"}

TypeOK ==
    /\ row \in [Tables -> [Addresses -> Requests \cup {None}]]
    /\ op \in [Requests -> Begins \cup Ends \cup {None}]
    /\ addr \in [Requests -> Addresses \cup {None}]
    /\ at \in [Requests -> {"idle"} \cup Running \cup Ended]
    /\ found \in [Requests -> SUBSET Addresses]
    /\ follow \in [Requests -> Requests \cup {None}]
    /\ fresh \in [Requests -> BOOLEAN]
    /\ task \in [Requests -> {"none", "pending", "over"}]
    /\ theirs \in [Accounts -> [follow : Requests \cup {None}, blocked : BOOLEAN]]
    /\ before \in [Requests -> SUBSET Requests]
    /\ latest \in [Accounts -> Requests \cup {None}]
    /\ mode \in Modes
    /\ \A r \in Requests : at[r] # "idle" => op[r] # None /\ addr[r] # None
    /\ \A t \in Tables, a \in Addresses : row[t][a] # None =>
           addr[row[t][a]] # None /\ AccountOf[addr[row[t][a]]] = AccountOf[a]

Init ==
    /\ row = [t \in Tables |-> [a \in Addresses |-> None]]
    /\ op = [r \in Requests |-> None]
    /\ addr = [r \in Requests |-> None]
    /\ at = [r \in Requests |-> "idle"]
    /\ found = [r \in Requests |-> {}]
    /\ follow = [r \in Requests |-> None]
    /\ fresh = [r \in Requests |-> FALSE]
    /\ task = [r \in Requests |-> "none"]
    /\ theirs = [c \in Accounts |-> [follow |-> None, blocked |-> FALSE]]
    /\ before = [r \in Requests |-> {}]
    /\ latest = [c \in Accounts |-> None]
    /\ mode \in Modes

-----------------------------------------------------------------------------
(* The tables.                                                             *)

\* The address of r, and those the server takes for the same account.
Account(r) == AccountOf[addr[r]]
Same(r)    == {a \in Addresses : AccountOf[a] = Account(r)}

\* The addresses of r's account that have a row in table t.
Matching(t, r) == {a \in Same(r) : row[t][a] # None}

\* The table from which an operation deletes rows.
EndedTable(o) == CASE o \in {"unfollow", "block"} -> "follow"
                   [] o = "unblock"               -> "block"
                   [] OTHER                       -> "mute"

EndsRows(r) == op[r] \in Ends \cup {"block"}

\* The rows in table t about the account of address a.
RowsAbout(t, a) ==
    {row[t][b] : b \in {c \in Addresses : AccountOf[c] = AccountOf[a]}} \ {None}

-----------------------------------------------------------------------------
(* The requests.                                                           *)

Settled == \A r \in Requests : at[r] \notin Running /\ task[r] # "pending"

FirstStep(o) == CASE o = "follow"   -> "insertFollow"
                  [] o = "unfollow" -> "readFollow"
                  [] OTHER          -> "read"

\* A request arrives.
Start(r, o, a) ==
    /\ at[r] = "idle"
    /\ "serial" \in mode => Settled
    /\ op' = [op EXCEPT ![r] = o]
    /\ addr' = [addr EXCEPT ![r] = a]
    /\ at' = [at EXCEPT ![r] = FirstStep(o)]
    /\ before' = [before EXCEPT ![r] = IF o \in Ends \cup {"block"}
                                       THEN RowsAbout(EndedTable(o), a) ELSE {}]
    /\ latest' = [latest EXCEPT ![AccountOf[a]] = None]
    /\ UNCHANGED <<row, found, follow, fresh, task, theirs, mode>>

Goto(r, s) == at' = [at EXCEPT ![r] = s]

\* With a bug: the insertion relies on the constraint of the table.
InsertFollowUnchecked(r) ==
    /\ at[r] = "insertFollow"
    /\ \/ /\ row["follow"][addr[r]] = None
          /\ row' = [row EXCEPT !["follow"][addr[r]] = r]
          /\ fresh' = [fresh EXCEPT ![r] = TRUE]
       \/ /\ row["follow"][addr[r]] # None
          /\ UNCHANGED <<row, fresh>>
    /\ Goto(r, "answer")
    /\ UNCHANGED <<op, addr, found, follow, task, theirs, before, latest, mode>>

\* insert_follow_if_absent: the search and the insertion are one transaction.
InsertFollow(r) ==
    /\ at[r] = "insertFollow"
    /\ \/ /\ Matching("follow", r) = {}
          /\ row' = [row EXCEPT !["follow"][addr[r]] = r]
          /\ fresh' = [fresh EXCEPT ![r] = TRUE]
       \/ /\ Matching("follow", r) # {}
          /\ UNCHANGED <<row, fresh>>
    /\ Goto(r, "answer")
    /\ UNCHANGED <<op, addr, found, follow, task, theirs, before, latest, mode>>

\* unfollow_account: get_follow_uri.
ReadFollow(r) ==
    /\ at[r] = "readFollow"
    /\ \/ /\ Matching("follow", r) = {}
          /\ UNCHANGED follow
       \/ \E a \in Matching("follow", r) :
              follow' = [follow EXCEPT ![r] = row["follow"][a]]
    /\ Goto(r, "readFollows")
    /\ UNCHANGED <<row, op, addr, found, fresh, task, theirs, before, latest, mode>>

\* With a bug: there is nothing more to do for an account that is blocked.
ReadAndStop(r) ==
    /\ at[r] = "read"
    /\ LET t == IF op[r] \in {"block", "unblock"} THEN "block" ELSE "mute"
       IN  /\ found' = [found EXCEPT ![r] = Matching(t, r)]
           /\ Goto(r, CASE op[r] \in {"unblock", "unmute"} -> "erase"
                        [] op[r] = "mute" -> "replaceMute"
                        [] OTHER -> IF Matching(t, r) = {} THEN "insertBlock"
                                    ELSE "answer")
    /\ UNCHANGED <<row, op, addr, follow, fresh, task, theirs, before, latest, mode>>

\* The SELECT of block_account, unblock_account, mute_account, unmute_account.
\* block_account does not insert when there is a block already.
Read(r) ==
    /\ at[r] = "read"
    /\ LET t == IF op[r] \in {"block", "unblock"} THEN "block" ELSE "mute"
       IN  /\ found' = [found EXCEPT ![r] = Matching(t, r)]
           /\ Goto(r, CASE op[r] \in {"unblock", "unmute"} -> "erase"
                        [] op[r] = "mute" -> "replaceMute"
                        [] OTHER -> IF Matching(t, r) = {} THEN "insertBlock"
                                    ELSE "readFollows")
    /\ UNCHANGED <<row, op, addr, follow, fresh, task, theirs, before, latest, mode>>

\* block_account inserts the block; the address is unique in the table.
InsertBlock(r) ==
    /\ at[r] = "insertBlock"
    /\ \/ /\ row["block"][addr[r]] = None
          /\ row' = [row EXCEPT !["block"][addr[r]] = r]
          /\ fresh' = [fresh EXCEPT ![r] = TRUE]
          /\ Goto(r, "readFollows")
       \/ /\ row["block"][addr[r]] # None
          /\ Goto(r, "failed")
          /\ UNCHANGED <<row, fresh>>
    /\ UNCHANGED <<op, addr, found, follow, task, theirs, before, latest, mode>>

\* With a bug: the row replaced is always that of the address in the path.
ReplaceMuteAsGiven(r) ==
    /\ at[r] = "replaceMute"
    /\ row' = [row EXCEPT !["mute"][addr[r]] = r]
    /\ Goto(r, "answer")
    /\ UNCHANGED <<op, addr, found, follow, fresh, task, theirs, before, latest, mode>>

\* mute_account: INSERT OR REPLACE, of an address the account has in the table.
ReplaceMute(r) ==
    /\ at[r] = "replaceMute"
    /\ \E a \in IF found[r] = {} THEN {addr[r]} ELSE found[r] :
           row' = [row EXCEPT !["mute"][a] = r]
    /\ Goto(r, "answer")
    /\ UNCHANGED <<op, addr, found, follow, fresh, task, theirs, before, latest, mode>>

\* With a bug: only the address in the path is looked for.
ReadFollowsExactly(r) ==
    /\ at[r] = "readFollows"
    /\ found' = [found EXCEPT ![r] = {a \in {addr[r]} : row["follow"][a] # None}]
    /\ Goto(r, "erase")
    /\ UNCHANGED <<row, op, addr, follow, fresh, task, theirs, before, latest, mode>>

\* delete_follow: the SELECT.
ReadFollows(r) ==
    /\ at[r] = "readFollows"
    /\ found' = [found EXCEPT ![r] = Matching("follow", r)]
    /\ Goto(r, "erase")
    /\ UNCHANGED <<row, op, addr, follow, fresh, task, theirs, before, latest, mode>>

\* A DELETE by address; unblock_account notes whether it found the row.
Erase(r) ==
    /\ at[r] = "erase"
    /\ \E a \in found[r] :
          LET t == EndedTable(op[r])
          IN  /\ row' = [row EXCEPT ![t][a] = None]
              /\ found' = [found EXCEPT ![r] = @ \ {a}]
              /\ fresh' = [fresh EXCEPT ![r] = @ \/ (op[r] = "unblock" /\ row[t][a] # None)]
    /\ UNCHANGED <<op, addr, at, follow, task, theirs, before, latest, mode>>

\* With a bug: what the request has written is taken for what has to be told.
TellsWritten(r) == fresh[r]

\* What has changed has to be told: a new follow or block, the end of a block,
\* and of the follow that was read.
Tells(r) == IF op[r] = "unfollow" THEN follow[r] # None ELSE fresh[r]

\* The handler spawns the delivery and answers.
Answer(r) ==
    /\ at[r] = "answer" \/ (at[r] = "erase" /\ found[r] = {})
    /\ Goto(r, "done")
    /\ task' = [task EXCEPT ![r] = IF Tells(r) THEN "pending" ELSE "none"]
    /\ latest' = [latest EXCEPT ![Account(r)] = r]
    /\ UNCHANGED <<row, op, addr, found, follow, fresh, theirs, before, mode>>

\* A statement fails, or the handler is dropped.
Fail(r) ==
    /\ "faulty" \in mode
    /\ at[r] \in Running
    /\ Goto(r, "failed")
    /\ UNCHANGED <<row, op, addr, found, follow, fresh, task, theirs, before, latest, mode>>

-----------------------------------------------------------------------------
(* The deliveries, and the server that receives them (external): it takes  *)
(* a Follow for the owner's only one, an Undo by the id of its Follow, and *)
(* a Block as the end of the follow.                                       *)

Received(r, known) ==
    CASE op[r] = "follow"   -> [known EXCEPT !.follow = r]
      [] op[r] = "unfollow" -> [known EXCEPT !.follow = IF @ = follow[r] THEN None ELSE @]
      [] op[r] = "block"    -> [follow |-> None, blocked |-> TRUE]
      [] OTHER              -> [known EXCEPT !.blocked = FALSE]

\* The task finds the inbox and posts to it.
Deliver(r) ==
    /\ task[r] = "pending"
    /\ task' = [task EXCEPT ![r] = "over"]
    /\ theirs' = [theirs EXCEPT ![Account(r)] = Received(r, @)]
    /\ UNCHANGED <<row, op, addr, at, found, follow, fresh, before, latest, mode>>

\* No inbox is found, the post fails, the 5 seconds are over or the process stops.
Lose(r) ==
    /\ "faulty" \in mode
    /\ task[r] = "pending"
    /\ task' = [task EXCEPT ![r] = "over"]
    /\ UNCHANGED <<row, op, addr, at, found, follow, fresh, theirs, before, latest, mode>>

Step(r) ==
    \/ InsertFollow(r) \/ ReadFollow(r) \/ Read(r) \/ InsertBlock(r)
    \/ ReplaceMute(r) \/ ReadFollows(r) \/ Erase(r) \/ Answer(r) \/ Fail(r)
    \/ Deliver(r) \/ Lose(r)

Next ==
    \E r \in Requests :
        \/ \E o \in Begins \cup Ends, a \in Addresses : Start(r, o, a)
        \/ Step(r)

Spec == Init /\ [][Next]_vars

-----------------------------------------------------------------------------
(* Properties.                                                             *)

\* Whatever overlaps or fails, an account is followed once, under one of its
\* addresses: no two follows that an Undo would have to name both.
FollowedOnce ==
    \A a, b \in Addresses :
        AccountOf[a] = AccountOf[b] /\ row["follow"][a] # None /\ row["follow"][b] # None
            => a = b

\* Whatever overlaps, an unfollow, block, unblock or unmute that succeeds has
\* ended what stood when it began: none of those rows comes back or survives,
\* whichever address of the account it was made for.
EndedIsGone ==
    \A r \in Requests : at[r] = "done" /\ EndsRows(r) =>
        \A a \in Addresses : row[EndedTable(op[r])][a] \notin before[r]

\* The other server is not told that a follow has ended that still stands.
UndoneIsGone ==
    \A r \in Requests : op[r] = "unfollow" /\ task[r] # "none" =>
        \A a \in Addresses : row["follow"][a] # follow[r]

\* The owner's last word counts, for an owner who waits for each answer: after a
\* request that succeeded its account is followed, blocked or muted, or no more.
LastWordCounts ==
    "serial" \in mode => \A c \in Accounts, r \in Requests :
        latest[c] = r =>
            LET Has(t) == Matching(t, r) # {}
            IN  CASE op[r] = "block" -> Has("block") /\ ~Has("follow")
                  [] op[r] = "mute"  -> \E a \in Addresses :
                                            Matching("mute", r) = {a} /\ row["mute"][a] = r
                  [] op[r] = "follow" -> Has("follow")
                  [] OTHER -> ~Has(EndedTable(op[r]))

\* A block that found the account blocked already and deleted a follow made in
\* between tells nobody.
EndedInSilence(f) ==
    \E r \in Requests : op[r] = "block" /\ at[r] = "done" /\ ~fresh[r] /\ f \in before[r]

\* When nothing fails and the owner waits, the other server knows whether it is
\* followed and blocked, but for the follows that were ended in silence.
ServersAgree ==
    mode = {"serial"} /\ Settled => \A r \in Requests : at[r] = "done" =>
        LET known == theirs[Account(r)]
        IN  /\ known.blocked = (Matching("block", r) # {})
            /\ \/ {known.follow} \ {None} = RowsAbout("follow", addr[r])
               \/ EndedInSilence(known.follow)
=============================================================================
