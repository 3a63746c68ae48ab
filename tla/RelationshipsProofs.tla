------------------------ MODULE RelationshipsProofs -------------------------
(***************************************************************************)
(* An account is followed once, and what a request ends is gone, for any   *)
(* number of overlapping requests, accounts, addresses and faults.  The    *)
(* argument: a row is written once, by the request it is named after, and  *)
(* until then nobody has met it, so no row that a request has met comes    *)
(* back; and a request that deletes has read the address of every row it   *)
(* met that still stands, since all rows of an account are at addresses of *)
(* the account.                                                            *)
(*                                                                         *)
(* For an owner who waits (InTurn), what a request has read still stands   *)
(* when it writes, so the last one to succeed has left what it asked for,  *)
(* and nothing else works on its account.  When besides nothing fails      *)
(* (Agreed), what the other server knows and what the tables say differ    *)
(* by no more than what the one busy request has yet to tell.              *)
(***************************************************************************)
EXTENDS Relationships, TLAPS

\* Request r may still write a row.
Unwritten(r) ==
    at[r] \in {"idle", "insertFollow", "readFollow", "read", "insertBlock", "replaceMute"}

\* What a request asks for, by where it is.
Phase(r) ==
    /\ at[r] = "idle" => follow[r] = None
    /\ at[r] = "insertFollow" => op[r] = "follow"
    /\ at[r] = "readFollow" => op[r] = "unfollow"
    /\ at[r] = "read" => op[r] \in {"block", "unblock", "mute", "unmute"}
    /\ at[r] = "insertBlock" => op[r] = "block"
    /\ at[r] = "replaceMute" => op[r] = "mute" /\ found[r] \subseteq Same(r)
    /\ at[r] = "readFollows" => op[r] \in {"block", "unfollow"}
    /\ at[r] = "erase" => EndsRows(r)
    /\ at[r] = "answer" => op[r] \in {"follow", "mute"}
    /\ task[r] # "none" => at[r] = "done" /\ (op[r] = "unfollow" => follow[r] # None)

\* A row that r has met was written, about the account of r.
Met(r) ==
    \A q \in before[r] \cup ({follow[r]} \ {None}) :
        ~Unwritten(q) /\ addr[q] # None /\ Account(q) = Account(r)

\* No row is of a request that may still write.
RowsAreWritten ==
    \A t \in Tables, a \in Addresses : row[t][a] # None => ~Unwritten(row[t][a])

\* The rows that r has met and that stand are among those it will delete.
Erasing(r) ==
    EndsRows(r) /\ at[r] \in {"erase", "done"} =>
        \A a \in Addresses :
            \/ row[EndedTable(op[r])][a] \in before[r]
            \/ op[r] = "unfollow" /\ follow[r] # None /\ row["follow"][a] = follow[r]
            => at[r] = "erase" /\ a \in found[r]

IInv ==
    /\ TypeOK
    /\ FollowedOnce
    /\ RowsAreWritten
    /\ \A r \in Requests : Phase(r) /\ Met(r) /\ Erasing(r)

LEMMA InitInv == Init => IInv
<1> SUFFICES ASSUME Init PROVE IInv
  OBVIOUS
<1>1. TypeOK
  BY DEF Init, TypeOK
<1>2. FollowedOnce /\ RowsAreWritten
  BY DEF Init, FollowedOnce, RowsAreWritten, Tables
<1>3. ASSUME NEW r \in Requests PROVE Phase(r) /\ Met(r) /\ Erasing(r)
  BY <1>3 DEF Init, Phase, Met, Erasing
<1> QED
  BY <1>1, <1>2, <1>3 DEF IInv

\* What the proofs use of the types.
LEMMA Types ==
    ASSUME TypeOK
    PROVE  /\ None \notin Requests
           /\ \A t \in Tables, a \in Addresses :
                  /\ row[t][a] \in Requests \cup {None}
                  /\ row[t][a] # None =>
                         /\ addr[row[t][a]] \in Addresses
                         /\ AccountOf[addr[row[t][a]]] = AccountOf[a]
           /\ \A r \in Requests : at[r] # "idle" => addr[r] \in Addresses /\ op[r] \in Begins \cup Ends
           /\ \A r \in Requests : op[r] \in Begins \cup Ends \cup {None}
           /\ \A o : EndedTable(o) \in Tables
           /\ "follow" \in Tables /\ "block" \in Tables /\ "mute" \in Tables
<1>1. \A t \in Tables, a \in Addresses : row[t][a] \in Requests \cup {None}
  BY DEF TypeOK
<1>2. \A r \in Requests : addr[r] \in Addresses \cup {None} /\ op[r] \in Begins \cup Ends \cup {None}
  BY DEF TypeOK
<1>3. \A o : EndedTable(o) \in Tables
  BY DEF EndedTable, Tables
<1> QED
  BY <1>1, <1>2, <1>3, ConstantsAssumption DEF TypeOK, Tables

-----------------------------------------------------------------------------
(* A step of a request that has arrived.                                   *)

\* It keeps the invariant when only r's own state changes, every row it leaves
\* is an old one or its first, and what it reads is a row of its account.
LEMMA StepOf ==
    ASSUME IInv, NEW r \in Requests, TypeOK', FollowedOnce',
           UNCHANGED <<op, addr, before>>,
           \A q \in Requests \ {r} : /\ at'[q] = at[q] /\ found'[q] = found[q]
                                     /\ follow'[q] = follow[q] /\ task'[q] = task[q],
           Unwritten(r)' => Unwritten(r),
           \A t \in Tables, a \in Addresses :
               \/ row'[t][a] = row[t][a]
               \/ row'[t][a] = None
               \/ row'[t][a] = r /\ Unwritten(r) /\ ~Unwritten(r)',
           \/ follow'[r] = follow[r]
           \/ \E a \in Same(r) : row["follow"][a] = follow'[r],
           at[r] # "idle",
           Phase(r)', Erasing(r)'
    PROVE  IInv'
<1> USE Types
<1>1. TypeOK /\ RowsAreWritten
  BY DEF IInv
<1>2. \A q \in Requests : Unwritten(q)' => Unwritten(q)
  BY DEF Unwritten
<1>3. RowsAreWritten'
  BY <1>1, <1>2 DEF RowsAreWritten
<1>4. ASSUME NEW q \in Requests PROVE Met(q)'
  <2>1. Met(q)
    BY DEF IInv
  <2>2. CASE follow'[q] = follow[q]
    BY <1>1, <1>2, <2>1, <2>2 DEF Met, Account, TypeOK
  <2>3. CASE q = r /\ \E a \in Same(r) : row["follow"][a] = follow'[r]
    <3>1. PICK a \in Same(r) : row["follow"][a] = follow'[r]
      BY <2>3
    <3>2. a \in Addresses /\ AccountOf[a] = Account(r)
      BY <3>1 DEF Same
    <3>3. follow'[r] # None => /\ ~Unwritten(follow'[r]) /\ follow'[r] \in Requests
                               /\ addr[follow'[r]] # None /\ Account(follow'[r]) = Account(r)
      BY <1>1, <3>1, <3>2, ConstantsAssumption DEF RowsAreWritten, Account
    <3> QED
      BY <1>1, <1>2, <2>1, <2>3, <3>3 DEF Met, Account, TypeOK
  <2> QED
    BY <2>2, <2>3
<1>5. ASSUME NEW q \in Requests PROVE Phase(q)' /\ Erasing(q)'
  <2>1. CASE q = r
    BY <2>1
  <2>2. CASE q # r
    <3>1. Phase(q) /\ Met(q) /\ Erasing(q)
      BY DEF IInv
    <3>2. Phase(q)'
      BY <2>2, <3>1 DEF Phase, EndsRows, Same, Account
    <3>3. \A a \in Addresses, t \in Tables :
              row'[t][a] \in before[q] \cup ({follow[q]} \ {None}) => row'[t][a] = row[t][a]
      BY <1>1, <3>1 DEF Met, TypeOK
    <3>4. Erasing(q)'
      BY <1>1, <2>2, <3>1, <3>3 DEF Erasing, EndsRows
    <3> QED
      BY <3>2, <3>4
  <2> QED
    BY <2>1, <2>2
<1> QED
  BY <1>3, <1>4, <1>5 DEF IInv

\* A step that only deletes rows keeps the types of the rows and FollowedOnce.
LEMMA RowsRemain ==
    ASSUME IInv, UNCHANGED addr, row' \in [Tables -> [Addresses -> Requests \cup {None}]],
           \A t \in Tables, a \in Addresses : row'[t][a] \in {row[t][a], None}
    PROVE  /\ FollowedOnce'
           /\ \A t \in Tables, a \in Addresses : row'[t][a] # None =>
                  addr'[row'[t][a]] # None /\ AccountOf[addr'[row'[t][a]]] = AccountOf[a]
<1>1. \A t \in Tables, a \in Addresses : row'[t][a] # None => row'[t][a] = row[t][a]
  OBVIOUS
<1>2. FollowedOnce'
  BY <1>1 DEF IInv, FollowedOnce, Tables
<1> QED
  BY <1>1, <1>2 DEF IInv, TypeOK

\* An assignment to one address of one table.
LEMMA Put ==
    ASSUME TypeOK, NEW t \in Tables, NEW a \in Addresses, NEW v \in Requests \cup {None},
           row' = [row EXCEPT ![t][a] = v]
    PROVE  /\ row' \in [Tables -> [Addresses -> Requests \cup {None}]]
           /\ \A u \in Tables, b \in Addresses :
                  row'[u][b] = IF u = t /\ b = a THEN v ELSE row[u][b]
<1>1. row \in [Tables -> [Addresses -> Requests \cup {None}]]
  BY DEF TypeOK
<1>2. row' = [row EXCEPT ![t] = [row[t] EXCEPT ![a] = v]]
  BY <1>1
<1> QED
  BY <1>1, <1>2

\* A row that r writes at an address of its account.
LEMMA WriteRow ==
    ASSUME IInv, NEW r \in Requests, NEW t \in Tables, NEW a \in Same(r),
           at[r] # "idle", UNCHANGED addr, row' = [row EXCEPT ![t][a] = r]
    PROVE  /\ row' \in [Tables -> [Addresses -> Requests \cup {None}]]
           /\ \A u \in Tables, b \in Addresses : row'[u][b] # None =>
                  addr'[row'[u][b]] # None /\ AccountOf[addr'[row'[u][b]]] = AccountOf[b]
           /\ \A u \in Tables, b \in Addresses : row'[u][b] \in {row[u][b], r}
           /\ t # "follow" \/ Matching(t, r) = {} => FollowedOnce'
<1>1. TypeOK /\ a \in Addresses /\ AccountOf[a] = AccountOf[addr[r]] /\ addr[r] # None
  BY DEF IInv, TypeOK, Same, Account
<1>2. /\ row' \in [Tables -> [Addresses -> Requests \cup {None}]]
      /\ \A u \in Tables, b \in Addresses :
             row'[u][b] = IF u = t /\ b = a THEN r ELSE row[u][b]
  BY <1>1, Put
<1>3. \A u \in Tables, b \in Addresses : row[u][b] # None =>
          addr[row[u][b]] # None /\ AccountOf[addr[row[u][b]]] = AccountOf[b]
  BY <1>1 DEF TypeOK
<1>4. ASSUME t # "follow" \/ Matching(t, r) = {} PROVE FollowedOnce'
  BY <1>1, <1>2, <1>4, Types DEF IInv, FollowedOnce, Matching, Same, Account
<1> QED
  BY <1>1, <1>2, <1>3, <1>4

LEMMA InsertFollowStep ==
    ASSUME IInv, NEW r \in Requests, InsertFollow(r) PROVE IInv'
<1>1. TypeOK /\ Phase(r) /\ op[r] = "follow" /\ at[r] = "insertFollow"
  BY DEF IInv, Phase, InsertFollow
<1>2. /\ at' = [at EXCEPT ![r] = "answer"]
      /\ UNCHANGED <<op, addr, found, follow, task, theirs, before, latest, mode>>
      /\ fresh' = fresh \/ fresh' = [fresh EXCEPT ![r] = TRUE]
      /\ \/ UNCHANGED row
         \/ /\ Matching("follow", r) = {}
            /\ row' = [row EXCEPT !["follow"][addr[r]] = r]
  BY DEF InsertFollow, Goto
<1>3. addr[r] \in Same(r) /\ "follow" \in Tables
  BY <1>1, Types DEF Same, Account
<1>4. /\ row' \in [Tables -> [Addresses -> Requests \cup {None}]]
      /\ \A t \in Tables, a \in Addresses : row'[t][a] # None =>
             addr'[row'[t][a]] # None /\ AccountOf[addr'[row'[t][a]]] = AccountOf[a]
      /\ \A t \in Tables, a \in Addresses : row'[t][a] \in {row[t][a], r}
      /\ FollowedOnce'
  <2>1. CASE UNCHANGED row
    BY <1>1, <1>2, <2>1 DEF IInv, TypeOK, FollowedOnce
  <2>2. CASE Matching("follow", r) = {} /\ row' = [row EXCEPT !["follow"][addr[r]] = r]
    BY <1>1, <1>2, <1>3, <2>2, WriteRow
  <2> QED
    BY <1>2, <2>1, <2>2
<1>5. at'[r] = "answer" /\ \A q \in Requests \ {r} : at'[q] = at[q]
  BY <1>1, <1>2 DEF TypeOK
<1>6. TypeOK'
  BY <1>1, <1>2, <1>4 DEF TypeOK, Running
<1>7. Phase(r)' /\ Erasing(r)' /\ Unwritten(r) /\ ~Unwritten(r)'
  BY <1>1, <1>2, <1>5 DEF Phase, Erasing, Unwritten, EndsRows, Ends
<1> QED
  BY <1>1, <1>2, <1>4, <1>5, <1>6, <1>7, StepOf

LEMMA InsertBlockStep ==
    ASSUME IInv, NEW r \in Requests, InsertBlock(r) PROVE IInv'
<1>1. TypeOK /\ Phase(r) /\ op[r] = "block" /\ at[r] = "insertBlock"
  BY DEF IInv, Phase, InsertBlock
<1>2. /\ UNCHANGED <<op, addr, found, follow, task, theirs, before, latest, mode>>
      /\ \/ /\ row' = [row EXCEPT !["block"][addr[r]] = r]
            /\ fresh' = [fresh EXCEPT ![r] = TRUE]
            /\ at' = [at EXCEPT ![r] = "readFollows"]
         \/ /\ UNCHANGED <<row, fresh>>
            /\ at' = [at EXCEPT ![r] = "failed"]
  BY DEF InsertBlock, Goto
<1>3. addr[r] \in Same(r) /\ "block" \in Tables
  BY <1>1, Types DEF Same, Account
<1>4. /\ row' \in [Tables -> [Addresses -> Requests \cup {None}]]
      /\ \A t \in Tables, a \in Addresses : row'[t][a] # None =>
             addr'[row'[t][a]] # None /\ AccountOf[addr'[row'[t][a]]] = AccountOf[a]
      /\ \A t \in Tables, a \in Addresses : row'[t][a] \in {row[t][a], r}
      /\ FollowedOnce'
  <2>1. CASE UNCHANGED row
    BY <1>1, <1>2, <2>1 DEF IInv, TypeOK, FollowedOnce
  <2>2. CASE row' = [row EXCEPT !["block"][addr[r]] = r]
    BY <1>1, <1>2, <1>3, <2>2, WriteRow
  <2> QED
    BY <1>2, <2>1, <2>2
<1>5. at'[r] \in {"readFollows", "failed"} /\ \A q \in Requests \ {r} : at'[q] = at[q]
  BY <1>1, <1>2 DEF TypeOK
<1>6. TypeOK'
  <2>1. /\ at' \in [Requests -> {"idle"} \cup Running \cup Ended]
        /\ fresh' \in [Requests -> BOOLEAN]
    BY <1>1, <1>2 DEF TypeOK, Running, Ended
  <2>2. \A q \in Requests : at'[q] # "idle" => op'[q] # None /\ addr'[q] # None
    BY <1>1, <1>2, <1>5 DEF TypeOK
  <2> QED
    BY <1>1, <1>2, <1>4, <2>1, <2>2 DEF TypeOK
<1>7. Phase(r)' /\ Erasing(r)' /\ Unwritten(r) /\ ~Unwritten(r)'
  BY <1>1, <1>2, <1>5 DEF Phase, Erasing, Unwritten, EndsRows, Ends
<1> QED
  BY <1>1, <1>2, <1>4, <1>5, <1>6, <1>7, StepOf

LEMMA ReplaceMuteStep ==
    ASSUME IInv, NEW r \in Requests, ReplaceMute(r) PROVE IInv'
<1>1. /\ TypeOK /\ Phase(r) /\ op[r] = "mute" /\ at[r] = "replaceMute"
      /\ found[r] \subseteq Same(r)
  BY DEF IInv, Phase, ReplaceMute
<1>2. /\ at' = [at EXCEPT ![r] = "answer"]
      /\ UNCHANGED <<op, addr, found, follow, fresh, task, theirs, before, latest, mode>>
  BY DEF ReplaceMute, Goto
<1>3. addr[r] \in Same(r) /\ "mute" \in Tables
  BY <1>1, Types DEF Same, Account
<1>4. PICK a \in Same(r) : row' = [row EXCEPT !["mute"][a] = r]
  BY <1>1, <1>3 DEF ReplaceMute
<1>5. /\ row' \in [Tables -> [Addresses -> Requests \cup {None}]]
      /\ \A t \in Tables, b \in Addresses : row'[t][b] # None =>
             addr'[row'[t][b]] # None /\ AccountOf[addr'[row'[t][b]]] = AccountOf[b]
      /\ \A t \in Tables, b \in Addresses : row'[t][b] \in {row[t][b], r}
      /\ FollowedOnce'
  BY <1>1, <1>2, <1>3, <1>4, WriteRow
<1>6. at'[r] = "answer" /\ \A q \in Requests \ {r} : at'[q] = at[q]
  BY <1>1, <1>2 DEF TypeOK
<1>7. TypeOK'
  BY <1>1, <1>2, <1>5 DEF TypeOK, Running
<1>8. Phase(r)' /\ Erasing(r)' /\ Unwritten(r) /\ ~Unwritten(r)'
  BY <1>1, <1>2, <1>6 DEF Phase, Erasing, Unwritten, EndsRows, Ends
<1> QED
  BY <1>1, <1>2, <1>5, <1>6, <1>7, <1>8, StepOf

-----------------------------------------------------------------------------
(* The steps that read.                                                    *)

\* The rows that r has met and that stand are at addresses of its account.
LEMMA MetMatch ==
    ASSUME IInv, NEW r \in Requests, NEW t \in Tables, NEW a \in Addresses, at[r] # "idle",
           row[t][a] \in before[r] \cup ({follow[r]} \ {None})
    PROVE  a \in Matching(t, r)
<1>1. row[t][a] # None
  BY ConstantsAssumption DEF IInv, TypeOK
<1>2. AccountOf[a] = Account(r)
  BY <1>1, Types DEF IInv, Met, Account
<1> QED
  BY <1>1, <1>2 DEF Matching, Same

LEMMA ReadFollowStep ==
    ASSUME IInv, NEW r \in Requests, ReadFollow(r) PROVE IInv'
<1>1. TypeOK /\ Phase(r) /\ op[r] = "unfollow" /\ at[r] = "readFollow"
  BY DEF IInv, Phase, ReadFollow
<1>2. /\ at' = [at EXCEPT ![r] = "readFollows"]
      /\ UNCHANGED <<row, op, addr, found, fresh, task, theirs, before, latest, mode>>
  BY DEF ReadFollow, Goto
<1>3. \/ UNCHANGED follow
      \/ \E a \in Same(r) : follow' = [follow EXCEPT ![r] = row["follow"][a]]
  BY DEF ReadFollow, Matching
<1>4. /\ follow' \in [Requests -> Requests \cup {None}]
      /\ \A q \in Requests \ {r} : follow'[q] = follow[q]
      /\ \/ follow'[r] = follow[r]
         \/ \E a \in Same(r) : row["follow"][a] = follow'[r]
  <2>1. follow \in [Requests -> Requests \cup {None}]
    BY <1>1 DEF TypeOK
  <2>2. ASSUME NEW a \in Same(r), follow' = [follow EXCEPT ![r] = row["follow"][a]]
        PROVE  /\ follow' \in [Requests -> Requests \cup {None}]
               /\ \A q \in Requests \ {r} : follow'[q] = follow[q]
               /\ follow'[r] = row["follow"][a]
    <3>1. row["follow"][a] \in Requests \cup {None}
      BY <1>1, Types DEF Same
    <3> QED
      BY <2>1, <2>2, <3>1
  <2> QED
    BY <1>3, <2>1, <2>2
<1>5. at'[r] = "readFollows" /\ \A q \in Requests \ {r} : at'[q] = at[q]
  BY <1>1, <1>2 DEF TypeOK
<1>6. TypeOK' /\ FollowedOnce'
  BY ZenonT(30), <1>1, <1>2, <1>4 DEF IInv, TypeOK, Running, FollowedOnce
<1>7. Phase(r)' /\ Erasing(r)' /\ Unwritten(r) /\ ~Unwritten(r)'
  BY <1>1, <1>2, <1>5 DEF Phase, Erasing, Unwritten, EndsRows
<1> QED
  BY <1>1, <1>2, <1>4, <1>5, <1>6, <1>7, StepOf

LEMMA ReadStep ==
    ASSUME IInv, NEW r \in Requests, Read(r) PROVE IInv'
<1> DEFINE t == IF op[r] \in {"block", "unblock"} THEN "block" ELSE "mute"
<1>1. /\ TypeOK /\ Phase(r) /\ at[r] = "read"
      /\ op[r] \in {"block", "unblock", "mute", "unmute"}
  BY DEF IInv, Phase, Read
<1>2. /\ found' = [found EXCEPT ![r] = Matching(t, r)]
      /\ UNCHANGED <<row, op, addr, follow, fresh, task, theirs, before, latest, mode>>
  BY DEF Read
<1>3. \/ op[r] \in {"unblock", "unmute"} /\ at' = [at EXCEPT ![r] = "erase"]
      \/ op[r] = "mute" /\ at' = [at EXCEPT ![r] = "replaceMute"]
      \/ op[r] = "block" /\ at' = [at EXCEPT ![r] = "insertBlock"]
      \/ op[r] = "block" /\ at' = [at EXCEPT ![r] = "readFollows"]
  BY <1>1 DEF Read, Goto
<1>4. t \in Tables /\ Matching(t, r) \subseteq Same(r) /\ Same(r) \subseteq Addresses
  BY DEF Matching, Same, Tables
<1>5. /\ found'[r] = Matching(t, r)
      /\ found' \in [Requests -> SUBSET Addresses]
      /\ \A q \in Requests \ {r} : found'[q] = found[q] /\ at'[q] = at[q]
      /\ \/ op[r] \in {"unblock", "unmute"} /\ at'[r] = "erase"
         \/ op[r] = "mute" /\ at'[r] = "replaceMute"
         \/ op[r] = "block" /\ at'[r] \in {"insertBlock", "readFollows"}
  BY <1>1, <1>2, <1>3, <1>4 DEF TypeOK
<1>6. TypeOK' /\ FollowedOnce'
  <2>1. at' \in [Requests -> {"idle"} \cup Running \cup Ended]
    BY <1>1, <1>3 DEF TypeOK, Running
  <2>2. \A q \in Requests : at'[q] # "idle" => op'[q] # None /\ addr'[q] # None
    BY <1>1, <1>2, <1>5 DEF TypeOK
  <2>3. TypeOK'
    BY <1>1, <1>2, <1>5, <2>1, <2>2 DEF TypeOK
  <2> QED
    BY <1>2, <2>3 DEF IInv, FollowedOnce
<1>7. Phase(r)' /\ Unwritten(r)
  BY <1>1, <1>2, <1>4, <1>5 DEF Phase, Unwritten, EndsRows, Ends, Same, Account
<1>8. Erasing(r)'
  <2>1. op[r] \in {"unblock", "unmute"} => EndedTable(op[r]) = t
    BY Zenon DEF EndedTable
  <2>2. \A a \in Addresses : row[t][a] \in before[r] => a \in Matching(t, r)
    BY <1>1, <1>4, MetMatch
  <2> QED
    BY <1>2, <1>5, <2>1, <2>2 DEF Erasing
<1> QED
  BY <1>1, <1>2, <1>5, <1>6, <1>7, <1>8, StepOf

LEMMA ReadFollowsStep ==
    ASSUME IInv, NEW r \in Requests, ReadFollows(r) PROVE IInv'
<1>1. TypeOK /\ Phase(r) /\ at[r] = "readFollows" /\ op[r] \in {"block", "unfollow"}
  BY DEF IInv, Phase, ReadFollows
<1>2. /\ found' = [found EXCEPT ![r] = Matching("follow", r)]
      /\ at' = [at EXCEPT ![r] = "erase"]
      /\ UNCHANGED <<row, op, addr, follow, fresh, task, theirs, before, latest, mode>>
  BY DEF ReadFollows, Goto
<1>3. /\ found'[r] = Matching("follow", r)
      /\ found' \in [Requests -> SUBSET Addresses]
      /\ at'[r] = "erase"
      /\ \A q \in Requests \ {r} : found'[q] = found[q] /\ at'[q] = at[q]
  BY <1>1, <1>2 DEF TypeOK, Matching, Same
<1>4. TypeOK' /\ FollowedOnce'
  BY <1>1, <1>2, <1>3 DEF IInv, TypeOK, Running, FollowedOnce
<1>5. Phase(r)' /\ ~Unwritten(r)'
  BY <1>1, <1>2, <1>3 DEF Phase, Unwritten, EndsRows, Ends
<1>6. Erasing(r)'
  <2>1. EndedTable(op[r]) = "follow"
    BY <1>1, Zenon DEF EndedTable
  <2>2. \A a \in Addresses :
            row["follow"][a] \in before[r] \cup ({follow[r]} \ {None})
                => a \in Matching("follow", r)
    BY <1>1, MetMatch DEF Tables
  <2> QED
    BY <1>2, <1>3, <2>1, <2>2 DEF Erasing
<1> QED
  BY <1>1, <1>2, <1>3, <1>4, <1>5, <1>6, StepOf

-----------------------------------------------------------------------------
(* The steps that delete, end, or concern a delivery.                      *)

LEMMA EraseStep ==
    ASSUME IInv, NEW r \in Requests, Erase(r) PROVE IInv'
<1> DEFINE t == EndedTable(op[r])
<1>1. TypeOK /\ Phase(r) /\ Erasing(r) /\ at[r] = "erase" /\ EndsRows(r) /\ t \in Tables
  BY Types DEF IInv, Phase, Erase
<1>2. UNCHANGED <<op, addr, at, follow, task, theirs, before, latest, mode>>
  BY DEF Erase
<1>3. PICK a \in found[r] :
          /\ row' = [row EXCEPT ![t][a] = None]
          /\ found' = [found EXCEPT ![r] = found[r] \ {a}]
          /\ fresh' = [fresh EXCEPT
                         ![r] = fresh[r] \/ (op[r] = "unblock" /\ row[t][a] # None)]
  BY DEF Erase
<1>4. a \in Addresses
  BY <1>1 DEF TypeOK
<1>5. /\ row' \in [Tables -> [Addresses -> Requests \cup {None}]]
      /\ \A u \in Tables, b \in Addresses :
             row'[u][b] = IF u = t /\ b = a THEN None ELSE row[u][b]
  BY ZenonT(30), <1>1, <1>3, <1>4, Put
<1>6. /\ FollowedOnce'
      /\ \A u \in Tables, b \in Addresses : row'[u][b] # None =>
             addr'[row'[u][b]] # None /\ AccountOf[addr'[row'[u][b]]] = AccountOf[b]
  BY <1>2, <1>5, RowsRemain
<1>7. /\ found' \in [Requests -> SUBSET Addresses] /\ fresh' \in [Requests -> BOOLEAN]
      /\ found'[r] = found[r] \ {a}
      /\ \A q \in Requests \ {r} : found'[q] = found[q]
  BY <1>1, <1>3 DEF TypeOK
<1>8. TypeOK'
  BY <1>1, <1>2, <1>5, <1>6, <1>7 DEF TypeOK
<1>9. Phase(r)' /\ ~Unwritten(r)'
  BY <1>1, <1>2 DEF Phase, Unwritten, EndsRows
<1>10. Erasing(r)'
  <2>1. op[r] = "unfollow" => t = "follow"
    BY Zenon DEF EndedTable
  <2>2. before[r] \subseteq Requests
    BY <1>1 DEF TypeOK
  <2>3. ASSUME NEW b \in Addresses,
               \/ row'[t][b] \in before[r]
               \/ op[r] = "unfollow" /\ follow[r] # None /\ row'["follow"][b] = follow[r]
        PROVE  b \in found'[r]
    <3>1. row'[t][b] # None
      BY <2>1, <2>2, <2>3, ConstantsAssumption
    <3>2. b # a /\ row'[t][b] = row[t][b]
      BY <1>1, <1>5, <3>1
    <3> QED
      BY <1>1, <1>7, <2>1, <2>3, <3>2 DEF Erasing
  <2> QED
    BY <1>1, <1>2, <2>3 DEF Erasing
<1> QED
  BY <1>1, <1>2, <1>5, <1>6, <1>7, <1>8, <1>9, <1>10, StepOf

LEMMA AnswerStep ==
    ASSUME IInv, NEW r \in Requests, Answer(r) PROVE IInv'
<1>1. /\ TypeOK /\ Phase(r) /\ Erasing(r)
      /\ at[r] = "answer" \/ (at[r] = "erase" /\ found[r] = {})
  BY DEF IInv, Answer
<1>2. /\ at' = [at EXCEPT ![r] = "done"]
      /\ task' = [task EXCEPT ![r] = IF Tells(r) THEN "pending" ELSE "none"]
      /\ latest' = [latest EXCEPT ![Account(r)] = r]
      /\ UNCHANGED <<row, op, addr, found, follow, fresh, theirs, before, mode>>
  BY DEF Answer, Goto
<1>3. /\ at'[r] = "done" /\ task'[r] = IF Tells(r) THEN "pending" ELSE "none"
      /\ \A q \in Requests \ {r} : at'[q] = at[q] /\ task'[q] = task[q]
  BY <1>1, <1>2 DEF TypeOK
<1>4. TypeOK' /\ FollowedOnce'
  <2>1. /\ at' \in [Requests -> {"idle"} \cup Running \cup Ended]
        /\ task' \in [Requests -> {"none", "pending", "over"}]
        /\ latest' \in [Accounts -> Requests \cup {None}]
    BY <1>1, <1>2 DEF TypeOK, Ended
  <2>2. \A q \in Requests : at'[q] # "idle" => op'[q] # None /\ addr'[q] # None
    BY <1>1, <1>2, <1>3 DEF TypeOK
  <2>3. TypeOK'
    BY <1>1, <1>2, <2>1, <2>2 DEF TypeOK
  <2> QED
    BY <1>2, <2>3 DEF IInv, FollowedOnce
<1>5. Phase(r)' /\ ~Unwritten(r)'
  BY <1>2, <1>3 DEF Phase, Unwritten, Tells
<1>6. Erasing(r)'
  BY <1>1, <1>2, <1>3 DEF Phase, Erasing, EndsRows, Ends
<1> QED
  BY <1>1, <1>2, <1>3, <1>4, <1>5, <1>6, StepOf

LEMMA FailStep ==
    ASSUME IInv, NEW r \in Requests, Fail(r) PROVE IInv'
<1>1. TypeOK /\ Phase(r) /\ at[r] \in Running
  BY DEF IInv, Fail
<1>2. /\ at' = [at EXCEPT ![r] = "failed"]
      /\ UNCHANGED <<row, op, addr, found, follow, fresh, task, theirs, before, latest, mode>>
  BY DEF Fail, Goto
<1>3. at'[r] = "failed" /\ \A q \in Requests \ {r} : at'[q] = at[q]
  BY <1>1, <1>2 DEF TypeOK
<1>4. TypeOK' /\ FollowedOnce'
  BY <1>1, <1>2, <1>3 DEF IInv, TypeOK, Running, Ended, FollowedOnce
<1>5. Phase(r)' /\ Erasing(r)' /\ ~Unwritten(r)' /\ at[r] # "idle"
  BY <1>1, <1>2, <1>3 DEF Phase, Erasing, Unwritten, Running
<1> QED
  BY <1>1, <1>2, <1>3, <1>4, <1>5, StepOf

LEMMA DeliveryStep ==
    ASSUME IInv, NEW r \in Requests, Deliver(r) \/ Lose(r) PROVE IInv'
<1>1. TypeOK /\ Phase(r) /\ Erasing(r) /\ task[r] = "pending"
  BY DEF IInv, Deliver, Lose
<1>2. /\ task' = [task EXCEPT ![r] = "over"]
      /\ UNCHANGED <<row, op, addr, at, found, follow, fresh, before, latest, mode>>
      /\ theirs' = theirs \/ theirs' = [theirs EXCEPT ![Account(r)] = Received(r, theirs[Account(r)])]
  BY DEF Deliver, Lose
<1>3. task'[r] = "over" /\ \A q \in Requests \ {r} : task'[q] = task[q]
  BY <1>1, <1>2 DEF TypeOK
<1>4. at[r] = "done"
  BY <1>1 DEF Phase
<1>5. theirs' \in [Accounts -> [follow : Requests \cup {None}, blocked : BOOLEAN]]
  <2>1. Account(r) \in Accounts
    BY <1>1, <1>4, Types, ConstantsAssumption DEF Account
  <2>2. theirs[Account(r)] \in [follow : Requests \cup {None}, blocked : BOOLEAN]
    BY <1>1, <2>1 DEF TypeOK
  <2>3. Received(r, theirs[Account(r)]) \in [follow : Requests \cup {None}, blocked : BOOLEAN]
    BY <2>2 DEF Received
  <2> QED
    BY <1>1, <1>2, <2>3 DEF TypeOK
<1>6. TypeOK' /\ FollowedOnce'
  BY <1>1, <1>2, <1>5 DEF IInv, TypeOK, FollowedOnce
<1>7. Phase(r)' /\ Erasing(r)' /\ ~Unwritten(r)'
  BY <1>1, <1>2, <1>3, <1>4 DEF Phase, Erasing, Unwritten, EndsRows
<1> QED
  BY <1>1, <1>2, <1>3, <1>4, <1>6, <1>7, StepOf

LEMMA StartStep ==
    ASSUME IInv, NEW r \in Requests, NEW o \in Begins \cup Ends, NEW a \in Addresses,
           Start(r, o, a)
    PROVE  IInv'
<1>1. TypeOK /\ at[r] = "idle" /\ Unwritten(r) /\ Phase(r) /\ follow[r] = None
  BY DEF IInv, Start, Unwritten, Phase
<1>2. /\ op' = [op EXCEPT ![r] = o]
      /\ addr' = [addr EXCEPT ![r] = a]
      /\ at' = [at EXCEPT ![r] = FirstStep(o)]
      /\ before' = [before EXCEPT ![r] = before'[r]]
      /\ before'[r] \subseteq RowsAbout(EndedTable(o), a)
      /\ latest' = [latest EXCEPT ![AccountOf[a]] = None]
      /\ UNCHANGED <<row, found, follow, fresh, task, theirs, mode>>
  <2>1. before' = [before EXCEPT ![r] = IF o \in Ends \cup {"block"}
                                        THEN RowsAbout(EndedTable(o), a) ELSE {}]
    BY DEF Start
  <2>2. before'[r] \subseteq RowsAbout(EndedTable(o), a) /\ before' = [before EXCEPT ![r] = before'[r]]
    BY <1>1, <2>1 DEF TypeOK
  <2> QED
    BY <2>2 DEF Start
<1>3. /\ FirstStep(o) \in {"insertFollow", "readFollow", "read"}
      /\ FirstStep(o) = "insertFollow" => o = "follow"
      /\ FirstStep(o) = "readFollow" => o = "unfollow"
      /\ FirstStep(o) = "read" => o \in {"block", "unblock", "mute", "unmute"}
  BY DEF FirstStep, Begins, Ends
<1>4. /\ op'[r] = o /\ addr'[r] = a /\ at'[r] = FirstStep(o)
      /\ \A q \in Requests \ {r} : /\ op'[q] = op[q] /\ addr'[q] = addr[q]
                                   /\ at'[q] = at[q] /\ before'[q] = before[q]
  BY <1>1, <1>2 DEF TypeOK
<1>5. \A t \in Tables, b \in Addresses : row[t][b] # None =>
          /\ row[t][b] \in Requests \ {r} /\ ~Unwritten(row[t][b])
          /\ addr[row[t][b]] # None /\ AccountOf[addr[row[t][b]]] = AccountOf[b]
  <2>1. RowsAreWritten
    BY DEF IInv
  <2>2. SUFFICES ASSUME NEW t \in Tables, NEW b \in Addresses, row[t][b] # None
                 PROVE  row[t][b] \in Requests /\ ~Unwritten(row[t][b])
                        /\ addr[row[t][b]] # None /\ AccountOf[addr[row[t][b]]] = AccountOf[b]
    BY <1>1
  <2>3. row[t][b] \in Requests /\ ~Unwritten(row[t][b])
    BY <1>1, <2>1, <2>2, Types DEF RowsAreWritten
  <2> QED
    BY <1>1, <2>2, <2>3 DEF TypeOK
<1>6. \A q \in before'[r] : q \in Requests \ {r} /\ ~Unwritten(q) /\ addr[q] # None
                            /\ AccountOf[addr[q]] = AccountOf[a]
  BY <1>1, <1>2, <1>5, Types DEF RowsAbout
<1>7. TypeOK'
  <2>1. at' \in [Requests -> {"idle"} \cup Running \cup Ended]
    BY <1>1, <1>2, <1>3 DEF TypeOK, Running
  <2>2. before' \in [Requests -> SUBSET Requests]
    BY <1>1, <1>2, <1>6 DEF TypeOK
  <2>3. latest' \in [Accounts -> Requests \cup {None}]
    BY <1>1, <1>2 DEF TypeOK
  <2>4. /\ op' \in [Requests -> Begins \cup Ends \cup {None}]
        /\ addr' \in [Requests -> Addresses \cup {None}]
    BY <1>1, <1>2 DEF TypeOK
  <2>5. \A q \in Requests : at'[q] # "idle" => op'[q] # None /\ addr'[q] # None
    BY <1>1, <1>4, ConstantsAssumption DEF TypeOK, Begins, Ends
  <2>6. \A t \in Tables, b \in Addresses : row'[t][b] # None =>
            addr'[row'[t][b]] # None /\ AccountOf[addr'[row'[t][b]]] = AccountOf[b]
    BY <1>2, <1>4, <1>5
  <2> QED
    BY <1>1, <1>2, <2>1, <2>2, <2>3, <2>4, <2>5, <2>6 DEF TypeOK
<1>8. \A q \in Requests : Unwritten(q)' => Unwritten(q)
  BY <1>1, <1>4 DEF Unwritten
<1>9. FollowedOnce' /\ RowsAreWritten'
  BY <1>2, <1>5, <1>8 DEF IInv, FollowedOnce, RowsAreWritten
<1>10. ASSUME NEW q \in Requests PROVE Phase(q)' /\ Met(q)' /\ Erasing(q)'
  <2>1. Phase(q) /\ Met(q) /\ Erasing(q) /\ before[q] \subseteq Requests
        /\ follow[q] \in Requests \cup {None}
    BY <1>1 DEF IInv, TypeOK
  <2>2. CASE q = r
    BY <1>1, <1>2, <1>3, <1>4, <1>6, <1>8, <2>1, <2>2
       DEF Phase, Met, Erasing, Unwritten, Account, EndsRows
  <2>3. CASE q # r
    <3>1. \A x \in before[q] \cup ({follow[q]} \ {None}) : x \in Requests \ {r}
      BY <1>1, <2>1 DEF Met
    <3>2. Met(q)'
      BY <1>2, <1>4, <1>8, <2>1, <2>3, <3>1 DEF Met, Account
    <3>3. Phase(q)' /\ Erasing(q)'
      BY <1>2, <1>4, <2>1, <2>3 DEF Phase, Erasing, EndsRows, Same, Account
    <3> QED
      BY <3>2, <3>3
  <2> QED
    BY <2>2, <2>3
<1> QED
  BY <1>7, <1>9, <1>10 DEF IInv

-----------------------------------------------------------------------------
(* The theorems.                                                           *)

LEMMA NextInv == IInv /\ [Next]_vars => IInv'
<1> SUFFICES ASSUME IInv, [Next]_vars PROVE IInv'
  OBVIOUS
<1>1. CASE UNCHANGED vars
  BY <1>1 DEF IInv, vars, TypeOK, FollowedOnce, RowsAreWritten, Phase, Met, Erasing,
              Unwritten, EndsRows, Same, Account
<1>2. ASSUME NEW r \in Requests, NEW o \in Begins \cup Ends, NEW a \in Addresses,
             Start(r, o, a)
      PROVE  IInv'
  BY <1>2, StartStep
<1>3. ASSUME NEW r \in Requests, Step(r) PROVE IInv'
  BY <1>3, InsertFollowStep, InsertBlockStep, ReplaceMuteStep, ReadFollowStep, ReadStep,
     ReadFollowsStep, EraseStep, AnswerStep, FailStep, DeliveryStep DEF Step
<1> QED
  BY <1>1, <1>2, <1>3 DEF Next

\* The inductive invariant holds throughout: who may still write a row, who has
\* met it and who will delete it.
THEOREM InvariantHolds == Spec => []IInv
BY InitInv, NextInv, PTL DEF Spec

\* Every table, request, delivery and history keeps its type, and every row
\* stands at an address of the account that its request was about
\* (src/src/data/database.rs).
THEOREM TypeCorrect == Spec => []TypeOK
<1>1. IInv => TypeOK
  BY DEF IInv
<1> QED
  BY <1>1, InvariantHolds, PTL

\* insert_follow_if_absent leaves an account followed under one address only,
\* whatever overlaps and fails, for any number of addresses and requests.
THEOREM FollowedOnceHolds == Spec => []FollowedOnce
<1>1. IInv => FollowedOnce
  BY DEF IInv
<1> QED
  BY <1>1, InvariantHolds, PTL

\* An unfollow, block, unblock or unmute that succeeds has ended what stood when
\* it began, whatever overlaps and fails.
THEOREM EndedIsGoneHolds == Spec => []EndedIsGone
<1>1. IInv => EndedIsGone
  BY DEF IInv, Erasing, EndedIsGone
<1> QED
  BY <1>1, InvariantHolds, PTL

\* No Undo is sent of a follow that stands, whatever overlaps and fails.
THEOREM UndoneIsGoneHolds == Spec => []UndoneIsGone
<1>1. IInv => UndoneIsGone
  <2> SUFFICES ASSUME IInv, NEW r \in Requests, op[r] = "unfollow", task[r] # "none",
                      NEW a \in Addresses
               PROVE  row["follow"][a] # follow[r]
    BY DEF UndoneIsGone
  <2>1. Phase(r) /\ Erasing(r)
    BY DEF IInv
  <2>2. at[r] = "done" /\ follow[r] # None /\ EndsRows(r)
    BY <2>1 DEF Phase, EndsRows, Ends
  <2> QED
    BY <2>1, <2>2 DEF Erasing
<1> QED
  BY <1>1, InvariantHolds, PTL

-----------------------------------------------------------------------------
(* An owner who waits.                                                     *)

\* A request that has not ended, or has not been told of.
Busy(r) == at[r] \in Running \/ task[r] = "pending"

OneBusy == \A q, r \in Requests : Busy(q) /\ Busy(r) => q = r

MutedOnce ==
    \A a, b \in Addresses :
        AccountOf[a] = AccountOf[b] /\ row["mute"][a] # None /\ row["mute"][b] # None
            => a = b

\* What a request has read still stands, as nobody else is busy.
Ready(r) ==
    /\ at[r] = "replaceMute" => found[r] = Matching("mute", r)
    /\ at[r] = "insertBlock" => Matching("block", r) = {}
    /\ at[r] = "readFollows" /\ op[r] = "block" => Matching("block", r) # {}
    /\ at[r] = "erase" =>
           /\ found[r] = Matching(EndedTable(op[r]), r)
           /\ op[r] = "block" => Matching("block", r) # {}
    /\ at[r] = "answer" /\ op[r] = "follow" => Matching("follow", r) # {}
    /\ at[r] = "answer" /\ op[r] = "mute" =>
           \E a \in Addresses : Matching("mute", r) = {a} /\ row["mute"][a] = r

\* What holds of the account of r when r has succeeded.
Word(r) ==
    CASE op[r] = "block"  -> Matching("block", r) # {} /\ Matching("follow", r) = {}
      [] op[r] = "mute"   -> \E a \in Addresses :
                                 Matching("mute", r) = {a} /\ row["mute"][a] = r
      [] op[r] = "follow" -> Matching("follow", r) # {}
      [] OTHER            -> Matching(EndedTable(op[r]), r) = {}

Spoken(r) ==
    /\ at[r] = "done" /\ Word(r)
    /\ \A q \in Requests : at[q] \in Running => Account(q) # Account(r)

InTurn ==
    /\ OneBusy /\ MutedOnce
    /\ \A r \in Requests : at[r] \in Running => Ready(r)
    /\ \A r \in Requests : task[r] = "pending" => latest[Account(r)] = r
    /\ \A c \in Accounts, r \in Requests : latest[c] = r => Account(r) = c /\ Spoken(r)

SerialInv == "serial" \in mode => InTurn

LEMMA SerialInit == Init => SerialInv
<1> SUFFICES ASSUME Init PROVE InTurn
  BY DEF SerialInv
<1>1. OneBusy
  BY DEF Init, OneBusy, Busy, Running
<1>2. MutedOnce
  BY DEF Init, MutedOnce, Tables
<1> QED
  BY <1>1, <1>2, ConstantsAssumption DEF Init, InTurn, Running

\* The rows of an account say the same when they are the same.
LEMMA SameRows ==
    ASSUME NEW q \in Requests, op'[q] = op[q], addr'[q] = addr[q],
           \A t \in Tables : \A a \in Same(q) : row'[t][a] = row[t][a]
    PROVE  /\ Account(q)' = Account(q) /\ Same(q)' = Same(q)
           /\ \A t \in Tables : Matching(t, q)' = Matching(t, q)
           /\ Word(q)' <=> Word(q)
<1>1. Account(q)' = Account(q) /\ Same(q)' = Same(q)
  BY DEF Account, Same
<1>2. \A t \in Tables : Matching(t, q)' = Matching(t, q)
  BY <1>1 DEF Matching
<1>3. /\ Matching("block", q)' = Matching("block", q)
      /\ Matching("follow", q)' = Matching("follow", q)
      /\ Matching("mute", q)' = Matching("mute", q)
      /\ EndedTable(op'[q]) = EndedTable(op[q])
      /\ Matching(EndedTable(op[q]), q)' = Matching(EndedTable(op[q]), q)
  BY <1>2 DEF Tables, EndedTable
<1>4. ASSUME op[q] = "mute" PROVE Word(q)' <=> Word(q)
  <2>1. \A a \in Addresses : Matching("mute", q) = {a} => row'["mute"][a] = row["mute"][a]
    BY DEF Matching, Tables
  <2> QED
    BY <1>3, <1>4, <2>1 DEF Word
<1>5. ASSUME op[q] # "mute" PROVE Word(q)' <=> Word(q)
  BY <1>3, <1>5 DEF Word
<1> QED
  BY <1>1, <1>2, <1>4, <1>5

\* A busy request goes on, and touches rows of its account only.
LEMMA InTurnStep ==
    ASSUME IInv, InTurn, NEW r \in Requests, at[r] \in Running,
           UNCHANGED <<op, addr, task, latest>>,
           \A q \in Requests \ {r} : at'[q] = at[q] /\ found'[q] = found[q],
           \A t \in Tables, a \in Addresses \ Same(r) : row'[t][a] = row[t][a],
           at'[r] \in Running => Ready(r)', at'[r] # "done",
           MutedOnce'
    PROVE  InTurn'
<1>1. \A q \in Requests : Busy(q)' => Busy(q)
  BY DEF Busy
<1>2. OneBusy'
  BY <1>1 DEF InTurn, OneBusy
<1>3. \A q \in Requests \ {r} : at[q] \notin Running /\ task[q] # "pending"
  BY DEF InTurn, OneBusy, Busy
<1>4. \A q \in Requests : at'[q] \in Running => Ready(q)'
  BY <1>3
<1>5. \A q \in Requests : task'[q] = "pending" => latest'[Account(q)'] = q
  BY DEF InTurn, Account
<1>6. ASSUME NEW c \in Accounts, NEW q \in Requests, latest'[c] = q
      PROVE  Account(q)' = c /\ Spoken(q)'
  <2>1. Account(q) = c /\ Spoken(q) /\ Account(q)' = Account(q)
    BY <1>6 DEF InTurn, Account
  <2>2. Account(r) # c /\ q # r /\ Account(r)' = Account(r)
    BY <2>1 DEF Spoken, Running, Account
  <2>3. \A t \in Tables : \A a \in Same(q) : row'[t][a] = row[t][a]
    BY <2>1, <2>2 DEF Same
  <2>4. Word(q)'
    BY <2>1, <2>3, SameRows DEF Spoken
  <2>5. \A p \in Requests : at'[p] \in Running => Account(p)' # Account(q)'
    BY <2>1, <2>2 DEF Spoken, Account
  <2> QED
    BY <2>1, <2>2, <2>4, <2>5 DEF Spoken
<1> QED
  BY <1>2, <1>4, <1>5, <1>6 DEF InTurn

\* What a request that waits its turn reads and writes.
LEMMA TurnInsertFollow ==
    ASSUME IInv, InTurn, NEW r \in Requests, InsertFollow(r) PROVE InTurn'
<1>1. TypeOK /\ op[r] = "follow" /\ at[r] = "insertFollow" /\ MutedOnce
  BY DEF IInv, Phase, InsertFollow, InTurn
<1>2. /\ at' = [at EXCEPT ![r] = "answer"]
      /\ UNCHANGED <<op, addr, found, task, latest>>
      /\ \/ UNCHANGED row /\ Matching("follow", r) # {}
         \/ row' = [row EXCEPT !["follow"][addr[r]] = r]
  BY DEF InsertFollow, Goto
<1>3. at'[r] = "answer" /\ \A q \in Requests \ {r} : at'[q] = at[q]
  BY <1>1, <1>2 DEF TypeOK
<1>4. addr[r] \in Same(r) /\ addr[r] \in Addresses /\ "follow" \in Tables
  BY <1>1, Types DEF Same, Account
<1>5. /\ \A t \in Tables, a \in Addresses :
             row'[t][a] = row[t][a] \/ (t = "follow" /\ a = addr[r] /\ row'[t][a] = r)
      /\ UNCHANGED row \/ row'["follow"][addr[r]] = r
  <2>1. CASE UNCHANGED row
    BY <2>1
  <2>2. CASE row' = [row EXCEPT !["follow"][addr[r]] = r]
    <3>1. r \in Requests \cup {None}
      OBVIOUS
    <3>2. \A t \in Tables, a \in Addresses :
              row'[t][a] = IF t = "follow" /\ a = addr[r] THEN r ELSE row[t][a]
      BY <1>1, <1>4, <2>2, <3>1, Put
    <3> QED
      BY <1>4, <3>2
  <2> QED
    BY <1>2, <2>1, <2>2
<1>6. Matching("follow", r)' # {}
  <2>1. CASE UNCHANGED row /\ Matching("follow", r) # {}
    BY <1>2, <2>1 DEF Matching, Same, Account
  <2>2. CASE row'["follow"][addr[r]] = r
    BY <1>2, <1>4, <2>2, Types, <1>1 DEF Matching, Same, Account
  <2>3. CASE row' = [row EXCEPT !["follow"][addr[r]] = r]
    <3>1. row'["follow"][addr[r]] = r
      BY <1>1, <1>4, <2>3 DEF TypeOK
    <3> QED
      BY <2>2, <3>1
  <2> QED
    BY <1>2, <2>1, <2>3
<1>7. Ready(r)'
  BY <1>1, <1>2, <1>3, <1>6 DEF Ready
<1>8. MutedOnce'
  <2>1. \A a \in Addresses : row'["mute"][a] = row["mute"][a]
    BY <1>5 DEF Tables
  <2> QED
    BY <1>1, <2>1 DEF MutedOnce
<1> QED
  BY <1>1, <1>2, <1>3, <1>4, <1>5, <1>7, <1>8, InTurnStep DEF Running

LEMMA TurnInsertBlock ==
    ASSUME IInv, InTurn, NEW r \in Requests, InsertBlock(r) PROVE InTurn'
<1>1. TypeOK /\ op[r] = "block" /\ at[r] = "insertBlock" /\ MutedOnce
  BY DEF IInv, Phase, InsertBlock, InTurn
<1>2. /\ UNCHANGED <<op, addr, found, task, latest>>
      /\ \/ /\ row' = [row EXCEPT !["block"][addr[r]] = r]
            /\ at' = [at EXCEPT ![r] = "readFollows"]
         \/ UNCHANGED row /\ at' = [at EXCEPT ![r] = "failed"]
  BY DEF InsertBlock, Goto
<1>3. at'[r] \in {"readFollows", "failed"} /\ \A q \in Requests \ {r} : at'[q] = at[q]
  BY <1>1, <1>2 DEF TypeOK
<1>4. addr[r] \in Same(r) /\ addr[r] \in Addresses /\ "block" \in Tables
  BY <1>1, Types DEF Same, Account
<1>5. \A t \in Tables, a \in Addresses :
             row'[t][a] = row[t][a] \/ (t = "block" /\ a = addr[r] /\ row'[t][a] = r)
  <2>1. CASE UNCHANGED row
    BY <2>1
  <2>2. CASE row' = [row EXCEPT !["block"][addr[r]] = r]
    <3>1. r \in Requests \cup {None}
      OBVIOUS
    <3>2. \A t \in Tables, a \in Addresses :
              row'[t][a] = IF t = "block" /\ a = addr[r] THEN r ELSE row[t][a]
      BY <1>1, <1>4, <2>2, <3>1, Put
    <3> QED
      BY <1>4, <3>2
  <2> QED
    BY <1>2, <2>1, <2>2
<1>6. at'[r] = "readFollows" => Matching("block", r)' # {}
  <2>1. at'[r] = "readFollows" => row'["block"][addr[r]] = r
    BY <1>1, <1>2, <1>4, Put DEF TypeOK
  <2> QED
    BY <1>1, <1>2, <1>4, <2>1, Types DEF Matching, Same, Account
<1>7. Ready(r)'
  BY <1>1, <1>2, <1>3, <1>6 DEF Ready
<1>8. MutedOnce'
  <2>1. \A a \in Addresses : row'["mute"][a] = row["mute"][a]
    BY <1>5 DEF Tables
  <2> QED
    BY <1>1, <2>1 DEF MutedOnce
<1> QED
  BY <1>1, <1>2, <1>3, <1>4, <1>5, <1>7, <1>8, InTurnStep DEF Running

LEMMA TurnReplaceMute ==
    ASSUME IInv, InTurn, NEW r \in Requests, ReplaceMute(r) PROVE InTurn'
<1>1. /\ TypeOK /\ op[r] = "mute" /\ at[r] = "replaceMute" /\ MutedOnce
      /\ found[r] = Matching("mute", r)
  BY DEF IInv, Phase, ReplaceMute, InTurn, Ready, Running
<1>2. /\ at' = [at EXCEPT ![r] = "answer"] /\ UNCHANGED <<op, addr, found, task, latest>>
  BY DEF ReplaceMute, Goto
<1>3. at'[r] = "answer" /\ \A q \in Requests \ {r} : at'[q] = at[q]
  BY <1>1, <1>2 DEF TypeOK
<1>4. addr[r] \in Same(r) /\ "mute" \in Tables /\ Same(r) \subseteq Addresses
      /\ Same(r)' = Same(r)
  BY <1>1, <1>2, Types DEF Same, Account
<1>5. PICK a \in Same(r) :
          /\ row' = [row EXCEPT !["mute"][a] = r]
          /\ a \in Matching("mute", r) \/ Matching("mute", r) = {}
  BY <1>1, <1>4 DEF ReplaceMute, Matching
<1>6. \A t \in Tables, b \in Addresses :
          row'[t][b] = IF t = "mute" /\ b = a THEN r ELSE row[t][b]
  BY ZenonT(30), <1>1, <1>4, <1>5, Put
<1>7. \A b \in Same(r) : row["mute"][b] # None => b = a
  BY <1>1, <1>4, <1>5 DEF Matching, MutedOnce, Same
<1>8. Matching("mute", r)' = {a} /\ row'["mute"][a] = r /\ a \in Addresses
  <2>1. Matching("mute", r)' = {b \in Same(r) : row'["mute"][b] # None}
    BY <1>4 DEF Matching
  <2> QED
    BY <1>4, <1>5, <1>6, <1>7, <2>1, ConstantsAssumption
<1>9. Ready(r)'
  BY <1>1, <1>2, <1>3, <1>8 DEF Ready
<1>10. MutedOnce'
  <2> SUFFICES ASSUME NEW b \in Addresses, NEW d \in Addresses,
                      AccountOf[b] = AccountOf[d],
                      row'["mute"][b] # None, row'["mute"][d] # None
               PROVE  b = d
    BY DEF MutedOnce
  <2>1. CASE AccountOf[b] = Account(r)
    <3>1. b \in Same(r) /\ d \in Same(r) /\ a \in Addresses
      BY <1>4, <2>1 DEF Same
    <3>2. \A e \in Same(r) : row'["mute"][e] # None => e = a
      BY <1>4, <1>6, <1>7
    <3> QED
      BY <3>1, <3>2
  <2>2. CASE AccountOf[b] # Account(r)
    <3>1. row["mute"][b] # None /\ row["mute"][d] # None
      BY <1>4, <1>5, <1>6, <2>2 DEF Same
    <3> QED
      BY <1>1, <3>1 DEF MutedOnce
  <2> QED
    BY <2>1, <2>2
<1> QED
  BY <1>1, <1>2, <1>3, <1>4, <1>5, <1>6, <1>9, <1>10, InTurnStep DEF Running

LEMMA TurnReads ==
    ASSUME IInv, InTurn, NEW r \in Requests,
           ReadFollow(r) \/ Read(r) \/ ReadFollows(r) \/ Fail(r)
    PROVE  InTurn'
<1>1. /\ TypeOK /\ Phase(r) /\ MutedOnce /\ Ready(r)
      /\ at[r] \in Running
  BY DEF IInv, InTurn, ReadFollow, Read, ReadFollows, Fail, Running
<1>2. UNCHANGED <<row, op, addr, task, latest>>
  BY DEF ReadFollow, Read, ReadFollows, Fail
<1>3. \A q \in Requests \ {r} : at'[q] = at[q] /\ found'[q] = found[q]
  BY <1>1 DEF ReadFollow, Read, ReadFollows, Fail, Goto, TypeOK
<1>4. \A t : Matching(t, r)' = Matching(t, r)
  BY <1>2 DEF Matching, Same, Account
<1>5. at'[r] # "done" /\ Ready(r)'
  <2>1. CASE ReadFollow(r)
    <3>1. at'[r] = "readFollows" /\ op'[r] = "unfollow"
      BY <1>1, <1>2, <2>1 DEF ReadFollow, Goto, TypeOK, Phase
    <3> QED
      BY <3>1 DEF Ready
  <2>2. CASE Read(r)
    <3> DEFINE t == IF op[r] \in {"block", "unblock"} THEN "block" ELSE "mute"
    <3>1. /\ op[r] \in {"block", "unblock", "mute", "unmute"}
          /\ found' = [found EXCEPT ![r] = Matching(t, r)]
          /\ Goto(r, CASE op[r] \in {"unblock", "unmute"} -> "erase"
                       [] op[r] = "mute" -> "replaceMute"
                       [] OTHER -> IF Matching(t, r) = {} THEN "insertBlock"
                                   ELSE "readFollows")
      BY <1>1, <2>2 DEF Read, Phase
    <3>2. found'[r] = Matching(t, r)
      <4>1. Matching(t, r) \subseteq Addresses
        BY DEF Matching, Same
      <4> QED
        BY <1>1, <3>1, <4>1 DEF TypeOK
    <3>3. /\ op[r] \in {"unblock", "unmute"} => at'[r] = "erase"
          /\ op[r] = "mute" => at'[r] = "replaceMute"
          /\ op[r] = "block" =>
                 at'[r] = IF Matching("block", r) = {} THEN "insertBlock" ELSE "readFollows"
      BY <1>1, <3>1 DEF Goto, TypeOK
    <3>4. op[r] \in {"unblock", "unmute"} => t = EndedTable(op[r])
      BY Zenon DEF EndedTable
    <3>5. CASE op[r] \in {"unblock", "unmute"}
      BY <1>2, <1>4, <3>2, <3>3, <3>4, <3>5 DEF Ready
    <3>6. CASE op[r] = "mute"
      BY <1>2, <1>4, <3>2, <3>3, <3>6 DEF Ready
    <3>7. CASE op[r] = "block"
      BY <1>2, <1>4, <3>2, <3>3, <3>7 DEF Ready
    <3> QED
      BY <3>1, <3>5, <3>6, <3>7
  <2>3. CASE ReadFollows(r)
    <3>1. /\ op[r] \in {"block", "unfollow"} /\ at[r] = "readFollows"
          /\ found' = [found EXCEPT ![r] = Matching("follow", r)]
          /\ at' = [at EXCEPT ![r] = "erase"]
      BY <1>1, <2>3 DEF ReadFollows, Phase, Goto
    <3>2. Matching("follow", r) \subseteq Addresses
      BY DEF Matching, Same
    <3>3. found'[r] = Matching("follow", r) /\ at'[r] = "erase"
      BY <1>1, <3>1, <3>2 DEF TypeOK
    <3>4. EndedTable(op[r]) = "follow"
      BY <3>1, Zenon DEF EndedTable
    <3> QED
      BY <1>1, <1>2, <1>4, <3>1, <3>3, <3>4 DEF Ready
  <2>4. CASE Fail(r)
    <3>1. at'[r] = "failed"
      BY <1>1, <2>4 DEF Fail, Goto, TypeOK
    <3> QED
      BY <3>1 DEF Ready
  <2> QED
    BY <2>1, <2>2, <2>3, <2>4
<1>6. MutedOnce'
  BY <1>1, <1>2 DEF MutedOnce
<1> QED
  BY <1>1, <1>2, <1>3, <1>5, <1>6, InTurnStep

LEMMA TurnErase ==
    ASSUME IInv, InTurn, NEW r \in Requests, Erase(r) PROVE InTurn'
<1> DEFINE t == EndedTable(op[r])
<1>1. /\ TypeOK /\ MutedOnce /\ at[r] = "erase" /\ t \in Tables
      /\ found[r] = Matching(t, r)
      /\ op[r] = "block" => Matching("block", r) # {}
  BY Types DEF IInv, Erase, InTurn, Ready, Running
<1>2. UNCHANGED <<op, addr, at, task, latest>>
  BY DEF Erase
<1>3. PICK a \in found[r] :
          /\ row' = [row EXCEPT ![t][a] = None]
          /\ found' = [found EXCEPT ![r] = found[r] \ {a}]
  BY DEF Erase
<1>4. a \in Same(r) /\ a \in Addresses
  BY <1>1 DEF Matching, Same
<1>5. \A u \in Tables, b \in Addresses :
          row'[u][b] = IF u = t /\ b = a THEN None ELSE row[u][b]
  BY <1>1, <1>3, <1>4, Put
<1>6. /\ found'[r] = found[r] \ {a}
      /\ \A q \in Requests \ {r} : found'[q] = found[q]
  BY <1>1, <1>3 DEF TypeOK
<1>7. Same(r)' = Same(r) /\ Same(r) \subseteq Addresses
  BY <1>2 DEF Same, Account
<1>8. Matching(t, r)' = Matching(t, r) \ {a}
  <2>1. Matching(t, r)' = {b \in Same(r) : row'[t][b] # None}
    BY <1>2, <1>7 DEF Matching
  <2>2. Matching(t, r) = {b \in Same(r) : row[t][b] # None}
    BY DEF Matching
  <2>3. \A b \in Same(r) : row'[t][b] = IF b = a THEN None ELSE row[t][b]
    BY <1>1, <1>5, <1>7
  <2> HIDE DEF t
  <2> QED
    BY <2>1, <2>2, <2>3
<1>9. op[r] = "block" => Matching("block", r)' = Matching("block", r)
  <2>1. op[r] = "block" => t = "follow"
    BY Zenon DEF EndedTable
  <2> QED
    BY <1>5, <1>7, <2>1 DEF Matching, Tables
<1>10. Ready(r)'
  <2>1. EndedTable(op'[r]) = t /\ op' = op /\ at' = at
    BY <1>2
  <2>2. found'[r] = Matching(t, r)'
    BY <1>1, <1>6, <1>8
  <2> QED
    BY <1>1, <1>9, <2>1, <2>2 DEF Ready
<1>11. MutedOnce'
  BY <1>1, <1>5 DEF MutedOnce, Tables
<1> QED
  BY <1>1, <1>2, <1>4, <1>5, <1>6, <1>10, <1>11, InTurnStep DEF Running

\* A request has the last word about its account.
LEMMA TurnAnswer ==
    ASSUME IInv, InTurn, NEW r \in Requests, Answer(r) PROVE InTurn'
<1>1. /\ TypeOK /\ Phase(r) /\ Ready(r) /\ MutedOnce /\ at[r] \in Running
      /\ Account(r) \in Accounts /\ op[r] \in Begins \cup Ends
  BY Types, ConstantsAssumption DEF IInv, InTurn, Answer, Running, Account
<1>2. /\ UNCHANGED <<row, op, addr, found>>
      /\ at'[r] = "done" /\ \A q \in Requests \ {r} : at'[q] = at[q] /\ task'[q] = task[q]
      /\ latest' = [latest EXCEPT ![Account(r)] = r]
  BY <1>1 DEF Answer, Goto, TypeOK
<1>3. \A q \in Requests : /\ Busy(q)' => Busy(q)
                          /\ at'[q] \in Running => q # r /\ at[q] \in Running
  BY <1>1, <1>2 DEF Busy, Running
<1>4. \A q \in Requests \ {r} : at[q] \notin Running /\ task[q] # "pending"
  BY <1>1 DEF InTurn, OneBusy, Busy
<1>5. Word(r)
  <2>1. CASE at[r] = "answer"
    BY <1>1, <2>1 DEF Phase, Ready, Word
  <2>2. CASE at[r] = "erase" /\ found[r] = {}
    <3>1. /\ op[r] \in Ends \cup {"block"} /\ Matching(EndedTable(op[r]), r) = {}
          /\ op[r] = "block" => Matching("block", r) # {}
      BY <1>1, <2>2 DEF Phase, EndsRows, Ready
    <3>2. op[r] = "block" => Matching("follow", r) = {}
      <4>1. op[r] = "block" => EndedTable(op[r]) = "follow"
        BY Zenon DEF EndedTable
      <4> QED
        BY <3>1, <4>1
    <3>3. CASE op[r] = "block"
      BY <3>1, <3>2, <3>3 DEF Word
    <3>4. CASE op[r] \in Ends
      BY <3>1, <3>4 DEF Word, Ends
    <3> QED
      BY <3>1, <3>3, <3>4
  <2> QED
    BY <2>1, <2>2 DEF Answer
<1>6. \A q \in Requests : Account(q)' = Account(q) /\ Word(q)' = Word(q)
  BY <1>2 DEF Account, Word, Matching, Same
<1>7. latest'[Account(r)] = r /\ \A c \in Accounts \ {Account(r)} : latest'[c] = latest[c]
  BY <1>1, <1>2 DEF TypeOK
<1>8. \A q \in Requests : at'[q] \in Running => Ready(q)'
  BY <1>3, <1>4
<1>9. \A q \in Requests : task'[q] = "pending" => latest'[Account(q)'] = q
  BY <1>2, <1>4, <1>6, <1>7
<1>10. ASSUME NEW c \in Accounts, NEW q \in Requests, latest'[c] = q
       PROVE  Account(q)' = c /\ Spoken(q)'
  <2>1. CASE c = Account(r)
    BY <1>2, <1>3, <1>4, <1>5, <1>6, <1>7, <1>10, <2>1 DEF Spoken
  <2>2. CASE c # Account(r)
    <3>1. Account(q) = c /\ Spoken(q) /\ q # r
      BY <1>7, <1>10, <2>2 DEF InTurn
    <3> QED
      BY <1>2, <1>3, <1>6, <3>1 DEF Spoken
  <2> QED
    BY <2>1, <2>2
<1> QED
  BY <1>1, <1>2, <1>3, <1>8, <1>9, <1>10 DEF InTurn, OneBusy, MutedOnce

LEMMA TurnDelivery ==
    ASSUME IInv, InTurn, NEW r \in Requests, Deliver(r) \/ Lose(r) PROVE InTurn'
<1>1. /\ UNCHANGED <<row, op, addr, at, found, latest>>
      /\ \A q \in Requests : task'[q] = "pending" => task[q] = "pending"
  BY DEF Deliver, Lose, IInv, TypeOK
<1>2. \A q \in Requests : /\ Busy(q)' => Busy(q)
                          /\ Account(q)' = Account(q) /\ Word(q)' = Word(q)
                          /\ Ready(q)' = Ready(q) /\ Spoken(q)' = Spoken(q)
  BY <1>1 DEF Busy, Account, Word, Ready, Spoken, Matching, Same
<1> QED
  BY <1>1, <1>2 DEF InTurn, OneBusy, MutedOnce

\* A request that waited its turn finds nobody busy, and is the last word about
\* its account no more.
LEMMA TurnStart ==
    ASSUME IInv, InTurn, Settled, NEW r \in Requests, NEW o \in Begins \cup Ends,
           NEW a \in Addresses, Start(r, o, a)
    PROVE  InTurn'
<1>1. TypeOK /\ at[r] = "idle" /\ AccountOf[a] \in Accounts /\ MutedOnce
  BY ConstantsAssumption DEF IInv, InTurn, Start
<1>2. /\ op'[r] = o /\ addr'[r] = a
      /\ at'[r] \in {"insertFollow", "readFollow", "read"}
      /\ \A q \in Requests \ {r} : op'[q] = op[q] /\ addr'[q] = addr[q] /\ at'[q] = at[q]
      /\ UNCHANGED <<row, found, task>>
      /\ latest'[AccountOf[a]] = None
      /\ \A c \in Accounts \ {AccountOf[a]} : latest'[c] = latest[c]
  BY <1>1 DEF Start, TypeOK, FirstStep
<1>3. \A q \in Requests : at'[q] \in Running \/ task'[q] = "pending" => q = r
  BY <1>2 DEF Settled
<1>4. OneBusy' /\ MutedOnce'
  BY <1>1, <1>2, <1>3 DEF OneBusy, Busy, MutedOnce
<1>5. Ready(r)' /\ task'[r] # "pending"
  BY <1>2 DEF Ready, Settled
<1>6. ASSUME NEW c \in Accounts, NEW q \in Requests, latest'[c] = q
      PROVE  Account(q)' = c /\ Spoken(q)'
  <2>1. c # AccountOf[a] /\ latest[c] = q
    BY <1>2, <1>6, ConstantsAssumption
  <2>2. Account(q) = c /\ Spoken(q)
    BY <2>1 DEF InTurn
  <2>3. q # r
    BY <1>1, <2>2 DEF Spoken
  <2>4. Account(q)' = c /\ Word(q)' /\ at'[q] = "done"
    BY <1>2, <2>2, <2>3, SameRows DEF Spoken
  <2>5. \A p \in Requests : at'[p] \in Running => Account(p)' # c
    BY <1>2, <1>3, <2>1 DEF Account
  <2> QED
    BY <2>4, <2>5 DEF Spoken
<1> QED
  BY <1>3, <1>4, <1>5, <1>6 DEF InTurn

LEMMA SerialStep == IInv /\ SerialInv /\ [Next]_vars => SerialInv'
<1> SUFFICES ASSUME IInv, SerialInv, [Next]_vars, "serial" \in mode' PROVE InTurn'
  BY DEF SerialInv
<1>1. UNCHANGED mode
  BY DEF Next, vars, Step, Start, InsertFollow, ReadFollow, Read, InsertBlock, ReplaceMute,
         ReadFollows, Erase, Answer, Fail, Deliver, Lose
<1>2. InTurn /\ "serial" \in mode
  BY <1>1 DEF SerialInv
<1>3. CASE UNCHANGED vars
  BY <1>2, <1>3 DEF InTurn, OneBusy, MutedOnce, Ready, Word, Spoken, Busy, Matching, Same,
                    Account, vars
<1>4. ASSUME NEW r \in Requests, NEW o \in Begins \cup Ends, NEW a \in Addresses,
             Start(r, o, a)
      PROVE  InTurn'
  BY <1>2, <1>4, TurnStart DEF Start
<1>5. ASSUME NEW r \in Requests, Step(r) PROVE InTurn'
  BY <1>2, <1>5, TurnInsertFollow, TurnInsertBlock, TurnReplaceMute, TurnReads, TurnErase,
     TurnAnswer, TurnDelivery DEF Step
<1> QED
  BY <1>3, <1>4, <1>5 DEF Next

\* For an owner who waits for each answer, the last request about an account
\* that succeeded says whether it is followed, blocked or muted, whatever fails,
\* for any number of accounts, addresses and requests.
THEOREM LastWordCountsHolds == Spec => []LastWordCounts
<1>1. IInv /\ SerialInv => LastWordCounts
  <2> SUFFICES ASSUME IInv, SerialInv, "serial" \in mode, NEW c \in Accounts,
                      NEW r \in Requests, latest[c] = r
               PROVE  CASE op[r] = "block" -> Matching("block", r) # {}
                                              /\ Matching("follow", r) = {}
                        [] op[r] = "mute" -> \E a \in Addresses :
                               Matching("mute", r) = {a} /\ row["mute"][a] = r
                        [] op[r] = "follow" -> Matching("follow", r) # {}
                        [] OTHER -> ~(Matching(EndedTable(op[r]), r) # {})
    BY DEF LastWordCounts
  <2>1. Word(r)
    BY DEF SerialInv, InTurn, Spoken
  <2> QED
    BY <2>1 DEF Word
<1>2. IInv /\ SerialInv /\ [Next]_vars => SerialInv'
  BY SerialStep
<1> QED
  BY <1>1, <1>2, SerialInit, InvariantHolds, PTL DEF Spec

-----------------------------------------------------------------------------
(* What the other server knows.                                            *)

\* The rows of account c, and whether its server knows of them.
FollowRows(c)   == {row["follow"][b] : b \in {a \in Addresses : AccountOf[a] = c}} \ {None}
BlockKnown(c)   == theirs[c].blocked = (\E a \in Addresses :
                                            AccountOf[a] = c /\ row["block"][a] # None)
FollowKnown(c)  == \/ {theirs[c].follow} \ {None} = FollowRows(c)
                   \/ EndedInSilence(theirs[c].follow)

\* What a request has changed, and what its task is for.
Changes(r) ==
    /\ at[r] \in {"idle", "insertFollow", "readFollow", "read", "insertBlock"} => ~fresh[r]
    /\ at[r] \in {"idle", "readFollow"} => follow[r] = None
    /\ fresh[r] => op[r] \in {"follow", "block", "unblock"}
    /\ task[r] = "pending" => fresh[r] \/ op[r] = "unfollow"

\* What the server of a busy request knows: a block is told of when the request
\* is fresh; so is a follow, which is then the only one; the follow that the
\* server knows is among those that an unfollow or a block ends.
OwedBlock(r) == \/ fresh[r] /\ op[r] \in {"block", "unblock"}
                \/ BlockKnown(Account(r))

OwedFollow(r) ==
    LET known == theirs[Account(r)].follow
    IN  CASE op[r] = "follow" /\ fresh[r] -> FollowRows(Account(r)) = {r}
          [] op[r] = "unfollow" /\ at[r] # "readFollow" ->
                 known \in {None, follow[r]} \/ EndedInSilence(known)
          [] op[r] = "block" -> known \in {None} \cup before[r] \/ EndedInSilence(known)
          [] OTHER -> FollowKnown(Account(r))

Agreed ==
    /\ \A r \in Requests : Changes(r)
    /\ \A r \in Requests : Busy(r) => OwedBlock(r) /\ OwedFollow(r)
    /\ \A c \in Accounts : (\A r \in Requests : Busy(r) => Account(r) # c)
                               => BlockKnown(c) /\ FollowKnown(c)

CalmInv == mode = {"serial"} => Agreed

LEMMA CalmInit == Init => CalmInv
<1> SUFFICES ASSUME Init PROVE Agreed
  BY DEF CalmInv
<1>1. \A r \in Requests : Changes(r) /\ ~Busy(r)
  BY DEF Init, Changes, Busy, Running
<1>2. ASSUME NEW c \in Accounts PROVE BlockKnown(c) /\ FollowKnown(c)
  <2>1. \A a \in Addresses : row["follow"][a] = None /\ row["block"][a] = None
    BY DEF Init, Tables
  <2>2. theirs[c].follow = None /\ theirs[c].blocked = FALSE
    BY DEF Init
  <2>3. FollowRows(c) = {}
    BY <2>1 DEF FollowRows
  <2>4. BlockKnown(c)
    BY <2>1, <2>2 DEF BlockKnown
  <2> QED
    BY <2>2, <2>3, <2>4 DEF FollowKnown
<1> QED
  BY <1>1, <1>2 DEF Agreed

\* What has been done stays as it was.
Kept == \A q \in Requests : at[q] = "done" => /\ at'[q] = "done" /\ op'[q] = op[q]
                                              /\ fresh'[q] = fresh[q]
                                              /\ before'[q] = before[q]

LEMMA SilenceLasts == ASSUME Kept, NEW f, EndedInSilence(f) PROVE EndedInSilence(f)'
BY DEF Kept, EndedInSilence

\* The rows of an account and what its server knows stay, and agree as before.
LEMMA BlockStays ==
    ASSUME NEW c, theirs'[c].blocked = theirs[c].blocked,
           \A a \in Addresses : AccountOf[a] = c => row'["block"][a] = row["block"][a]
    PROVE  BlockKnown(c) => BlockKnown(c)'
BY DEF BlockKnown

LEMMA FollowStays ==
    ASSUME NEW c, theirs'[c].follow = theirs[c].follow, Kept,
           \A a \in Addresses : AccountOf[a] = c => row'["follow"][a] = row["follow"][a]
    PROVE  FollowRows(c)' = FollowRows(c) /\ (FollowKnown(c) => FollowKnown(c)')
<1>1. FollowRows(c)' = FollowRows(c)
  BY DEF FollowRows
<1>2. EndedInSilence(theirs[c].follow) => EndedInSilence(theirs[c].follow)'
  BY SilenceLasts DEF Kept, EndedInSilence
<1> QED
  BY <1>1, <1>2 DEF FollowKnown

\* A busy request goes on, and what it owes its server is known or done.
LEMMA CalmStep ==
    ASSUME IInv, InTurn, Agreed, NEW r \in Requests, Busy(r),
           UNCHANGED <<op, addr, before>>,
           \A q \in Requests \ {r} : /\ at'[q] = at[q] /\ fresh'[q] = fresh[q]
                                     /\ follow'[q] = follow[q] /\ task'[q] = task[q],
           at[r] = "done" => at'[r] = "done" /\ fresh'[r] = fresh[r],
           \A c \in Accounts \ {Account(r)} : theirs'[c] = theirs[c],
           \A t \in Tables, a \in Addresses \ Same(r) : row'[t][a] = row[t][a],
           Changes(r)',
           Busy(r)' => OwedBlock(r)' /\ OwedFollow(r)',
           ~Busy(r)' => BlockKnown(Account(r))' /\ FollowKnown(Account(r))'
    PROVE  Agreed'
<1>1. Kept
  BY DEF Kept
<1>2. \A q \in Requests \ {r} : ~Busy(q) /\ ~Busy(q)' /\ Changes(q)'
  <2>1. \A q \in Requests \ {r} : ~Busy(q) /\ Changes(q)
    BY DEF InTurn, OneBusy, Agreed
  <2> QED
    BY <2>1 DEF Busy, Changes
<1>3. ASSUME NEW c \in Accounts, \A q \in Requests : Busy(q)' => Account(q)' # c
      PROVE  BlockKnown(c)' /\ FollowKnown(c)'
  <2>1. CASE c = Account(r)
    <3>1. ~Busy(r)' /\ c = Account(r)'
      BY <1>3, <2>1 DEF Account
    <3> QED
      BY ZenonT(30), <2>1, <3>1 DEF Account, BlockKnown, FollowKnown, FollowRows
  <2>2. CASE c # Account(r)
    <3>1. BlockKnown(c) /\ FollowKnown(c)
      BY <1>2, <2>2 DEF Agreed
    <3>2. /\ theirs'[c] = theirs[c]
          /\ \A t \in Tables, a \in Addresses : AccountOf[a] = c => row'[t][a] = row[t][a]
      BY <2>2 DEF Same
    <3>3. \A a \in Addresses : AccountOf[a] = c =>
              row'["follow"][a] = row["follow"][a] /\ row'["block"][a] = row["block"][a]
      BY <3>2 DEF Tables
    <3> QED
      BY <1>1, <3>1, <3>2, <3>3, BlockStays, FollowStays
  <2> QED
    BY <2>1, <2>2
<1> QED
  BY <1>2, <1>3 DEF Agreed

LEMMA CalmInsertFollow ==
    ASSUME IInv, InTurn, Agreed, NEW r \in Requests, InsertFollow(r) PROVE Agreed'
<1> DEFINE c == Account(r)
<1>1. /\ TypeOK /\ op[r] = "follow" /\ at[r] = "insertFollow" /\ Busy(r) /\ c \in Accounts
      /\ Changes(r) /\ OwedBlock(r) /\ OwedFollow(r) /\ task[r] = "none"
  BY Types, ConstantsAssumption
     DEF IInv, Phase, InsertFollow, Agreed, Busy, Running, TypeOK, Account
<1>2. /\ at'[r] = "answer" /\ \A q \in Requests \ {r} : at'[q] = at[q] /\ fresh'[q] = fresh[q]
      /\ UNCHANGED <<op, addr, found, follow, task, theirs, before>>
  BY <1>1 DEF InsertFollow, Goto, TypeOK
<1>3. Kept /\ c' = c
  BY <1>1, <1>2 DEF Kept, Account
<1>4. addr[r] \in Addresses /\ AccountOf[addr[r]] = c /\ "follow" \in Tables /\ "block" \in Tables
  BY <1>1, Types DEF Account
<1>5. BlockKnown(c)
  BY <1>1 DEF OwedBlock
<1>6. CASE UNCHANGED <<row, fresh>>
  <2>1. FollowKnown(c)
    BY <1>1 DEF OwedFollow, Changes
  <2>2. FollowKnown(c)' /\ BlockKnown(c)'
    BY <1>2, <1>3, <1>5, <1>6, <2>1, FollowStays, BlockStays
  <2>3. ~fresh'[r]
    BY <1>1, <1>6 DEF Changes
  <2>4. Changes(r)'
    BY <1>1, <1>2, <2>3 DEF Changes
  <2>5. OwedBlock(r)' /\ OwedFollow(r)'
    BY <1>1, <1>2, <2>2, <2>3 DEF OwedBlock, OwedFollow
  <2> QED
    BY <1>1, <1>2, <1>6, <2>4, <2>5, CalmStep DEF Busy, Running
<1>7. CASE /\ Matching("follow", r) = {}
           /\ row' = [row EXCEPT !["follow"][addr[r]] = r]
           /\ fresh' = [fresh EXCEPT ![r] = TRUE]
  <2>1. \A t \in Tables, a \in Addresses :
            row'[t][a] = IF t = "follow" /\ a = addr[r] THEN r ELSE row[t][a]
    <3>1. r \in Requests \cup {None}
      OBVIOUS
    <3> QED
      BY ZenonT(30), <1>1, <1>4, <1>7, <3>1, Put
  <2>2. \A a \in Addresses : AccountOf[a] = c => row["follow"][a] = None
    BY <1>7 DEF Matching, Same
  <2>3. FollowRows(c)' = {r}
    <3>1. FollowRows(c)' = {row'["follow"][b] : b \in {a \in Addresses : AccountOf[a] = c}} \ {None}
      BY <1>3 DEF FollowRows
    <3>2. \A b \in {a \in Addresses : AccountOf[a] = c} :
              row'["follow"][b] = IF b = addr[r] THEN r ELSE None
      BY <1>4, <2>1, <2>2
    <3>3. addr[r] \in {a \in Addresses : AccountOf[a] = c} /\ r # None
      BY <1>4, ConstantsAssumption
    <3> HIDE DEF c
    <3> QED
      BY <3>1, <3>2, <3>3
  <2>4. BlockKnown(c)'
    <3>1. \A a \in Addresses : row'["block"][a] = row["block"][a]
      BY <1>4, <2>1
    <3> QED
      BY <1>2, <1>3, <1>5, <3>1, BlockStays
  <2>5. fresh'[r]
    BY <1>1, <1>7 DEF TypeOK
  <2>6. Changes(r)'
    BY <1>1, <1>2, <2>5 DEF Changes
  <2>7. OwedBlock(r)' /\ OwedFollow(r)'
    BY <1>1, <1>2, <2>3, <2>4, <2>5 DEF OwedBlock, OwedFollow
  <2>8. \A t \in Tables, a \in Addresses \ Same(r) : row'[t][a] = row[t][a]
    BY <1>4, <2>1 DEF Same
  <2> QED
    BY <1>1, <1>2, <2>6, <2>7, <2>8, CalmStep DEF Busy, Running
<1> QED
  BY <1>6, <1>7 DEF InsertFollow

\* What reads only, and what writes mutes, is of no concern to the server.
LEMMA CalmReads ==
    ASSUME IInv, InTurn, Agreed, NEW r \in Requests,
           Read(r) \/ ReadFollows(r) \/ ReplaceMute(r)
    PROVE  Agreed'
<1> DEFINE c == Account(r)
<1>1. /\ TypeOK /\ Phase(r) /\ Busy(r) /\ Changes(r) /\ OwedBlock(r) /\ OwedFollow(r)
      /\ at[r] \in {"read", "readFollows", "replaceMute"} /\ c \in Accounts
      /\ task[r] = "none"
  BY Types, ConstantsAssumption
     DEF IInv, Read, ReadFollows, ReplaceMute, Agreed, Busy, Running, Account, Phase, TypeOK
<1>2. UNCHANGED <<op, addr, follow, fresh, task, theirs, before>>
  BY DEF Read, ReadFollows, ReplaceMute
<1>3. /\ \A q \in Requests \ {r} : at'[q] = at[q]
      /\ at'[r] \in {"erase", "replaceMute", "insertBlock", "readFollows", "answer"}
      /\ at'[r] = "insertBlock" => at[r] = "read"
  BY <1>1 DEF Read, ReadFollows, ReplaceMute, Goto, TypeOK
<1>4. /\ \A a \in Addresses : row'["follow"][a] = row["follow"][a]
                              /\ row'["block"][a] = row["block"][a]
      /\ \A t \in Tables, a \in Addresses \ Same(r) : row'[t][a] = row[t][a]
  <2>1. CASE UNCHANGED row
    BY <2>1
  <2>2. CASE ReplaceMute(r)
    <3>1. addr[r] \in Same(r) /\ found[r] \subseteq Same(r) /\ Same(r) \subseteq Addresses
          /\ "mute" \in Tables /\ "follow" \in Tables /\ "block" \in Tables
      BY <1>1, <2>2, Types DEF ReplaceMute, Phase, Same, Account
    <3>2. PICK a \in Same(r) : row' = [row EXCEPT !["mute"][a] = r]
      BY <2>2, <3>1 DEF ReplaceMute
    <3>3. r \in Requests \cup {None} /\ a \in Addresses
      BY <3>1
    <3>4. \A t \in Tables, b \in Addresses :
              row'[t][b] = IF t = "mute" /\ b = a THEN r ELSE row[t][b]
      BY ZenonT(30), <1>1, <3>1, <3>2, <3>3, Put
    <3> QED
      BY <3>1, <3>4
  <2> QED
    BY <2>1, <2>2 DEF Read, ReadFollows
<1>5. Kept /\ c' = c
  BY <1>1, <1>2, <1>3 DEF Kept, Account
<1>6. /\ BlockKnown(c) => BlockKnown(c)'
      /\ FollowRows(c)' = FollowRows(c)
      /\ FollowKnown(c) => FollowKnown(c)'
      /\ EndedInSilence(theirs[c].follow) => EndedInSilence(theirs[c].follow)'
  BY <1>2, <1>4, <1>5, BlockStays, FollowStays, SilenceLasts DEF EndedInSilence
<1>7. Changes(r)'
  BY <1>1, <1>2, <1>3 DEF Changes
<1>8. OwedBlock(r)'
  BY <1>1, <1>2, <1>5, <1>6 DEF OwedBlock
<1>9. op[r] = "unfollow" => at[r] # "readFollow" /\ at'[r] # "readFollow"
  BY <1>1, <1>3
<1>10. OwedFollow(r)'
  <2>1. CASE op[r] = "follow"
    BY <1>1, <1>2, <1>6, <2>1 DEF OwedFollow, Account
  <2>2. CASE op[r] = "unfollow"
    BY <1>1, <1>2, <1>6, <1>9, <2>2 DEF OwedFollow, Account
  <2>3. CASE op[r] = "block"
    BY <1>1, <1>2, <1>6, <2>3 DEF OwedFollow, Account
  <2>4. CASE op[r] \notin {"follow", "unfollow", "block"}
    BY <1>1, <1>2, <1>6, <2>4 DEF OwedFollow, Account
  <2> QED
    BY <2>1, <2>2, <2>3, <2>4
<1> QED
  BY <1>1, <1>2, <1>3, <1>4, <1>7, <1>8, <1>10, CalmStep DEF Busy, Running

\* An unfollow has read the follow that the server may know.
LEMMA CalmReadFollow ==
    ASSUME IInv, InTurn, Agreed, NEW r \in Requests, ReadFollow(r) PROVE Agreed'
<1> DEFINE c == Account(r)
<1>1. /\ TypeOK /\ Busy(r) /\ Changes(r) /\ OwedBlock(r) /\ OwedFollow(r)
      /\ op[r] = "unfollow" /\ at[r] = "readFollow" /\ c \in Accounts /\ FollowedOnce
      /\ task[r] = "none"
  BY Types, ConstantsAssumption
     DEF IInv, ReadFollow, Agreed, Busy, Running, Account, Phase, TypeOK
<1>2. UNCHANGED <<row, op, addr, fresh, task, theirs, before>>
  BY DEF ReadFollow
<1>3. at'[r] = "readFollows" /\ \A q \in Requests \ {r} : at'[q] = at[q] /\ follow'[q] = follow[q]
  BY <1>1 DEF ReadFollow, Goto, TypeOK
<1>4. Kept /\ c' = c
  BY <1>1, <1>2, <1>3 DEF Kept, Account
<1>5. BlockKnown(c) /\ FollowKnown(c)
  BY <1>1 DEF OwedBlock, OwedFollow, Changes
<1>6. BlockKnown(c)' /\ (EndedInSilence(theirs[c].follow) => EndedInSilence(theirs[c].follow)')
  BY <1>2, <1>4, <1>5, BlockStays, SilenceLasts DEF EndedInSilence
<1>7. Changes(r)'
  BY <1>1, <1>2, <1>3 DEF Changes
<1>8. FollowRows(c) \subseteq {follow'[r]} /\ None \notin FollowRows(c)
  <2>1. CASE Matching("follow", r) = {}
    BY <2>1 DEF Matching, Same, FollowRows
  <2>2. CASE \E a \in Matching("follow", r) : follow' = [follow EXCEPT ![r] = row["follow"][a]]
    <3>1. PICK a \in Matching("follow", r) : follow' = [follow EXCEPT ![r] = row["follow"][a]]
      BY <2>2
    <3>2. follow'[r] = row["follow"][a] /\ a \in Addresses /\ AccountOf[a] = c
      <4>1. a \in Addresses /\ AccountOf[a] = c
        BY DEF Matching, Same
      <4> QED
        BY <1>1, <3>1, <4>1, Types DEF TypeOK
    <3>3. \A b \in Addresses : AccountOf[b] = c /\ row["follow"][b] # None => b = a
      BY <1>1, <3>2 DEF FollowedOnce, Matching
    <3> QED
      BY <3>2, <3>3 DEF FollowRows
  <2> QED
    BY <2>1, <2>2 DEF ReadFollow
<1>9. theirs[c].follow \in {None, follow'[r]} \/ EndedInSilence(theirs[c].follow)
  BY <1>5, <1>8 DEF FollowKnown
<1>10. OwedBlock(r)' /\ OwedFollow(r)'
  BY <1>1, <1>2, <1>3, <1>6, <1>9 DEF OwedBlock, OwedFollow, Account
<1> QED
  BY <1>1, <1>2, <1>3, <1>7, <1>10, CalmStep DEF Busy, Running

\* A block that waited its turn is inserted.
LEMMA CalmInsertBlock ==
    ASSUME IInv, InTurn, Agreed, NEW r \in Requests, InsertBlock(r) PROVE Agreed'
<1> DEFINE c == Account(r)
<1>1. /\ TypeOK /\ Busy(r) /\ Changes(r) /\ OwedFollow(r) /\ Ready(r)
      /\ op[r] = "block" /\ at[r] = "insertBlock" /\ c \in Accounts /\ task[r] = "none"
      /\ addr[r] \in Addresses /\ AccountOf[addr[r]] = c /\ "follow" \in Tables
      /\ "block" \in Tables
  BY Types, ConstantsAssumption
     DEF IInv, InTurn, InsertBlock, Agreed, Busy, Running, Account, Phase, TypeOK
<1>2. row["block"][addr[r]] = None
  BY <1>1 DEF Ready, Matching, Same
<1>3. /\ UNCHANGED <<op, addr, found, follow, task, theirs, before>>
      /\ row' = [row EXCEPT !["block"][addr[r]] = r]
      /\ fresh'[r] = TRUE /\ at'[r] = "readFollows"
      /\ \A q \in Requests \ {r} : at'[q] = at[q] /\ fresh'[q] = fresh[q]
  BY <1>1, <1>2 DEF InsertBlock, Goto, TypeOK
<1>4. \A t \in Tables, a \in Addresses :
          row'[t][a] = IF t = "block" /\ a = addr[r] THEN r ELSE row[t][a]
  <2>1. r \in Requests \cup {None}
    OBVIOUS
  <2> QED
    BY <1>1, <1>3, <2>1, Put
<1>5. Kept /\ c' = c
  BY <1>1, <1>3 DEF Kept, Account
<1>6. EndedInSilence(theirs[c].follow) => EndedInSilence(theirs[c].follow)'
  BY <1>3, <1>5, SilenceLasts DEF EndedInSilence
<1>7. Changes(r)'
  BY <1>1, <1>3 DEF Changes
<1>8. OwedBlock(r)' /\ OwedFollow(r)'
  BY <1>1, <1>3, <1>6 DEF OwedBlock, OwedFollow, Account
<1>9. \A t \in Tables, a \in Addresses \ Same(r) : row'[t][a] = row[t][a]
  BY <1>1, <1>4 DEF Same
<1> QED
  BY <1>1, <1>3, <1>7, <1>8, <1>9, CalmStep DEF Busy, Running

\* A row that is deleted is owed to the server, or of no concern to it.
LEMMA CalmErase ==
    ASSUME IInv, InTurn, Agreed, NEW r \in Requests, Erase(r) PROVE Agreed'
<1> DEFINE c == Account(r)
           t == EndedTable(op[r])
<1>1. /\ TypeOK /\ Busy(r) /\ Changes(r) /\ OwedBlock(r) /\ OwedFollow(r) /\ EndsRows(r)
      /\ at[r] = "erase" /\ c \in Accounts /\ task[r] = "none" /\ t \in Tables
      /\ found[r] = Matching(t, r) /\ "follow" \in Tables /\ "block" \in Tables
  BY Types, ConstantsAssumption
     DEF IInv, InTurn, Ready, Erase, Agreed, Busy, Running, Account, Phase, TypeOK
<1>2. UNCHANGED <<op, addr, at, follow, task, theirs, before>>
  BY DEF Erase
<1>3. PICK a \in found[r] :
          /\ row' = [row EXCEPT ![t][a] = None]
          /\ fresh' = [fresh EXCEPT ![r] = @ \/ (op[r] = "unblock" /\ row[t][a] # None)]
  BY DEF Erase
<1>4. a \in Addresses /\ AccountOf[a] = c /\ row[t][a] # None
  BY <1>1 DEF Matching, Same
<1>5. \A u \in Tables, b \in Addresses :
          row'[u][b] = IF u = t /\ b = a THEN None ELSE row[u][b]
  BY ZenonT(30), <1>1, <1>3, <1>4, Put
<1>6. /\ fresh'[r] = (fresh[r] \/ op[r] = "unblock")
      /\ \A q \in Requests \ {r} : fresh'[q] = fresh[q]
  <2>1. (row[t][a] # None) = TRUE
    BY <1>4
  <2> QED
    BY <1>1, <1>3, <2>1 DEF TypeOK
<1>7. Kept /\ c' = c
  BY <1>1, <1>2, <1>6 DEF Kept, Account
<1>8. Changes(r)'
  BY <1>1, <1>2, <1>6 DEF Changes
<1>9. EndedInSilence(theirs[c].follow) => EndedInSilence(theirs[c].follow)'
  BY <1>2, <1>7, SilenceLasts DEF EndedInSilence
<1>10. OwedBlock(r)'
  <2>1. CASE op[r] = "unblock"
    BY <1>2, <1>6, <2>1 DEF OwedBlock
  <2>2. CASE op[r] # "unblock"
    <3>1. t # "block"
      BY <2>2, Zenon DEF EndedTable
    <3>2. \A b \in Addresses : row'["block"][b] = row["block"][b]
      BY <1>1, <1>5, <3>1
    <3>3. BlockKnown(c) => BlockKnown(c)'
      BY <1>2, <1>7, <3>2, BlockStays
    <3> QED
      BY <1>1, <1>2, <1>6, <1>7, <2>2, <3>3 DEF OwedBlock
  <2> QED
    BY <2>1, <2>2
<1>11. OwedFollow(r)'
  <2>1. CASE op[r] = "unfollow"
    BY <1>1, <1>2, <1>9, <2>1 DEF OwedFollow, Account
  <2>2. CASE op[r] = "block"
    BY <1>1, <1>2, <1>9, <2>2 DEF OwedFollow, Account
  <2>3. CASE op[r] \in {"unblock", "unmute"}
    <3>1. t # "follow"
      BY <2>3, Zenon DEF EndedTable
    <3>2. \A b \in Addresses : row'["follow"][b] = row["follow"][b]
      BY <1>1, <1>5, <3>1
    <3>3. FollowKnown(c) => FollowKnown(c)'
      BY <1>2, <1>7, <3>2, FollowStays
    <3> QED
      BY <1>1, <1>2, <1>7, <2>3, <3>3 DEF OwedFollow
  <2> QED
    BY <1>1, <2>1, <2>2, <2>3 DEF EndsRows, Ends
<1>12. \A u \in Tables, b \in Addresses \ Same(r) : row'[u][b] = row[u][b]
  BY <1>4, <1>5 DEF Same
<1> QED
  BY <1>1, <1>2, <1>6, <1>8, <1>10, <1>11, <1>12, CalmStep DEF Busy, Running

\* A request that answers without a task has left nothing to tell.
LEMMA CalmAnswer ==
    ASSUME IInv, InTurn, Agreed, NEW r \in Requests, Answer(r) PROVE Agreed'
<1> DEFINE c == Account(r)
<1>1. /\ TypeOK /\ Phase(r) /\ Busy(r) /\ Changes(r) /\ OwedBlock(r) /\ OwedFollow(r)
      /\ at[r] \in {"answer", "erase"} /\ c \in Accounts /\ op[r] \in Begins \cup Ends
  BY Types, ConstantsAssumption DEF IInv, Answer, Agreed, Busy, Running, Account
<1>2. /\ UNCHANGED <<row, op, addr, found, follow, fresh, theirs, before>>
      /\ at'[r] = "done" /\ task'[r] = IF Tells(r) THEN "pending" ELSE "none"
      /\ \A q \in Requests \ {r} : at'[q] = at[q] /\ task'[q] = task[q]
      /\ latest'[c] = r
  BY <1>1 DEF Answer, Goto, TypeOK
<1>3. Kept /\ c' = c
  BY <1>1, <1>2 DEF Kept, Account
<1>4. Word(r)
  <2>1. InTurn'
    BY TurnAnswer
  <2>2. Word(r)'
    BY <1>1, <1>2, <2>1 DEF InTurn, Spoken
  <2> QED
    BY <1>2, <2>2 DEF Word, Matching, Same, Account
<1>5. /\ BlockKnown(c) => BlockKnown(c)'
      /\ FollowRows(c)' = FollowRows(c)
      /\ FollowKnown(c) => FollowKnown(c)'
      /\ EndedInSilence(theirs[c].follow) => EndedInSilence(theirs[c].follow)'
  BY <1>2, <1>3, BlockStays, FollowStays, SilenceLasts DEF EndedInSilence
<1>6. Changes(r)'
  BY <1>1, <1>2 DEF Changes, Tells
<1>7. OwedBlock(r)'
  BY <1>1, <1>2, <1>3, <1>5 DEF OwedBlock
<1>8. op[r] = "unfollow" => at[r] # "readFollow" /\ at'[r] # "readFollow"
  BY <1>1, <1>2
<1>9. OwedFollow(r)'
  <2>1. CASE op[r] = "follow"
    BY <1>1, <1>2, <1>5, <2>1 DEF OwedFollow, Account
  <2>2. CASE op[r] = "unfollow"
    BY <1>1, <1>2, <1>5, <1>8, <2>2 DEF OwedFollow, Account
  <2>3. CASE op[r] = "block"
    BY <1>1, <1>2, <1>5, <2>3 DEF OwedFollow, Account
  <2>4. CASE op[r] \notin {"follow", "unfollow", "block"}
    BY <1>1, <1>2, <1>5, <2>4 DEF OwedFollow, Account
  <2> QED
    BY <2>1, <2>2, <2>3, <2>4
<1>10. ASSUME ~Tells(r) PROVE BlockKnown(c)' /\ FollowKnown(c)'
  <2>1. BlockKnown(c)'
    BY <1>1, <1>5, <1>10 DEF OwedBlock, Tells
  <2>2. CASE op[r] = "unfollow"
    <3>1. theirs[c].follow \in {None, follow[r]} \/ EndedInSilence(theirs[c].follow)
      BY <1>1, <2>2 DEF OwedFollow
    <3>2. follow[r] = None /\ Matching("follow", r) = {}
      <4>1. EndedTable(op[r]) = "follow"
        BY <2>2, Zenon DEF EndedTable
      <4> QED
        BY <1>4, <1>10, <2>2, <4>1 DEF Word, Tells
    <3>3. FollowRows(c) = {}
      BY <3>2 DEF Matching, Same, FollowRows
    <3>4. FollowKnown(c)
      BY <3>1, <3>2, <3>3 DEF FollowKnown
    <3> QED
      BY <1>5, <2>1, <3>4
  <2>3. CASE op[r] = "block"
    <3>1. theirs[c].follow \in {None} \cup before[r] \/ EndedInSilence(theirs[c].follow)
      BY <1>1, <2>3 DEF OwedFollow
    <3>2. FollowRows(c) = {}
      BY <1>4, <2>3 DEF Word, Matching, Same, FollowRows
    <3>3. ~fresh[r]
      BY <1>10, <2>3 DEF Tells
    <3>4. CASE theirs[c].follow = None
      BY <1>5, <2>1, <3>2, <3>4 DEF FollowKnown
    <3>5. CASE theirs[c].follow \in before[r]
      <4>1. EndedInSilence(theirs[c].follow)'
        BY <1>2, <1>3, <2>3, <3>3, <3>5 DEF EndedInSilence
      <4> QED
        BY <2>1, <4>1 DEF FollowKnown
    <3>6. CASE EndedInSilence(theirs[c].follow)
      BY <1>5, <2>1, <3>6 DEF FollowKnown
    <3> QED
      BY <3>1, <3>4, <3>5, <3>6
  <2>4. CASE op[r] \notin {"unfollow", "block"}
    <3>1. ~fresh[r]
      BY <1>10, <2>4 DEF Tells
    <3>2. FollowKnown(c)
      BY <1>1, <2>4, <3>1 DEF OwedFollow
    <3> QED
      BY <1>5, <2>1, <3>2
  <2> QED
    BY <2>2, <2>3, <2>4
<1>11. ~Busy(r)' => BlockKnown(c)' /\ FollowKnown(c)'
  BY <1>2, <1>10 DEF Busy
<1> QED
  BY <1>1, <1>2, <1>6, <1>7, <1>9, <1>11, CalmStep DEF Running

\* A delivery brings the server up to date.
LEMMA CalmDeliver ==
    ASSUME IInv, InTurn, Agreed, NEW r \in Requests, Deliver(r) PROVE Agreed'
<1> DEFINE c == Account(r)
<1>1. /\ TypeOK /\ Phase(r) /\ Busy(r) /\ Changes(r) /\ OwedBlock(r) /\ OwedFollow(r)
      /\ at[r] = "done" /\ c \in Accounts /\ task[r] = "pending"
      /\ latest[c] = r
  BY Types, ConstantsAssumption
     DEF IInv, InTurn, Deliver, Agreed, Busy, Account, Phase
<1>2. /\ UNCHANGED <<row, op, addr, at, found, follow, fresh, before>>
      /\ task'[r] = "over"
      /\ \A q \in Requests \ {r} : task'[q] = task[q]
      /\ theirs'[c] = Received(r, theirs[c])
      /\ \A d \in Accounts \ {c} : theirs'[d] = theirs[d]
  BY <1>1 DEF Deliver, TypeOK
<1>3. Kept /\ c' = c
  BY <1>2 DEF Kept, Account
<1>4. Word(r)
  BY <1>1 DEF InTurn, Spoken
<1>5. /\ theirs[c].follow \in Requests \cup {None} /\ theirs[c].blocked \in BOOLEAN
      /\ theirs[c] = [follow |-> theirs[c].follow, blocked |-> theirs[c].blocked]
  BY <1>1 DEF TypeOK
<1>6. FollowRows(c)' = FollowRows(c)
  BY <1>2, <1>3 DEF FollowRows
<1>7. EndedInSilence(theirs[c].follow) /\ theirs'[c].follow = theirs[c].follow
          => EndedInSilence(theirs[c].follow)'
  BY <1>3, SilenceLasts DEF EndedInSilence, Kept
<1>8. BlockKnown(c)' /\ FollowKnown(c)'
  <2>1. CASE op[r] = "follow"
    <3>1. /\ theirs'[c].follow = r /\ theirs'[c].blocked = theirs[c].blocked
          /\ fresh[r] /\ r # None
      BY <1>1, <1>2, <1>5, <2>1, ConstantsAssumption DEF Received, Changes
    <3>2. BlockKnown(c) /\ FollowRows(c) = {r}
      BY <1>1, <2>1, <3>1 DEF OwedBlock, OwedFollow
    <3> QED
      BY <1>2, <1>3, <1>6, <3>1, <3>2, BlockStays DEF FollowKnown
  <2>2. CASE op[r] = "unfollow"
    <3>1. /\ theirs'[c].follow = IF theirs[c].follow = follow[r] THEN None ELSE theirs[c].follow
          /\ theirs'[c].blocked = theirs[c].blocked
      BY <1>2, <1>5, <2>2 DEF Received
    <3>2. /\ BlockKnown(c)
          /\ theirs[c].follow \in {None, follow[r]} \/ EndedInSilence(theirs[c].follow)
      BY <1>1, <2>2 DEF OwedBlock, OwedFollow
    <3>3. FollowRows(c) = {}
      <4>1. EndedTable(op[r]) = "follow"
        BY <2>2, Zenon DEF EndedTable
      <4> QED
        BY <1>4, <2>2, <4>1 DEF Word, Matching, Same, FollowRows
    <3>4. BlockKnown(c)'
      BY <1>2, <1>3, <3>1, <3>2, BlockStays
    <3>5. CASE theirs'[c].follow = None
      BY <1>3, <1>6, <3>3, <3>4, <3>5 DEF FollowKnown
    <3>6. CASE theirs'[c].follow # None
      <4>1. theirs'[c].follow = theirs[c].follow /\ EndedInSilence(theirs[c].follow)
        BY <3>1, <3>2, <3>6
      <4> QED
        BY <1>7, <3>4, <4>1 DEF FollowKnown
    <3> QED
      BY <3>5, <3>6
  <2>3. CASE op[r] = "block"
    <3>1. theirs'[c].follow = None /\ theirs'[c].blocked = TRUE
      BY <1>2, <2>3 DEF Received
    <3>2. FollowRows(c) = {} /\ \E a \in Addresses : AccountOf[a] = c /\ row["block"][a] # None
      BY <1>4, <2>3 DEF Word, Matching, Same, FollowRows
    <3> QED
      BY <1>2, <1>3, <1>6, <3>1, <3>2 DEF BlockKnown, FollowKnown
  <2>4. CASE op[r] = "unblock"
    <3>1. theirs'[c].follow = theirs[c].follow /\ theirs'[c].blocked = FALSE
      BY <1>2, <1>5, <2>4 DEF Received
    <3>2. \A a \in Addresses : AccountOf[a] = c => row["block"][a] = None
      <4>1. EndedTable(op[r]) = "block"
        BY <2>4, Zenon DEF EndedTable
      <4> QED
        BY <1>4, <2>4, <4>1 DEF Word, Matching, Same
    <3>3. FollowKnown(c)
      BY <1>1, <2>4 DEF OwedFollow
    <3>4. FollowKnown(c)'
      BY <1>2, <1>3, <3>1, <3>3, FollowStays
    <3> QED
      BY <1>2, <1>3, <3>1, <3>2, <3>4 DEF BlockKnown
  <2> QED
    BY <1>1, <2>1, <2>2, <2>3, <2>4 DEF Changes
<1>9. Changes(r)' /\ ~Busy(r)'
  BY <1>1, <1>2 DEF Changes, Busy, Running
<1> QED
  BY <1>1, <1>2, <1>8, <1>9, CalmStep

LEMMA CalmStart ==
    ASSUME IInv, InTurn, Agreed, Settled, NEW r \in Requests, NEW o \in Begins \cup Ends,
           NEW a \in Addresses, Start(r, o, a)
    PROVE  Agreed'
<1> DEFINE c == AccountOf[a]
<1>1. TypeOK /\ at[r] = "idle" /\ c \in Accounts /\ Changes(r)
  BY ConstantsAssumption DEF IInv, Agreed, Start
<1>2. /\ op'[r] = o /\ addr'[r] = a /\ at'[r] = FirstStep(o)
      /\ \A q \in Requests \ {r} : /\ op'[q] = op[q] /\ addr'[q] = addr[q] /\ at'[q] = at[q]
                                   /\ before'[q] = before[q]
      /\ UNCHANGED <<row, found, follow, fresh, task, theirs>>
  BY <1>1 DEF Start, TypeOK
<1>3. Kept
  BY <1>1, <1>2 DEF Kept
<1>4. \A q \in Requests : ~Busy(q) /\ (Busy(q)' => q = r)
  BY <1>2 DEF Settled, Busy
<1>5. \A d \in Accounts : BlockKnown(d)' /\ FollowKnown(d)'
  <2>1. \A d \in Accounts : BlockKnown(d) /\ FollowKnown(d)
    BY <1>4 DEF Agreed
  <2> QED
    BY <1>2, <1>3, <2>1, BlockStays, FollowStays
<1>6. FirstStep(o) \in {"insertFollow", "readFollow", "read"}
      /\ (o = "unfollow" => FirstStep(o) = "readFollow")
  BY DEF FirstStep
<1>7. ~fresh'[r] /\ follow'[r] = None /\ task'[r] # "pending"
  BY <1>1, <1>2, <1>4 DEF Changes, Busy
<1>8. \A q \in Requests : Changes(q)'
  <2>1. Changes(r)'
    BY <1>2, <1>7 DEF Changes
  <2>2. \A q \in Requests \ {r} : Changes(q)'
    BY <1>2 DEF Changes, Agreed
  <2> QED
    BY <2>1, <2>2
<1>9. Account(r)' = c
  BY <1>2 DEF Account
<1>10. OwedBlock(r)'
  BY <1>1, <1>5, <1>9 DEF OwedBlock
<1>11. OwedFollow(r)'
  <2>1. CASE o = "block"
    <3>1. before'[r] = RowsAbout(EndedTable(o), a)
      BY <1>1, <2>1 DEF Start, TypeOK
    <3>2. EndedTable(o) = "follow"
      BY <2>1, Zenon DEF EndedTable
    <3>3. before'[r] = FollowRows(c)'
      BY <1>2, <3>1, <3>2 DEF RowsAbout, FollowRows
    <3>4. FollowKnown(c)'
      BY <1>1, <1>5
    <3> QED
      BY <1>2, <1>9, <2>1, <3>3, <3>4 DEF OwedFollow, FollowKnown
  <2>2. CASE o # "block"
    BY <1>1, <1>2, <1>5, <1>6, <1>7, <1>9, <2>2 DEF OwedFollow
  <2> QED
    BY <2>1, <2>2
<1> QED
  BY <1>4, <1>5, <1>8, <1>10, <1>11 DEF Agreed

LEMMA CalmNext == IInv /\ SerialInv /\ CalmInv /\ [Next]_vars => CalmInv'
<1> SUFFICES ASSUME IInv, SerialInv, CalmInv, [Next]_vars, mode' = {"serial"} PROVE Agreed'
  BY DEF CalmInv
<1>1. UNCHANGED mode
  BY DEF Next, vars, Step, Start, InsertFollow, ReadFollow, Read, InsertBlock, ReplaceMute,
         ReadFollows, Erase, Answer, Fail, Deliver, Lose
<1>2. InTurn /\ Agreed /\ "serial" \in mode /\ "faulty" \notin mode
  BY <1>1 DEF SerialInv, CalmInv
<1>3. CASE UNCHANGED vars
  <2>1. /\ \A r \in Requests : /\ Changes(r)' = Changes(r) /\ Busy(r)' = Busy(r)
                               /\ Account(r)' = Account(r)
        /\ \A c : BlockKnown(c)' = BlockKnown(c) /\ FollowKnown(c)' = FollowKnown(c)
    BY <1>3 DEF Changes, Busy, BlockKnown, FollowKnown, FollowRows, EndedInSilence, Account, vars
  <2>2. \A r \in Requests : OwedBlock(r)' = OwedBlock(r)
    BY <1>3, <2>1 DEF OwedBlock, vars
  <2>3. \A r \in Requests : OwedFollow(r)' = OwedFollow(r)
    BY <1>3 DEF OwedFollow, FollowKnown, FollowRows, EndedInSilence, Account, vars
  <2> QED
    BY <1>2, <2>1, <2>2, <2>3 DEF Agreed
<1>4. ASSUME NEW r \in Requests, NEW o \in Begins \cup Ends, NEW a \in Addresses,
             Start(r, o, a)
      PROVE  Agreed'
  BY <1>2, <1>4, CalmStart DEF Start
<1>5. ASSUME NEW r \in Requests, Step(r) PROVE Agreed'
  BY <1>2, <1>5, CalmInsertFollow, CalmReadFollow, CalmReads, CalmInsertBlock, CalmErase,
     CalmAnswer, CalmDeliver DEF Step, Fail, Lose
<1> QED
  BY <1>3, <1>4, <1>5 DEF Next

\* When nothing fails and the owner waits, the other server knows at rest whether
\* it is followed and blocked, but for the follows that were ended in silence,
\* for any number of accounts, addresses and requests.
THEOREM ServersAgreeHolds == Spec => []ServersAgree
<1>1. IInv /\ CalmInv => ServersAgree
  <2> SUFFICES ASSUME IInv, Agreed, Settled, NEW r \in Requests, at[r] = "done"
               PROVE  LET known == theirs[Account(r)]
                      IN  /\ known.blocked = (Matching("block", r) # {})
                          /\ \/ {known.follow} \ {None} = RowsAbout("follow", addr[r])
                             \/ EndedInSilence(known.follow)
    BY DEF ServersAgree, CalmInv
  <2>1. Account(r) \in Accounts
    BY Types, ConstantsAssumption DEF IInv, Account
  <2>2. BlockKnown(Account(r)) /\ FollowKnown(Account(r))
    BY <2>1 DEF Agreed, Settled, Busy
  <2>3. RowsAbout("follow", addr[r]) = FollowRows(Account(r))
    BY DEF RowsAbout, FollowRows, Account
  <2>4. theirs[Account(r)].blocked = (Matching("block", r) # {})
    BY <2>2 DEF BlockKnown, Matching, Same
  <2> QED
    BY <2>2, <2>3, <2>4 DEF FollowKnown
<1>2. IInv /\ SerialInv /\ [Next]_vars => SerialInv'
  BY SerialStep
<1>3. IInv /\ SerialInv /\ CalmInv /\ [Next]_vars => CalmInv'
  BY CalmNext
<1> QED
  BY <1>1, <1>2, <1>3, SerialInit, CalmInit, InvariantHolds, PTL DEF Spec
=============================================================================
