---------------------------- MODULE D1SyncProofs -----------------------------
(***************************************************************************)
(* Proofs about D1Sync, for any database, any number of keys kept, and     *)
(* cycles that stop at any step.                                           *)
(*                                                                         *)
(* The argument: outside the rows that went adrift, D1 holds what the last *)
(* upload says of the rows it is about (LastIsRemote), and what the        *)
(* snapshot says of the others (SnapshotIsRemote).  So the statements of a *)
(* diff meet the rows they expect, and a payload with the key of the last  *)
(* upload leads to where D1 already is.                                    *)
(***************************************************************************)
EXTENDS D1Sync, TLAPS

(* What payload p leaves in row r, if it is about r.                       *)
Value(p, r) == IF r \in DOMAIN p.sql THEN p.sql[r].value ELSE Absent

IsUpload(p) == \E old, new \in DBs : p \in {FullDump(new), Diff(old, new)}

Made == IF snapshot = None THEN FullDump(source) ELSE Diff(snapshot, source)

Types ==
    /\ local \in DBs /\ source \in DBs /\ remote \in DBs
    /\ snapshot \in DBs \cup {None}
    /\ last # None => IsUpload(last)

(* The payload is the one made from the snapshot that is in place.         *)
PayloadIsMade == pc \in {"check", "execute"} => payload = Made

LastIsRemote ==
    last # None =>
        \A r \in Touched(last) \ adrift : Canon[Value(last, r)] = Canon[remote[r]]

(* What is about to be the snapshot says what D1 holds.                    *)
SourceIsRemote ==
    pc \in {"promote", "rename"} =>
        \A r \in Rows \ adrift : Canon[source[r]] = Canon[remote[r]]

IInv == Types /\ PayloadIsMade /\ LastIsRemote /\ SnapshotIsRemote /\ SourceIsRemote

-----------------------------------------------------------------------------
(* A diff: what its statements say, and where there are none.              *)
LEMMA DiffSays ==
    ASSUME NEW old \in DBs, NEW new \in DBs
    PROVE  LET p == Diff(old, new)
           IN  /\ p.mode = "diff" /\ Touched(p) = DOMAIN p.sql /\ DOMAIN p.sql \subseteq Rows
               /\ \A r \in DOMAIN p.sql : /\ p.sql[r].value = new[r]
                                          /\ p.sql[r].op = "update" => old[r] # Absent
               /\ \A r \in Rows \ DOMAIN p.sql : new[r] = old[r]
  BY DEF Diff, Changes, Statement, Touched

(* A dump is about every row.                                              *)
LEMMA DumpSays ==
    ASSUME NEW new \in DBs
    PROVE  LET p == FullDump(new)
           IN  /\ p.mode = "full" /\ Touched(p) = Rows /\ DOMAIN p.sql \subseteq Rows
               /\ \A r \in DOMAIN p.sql : p.sql[r].value = new[r] /\ p.sql[r].op # "update"
               /\ \A r \in Rows \ DOMAIN p.sql : new[r] = Absent
  <1>1. \A r \in Rows : Empty[r] = Absent
    BY DEF Empty
  <1>2. Empty \in DBs
    BY DEF Empty, DBs
  <1> QED
    BY <1>1, <1>2 DEF FullDump, Changes, Statement, Touched

(* A payload leaves in the rows it is about what it was made from.         *)
LEMMA ValueIsSource ==
    ASSUME NEW old \in DBs, NEW new \in DBs, NEW p, p \in {FullDump(new), Diff(old, new)}
    PROVE  \A r \in Touched(p) : r \in Rows /\ Value(p, r) = new[r]
  BY DiffSays, DumpSays DEF Value

(* Payloads with one key are about the same rows, and leave the same text. *)
LEMMA OneKeyOneText ==
    ASSUME NEW p, NEW q, IsUpload(p), IsUpload(q), SyncKey(p) = SyncKey(q)
    PROVE  /\ Touched(p) = Touched(q) /\ p.mode = q.mode
           /\ \A r \in Touched(p) : Canon[Value(p, r)] = Canon[Value(q, r)]
  <1>1. p.mode = q.mode /\ SyncKey(p).sql = SyncKey(q).sql
    BY DEF SyncKey
  <1>2. DOMAIN SyncKey(p).sql = DOMAIN p.sql /\ DOMAIN SyncKey(q).sql = DOMAIN q.sql
    BY DEF SyncKey
  <1>3. DOMAIN p.sql = DOMAIN q.sql
    BY <1>1, <1>2
  <1>4. \A r \in DOMAIN p.sql : /\ SyncKey(p).sql[r].value = Canon[p.sql[r].value]
                                /\ SyncKey(q).sql[r].value = Canon[q.sql[r].value]
    BY <1>3 DEF SyncKey
  <1>5. \A r \in DOMAIN p.sql : Canon[p.sql[r].value] = Canon[q.sql[r].value]
    BY <1>1, <1>4
  <1> QED
    BY <1>1, <1>3, <1>5 DEF Touched, Value

(* D1 is a database after a payload, with its values in the rows it wrote. *)
LEMMA ApplySays ==
    ASSUME NEW p, IsUpload(p), NEW db \in DBs
    PROVE  /\ Apply(p, db) \in DBs
           /\ \A r \in Written(p, db) : r \in Rows /\ Apply(p, db)[r] = Value(p, r)
           /\ \A r \in Rows \ Written(p, db) : Apply(p, db)[r] = Base(p, db)[r]
  <1>1. PICK old \in DBs, new \in DBs : p \in {FullDump(new), Diff(old, new)}
    BY DEF IsUpload
  <1>2. \A r \in DOMAIN p.sql : r \in Rows /\ p.sql[r].value = new[r]
    BY <1>1, DiffSays, DumpSays
  <1>3. Base(p, db) \in DBs
    BY DEF Base, Empty, DBs
  <1>4. Written(p, db) \subseteq DOMAIN p.sql
    BY DEF Written
  <1>5. \A r \in Rows : Apply(p, db)[r] =
                            IF r \in Written(p, db) THEN p.sql[r].value ELSE Base(p, db)[r]
    BY DEF Apply
  <1>6. Apply(p, db) \in DBs
    <2>1. \A r \in Rows : Apply(p, db)[r] \in Values \cup {Absent}
      BY <1>2, <1>3, <1>4, <1>5 DEF DBs
    <2>2. Apply(p, db) = [r \in Rows |-> Apply(p, db)[r]]
      BY DEF Apply
    <2> QED
      BY <2>1, <2>2 DEF DBs
  <1> QED
    BY <1>2, <1>4, <1>5, <1>6 DEF Value

LEMMA MadeIsUpload == ASSUME Types PROVE IsUpload(Made)
  BY DEF Types, Made, IsUpload

-----------------------------------------------------------------------------
(* With the key of the last upload, a payload leads to where D1 is.        *)
LEMMA RetryLeadsToRemote ==
    ASSUME IInv, payload = Made, IsRetry
    PROVE  \A r \in Rows \ adrift : Canon[source[r]] = Canon[remote[r]]
  <1> SUFFICES ASSUME NEW r \in Rows, r \notin adrift
               PROVE  Canon[source[r]] = Canon[remote[r]]
    OBVIOUS
  <1>0. /\ Types /\ LastIsRemote /\ SnapshotIsRemote
        /\ last # None /\ SyncKey(payload) = SyncKey(last)
    BY DEF IInv, IsRetry
  <1>1. /\ Touched(payload) = Touched(last)
        /\ \A q \in Touched(payload) : Canon[Value(payload, q)] = Canon[Value(last, q)]
    BY <1>0, MadeIsUpload, OneKeyOneText DEF Types
  <1>2. \A q \in Touched(payload) : Value(payload, q) = source[q]
    BY <1>0, ValueIsSource DEF Types, Made
  <1>3. CASE r \in Touched(payload)
    BY <1>0, <1>1, <1>2, <1>3 DEF LastIsRemote
  <1>4. CASE r \notin Touched(payload)
    <2>1. snapshot \in DBs /\ snapshot # None /\ payload = Diff(snapshot, source)
      BY <1>0, <1>4, DumpSays DEF Types, Made
    <2>2. source[r] = snapshot[r]
      BY <2>1, <1>0, <1>4, DiffSays DEF Types
    <2>3. r \notin Unsettled
      BY <1>1, <1>4 DEF Unsettled
    <2> QED
      BY <2>1, <2>2, <2>3, <1>0 DEF SnapshotIsRemote
  <1> QED
    BY <1>3, <1>4

(* A dump leaves D1 with the source.                                       *)
LEMMA DumpLeadsToSource ==
    ASSUME NEW new \in DBs, NEW db \in DBs
    PROVE  \A r \in Rows : Apply(FullDump(new), db)[r] = new[r]
  <1> DEFINE p == FullDump(new)
  <1>1. IsUpload(p)
    BY DEF IsUpload
  <1>2. Written(p, db) = DOMAIN p.sql
    BY DumpSays DEF Written
  <1>3. \A r \in Rows : Base(p, db)[r] = Absent
    BY DumpSays DEF Base, Empty
  <1>4. \A r \in DOMAIN p.sql : Value(p, r) = new[r]
    BY DumpSays DEF Value
  <1>5. \A r \in Rows \ DOMAIN p.sql : new[r] = Absent
    BY DumpSays
  <1> HIDE DEF p
  <1>6. /\ \A r \in Written(p, db) : Apply(p, db)[r] = Value(p, r)
        /\ \A r \in Rows \ Written(p, db) : Apply(p, db)[r] = Base(p, db)[r]
    BY <1>1, ApplySays
  <1>7. \A r \in Rows : Apply(p, db)[r] = new[r]
    BY <1>2, <1>3, <1>4, <1>5, <1>6
  <1> QED
    BY <1>7 DEF p

(* A diff writes every row it is about that is as the snapshot has it.     *)
LEMMA DiffIsWritten ==
    ASSUME NEW old \in DBs, NEW new \in DBs, NEW db \in DBs,
           NEW r \in DOMAIN Diff(old, new).sql, Canon[old[r]] = Canon[db[r]]
    PROVE  r \in Written(Diff(old, new), db)
  <1> DEFINE p == Diff(old, new)
  <1>1. r \in Rows /\ Base(p, db) = db
    BY DiffSays DEF Base
  <1>2. old[r] \in Values \cup {Absent} /\ db[r] \in Values \cup {Absent}
    BY <1>1 DEF DBs
  <1>3. old[r] # Absent => db[r] # Absent
    BY <1>2, D1Assumption
  <1>4. p.sql[r].op = "update" => old[r] # Absent
    BY DiffSays
  <1> QED
    BY <1>1, <1>3, <1>4 DEF Written

LEMMA InitInv == Init => IInv
  <1> SUFFICES ASSUME Init PROVE IInv
    OBVIOUS
  <1>1. Empty \in DBs
    BY DEF Empty, DBs
  <1> QED
    BY <1>1 DEF Init, IInv, Types, PayloadIsMade, LastIsRemote, SnapshotIsRemote,
                SourceIsRemote

(* A key that is known: a retry, or one that leaves its rows adrift.       *)
LEMMA CheckInv == ASSUME IInv, CheckKey PROVE IInv'
  <1>0. /\ Types /\ PayloadIsMade /\ LastIsRemote /\ SnapshotIsRemote
        /\ payload = Made /\ pc = "check"
        /\ UNCHANGED <<local, snapshot, remote, source, payload, last, acked>>
    BY DEF IInv, PayloadIsMade, CheckKey
  <1>1. Unsettled' = Unsettled /\ Made' = Made /\ adrift \subseteq adrift'
    BY <1>0 DEF CheckKey, Unsettled, Made, Touched
  <1>2. Types' /\ LastIsRemote' /\ SnapshotIsRemote'
    BY <1>0, <1>1 DEF Types, LastIsRemote, SnapshotIsRemote, Touched, Value
  <1>3. CASE ~KeyExists(SyncKey(payload))
    <2>1. pc' = "execute"
      BY <1>3 DEF CheckKey
    <2> QED
      BY <2>1, <1>0, <1>1, <1>2 DEF IInv, PayloadIsMade, SourceIsRemote
  <1>4. CASE KeyExists(SyncKey(payload))
    <2>1. pc' = "promote"
      BY <1>4 DEF CheckKey
    <2>2. SourceIsRemote'
      <3>1. CASE IsRetry
        <4>1. adrift' = adrift
          BY <1>4, <3>1 DEF CheckKey
        <4> QED
          BY <4>1, <3>1, <1>0, RetryLeadsToRemote DEF SourceIsRemote
      <3>2. CASE ~IsRetry
        <4>1. adrift' = adrift \cup Touched(payload) \cup Unsettled
          BY <1>4, <3>2 DEF CheckKey
        <4> SUFFICES ASSUME NEW r \in Rows, r \notin adrift, r \notin Touched(payload),
                            r \notin Unsettled
                     PROVE  Canon[source[r]] = Canon[remote[r]]
          BY <4>1, <1>0 DEF SourceIsRemote
        <4>2. snapshot \in DBs /\ snapshot # None /\ payload = Diff(snapshot, source)
          BY <1>0, DumpSays DEF Types, Made
        <4>3. source \in DBs /\ r \notin Touched(Diff(snapshot, source))
          BY <4>2, <1>0 DEF Types
        <4>4. source[r] = snapshot[r]
          BY <4>2, <4>3, DiffSays
        <4> QED
          BY <4>2, <4>4, <1>0 DEF SnapshotIsRemote
      <3> QED
        BY <3>1, <3>2
    <2> QED
      BY <2>1, <2>2, <1>2 DEF IInv, PayloadIsMade
  <1> QED
    BY <1>3, <1>4

(* An upload that D1 carries out.                                          *)
LEMMA UploadInv == ASSUME IInv, Execute, Accepts(payload, remote) PROVE IInv'
  <1>0. /\ Types /\ PayloadIsMade /\ SnapshotIsRemote /\ pc = "execute" /\ payload = Made
    BY DEF IInv, PayloadIsMade, Execute
  <1>1. /\ UNCHANGED <<local, snapshot, source, payload>>
        /\ remote' = Apply(payload, remote) /\ pc' = "promote"
        /\ last' = payload /\ acked' = FALSE
        /\ adrift' = IF payload.mode = "full" THEN {}
                     ELSE (adrift \cup Unsettled) \ Written(payload, remote)
    BY DEF Execute
  <1>2. IsUpload(payload)
    BY <1>0, MadeIsUpload
  <1>3. Types'
    BY <1>0, <1>1, <1>2, ApplySays DEF Types
  <1>4. /\ \A r \in Touched(payload) : r \in Rows /\ Value(payload, r) = source[r]
    BY <1>0, ValueIsSource DEF Types, Made
  <1>5. CASE snapshot = None
    <2>1. payload = FullDump(source) /\ adrift' = {}
      BY <1>0, <1>1, <1>5, DumpSays DEF Made, Types
    <2>2. \A r \in Rows : remote'[r] = source[r]
      <3>1. source \in DBs /\ remote \in DBs /\ remote' = Apply(FullDump(source), remote)
        BY <2>1, <1>0, <1>1 DEF Types
      <3> QED
        BY <3>1, DumpLeadsToSource
    <2>3. LastIsRemote'
      BY <2>2, <1>1, <1>4 DEF LastIsRemote
    <2>4. SourceIsRemote'
      BY <2>2, <1>1 DEF SourceIsRemote
    <2> QED
      BY <2>3, <2>4, <1>1, <1>3, <1>5 DEF IInv, PayloadIsMade, SnapshotIsRemote
  <1>6. CASE snapshot # None
    <2>1. /\ snapshot \in DBs /\ payload = Diff(snapshot, source)
          /\ source \in DBs /\ remote \in DBs
      BY <1>0, <1>6 DEF Made, Types
    <2>2. /\ payload.mode = "diff" /\ Touched(payload) = DOMAIN payload.sql
          /\ Base(payload, remote) = remote
          /\ \A r \in Rows \ Touched(payload) : source[r] = snapshot[r]
      BY <2>1, DiffSays DEF Base
    <2>3. adrift' = (adrift \cup Unsettled) \ Written(payload, remote)
      BY <2>2, <1>1
    <2>4. \A r \in Rows \ (adrift \cup Unsettled) : Canon[snapshot[r]] = Canon[remote[r]]
      BY <1>0, <1>6 DEF SnapshotIsRemote
    <2>5. \A r \in Written(payload, remote) : remote'[r] = Value(payload, r)
      BY <1>0, <1>1, <1>2, ApplySays DEF Types
    <2>6. \A r \in Rows \ Written(payload, remote) : remote'[r] = remote[r]
      BY <1>0, <1>1, <1>2, <2>2, ApplySays DEF Types
    <2>7. \A r \in Touched(payload) \ adrift' : r \in Written(payload, remote)
      BY <2>1, <2>2, <2>3, <2>4, <1>4, DiffIsWritten
    <2>8. \A r \in Rows \ (adrift' \cup Touched(payload)) :
              Canon[snapshot[r]] = Canon[remote'[r]]
      <3>1. Written(payload, remote) \subseteq Touched(payload)
        BY <2>2 DEF Written
      <3> QED
        BY <3>1, <2>3, <2>4, <2>6
    <2>9. LastIsRemote'
      BY <2>5, <2>7, <1>1 DEF LastIsRemote
    <2>10. SnapshotIsRemote'
      <3>1. Unsettled' = Touched(payload)
        BY <1>1 DEF Unsettled, Touched
      <3> QED
        BY <3>1, <2>8, <1>1 DEF SnapshotIsRemote
    <2>11. SourceIsRemote'
      BY <2>2, <2>5, <2>7, <2>8, <1>1, <1>4 DEF SourceIsRemote
    <2> QED
      BY <2>9, <2>10, <2>11, <1>1, <1>3 DEF IInv, PayloadIsMade
  <1> QED
    BY <1>5, <1>6

LEMMA StepInv == IInv /\ [Next]_vars => IInv'
  <1> SUFFICES ASSUME IInv, [Next]_vars PROVE IInv'
    OBVIOUS
  <1> USE DEF IInv
  <1>1. ASSUME NEW r \in Rows, NEW v \in Values \cup {Absent}, Write(r, v) PROVE IInv'
    <2>1. local' \in DBs
      BY <1>1 DEF Write, Types, DBs
    <2> QED
      BY <2>1, <1>1 DEF Write, cycle, account, Types, PayloadIsMade, Made, LastIsRemote,
         SnapshotIsRemote, SourceIsRemote, Unsettled, Touched, Value
  <1>2. CASE Prepare
    <2>1. /\ pc' \in {"idle", "check"} /\ payload' = Made' /\ source' = local
          /\ UNCHANGED <<local, snapshot, remote, account>>
      BY <1>2 DEF Prepare, Made
    <2> QED
      BY <2>1 DEF account, Types, PayloadIsMade, LastIsRemote, SnapshotIsRemote,
         SourceIsRemote, Unsettled, Touched, Value
  <1>3. CASE CheckKey
    BY <1>3, CheckInv
  <1>4. CASE Execute
    <2>1. CASE Accepts(payload, remote)
      BY <1>4, <2>1, UploadInv
    <2>2. CASE ~Accepts(payload, remote)
      BY <1>4, <2>2 DEF Execute, account, Types, PayloadIsMade, LastIsRemote,
         SnapshotIsRemote, SourceIsRemote, Unsettled, Touched, Value
    <2> QED
      BY <2>1, <2>2
  <1>5. CASE RemoveSnapshot
    BY <1>5 DEF RemoveSnapshot, account, Types, PayloadIsMade, LastIsRemote,
       SnapshotIsRemote, SourceIsRemote, Touched, Value
  <1>6. CASE RenameStaged
    <2>1. /\ pc = "rename" /\ pc' = "prune" /\ snapshot' = source /\ acked' = TRUE
          /\ UNCHANGED <<local, remote, source, last, adrift>>
      BY <1>6 DEF RenameStaged
    <2>2. SnapshotIsRemote'
      BY <2>1 DEF SnapshotIsRemote, SourceIsRemote, Unsettled
    <2> QED
      BY <2>1, <2>2 DEF Types, PayloadIsMade, LastIsRemote, SourceIsRemote, Touched, Value
  <1>7. CASE PruneHistory
    BY <1>7 DEF PruneHistory, account, Types, PayloadIsMade, LastIsRemote,
       SnapshotIsRemote, SourceIsRemote, Unsettled, Touched, Value
  <1>8. CASE Stop
    BY <1>8 DEF Stop, account, Types, PayloadIsMade, LastIsRemote, SnapshotIsRemote,
       SourceIsRemote, Unsettled, Touched, Value
  <1>9. CASE UNCHANGED vars
    BY <1>9 DEF vars, cycle, account, Types, PayloadIsMade, Made, LastIsRemote,
       SnapshotIsRemote, SourceIsRemote, Unsettled, Touched, Value
  <1> QED
    BY <1>1, <1>2, <1>3, <1>4, <1>5, <1>6, <1>7, <1>8, <1>9 DEF Next, Step

LEMMA InvHolds == Spec => []IInv
  BY InitInv, StepInv, PTL DEF Spec

(* Whatever cycles stop and wherever, and however many keys are kept, the  *)
(* snapshot says what D1 holds outside the rows that went wrong.           *)
THEOREM SnapshotIsRemoteHolds == Spec => []SnapshotIsRemote
  <1>1. IInv => SnapshotIsRemote
    BY DEF IInv
  <1> QED
    BY <1>1, InvHolds, PTL

(* However many keys are kept, the SQL of an upload that was not           *)
(* acknowledged is rightly skipped when it is made again.                  *)
THEOREM RetryIsAppliedHolds == Spec => []RetryIsApplied
  <1>1. IInv => RetryIsApplied
    <2> SUFFICES ASSUME IInv, pc = "check", IsRetry
                 PROVE  \A r \in Rows \ adrift : Canon[source[r]] = Canon[remote[r]]
      BY DEF RetryIsApplied
    <2>1. payload = Made
      BY DEF IInv, PayloadIsMade
    <2> QED
      BY <2>1, RetryLeadsToRemote
  <1> QED
    BY <1>1, InvHolds, PTL
==============================================================================
