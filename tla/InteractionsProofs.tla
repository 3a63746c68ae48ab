------------------------- MODULE InteractionsProofs --------------------------
(***************************************************************************)
(* An Undo never names a mark that stands, for any number of requests,     *)
(* statuses and faults.  The argument: a mark is made once, by the request *)
(* it is named after, and until then nobody has read it and no activity    *)
(* names it; a removal has read a mark of its own kind and status, and as  *)
(* long as that mark stands, so does the row the removal has loaded.       *)
(*                                                                         *)
(* For an owner who waits, when nothing fails (Faithful), a mark that the  *)
(* others know, or are being told, stands or is being taken back, unless   *)
(* its status was deleted by its author: one request or one delivery at a  *)
(* time is under way, so what a request has read is still so when it       *)
(* removes or announces it.                                                *)
(***************************************************************************)
EXTENDS Interactions, TLAPS

\* Where a request is before it has made its mark.
Before == {"idle", "find", "findCached", "insertRow", "readMark", "add"}

\* What a request asks for and has, by where it is.
Phase(r) ==
    /\ task[r].at = "idle" => task[r].held = Unread
    /\ task[r].at \in InFlight => op[r] \in OpType
    /\ task[r].at \in {"readMark", "remove"} => Kind(r) \in Kinds /\ ~op[r].add
    /\ task[r].at \in {"add", "reread"} => Kind(r) \in Kinds /\ op[r].add
    /\ task[r].at = "reread" => Kind(r) = "repost"
    /\ task[r].at \in {"insertRow", "add"} => task[r].row # None
    /\ task[r].at = "deleteRow" => Kind(r) = "delete"
    /\ task[r].at = "remove" /\ Kind(r) # "bookmark" => task[r].held # Unread
    /\ task[r].at = "spawn" /\ Kind(r) # "delete" => task[r].held \in Requests
    /\ task[r].at = "spawn" /\ Kind(r) = "delete" => URI(r) \in Local

\* No mark, request or activity knows of a mark before it is made.
Fresh(r) ==
    task[r].at \in Before =>
        /\ \A k \in Kinds, u \in Statuses : mark[k][u] # r
        /\ \A t \in Requests : task[t].held # r
        /\ \A m \in mail : m.of # r

\* A mark stands where its request asked for it.
Placed ==
    \A k \in Kinds, u \in Statuses :
        mark[k][u] # None => /\ Kind(mark[k][u]) = k /\ URI(mark[k][u]) = u
                             /\ op[mark[k][u]].add

\* The mark that request r holds stands.
HeldStands(r) == \E k \in Kinds, u \in Statuses : mark[k][u] = task[r].held

\* What a removal holds is a mark of its kind on its status.
Holding(r) ==
    task[r].held \in Requests /\ ~op[r].add =>
        /\ Kind(task[r].held) = Kind(r) /\ URI(task[r].held) = URI(r)
        /\ task[r].at = "remove" /\ HeldStands(r) => RowStands(r)
        /\ task[r].at = "spawn" /\ Kind(r) # "delete" => ~HeldStands(r)

UndoInv ==
    \A m \in mail : m.act = "undo" =>
        \A k \in Kinds, u \in Statuses : mark[k][u] # m.of

IInv ==
    /\ TypeOK
    /\ Placed
    /\ \A r \in Requests : Phase(r) /\ Fresh(r) /\ Holding(r)
    /\ UndoInv

LEMMA InitInv == Init => IInv
<1> SUFFICES ASSUME Init PROVE IInv
  OBVIOUS
<1>1. TypeOK
  <2>1. \A u \in Statuses : row[u] \in RowIds \cup {None}
    BY DEF Init, RowIds
  <2>2. \A r \in Requests : task[r] \in [at : {"idle"} \cup InFlight \cup Ended,
                              row : RowIds \cup {None}, held : Requests \cup {None, Unread}]
    BY DEF Init, At
  <2> QED
    BY <2>1, <2>2 DEF Init, TypeOK, Tasks
<1>2. Placed /\ UndoInv
  BY DEF Init, Placed, UndoInv
<1>3. ASSUME NEW r \in Requests PROVE Phase(r) /\ Fresh(r) /\ Holding(r)
  BY <1>3, ConstantsAssumption DEF Init, At, Phase, Fresh, Holding, InFlight, RowIds
<1> QED
  BY <1>1, <1>2, <1>3 DEF IInv

\* What the proofs use of the constants and the types.
LEMMA Types ==
    ASSUME TypeOK
    PROVE  /\ \A r \in Requests : /\ task[r].held \in Requests \cup {None, Unread}
                                  /\ task[r].row \in RowIds \cup {None}
                                  /\ op[r] \in OpType \/ op[r] = None
           /\ \A r \in Requests : op[r] \in OpType => URI(r) \in Statuses
           /\ None # Unread /\ None \notin Requests /\ Unread \notin Requests
           /\ None \notin RowIds
           /\ Statuses \subseteq RowIds
           /\ \A r \in Requests, b \in BOOLEAN : <<r, b>> \in RowIds
BY ConstantsAssumption DEF TypeOK, Tasks, OpType, RowIds, URI

-----------------------------------------------------------------------------
(* Steps that leave the rows and the marks alone.                          *)

\* Such a step keeps the invariant when only r's task changes, as described,
\* and what is sent is as described.
LEMMA QuietTask ==
    ASSUME IInv, NEW r \in Requests,
           UNCHANGED <<row, mark, op>>, TypeOK',
           task' = [task EXCEPT ![r] = task'[r]],
           task'[r].at \in Before => task[r].at \in Before,
           \/ task'[r].held = task[r].held
           \/ task'[r].held \notin Requests
           \/ HeldStands(r)',
           Phase(r)', Holding(r)',
           \A m \in mail' \ mail : m.of = task[r].held \/ m.of \in Local,
           \A m \in mail' \ mail :
               m.act = "undo" => \A k \in Kinds, u \in Statuses : mark[k][u] # m.of
    PROVE  IInv'
PROOF
<1>1. Placed'
  BY DEF IInv, Placed, Kind, URI
<1>2. \A t \in Requests : t # r => task'[t] = task[t]
  BY DEF IInv, TypeOK, Tasks
<1>3. ASSUME NEW t \in Requests PROVE Phase(t)' /\ Holding(t)'
  BY <1>2, <1>3 DEF IInv, Phase, Holding, Kind, URI, HeldStands, RowStands
<1>4. ASSUME NEW t \in Requests PROVE Fresh(t)'
  <2> SUFFICES ASSUME task'[t].at \in Before PROVE Fresh(t)'
    BY DEF Fresh
  <2>1. Fresh(t) /\ task[t].at \in Before
    BY <1>2 DEF IInv
  <2>2. \A k \in Kinds, u \in Statuses : mark'[k][u] # t
    BY <2>1 DEF Fresh
  <2>3. ASSUME NEW s \in Requests PROVE task'[s].held # t
    BY <1>2, <2>1, <2>2, <2>3, Types DEF IInv, Fresh, HeldStands
  <2>4. ASSUME NEW m \in mail' PROVE m.of # t
    BY <2>1, <2>4, ConstantsAssumption DEF Fresh, Statuses
  <2> QED
    BY <2>2, <2>3, <2>4 DEF Fresh
<1>5. UndoInv'
  BY DEF IInv, UndoInv
<1> QED
  BY <1>1, <1>3, <1>4, <1>5 DEF IInv

\* A step that changes no task, and sends nothing, keeps it.
LEMMA QuietInbox ==
    ASSUME IInv, UNCHANGED <<row, mark, op, task>>, TypeOK', mail' \subseteq mail
    PROVE  IInv'
<1>1. Placed' /\ UndoInv'
  BY DEF IInv, Placed, UndoInv, Kind, URI
<1>2. ASSUME NEW r \in Requests PROVE Phase(r)' /\ Fresh(r)' /\ Holding(r)'
  BY <1>2 DEF IInv, Phase, Fresh, Holding, Kind, URI, HeldStands, RowStands
<1> QED
  BY <1>1, <1>2 DEF IInv

\* What Goto does to the tasks.
LEMMA GotoTask ==
    ASSUME TypeOK, NEW r \in Requests, NEW s \in InFlight \cup Ended,
           NEW i \in RowIds \cup {None}, NEW m \in Requests \cup {None, Unread},
           Goto(r, s, i, m)
    PROVE  /\ task' \in Tasks
           /\ task' = [task EXCEPT ![r] = task'[r]]
           /\ task'[r].at = s
           /\ s \notin Ended => task'[r].row = i /\ task'[r].held = m
           /\ s \in Ended => task'[r].held = Unread
BY DEF TypeOK, Goto, At, Tasks

LEMMA ProceedTask ==
    ASSUME TypeOK, NEW r \in Requests, NEW s \in InFlight \cup Ended, Proceed(r, s)
    PROVE  /\ task' \in Tasks
           /\ task' = [task EXCEPT ![r] = task'[r]]
           /\ task'[r].at = s
           /\ s \notin Ended => task'[r].row = task[r].row /\ task'[r].held = task[r].held
           /\ s \in Ended => task'[r].held = Unread
BY GotoTask, Types DEF Proceed

LEMMA AfterLoadValue ==
    ASSUME NEW r \in Requests, op[r] \in OpType
    PROVE  /\ AfterLoad(r) \in {"deleteRow", "add", "readMark", "remove"}
           /\ AfterLoad(r) = "deleteRow" => Kind(r) = "delete"
           /\ AfterLoad(r) # "deleteRow" => Kind(r) \in Kinds
           /\ AfterLoad(r) = "add" => op[r].add
           /\ AfterLoad(r) \in {"readMark", "remove"} => ~op[r].add
           /\ AfterLoad(r) = "remove" /\ Kind(r) # "bookmark" => task[r].held # Unread
BY DEF AfterLoad, OpType, Kind, Kinds

LEMMA FindRowInv == ASSUME IInv, NEW r \in Requests, FindRow(r) PROVE IInv'
<1> DEFINE s == task'[r].at
<1>0. TypeOK /\ Phase(r) /\ Holding(r) /\ task[r].at = "find" /\ op[r] \in OpType
  BY DEF IInv, FindRow, Phase, InFlight
<1>1. CASE Goto(r, AfterLoad(r), row[URI(r)], task[r].held) /\ row[URI(r)] # None
  <2>1. row[URI(r)] \in RowIds \cup {None} /\ task[r].held \in Requests \cup {None, Unread}
    BY <1>0, Types DEF TypeOK
  <2>2. AfterLoad(r) \in InFlight \ Ended
    BY <1>0, AfterLoadValue DEF InFlight, Ended
  <2>3. /\ task' \in Tasks
        /\ task' = [task EXCEPT ![r] = task'[r]]
        /\ s = AfterLoad(r) /\ task'[r].row = row[URI(r)] /\ task'[r].held = task[r].held
    BY <1>0, <1>1, <2>1, <2>2, GotoTask
  <2>4. TypeOK'
    BY <1>0, <2>3 DEF TypeOK, FindRow
  <2>5. Phase(r)'
    BY <1>0, <1>1, <2>3, AfterLoadValue DEF Phase, FindRow, Kind, URI
  <2>6. Holding(r)'
    BY <1>0, <2>3, AfterLoadValue
    DEF Holding, FindRow, Kind, URI, RowStands, HeldStands
  <2> QED
    BY <1>0, <2>3, <2>4, <2>5, <2>6, QuietTask DEF FindRow, Before
<1>2. CASE Proceed(r, IF op[r].byUri THEN "findCached" ELSE "failed")
  <2>1. /\ task' \in Tasks
        /\ task' = [task EXCEPT ![r] = task'[r]]
        /\ s \in {"findCached", "failed"}
        /\ task'[r].held = task[r].held \/ task'[r].held = Unread
    <3>1. PICK x \in {"findCached", "failed"} : Proceed(r, x)
      BY <1>2
    <3>2. x \in InFlight \cup Ended /\ (x \notin Ended \/ x \in Ended)
      BY DEF InFlight, Ended
    <3> QED
      BY <1>0, <3>1, <3>2, ProceedTask
  <2>2. TypeOK'
    BY <1>0, <2>1 DEF TypeOK, FindRow
  <2>3. Phase(r)' /\ Holding(r)'
    BY <1>0, <2>1, Types DEF Phase, Holding, FindRow, Kind, URI, InFlight
  <2> QED
    BY <1>0, <2>1, <2>2, <2>3, QuietTask, Types DEF FindRow, Before
<1> QED
  BY <1>1, <1>2 DEF FindRow

LEMMA FindCachedInv == ASSUME IInv, NEW r \in Requests, FindCached(r) PROVE IInv'
<1> DEFINE i == IF URI(r) \in cache THEN URI(r) ELSE <<r, task[r].held # Unread>>
<1>0. TypeOK /\ Phase(r) /\ Holding(r) /\ task[r].at = "findCached" /\ op[r] \in OpType
  BY DEF IInv, FindCached, Phase, InFlight
<1>1. i \in RowIds
  BY <1>0, Types
<1>2. /\ task' \in Tasks /\ task' = [task EXCEPT ![r] = task'[r]]
      /\ task'[r].at = "insertRow" /\ task'[r].row = i /\ task'[r].held = task[r].held
  <2>1. Goto(r, "insertRow", i, task[r].held)
    BY DEF FindCached
  <2>2. "insertRow" \in InFlight \cup Ended /\ "insertRow" \notin Ended
    BY DEF InFlight, Ended
  <2> QED
    BY <1>0, <1>1, <2>1, <2>2, GotoTask, Types
<1>3. TypeOK'
  BY <1>0, <1>2 DEF TypeOK, FindCached
<1>4. Phase(r)' /\ Holding(r)'
  BY <1>0, <1>1, <1>2, Types DEF Phase, Holding, FindCached, Kind, URI
<1> QED
  BY <1>0, <1>2, <1>3, <1>4, QuietTask DEF FindCached, Before

\* The mark a request finds.
LEMMA MarkOnValue ==
    ASSUME TypeOK, NEW r \in Requests, op[r] \in OpType, Kind(r) \in Kinds
    PROVE  /\ MarkOn(r) \in Requests \cup {None}
           /\ MarkOn(r) # None => /\ RowStands(r) /\ MarkOn(r) = mark[Kind(r)][URI(r)]
                                  /\ URI(r) \in Statuses
BY Types DEF MarkOn, TypeOK

LEMMA RereadInv == ASSUME IInv, NEW r \in Requests, Reread(r) PROVE IInv'
<1>0. /\ TypeOK /\ Phase(r) /\ Holding(r) /\ task[r].at = "reread"
      /\ op[r] \in OpType /\ Kind(r) \in Kinds /\ op[r].add
  BY DEF IInv, Reread, Phase, InFlight
<1>1. PICK s \in {"failed", "spawn", "done"} :
         Goto(r, s, task[r].row, MarkOn(r)) /\ (s = "spawn" => MarkOn(r) # None)
  BY DEF Reread
<1>2. /\ task' \in Tasks /\ task' = [task EXCEPT ![r] = task'[r]]
      /\ task'[r].at = s /\ (s = "spawn" => task'[r].held = MarkOn(r))
      /\ s # "spawn" => task'[r].held = Unread
  <2>1. s \in InFlight \cup Ended /\ (s = "spawn" <=> s \notin Ended)
    BY DEF InFlight, Ended
  <2> QED
    BY <1>0, <1>1, <2>1, GotoTask, Types, MarkOnValue
<1>3. TypeOK'
  BY <1>0, <1>2 DEF TypeOK, Reread
<1>4. Phase(r)' /\ Holding(r)'
  <2>1. Phase(r)'
    BY <1>0, <1>1, <1>2, Types, MarkOnValue DEF Phase, Reread, Kind, URI, InFlight, Kinds
  <2>2. Holding(r)'
    BY <1>0 DEF Holding, Reread
  <2> QED
    BY <2>1, <2>2
<1>5. task'[r].held \notin Requests \/ HeldStands(r)'
  BY <1>0, <1>1, <1>2, Types, MarkOnValue DEF HeldStands, Reread
<1> QED
  BY <1>0, <1>2, <1>3, <1>4, <1>5, QuietTask DEF Reread, Before

LEMMA ReadMarkInv == ASSUME IInv, NEW r \in Requests, ReadMark(r) PROVE IInv'
<1>0. /\ TypeOK /\ Placed /\ Phase(r) /\ task[r].at = "readMark"
      /\ op[r] \in OpType /\ Kind(r) \in Kinds /\ ~op[r].add
  BY DEF IInv, ReadMark, Phase, InFlight
<1>1. PICK s \in {"find", "remove"} : Goto(r, s, task[r].row, MarkOn(r))
  BY DEF ReadMark
<1>2. /\ task' \in Tasks /\ task' = [task EXCEPT ![r] = task'[r]]
      /\ task'[r].at = s /\ task'[r].row = task[r].row /\ task'[r].held = MarkOn(r)
  <2>1. s \in InFlight \cup Ended /\ s \notin Ended
    BY DEF InFlight, Ended
  <2> QED
    BY <1>0, <1>1, <2>1, GotoTask, Types, MarkOnValue
<1>3. TypeOK'
  BY <1>0, <1>2 DEF TypeOK, ReadMark
<1>4. Phase(r)'
  BY <1>0, <1>1, <1>2, Types, MarkOnValue DEF Phase, ReadMark, Kind, InFlight
<1>5. Holding(r)'
  BY <1>0, <1>1, <1>2, Types, MarkOnValue DEF Holding, Placed, ReadMark, Kind, URI, RowStands
<1>6. task'[r].held \notin Requests \/ HeldStands(r)'
  BY <1>0, <1>1, <1>2, Types, MarkOnValue DEF HeldStands, ReadMark
<1> QED
  BY <1>0, <1>2, <1>3, <1>4, <1>5, <1>6, QuietTask DEF ReadMark, Before

LEMMA SpawnInv == ASSUME IInv, NEW r \in Requests, Spawn(r) PROVE IInv'
<1>0. TypeOK /\ Phase(r) /\ Holding(r) /\ task[r].at = "spawn" /\ op[r] \in OpType
  BY DEF IInv, Spawn, Phase, InFlight
<1>1. /\ task' \in Tasks /\ task' = [task EXCEPT ![r] = task'[r]]
      /\ task'[r].at = "done" /\ task'[r].held = Unread
  <2>1. "done" \in InFlight \cup Ended /\ "done" \in Ended
    BY DEF Ended
  <2> QED
    BY <1>0, <2>1, ProceedTask DEF Spawn
<1>2. ASSUME NEW m \in mail' \ mail
      PROVE  \/ m = [act |-> "delete", of |-> URI(r)] /\ Kind(r) = "delete"
             \/ m = [act |-> Act(r), of |-> task[r].held] /\ Kind(r) # "delete"
  BY <1>2 DEF Spawn, SendMark
<1>3. TypeOK'
  <2>1. ASSUME NEW m \in mail' \ mail PROVE m \in Activities
    BY <1>0, <1>2, <2>1 DEF Phase, Activities, Act, OpType
  <2> QED
    BY <1>0, <1>1, <2>1 DEF TypeOK, Spawn
<1>4. Phase(r)' /\ Holding(r)'
  BY <1>0, <1>1, Types DEF Phase, Holding, Spawn, Kind, InFlight
<1>5. ASSUME NEW m \in mail' \ mail, m.act = "undo"
      PROVE  \A k \in Kinds, u \in Statuses : mark[k][u] # m.of
  BY <1>0, <1>2, <1>5 DEF Phase, Holding, HeldStands, Act
<1>6. \A m \in mail' \ mail : m.of = task[r].held \/ m.of \in Local
  BY <1>0, <1>2 DEF Phase
<1> QED
  BY <1>0, <1>1, <1>3, <1>4, <1>5, <1>6, QuietTask, Types DEF Spawn, Before

LEMMA DropInv == ASSUME IInv, NEW r \in Requests, Drop(r) PROVE IInv'
<1>0. TypeOK
  BY DEF IInv
<1>1. /\ task' \in Tasks /\ task' = [task EXCEPT ![r] = task'[r]]
      /\ task'[r].at = "dropped" /\ task'[r].held = Unread
  <2>1. "dropped" \in InFlight \cup Ended /\ "dropped" \in Ended
    BY DEF Ended
  <2> QED
    BY <1>0, <2>1, ProceedTask DEF Drop
<1>2. TypeOK'
  BY <1>0, <1>1 DEF TypeOK, Drop
<1>3. Phase(r)' /\ Holding(r)'
  BY <1>0, <1>1, Types DEF Phase, Holding, InFlight
<1> QED
  BY <1>0, <1>1, <1>2, <1>3, QuietTask, Types DEF Drop, Before

\* All requests in flight are dropped, and nothing is under way any more.
LEMMA RestartInv == ASSUME IInv, Restart PROVE IInv'
<1>0. TypeOK
  BY DEF IInv
<1>1. ASSUME NEW r \in Requests
      PROVE  task'[r] = At("dropped") \/ task'[r] = task[r]
  BY DEF Restart
<1>2. TypeOK'
  <2>1. task' \in Tasks
    BY <1>0 DEF TypeOK, Tasks, Restart, At, Ended
  <2> QED
    BY <1>0, <2>1 DEF TypeOK, Restart
<1>3. Placed' /\ UndoInv'
  BY DEF IInv, Placed, UndoInv, Restart, Kind, URI
<1>4. ASSUME NEW r \in Requests PROVE Phase(r)' /\ Fresh(r)' /\ Holding(r)'
  <2>1. Phase(r) /\ Fresh(r) /\ Holding(r)
    BY DEF IInv
  <2>2. Phase(r)'
    BY <1>1, <2>1 DEF Phase, Restart, At, Kind, URI, InFlight
  <2>3. Holding(r)'
    BY <1>0, <1>1, <2>1, Types DEF Holding, Restart, At, Kind, URI, HeldStands, RowStands
  <2>4. ASSUME NEW t \in Requests, task'[r].at \in Before PROVE task'[t].held # r
    BY <1>0, <1>1, <2>1, <2>4, Types DEF Fresh, At, Before
  <2>5. Fresh(r)'
    BY <1>1, <2>1, <2>4 DEF Fresh, Restart, At, Before
  <2> QED
    BY <2>2, <2>3, <2>5
<1> QED
  BY <1>2, <1>3, <1>4 DEF IInv

LEMMA ArriveInv == ASSUME IInv, NEW r \in Requests, Arrive(r) PROVE IInv'
<1>0. TypeOK /\ Phase(r) /\ Fresh(r) /\ task[r].at = "idle" /\ task[r].held = Unread
  BY DEF IInv, Arrive, Phase
<1>1. /\ task' \in Tasks /\ task' = [task EXCEPT ![r] = task'[r]]
      /\ task'[r].at = "find" /\ task'[r].held = Unread
  <2>1. "find" \in InFlight \cup Ended /\ "find" \notin Ended
    BY DEF InFlight, Ended
  <2> QED
    BY <1>0, <2>1, ProceedTask DEF Arrive
<1>2. PICK o \in Ops : op' = [op EXCEPT ![r] = o]
  BY DEF Arrive
<1>3. op'[r] \in OpType /\ \A t \in Requests : t # r => op'[t] = op[t] /\ task'[t] = task[t]
  BY <1>0, <1>1, <1>2, ConstantsAssumption DEF TypeOK, Tasks
<1>4. TypeOK'
  BY <1>0, <1>1, <1>2 DEF TypeOK, Arrive
<1>5. Placed'
  BY <1>0, <1>3 DEF IInv, Placed, Arrive, Kind, URI, Fresh, Before, TypeOK
<1>6. UndoInv'
  BY DEF IInv, UndoInv, Arrive
<1>7. ASSUME NEW t \in Requests PROVE Phase(t)'
  BY <1>1, <1>3 DEF IInv, Phase, Arrive, Kind, URI
<1>8. ASSUME NEW t \in Requests PROVE Holding(t)'
  <2>1. CASE t = r
    BY <1>0, <1>1, <2>1, Types DEF Holding
  <2>2. CASE t # r
    <3>1. task[t].held # r
      BY <1>0 DEF Fresh, Before
    <3> QED
      BY <1>0, <1>3, <2>2, <3>1 DEF IInv, Holding, Arrive, Kind, URI, HeldStands, RowStands
  <2> QED
    BY <2>1, <2>2
<1>9. ASSUME NEW t \in Requests PROVE Fresh(t)'
  BY <1>0, <1>1, <1>3, Types DEF IInv, Fresh, Arrive, Before
<1> QED
  BY <1>4, <1>5, <1>6, <1>7, <1>8, <1>9 DEF IInv

-----------------------------------------------------------------------------
(* Steps that change the rows or the marks.                                *)

\* A row and its marks go: what a removal holds is on another row, or does
\* not stand any more.
LEMMA DeleteRowKeeps ==
    ASSUME IInv, NEW u \in Statuses, DeleteRow(u), UNCHANGED op
    PROVE  /\ row' \in [Statuses -> RowIds \cup {None}]
           /\ mark' \in [Kinds -> [Statuses -> Requests \cup {None}]]
           /\ \A k \in Kinds, v \in Statuses : mark'[k][v] # None => row'[v] # None
           /\ \A k \in Kinds, v \in Statuses : mark'[k][v] = mark[k][v] \/ mark'[k][v] = None
           /\ Placed'
           /\ \A k \in Kinds, v \in Statuses : mark'[k][v] # None => row'[v] = row[v]
BY DEF IInv, TypeOK, DeleteRow, Placed, Kind, URI

\* A step that only takes marks away keeps what others hold, when the rows of
\* the marks that are left stay.
LEMMA FewerMarks ==
    ASSUME IInv, NEW t \in Requests, UNCHANGED op, TypeOK', Placed',
           \A m \in mail' \ mail : \E s \in Requests : m.of = task[s].held,
           task'[t] = task[t],
           \A s \in Requests : task'[s].held = task[s].held \/ task'[s].held = Unread,
           \A k \in Kinds, v \in Statuses : mark'[k][v] = mark[k][v] \/ mark'[k][v] = None,
           \A k \in Kinds, v \in Statuses : mark'[k][v] # None => row'[v] = row[v]
    PROVE  Phase(t)' /\ Fresh(t)' /\ Holding(t)'
<1>0. TypeOK /\ Phase(t) /\ Fresh(t) /\ Holding(t)
  BY DEF IInv
<1>1. Phase(t)'
  BY <1>0 DEF Phase, Kind, URI
<1>2. Fresh(t)'
  BY <1>0, Types DEF Fresh
<1>3. HeldStands(t)' /\ task[t].held \in Requests => HeldStands(t)
  BY Types, <1>0 DEF HeldStands
<1>4. ASSUME HeldStands(t)', task[t].held \in Requests
      PROVE  row'[URI(task[t].held)] = row[URI(task[t].held)]
  <2>1. PICK k \in Kinds, v \in Statuses : mark'[k][v] = task[t].held
    BY <1>4 DEF HeldStands
  <2>2. v = URI(task[t].held)
    BY <1>0, <1>4, <2>1, Types DEF Placed, URI
  <2> QED
    BY <1>0, <1>4, <2>1, <2>2, Types
<1>5. Holding(t)'
  BY <1>0, <1>3, <1>4 DEF Holding, Kind, URI, RowStands
<1> QED
  BY <1>1, <1>2, <1>5

LEMMA FewerUndo ==
    ASSUME IInv,
           \A m \in mail' \ mail : m.act = "undo" =>
               \A k \in Kinds, u \in Statuses : mark'[k][u] # m.of,
           \A k \in Kinds, v \in Statuses : mark'[k][v] = mark[k][v] \/ mark'[k][v] = None
    PROVE  UndoInv'
<1>1. ASSUME NEW m \in mail, m.act = "undo" PROVE m.of # None
  BY <1>1, ConstantsAssumption DEF IInv, TypeOK, Activities, RowIds, Statuses
<1> QED
  BY <1>1 DEF IInv, UndoInv

LEMMA DeletePersistedInv == ASSUME IInv, NEW u \in Remote, DeletePersisted(u) PROVE IInv'
<1>0. TypeOK /\ u \in Statuses
  BY DEF IInv, Statuses
<1>1. CASE DeleteRow(u)
  <2>1. TypeOK'
    BY <1>0, <1>1, DeleteRowKeeps, ConstantsAssumption DEF TypeOK, DeletePersisted
  <2>2. ASSUME NEW t \in Requests PROVE Phase(t)' /\ Fresh(t)' /\ Holding(t)'
    BY <1>0, <1>1, <2>1, DeleteRowKeeps, FewerMarks DEF DeletePersisted
  <2>3. UndoInv'
    BY <1>0, <1>1, DeleteRowKeeps, FewerUndo DEF DeletePersisted
  <2> QED
    BY <1>0, <1>1, <2>1, <2>2, <2>3, DeleteRowKeeps DEF IInv, DeletePersisted
<1>2. CASE UNCHANGED <<row, mark>>
  <2>1. TypeOK'
    BY <1>0, <1>2 DEF TypeOK, DeletePersisted
  <2> QED
    BY <1>2, <2>1, QuietInbox DEF DeletePersisted
<1> QED
  BY <1>1, <1>2 DEF DeletePersisted

LEMMA DeleteStatusInv == ASSUME IInv, NEW r \in Requests, DeleteStatus(r) PROVE IInv'
<1>0. /\ TypeOK /\ Phase(r) /\ Holding(r) /\ task[r].at = "deleteRow"
      /\ op[r] \in OpType /\ Kind(r) = "delete" /\ URI(r) \in Statuses
  BY Types DEF IInv, DeleteStatus, Phase, InFlight
<1>1. PICK s \in {"failed", "spawn"} :
         /\ Proceed(r, s)
         /\ s = "spawn" => URI(r) \in Local
         /\ DeleteRow(URI(r)) \/ UNCHANGED <<row, mark>>
  BY DEF DeleteStatus, IsLocal
<1>2. /\ task' \in Tasks /\ task' = [task EXCEPT ![r] = task'[r]]
      /\ task'[r].at = s
      /\ task'[r].held = task[r].held \/ task'[r].held = Unread
  <2>1. s \in InFlight \cup Ended
    BY DEF InFlight, Ended
  <2> QED
    BY <1>0, <1>1, <2>1, ProceedTask
<1>3. Phase(r)'
  BY <1>0, <1>1, <1>2 DEF Phase, DeleteStatus, Kind, URI
<1>4. Holding(r)'
  BY <1>0, <1>1, <1>2, Types DEF Holding, DeleteStatus, Kind, URI
<1>5. CASE UNCHANGED <<row, mark>>
  <2>1. TypeOK'
    BY <1>0, <1>2, <1>5 DEF TypeOK, DeleteStatus
  <2> QED
    BY <1>0, <1>2, <1>3, <1>4, <1>5, <2>1, QuietTask, Types DEF DeleteStatus, Before
<1>6. CASE DeleteRow(URI(r))
  <2>1. TypeOK'
    BY <1>0, <1>2, <1>6, DeleteRowKeeps DEF TypeOK, DeleteStatus
  <2>2. \A t \in Requests : task'[t].held = task[t].held \/ task'[t].held = Unread
    BY <1>0, <1>2 DEF TypeOK, Tasks
  <2>3. ASSUME NEW t \in Requests PROVE Phase(t)' /\ Fresh(t)' /\ Holding(t)'
    <3>1. CASE t = r
      BY <1>2, <1>3, <1>4, <3>1 DEF Fresh, Before
    <3>2. CASE t # r
      BY <1>0, <1>2, <1>6, <2>1, <2>2, <3>2, DeleteRowKeeps, FewerMarks
      DEF DeleteStatus, TypeOK, Tasks
    <3> QED
      BY <3>1, <3>2
  <2>4. UndoInv'
    BY <1>0, <1>6, DeleteRowKeeps, FewerUndo DEF DeleteStatus
  <2> QED
    BY <1>0, <1>6, <2>1, <2>3, <2>4, DeleteRowKeeps DEF IInv, DeleteStatus
<1> QED
  BY <1>1, <1>5, <1>6

\* A row is written where there is none, so where no mark stands.
LEMMA InsertRowInv == ASSUME IInv, NEW r \in Requests, InsertRow(r) PROVE IInv'
<1>0. /\ TypeOK /\ Placed /\ Phase(r) /\ Holding(r) /\ task[r].at = "insertRow"
      /\ op[r] \in OpType /\ URI(r) \in Statuses
  BY Types DEF IInv, InsertRow, Phase, InFlight
<1>1. CASE /\ row[URI(r)] = None
           /\ row' = [row EXCEPT ![URI(r)] = task[r].row]
           /\ Proceed(r, AfterLoad(r))
  <2>1. /\ task' \in Tasks /\ task' = [task EXCEPT ![r] = task'[r]]
        /\ task'[r].at = AfterLoad(r)
        /\ task'[r].row = task[r].row /\ task'[r].held = task[r].held
    <3>1. AfterLoad(r) \in InFlight \cup Ended /\ AfterLoad(r) \notin Ended
      BY <1>0, AfterLoadValue DEF InFlight, Ended
    <3> QED
      BY <1>0, <1>1, <3>1, ProceedTask
  <2>2. \A t \in Requests : t # r => task'[t] = task[t]
    BY <1>0, <2>1 DEF TypeOK, Tasks
  <2>3. TypeOK'
    <3>1. row' \in [Statuses -> RowIds \cup {None}]
      BY <1>0, <1>1, Types DEF TypeOK
    <3>2. \A k \in Kinds, u \in Statuses : mark[k][u] # None => row'[u] # None
      BY <1>0, <1>1 DEF TypeOK
    <3> QED
      BY <1>0, <2>1, <3>1, <3>2 DEF TypeOK, InsertRow
  <2>4. Placed' /\ UndoInv'
    BY DEF IInv, Placed, UndoInv, InsertRow, Kind, URI
  <2>5. ASSUME NEW t \in Requests PROVE Phase(t)'
    BY <1>0, <2>1, <2>2, AfterLoadValue DEF IInv, Phase, InsertRow, Kind, URI
  <2>6. ASSUME NEW t \in Requests PROVE Fresh(t)'
    BY <1>0, <2>1, <2>2 DEF IInv, Fresh, InsertRow, Before
  <2>7. ASSUME NEW t \in Requests PROVE Holding(t)'
    <3>1. CASE t = r
      BY <1>0, <1>1, <2>1, <3>1, AfterLoadValue
      DEF Holding, InsertRow, Kind, URI, RowStands, HeldStands, TypeOK
    <3>2. CASE t # r
      <4>1. Holding(t) /\ task'[t] = task[t]
        BY <2>2, <3>2 DEF IInv
      <4>2. ASSUME task[t].held \in Requests, HeldStands(t)
            PROVE  row[URI(task[t].held)] # None
        BY <1>0, <4>2, Types DEF HeldStands, Placed, TypeOK
      <4>3. ASSUME task[t].held \in Requests, HeldStands(t)
            PROVE  row'[URI(task[t].held)] = row[URI(task[t].held)]
        BY <1>0, <1>1, <4>2, <4>3 DEF TypeOK
      <4> QED
        BY <4>1, <4>3 DEF Holding, InsertRow, Kind, URI, RowStands, HeldStands
    <3> QED
      BY <3>1, <3>2
  <2> QED
    BY <2>3, <2>4, <2>5, <2>6, <2>7 DEF IInv
<1>2. CASE Proceed(r, "failed") /\ UNCHANGED row
  <2>1. /\ task' \in Tasks /\ task' = [task EXCEPT ![r] = task'[r]]
        /\ task'[r].at = "failed" /\ task'[r].held = Unread
    <3>1. "failed" \in InFlight \cup Ended /\ "failed" \in Ended
      BY DEF Ended
    <3> QED
      BY <1>0, <1>2, <3>1, ProceedTask
  <2>2. TypeOK'
    BY <1>0, <1>2, <2>1 DEF TypeOK, InsertRow
  <2>3. Phase(r)' /\ Holding(r)'
    BY <1>0, <2>1, Types DEF Phase, Holding, InFlight
  <2> QED
    BY <1>0, <1>2, <2>1, <2>2, <2>3, QuietTask, Types DEF InsertRow, Before
<1> QED
  BY <1>1, <1>2 DEF InsertRow

\* A mark is made by the request it is named after, whom nobody knew of.
LEMMA AddMarkInv == ASSUME IInv, NEW r \in Requests, AddMark(r) PROVE IInv'
<1>0. /\ TypeOK /\ Placed /\ Phase(r) /\ Fresh(r) /\ Holding(r) /\ task[r].at = "add"
      /\ op[r] \in OpType /\ Kind(r) \in Kinds /\ op[r].add /\ URI(r) \in Statuses
      /\ task[r].row # None
  BY Types DEF IInv, AddMark, Phase, InFlight
<1>1. CASE /\ RowStands(r) /\ SetMark(r, r)
           /\ SendMark(r, r) \/ UNCHANGED mail
           /\ Goto(r, AfterAdd(r), task[r].row, r)
  <2>1. AfterAdd(r) \in {"done", "reread", "spawn"}
    BY <1>0 DEF AfterAdd, OpType, Kinds
  <2>2. /\ task' \in Tasks /\ task' = [task EXCEPT ![r] = task'[r]]
        /\ task'[r].at = AfterAdd(r)
        /\ task'[r].held \in {r, Unread}
        /\ AfterAdd(r) = "spawn" => task'[r].held = r
    <3>1. /\ AfterAdd(r) \in InFlight \cup Ended
          /\ AfterAdd(r) = "spawn" => AfterAdd(r) \notin Ended
      BY <2>1 DEF InFlight, Ended
    <3> QED
      BY <1>0, <1>1, <3>1, GotoTask, Types
  <2>3. \A t \in Requests : t # r => task'[t] = task[t]
    BY <1>0, <2>2 DEF TypeOK, Tasks
  <2>4. \A k \in Kinds, u \in Statuses :
           mark'[k][u] = IF k = Kind(r) /\ u = URI(r) THEN r ELSE mark[k][u]
    BY <1>0, <1>1 DEF SetMark, TypeOK
  <2>5. \A m \in mail' \ mail : m = [act |-> "make", of |-> r]
    BY <1>0, <1>1 DEF SendMark, Act
  <2>6. TypeOK'
    <3>1. mark' \in [Kinds -> [Statuses -> Requests \cup {None}]]
      BY <1>0, <1>1 DEF SetMark, TypeOK
    <3>2. mail' \subseteq Activities
      BY <1>0, <2>5 DEF TypeOK, Activities
    <3>3. \A k \in Kinds, u \in Statuses : mark'[k][u] # None => row[u] # None
      BY <1>0, <1>1, <2>4 DEF TypeOK, RowStands
    <3> QED
      BY <1>0, <2>2, <3>1, <3>2, <3>3 DEF TypeOK, AddMark
  <2>7. Placed'
    BY <1>0, <2>4 DEF Placed, AddMark, Kind, URI
  <2>8. UndoInv'
    BY <1>0, <2>4, <2>5 DEF IInv, UndoInv, Fresh, Before
  <2>9. ASSUME NEW t \in Requests PROVE Phase(t)'
    <3>1. CASE t = r
      BY <1>0, <2>1, <2>2, <3>1 DEF Phase, AddMark, Kind, URI, Kinds, AfterAdd
    <3>2. CASE t # r
      BY <2>3, <3>2 DEF IInv, Phase, AddMark, Kind, URI
    <3> QED
      BY <3>1, <3>2
  <2>10. ASSUME NEW t \in Requests PROVE Fresh(t)'
    <3>1. CASE t = r
      BY <2>1, <2>2, <3>1 DEF Fresh, Before
    <3>2. CASE t # r
      BY <1>0, <2>2, <2>3, <2>4, <2>5, <3>2, Types DEF IInv, Fresh
    <3> QED
      BY <3>1, <3>2
  <2>11. ASSUME NEW t \in Requests PROVE Holding(t)'
    <3>1. CASE t = r
      BY <1>0, <3>1 DEF Holding, AddMark
    <3>2. CASE t # r
      <4>1. task'[t] = task[t] /\ task[t].held # r /\ Holding(t)
        BY <1>0, <2>3, <3>2 DEF IInv, Fresh, Before
      <4>2. HeldStands(t)' => HeldStands(t)
        BY <2>4, <4>1 DEF HeldStands
      <4> QED
        BY <4>1, <4>2 DEF Holding, AddMark, Kind, URI, RowStands
    <3> QED
      BY <3>1, <3>2
  <2> QED
    BY <2>6, <2>7, <2>8, <2>9, <2>10, <2>11 DEF IInv
<1>2. CASE Proceed(r, "failed") /\ UNCHANGED <<mark, mail>>
  <2>1. /\ task' \in Tasks /\ task' = [task EXCEPT ![r] = task'[r]]
        /\ task'[r].at = "failed" /\ task'[r].held = Unread
    <3>1. "failed" \in InFlight \cup Ended /\ "failed" \in Ended
      BY DEF Ended
    <3> QED
      BY <1>0, <1>2, <3>1, ProceedTask
  <2>2. TypeOK'
    BY <1>0, <1>2, <2>1 DEF TypeOK, AddMark
  <2>3. Phase(r)' /\ Holding(r)'
    BY <1>0, <2>1, Types DEF Phase, Holding, InFlight
  <2> QED
    BY <1>0, <1>2, <2>1, <2>2, <2>3, QuietTask, Types DEF AddMark, Before
<1> QED
  BY <1>1, <1>2 DEF AddMark

\* A mark is removed.  If the one that was read still stood, it was that one.
LEMMA RemoveMarkInv == ASSUME IInv, NEW r \in Requests, RemoveMark(r) PROVE IInv'
<1>0. /\ TypeOK /\ Placed /\ Phase(r) /\ Holding(r) /\ task[r].at = "remove"
      /\ op[r] \in OpType /\ Kind(r) \in Kinds /\ ~op[r].add /\ URI(r) \in Statuses
      /\ (Kind(r) # "bookmark" => task[r].held # Unread)
  BY Types DEF IInv, RemoveMark, Phase, InFlight
<1>1. PICK s \in {"spawn", "done"} :
         /\ Proceed(r, s)
         /\ s = "spawn" => task[r].held # None /\ Kind(r) = "repost"
  BY DEF RemoveMark
<1>2. /\ task' \in Tasks /\ task' = [task EXCEPT ![r] = task'[r]]
      /\ task'[r].at = s
      /\ s = "spawn" => task'[r].held = task[r].held
      /\ s = "done" => task'[r].held = Unread
  <2>1. s \in InFlight \cup Ended /\ (s = "done" <=> s \in Ended)
    BY DEF InFlight, Ended
  <2> QED
    BY <1>0, <1>1, <2>1, ProceedTask
<1>3. \A k \in Kinds, v \in Statuses : mark'[k][v] = mark[k][v] \/ mark'[k][v] = None
  BY <1>0 DEF RemoveMark, SetMark, TypeOK
<1>4. RowStands(r) => mark'[Kind(r)][URI(r)] = None
  BY <1>0 DEF RemoveMark, SetMark, TypeOK
<1>5. ASSUME task[r].held \in Requests, NEW k \in Kinds, NEW u \in Statuses
      PROVE  mark'[k][u] # task[r].held
  <2> SUFFICES ASSUME mark'[k][u] = task[r].held PROVE FALSE
    OBVIOUS
  <2>1. mark[k][u] = task[r].held
    BY <1>3, <1>5, Types, <1>0
  <2>2. k = Kind(r) /\ u = URI(r)
    BY <1>0, <1>5, <2>1, Types DEF Placed, Holding
  <2>3. RowStands(r)
    BY <1>0, <1>5, <2>1 DEF Holding, HeldStands
  <2> QED
    BY <1>0, <1>4, <1>5, <2>2, <2>3, Types
<1>6. \A m \in mail' \ mail : /\ m = [act |-> Act(r), of |-> task[r].held]
                              /\ task[r].held \in Requests
  BY <1>0, Types DEF RemoveMark, SendMark
<1>7. TypeOK'
  <2>1. mark' \in [Kinds -> [Statuses -> Requests \cup {None}]]
    BY <1>0 DEF RemoveMark, SetMark, TypeOK
  <2>2. mail' \subseteq Activities
    BY <1>0, <1>6 DEF TypeOK, Activities, Act
  <2>3. \A k \in Kinds, u \in Statuses : mark'[k][u] # None => row[u] # None
    BY <1>0, <1>3 DEF TypeOK
  <2> QED
    BY <1>0, <1>2, <2>1, <2>2, <2>3 DEF TypeOK, RemoveMark
<1>8. Placed'
  BY <1>0, <1>3 DEF Placed, RemoveMark, Kind, URI
<1>9. UndoInv'
  BY <1>3, <1>5, <1>6, FewerUndo
<1>10. ASSUME NEW t \in Requests PROVE Phase(t)' /\ Fresh(t)' /\ Holding(t)'
  <2>1. CASE t = r
    <3>1. Phase(r)'
      BY <1>0, <1>1, <1>2, Types DEF Phase, RemoveMark, Kind, URI, InFlight
    <3>2. Holding(r)'
      BY <1>0, <1>1, <1>2, <1>5, Types DEF Holding, RemoveMark, Kind, URI, HeldStands
    <3> QED
      BY <1>2, <2>1, <3>1, <3>2 DEF Fresh, Before
  <2>2. CASE t # r
    <3>1. /\ task'[t] = task[t]
          /\ \A s2 \in Requests : task'[s2].held = task[s2].held \/ task'[s2].held = Unread
      BY <1>0, <1>2, <2>2 DEF TypeOK, Tasks
    <3>2. \A m \in mail' \ mail : \E s2 \in Requests : m.of = task[s2].held
      BY <1>6
    <3>3. \A k \in Kinds, v \in Statuses : mark'[k][v] # None => row'[v] = row[v]
      BY DEF RemoveMark
    <3>4. UNCHANGED op
      BY DEF RemoveMark
    <3> QED
      BY <1>3, <1>7, <1>8, <3>1, <3>2, <3>3, <3>4, FewerMarks
  <2> QED
    BY <2>1, <2>2
<1> QED
  BY <1>7, <1>8, <1>9, <1>10 DEF IInv

-----------------------------------------------------------------------------

\* The inbox and the other servers: at most the cache, what is known and the
\* row a Delete has looked up change.
LEMMA InboxInv ==
    ASSUME IInv,
           \/ \E u \in Remote : HandleCreate(u) \/ Evict(u) \/ HandleDelete(u) \/ FindDeleted(u)
           \/ \E m \in mail : Receive(m) \/ Lose(m)
    PROVE  IInv'
<1>0. TypeOK
  BY DEF IInv
<1>1. ASSUME NEW u \in Remote,
             HandleCreate(u) \/ Evict(u) \/ HandleDelete(u) \/ FindDeleted(u)
      PROVE  IInv'
  <2>1. row[u] \in RowIds \cup {None}
    BY <1>0 DEF TypeOK, Statuses
  <2>2. TypeOK'
    BY <1>0, <1>1, <2>1 DEF TypeOK, HandleCreate, Evict, HandleDelete, FindDeleted
  <2> QED
    BY <1>1, <2>2, QuietInbox DEF HandleCreate, Evict, HandleDelete, FindDeleted
<1>2. ASSUME NEW m \in mail, Receive(m) \/ Lose(m) PROVE IInv'
  <2>1. known' \subseteq Requests
    <3>1. m.act = "make" => m.of \in Requests
      BY <1>0 DEF TypeOK, Activities
    <3> QED
      BY <1>0, <1>2, <3>1 DEF TypeOK, Receive, Lose
  <2>2. TypeOK'
    BY <1>0, <1>2, <2>1 DEF TypeOK, Receive, Lose
  <2> QED
    BY <1>2, <2>2, QuietInbox DEF Receive, Lose
<1> QED
  BY <1>1, <1>2

LEMMA NextInv == IInv /\ [Next]_vars => IInv'
<1> SUFFICES ASSUME IInv, [Next]_vars PROVE IInv'
  OBVIOUS
<1>1. ASSUME NEW r \in Requests, Arrive(r) \/ Step(r) \/ Drop(r) PROVE IInv'
  BY <1>1, ArriveInv, DropInv, FindRowInv, FindCachedInv, InsertRowInv, AddMarkInv,
     RereadInv, ReadMarkInv, RemoveMarkInv, DeleteStatusInv, SpawnInv DEF Step
<1>2. ASSUME NEW u \in Remote, Inbox(u) PROVE IInv'
  BY <1>2, InboxInv, DeletePersistedInv DEF Inbox
<1>3. ASSUME UNCHANGED vars PROVE IInv'
  <2>1. TypeOK'
    BY <1>3 DEF IInv, TypeOK, vars
  <2> QED
    BY <1>3, <2>1, QuietInbox DEF vars
<1> QED
  BY <1>1, <1>2, <1>3, InboxInv, RestartInv DEF Next

\* The tables, the tasks and the activities keep their types, and no mark is
\* left without its row: statuses.rs, service/status.rs and the foreign keys.
THEOREM TypeCorrect == Spec => []TypeOK
<1>1. IInv => TypeOK
  BY DEF IInv
<1> QED
  BY InitInv, NextInv, <1>1, PTL DEF Spec

\* An Undo that is being delivered never names a favourite or a repost that
\* stands: unfavourite_status and unreblog_status read the id first and delete
\* whatever mark there is later.
THEOREM UndoneIsGoneHolds == Spec => []UndoneIsGone
<1>1. IInv => UndoneIsGone
  <2> SUFFICES ASSUME IInv, NEW m \in mail, m.act = "undo" PROVE m.of \notin Standing
    BY DEF UndoneIsGone
  <2> QED
    BY DEF IInv, UndoInv, Standing
<1> QED
  BY InitInv, NextInv, <1>1, PTL DEF Spec

-----------------------------------------------------------------------------
(* Whatever requests overlap, a mark that stands gets known: its request    *)
(* sends it, nothing undoes it while it stands, and a status whose Delete   *)
(* has been sent never comes back under its id.                             *)

DeletedIsGone ==
    /\ \A m \in mail : m.act = "delete" => row[m.of] # m.of
    /\ \A r \in Requests :
          /\ task[r].at = "spawn" /\ Kind(r) = "delete" => row[URI(r)] # URI(r)
          /\ task[r].at = "insertRow" /\ URI(r) \in Local => task[r].row # URI(r)

\* A request's step changes no other request.
LEMMA OtherRequests ==
    ASSUME TypeOK, NEW r \in Requests, Arrive(r) \/ Step(r) \/ Drop(r)
    PROVE  \A t \in Requests : t # r => task'[t] = task[t] /\ op'[t] = op[t]
<1>1. \A s, i, m : Goto(r, s, i, m) => \A t \in Requests : t # r => task'[t] = task[t]
  BY DEF Goto, TypeOK, Tasks
<1>2. \A s : Proceed(r, s) => \A t \in Requests : t # r => task'[t] = task[t]
  BY <1>1 DEF Proceed
<1>3. CASE Arrive(r)
  BY <1>2, <1>3 DEF Arrive, TypeOK
<1>4. CASE Drop(r)
  BY <1>2, <1>4 DEF Drop
<1>5. CASE FindRow(r) \/ FindCached(r) \/ InsertRow(r) \/ AddMark(r) \/ Reread(r)
  BY <1>1, <1>2, <1>5 DEF FindRow, FindCached, InsertRow, AddMark, Reread
<1>6. CASE ReadMark(r) \/ RemoveMark(r) \/ DeleteStatus(r) \/ Spawn(r)
  BY <1>1, <1>2, <1>6 DEF ReadMark, RemoveMark, DeleteStatus, Spawn
<1> QED
  BY <1>3, <1>4, <1>5, <1>6 DEF Step

\* The owner's status that has gone never comes back under its id.
LEMMA GoneForGood ==
    ASSUME IInv, DeletedIsGone, [Next]_vars
    PROVE  \A u \in Local : row[u] # u => row'[u] # u
<1>0. TypeOK
  BY DEF IInv
<1>a. \A r \in Requests : Phase(r)
  BY DEF IInv
<1>b. Local \subseteq Statuses /\ None \notin Statuses
  BY ConstantsAssumption DEF Statuses, RowIds
<1>1. ASSUME NEW u \in Statuses, DeleteRow(u) PROVE \A v \in Local : row[v] # v => row'[v] # v
  BY <1>0, <1>b, <1>1 DEF DeleteRow, TypeOK
<1>2. ASSUME NEW r \in Requests, InsertRow(r) PROVE \A v \in Local : row[v] # v => row'[v] # v
  BY <1>0, <1>b, <1>2 DEF InsertRow, TypeOK, DeletedIsGone
<1>3. ASSUME NEW r \in Requests, Step(r) PROVE \A v \in Local : row[v] # v => row'[v] # v
  <2>1. ASSUME DeleteStatus(r) PROVE UNCHANGED row \/ (DeleteRow(URI(r)) /\ URI(r) \in Statuses)
    BY <1>a, <2>1, <1>0, Types DEF DeleteStatus, Phase, InFlight
  <2> QED
    BY <1>1, <1>2, <1>3, <2>1
    DEF Step, FindRow, FindCached, AddMark, Reread, ReadMark, RemoveMark, Spawn
<1>4. ASSUME NEW u \in Remote, Inbox(u) PROVE \A v \in Local : row[v] # v => row'[v] # v
  BY <1>1, <1>4 DEF Inbox, HandleCreate, Evict, HandleDelete, FindDeleted, DeletePersisted,
                    Statuses
<1> QED
  BY <1>3, <1>4 DEF Next, vars, Arrive, Drop, Receive, Lose, Restart

LEMMA DeletedInv ==
    ASSUME IInv, DeletedIsGone, [Next]_vars PROVE DeletedIsGone'
<1>0. TypeOK
  BY DEF IInv
<1>a. \A r \in Requests : Phase(r)
  BY DEF IInv
<1>b. Local \subseteq Statuses /\ None \notin Statuses
  BY ConstantsAssumption DEF Statuses, RowIds
<1>1. \A u \in Local : row[u] # u => row'[u] # u
  BY GoneForGood
<1>2. ASSUME NEW t \in Requests, task'[t] = task[t], op'[t] = op[t]
      PROVE  /\ task'[t].at = "spawn" /\ Kind(t)' = "delete" => row'[URI(t)'] # URI(t)'
             /\ task'[t].at = "insertRow" /\ URI(t)' \in Local => task'[t].row # URI(t)'
  BY <1>1, <1>2, <1>a DEF DeletedIsGone, Phase, Kind, URI
<1>3. ASSUME NEW t \in Requests, Arrive(t) \/ Step(t) \/ Drop(t)
      PROVE  /\ task'[t].at = "spawn" /\ Kind(t)' = "delete" => row'[URI(t)'] # URI(t)'
             /\ task'[t].at = "insertRow" /\ URI(t)' \in Local => task'[t].row # URI(t)'
  <2>0. /\ \A s, i, m : Goto(t, s, i, m) =>
              task'[t].at = s /\ (s \notin Ended => task'[t].row = i)
        /\ \A s : Proceed(t, s) =>
              task'[t].at = s /\ (s \notin Ended => task'[t].row = task[t].row)
    BY <1>0 DEF Goto, Proceed, At, TypeOK, Tasks
  <2>1. CASE FindCached(t)
    <3>1. /\ task'[t].at = "insertRow"
          /\ task'[t].row = IF URI(t) \in cache THEN URI(t) ELSE <<t, task[t].held # Unread>>
      BY <2>0, <2>1 DEF FindCached, Ended
    <3>2. URI(t) \notin Local \/ URI(t) \notin cache
      BY <1>0, ConstantsAssumption DEF TypeOK
    <3>3. <<t, task[t].held # Unread>> \notin Statuses
      <4>1. \A b \in BOOLEAN : <<t, b>> \notin Statuses
        BY ConstantsAssumption
      <4>2. (task[t].held # Unread) \in BOOLEAN
        OBVIOUS
      <4> QED
        BY <4>1, <4>2
    <3> QED
      BY <1>b, <2>1, <3>1, <3>2, <3>3 DEF FindCached, URI
  <2>2. CASE DeleteStatus(t)
    <3>1. op[t] \in OpType /\ URI(t) \in Statuses
      BY <1>0, <1>a, <2>2, Types DEF DeleteStatus, Phase, InFlight
    <3>2. task'[t].at \in {"spawn", "failed"}
      BY <2>0, <2>2 DEF DeleteStatus
    <3>3. ASSUME task'[t].at = "spawn" PROVE row'[URI(t)] # URI(t)
      <4>1. IsLocal(URI(t), task[t].row)
        BY <2>0, <2>2, <3>3 DEF DeleteStatus
      <4>2. IF RowStands(t) THEN DeleteRow(URI(t)) ELSE UNCHANGED <<row, mark>>
        BY <2>2, <4>1 DEF DeleteStatus
      <4> QED
        BY <1>0, <1>b, <3>1, <4>1, <4>2 DEF DeleteRow, IsLocal, RowStands, TypeOK
    <3> QED
      BY <2>2, <3>2, <3>3 DEF DeleteStatus, URI
  <2>3. CASE AddMark(t) \/ Reread(t) \/ RemoveMark(t)
    <3>1. Kind(t) \in Kinds /\ op' = op
      BY <1>a, <2>3 DEF AddMark, Reread, RemoveMark, Phase
    <3>2. Kind(t)' # "delete"
      BY <3>1 DEF Kind, Kinds
    <3>3. task'[t].at # "insertRow"
      <4>1. AfterAdd(t) # "insertRow"
        BY DEF AfterAdd
      <4> QED
        BY <2>0, <2>3, <4>1 DEF AddMark, Reread, RemoveMark
    <3> QED
      BY <3>2, <3>3
  <2>4. CASE FindRow(t) \/ InsertRow(t)
    <3>1. op[t] \in OpType
      BY <1>a, <2>4 DEF FindRow, InsertRow, Phase, InFlight
    <3>2. AfterLoad(t) \in {"deleteRow", "add", "readMark", "remove"}
      BY <3>1, AfterLoadValue
    <3>3. task'[t].at \in {"deleteRow", "add", "readMark", "remove", "findCached", "failed"}
      BY <2>0, <2>4, <3>2 DEF FindRow, InsertRow
    <3> QED
      BY <3>3
  <2>5. CASE Arrive(t) \/ ReadMark(t) \/ Spawn(t) \/ Drop(t)
    BY <2>0, <2>5 DEF Arrive, ReadMark, Spawn, Drop
  <2> QED
    BY <1>3, <2>1, <2>2, <2>3, <2>4, <2>5 DEF Step
<1>4. ASSUME NEW t \in Requests
      PROVE  /\ task'[t].at = "spawn" /\ Kind(t)' = "delete" => row'[URI(t)'] # URI(t)'
             /\ task'[t].at = "insertRow" /\ URI(t)' \in Local => task'[t].row # URI(t)'
  <2>1. CASE Restart
    <3>1. task'[t].at = "dropped" \/ (task'[t] = task[t] /\ op'[t] = op[t])
      BY <1>0, <2>1 DEF Restart, At, TypeOK, Tasks
    <3> QED
      BY <1>2, <3>1
  <2>2. CASE ~Restart
    <3>1. \/ task'[t] = task[t] /\ op'[t] = op[t]
          \/ \E r \in Requests : Arrive(r) \/ Step(r) \/ Drop(r)
      BY <2>2 DEF Next, vars, Inbox, HandleCreate, Evict, HandleDelete, FindDeleted,
                  DeletePersisted, Receive, Lose
    <3> QED
      BY <1>0, <1>2, <1>3, <3>1, OtherRequests
  <2> QED
    BY <2>1, <2>2
<1>5. ASSUME NEW m \in mail', m.act = "delete" PROVE row'[m.of] # m.of
  <2>1. CASE m \in mail
    BY <1>0, <1>1, <1>5, <2>1 DEF DeletedIsGone, TypeOK, Activities
  <2>2. CASE m \notin mail
    <3>1. PICK r \in Requests : AddMark(r) \/ RemoveMark(r) \/ Spawn(r)
      BY <1>5, <2>2 DEF Next, vars, Arrive, Drop, Step, Inbox, HandleCreate, Evict, HandleDelete,
           FindDeleted, DeletePersisted, Receive, Lose, Restart, FindRow, FindCached, InsertRow,
           Reread, ReadMark, DeleteStatus
    <3>2. Act(r) # "delete"
      BY DEF Act
    <3>3. Spawn(r) /\ Kind(r) = "delete" /\ m.of = URI(r)
      BY <1>5, <2>2, <3>1, <3>2 DEF AddMark, RemoveMark, Spawn, SendMark
    <3> QED
      BY <3>3 DEF Spawn, DeletedIsGone
  <2> QED
    BY <2>1, <2>2
<1> QED
  BY <1>4, <1>5 DEF DeletedIsGone

\* Mark m is known, on its way, or about to be sent by its request.
Underway(m) ==
    \/ m \in known
    \/ [act |-> "make", of |-> m] \in mail
    \/ task[m].at = "reread" /\ RowStands(m)
    \/ task[m].at = "spawn" /\ task[m].held = m

NothingLost ==
    "faulty" \notin mode =>
        \A k \in {"favourite", "repost"}, u \in Statuses, m \in Requests :
            mark[k][u] = m /\ Federated(k, u, row[u]) => Underway(m)

\* A step of which m's request, row and mark are not a part.
LEMMA Steady ==
    ASSUME IInv, NothingLost, "faulty" \notin mode,
           NEW k \in {"favourite", "repost"}, NEW u \in Statuses, NEW m \in Requests,
           mark[k][u] = m, row'[u] = row[u], Federated(k, u, row'[u]),
           known \subseteq known', mail \subseteq mail',
           \/ task'[m] = task[m] /\ op'[m] = op[m]
           \/ task[m].at \notin {"reread", "spawn"}
    PROVE  Underway(m)'
<1>1. URI(m) = u
  BY ConstantsAssumption DEF IInv, Placed, Kinds
<1>2. Underway(m)
  BY DEF NothingLost
<1> QED
  BY <1>1, <1>2 DEF Underway, RowStands, URI

LEMMA NothingLostInv ==
    ASSUME IInv, IInv', DeletedIsGone, NothingLost, [Next]_vars PROVE NothingLost'
<1>0. TypeOK /\ TypeOK' /\ Placed /\ UndoInv
  BY DEF IInv
<1>a. \A r \in Requests : Phase(r) /\ Fresh(r)
  BY DEF IInv
<1>m. mode' = mode
  <2>1. ASSUME NEW r \in Requests, Step(r) PROVE mode' = mode
    BY <2>1 DEF Step, FindRow, FindCached, InsertRow, AddMark, Reread, ReadMark, RemoveMark,
                DeleteStatus, Spawn
  <2>2. ASSUME NEW u \in Remote, Inbox(u) PROVE mode' = mode
    BY <2>2 DEF Inbox, HandleCreate, Evict, HandleDelete, FindDeleted, DeletePersisted
  <2> QED
    BY <2>1, <2>2 DEF Next, vars, Arrive, Drop, Receive, Lose, Restart
<1> SUFFICES ASSUME "faulty" \notin mode,
                    NEW k \in {"favourite", "repost"}, NEW u \in Statuses, NEW m \in Requests,
                    mark'[k][u] = m, Federated(k, u, row'[u])
             PROVE  Underway(m)'
  BY <1>m DEF NothingLost, Federated, IsLocal, IsVisible
<1>k. k \in Kinds /\ m # None
  BY ConstantsAssumption DEF Kinds
<1>s. ASSUME mark[k][u] = m, row'[u] = row[u], known \subseteq known', mail \subseteq mail',
             \/ task'[m] = task[m] /\ op'[m] = op[m]
             \/ task[m].at \notin {"reread", "spawn"}
      PROVE  Underway(m)'
  BY <1>s, Steady
<1>1. ASSUME NEW r \in Requests, Arrive(r) PROVE Underway(m)'
  <2>1. m # r
    BY <1>a, <1>1, <1>k DEF Arrive, Fresh, Before
  <2> QED
    BY <1>0, <1>1, <1>s, <2>1, OtherRequests DEF Arrive
<1>2. ASSUME NEW r \in Requests, FindRow(r) \/ FindCached(r) \/ ReadMark(r)
      PROVE  Underway(m)'
  <2>1. m # r
    BY <1>a, <1>2, <1>k DEF FindRow, FindCached, ReadMark, Fresh, Before
  <2>2. Step(r)
    BY <1>2 DEF Step
  <2> QED
    BY <1>0, <1>2, <1>s, <2>1, <2>2, OtherRequests DEF FindRow, FindCached, ReadMark
<1>3. ASSUME NEW r \in Requests, InsertRow(r) PROVE Underway(m)'
  <2>1. m # r
    BY <1>a, <1>3, <1>k DEF InsertRow, Fresh, Before
  <2>2. Step(r)
    BY <1>3 DEF Step
  <2>3. row'[u] = row[u]
    BY <1>0, <1>3, <1>k DEF InsertRow, TypeOK
  <2> QED
    BY <1>0, <1>3, <1>s, <2>1, <2>2, <2>3, OtherRequests DEF InsertRow
<1>4. ASSUME NEW r \in Requests, AddMark(r) PROVE Underway(m)'
  <2>0. /\ task[r].at = "add" /\ op[r] \in OpType /\ Kind(r) \in Kinds /\ op[r].add
        /\ URI(r) \in Statuses /\ Step(r)
    BY <1>0, <1>4, <1>a, Types DEF AddMark, Phase, InFlight, Step
  <2>1. CASE mark[k][u] = m
    <3>1. m # r
      BY <1>a, <1>k, <2>0, <2>1 DEF Fresh, Before
    <3> QED
      BY <1>0, <1>4, <1>s, <2>0, <2>1, <3>1, OtherRequests DEF AddMark, SendMark
  <2>2. CASE mark[k][u] # m
    <3>1. /\ RowStands(r) /\ SetMark(r, r) /\ Goto(r, AfterAdd(r), task[r].row, r)
          /\ Kind(r) = "favourite" /\ Federated("favourite", URI(r), task[r].row) => SendMark(r, r)
      BY <1>4, <2>2 DEF AddMark
    <3>2. m = r /\ Kind(r) = k /\ URI(r) = u
      BY <1>0, <1>k, <2>0, <2>2, <3>1 DEF SetMark, TypeOK
    <3>3. Federated(k, URI(r), task[r].row) /\ row' = row /\ op' = op
      BY <1>4, <3>1, <3>2 DEF AddMark, RowStands
    <3>4. CASE k = "favourite"
      BY <2>0, <3>1, <3>2, <3>3, <3>4 DEF SendMark, Act, Underway
    <3>5. CASE k = "repost"
      <4>1. AfterAdd(r) \in {"reread", "spawn"}
        BY <2>0, <3>2, <3>3, <3>5 DEF AfterAdd, OpType
      <4>2. task'[r].at = AfterAdd(r) /\ task'[r].row = task[r].row /\ task'[r].held = r
        BY <1>0, <3>1, <4>1 DEF Goto, Ended, TypeOK, Tasks
      <4> QED
        BY <3>1, <3>2, <3>3, <4>1, <4>2 DEF Underway, RowStands, URI
    <3> QED
      BY <3>4, <3>5
  <2> QED
    BY <2>1, <2>2
<1>5. ASSUME NEW r \in Requests, Reread(r) PROVE Underway(m)'
  <2>0. Step(r) /\ task[r].at = "reread" /\ Kind(r) = "repost"
    BY <1>5, <1>a DEF Step, Reread, Phase
  <2>1. CASE m # r
    BY <1>0, <1>5, <1>s, <2>0, <2>1, OtherRequests DEF Reread
  <2>2. CASE m = r
    <3>1. Underway(m) /\ Kind(m) = k /\ URI(m) = u /\ mark[k][u] = m
      BY <1>0, <1>5, <1>k DEF NothingLost, Placed, Reread
    <3>2. CASE RowStands(r)
      <4>1. MarkOn(r) = m /\ Federated("repost", URI(r), task[r].row)
        BY <1>5, <2>0, <2>2, <3>1, <3>2 DEF MarkOn, RowStands, Reread
      <4>2. Goto(r, "spawn", task[r].row, m)
        BY <1>5, <1>k, <4>1 DEF Reread
      <4> QED
        BY <1>0, <2>2, <4>2 DEF Goto, Ended, Underway, TypeOK, Tasks
    <3>3. CASE ~RowStands(r)
      BY <1>5, <2>0, <2>2, <3>1, <3>3 DEF Reread, Underway
    <3> QED
      BY <3>2, <3>3
  <2> QED
    BY <2>1, <2>2
<1>6. ASSUME NEW r \in Requests, RemoveMark(r) PROVE Underway(m)'
  <2>1. mark[k][u] = m
    BY <1>0, <1>6, <1>a, <1>k DEF RemoveMark, SetMark, TypeOK, Phase
  <2>2. Step(r) /\ task[r].at = "remove" /\ row' = row /\ known' = known /\ mail \subseteq mail'
    BY <1>6 DEF Step, RemoveMark, SendMark
  <2> QED
    BY <1>0, <1>s, <2>1, <2>2, OtherRequests
<1>7. ASSUME NEW v \in Statuses, DeleteRow(v) PROVE mark[k][u] = m /\ row'[u] = row[u]
  BY <1>0, <1>7, <1>k DEF DeleteRow, TypeOK
<1>8. ASSUME NEW r \in Requests, DeleteStatus(r) PROVE Underway(m)'
  <2>0. Step(r) /\ task[r].at = "deleteRow" /\ URI(r) \in Statuses
    BY <1>0, <1>8, <1>a, Types DEF Step, DeleteStatus, Phase, InFlight
  <2>1. mark[k][u] = m /\ row'[u] = row[u]
    BY <1>7, <1>8, <2>0 DEF DeleteStatus
  <2> QED
    BY <1>0, <1>8, <1>s, <2>0, <2>1, OtherRequests DEF DeleteStatus
<1>9. ASSUME NEW r \in Requests, Spawn(r) PROVE Underway(m)'
  <2>0. Step(r) /\ task[r].at = "spawn" /\ mark' = mark /\ row' = row /\ known' = known
    BY <1>9 DEF Step, Spawn
  <2>1. IF Kind(r) = "delete"
        THEN mail' = mail \cup {[act |-> "delete", of |-> URI(r)]} ELSE SendMark(r, task[r].held)
    BY <1>9 DEF Spawn
  <2>2. CASE m # r
    BY <1>0, <1>s, <2>0, <2>1, <2>2, OtherRequests DEF SendMark
  <2>3. CASE m = r
    <3>1. Underway(m) /\ Kind(m) = k /\ op[m].add
      BY <1>0, <1>k, <2>0 DEF NothingLost, Placed
    <3>2. Kind(r) # "delete"
      BY <2>3, <3>1
    <3> QED
      BY <2>0, <2>1, <2>3, <3>1, <3>2 DEF SendMark, Act, Underway
  <2> QED
    BY <2>2, <2>3
<1>10. ASSUME NEW v \in Remote, Inbox(v) PROVE Underway(m)'
  <2>1. mark[k][u] = m /\ row'[u] = row[u]
    BY <1>7, <1>10 DEF Inbox, HandleCreate, Evict, HandleDelete, FindDeleted, DeletePersisted,
                       Statuses
  <2> QED
    BY <1>10, <1>s, <2>1
    DEF Inbox, HandleCreate, Evict, HandleDelete, FindDeleted, DeletePersisted
<1>11. ASSUME NEW x \in mail, Receive(x) PROVE Underway(m)'
  <2>1. Underway(m) /\ Kind(m) = k /\ URI(m) = u /\ mark[k][u] = m
    BY <1>0, <1>11, <1>k DEF NothingLost, Placed, Receive
  <2>2. x \in Activities
    BY <1>0 DEF TypeOK
  <2>3. CASE m \in known
    <3>1. x.act = "undo" => x.of # m
      BY <1>0, <1>k, <2>1 DEF UndoInv
    <3>2. x.act = "delete" => ~(URI(m) = x.of /\ Kind(m) = "repost")
      BY <1>11, <2>1 DEF DeletedIsGone, Federated, IsVisible, Receive
    <3>3. m \in known'
      BY <1>11, <2>2, <2>3, <3>1, <3>2 DEF Receive, Activities
    <3> QED
      BY <3>3 DEF Underway
  <2>4. CASE [act |-> "make", of |-> m] \in mail
    <3>1. [act |-> "make", of |-> m] \in mail' \/ m \in known'
      BY <1>11, <2>4 DEF Receive
    <3> QED
      BY <3>1 DEF Underway
  <2> QED
    BY <1>11, <2>1, <2>3, <2>4 DEF Receive, Underway, RowStands, URI
<1>12. ASSUME UNCHANGED vars PROVE Underway(m)'
  BY <1>12, <1>s DEF vars
<1> QED
  BY <1>1, <1>2, <1>3, <1>4, <1>5, <1>6, <1>8, <1>9, <1>10, <1>11, <1>12
  DEF Next, Step, Drop, Lose, Restart

\* Without faults, whatever requests overlap, a favourite of a remote status
\* gets known to its author and a repost of a visible status to the followers:
\* favourite_status and reblog_status and the deliveries they spawn.
THEOREM StandingIsKnownHolds == Spec => []StandingIsKnown
<1>1. Init => DeletedIsGone /\ NothingLost
  BY ConstantsAssumption DEF Init, At, DeletedIsGone, NothingLost, Kinds
<1>2. IInv /\ DeletedIsGone /\ NothingLost /\ [Next]_vars =>
         IInv' /\ DeletedIsGone' /\ NothingLost'
  BY NextInv, DeletedInv, NothingLostInv
<1>3. IInv /\ NothingLost => StandingIsKnown
  <2> SUFFICES ASSUME IInv, NothingLost, "faulty" \notin mode, Settled,
                      NEW k \in {"favourite", "repost"}, NEW u \in Statuses,
                      mark[k][u] # None, Federated(k, u, row[u])
               PROVE  mark[k][u] \in known
    BY DEF StandingIsKnown
  <2>1. mark[k][u] \in Requests
    BY DEF IInv, TypeOK, Kinds
  <2> QED
    BY <2>1 DEF NothingLost, Underway, Settled, InFlight
<1> QED
  BY InitInv, <1>1, <1>2, <1>3, PTL DEF Spec

-----------------------------------------------------------------------------
(* An owner who waits, when nothing fails: what is known stands.           *)

\* One request or one delivery is under way.
Alone ==
    /\ \A q, r \in Requests : task[q].at \in InFlight /\ task[r].at \in InFlight => q = r
    /\ \A r \in Requests : task[r].at \in InFlight => mail = {}
    /\ \A m, n \in mail : m = n

\* The others know, or are being told, of mark m.
Sent(m) == m \in known \/ [act |-> "make", of |-> m] \in mail

\* The others are being told, or about to be, that mark m has gone.
Ending(m) ==
    \/ [act |-> "undo", of |-> m] \in mail
    \/ Kind(m) = "repost" /\ [act |-> "delete", of |-> URI(m)] \in mail
    \/ \E r \in Requests :
           /\ task[r].at = "spawn"
           /\ IF Kind(r) = "delete" THEN Kind(m) = "repost" /\ URI(r) = URI(m)
              ELSE ~op[r].add /\ task[r].held = m

\* Only what the others are told of is sent: a mark that stands is one they are
\* told of, and a favourite of the owner's status is of a placeholder.
Right(m) ==
    /\ task[m].at \notin Before /\ Kind(m) \in {"favourite", "repost"}
    /\ mark[Kind(m)][URI(m)] = m => Federated(Kind(m), URI(m), row[URI(m)])
    /\ Kind(m) = "favourite" /\ URI(m) \in Local => row[URI(m)] # URI(m)

Told == \A m \in Requests : Sent(m) =>
            /\ Right(m)
            /\ URI(m) \notin gone => mark[Kind(m)][URI(m)] = m \/ Ending(m)

\* What a request has read of a status that its author has not deleted.
Seen(r) ==
    task[r].at \in InFlight /\ URI(r) \notin gone =>
        /\ task[r].at \in {"readMark", "reread"} => RowStands(r)
        /\ task[r].at = "reread" => mark["repost"][URI(r)] # None
        /\ /\ task[r].at \in {"find", "findCached", "insertRow", "remove"}
           /\ task[r].held # Unread /\ ~op[r].add /\ Kind(r) \in {"favourite", "repost"}
           => task[r].held = mark[Kind(r)][URI(r)]

\* The repost that is about to be announced.
Announced(r) ==
    task[r].at = "spawn" /\ Kind(r) # "delete" /\ op[r].add =>
        LET m == task[r].held
        IN  /\ Kind(m) = "repost" /\ URI(m) = URI(r)
            /\ mark["repost"][URI(m)] = m => Federated("repost", URI(m), row[URI(m)])
            /\ URI(m) \notin gone => mark["repost"][URI(m)] = m

Asked == \A r \in Requests : task[r].at # "idle" => op[r] \in OpType

Reaped == \A u \in Remote : reaper[u] # None => u \in gone

Faithful ==
    /\ Alone /\ Told /\ Asked /\ Reaped
    /\ \A r \in Requests : Seen(r) /\ Announced(r)

KnownInv == mode = {"serial"} => Faithful

\* A request that takes a step is the only one that does.
LEMMA StepAlone ==
    ASSUME IInv, Alone, NEW r \in Requests, Step(r)
    PROVE  /\ task[r].at \in InFlight /\ mail = {} /\ op[r] \in OpType /\ URI(r) \in Statuses
           /\ UNCHANGED <<op, gone, known, reaper>>
           /\ \A t \in Requests \ {r} : task'[t] = task[t] /\ task[t].at \notin InFlight
           /\ TypeOK /\ Placed /\ Phase(r)
<1>1. task[r].at \in InFlight
  BY DEF Step, FindRow, FindCached, InsertRow, AddMark, Reread, ReadMark, RemoveMark,
         DeleteStatus, Spawn, InFlight
<1>2. UNCHANGED <<op, gone, known, reaper>>
  BY DEF Step, FindRow, FindCached, InsertRow, AddMark, Reread, ReadMark, RemoveMark,
         DeleteStatus, Spawn
<1>3. TypeOK /\ Placed /\ Phase(r)
  BY DEF IInv
<1>4. op[r] \in OpType /\ URI(r) \in Statuses
  BY <1>1, <1>3, Types DEF Phase
<1> QED
  BY <1>1, <1>2, <1>3, <1>4, OtherRequests DEF Alone

\* What it leaves to show.
LEMMA StepFaithful ==
    ASSUME IInv, Faithful, NEW r \in Requests, Step(r),
           task'[r].at \in InFlight => mail' = {}, \A m, n \in mail' : m = n,
           Told', Seen(r)', Announced(r)'
    PROVE  Faithful'
<1>1. /\ op[r] \in OpType
      /\ UNCHANGED <<op, gone, known, reaper>>
      /\ \A t \in Requests \ {r} : task'[t] = task[t] /\ task[t].at \notin InFlight
  BY StepAlone DEF Faithful
<1>2. Alone'
  BY <1>1 DEF Alone
<1>3. Asked' /\ Reaped'
  BY <1>1 DEF Faithful, Asked, Reaped
<1>4. ASSUME NEW t \in Requests \ {r} PROVE Seen(t)' /\ Announced(t)'
  BY <1>1, <1>4 DEF Seen, Announced, InFlight
<1> QED
  BY <1>2, <1>3, <1>4 DEF Faithful

\* A request that leaves the marks, and rows that have marks, alone, and is not
\* about to spawn a delivery.
LEMMA QuietTold ==
    ASSUME IInv, Faithful, NEW r \in Requests, Step(r), UNCHANGED <<mark, mail>>,
           \A u \in Statuses : row[u] # None => row'[u] = row[u],
           \A u \in Local : row[u] # u => row'[u] # u,
           task[r].at # "spawn",
           task'[r].at \in Before => task[r].at \in Before
    PROVE  Told'
<1>1. /\ UNCHANGED <<op, gone, known>> /\ TypeOK
      /\ \A t \in Requests \ {r} : task'[t] = task[t]
  BY StepAlone DEF Faithful
<1> SUFFICES ASSUME NEW m \in Requests, Sent(m)'
             PROVE  /\ Right(m)'
                    /\ URI(m)' \notin gone' => mark'[Kind(m)'][URI(m)'] = m \/ Ending(m)'
  BY DEF Told
<1>2. /\ Sent(m) /\ Right(m) /\ URI(m)' = URI(m) /\ Kind(m)' = Kind(m)
      /\ URI(m) \notin gone => mark[Kind(m)][URI(m)] = m \/ Ending(m)
  BY <1>1 DEF Sent, Faithful, Told, URI, Kind
<1>3. Ending(m) => Ending(m)'
  BY <1>1 DEF Ending, Kind, URI
<1>4. Right(m)'
  <2>1. task'[m].at \notin Before
    BY <1>1, <1>2 DEF Right
  <2>2. ASSUME mark[Kind(m)][URI(m)] = m
        PROVE  row'[URI(m)] = row[URI(m)]
    <3>1. URI(m) \in Statuses /\ Kind(m) \in Kinds
      BY <1>2, Types, <1>1 DEF Right, Kinds, Faithful, Asked, Before
    <3> QED
      BY <1>1, <2>2, <3>1, Types DEF TypeOK
  <2>3. URI(m) \in Local /\ row[URI(m)] # URI(m) => row'[URI(m)] # URI(m)
    OBVIOUS
  <2> QED
    BY <1>1, <1>2, <2>1, <2>2, <2>3 DEF Right
<1> QED
  BY <1>1, <1>2, <1>3, <1>4

LEMMA FindFaithful ==
    ASSUME IInv, Faithful, NEW r \in Requests, FindRow(r) \/ FindCached(r) PROVE Faithful'
<1>1. Step(r)
  BY DEF Step
<1>2. /\ TypeOK /\ Phase(r) /\ mail = {} /\ op[r] \in OpType /\ URI(r) \in Statuses /\ Seen(r)
      /\ UNCHANGED <<op, gone>>
  BY <1>1, StepAlone DEF Faithful
<1>3. UNCHANGED <<mark, mail, row>> /\ task[r].at \in {"find", "findCached"}
  BY DEF FindRow, FindCached
<1>4. CASE Goto(r, AfterLoad(r), row[URI(r)], task[r].held)
  <2>1. row[URI(r)] \in RowIds \cup {None} /\ task[r].held \in Requests \cup {None, Unread}
    BY <1>2, Types DEF TypeOK
  <2>2. AfterLoad(r) \in {"deleteRow", "add", "readMark", "remove"}
        /\ AfterLoad(r) \in InFlight \ Ended
    BY <1>2, AfterLoadValue DEF InFlight, Ended
  <2>3. /\ task'[r].at = AfterLoad(r) /\ task'[r].row = row[URI(r)]
        /\ task'[r].held = task[r].held
    BY <1>2, <1>4, <2>1, <2>2, GotoTask
  <2>4. Told'
    BY <1>1, <1>3, <2>2, <2>3, QuietTold DEF Before
  <2>5. CASE task[r].at = "find"
    BY <1>1, <1>2, <1>3, <2>2, <2>3, <2>4, <2>5, StepFaithful
    DEF Seen, Announced, URI, Kind, RowStands, InFlight
  <2>6. CASE task[r].at = "findCached"
    BY <1>1, <1>2, <1>3, <2>2, <2>3, <2>4, <2>6, StepFaithful
    DEF Seen, Announced, URI, Kind, RowStands, InFlight
  <2> QED
    BY <1>3, <2>5, <2>6
<1>5. CASE \E s \in {"findCached", "failed"} : Proceed(r, s)
  <2>1. PICK s \in {"findCached", "failed"} : Proceed(r, s)
    BY <1>5
  <2>2. s \in InFlight \cup Ended /\ (s = "findCached" <=> s \notin Ended)
    BY DEF InFlight, Ended
  <2>3. task'[r].at = s /\ (s = "findCached" => task'[r].held = task[r].held)
    BY <1>2, <2>1, <2>2, ProceedTask
  <2>4. Told'
    BY <1>1, <1>3, <2>3, QuietTold DEF Before
  <2> QED
    BY <1>1, <1>2, <1>3, <2>3, <2>4, StepFaithful DEF Seen, Announced, URI, Kind, InFlight
<1>6. CASE FindCached(r)
  <2>1. PICK i \in RowIds : Goto(r, "insertRow", i, task[r].held)
    BY <1>2, <1>6, Types DEF FindCached
  <2>2. "insertRow" \in InFlight \cup Ended /\ "insertRow" \notin Ended
    BY DEF InFlight, Ended
  <2>3. task'[r].at = "insertRow" /\ task'[r].held = task[r].held
    BY <1>2, <2>1, <2>2, GotoTask, Types
  <2>4. Told'
    BY <1>1, <1>3, <2>3, QuietTold DEF Before
  <2> QED
    BY <1>1, <1>2, <1>3, <2>3, <2>4, StepFaithful DEF Seen, Announced, URI, Kind, InFlight
<1> QED
  BY <1>4, <1>5, <1>6 DEF FindRow

LEMMA InsertFaithful ==
    ASSUME IInv, DeletedIsGone, Faithful, NEW r \in Requests, InsertRow(r) PROVE Faithful'
<1>1. Step(r) /\ [Next]_vars
  BY DEF Step, Next
<1>2. /\ TypeOK /\ Phase(r) /\ mail = {} /\ op[r] \in OpType /\ URI(r) \in Statuses /\ Seen(r)
      /\ UNCHANGED <<op, gone>>
  BY <1>1, StepAlone DEF Faithful
<1>3. UNCHANGED <<mark, mail>> /\ task[r].at = "insertRow"
  BY DEF InsertRow
<1>4. \A u \in Local : row[u] # u => row'[u] # u
  BY <1>1, GoneForGood
<1>5. CASE /\ row[URI(r)] = None /\ row' = [row EXCEPT ![URI(r)] = task[r].row]
           /\ Proceed(r, AfterLoad(r))
  <2>1. AfterLoad(r) \in {"deleteRow", "add", "readMark", "remove"}
        /\ AfterLoad(r) \in InFlight \ Ended
    BY <1>2, AfterLoadValue DEF InFlight, Ended
  <2>2. /\ task'[r].at = AfterLoad(r) /\ task'[r].row = task[r].row
        /\ task'[r].held = task[r].held
    BY <1>2, <1>5, <2>1, ProceedTask
  <2>3. /\ \A u \in Statuses : row[u] # None => row'[u] = row[u]
        /\ row'[URI(r)] = task[r].row
    BY <1>2, <1>5 DEF TypeOK
  <2>4. Told'
    BY <1>1, <1>3, <1>4, <2>1, <2>2, <2>3, QuietTold DEF Before
  <2>5. Seen(r)' /\ Announced(r)'
    BY <1>2, <1>3, <2>1, <2>2, <2>3 DEF Seen, Announced, URI, Kind, RowStands, InFlight
  <2> QED
    BY <1>1, <1>2, <1>3, <2>4, <2>5, StepFaithful
<1>6. CASE Proceed(r, "failed") /\ UNCHANGED row
  <2>1. "failed" \in InFlight \cup Ended /\ "failed" \in Ended
    BY DEF Ended
  <2>2. task'[r].at = "failed"
    BY <1>2, <1>6, <2>1, ProceedTask
  <2>3. Told'
    BY <1>1, <1>3, <1>4, <1>6, <2>2, QuietTold DEF Before
  <2> QED
    BY <1>1, <1>2, <1>3, <2>2, <2>3, StepFaithful DEF Seen, Announced, InFlight
<1> QED
  BY <1>5, <1>6 DEF InsertRow

\* The mark that is read is the one there is, unless the author has deleted the
\* status.
LEMMA ReadFaithful ==
    ASSUME IInv, Faithful, NEW r \in Requests, ReadMark(r) PROVE Faithful'
<1>1. Step(r)
  BY DEF Step
<1>2. /\ TypeOK /\ Phase(r) /\ mail = {} /\ op[r] \in OpType /\ URI(r) \in Statuses /\ Seen(r)
      /\ UNCHANGED <<op, gone>>
  BY <1>1, StepAlone DEF Faithful
<1>3. /\ UNCHANGED <<mark, mail, row>> /\ task[r].at = "readMark" /\ Kind(r) \in Kinds
      /\ task[r].at \in InFlight
  BY <1>2 DEF ReadMark, Phase, InFlight
<1>4. PICK s \in {"find", "remove"} : Goto(r, s, task[r].row, MarkOn(r))
  BY DEF ReadMark
<1>5. task'[r].at = s /\ task'[r].held = MarkOn(r)
  <2>1. s \in InFlight \cup Ended /\ s \notin Ended
    BY DEF InFlight, Ended
  <2> QED
    BY <1>2, <1>3, <1>4, <2>1, GotoTask, Types, MarkOnValue
<1>6. Told'
  BY <1>1, <1>3, <1>5, QuietTold DEF Before
<1>7. URI(r) \notin gone => MarkOn(r) = mark[Kind(r)][URI(r)]
  BY <1>2, <1>3 DEF Seen, MarkOn
<1>8. Seen(r)' /\ Announced(r)'
  BY <1>2, <1>3, <1>5, <1>7 DEF Seen, Announced, URI, Kind
<1> QED
  BY <1>1, <1>2, <1>3, <1>6, <1>8, StepFaithful

\* The repost that is read back is one of the status, and stands.
LEMMA RereadFaithful ==
    ASSUME IInv, Faithful, NEW r \in Requests, Reread(r) PROVE Faithful'
<1>1. Step(r)
  BY DEF Step
<1>2. /\ TypeOK /\ Placed /\ Phase(r) /\ mail = {} /\ op[r] \in OpType /\ URI(r) \in Statuses
      /\ Seen(r) /\ UNCHANGED <<op, gone>>
  BY <1>1, StepAlone DEF Faithful
<1>3. /\ UNCHANGED <<mark, mail, row>> /\ task[r].at = "reread" /\ Kind(r) = "repost"
      /\ task[r].at \in InFlight /\ "repost" \in Kinds
  BY <1>2 DEF Reread, Phase, InFlight, Kinds
<1>4. PICK s \in {"failed", "spawn", "done"} :
          /\ Goto(r, s, task[r].row, MarkOn(r))
          /\ s = "spawn" => MarkOn(r) # None /\ Federated("repost", URI(r), task[r].row)
  BY DEF Reread
<1>5. task'[r].at = s /\ (s = "spawn" => task'[r].held = MarkOn(r))
  <2>1. s \in InFlight \cup Ended /\ (s = "spawn" <=> s \notin Ended)
    BY DEF InFlight, Ended
  <2> QED
    BY <1>2, <1>3, <1>4, <2>1, GotoTask, Types, MarkOnValue
<1>6. Told'
  BY <1>1, <1>3, <1>5, QuietTold DEF Before
<1>7. ASSUME s = "spawn"
      PROVE  /\ Kind(MarkOn(r)) = "repost" /\ URI(MarkOn(r)) = URI(r)
             /\ mark["repost"][URI(r)] = MarkOn(r)
             /\ Federated("repost", URI(r), row[URI(r)])
  <2>1. MarkOn(r) = mark["repost"][URI(r)] /\ MarkOn(r) # None /\ RowStands(r)
    BY <1>2, <1>3, <1>4, <1>7, MarkOnValue
  <2> QED
    BY <1>2, <1>3, <1>4, <1>7, <2>1 DEF Placed, RowStands
<1>8. Announced(r)'
  BY <1>2, <1>3, <1>5, <1>7 DEF Announced, URI, Kind
<1>9. Seen(r)'
  BY <1>5 DEF Seen
<1> QED
  BY <1>1, <1>2, <1>3, <1>6, <1>8, <1>9, StepFaithful

\* A mark that is made is told of at once, or announced next, when it has to be.
LEMMA AddFaithful ==
    ASSUME IInv, Faithful, NEW r \in Requests, AddMark(r) PROVE Faithful'
<1>1. Step(r)
  BY DEF Step
<1>2. /\ TypeOK /\ Placed /\ Phase(r) /\ mail = {} /\ op[r] \in OpType /\ URI(r) \in Statuses
      /\ UNCHANGED <<op, gone, known, row>> /\ Fresh(r) /\ Told
      /\ \A t \in Requests \ {r} : task'[t] = task[t] /\ task[t].at \notin InFlight
  BY <1>1, StepAlone DEF Faithful, IInv, AddMark
<1>3. task[r].at = "add" /\ Kind(r) \in Kinds /\ op[r].add /\ r # None
  BY <1>2, Types DEF AddMark, Phase
<1>4. CASE Proceed(r, "failed") /\ UNCHANGED <<mark, mail>>
  <2>1. "failed" \in InFlight \cup Ended /\ "failed" \in Ended
    BY DEF Ended
  <2>2. task'[r].at = "failed"
    BY <1>2, <1>4, <2>1, ProceedTask
  <2>3. Told'
    BY <1>1, <1>2, <1>3, <1>4, <2>2, QuietTold DEF Before
  <2> QED
    BY <1>1, <1>2, <1>4, <2>2, <2>3, StepFaithful DEF Seen, Announced, InFlight
<1>5. CASE /\ RowStands(r) /\ MarkOn(r) = None /\ SetMark(r, r)
           /\ IF Kind(r) = "favourite" /\ Federated("favourite", URI(r), task[r].row)
              THEN SendMark(r, r) ELSE UNCHANGED mail
           /\ Goto(r, AfterAdd(r), task[r].row, r)
  <2>1. /\ AfterAdd(r) \in {"done", "reread", "spawn"}
        /\ AfterAdd(r) # "done" => Kind(r) = "repost"
        /\ AfterAdd(r) = "spawn" => Federated("repost", URI(r), task[r].row)
    BY <1>2 DEF AfterAdd, OpType
  <2>2. /\ task'[r].at = AfterAdd(r)
        /\ AfterAdd(r) # "done" => task'[r].held = r /\ task'[r].row = task[r].row
    <3>1. AfterAdd(r) \in InFlight \cup Ended /\ (AfterAdd(r) # "done" => AfterAdd(r) \notin Ended)
      BY <2>1 DEF InFlight, Ended
    <3> QED
      BY <1>2, <1>5, <3>1, GotoTask, Types
  <2>3. \A k \in Kinds, u \in Statuses :
            mark'[k][u] = IF k = Kind(r) /\ u = URI(r) THEN r ELSE mark[k][u]
    BY <1>2, <1>3, <1>5 DEF SetMark, TypeOK
  <2>4. mark[Kind(r)][URI(r)] = None
    BY <1>5 DEF MarkOn
  <2>5. /\ mail' \subseteq {[act |-> "make", of |-> r]}
        /\ mail' # {} => Kind(r) = "favourite" /\ Federated("favourite", URI(r), task[r].row)
    BY <1>2, <1>3, <1>5 DEF SendMark, Act
  <2>6. \A q \in Requests : URI(q)' = URI(q) /\ Kind(q)' = Kind(q)
    BY <1>2 DEF URI, Kind
  <2>7. ASSUME NEW m \in Requests, Sent(m)'
        PROVE  Right(m)' /\ (URI(m)' \notin gone' => mark'[Kind(m)'][URI(m)'] = m \/ Ending(m)')
    <3>1. CASE m = r
      <4>1. m \notin known
        BY <1>2, <1>3, <3>1 DEF Told, Sent, Right, Before
      <4>2. Kind(r) = "favourite" /\ Federated("favourite", URI(r), task[r].row)
        BY <1>2, <2>5, <2>7, <4>1 DEF Sent
      <4>3. mark'[Kind(r)][URI(r)] = r /\ task'[r].at \notin Before
        BY <1>2, <1>3, <2>1, <2>2, <2>3 DEF Before
      <4>4. row'[URI(r)] = task[r].row
        BY <1>2, <1>5 DEF RowStands
      <4> QED
        BY <1>2, <2>6, <3>1, <4>2, <4>3, <4>4 DEF Right, Federated, IsLocal
    <3>2. CASE m # r
      <4>1. /\ Sent(m) /\ Right(m)
            /\ URI(m) \notin gone => mark[Kind(m)][URI(m)] = m \/ Ending(m)
        BY <1>2, <2>5, <2>7, <3>2 DEF Sent, Told
      <4>2. URI(m) \in Statuses /\ Kind(m) \in Kinds
        BY <1>2, <4>1, Types DEF Right, Kinds, Faithful, Asked, Before
      <4>3. mark'[Kind(m)][URI(m)] = m <=> mark[Kind(m)][URI(m)] = m
        BY <2>3, <2>4, <3>2, <4>2, <1>2, Types
      <4>4. ~Ending(m)
        BY <1>2, <1>3 DEF Ending, InFlight
      <4>5. Right(m)'
        BY <1>2, <2>6, <3>2, <4>1, <4>3 DEF Right
      <4> QED
        BY <1>2, <2>6, <4>1, <4>3, <4>4, <4>5
    <3> QED
      BY <3>1, <3>2
  <2>8. Told'
    BY <2>7 DEF Told
  <2>9. Seen(r)'
    BY <1>2, <1>3, <1>5, <2>1, <2>2, <2>3, <2>6 DEF Seen, RowStands, Kinds
  <2>10. Announced(r)'
    <3> SUFFICES ASSUME task'[r].at = "spawn" PROVE Announced(r)'
      BY DEF Announced
    <3>1. Kind(r) = "repost" /\ task'[r].held = r /\ Federated("repost", URI(r), task[r].row)
      BY <2>1, <2>2
    <3>2. mark'["repost"][URI(r)] = r /\ row'[URI(r)] = task[r].row
      BY <1>2, <1>3, <1>5, <2>3, <3>1 DEF RowStands
    <3> QED
      BY <2>6, <3>1, <3>2 DEF Announced
  <2>11. task'[r].at \in InFlight => mail' = {}
    BY <2>1, <2>2, <2>5 DEF InFlight
  <2> QED
    BY <1>1, <2>5, <2>8, <2>9, <2>10, <2>11, StepFaithful
<1> QED
  BY <1>4, <1>5 DEF AddMark

\* The mark that is removed is the one that was read: the others are told.
LEMMA RemoveFaithful ==
    ASSUME IInv, Faithful, NEW r \in Requests, RemoveMark(r) PROVE Faithful'
<1>1. Step(r)
  BY DEF Step
<1>2. /\ TypeOK /\ Placed /\ Phase(r) /\ mail = {} /\ op[r] \in OpType /\ URI(r) \in Statuses
      /\ UNCHANGED <<op, gone, known, row>> /\ Seen(r) /\ Told
      /\ \A t \in Requests \ {r} : task'[t] = task[t] /\ task[t].at \notin InFlight
  BY <1>1, StepAlone DEF Faithful, RemoveMark
<1>3. /\ task[r].at = "remove" /\ task[r].at \in InFlight /\ Kind(r) \in Kinds /\ ~op[r].add
      /\ Kind(r) # "bookmark" => task[r].held # Unread
  BY <1>2, Types DEF RemoveMark, Phase, InFlight
<1>4. PICK s \in {"spawn", "done"} :
          /\ Proceed(r, s)
          /\ s = "spawn" <=> /\ Kind(r) = "repost" /\ task[r].held # None
                             /\ Federated("repost", URI(r), task[r].row)
  BY DEF RemoveMark
<1>5. task'[r].at = s /\ (s = "spawn" => task'[r].held = task[r].held)
  <2>1. s \in InFlight \cup Ended /\ (s = "spawn" <=> s \notin Ended)
    BY DEF InFlight, Ended
  <2> QED
    BY <1>2, <1>4, <2>1, ProceedTask
<1>6. /\ mail' \subseteq {[act |-> "undo", of |-> task[r].held]}
      /\ mail' # {} => Kind(r) = "favourite"
      /\ /\ Kind(r) = "favourite" /\ task[r].held # None
         /\ Federated("favourite", URI(r), task[r].row)
         => [act |-> "undo", of |-> task[r].held] \in mail'
  BY <1>2, <1>3 DEF RemoveMark, SendMark, Act
<1>7. \A k \in Kinds, u \in Statuses :
          \/ mark'[k][u] = mark[k][u]
          \/ k = Kind(r) /\ u = URI(r) /\ RowStands(r) /\ mark'[k][u] = None
  BY <1>2, <1>3 DEF RemoveMark, SetMark, TypeOK
<1>8. \A q \in Requests : URI(q)' = URI(q) /\ Kind(q)' = Kind(q)
  BY <1>2 DEF URI, Kind
<1>9. ASSUME NEW m \in Requests, Sent(m)'
      PROVE  Right(m)' /\ (URI(m)' \notin gone' => mark'[Kind(m)'][URI(m)'] = m \/ Ending(m)')
  <2>1. /\ Sent(m) /\ Right(m)
        /\ URI(m) \notin gone => mark[Kind(m)][URI(m)] = m \/ Ending(m)
    BY <1>2, <1>6, <1>9 DEF Sent, Told
  <2>2. URI(m) \in Statuses /\ Kind(m) \in Kinds /\ m # None
    BY <1>2, <2>1, Types DEF Right, Kinds, Faithful, Asked, Before
  <2>3. ~Ending(m)
    BY <1>2, <1>3 DEF Ending, InFlight
  <2>4. Right(m)'
    <3>1. task'[m].at \notin Before
      BY <1>2, <1>5, <2>1 DEF Right, Before
    <3>2. mark'[Kind(m)][URI(m)] = m => mark[Kind(m)][URI(m)] = m
      BY <1>7, <2>2
    <3> QED
      BY <1>2, <1>8, <2>1, <3>1, <3>2 DEF Right
  <2>5. ASSUME URI(m) \notin gone, mark'[Kind(m)][URI(m)] # m PROVE Ending(m)'
    <3>1. mark[Kind(m)][URI(m)] = m /\ Kind(r) = Kind(m) /\ URI(r) = URI(m) /\ RowStands(r)
      BY <1>7, <2>1, <2>2, <2>3, <2>5
    <3>2. task[r].held = m
      BY <1>2, <1>3, <2>1, <2>5, <3>1 DEF Seen, Right
    <3>3. Federated(Kind(r), URI(r), task[r].row)
      BY <2>1, <3>1 DEF Right, RowStands
    <3>4. CASE Kind(r) = "favourite"
      BY <1>6, <2>2, <3>2, <3>3, <3>4 DEF Ending
    <3>5. CASE Kind(r) = "repost"
      <4>1. task'[r].at = "spawn" /\ task'[r].held = m /\ Kind(r)' # "delete" /\ ~op'[r].add
        BY <1>2, <1>3, <1>4, <1>5, <1>8, <2>2, <3>2, <3>3, <3>5
      <4> QED
        BY <4>1 DEF Ending
    <3> QED
      BY <2>1, <3>1, <3>4, <3>5 DEF Right
  <2> QED
    BY <1>2, <1>8, <2>4, <2>5
<1>10. Told'
  BY <1>9 DEF Told
<1>11. Seen(r)'
  BY <1>5 DEF Seen
<1>12. Announced(r)'
  BY <1>2, <1>3 DEF Announced
<1>13. task'[r].at \in InFlight => mail' = {}
  BY <1>4, <1>5, <1>6 DEF InFlight
<1> QED
  BY <1>1, <1>6, <1>10, <1>11, <1>12, <1>13, StepFaithful

\* A status that is deleted takes its reposts along, and has no favourites that
\* anybody was told of.
LEMMA DeleteFaithful ==
    ASSUME IInv, DeletedIsGone, Faithful, NEW r \in Requests, DeleteStatus(r) PROVE Faithful'
<1>1. Step(r) /\ [Next]_vars
  BY DEF Step, Next
<1>2. /\ TypeOK /\ Phase(r) /\ mail = {} /\ op[r] \in OpType /\ URI(r) \in Statuses
      /\ UNCHANGED <<op, gone, known, mail>> /\ Told
      /\ \A t \in Requests \ {r} : task'[t] = task[t] /\ task[t].at \notin InFlight
  BY <1>1, StepAlone DEF Faithful, DeleteStatus
<1>3. task[r].at = "deleteRow" /\ Kind(r) = "delete"
  BY <1>2 DEF DeleteStatus, Phase
<1>4. \A u \in Local : row[u] # u => row'[u] # u
  BY <1>1, GoneForGood
<1>5. CASE Proceed(r, "failed") /\ UNCHANGED <<row, mark>>
  <2>1. "failed" \in InFlight \cup Ended /\ "failed" \in Ended
    BY DEF Ended
  <2>2. task'[r].at = "failed"
    BY <1>2, <1>5, <2>1, ProceedTask
  <2>3. Told'
    BY <1>1, <1>2, <1>3, <1>4, <1>5, <2>2, QuietTold DEF Before
  <2> QED
    BY <1>1, <1>2, <2>2, <2>3, StepFaithful DEF Seen, Announced, InFlight
<1>6. CASE /\ IsLocal(URI(r), task[r].row)
           /\ IF RowStands(r) THEN DeleteRow(URI(r)) ELSE UNCHANGED <<row, mark>>
           /\ Proceed(r, "spawn")
  <2>1. "spawn" \in InFlight \cup Ended /\ "spawn" \notin Ended
    BY DEF InFlight, Ended
  <2>2. task'[r].at = "spawn"
    BY <1>2, <1>6, <2>1, ProceedTask
  <2>3. /\ \A k \in Kinds, u \in Statuses :
               \/ mark'[k][u] = mark[k][u] /\ row'[u] = row[u]
               \/ u = URI(r) /\ RowStands(r) /\ mark'[k][u] = None
    BY <1>2, <1>6 DEF DeleteRow, TypeOK
  <2>4. \A q \in Requests : URI(q)' = URI(q) /\ Kind(q)' = Kind(q)
    BY <1>2 DEF URI, Kind
  <2>5. ASSUME NEW m \in Requests, Sent(m)'
        PROVE  Right(m)' /\ (URI(m)' \notin gone' => mark'[Kind(m)'][URI(m)'] = m \/ Ending(m)')
    <3>1. /\ Sent(m) /\ Right(m)
          /\ URI(m) \notin gone => mark[Kind(m)][URI(m)] = m \/ Ending(m)
      BY <1>2, <2>5 DEF Sent, Told
    <3>2. URI(m) \in Statuses /\ Kind(m) \in Kinds /\ m # None
      BY <1>2, <3>1, Types DEF Right, Kinds, Faithful, Asked, Before
    <3>3. ~Ending(m)
      BY <1>2, <1>3 DEF Ending, InFlight
    <3>4. Right(m)'
      <4>1. task'[m].at \notin Before
        BY <1>2, <2>2, <3>1 DEF Right, Before
      <4>2. mark'[Kind(m)][URI(m)] = m => /\ mark[Kind(m)][URI(m)] = m
                                          /\ row'[URI(m)] = row[URI(m)]
        BY <2>3, <3>2
      <4> QED
        BY <1>2, <1>4, <2>4, <3>1, <4>1, <4>2 DEF Right
    <3>5. ASSUME URI(m) \notin gone, mark'[Kind(m)][URI(m)] # m PROVE Ending(m)'
      <4>1. URI(m) = URI(r) /\ RowStands(r)
        BY <2>3, <3>1, <3>2, <3>3, <3>5
      <4>2. URI(m) \in Local /\ row[URI(m)] = URI(m)
        BY <1>6, <4>1 DEF IsLocal, RowStands
      <4>3. Kind(m) = "repost"
        BY <3>1, <4>2 DEF Right
      <4> QED
        BY <1>3, <2>2, <2>4, <4>1, <4>3 DEF Ending
    <3> QED
      BY <1>2, <2>4, <3>4, <3>5
  <2>6. Told'
    BY <2>5 DEF Told
  <2>7. Seen(r)' /\ Announced(r)'
    BY <1>3, <2>2, <2>4 DEF Seen, Announced
  <2> QED
    BY <1>1, <1>2, <2>6, <2>7, StepFaithful
<1> QED
  BY <1>5, <1>6 DEF DeleteStatus

\* What is spawned is the news that was owed.
LEMMA SpawnFaithful ==
    ASSUME IInv, Faithful, "faulty" \notin mode, NEW r \in Requests, Spawn(r)
    PROVE  Faithful'
<1>1. Step(r)
  BY DEF Step
<1>2. /\ TypeOK /\ Placed /\ Phase(r) /\ mail = {} /\ op[r] \in OpType /\ URI(r) \in Statuses
      /\ UNCHANGED <<op, gone, known, row, mark>> /\ Told /\ Announced(r)
      /\ \A t \in Requests \ {r} : task'[t] = task[t] /\ task[t].at \notin InFlight
  BY <1>1, StepAlone DEF Faithful, Spawn
<1>3. task[r].at = "spawn"
  BY DEF Spawn
<1>4. task'[r].at = "done"
  <2>1. "done" \in InFlight \cup Ended /\ "done" \in Ended
    BY DEF Ended
  <2> QED
    BY <1>2, <2>1, ProceedTask DEF Spawn
<1>5. /\ Kind(r) = "delete" => mail' = {[act |-> "delete", of |-> URI(r)]}
      /\ Kind(r) # "delete" /\ op[r].add => mail' = {[act |-> "make", of |-> task[r].held]}
      /\ Kind(r) # "delete" /\ ~op[r].add => mail' = {[act |-> "undo", of |-> task[r].held]}
  BY <1>2 DEF Spawn, SendMark, Act
<1>6. \A q \in Requests : URI(q)' = URI(q) /\ Kind(q)' = Kind(q)
  BY <1>2 DEF URI, Kind
<1>7. ASSUME NEW m \in Requests, Sent(m)'
      PROVE  Right(m)' /\ (URI(m)' \notin gone' => mark'[Kind(m)'][URI(m)'] = m \/ Ending(m)')
  <2>1. CASE m \in known
    <3>1. /\ Right(m)
          /\ URI(m) \notin gone => mark[Kind(m)][URI(m)] = m \/ Ending(m)
      BY <1>2, <2>1 DEF Sent, Told
    <3>2. Right(m)'
      <4>1. task'[m].at \notin Before
        BY <1>2, <1>4, <3>1 DEF Right, Before
      <4> QED
        BY <1>2, <1>6, <3>1, <4>1 DEF Right
    <3>3. ASSUME Ending(m) PROVE Ending(m)'
      <4>1. IF Kind(r) = "delete" THEN Kind(m) = "repost" /\ URI(r) = URI(m)
            ELSE ~op[r].add /\ task[r].held = m
        BY <1>2, <3>3 DEF Ending, InFlight
      <4> QED
        BY <1>5, <1>6, <4>1 DEF Ending
    <3> QED
      BY <1>2, <1>6, <3>1, <3>2, <3>3
  <2>2. CASE m \notin known
    <3>1. /\ Kind(r) # "delete" /\ op[r].add /\ m = task[r].held
      BY <1>2, <1>5, <1>7, <2>2 DEF Sent
    <3>2. /\ Kind(m) = "repost"
          /\ mark["repost"][URI(m)] = m => Federated("repost", URI(m), row[URI(m)])
          /\ URI(m) \notin gone => mark["repost"][URI(m)] = m
      BY <1>2, <1>3, <3>1 DEF Announced
    <3>3. task'[m].at \notin Before
      <4>1. task[m].at \notin Before
        BY <3>1 DEF IInv, Fresh
      <4> QED
        BY <1>2, <1>4, <4>1 DEF Before
    <3> QED
      BY <1>2, <1>6, <3>2, <3>3 DEF Right
  <2> QED
    BY <2>1, <2>2
<1>8. Told'
  BY <1>7 DEF Told
<1>9. Seen(r)' /\ Announced(r)'
  BY <1>4 DEF Seen, Announced, InFlight
<1>10. task'[r].at \notin InFlight /\ \A m, n \in mail' : m = n
  BY <1>4, <1>5 DEF InFlight
<1> QED
  BY <1>1, <1>8, <1>9, <1>10, StepFaithful

\* A request that waited finds nothing under way.
LEMMA ArriveFaithful ==
    ASSUME IInv, Faithful, Settled, NEW r \in Requests, Arrive(r) PROVE Faithful'
<1>1. /\ TypeOK /\ task[r].at = "idle" /\ task[r].held = Unread /\ mail = {} /\ Told
      /\ \A t \in Requests : task[t].at \notin InFlight
      /\ UNCHANGED <<row, mark, gone, mail, known, reaper>>
  BY DEF IInv, Phase, Arrive, Settled, Faithful
<1>2. /\ task'[r].at = "find" /\ task'[r].held = Unread
      /\ op'[r] \in OpType
      /\ \A t \in Requests \ {r} : task'[t] = task[t] /\ op'[t] = op[t]
  <2>1. "find" \in InFlight \cup Ended /\ "find" \notin Ended
    BY DEF InFlight, Ended
  <2>2. task'[r].at = "find" /\ task'[r].held = Unread
    BY <1>1, <2>1, ProceedTask DEF Arrive
  <2>3. op'[r] \in OpType
    BY <1>1, ConstantsAssumption DEF Arrive, TypeOK
  <2> QED
    BY <1>1, <2>2, <2>3, OtherRequests
<1>3. Alone' /\ Reaped'
  BY <1>1, <1>2 DEF Alone, Reaped, Faithful
<1>4. Asked'
  BY <1>2 DEF Faithful, Asked
<1>5. ASSUME NEW t \in Requests PROVE Seen(t)' /\ Announced(t)'
  BY <1>1, <1>2 DEF Seen, Announced, InFlight
<1>6. ASSUME NEW m \in Requests, Sent(m)'
      PROVE  Right(m)' /\ (URI(m)' \notin gone' => mark'[Kind(m)'][URI(m)'] = m \/ Ending(m)')
  <2>1. /\ Sent(m) /\ Right(m)
        /\ URI(m) \notin gone => mark[Kind(m)][URI(m)] = m \/ Ending(m)
    BY <1>1, <1>6 DEF Sent, Told
  <2>2. m # r
    BY <1>1, <2>1 DEF Right, Before
  <2>3. ~Ending(m) /\ URI(m)' = URI(m) /\ Kind(m)' = Kind(m)
    BY <1>1, <1>2, <2>2 DEF Ending, InFlight, URI, Kind
  <2> QED
    BY <1>1, <1>2, <2>1, <2>2, <2>3 DEF Right
<1> QED
  BY <1>3, <1>4, <1>5, <1>6 DEF Faithful, Told

\* The inbox deletes rows of statuses only that their author has deleted.
LEMMA InboxFaithful ==
    ASSUME IInv, Faithful, NEW u \in Remote, Inbox(u) PROVE Faithful'
<1>1. TypeOK /\ Told /\ Reaped /\ UNCHANGED <<op, task, mail, known>> /\ gone \subseteq gone'
  BY DEF IInv, Faithful, Inbox, HandleCreate, Evict, HandleDelete, FindDeleted,
         DeletePersisted
<1>2. /\ \A k \in Kinds, v \in Statuses :
             mark'[k][v] = mark[k][v] \/ (v = u /\ mark'[k][v] = None)
      /\ \A v \in Statuses \ {u} : row'[v] = row[v]
      /\ \A k \in Kinds, v \in Statuses : mark'[k][v] # None => row'[v] = row[v]
      /\ UNCHANGED <<row, mark>> \/ u \in gone'
  <2>1. CASE DeletePersisted(u)
    <3>1. u \in gone /\ u \in Statuses /\ gone' = gone
      BY <1>1, <2>1 DEF DeletePersisted, Reaped, Statuses
    <3> QED
      BY <1>1, <2>1, <3>1 DEF DeletePersisted, DeleteRow, TypeOK
  <2>2. CASE UNCHANGED <<row, mark>>
    BY <2>2
  <2> QED
    BY <2>1, <2>2 DEF Inbox, HandleCreate, Evict, HandleDelete, FindDeleted
<1>3. Reaped'
  <2>1. CASE HandleCreate(u) \/ Evict(u)
    BY <1>1, <2>1 DEF Reaped, HandleCreate, Evict
  <2>2. CASE HandleDelete(u)
    BY <1>1, <2>2 DEF Reaped, TypeOK, HandleDelete
  <2>3. CASE FindDeleted(u)
    <3>1. u \in gone /\ gone' = gone
      BY <1>1, <2>3, ConstantsAssumption DEF Reaped, FindDeleted
    <3> QED
      BY <1>1, <2>3, <3>1 DEF Reaped, TypeOK, FindDeleted
  <2>4. CASE DeletePersisted(u)
    BY <1>1, <2>4 DEF Reaped, TypeOK, DeletePersisted
  <2> QED
    BY <2>1, <2>2, <2>3, <2>4 DEF Inbox
<1>4. \A q \in Requests : URI(q)' = URI(q) /\ Kind(q)' = Kind(q) /\ (Ending(q)' <=> Ending(q))
  BY <1>1 DEF URI, Kind, Ending
<1>5. ASSUME NEW t \in Requests PROVE Seen(t)'
  <2> SUFFICES ASSUME task[t].at \in InFlight, URI(t) \notin gone' PROVE Seen(t)'
    BY <1>1, <1>4 DEF Seen
  <2>1. /\ op[t] \in OpType /\ URI(t) \in Statuses /\ "repost" \in Kinds
        /\ Kind(t) \in {"favourite", "repost"} => Kind(t) \in Kinds
    BY <1>1, Types DEF IInv, Phase, Kinds
  <2>2. row'[URI(t)] = row[URI(t)] /\ \A k \in Kinds : mark'[k][URI(t)] = mark[k][URI(t)]
    BY <1>2, <2>1
  <2>3. Seen(t) /\ URI(t) \notin gone
    BY <1>1 DEF Faithful
  <2> QED
    BY <1>1, <1>4, <2>1, <2>2, <2>3 DEF Seen, RowStands
<1>6. ASSUME NEW t \in Requests PROVE Announced(t)'
  <2> SUFFICES ASSUME task[t].at = "spawn", Kind(t) # "delete", op[t].add PROVE Announced(t)'
    BY <1>1, <1>4 DEF Announced
  <2>1. /\ task[t].held \in Requests /\ op[t] \in OpType /\ URI(t) \in Statuses
        /\ "repost" \in Kinds /\ task[t].held # None
    BY <1>1, Types DEF IInv, Phase, InFlight, Kinds
  <2>2. Announced(t)
    BY DEF Faithful
  <2>3. URI(task[t].held) = URI(t) /\ Kind(task[t].held) = "repost"
    BY <2>2 DEF Announced
  <2>4. mark'["repost"][URI(t)] = task[t].held =>
            mark["repost"][URI(t)] = task[t].held /\ row'[URI(t)] = row[URI(t)]
    BY <1>2, <2>1
  <2>5. URI(t) \notin gone' => mark'["repost"][URI(t)] = mark["repost"][URI(t)]
    BY <1>2, <2>1
  <2> QED
    BY <1>1, <1>4, <2>1, <2>2, <2>3, <2>4, <2>5 DEF Announced
<1>7. ASSUME NEW m \in Requests, Sent(m)'
      PROVE  Right(m)' /\ (URI(m)' \notin gone' => mark'[Kind(m)'][URI(m)'] = m \/ Ending(m)')
  <2>1. /\ Sent(m) /\ Right(m)
        /\ URI(m) \notin gone => mark[Kind(m)][URI(m)] = m \/ Ending(m)
    BY <1>1, <1>7 DEF Sent, Told
  <2>2. URI(m) \in Statuses /\ Kind(m) \in Kinds /\ m # None
    BY <1>1, <2>1, Types DEF Right, Kinds, Faithful, Asked, Before
  <2>3. mark'[Kind(m)][URI(m)] = m => mark[Kind(m)][URI(m)] = m /\ row'[URI(m)] = row[URI(m)]
    BY <1>2, <2>2
  <2>4. URI(m) \in Local => row'[URI(m)] = row[URI(m)]
    BY <1>2, <2>2, ConstantsAssumption
  <2>5. Right(m)'
    BY <1>1, <1>4, <2>1, <2>3, <2>4 DEF Right
  <2>6. URI(m) \notin gone' => mark'[Kind(m)][URI(m)] = mark[Kind(m)][URI(m)]
    BY <1>2, <2>2
  <2> QED
    BY <1>1, <1>4, <2>1, <2>5, <2>6
<1>8. Alone' /\ Asked'
  BY <1>1 DEF Faithful, Alone, Asked
<1> QED
  BY <1>3, <1>5, <1>6, <1>7, <1>8 DEF Faithful, Told

\* News arrives, and nothing else is under way.
LEMMA ReceiveFaithful ==
    ASSUME IInv, Faithful, NEW x \in mail, Receive(x) PROVE Faithful'
<1>1. /\ TypeOK /\ Told /\ mail = {x} /\ x \in Activities
      /\ UNCHANGED <<row, mark, op, task, reaper, gone>>
      /\ \A t \in Requests : task[t].at \notin InFlight
  BY DEF IInv, TypeOK, Faithful, Alone, Receive
<1>2. mail' = {}
  BY <1>1 DEF Receive
<1>3. Alone' /\ Asked' /\ Reaped'
  BY <1>1, <1>2 DEF Faithful, Alone, Asked, Reaped
<1>4. \A t \in Requests : Seen(t)' /\ Announced(t)'
  BY <1>1 DEF Seen, Announced, InFlight
<1>5. \A q \in Requests : URI(q)' = URI(q) /\ Kind(q)' = Kind(q)
  BY <1>1 DEF URI, Kind
<1>6. ASSUME NEW m \in Requests, m \in known' PROVE Sent(m) /\ ~Ending(m)
  <2>1. CASE x.act = "make"
    <3>1. x = [act |-> "make", of |-> x.of] /\ known' = known \cup {x.of}
      BY <1>1, <2>1 DEF Activities, Receive
    <3> QED
      BY <1>1, <1>6, <2>1, <3>1 DEF Sent, Ending, InFlight
  <2>2. CASE x.act = "undo"
    <3>1. known' = known \ {x.of}
      BY <2>2 DEF Receive
    <3> QED
      BY <1>1, <1>6, <2>2, <3>1 DEF Sent, Ending, InFlight
  <2>3. CASE x.act = "delete"
    <3>1. known' = {y \in known : ~(URI(y) = x.of /\ Kind(y) = "repost")}
      BY <2>3 DEF Receive
    <3> QED
      BY <1>1, <1>6, <2>3, <3>1 DEF Sent, Ending, InFlight
  <2> QED
    BY <1>1, <2>1, <2>2, <2>3 DEF Activities
<1>7. ASSUME NEW m \in Requests, Sent(m)'
      PROVE  Right(m)' /\ (URI(m)' \notin gone' => mark'[Kind(m)'][URI(m)'] = m \/ Ending(m)')
  <2>1. m \in known'
    BY <1>2, <1>7 DEF Sent
  <2>2. Right(m) /\ (URI(m) \notin gone => mark[Kind(m)][URI(m)] = m)
    BY <1>1, <1>6, <2>1 DEF Told
  <2> QED
    BY <1>1, <1>5, <2>2 DEF Right
<1> QED
  BY <1>3, <1>4, <1>7 DEF Faithful, Told

LEMMA KnownNext == IInv /\ DeletedIsGone /\ KnownInv /\ [Next]_vars => KnownInv'
<1> SUFFICES ASSUME IInv, DeletedIsGone, KnownInv, [Next]_vars, mode' = {"serial"}
             PROVE  Faithful'
  BY DEF KnownInv
<1>1. mode' = mode
  <2>1. ASSUME NEW r \in Requests, Step(r) PROVE mode' = mode
    BY <2>1 DEF Step, FindRow, FindCached, InsertRow, AddMark, Reread, ReadMark, RemoveMark,
                DeleteStatus, Spawn
  <2>2. ASSUME NEW u \in Remote, Inbox(u) PROVE mode' = mode
    BY <2>2 DEF Inbox, HandleCreate, Evict, HandleDelete, FindDeleted, DeletePersisted
  <2> QED
    BY <2>1, <2>2 DEF Next, vars, Arrive, Drop, Receive, Lose, Restart
<1>2. Faithful /\ "serial" \in mode /\ "faulty" \notin mode
  BY <1>1 DEF KnownInv
<1>3. CASE UNCHANGED vars
  <2>1. /\ \A r \in Requests : /\ URI(r)' = URI(r) /\ Kind(r)' = Kind(r)
                               /\ RowStands(r)' = RowStands(r)
        /\ UNCHANGED <<row, mark, op, task, reaper, gone, mail, known>>
    BY <1>3 DEF URI, Kind, RowStands, vars
  <2>2. Alone' /\ Asked' /\ Reaped'
    BY <1>2, <2>1 DEF Faithful, Alone, Asked, Reaped
  <2>3. Told'
    BY <1>2, <2>1 DEF Faithful, Told, Sent, Right, Ending
  <2>4. \A r \in Requests : Seen(r)'
    BY <1>2, <2>1 DEF Faithful, Seen
  <2>5. \A r \in Requests : Announced(r)'
    BY <1>2, <1>3 DEF Faithful, Announced, URI, Kind, vars
  <2> QED
    BY <2>2, <2>3, <2>4, <2>5 DEF Faithful
<1>4. ASSUME NEW r \in Requests, Arrive(r) PROVE Faithful'
  BY <1>2, <1>4, ArriveFaithful DEF Arrive
<1>5. ASSUME NEW r \in Requests, Step(r) PROVE Faithful'
  BY <1>2, <1>5, FindFaithful, InsertFaithful, AddFaithful, RereadFaithful, ReadFaithful,
     RemoveFaithful, DeleteFaithful, SpawnFaithful DEF Step
<1> QED
  BY <1>2, <1>3, <1>4, <1>5, InboxFaithful, ReceiveFaithful DEF Next, Drop, Lose, Restart

\* When nothing fails and the owner waits for each request and what it sends, the
\* others know of no mark that the database lacks, but on a status its author has
\* deleted: the removal has read the very mark it removes, and tells of it if its
\* making was told of (unfavourite_status, unreblog_status, delete_status).
THEOREM KnownIsStandingHolds == Spec => []KnownIsStanding
<1>1. Init => DeletedIsGone /\ KnownInv
  <2> SUFFICES ASSUME Init PROVE DeletedIsGone /\ Faithful
    BY DEF KnownInv
  <2>1. \A r \in Requests : task[r].at = "idle"
    BY DEF Init, At
  <2>2. DeletedIsGone /\ Alone /\ Asked /\ Reaped
    BY <2>1 DEF Init, DeletedIsGone, Alone, Asked, Reaped, InFlight
  <2>3. Told /\ \A r \in Requests : Seen(r) /\ Announced(r)
    BY <2>1 DEF Init, Told, Sent, Seen, Announced, InFlight
  <2> QED
    BY <2>2, <2>3 DEF Faithful
<1>2. IInv /\ DeletedIsGone /\ KnownInv /\ [Next]_vars => IInv' /\ DeletedIsGone' /\ KnownInv'
  BY NextInv, DeletedInv, KnownNext
<1>3. IInv /\ KnownInv => KnownIsStanding
  <2> SUFFICES ASSUME IInv, Faithful, Settled, NEW m \in known, URI(m) \notin gone
               PROVE  m \in Standing
    BY DEF KnownIsStanding, KnownInv
  <2>1. m \in Requests /\ m # None /\ Sent(m)
    BY Types DEF IInv, TypeOK, Sent
  <2>2. Right(m) /\ ~Ending(m) /\ mark[Kind(m)][URI(m)] = m
    BY <2>1 DEF Faithful, Told, Ending, Settled, InFlight
  <2>3. URI(m) \in Statuses /\ Kind(m) \in Kinds
    BY <2>1, <2>2, Types DEF IInv, Right, Kinds, Faithful, Asked, Before
  <2> QED
    BY <2>1, <2>2, <2>3 DEF Standing
<1> QED
  BY InitInv, <1>1, <1>2, <1>3, PTL DEF Spec
==============================================================================
