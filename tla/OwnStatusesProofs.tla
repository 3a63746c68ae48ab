------------------------- MODULE OwnStatusesProofs -------------------------
(***************************************************************************)
(* Proofs about OwnStatuses, for any statuses, media, polls and requests.  *)
(* Placed says what a request that is under way asks for; Made, that the   *)
(* ids of new statuses are new; Uploads, that an upload has its media to   *)
(* itself; Given, that an attachment was given by a request to its status; *)
(* Serial, that what the one request of a patient owner has read still     *)
(* holds.  TagsAreCurrent does not hold: see OwnStatusesTags.cfg.          *)
(***************************************************************************)
EXTENDS OwnStatuses, TLAPS

LEMMA FirstStep ==
    /\ First["create"] = "insert" /\ First["edit"] = "load" /\ First["delete"] = "load"
    /\ First["vote"] = "loadPoll" /\ First["upload"] = "put"
  BY DEF First

LEMMA InitType == Init => TypeOK
<1> SUFFICES ASSUME Init PROVE TypeOK
  OBVIOUS
<1>1. row \in [Statuses -> Versions \cup {None}] /\ mode \in Modes /\ stored \subseteq Media
  BY ConstantsAssumption DEF Init
<1>2. edits \in [Statuses -> Seq(Versions)] /\ poll \in [Statuses -> Polls \cup {None}]
  BY DEF Init
<1>3. tags \in [Statuses -> SUBSET Hashtags]
  BY ConstantsAssumption DEF Init, Versions
<1>4. owner \in [Media -> Statuses \cup {NoRow, Unattached}]
  BY DEF Init
<1>5. op \in [Requests -> Ops \cup {None}] /\ task \in Tasks
  BY DEF Init, Tasks, At
<1>6. Referenced
  BY ConstantsAssumption DEF Init, Referenced
<1> QED
  BY <1>1, <1>2, <1>3, <1>4, <1>5, <1>6 DEF TypeOK

\* What a request asks for fits the step it is at.
Placed(r) ==
    /\ task[r].at = "idle" <=> op[r] = None
    /\ task[r].at = "insert" => Kind(r) = "create"
    /\ task[r].at = "load" => Kind(r) \in {"edit", "delete"}
    /\ task[r].at \in {"readMedia", "update"} => Kind(r) = "edit" /\ task[r].seen \in Versions
    /\ task[r].at = "readMedia" => op[r].media # None
    /\ task[r].at = "update" => task[r].replace \in {None, op[r].media}
    /\ task[r].at = "delete" => Kind(r) = "delete"
    /\ task[r].at \in {"loadPoll", "vote"} => Kind(r) = "vote"
    /\ task[r].at \in {"put", "insertMedia", "cleanup"} => Kind(r) = "upload"

LEMMA OpFields ==
    ASSUME TypeOK, NEW r \in Requests, op[r] # None
    PROVE  /\ op[r] \in Ops /\ Status(r) \in Statuses
           /\ op[r].text \in Texts \cup {None} /\ op[r].warning \in Texts \cup {None}
           /\ op[r].media \in (SUBSET Media) \cup {None}
           /\ op[r].poll \in PollKinds \cup {None} /\ op[r].choice \in SUBSET Options
           /\ Kind(r) \in {"create", "edit", "delete", "vote", "upload"}
           /\ Kind(r) = "create" => op[r].text \in Texts /\ op[r].media \in SUBSET Media
           /\ Kind(r) = "upload" => \E m \in Media : op[r].media = {m}
  BY ConstantsAssumption DEF TypeOK, OpType, Status, Kind

LEMMA WantedType ==
    ASSUME TypeOK, NEW r \in Requests, op[r] # None, NEW v \in Versions
    PROVE  Wanted(r, v) \in Versions
  BY OpFields DEF Wanted, Versions

\* A request moves on, or ends, and no other does.
LEMMA TaskType ==
    ASSUME TypeOK, NEW r \in Requests, NEW s \in InFlight \cup Ended, Goto(r, s)
    PROVE  task' \in Tasks /\ task'[r].at = s /\ \A q \in Requests \ {r} : task'[q] = task[q]
  BY ZenonT(30) DEF TypeOK, Tasks, Goto, At, InFlight, Ended

LEMMA ArriveType == ASSUME TypeOK, NEW r \in Requests, Arrive(r) PROVE TypeOK'
<1>1. PICK o \in Ops : op' = [op EXCEPT ![r] = o] /\ Goto(r, First[o.kind])
  BY DEF Arrive
<1>2. First[o.kind] \in InFlight
  BY ConstantsAssumption, FirstStep DEF OpType, InFlight
<1>3. task' \in Tasks
  BY <1>1, <1>2, TaskType
<1> QED
  BY <1>1, <1>3 DEF Arrive, TypeOK, Referenced

LEMMA InsertType == ASSUME TypeOK, NEW r \in Requests, Placed(r), Insert(r) PROVE TypeOK'
<1> DEFINE s == Status(r)
<1>1. task' \in Tasks
  BY TaskType DEF Insert, InFlight, Ended
<1>2. CASE \A m \in op[r].media : Claimable(m)
  <2>1. s \in Statuses /\ op[r].text \in Texts /\ op[r].warning \in Texts \cup {None}
    BY OpFields DEF Insert, Placed
  <2> DEFINE v == [text |-> op[r].text, warning |-> op[r].warning]
  <2>a. v \in Versions /\ v # None /\ TagsOf[op[r].text] \in SUBSET Hashtags
    BY <2>1, ConstantsAssumption DEF Versions
  <2>b. row' = [row EXCEPT ![s] = v] /\ tags' = [tags EXCEPT ![s] = TagsOf[op[r].text]]
    BY <1>2 DEF Insert
  <2>2. row' \in [Statuses -> Versions \cup {None}] /\ row'[s] # None
    <3> HIDE DEF v
    <3> QED
      BY <2>a, <2>b, <2>1 DEF TypeOK
  <2>3. tags' \in [Statuses -> SUBSET Hashtags]
    BY <2>a, <2>b DEF TypeOK
  <2>4. NewPoll(op[r].poll) \in Polls \cup {None}
    BY DEF NewPoll, Polls
  <2>5. poll' \in [Statuses -> Polls \cup {None}]
    BY <1>2, <2>4 DEF Insert, TypeOK
  <2>6. owner' \in [Media -> Statuses \cup {NoRow, Unattached}]
    BY <1>2, <2>1 DEF Insert, TypeOK
  <2>7. Referenced'
    BY <1>2, <2>1, <2>2 DEF Insert, TypeOK, Referenced
  <2> QED
    BY <1>1, <1>2, <2>2, <2>3, <2>5, <2>6, <2>7 DEF Insert, TypeOK
<1>3. CASE ~ \A m \in op[r].media : Claimable(m)
  BY <1>1, <1>3 DEF Insert, TypeOK, Referenced
<1> QED
  BY <1>2, <1>3

LEMMA LoadType == ASSUME TypeOK, NEW r \in Requests, Placed(r), Load(r) PROVE TypeOK'
<1> DEFINE v == row[Status(r)]
           next == [at |-> IF op[r].media = None THEN "update" ELSE "readMedia",
                    seen |-> v, replace |-> None]
<1>1. v \in Versions \cup {None}
  BY OpFields DEF Load, Placed, TypeOK
<1>2. CASE \E s \in {"failed", "delete", "done"} : Goto(r, s)
  <2>1. task' \in Tasks
    BY <1>2, TaskType DEF InFlight, Ended
  <2> QED
    BY <2>1 DEF Load, TypeOK, Referenced
<1>3. CASE ~ \E s \in {"failed", "delete", "done"} : Goto(r, s)
  <2>1. v # None /\ task' = [task EXCEPT ![r] = next]
    BY <1>3 DEF Load
  <2>2. task' \in Tasks
    BY <1>1, <2>1 DEF TypeOK, Tasks, InFlight
  <2> QED
    BY <2>2 DEF Load, TypeOK, Referenced
<1> QED
  BY <1>2, <1>3

LEMMA ReadMediaType == ASSUME TypeOK, NEW r \in Requests, Placed(r), ReadMedia(r) PROVE TypeOK'
<1> DEFINE ms == IF Attached(Status(r)) # op[r].media THEN op[r].media ELSE None
<1>1. op[r].media \in SUBSET Media
  BY OpFields DEF ReadMedia, Placed
<1>2. task' \in Tasks
  <2>1. CASE Goto(r, "done")
    BY <2>1, TaskType DEF InFlight, Ended
  <2>2. CASE task' = [task EXCEPT ![r].at = "update", ![r].replace = ms]
    <3>1. ms \in (SUBSET Media) \cup {None}
      BY <1>1
    <3> HIDE DEF ms
    <3> QED
      BY ZenonT(30), <3>1, <2>2 DEF TypeOK, Tasks, InFlight
  <2> QED
    BY <2>1, <2>2 DEF ReadMedia
<1> QED
  BY <1>2 DEF ReadMedia, TypeOK, Referenced

LEMMA UpdateType == ASSUME TypeOK, NEW r \in Requests, Placed(r), Update(r) PROVE TypeOK'
<1> DEFINE s == Status(r)  ms == task[r].replace
<1>1. task' \in Tasks
  BY TaskType DEF Update, InFlight, Ended
<1>2. s \in Statuses /\ task[r].seen \in Versions /\ Wanted(r, task[r].seen) \in Versions
  BY OpFields, WantedType DEF Update, Placed
<1>3. CASE row[s] # None /\ (ms # None => \A m \in ms : owner[m] \in {Unattached, s})
  <2>1. /\ row' = [row EXCEPT ![s] = Wanted(r, task[r].seen)]
        /\ edits' = [edits EXCEPT ![s] = Snapshot(r)]
        /\ owner' = IF ms = None THEN owner ELSE Replaced(s, ms)
    BY <1>3 DEF Update
  <2>2. row' \in [Statuses -> Versions \cup {None}] /\ row'[s] # None
    BY <1>2, <2>1, ConstantsAssumption DEF TypeOK
  <2>3. edits' \in [Statuses -> Seq(Versions)]
    BY <1>2, <2>1 DEF TypeOK, Snapshot
  <2>4. owner' \in [Media -> Statuses \cup {NoRow, Unattached}]
    BY <1>2, <2>1 DEF TypeOK, Replaced
  <2>5. \A m \in Media : owner'[m] \in {owner[m], s, Unattached}
    BY <2>1 DEF TypeOK, Replaced
  <2>6. Referenced'
    BY <1>2, <2>1, <2>2, <2>5, ConstantsAssumption DEF Update, TypeOK, Referenced
  <2> QED
    BY <1>1, <2>2, <2>3, <2>4, <2>6 DEF Update, TypeOK
<1>4. CASE ~(row[s] # None /\ (ms # None => \A m \in ms : owner[m] \in {Unattached, s}))
  BY <1>1, <1>4 DEF Update, TypeOK, Referenced
<1> QED
  BY <1>3, <1>4

LEMMA DeleteType == ASSUME TypeOK, NEW r \in Requests, Placed(r), Delete(r) PROVE TypeOK'
<1>1. task' \in Tasks
  BY TaskType DEF Delete, InFlight, Ended
<1>2. Status(r) \in Statuses
  BY OpFields DEF Delete, Placed
<1>3. /\ row' \in [Statuses -> Versions \cup {None}] /\ tags' \in [Statuses -> SUBSET Hashtags]
      /\ edits' \in [Statuses -> Seq(Versions)] /\ poll' \in [Statuses -> Polls \cup {None}]
  BY <1>2 DEF Delete, TypeOK
<1>4. owner' \in [Media -> Statuses \cup {NoRow, Unattached}]
  BY DEF Delete, Orphaned, TypeOK
<1>5. Referenced'
  BY <1>2, ConstantsAssumption DEF Delete, Orphaned, TypeOK, Referenced
<1> QED
  BY <1>1, <1>3, <1>4, <1>5 DEF Delete, TypeOK

LEMMA VoteType == ASSUME TypeOK, NEW r \in Requests, Placed(r), Vote(r) PROVE TypeOK'
<1> DEFINE s == Status(r)  p == poll[s]  c == op[r].choice
<1>1. task' \in Tasks
  BY TaskType DEF Vote, InFlight, Ended
<1>2. s \in Statuses /\ c \in SUBSET Options
  BY OpFields DEF Vote, Placed
<1>3. CASE p # None /\ Accepts(p, c) /\ c \cap p.votes = {}
  <2> DEFINE tally == [o \in Options |-> IF o \in c THEN p.tally[o] + 1 ELSE p.tally[o]]
  <2>1. p \in Polls
    BY <1>2, <1>3 DEF TypeOK
  <2>2. tally \in [Options -> Nat]
    BY <2>1 DEF Polls
  <2>3. poll' = [poll EXCEPT ![s] = [p EXCEPT !.votes = p.votes \cup c, !.tally = tally]]
    BY <1>2, <1>3, <2>1 DEF Vote, TypeOK, Polls
  <2>4. [p EXCEPT !.votes = p.votes \cup c, !.tally = tally] \in Polls
    BY <1>2, <2>1, <2>2 DEF Polls
  <2>5. poll' \in [Statuses -> Polls \cup {None}]
    BY <2>3, <2>4 DEF TypeOK
  <2>6. Referenced'
    BY <1>2, <1>3, <2>3 DEF Vote, TypeOK, Referenced
  <2> QED
    BY <1>1, <2>5, <2>6 DEF Vote, TypeOK
<1>4. CASE ~(p # None /\ Accepts(p, c) /\ c \cap p.votes = {})
  BY <1>1, <1>4 DEF Vote, TypeOK, Referenced
<1> QED
  BY <1>3, <1>4

LEMMA CloseType == ASSUME TypeOK, NEW s \in Statuses, Close(s) PROVE TypeOK'
<1>1. poll[s] \in Polls
  BY DEF Close, TypeOK
<1>2. [poll[s] EXCEPT !.over = TRUE] \in Polls
  BY <1>1 DEF Polls
<1>3. poll' \in [Statuses -> Polls \cup {None}]
  BY <1>2 DEF Close, TypeOK
<1> QED
  BY <1>3 DEF Close, TypeOK, Referenced

LEMMA UploadType ==
    ASSUME TypeOK, NEW r \in Requests, Placed(r), Put(r) \/ InsertMedia(r) \/ Cleanup(r)
    PROVE  TypeOK'
<1>1. task' \in Tasks
  BY TaskType DEF Put, InsertMedia, Cleanup, InFlight, Ended
<1>2. op[r].media \subseteq Media
  BY OpFields DEF Put, InsertMedia, Cleanup, Placed
<1>3. stored' \subseteq Media
  BY <1>2 DEF Put, InsertMedia, Cleanup, TypeOK
<1>4. owner' \in [Media -> Statuses \cup {NoRow, Unattached}]
  BY DEF Put, InsertMedia, Cleanup, TypeOK
<1>5. Referenced'
  BY ConstantsAssumption DEF Put, InsertMedia, Cleanup, TypeOK, Referenced
<1> QED
  BY <1>1, <1>3, <1>4, <1>5 DEF Put, InsertMedia, Cleanup, TypeOK

LEMMA RestartType == ASSUME TypeOK, Restart PROVE TypeOK'
<1>1. task' \in Tasks
  BY DEF Restart, TypeOK, Tasks, At, Ended
<1>2. tags' \in [Statuses -> SUBSET Hashtags]
  BY ConstantsAssumption DEF Restart, TypeOK, Versions
<1> QED
  BY <1>1, <1>2 DEF Restart, TypeOK, Referenced

LEMMA StepType ==
    ASSUME TypeOK, \A r \in Requests : Placed(r), [Next]_vars
    PROVE  TypeOK'
<1>1. ASSUME NEW r \in Requests, LoadPoll(r) \/ Drop(r) PROVE TypeOK'
  <2>1. task' \in Tasks
    BY <1>1, TaskType DEF LoadPoll, Drop, InFlight, Ended
  <2> QED
    BY <1>1, <2>1 DEF LoadPoll, Drop, TypeOK, Referenced
<1>2. CASE UNCHANGED vars
  BY <1>2 DEF vars, TypeOK, Referenced
<1> QED
  BY <1>1, <1>2, ArriveType, InsertType, LoadType, ReadMediaType, UpdateType, DeleteType,
     VoteType, CloseType, UploadType, RestartType DEF Next, Step

\* A step of r leaves the other requests alone, and no request changes its mind.
LEMMA OthersStay ==
    ASSUME TypeOK, NEW r \in Requests, Step(r) \/ Drop(r)
    PROVE  op' = op /\ mode' = mode /\ \A q \in Requests \ {r} : task'[q] = task[q]
<1>1. op' = op /\ mode' = mode
  BY DEF Step, Drop, Insert, Load, ReadMedia, Update, Delete, LoadPoll, Vote, Put, InsertMedia, Cleanup
<1>2. CASE \E s \in InFlight \cup Ended : Goto(r, s)
  BY <1>1, <1>2, TaskType
<1>3. CASE ~ \E s \in InFlight \cup Ended : Goto(r, s)
  <2>1. Load(r) \/ ReadMedia(r)
    BY <1>3 DEF Step, Drop, Insert, Update, Delete, LoadPoll, Vote, Put, InsertMedia, Cleanup,
                InFlight, Ended
  <2> QED
    BY <1>1, <1>3, <2>1 DEF Load, ReadMedia, TypeOK, Tasks, InFlight, Ended
<1> QED
  BY <1>2, <1>3

LEMMA MovePlaced ==
    ASSUME TypeOK, NEW r \in Requests, Placed(r), Step(r) \/ Drop(r)
    PROVE  Placed(r)'
<1>1. op' = op /\ Kind(r)' = Kind(r)
  BY OthersStay DEF Kind
<1>2. ASSUME NEW s \in Ended, Goto(r, s), task[r].at \in InFlight PROVE Placed(r)'
  BY <1>1, <1>2, TaskType DEF Placed, Ended, InFlight
<1>3. CASE Load(r)
  <2>1. CASE Kind(r) = "edit" /\ row[Status(r)] # None /\ ~Goto(r, "done")
    <3>1. row[Status(r)] \in Versions
      BY <1>3, <2>1, OpFields DEF Load, Placed, TypeOK
    <3> QED
      BY <1>1, <1>3, <2>1, <3>1 DEF Load, Placed, TypeOK, Tasks
  <2>2. CASE Kind(r) = "delete" /\ row[Status(r)] # None
    <3>1. Goto(r, "delete")
      BY <1>3, <2>2 DEF Load
    <3> QED
      BY <1>1, <1>3, <2>2, <3>1, TaskType DEF Load, Placed, InFlight
  <2>3. CASE row[Status(r)] = None \/ Goto(r, "done")
    BY <1>2, <1>3, <2>3 DEF Load, InFlight, Ended
  <2> QED
    BY <1>3, <2>1, <2>2, <2>3 DEF Load, Placed
<1>4. CASE ReadMedia(r)
  <2>1. CASE Goto(r, "done")
    BY <1>2, <1>4, <2>1 DEF ReadMedia, InFlight, Ended
  <2>2. CASE ~Goto(r, "done")
    <3>1. /\ task'[r].at = "update" /\ task'[r].seen = task[r].seen
          /\ task'[r].replace \in {None, op[r].media}
      BY <1>4, <2>2 DEF ReadMedia, TypeOK, Tasks
    <3>2. Kind(r) = "edit" /\ task[r].seen \in Versions /\ op[r] # None
      BY <1>4 DEF ReadMedia, Placed
    <3> QED
      BY <1>1, <3>1, <3>2 DEF Placed
  <2> QED
    BY <2>1, <2>2
<1>5. CASE LoadPoll(r)
  BY <1>1, <1>5, TaskType DEF LoadPoll, Placed, InFlight, Ended
<1>6. CASE Put(r) \/ InsertMedia(r) \/ Cleanup(r)
  BY <1>1, <1>6, TaskType DEF Put, InsertMedia, Cleanup, Placed, InFlight, Ended
<1>7. CASE Insert(r) \/ Update(r) \/ Delete(r) \/ Vote(r) \/ Drop(r)
  BY <1>2, <1>7 DEF Insert, Update, Delete, Vote, Drop, InFlight, Ended
<1> QED
  BY <1>3, <1>4, <1>5, <1>6, <1>7 DEF Step

LEMMA ArrivePlaced == ASSUME TypeOK, NEW r \in Requests, Arrive(r) PROVE Placed(r)'
<1>1. PICK o \in Ops : op' = [op EXCEPT ![r] = o] /\ Goto(r, First[o.kind])
  BY DEF Arrive
<1>2. op'[r] = o /\ o # None /\ o.kind \in {"create", "edit", "delete", "vote", "upload"}
  BY <1>1, ConstantsAssumption DEF TypeOK, OpType
<1>3. task'[r].at = First[o.kind] /\ Kind(r)' = o.kind
  BY <1>1, <1>2, FirstStep, TaskType DEF InFlight, Kind
<1> QED
  BY <1>2, <1>3, FirstStep DEF Placed

LEMMA StepPlaced ==
    ASSUME TypeOK, \A r \in Requests : Placed(r), [Next]_vars
    PROVE  \A r \in Requests : Placed(r)'
<1> SUFFICES ASSUME NEW q \in Requests PROVE Placed(q)'
  OBVIOUS
<1>1. ASSUME NEW r \in Requests, Step(r) \/ Drop(r) PROVE Placed(q)'
  BY <1>1, MovePlaced, OthersStay DEF Placed, Kind
<1>2. ASSUME NEW r \in Requests, Arrive(r) PROVE Placed(q)'
  <2>1. CASE q = r
    BY <1>2, <2>1, ArrivePlaced
  <2>2. CASE q # r
    <3>1. task'[q] = task[q] /\ op'[q] = op[q]
      BY <1>2, <2>2 DEF Arrive, Goto, TypeOK, Tasks
    <3> QED
      BY <3>1 DEF Placed, Kind
  <2> QED
    BY <2>1, <2>2
<1>3. CASE Restart
  <2>1. op' = op /\ (task'[q] = task[q] \/ (task[q].at \in InFlight /\ task'[q] = At("dropped")))
    BY <1>3 DEF Restart, TypeOK, Tasks
  <2> QED
    BY <2>1 DEF Placed, Kind, At, InFlight
<1>4. CASE UNCHANGED <<op, task>>
  BY <1>4 DEF Placed, Kind
<1> QED
  BY <1>1, <1>2, <1>3, <1>4 DEF Next, vars, Close

\* Every table, request and reference keeps its type: the code's foreign keys
\* hold whatever requests overlap (the statements of database.rs).
THEOREM TypeCorrect == Spec => []TypeOK
<1> DEFINE I == TypeOK /\ \A r \in Requests : Placed(r)
<1>1. Init => I
  <2>1. Init => \A r \in Requests : Placed(r)
    BY DEF Init, Placed, At
  <2> QED
    BY <2>1, InitType
<1>2. I /\ [Next]_vars => I'
  BY StepType, StepPlaced
<1> QED
  BY <1>1, <1>2, PTL DEF Spec

\* An attachment never goes from one status to another: every UPDATE of
\* media_attachments.status_id in database.rs asks that it is free.
THEOREM MediaIsKeptHolds == Spec => MediaIsKept
<1> DEFINE Kept == \A m \in Media : owner[m] \in Statuses =>
                       owner'[m] \in {owner[m], Unattached, NoRow}
<1>1. ASSUME TypeOK, NEW r \in Requests, Step(r) PROVE Kept
  <2>1. CASE Insert(r)
    BY <1>1, <2>1, ConstantsAssumption DEF Insert, Claimable, TypeOK
  <2>2. CASE Update(r)
    <3> DEFINE s == Status(r)  ms == task[r].replace
    <3>1. CASE owner' = owner
      BY <3>1
    <3>2. CASE owner' # owner
      <4>1. owner' = Replaced(s, ms) /\ \A m \in ms : owner[m] \in {Unattached, s}
        BY <2>2, <3>2 DEF Update
      <4> QED
        BY <4>1, ConstantsAssumption DEF Replaced
    <3> QED
      BY <3>1, <3>2
  <2>3. CASE Delete(r)
    BY <1>1, <2>3 DEF Delete, Orphaned, TypeOK
  <2>4. CASE InsertMedia(r)
    BY <1>1, <2>4 DEF InsertMedia, TypeOK
  <2>5. CASE UNCHANGED owner
    BY <2>5
  <2> QED
    BY <1>1, <2>1, <2>2, <2>3, <2>4, <2>5 DEF Step, Load, ReadMedia, LoadPoll, Vote, Put, Cleanup
<1>2. TypeOK /\ [Next]_vars => [Kept]_vars
  BY <1>1 DEF Next, Arrive, Drop, Close, Restart
<1> QED
  BY <1>2, TypeCorrect, PTL DEF Spec, MediaIsKept

-----------------------------------------------------------------------------
(* The ids of new statuses are new, so nothing hangs on them yet.          *)

Made ==
    /\ \A r \in Requests : task[r].at = "insert" => row[Status(r)] = None
    /\ \A r, q \in Requests :
          op[r] # None /\ op[q] # None /\ Kind(r) = "create" /\ Kind(q) = "create" /\ r # q
          => Status(r) # Status(q)
    /\ \A s \in Statuses : row[s] # None =>
          Before[s] # None \/ \E q \in Requests : op[q] # None /\ Status(q) = s

\* An option of a poll without a ballot has no votes.
Counted == \A s \in Statuses : poll[s] # None /\ poll[s].votes = {} =>
               \A o \in Options : poll[s].tally[o] = 0

\* A row appears only where it is inserted.
LEMMA RowsAppear ==
    ASSUME TypeOK, \A r \in Requests : Placed(r), NEW r \in Requests, Step(r)
    PROVE  /\ \A s \in Statuses : row'[s] # None => row[s] # None \/ (Insert(r) /\ s = Status(r))
           /\ task'[r].at # "insert"
<1>1. task'[r].at # "insert"
  <2>1. \A s \in (InFlight \cup Ended) \ {"insert"} : Goto(r, s) => task'[r].at # "insert"
    BY TaskType
  <2>2. CASE Load(r) \/ ReadMedia(r)
    BY <2>1, <2>2 DEF Load, ReadMedia, TypeOK, Tasks, InFlight, Ended
  <2>3. CASE ~(Load(r) \/ ReadMedia(r))
    BY <2>1, <2>3 DEF Step, Insert, Update, Delete, LoadPoll, Vote, Put, InsertMedia, Cleanup,
                      InFlight, Ended
  <2> QED
    BY <2>2, <2>3
<1>2. CASE Insert(r)
  <2>1. \A s \in Statuses \ {Status(r)} : row'[s] = row[s]
    BY <1>2 DEF Insert, TypeOK
  <2> QED
    BY <1>1, <1>2, <2>1
<1>3. CASE Update(r)
  <2>1. \A s \in Statuses \ {Status(r)} : row'[s] = row[s]
    BY <1>3 DEF Update, TypeOK
  <2>2. row' = row \/ row[Status(r)] # None
    BY <1>3 DEF Update
  <2> QED
    BY <1>1, <2>1, <2>2
<1>4. CASE Delete(r)
  BY <1>1, <1>4 DEF Delete, TypeOK
<1>5. CASE UNCHANGED row
  BY <1>1, <1>5
<1> QED
  BY <1>2, <1>3, <1>4, <1>5 DEF Step, Load, ReadMedia, LoadPoll, Vote, Put, InsertMedia, Cleanup

LEMMA StepMade ==
    ASSUME TypeOK, \A r \in Requests : Placed(r), Made, [Next]_vars
    PROVE  Made'
<1>1. ASSUME NEW r \in Requests, Step(r) PROVE Made'
  <2>1. op' = op /\ (\A q \in Requests \ {r} : task'[q] = task[q]) /\ task'[r].at # "insert"
    BY <1>1, OthersStay, RowsAppear
  <2>2. \A s \in Statuses : row'[s] # None => row[s] # None \/ (Insert(r) /\ s = Status(r))
    BY <1>1, RowsAppear
  <2>3. ASSUME Insert(r)
        PROVE  Kind(r) = "create" /\ op[r] # None /\ Status(r) \in Statuses
    BY <2>3, OpFields DEF Insert, Placed
  <2>4. ASSUME NEW q \in Requests, task'[q].at = "insert" PROVE row'[Status(q)]= None
    <3>1. q # r /\ task[q].at = "insert" /\ row[Status(q)] = None
      BY <2>1, <2>4 DEF Made
    <3>2. Kind(q) = "create" /\ op[q] # None /\ Status(q) \in Statuses
      BY <3>1, OpFields DEF Placed
    <3> QED
      BY <2>2, <2>3, <3>1, <3>2 DEF Made
  <2> QED
    BY <2>1, <2>2, <2>3, <2>4 DEF Made, Kind, Status
<1>2. ASSUME NEW r \in Requests, Arrive(r) PROVE Made'
  <2>1. PICK o \in Ops : Fresh(o) /\ op' = [op EXCEPT ![r] = o] /\ Goto(r, First[o.kind])
    BY <1>2 DEF Arrive
  <2>2. /\ op[r] = None /\ op'[r] = o /\ o # None /\ o.status \in Statuses
        /\ \A q \in Requests \ {r} : op'[q] = op[q]
    BY <1>2, <2>1, ConstantsAssumption DEF Arrive, Placed, TypeOK, OpType
  <2>3. /\ task'[r].at = First[o.kind] /\ \A q \in Requests \ {r} : task'[q] = task[q]
    <3>1. First[o.kind] \in InFlight
      BY ConstantsAssumption, FirstStep DEF OpType, InFlight
    <3> QED
      BY <2>1, <3>1, TaskType
  <2>4. task'[r].at = "insert" => o.kind = "create"
    BY <2>3, FirstStep, ConstantsAssumption DEF OpType
  <2>5. o.kind = "create" => row[o.status] = None
    BY <2>1, <2>2 DEF Fresh, Made, Status
  <2>6. row' = row
    BY <1>2 DEF Arrive
  <2>7. o.kind = "create" => \A q \in Requests : op[q] # None => Status(q) # o.status
    BY <2>1 DEF Fresh, Status
  <2> QED
    BY <2>2, <2>3, <2>4, <2>5, <2>6, <2>7 DEF Made, Kind, Status
<1>3. ASSUME Restart \/ \E r \in Requests : Drop(r) PROVE Made'
  <2>1. UNCHANGED <<row, op>>
    BY <1>3 DEF Restart, Drop
  <2>2. \A q \in Requests : task'[q].at = "insert" => task[q].at = "insert"
    <3>1. CASE Restart
      BY <3>1 DEF Restart, At, TypeOK, Tasks
    <3>2. ASSUME NEW r \in Requests, Drop(r) PROVE \A q \in Requests : task'[q].at = "insert" => task[q].at = "insert"
      BY <3>2, TaskType DEF Drop, Ended
    <3> QED
      BY <1>3, <3>1, <3>2
  <2> QED
    BY <2>1, <2>2 DEF Made, Kind, Status
<1>4. ASSUME UNCHANGED <<row, op, task>> PROVE Made'
  BY <1>4 DEF Made, Kind, Status
<1> QED
  BY <1>1, <1>2, <1>3, <1>4 DEF Next, vars, Close

\* What a step does to a poll, when it is there before and after.
LEMMA PollSteps ==
    ASSUME TypeOK, \A r \in Requests : Placed(r), Made, Counted, [Next]_vars,
           NEW s \in Statuses, poll'[s] # None
    PROVE  \/ poll[s] = None /\ poll'[s].votes = {} /\ \A o \in Options : poll'[s].tally[o] = 0
           \/ /\ poll[s] # None /\ poll'[s].votes = poll[s].votes /\ poll'[s].tally = poll[s].tally
           \/ /\ poll[s] # None /\ poll[s].votes = {} /\ ~poll[s].over
              /\ \A o \in Options : poll'[s].tally[o] = IF o \in poll'[s].votes THEN 1 ELSE 0
<1>1. ASSUME NEW r \in Requests, Insert(r), s = Status(r) PROVE poll[s] = None
  BY <1>1 DEF Insert, Made, TypeOK, Referenced
<1>2. ASSUME NEW r \in Requests, Insert(r), poll'[s] # poll[s]
      PROVE  poll[s] = None /\ poll'[s].votes = {} /\ \A o \in Options : poll'[s].tally[o] = 0
  <2>1. s = Status(r) /\ poll'[s] = NewPoll(op[r].poll)
    BY <1>2 DEF Insert, TypeOK
  <2> QED
    BY <1>1, <1>2, <2>1 DEF NewPoll
<1>3. ASSUME NEW r \in Requests, Vote(r), poll'[s] # poll[s]
      PROVE  /\ poll[s] # None /\ poll[s].votes = {} /\ ~poll[s].over
             /\ \A o \in Options : poll'[s].tally[o] = IF o \in poll'[s].votes THEN 1 ELSE 0
  <2> DEFINE p == poll[s]  c == op[r].choice
             tally == [o \in Options |-> IF o \in c THEN p.tally[o] + 1 ELSE p.tally[o]]
  <2>1. s = Status(r) /\ p # None /\ Accepts(p, c)
    BY <1>3 DEF Vote, TypeOK
  <2>2. p \in Polls /\ \A o \in Options : p.tally[o] = 0
    BY <2>1 DEF TypeOK, Counted, Accepts
  <2>3. poll'[s] = [p EXCEPT !.votes = p.votes \cup c, !.tally = tally]
    BY <1>3, <2>1, <2>2 DEF Vote, TypeOK, Polls
  <2>4. poll'[s].votes = p.votes \cup c /\ poll'[s].tally = tally
    BY <2>2, <2>3 DEF Polls
  <2>5. \A o \in Options : tally[o] = IF o \in c THEN 1 ELSE 0
    BY <2>2
  <2> QED
    BY <2>1, <2>4, <2>5 DEF Accepts
<1>4. ASSUME NEW u \in Statuses, Close(u), poll'[s] # poll[s]
      PROVE  poll[s] # None /\ poll'[s].votes = poll[s].votes /\ poll'[s].tally = poll[s].tally
  <2>1. u = s /\ poll[s] \in Polls /\ poll'[s] = [poll[s] EXCEPT !.over = TRUE]
    BY <1>4 DEF Close, TypeOK
  <2> QED
    BY <1>4, <2>1 DEF Polls, Close
<1>5. ASSUME NEW r \in Requests, Delete(r) PROVE poll'[s] = poll[s]
  BY <1>5 DEF Delete, TypeOK
<1>6. CASE poll'[s] = poll[s]
  BY <1>6
<1> QED
  BY <1>2, <1>3, <1>4, <1>5, <1>6
     DEF Next, vars, Step, Arrive, Load, ReadMedia, Update, LoadPoll, Put, InsertMedia, Cleanup,
         Drop, Restart

\* A ballot is cast once, while the poll is open, and counted once for each of
\* its options: vote_in_poll of database.rs asks again what polls.rs has asked.
THEOREM BallotIsFinalHolds == Spec => BallotIsFinal
<1> DEFINE P == \A r \in Requests : Placed(r)
           I == P /\ Made /\ Counted
           Fair == \A s \in Statuses :
                     poll[s] # None /\ poll'[s] # None /\ poll'[s].votes # poll[s].votes =>
                        /\ poll[s].votes = {} /\ ~poll[s].over
                        /\ \A o \in Options :
                              poll'[s].tally[o] = IF o \in poll'[s].votes THEN 1 ELSE 0
<1>1. Init => I
  BY DEF Init, Placed, At, Made, Counted
<1>2. TypeOK /\ I /\ [Next]_vars => Counted'
  <2> SUFFICES ASSUME TypeOK, I, [Next]_vars, NEW s \in Statuses, poll'[s] # None,
                      poll'[s].votes = {}, NEW o \in Options
               PROVE  poll'[s].tally[o] = 0
    BY DEF Counted
  <2> QED
    BY PollSteps DEF Counted
<1>3. TypeOK /\ I /\ [Next]_vars => I'
  BY <1>2, StepPlaced, StepMade
<1>4. TypeOK /\ I /\ [Next]_vars => [Fair]_vars
  BY PollSteps
<1> QED
  BY <1>1, <1>3, <1>4, TypeCorrect, PTL DEF Spec, BallotIsFinal

-----------------------------------------------------------------------------
(* The bucket and the table: the object comes first, the row goes first.   *)

Uploading == {"put", "insertMedia", "cleanup"}

\* What an upload that is under way may rely on: its media are its own.
Uploads ==
    /\ UploadsAreWhole
    /\ \A r \in Requests : task[r].at = "insertMedia" => \A m \in op[r].media : m \in stored
    /\ \A r \in Requests : task[r].at \in Uploading => \A m \in op[r].media : owner[m] = NoRow
    /\ \A r, q \in Requests : task[r].at \in Uploading /\ task[q].at \in Uploading /\ r # q
                              => \A m \in op[r].media : m \notin op[q].media
    /\ \A r \in Requests : task[r].at = "cleanup" => "faulty" \in mode

\* A request that has ended stays as it is.
LEMMA GaveStays ==
    ASSUME TypeOK, [Next]_vars, NEW q \in Requests, task[q].at = "done"
    PROVE  task'[q] = task[q] /\ op'[q] = op[q]
<1>1. ASSUME NEW r \in Requests, Arrive(r) PROVE task'[q] = task[q] /\ op'[q] = op[q]
  <2>1. q # r
    BY <1>1 DEF Arrive
  <2> QED
    BY <1>1, <2>1 DEF Arrive, Goto, TypeOK, Tasks
<1>2. ASSUME NEW r \in Requests, Step(r) \/ Drop(r) PROVE task'[q] = task[q] /\ op'[q] = op[q]
  <2>1. op' = op /\ \A p \in Requests \ {r} : task'[p] = task[p]
    BY <1>2, OthersStay
  <2>2. q # r
    BY <1>2 DEF Step, Insert, Load, ReadMedia, Update, Delete, LoadPoll, Vote, Put, InsertMedia,
                Cleanup, Drop, InFlight
  <2> QED
    BY <2>1, <2>2
<1>3. ASSUME Restart PROVE task'[q] = task[q] /\ op'[q] = op[q]
  BY <1>3 DEF Restart, InFlight
<1>4. ASSUME UNCHANGED <<op, task>> PROVE task'[q] = task[q] /\ op'[q] = op[q]
  BY <1>4
<1> QED
  BY <1>1, <1>2, <1>3, <1>4 DEF Next, vars, Close

LEMMA FellStays ==
    ASSUME TypeOK, [Next]_vars, NEW m \in Media
    PROVE  /\ FellWithStatus(m) => FellWithStatus(m)'
           /\ \A q \in Requests, s \in Statuses : Gave(q, m, s) => Gave(q, m, s)'
<1>1. \A q \in Requests, s \in Statuses : Gave(q, m, s) => Gave(q, m, s)'
  BY GaveStays DEF Gave, Status, Kind
<1>2. ASSUME FellWithStatus(m) PROVE FellWithStatus(m)'
  <2>1. PICK q \in Requests, r \in Requests :
           task[r].at = "done" /\ Kind(r) = "delete" /\ Gave(q, m, Status(r))
    BY <1>2 DEF FellWithStatus
  <2>2. task'[r] = task[r] /\ op'[r] = op[r] /\ task'[q] = task[q] /\ op'[q] = op[q]
    BY <2>1, GaveStays DEF Gave
  <2> QED
    BY <2>1, <2>2 DEF FellWithStatus, Gave, Status, Kind
<1> QED
  BY <1>1, <1>2

\* Whoever has an attachment was given it by a post or an edit that has ended.
Given == \A m \in Media, s \in Statuses : owner[m] = s => \E q \in Requests : Gave(q, m, s)

LEMMA StepGiven ==
    ASSUME TypeOK, \A r \in Requests : Placed(r), Given, [Next]_vars
    PROVE  Given'
<1> SUFFICES ASSUME NEW m \in Media, NEW s \in Statuses, owner'[m] = s
             PROVE  \E q \in Requests : Gave(q, m, s)'
  BY DEF Given
<1>1. CASE owner[m] = s
  BY <1>1, FellStays DEF Given
<1>2. CASE owner[m] # s
  <2>1. PICK r \in Requests : Insert(r) \/ Update(r) \/ Delete(r) \/ InsertMedia(r)
    BY <1>2 DEF Next, vars, Arrive, Step, Drop, Close, Restart, Load, ReadMedia, LoadPoll, Vote,
                Put, Cleanup
  <2>2. op' = op /\ op[r] # None
    BY <2>1 DEF Insert, Update, Delete, InsertMedia, Placed
  <2>3. CASE Insert(r)
    <3>1. Goto(r, "done") /\ m \in op[r].media /\ s = Status(r)
      BY <1>2, <2>3 DEF Insert
    <3>2. task'[r].at = "done"
      BY <3>1, TaskType DEF Ended
    <3>3. Kind(r) = "create" /\ op[r].media # None
      BY <2>2, <2>3, OpFields, ConstantsAssumption DEF Insert, Placed
    <3> QED
      BY <2>2, <3>1, <3>2, <3>3 DEF Gave, Kind, Status
  <2>4. CASE Update(r)
    <3>1. /\ Goto(r, "done") /\ owner' = Replaced(Status(r), task[r].replace)
          /\ task[r].replace # None
      BY <1>2, <2>4 DEF Update
    <3>2. task'[r].at = "done"
      BY <3>1, TaskType DEF Ended
    <3>3. Kind(r) = "edit" /\ task[r].replace = op[r].media
      BY <2>4, <3>1 DEF Update, Placed
    <3>4. m \in op[r].media /\ s = Status(r)
      BY <1>2, <3>1, <3>3, ConstantsAssumption DEF Replaced
    <3> QED
      BY <2>2, <3>1, <3>2, <3>3, <3>4 DEF Gave, Kind, Status
  <2>5. CASE Delete(r)
    BY <1>2, <2>5, ConstantsAssumption DEF Delete, Orphaned
  <2>6. CASE InsertMedia(r)
    BY <1>2, <2>6, ConstantsAssumption DEF InsertMedia
  <2> QED
    BY <2>1, <2>3, <2>4, <2>5, <2>6
<1> QED
  BY <1>1, <1>2

\* Only the INSERT of an upload makes a row, and only a deletion takes one away.
LEMMA OwnerSteps ==
    ASSUME TypeOK, \A r \in Requests : Placed(r), NEW r \in Requests, Step(r), NEW m \in Media
    PROVE  /\ owner[m] = NoRow /\ ~(InsertMedia(r) /\ m \in op[r].media) => owner'[m] = NoRow
           /\ owner[m] # NoRow /\ ~Delete(r) => owner'[m] # NoRow
<1>1. CASE Insert(r)
  <2>1. Status(r) \in Statuses
    BY <1>1, OpFields DEF Insert, Placed
  <2> QED
    BY <1>1, <2>1, ConstantsAssumption DEF Insert, Claimable, TypeOK
<1>2. CASE Update(r)
  <2>1. Status(r) \in Statuses
    BY <1>2, OpFields DEF Update, Placed
  <2>2. CASE owner' = owner
    BY <2>2
  <2>3. CASE owner' # owner
    <3>1. /\ owner' = Replaced(Status(r), task[r].replace)
          /\ \A x \in task[r].replace : owner[x] \in {Unattached, Status(r)}
      BY <1>2, <2>3 DEF Update
    <3> QED
      BY <2>1, <3>1, ConstantsAssumption DEF Replaced
  <2> QED
    BY <2>2, <2>3
<1>3. CASE Delete(r)
  BY <1>3, ConstantsAssumption DEF Delete, Orphaned
<1>4. CASE InsertMedia(r)
  BY <1>4, ConstantsAssumption DEF InsertMedia
<1> QED
  BY <1>1, <1>2, <1>3, <1>4 DEF Step, Load, ReadMedia, LoadPoll, Vote, Put, Cleanup

\* The steps of an upload.
LEMMA UploadSteps ==
    ASSUME TypeOK, \A r \in Requests : Placed(r), Uploads, NEW r \in Requests,
           Put(r) \/ InsertMedia(r) \/ Cleanup(r) \/ Drop(r)
    PROVE  Uploads'
<1>f. \A m \in Media : FellWithStatus(m) => FellWithStatus(m)'
  BY FellStays DEF Next, Step
<1>m. stored \subseteq Media
  BY DEF TypeOK
<1>1. op' = op /\ mode' = mode /\ \A q \in Requests \ {r} : task'[q] = task[q]
  BY OthersStay DEF Step
<1>2. task[r].at \in Uploading => \E m \in Media : op[r].media = {m}
  BY OpFields DEF Placed, Uploading
<1>3. CASE Put(r)
  <2>1. task'[r].at \in {"insertMedia", "failed"} /\ owner' = owner /\ stored \subseteq stored'
        /\ (task'[r].at = "failed" => stored' = stored /\ "faulty" \in mode)
        /\ (task'[r].at = "insertMedia" => stored' = stored \cup op[r].media)
    BY <1>3, TaskType DEF Put, InFlight, Ended
  <2>2. UploadsAreWhole'
    <3>1. \A m \in Media : owner'[m] # NoRow => m \in stored'
      BY <2>1 DEF Uploads, UploadsAreWhole
    <3> SUFFICES ASSUME "faulty" \notin mode, NEW m \in stored', owner[m] = NoRow
                 PROVE  \/ \E q \in Requests : task'[q].at = "insertMedia" /\ op[q].media = {m}
                        \/ FellWithStatus(m)'
      BY <1>1, <2>1, <3>1 DEF UploadsAreWhole
    <3>2. CASE m \in stored
      <4>1. CASE FellWithStatus(m)
        BY <1>f, <1>m, <3>2, <4>1
      <4>2. CASE ~FellWithStatus(m)
        <5>1. PICK q \in Requests : task[q].at = "insertMedia" /\ op[q].media = {m}
          BY <3>2, <4>2 DEF Uploads, UploadsAreWhole
        <5> QED
          BY <1>1, <1>3, <5>1 DEF Put
      <4> QED
        BY <4>1, <4>2
    <3>3. CASE m \notin stored
      <4>1. task'[r].at = "insertMedia" /\ m \in op[r].media
        BY <2>1, <3>3
      <4> QED
        BY <1>2, <1>3, <4>1 DEF Put, Uploading
    <3> QED
      BY <3>2, <3>3
  <2> QED
    BY <1>1, <1>3, <2>1, <2>2 DEF Uploads, Uploading, Put
<1>4. CASE InsertMedia(r)
  <2>1. task'[r].at \in {"done", "cleanup"} /\ stored' = stored
        /\ (task'[r].at = "cleanup" => "faulty" \in mode /\ owner' = owner)
        /\ (task'[r].at = "done" =>
               owner' = [m \in Media |-> IF m \in op[r].media THEN Unattached ELSE owner[m]])
    BY <1>4, TaskType DEF InsertMedia, InFlight, Ended
  <2>2. CASE task'[r].at = "cleanup"
    BY <1>1, <1>4, <2>1, <2>2 DEF Uploads, UploadsAreWhole, Uploading, InsertMedia
  <2>3. CASE task'[r].at = "done"
    <3>1. \A m \in Media : m \notin op[r].media => owner'[m] = owner[m]
      BY <2>1, <2>3
    <3>2. \A m \in op[r].media : m \in stored
      BY <1>4 DEF InsertMedia, Uploads
    <3>3. \A m \in Media : owner'[m] # NoRow => m \in stored
      BY <3>1, <3>2 DEF Uploads, UploadsAreWhole
    <3>4. \A m \in Media : owner'[m] = NoRow => m \notin op[r].media /\ owner[m] = NoRow
      BY <2>1, <2>3, ConstantsAssumption
    <3>5. UploadsAreWhole'
      <4> SUFFICES ASSUME "faulty" \notin mode, NEW m \in stored, owner'[m] = NoRow
                   PROVE  \/ \E q \in Requests : task'[q].at = "insertMedia" /\ op[q].media = {m}
                          \/ FellWithStatus(m)'
        BY <1>1, <2>1, <3>3 DEF UploadsAreWhole
      <4>1. m \in Media /\ owner[m] = NoRow /\ m \notin op[r].media
        BY <1>m, <3>4
      <4>2. CASE FellWithStatus(m)
        BY <1>f, <4>1, <4>2
      <4>3. CASE ~FellWithStatus(m)
        <5>1. PICK q \in Requests : task[q].at = "insertMedia" /\ op[q].media = {m}
          BY <4>1, <4>3 DEF Uploads, UploadsAreWhole
        <5> QED
          BY <1>1, <4>1, <5>1
      <4> QED
        BY <4>2, <4>3
    <3>6. \A q \in Requests : task'[q].at \in Uploading => q # r /\ task[q].at \in Uploading
      BY <1>1, <2>3 DEF Uploading
    <3>7. \A q \in Requests : task'[q].at \in Uploading => \A m \in op[q].media : m \notin op[r].media
      BY <1>4, <3>6 DEF Uploads, Uploading, InsertMedia
    <3>8. \A q \in Requests : task'[q].at \in Uploading => \A m \in op[q].media : m \in Media
      BY <3>6, OpFields DEF Placed, Uploading
    <3>9. \A q \in Requests : task'[q].at \in Uploading => \A m \in op[q].media : owner'[m] = NoRow
      BY <3>1, <3>6, <3>7, <3>8 DEF Uploads
    <3> QED
      BY <1>1, <2>1, <2>3, <3>5, <3>6, <3>9 DEF Uploads, Uploading
  <2> QED
    BY <2>1, <2>2, <2>3
<1>5. CASE Cleanup(r)
  <2>1. task'[r].at = "failed" /\ owner' = owner /\ "faulty" \in mode
        /\ (stored' = stored \/ stored' = stored \ op[r].media)
    BY <1>5, TaskType DEF Cleanup, Uploads, InFlight, Ended
  <2>2. UploadsAreWhole'
    <3>1. \A m \in op[r].media : owner[m] = NoRow
      BY <1>5 DEF Uploads, Uploading, Cleanup
    <3> QED
      BY <1>1, <2>1, <3>1 DEF Uploads, UploadsAreWhole
  <2>3. \A q \in Requests : task'[q].at = "insertMedia" => \A m \in op[q].media : m \in stored'
    BY <1>1, <1>5, <2>1 DEF Uploads, Uploading, Cleanup
  <2> QED
    BY <1>1, <2>1, <2>2, <2>3 DEF Uploads, Uploading
<1>6. CASE Drop(r)
  <2>1. task'[r].at = "dropped" /\ UNCHANGED <<owner, stored>> /\ "faulty" \in mode
    BY <1>6, TaskType DEF Drop, Ended
  <2> QED
    BY <1>1, <2>1 DEF Uploads, UploadsAreWhole, Uploading
<1> QED
  BY <1>3, <1>4, <1>5, <1>6

LEMMA StepUploads ==
    ASSUME TypeOK, \A r \in Requests : Placed(r), Given, Uploads, [Next]_vars
    PROVE  Uploads'
<1>f. \A m \in Media : FellWithStatus(m) => FellWithStatus(m)'
  BY FellStays
<1>m. stored \subseteq Media
  BY DEF TypeOK
<1>1. ASSUME NEW r \in Requests, Arrive(r) PROVE Uploads'
  <2>1. PICK o \in Ops : Fresh(o) /\ op' = [op EXCEPT ![r] = o] /\ Goto(r, First[o.kind])
    BY <1>1 DEF Arrive
  <2>2. /\ task' \in Tasks /\ \A q \in Requests \ {r} : task'[q] = task[q]
        /\ task'[r].at = First[o.kind]
    BY <2>1, TaskType, FirstStep, ConstantsAssumption DEF OpType, InFlight
  <2>3. /\ op'[r] = o /\ (\A q \in Requests \ {r} : op'[q] = op[q])
        /\ UNCHANGED <<owner, stored, mode>>
    BY <1>1, <2>1 DEF Arrive, TypeOK
  <2>4. task'[r].at \in Uploading => o.kind = "upload" /\ task'[r].at = "put"
    BY <2>2, FirstStep, ConstantsAssumption DEF OpType, Uploading
  <2>5. \A q \in Requests : task[q].at \in Uploading =>
           op[q] # None /\ Kind(q) = "upload" /\ \E m \in Media : op[q].media = {m}
    BY OpFields DEF Placed, Uploading
  <2>6. o.kind = "upload" =>
           /\ \E m \in Media : o.media = {m} /\ owner[m] = NoRow
           /\ \A q \in Requests : task[q].at \in Uploading => op[q].media # o.media
    BY <2>1, <2>5, ConstantsAssumption DEF Fresh
  <2>7. UploadsAreWhole'
    <3> SUFFICES ASSUME "faulty" \notin mode, NEW m \in stored, owner[m] = NoRow
                 PROVE  \/ \E q \in Requests : task'[q].at = "insertMedia" /\ op'[q].media = {m}
                        \/ FellWithStatus(m)'
      BY <2>3 DEF Uploads, UploadsAreWhole
    <3>1. CASE FellWithStatus(m)
      BY <1>f, <1>m, <3>1
    <3>2. CASE ~FellWithStatus(m)
      <4>1. PICK q \in Requests : task[q].at = "insertMedia" /\ op[q].media = {m}
        BY <3>2 DEF Uploads, UploadsAreWhole
      <4>2. q # r
        BY <1>1, <4>1 DEF Arrive
      <4> QED
        BY <2>2, <2>3, <4>1, <4>2
    <3> QED
      BY <3>1, <3>2
  <2>8. \A q \in Requests : task'[q].at = "insertMedia" => \A m \in op'[q].media : m \in stored'
    BY <2>2, <2>3, <2>4 DEF Uploads, Uploading
  <2>9. \A q \in Requests : task'[q].at \in Uploading => \A m \in op'[q].media : owner'[m] = NoRow
    <3>1. \A q \in Requests \ {r} : task'[q].at \in Uploading =>
             \A m \in op'[q].media : owner'[m] = NoRow
      BY <2>2, <2>3 DEF Uploads
    <3>2. task'[r].at \in Uploading => \A m \in op'[r].media : owner'[m] = NoRow
      BY <2>3, <2>4, <2>6
    <3> QED
      BY <3>1, <3>2
  <2>10. \A p, q \in Requests : task'[p].at \in Uploading /\ task'[q].at \in Uploading /\ p # q
                                => \A m \in op'[p].media : m \notin op'[q].media
    <3>1. \A p, q \in Requests \ {r} :
             task'[p].at \in Uploading /\ task'[q].at \in Uploading /\ p # q
             => \A m \in op'[p].media : m \notin op'[q].media
      BY <2>2, <2>3 DEF Uploads
    <3>2. ASSUME NEW q \in Requests \ {r}, task'[q].at \in Uploading, o.kind = "upload"
          PROVE  \A m \in o.media : m \notin op[q].media
      <4>1. task[q].at \in Uploading
        BY <2>2, <3>2
      <4>2. PICK x \in Media, y \in Media : o.media = {x} /\ op[q].media = {y}
        BY <2>5, <2>6, <3>2, <4>1
      <4>3. o.media # op[q].media
        BY <2>6, <3>2, <4>1
      <4> QED
        BY <4>2, <4>3
    <3> QED
      BY <2>3, <2>4, <3>1, <3>2
  <2>11. \A q \in Requests : task'[q].at = "cleanup" => "faulty" \in mode'
    BY <2>2, <2>3, <2>4 DEF Uploads, Uploading
  <2> QED
    BY <2>7, <2>8, <2>9, <2>10, <2>11 DEF Uploads
<1>2. ASSUME NEW r \in Requests, Step(r), ~(Put(r) \/ InsertMedia(r) \/ Cleanup(r)) PROVE Uploads'
  <2>1. op' = op /\ mode' = mode /\ (\A q \in Requests \ {r} : task'[q] = task[q]) /\ stored' = stored
    BY <1>2, OthersStay DEF Step, Insert, Load, ReadMedia, Update, Delete, LoadPoll, Vote
  <2>2. task'[r].at \notin Uploading /\ task[r].at \notin Uploading \cup {"done"}
    <3>1. CASE Load(r) \/ ReadMedia(r)
      BY <3>1 DEF Load, ReadMedia, Goto, At, TypeOK, Tasks, Uploading, Ended
    <3>2. CASE Insert(r) \/ Update(r) \/ Delete(r) \/ LoadPoll(r) \/ Vote(r)
      BY <3>2, TaskType DEF Insert, Update, Delete, LoadPoll, Vote, Uploading, InFlight, Ended
    <3> QED
      BY <1>2, <3>1, <3>2 DEF Step
  <2>3. \A q \in Requests : task'[q].at \in Uploading => q # r /\ task[q].at \in Uploading
    BY <2>1, <2>2
  <2>4. \A m \in Media : /\ owner[m] = NoRow => owner'[m] = NoRow
                         /\ owner'[m] = NoRow => owner[m] = NoRow \/ Delete(r)
    BY <1>2, OwnerSteps
  <2>5. Delete(r) => task'[r].at = "done" /\ Kind(r) = "delete"
    BY TaskType DEF Delete, Placed, Ended
  <2>6. UploadsAreWhole'
    <3>1. \A m \in Media : owner'[m] # NoRow => m \in stored'
      BY <2>1, <2>4 DEF Uploads, UploadsAreWhole
    <3> SUFFICES ASSUME "faulty" \notin mode, NEW m \in stored, owner'[m] = NoRow
                 PROVE  \/ \E q \in Requests : task'[q].at = "insertMedia" /\ op[q].media = {m}
                        \/ FellWithStatus(m)'
      BY <2>1, <3>1 DEF UploadsAreWhole
    <3>2. CASE owner[m] # NoRow
      <4>1. Delete(r) /\ owner[m] = Status(r)
        BY <1>m, <2>1, <2>4, <3>2 DEF Delete, Orphaned
      <4>2. op[r] # None
        BY <4>1 DEF Delete, Placed
      <4>3. Status(r) \in Statuses
        BY <4>2, OpFields
      <4>4. PICK q \in Requests : Gave(q, m, Status(r))
        BY <1>m, <2>1, <4>1, <4>3 DEF Given
      <4>5. Gave(q, m, Status(r)) /\ task'[q] = task[q] /\ task'[r].at = "done" /\ Kind(r) = "delete"
        BY <2>5, <4>1, <4>4, GaveStays DEF Gave
      <4> QED
        BY <2>1, <4>5 DEF FellWithStatus, Gave, Status, Kind
    <3>3. CASE owner[m] = NoRow /\ FellWithStatus(m)
      BY <1>f, <1>m, <2>1, <3>3
    <3>4. CASE owner[m] = NoRow /\ ~FellWithStatus(m)
      <4>1. PICK q \in Requests : task[q].at = "insertMedia" /\ op[q].media = {m}
        BY <2>1, <3>4 DEF Uploads, UploadsAreWhole
      <4> QED
        BY <2>1, <2>2, <4>1 DEF Uploading
    <3> QED
      BY <3>2, <3>3, <3>4
  <2>7. \A q \in Requests : task'[q].at \in Uploading => \A m \in op[q].media : m \in Media
    BY <2>3, OpFields DEF Placed, Uploading
  <2> QED
    BY <2>1, <2>3, <2>4, <2>6, <2>7 DEF Uploads, Uploading
<1>3. ASSUME Restart PROVE Uploads'
  <2>1. /\ "faulty" \in mode /\ UNCHANGED <<owner, stored, op, mode>>
        /\ \A r \in Requests : task'[r].at \notin Uploading
    BY <1>3 DEF Restart, At, InFlight, Uploading
  <2> QED
    BY <2>1 DEF Uploads, UploadsAreWhole, Uploading
<1>4. ASSUME UNCHANGED <<owner, stored, op, task, mode>> PROVE Uploads'
  BY <1>4 DEF Uploads, UploadsAreWhole, FellWithStatus, Gave, Kind, Status
<1> QED
  BY <1>1, <1>2, <1>3, <1>4, UploadSteps DEF Next, vars, Step, Close

\* No row names an object that is not in the bucket, and without a fault none
\* is forgotten there but those of deleted statuses: upload_media puts first and
\* cleans up after itself, and an edit gives its media free with their rows.
THEOREM UploadsAreWholeHolds == Spec => []UploadsAreWhole
<1> DEFINE P == \A r \in Requests : Placed(r)
<1>1. Init => P /\ Given /\ Uploads
  BY ConstantsAssumption DEF Init, Placed, At, Given, Uploads, UploadsAreWhole, Uploading
<1>2. TypeOK /\ P /\ Given /\ Uploads /\ [Next]_vars => P' /\ Given' /\ Uploads'
  BY StepPlaced, StepGiven, StepUploads
<1>3. Uploads => UploadsAreWhole
  BY DEF Uploads
<1> QED
  BY <1>1, <1>2, <1>3, TypeCorrect, PTL DEF Spec

-----------------------------------------------------------------------------
(* An owner who waits for each request: what a request has read still      *)
(* holds when it is used.                                                  *)

Serial ==
    "serial" \in mode =>
        /\ \A r, q \in Requests : task[r].at \in InFlight /\ task[q].at \in InFlight => r = q
        /\ \A r \in Requests : task[r].at \in {"readMedia", "update"} =>
                                   row[Status(r)] = task[r].seen
        /\ \A r \in Requests : task[r].at = "update" /\ task[r].replace = None
                               /\ op[r].media # None => Attached(Status(r)) = op[r].media

\* A request that is under way was so before; the others do not move.
LEMMA StepSerial ==
    ASSUME TypeOK, \A r \in Requests : Placed(r), Serial, [Next]_vars
    PROVE  Serial'
<1> SUFFICES ASSUME "serial" \in mode' PROVE Serial'
  BY DEF Serial
<1>m. mode' = mode
  BY OthersStay DEF Next, vars, Arrive, Close, Restart
<1>1. ASSUME NEW r \in Requests, Step(r) PROVE Serial'
  <2>1. op' = op /\ \A q \in Requests \ {r} : task'[q] = task[q]
    BY <1>1, OthersStay
  <2>2. task[r].at \in InFlight
    BY <1>1 DEF Step, Insert, Load, ReadMedia, Update, Delete, LoadPoll, Vote, Put, InsertMedia,
                Cleanup, InFlight
  <2>3. \A q \in Requests \ {r} : task'[q].at \notin InFlight
    BY <1>m, <2>1, <2>2 DEF Serial
  <2>4. \A q \in Requests \ {r} : task'[q].at \notin {"readMedia", "update"}
    BY <2>3 DEF InFlight
  <2>5. CASE \E x \in (InFlight \cup Ended) \ {"readMedia", "update"} : Goto(r, x)
    <3>1. task'[r].at \notin {"readMedia", "update"}
      BY <2>5, TaskType
    <3> QED
      BY <2>3, <2>4, <3>1 DEF Serial
  <2>6. CASE Load(r) /\ ~ \E x \in (InFlight \cup Ended) \ {"readMedia", "update"} : Goto(r, x)
    <3>1. /\ row' = row /\ owner' = owner
          /\ task'[r].seen = row[Status(r)]
          /\ task'[r].at = "update" => op[r].media = None
      BY <2>6 DEF Load, TypeOK, Tasks, InFlight, Ended
    <3> QED
      BY <2>1, <2>3, <2>4, <3>1 DEF Serial, Status, Attached
  <2>7. CASE ReadMedia(r) /\ ~ \E x \in (InFlight \cup Ended) \ {"readMedia", "update"} : Goto(r, x)
    <3>1. /\ row' = row /\ owner' = owner /\ op[r].media # None
          /\ task'[r].seen = task[r].seen /\ task'[r].at = "update"
          /\ task'[r].replace = None => Attached(Status(r)) = op[r].media
      BY <2>7 DEF ReadMedia, Placed, TypeOK, Tasks, InFlight, Ended
    <3>2. row[Status(r)] = task[r].seen
      BY <1>m, <2>7 DEF ReadMedia, Serial
    <3> QED
      BY <2>1, <2>3, <2>4, <3>1, <3>2 DEF Serial, Status, Attached
  <2>8. \/ \E x \in (InFlight \cup Ended) \ {"readMedia", "update"} : Goto(r, x)
        \/ Load(r) \/ ReadMedia(r)
    BY <1>1 DEF Step, Insert, Update, Delete, LoadPoll, Vote, Put, InsertMedia, Cleanup,
                InFlight, Ended
  <2> QED
    BY <2>5, <2>6, <2>7, <2>8
<1>2. ASSUME NEW r \in Requests, Arrive(r) PROVE Serial'
  <2>1. PICK o \in Ops : op' = [op EXCEPT ![r] = o] /\ Goto(r, First[o.kind])
    BY <1>2 DEF Arrive
  <2>2. First[o.kind] \in InFlight \ {"readMedia", "update"}
    BY ConstantsAssumption, FirstStep DEF OpType, InFlight
  <2>3. task'[r].at \notin {"readMedia", "update"} /\ \A q \in Requests \ {r} : task'[q] = task[q]
    BY <2>1, <2>2, TaskType
  <2>4. \A q \in Requests \ {r} : task'[q].at \notin InFlight
    BY <1>m, <1>2, <2>3 DEF Arrive, Settled
  <2> QED
    BY <2>3, <2>4 DEF Serial, InFlight
<1>3. ASSUME Restart \/ \E r \in Requests : Drop(r) PROVE Serial'
  <2>1. UNCHANGED <<row, owner, op>>
    BY <1>3 DEF Restart, Drop
  <2>2. \A q \in Requests : task'[q] = task[q] \/ task'[q].at = "dropped"
    <3>1. CASE Restart
      BY <3>1 DEF Restart, At, TypeOK, Tasks
    <3>2. ASSUME NEW r \in Requests, Drop(r)
          PROVE  \A q \in Requests : task'[q] = task[q] \/ task'[q].at = "dropped"
      BY <3>2, TaskType DEF Drop, Ended
    <3> QED
      BY <1>3, <3>1, <3>2
  <2> QED
    BY <1>m, <2>1, <2>2 DEF Serial, Status, Attached, InFlight
<1>4. ASSUME UNCHANGED <<row, owner, op, task>> PROVE Serial'
  BY <1>m, <1>4 DEF Serial, Status, Attached
<1> QED
  BY <1>1, <1>2, <1>3, <1>4 DEF Next, vars, Close

LEMMA SerialHolds == Spec => [](TypeOK /\ (\A r \in Requests : Placed(r)) /\ Serial)
<1> DEFINE P == \A r \in Requests : Placed(r)
<1>1. Init => P /\ Serial
  BY DEF Init, Placed, At, Serial, InFlight
<1>2. TypeOK /\ P /\ Serial /\ [Next]_vars => (P /\ Serial)'
  BY StepPlaced, StepSerial
<1> QED
  BY <1>1, <1>2, TypeCorrect, PTL DEF Spec

\* An edit that is answered has taken effect, for an owner who waits for each
\* request: update_status takes what it reads for what is there.
THEOREM EditTakesEffectHolds == Spec => EditTakesEffect
<1> DEFINE P == \A r \in Requests : Placed(r)
           Edited(r) == "serial" \in mode /\ task[r].at \in InFlight /\ Kind(r) = "edit"
                        /\ task'[r].at = "done"
           Effect(r) ==
             /\ row'[Status(r)] # None
             /\ op[r].text # None => row'[Status(r)].text = op[r].text
             /\ op[r].warning # None => row'[Status(r)].warning = op[r].warning
             /\ op[r].media # None => {m \in Media : owner'[m] = Status(r)} = op[r].media
<1>1. ASSUME TypeOK, P, Serial, NEW r \in Requests, Edited(r), Step(r) PROVE Effect(r)
  <2>0. /\ op[r] # None /\ Status(r) \in Statuses /\ op[r].media \in (SUBSET Media) \cup {None}
        /\ Load(r) \/ ReadMedia(r) \/ Update(r)
    BY <1>1, OpFields DEF Step, Placed, Insert, Delete, LoadPoll, Vote, Put, InsertMedia, Cleanup,
                          InFlight
  <2>1. CASE Load(r)
    <3>1. /\ row' = row /\ op[r].media = None /\ row[Status(r)] # None
          /\ Wanted(r, row[Status(r)]) = row[Status(r)]
      BY <1>1, <2>1, TaskType DEF Load, TypeOK, Tasks, InFlight, Ended
    <3> QED
      BY <3>1 DEF Wanted
  <2>2. CASE ReadMedia(r)
    <3>1. Goto(r, "done")
      BY <1>1, <2>2 DEF ReadMedia, TypeOK, Tasks
    <3>2. /\ row' = row /\ owner' = owner /\ Attached(Status(r)) = op[r].media
          /\ Wanted(r, task[r].seen) = task[r].seen
      BY <1>1, <2>2, <3>1 DEF ReadMedia, Goto, TypeOK, Tasks, Ended
    <3>3. row[Status(r)] = task[r].seen /\ task[r].seen # None
      BY <1>1, <2>2, ConstantsAssumption DEF ReadMedia, Serial, Placed
    <3> QED
      BY <3>2, <3>3 DEF Wanted, Attached
  <2>3. CASE Update(r)
    <3> DEFINE s == Status(r)  ms == task[r].replace  v == Wanted(r, task[r].seen)
    <3>1. /\ row' = [row EXCEPT ![s] = v]
          /\ owner' = IF ms = None THEN owner ELSE Replaced(s, ms)
      BY <1>1, <2>3, TaskType DEF Update, Ended
    <3>2. v \in Versions /\ v # None
      BY <1>1, <2>0, <2>3, WantedType, ConstantsAssumption DEF Update, Placed
    <3>3. row'[s] = v
      BY <1>1, <2>0, <3>1 DEF TypeOK
    <3>4. ASSUME op[r].media # None PROVE {m \in Media : owner'[m] = s} = op[r].media
      <4>1. CASE ms = None
        <5>1. owner' = owner /\ Attached(s) = op[r].media
          BY <1>1, <2>3, <3>1, <3>4, <4>1 DEF Update, Serial
        <5> QED
          BY <5>1 DEF Attached
      <4>2. CASE ms # None
        <5>1. owner' = Replaced(s, ms) /\ ms = op[r].media /\ ms \subseteq Media
          BY <1>1, <2>0, <2>3, <3>1, <4>2 DEF Update, Placed
        <5>2. s # Unattached
          BY <2>0, ConstantsAssumption
        <5> QED
          BY <5>1, <5>2 DEF Replaced
      <4> QED
        BY <4>1, <4>2
    <3> QED
      BY <3>2, <3>3, <3>4 DEF Wanted
  <2> QED
    BY <2>0, <2>1, <2>2, <2>3
<1>2. ASSUME TypeOK, P, Serial, NEW r \in Requests, Edited(r), [Next]_vars PROVE Step(r)
  <2>1. task'[r] # task[r]
    BY <1>2 DEF InFlight
  <2>2. ASSUME NEW q \in Requests, q # r, Step(q) \/ Drop(q) PROVE FALSE
    BY <2>1, <2>2, <1>2, OthersStay
  <2>3. ASSUME Drop(r) PROVE FALSE
    BY <1>2, <2>3, TaskType DEF Drop, Ended
  <2>4. ASSUME NEW q \in Requests, Arrive(q) PROVE FALSE
    <3>1. q # r
      BY <1>2, <2>4 DEF Arrive, InFlight
    <3> QED
      BY <1>2, <2>1, <2>4, <3>1 DEF Arrive, Goto, TypeOK, Tasks
  <2>5. ASSUME Restart PROVE FALSE
    BY <1>2, <2>1, <2>5 DEF Restart, At, TypeOK, Tasks
  <2> QED
    BY <1>2, <2>1, <2>2, <2>3, <2>4, <2>5 DEF Next, vars, Close
<1>3. TypeOK /\ P /\ Serial /\ [Next]_vars => [\A r \in Requests : Edited(r) => Effect(r)]_vars
  BY <1>1, <1>2
<1> QED
  BY <1>3, SerialHolds, PTL DEF Spec, EditTakesEffect

\* The history shown, edits and then the row, implements PostHistory for an owner
\* who waits for each request: update_status saves the version that it replaces.
LEMMA HistoryStep ==
    ASSUME TypeOK, \A r \in Requests : Placed(r), Made, Serial, [Next]_vars
    PROVE  [History!Next]_(History!vars)
<1> DEFINE V == [s \in Statuses |-> VersionsOf(s)]
<1>m. mode' = mode
  BY OthersStay DEF Next, vars, Arrive, Close, Restart
<1>u. ASSUME UNCHANGED <<row, edits>> PROVE UNCHANGED V
  BY <1>m, <1>u DEF VersionsOf
<1>1. CASE "serial" \notin mode
  <2>1. \A s \in Statuses : VersionsOf(s) = <<>> /\ VersionsOf(s)' = <<>>
    BY <1>1, <1>m DEF VersionsOf
  <2> QED
    BY <2>1 DEF History!vars
<1>2. ASSUME "serial" \in mode, NEW r \in Requests, Insert(r), row' # row PROVE History!Next
  <2>1. PICK s \in Statuses, v \in Versions :
           s = Status(r) /\ v = [text |-> op[r].text, warning |-> op[r].warning]
    BY <1>2, OpFields DEF Insert, Placed, Versions
  <2>2. row[s] = None /\ edits[s] = <<>> /\ row' = [row EXCEPT ![s] = v] /\ edits' = edits
    BY <1>2, <2>1 DEF Insert, Made, TypeOK, Referenced
  <2>3. v # None /\ row'[s] = v
    BY <2>1, <2>2, ConstantsAssumption DEF TypeOK
  <2>4. VersionsOf(s) = <<>>
    BY <2>2 DEF VersionsOf
  <2>5. VersionsOf(s)' = <<v>>
    <3>1. VersionsOf(s)' = Append(edits'[s], row'[s])
      BY <1>2, <1>m, <2>3 DEF VersionsOf
    <3> QED
      BY <2>2, <2>3, <3>1
  <2>6. \A u \in Statuses \ {s} : VersionsOf(u)' = VersionsOf(u)
    BY <1>m, <2>2 DEF VersionsOf, TypeOK
  <2>7. V' = [V EXCEPT ![s] = <<v>>]
    BY <2>5, <2>6
  <2>8. History!Publish(s, v)
    BY <2>1, <2>4, <2>7 DEF History!Publish
  <2> QED
    BY <2>1, <2>8 DEF History!Next
<1>3. ASSUME "serial" \in mode, NEW r \in Requests, Update(r), ~UNCHANGED <<row, edits>>
      PROVE  History!Next
  <2>1. PICK s \in Statuses, v \in Versions : s = Status(r) /\ v = Wanted(r, task[r].seen)
    BY <1>3, OpFields, WantedType DEF Update, Placed
  <2>2. /\ row[s] # None /\ row[s] = task[r].seen
        /\ row' = [row EXCEPT ![s] = v]
        /\ edits' = [edits EXCEPT ![s] = Append(edits[s], task[r].seen)]
    BY <1>3, <2>1 DEF Update, Serial, Snapshot
  <2>3. v # None /\ row'[s] = v /\ edits'[s] = Append(edits[s], row[s])
    BY <2>1, <2>2, ConstantsAssumption DEF TypeOK
  <2>4. VersionsOf(s) = Append(edits[s], row[s])
    BY <1>3, <2>2 DEF VersionsOf
  <2>5. VersionsOf(s)' = Append(VersionsOf(s), v)
    <3>1. VersionsOf(s)' = Append(edits'[s], row'[s])
      BY <1>3, <1>m, <2>3 DEF VersionsOf
    <3> QED
      BY <2>3, <2>4, <3>1
  <2>6. VersionsOf(s) # <<>>
    BY <2>1, <2>2, <2>4 DEF TypeOK
  <2>7. \A u \in Statuses \ {s} : VersionsOf(u)' = VersionsOf(u)
    BY <1>m, <2>2 DEF VersionsOf, TypeOK
  <2>8. V' = [V EXCEPT ![s] = Append(@, v)]
    BY <2>5, <2>7
  <2>9. History!Revise(s, v)
    BY <2>1, <2>6, <2>8 DEF History!Revise
  <2> QED
    BY <2>1, <2>9 DEF History!Next
<1>4. ASSUME "serial" \in mode, NEW r \in Requests, Delete(r)
      PROVE  History!Next \/ UNCHANGED V
  <2>1. PICK s \in Statuses : s = Status(r)
    BY <1>4, OpFields DEF Delete, Placed
  <2>2. row' = [row EXCEPT ![s] = None] /\ edits' = [edits EXCEPT ![s] = <<>>]
    BY <1>4, <2>1 DEF Delete
  <2>3. VersionsOf(s)' = <<>>
    BY <2>2 DEF VersionsOf, TypeOK
  <2>4. \A u \in Statuses \ {s} : VersionsOf(u)' = VersionsOf(u)
    BY <1>m, <2>2 DEF VersionsOf, TypeOK
  <2>5. V' = [V EXCEPT ![s] = <<>>]
    BY <2>3, <2>4
  <2>6. CASE VersionsOf(s) = <<>>
    BY <2>5, <2>6
  <2>7. CASE VersionsOf(s) # <<>>
    BY <2>1, <2>5, <2>7 DEF History!Next, History!Remove
  <2> QED
    BY <2>6, <2>7
<1>5. CASE "serial" \in mode
  <2>1. ASSUME ~UNCHANGED <<row, edits>>
        PROVE  \E r \in Requests : \/ Insert(r) /\ row' # row
                                   \/ Update(r) \/ Delete(r)
    <3>1. ASSUME NEW r \in Requests, Arrive(r) \/ Drop(r) PROVE FALSE
      BY <2>1, <3>1 DEF Arrive, Drop
    <3>2. ASSUME NEW r \in Requests, Load(r) \/ ReadMedia(r) \/ LoadPoll(r) \/ Vote(r)
          PROVE  FALSE
      BY <2>1, <3>2 DEF Load, ReadMedia, LoadPoll, Vote
    <3>3. ASSUME NEW r \in Requests, Put(r) \/ InsertMedia(r) \/ Cleanup(r) PROVE FALSE
      BY <2>1, <3>3 DEF Put, InsertMedia, Cleanup
    <3>4. \A r \in Requests : Insert(r) => row' # row
      BY <2>1 DEF Insert
    <3> QED
      BY <2>1, <3>1, <3>2, <3>3, <3>4 DEF Next, vars, Step, Close, Restart
  <2> QED
    BY <1>2, <1>3, <1>4, <1>5, <1>u, <2>1 DEF History!vars
<1> QED
  BY <1>1, <1>5

THEOREM HistoryHolds == Spec => ImplementsHistory
<1> DEFINE P == \A r \in Requests : Placed(r)
<1>1. Init => History!Init
  <2> SUFFICES ASSUME Init, NEW s \in Statuses
               PROVE  VersionsOf(s) \in {<<>>} \cup {<<v>> : v \in Versions}
    BY DEF History!Init
  <2>1. row[s] \in Versions \cup {None} /\ edits[s] = <<>>
    BY ConstantsAssumption DEF Init
  <2>2. row[s] # None => Append(edits[s], row[s]) = <<row[s]>>
    BY <2>1
  <2> QED
    BY <2>1, <2>2 DEF VersionsOf
<1>2. Init => Made
  BY DEF Init, Made, At
<1>3. TypeOK /\ P /\ Serial /\ Made /\ [Next]_vars => Made'
  BY StepMade
<1>4. TypeOK /\ P /\ Serial /\ Made /\ [Next]_vars => [History!Next]_(History!vars)
  BY HistoryStep
<1> QED
  BY <1>1, <1>2, <1>3, <1>4, SerialHolds, PTL DEF Spec, ImplementsHistory, History!Spec

=============================================================================
