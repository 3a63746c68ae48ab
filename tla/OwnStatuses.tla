---------------------------- MODULE OwnStatuses ----------------------------
(***************************************************************************)
(* The owner's statuses as the database keeps them: publishing one with    *)
(* media or a poll, editing it, deleting it, voting in its poll, and the   *)
(* upload of the media (src/src/api/mastodon/{statuses,polls,media}.rs,    *)
(* src/src/service/status.rs, src/src/data/database.rs).                   *)
(*                                                                         *)
(* A transaction is one step: BEGIN IMMEDIATE keeps other writers out and  *)
(* readers do not see what is not committed.  What a handler reads before  *)
(* its transaction is a step of its own, and may be stale when it is used. *)
(***************************************************************************)
EXTENDS Naturals, Sequences, FiniteSets

CONSTANTS
    Requests,   \* the owner's requests
    Statuses,   \* the owner's statuses, by id
    Before,     \* Before[s]: what s says at the start, None when it is not there
    Media,      \* media attachments, by id
    Texts,      \* what a status or a warning may say
    Hashtags,   \* the hashtags
    TagsOf,     \* TagsOf[t]: the hashtags in text t
    Options,    \* the options of a poll
    Ops,        \* what a request may ask for
    Modes,      \* the values `mode` may have
    None,       \* nothing; in a request, a field that is left out
    NoRow,      \* there is no media_attachments row
    Unattached  \* media_attachments.status_id IS NULL

\* content and content_warning.
Versions == [text : Texts, warning : Texts \cup {None}]

PollKinds == {"single", "multiple"}

OpType == [kind : {"create", "edit", "delete", "vote", "upload"},
           status : Statuses,
           text : Texts \cup {None}, warning : Texts \cup {None},
           media : (SUBSET Media) \cup {None},
           poll : PollKinds \cup {None},
           choice : SUBSET Options]

ASSUME ConstantsAssumption ==
    /\ Before \in [Statuses -> Versions \cup {None}]
    /\ TagsOf \in [Texts -> SUBSET Hashtags]
    /\ Ops \subseteq OpType /\ None \notin Ops
    /\ \A o \in Ops : o.kind = "create" => o.text # None /\ o.media # None
    /\ \A o \in Ops : o.kind = "upload" => \E m \in Media : o.media = {m}
    /\ Modes \subseteq SUBSET {"faulty", "serial"}
    /\ None \notin Texts /\ None \notin Versions
    /\ \A ms \in SUBSET Media : None # ms
    /\ NoRow # Unattached
    /\ {NoRow, Unattached} \cap Statuses = {}

VARIABLES
    row,     \* row[s]: the version in the statuses table, or None
    edits,   \* edits[s]: its rows in status_edits, oldest first
    tags,    \* tags[s]: the hashtags it is listed under in status_hashtags
    poll,    \* poll[s]: its poll, or None
    owner,   \* owner[m]: the status m is attached to, Unattached or NoRow
    stored,  \* the media with an object in the bucket
    op,      \* op[r]: what request r asks for, None before it arrives
    task,    \* task[r]: where r is, the version and the media it goes by
    mode     \* "faulty": statements fail, requests are dropped, the server
             \* restarts; "serial": the owner waits for each request

vars == <<row, edits, tags, poll, owner, stored, op, task, mode>>

InFlight == {"insert", "load", "readMedia", "update", "delete", "loadPoll", "vote",
             "put", "insertMedia", "cleanup"}
Ended    == {"done", "failed", "dropped"}

Polls == [multiple : BOOLEAN, over : BOOLEAN,
          votes : SUBSET Options, tally : [Options -> Nat]]

Tasks == [Requests -> [at : {"idle"} \cup InFlight \cup Ended,
                       seen : Versions \cup {None},
                       replace : (SUBSET Media) \cup {None}]]

At(s) == [at |-> s, seen |-> None, replace |-> None]

\* Whatever hangs on a status has its status: the foreign keys.
Referenced ==
    /\ \A s \in Statuses : row[s] = None => /\ edits[s] = <<>>
                                            /\ tags[s] = {}
                                            /\ poll[s] = None
    /\ \A m \in Media : owner[m] \in Statuses => row[owner[m]] # None

TypeOK ==
    /\ row \in [Statuses -> Versions \cup {None}]
    /\ edits \in [Statuses -> Seq(Versions)]
    /\ tags \in [Statuses -> SUBSET Hashtags]
    /\ poll \in [Statuses -> Polls \cup {None}]
    /\ owner \in [Media -> Statuses \cup {NoRow, Unattached}]
    /\ stored \subseteq Media
    /\ op \in [Requests -> Ops \cup {None}]
    /\ task \in Tasks
    /\ mode \in Modes
    /\ Referenced

Init ==
    /\ row = Before
    /\ edits = [s \in Statuses |-> <<>>]
    /\ tags = [s \in Statuses |-> IF row[s] = None THEN {} ELSE TagsOf[row[s].text]]
    /\ poll = [s \in Statuses |-> None]
    /\ owner \in [Media -> {NoRow, Unattached}]
    /\ stored = {m \in Media : owner[m] # NoRow}
    /\ op = [r \in Requests |-> None]
    /\ task = [r \in Requests |-> At("idle")]
    /\ mode \in Modes

-----------------------------------------------------------------------------
Status(r) == op[r].status
Kind(r)   == op[r].kind

\* Request r is at s; one that ends forgets what it has read.
Goto(r, s) == task' = [task EXCEPT ![r] = IF s \in Ended THEN At(s) ELSE [@ EXCEPT !.at = s]]

Attached(s) == {m \in Media : owner[m] = s}

Settled == \A r \in Requests : task[r].at \notin InFlight

\* With a bug: the row of an attachment is inserted before its object is put.
FirstRow == [create |-> "insert", edit |-> "load", delete |-> "load",
             vote |-> "loadPoll", upload |-> "insertMedia"]

\* The step a request starts with.
First == [create |-> "insert", edit |-> "load", delete |-> "load",
          vote |-> "loadPoll", upload |-> "put"]

\* A new status and a new attachment have an id nobody else has.
Fresh(o) ==
    /\ o.kind = "create" => /\ Before[o.status] = None
                            /\ \A q \in Requests : op[q] # None => op[q].status # o.status
    /\ o.kind = "upload" => \A m \in o.media : owner[m] = NoRow /\ m \notin stored
    /\ o.kind = "upload" => \A q \in Requests :
                               op[q] # None /\ Kind(q) = "upload" => op[q].media # o.media

\* A request arrives.
Arrive(r) ==
    /\ task[r].at = "idle"
    /\ "serial" \in mode => Settled
    /\ \E o \in Ops : /\ Fresh(o)
                      /\ op' = [op EXCEPT ![r] = o]
                      /\ Goto(r, First[o.kind])
    /\ UNCHANGED <<row, edits, tags, poll, owner, stored, mode>>

-----------------------------------------------------------------------------
(* Publishing.                                                             *)

NewPoll(kind) == IF kind = None THEN None
                 ELSE [multiple |-> kind = "multiple", over |-> FALSE,
                       votes |-> {}, tally |-> [o \in Options |-> 0]]

\* With a bug: media of another status may be attached.
ClaimableTaken(m) == owner[m] # NoRow

\* Media that a new status may claim.
Claimable(m) == owner[m] = Unattached

\* insert_status_with_media_and_poll: one transaction, rolled back when one of
\* the media is not there or not free.
Insert(r) ==
    LET s == Status(r)  o == op[r] IN
    /\ task[r].at = "insert"
    /\ IF \A m \in o.media : Claimable(m)
       THEN /\ row' = [row EXCEPT ![s] = [text |-> o.text, warning |-> o.warning]]
            /\ tags' = [tags EXCEPT ![s] = TagsOf[o.text]]
            /\ poll' = [poll EXCEPT ![s] = NewPoll(o.poll)]
            /\ owner' = [m \in Media |-> IF m \in o.media THEN s ELSE owner[m]]
            /\ Goto(r, "done")
       ELSE Goto(r, "failed") /\ UNCHANGED <<row, tags, poll, owner>>
    /\ UNCHANGED <<edits, stored, op, mode>>

-----------------------------------------------------------------------------
(* Editing.                                                                *)

\* What the status will say: the fields that are left out stay as they were.
Wanted(r, seen) ==
    [text    |-> IF op[r].text = None THEN seen.text ELSE op[r].text,
     warning |-> IF op[r].warning = None THEN seen.warning ELSE op[r].warning]

\* get: the version goes to the history if the edit changes anything.
Load(r) ==
    LET v == row[Status(r)] IN
    /\ task[r].at = "load"
    /\ IF v = None THEN Goto(r, "failed")
       ELSE IF Kind(r) = "delete" THEN Goto(r, "delete")
       ELSE IF op[r].media = None /\ Wanted(r, v) = v THEN Goto(r, "done")
       ELSE task' = [task EXCEPT ![r] =
                        [at |-> IF op[r].media = None THEN "update" ELSE "readMedia",
                         seen |-> v, replace |-> None]]
    /\ UNCHANGED <<row, edits, tags, poll, owner, stored, op, mode>>

\* get_media_by_status: the media are replaced only if they differ.
ReadMedia(r) ==
    LET differ == Attached(Status(r)) # op[r].media IN
    /\ task[r].at = "readMedia"
    /\ IF ~differ /\ Wanted(r, task[r].seen) = task[r].seen THEN Goto(r, "done")
       ELSE task' = [task EXCEPT ![r].at = "update",
                                 ![r].replace = IF differ THEN op[r].media ELSE None]
    /\ UNCHANGED <<row, edits, tags, poll, owner, stored, op, mode>>

\* The media of s are ms; those that it had besides are free again.
Replaced(s, ms) == [m \in Media |-> IF m \in ms THEN s
                                    ELSE IF owner[m] = s THEN Unattached ELSE owner[m]]

\* With a bug: the new version is saved to the history, not the previous one.
SnapshotNew(r) == Append(edits[Status(r)], Wanted(r, task[r].seen))

\* status_edits after the INSERT of previous_status.
Snapshot(r) == Append(edits[Status(r)], task[r].seen)

\* update_status_with_edit_snapshot_and_media: one transaction, rolled back when
\* the status is gone or one of the media is not to be had.
Update(r) ==
    LET s == Status(r)  ms == task[r].replace IN
    /\ task[r].at = "update"
    /\ IF row[s] # None /\ (ms # None => \A m \in ms : owner[m] \in {Unattached, s})
       THEN /\ row' = [row EXCEPT ![s] = Wanted(r, task[r].seen)]
            /\ edits' = [edits EXCEPT ![s] = Snapshot(r)]
            /\ owner' = IF ms = None THEN owner ELSE Replaced(s, ms)
            /\ Goto(r, "done")
       ELSE Goto(r, "failed") /\ UNCHANGED <<row, edits, owner>>
    /\ UNCHANGED <<tags, poll, stored, op, mode>>

-----------------------------------------------------------------------------
(* Deleting.                                                               *)

\* ON DELETE CASCADE takes the attachments of s along; their objects stay.
Orphaned(s) == [m \in Media |-> IF owner[m] = s THEN NoRow ELSE owner[m]]

\* delete_status: a row that is gone by now is no error.
Delete(r) ==
    LET s == Status(r) IN
    /\ task[r].at = "delete"
    /\ row' = [row EXCEPT ![s] = None]
    /\ edits' = [edits EXCEPT ![s] = <<>>]
    /\ tags' = [tags EXCEPT ![s] = {}]
    /\ poll' = [poll EXCEPT ![s] = None]
    /\ owner' = Orphaned(s)
    /\ Goto(r, "done")
    /\ UNCHANGED <<stored, op, mode>>

-----------------------------------------------------------------------------
(* Voting.                                                                 *)

\* vote_in_poll of polls.rs: get_poll and get_poll_options.
LoadPoll(r) ==
    LET p == poll[Status(r)] IN
    /\ task[r].at = "loadPoll"
    /\ Goto(r, IF p = None \/ op[r].choice = {} THEN "failed"
               ELSE IF p.over THEN "failed" ELSE "vote")
    /\ UNCHANGED <<row, edits, tags, poll, owner, stored, op, mode>>

\* With a bug: the transaction does not look for an earlier ballot.
AcceptsAny(p, choice) == ~p.over /\ (p.multiple \/ Cardinality(choice) = 1)

\* What the transaction checks: the poll is open, the number of choices fits,
\* and there is no ballot yet (the owner is the only voter).
Accepts(p, choice) ==
    /\ ~p.over
    /\ p.multiple \/ Cardinality(choice) = 1
    /\ p.votes = {}

\* vote_in_poll of database.rs: a vote that is there is not inserted again and
\* is an error.
Vote(r) ==
    LET s == Status(r)  p == poll[s]  c == op[r].choice IN
    /\ task[r].at = "vote"
    /\ IF p # None /\ Accepts(p, c) /\ c \cap p.votes = {}
       THEN /\ poll' = [poll EXCEPT ![s] =
                  [p EXCEPT !.votes = @ \cup c,
                            !.tally = [o \in Options |-> IF o \in c THEN p.tally[o] + 1
                                                                    ELSE p.tally[o]]]]
            /\ Goto(r, "done")
       ELSE Goto(r, "failed") /\ UNCHANGED poll
    /\ UNCHANGED <<row, edits, tags, owner, stored, op, mode>>

\* The time of a poll runs out.
Close(s) ==
    /\ poll[s] # None /\ ~poll[s].over
    /\ poll' = [poll EXCEPT ![s].over = TRUE]
    /\ UNCHANGED <<row, edits, tags, owner, stored, op, task, mode>>

-----------------------------------------------------------------------------
(* Uploading.                                                              *)

\* upload_media: the object is put before its row is inserted;
Put(r) ==
    /\ task[r].at = "put"
    /\ \/ stored' = stored \cup op[r].media /\ Goto(r, "insertMedia")
       \/ "faulty" \in mode /\ Goto(r, "failed") /\ UNCHANGED stored
    /\ UNCHANGED <<row, edits, tags, poll, owner, op, mode>>

\* when the INSERT fails,
InsertMedia(r) ==
    /\ task[r].at = "insertMedia"
    /\ \/ /\ owner' = [m \in Media |-> IF m \in op[r].media THEN Unattached ELSE owner[m]]
          /\ Goto(r, "done")
       \/ "faulty" \in mode /\ Goto(r, "cleanup") /\ UNCHANGED owner
    /\ UNCHANGED <<row, edits, tags, poll, stored, op, mode>>

\* the object is deleted again, if it can be.
Cleanup(r) ==
    /\ task[r].at = "cleanup"
    /\ \/ stored' = stored \ op[r].media
       \/ UNCHANGED stored
    /\ Goto(r, "failed")
    /\ UNCHANGED <<row, edits, tags, poll, owner, op, mode>>

-----------------------------------------------------------------------------
\* A statement fails, or the client disconnects.  What a transaction had done
\* is rolled back, which for a disconnection the connection pool is trusted with.
Drop(r) ==
    /\ "faulty" \in mode /\ task[r].at \in InFlight
    /\ Goto(r, "dropped")
    /\ UNCHANGED <<row, edits, tags, poll, owner, stored, op, mode>>

\* The server starts anew: backfill_missing_status_hashtags indexes the
\* statuses that have a hashtag and no row in status_hashtags.
Restart ==
    /\ "faulty" \in mode
    /\ task' = [r \in Requests |-> IF task[r].at \in InFlight THEN At("dropped")
                                                          ELSE task[r]]
    /\ tags' = [s \in Statuses |-> IF row[s] # None /\ tags[s] = {}
                                   THEN TagsOf[row[s].text] ELSE tags[s]]
    /\ UNCHANGED <<row, edits, poll, owner, stored, op, mode>>

Step(r) ==
    \/ Insert(r) \/ Load(r) \/ ReadMedia(r) \/ Update(r) \/ Delete(r)
    \/ LoadPoll(r) \/ Vote(r) \/ Put(r) \/ InsertMedia(r) \/ Cleanup(r)

Next ==
    \/ \E r \in Requests : Arrive(r) \/ Step(r) \/ Drop(r)
    \/ \E s \in Statuses : Close(s)
    \/ Restart

Spec == Init /\ [][Next]_vars

-----------------------------------------------------------------------------
(* Properties.                                                             *)

\* However uploads, posts, edits and deletions overlap, an attachment that a
\* status has never goes to another one: the status has to let go of it first.
MediaIsKept ==
    [][\A m \in Media : owner[m] \in Statuses =>
          owner'[m] \in {owner[m], Unattached, NoRow}]_vars

\* Request q has attached m to s.
Gave(q, m, s) ==
    /\ task[q].at = "done" /\ Kind(q) \in {"create", "edit"} /\ Status(q) = s
    /\ op[q].media # None /\ m \in op[q].media

\* The row of m went with a status it had been attached to.
FellWithStatus(m) ==
    \E q, r \in Requests : /\ task[r].at = "done" /\ Kind(r) = "delete"
                          /\ Gave(q, m, Status(r))

\* An object is in the bucket for every row that names one, and, without
\* faults, an object without a row is one that is being uploaded or one that a
\* request had attached to a status that has been deleted.
UploadsAreWhole ==
    /\ \A m \in Media : owner[m] # NoRow => m \in stored
    /\ "faulty" \notin mode =>
          \A m \in stored : owner[m] = NoRow =>
              \/ \E r \in Requests : task[r].at = "insertMedia" /\ op[r].media = {m}
              \/ FellWithStatus(m)

\* An owner who waits for each request gets what the edit asks for: when it is
\* answered, the status says so and has just those media.
EditTakesEffect ==
    [][\A r \in Requests :
          ("serial" \in mode /\ task[r].at \in InFlight /\ Kind(r) = "edit" /\ task'[r].at = "done")
          => /\ row'[Status(r)] # None
             /\ op[r].text # None => row'[Status(r)].text = op[r].text
             /\ op[r].warning # None => row'[Status(r)].warning = op[r].warning
             /\ op[r].media # None => {m \in Media : owner'[m] = Status(r)} = op[r].media]_vars

\* A ballot is cast once, while the poll is open, and the count of each option
\* is the number of ballots it is on.
BallotIsFinal ==
    [][\A s \in Statuses : poll[s] # None /\ poll'[s] # None /\ poll'[s].votes # poll[s].votes =>
          /\ poll[s].votes = {} /\ ~poll[s].over
          /\ \A o \in Options : poll'[s].tally[o] = IF o \in poll'[s].votes THEN 1 ELSE 0]_vars

\* The hashtag timeline lists a status under the hashtags it has, as
\* test_update_status_refreshes_hashtag_index asserts.
TagsAreCurrent == \A s \in Statuses : row[s] # None => tags[s] = TagsOf[row[s].text]

\* The history of a status, its version last, only grows: claimed of an owner
\* who waits for each request, and of the rows in status_edits;
\* get_status_history shows the newest 40 of them.
VersionsOf(s) == IF "serial" \in mode /\ row[s] # None THEN Append(edits[s], row[s])
                                                        ELSE <<>>

History == INSTANCE PostHistory WITH versions <- [s \in Statuses |-> VersionsOf(s)]

ImplementsHistory == History!Spec
=============================================================================
