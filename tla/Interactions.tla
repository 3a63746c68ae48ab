---------------------------- MODULE Interactions -----------------------------
(***************************************************************************)
(* The owner's interactions with statuses, their own and remote ones:      *)
(* favourite, repost and bookmark, their opposites, and deleting a status  *)
(* (src/src/api/mastodon/statuses.rs, src/src/service/status.rs), beside   *)
(* the inbox that caches and deletes remote statuses                       *)
(* (src/src/federation/activity.rs) and the deliveries the handlers spawn. *)
(*                                                                         *)
(* A remote status is kept in the in-memory timeline cache until the owner *)
(* interacts with it; then it is copied to the database, or, when it is    *)
(* not cached, an empty private placeholder is.  Every statement is a step *)
(* of its own.  A delivery is a task that nothing orders and that may be   *)
(* lost ("no retry policy configured").                                    *)
(***************************************************************************)
EXTENDS Naturals

CONSTANTS
    Requests,   \* the owner's requests; a request names the mark it makes
    Local,      \* the owner's statuses, by URI
    Remote,     \* statuses of other servers, by URI
    Ops,        \* what a request may ask for
    Modes,      \* the values `mode` may have
    None,       \* nothing
    Unread      \* the request has not looked for a mark yet

Statuses == Local \cup Remote

\* A favourite is a row whose id is in the Like's id, a repost a row with the
\* URI of the Announce; a bookmark is never federated.
Kinds == {"favourite", "repost", "bookmark"}

OpType == [kind : Kinds \cup {"delete"}, add : BOOLEAN, status : Statuses, byUri : BOOLEAN]

\* The id of a row: a status that is the owner's or was cached has one of its
\* own, a placeholder a new one.  A request writes at most one placeholder
\* before it has looked for a mark and one after.
RowIds == Statuses \cup (Requests \X BOOLEAN)

ASSUME ConstantsAssumption ==
    /\ Local \cap Remote = {}
    /\ Ops \subseteq OpType
    /\ Modes \subseteq SUBSET {"faulty", "serial"}
    /\ None # Unread
    /\ {None, Unread} \cap (Requests \cup RowIds) = {}
    /\ Requests \cap Statuses = {}
    /\ Statuses \cap (Requests \X BOOLEAN) = {}

VARIABLES
    row,     \* row[u]: the id of the row with URI u, or None
    mark,    \* mark[k][u]: the mark of kind k on that row; it goes with the row
    cache,   \* the statuses in the timeline cache
    op,      \* op[r]: what request r asks for, None before it arrives
    task,    \* task[r]: where r is, the id of the row it works on or is about
             \* to insert, and the mark it has read
    reaper,  \* reaper[u]: the row a Delete of u is to delete; Unread before it is
             \* looked up, None when there is none
    gone,    \* the remote statuses a Delete of which has been handled
    mail,    \* the activities that are being delivered
    known,   \* the marks the other servers know of
    mode     \* "faulty": the process may stop, deliveries and lookups may fail;
             \* "serial": the owner waits for one request, and what it sends,
             \* before the next

vars == <<row, mark, cache, op, task, reaper, gone, mail, known, mode>>

InFlight == {"find", "findCached", "insertRow", "readMark", "add", "reread",
             "remove", "deleteRow", "spawn"}
Ended    == {"done", "failed", "dropped"}

Activities == [act : {"make", "undo"}, of : Requests]
                \cup [act : {"delete"}, of : Local]

Tasks == [Requests -> [at : {"idle"} \cup InFlight \cup Ended,
                       row : RowIds \cup {None},
                       held : Requests \cup {None, Unread}]]

\* A request that has no row and has read no mark.
At(s) == [at |-> s, row |-> None, held |-> Unread]

TypeOK ==
    /\ row \in [Statuses -> RowIds \cup {None}]
    /\ mark \in [Kinds -> [Statuses -> Requests \cup {None}]]
    /\ cache \subseteq Remote
    /\ op \in [Requests -> Ops \cup {None}]
    /\ task \in Tasks
    /\ reaper \in [Remote -> RowIds \cup {None, Unread}]
    /\ gone \subseteq Remote
    /\ mail \subseteq Activities
    /\ known \subseteq Requests
    /\ mode \in Modes
    /\ \A k \in Kinds, u \in Statuses : mark[k][u] # None => row[u] # None

Init ==
    /\ row = [u \in Statuses |-> IF u \in Local THEN u ELSE None]
    /\ mark = [k \in Kinds |-> [u \in Statuses |-> None]]
    /\ cache = {}
    /\ op = [r \in Requests |-> None]
    /\ task = [r \in Requests |-> At("idle")]
    /\ reaper = [u \in Remote |-> None]
    /\ gone = {} /\ mail = {} /\ known = {}
    /\ mode \in Modes

-----------------------------------------------------------------------------
(* The tables and the deliveries.                                          *)

URI(r)  == op[r].status
Kind(r) == op[r].kind

\* Request r is at s, with row id i and mark m; one that ends forgets both.
Goto(r, s, i, m) ==
    task' = [task EXCEPT ![r] = IF s \in Ended THEN At(s)
                                ELSE [at |-> s, row |-> i, held |-> m]]

\* Request r is at s with what it has.
Proceed(r, s) == Goto(r, s, task[r].row, task[r].held)

\* The row r has loaded is still there.
RowStands(r) == row[URI(r)] = task[r].row

\* The mark of r's kind on the row it has loaded.
MarkOn(r) == IF RowStands(r) THEN mark[Kind(r)][URI(r)] ELSE None

SetMark(r, v) == mark' = [mark EXCEPT ![Kind(r)][URI(r)] = v]

\* DELETE FROM statuses: the foreign keys delete the marks with the row.
DeleteRow(u) ==
    /\ row' = [row EXCEPT ![u] = None]
    /\ mark' = [k \in Kinds |-> [mark[k] EXCEPT ![u] = None]]

\* is_local, and the visibility of a row that has content.
IsLocal(u, id)   == u \in Local /\ id = u
IsVisible(u, id) == id = u

\* The mark is one that other servers are told of: a Like goes to the author of
\* a remote status, an Announce of a visible status to the followers.
Federated(kind, u, id) ==
    \/ kind = "favourite" /\ ~IsLocal(u, id)
    \/ kind = "repost" /\ IsVisible(u, id)

Act(r) == IF op[r].add THEN "make" ELSE "undo"

-----------------------------------------------------------------------------
(* The requests.                                                           *)

Settled == mail = {} /\ \A r \in Requests : task[r].at \notin InFlight

\* A request arrives.
Arrive(r) ==
    /\ task[r].at = "idle"
    /\ "serial" \in mode => Settled
    /\ \E o \in Ops : op' = [op EXCEPT ![r] = o]
    /\ Proceed(r, "find")
    /\ UNCHANGED <<row, mark, cache, reaper, gone, mail, known, mode>>

\* What r does once it has its row.
AfterLoad(r) ==
    CASE Kind(r) = "delete" -> "deleteRow"
      [] Kind(r) # "delete" /\ op[r].add -> "add"
      [] Kind(r) # "delete" /\ ~op[r].add ->
            IF Kind(r) # "bookmark" /\ task[r].held = Unread THEN "readMark" ELSE "remove"

\* get, or the lookup of ensure_remote_status_persisted: by id a missing row is
\* a 404, by URI the cache is next.  The second time by id it is the row it was.
FindRow(r) ==
    /\ task[r].at = "find"
    /\ IF row[URI(r)] # None /\ (op[r].byUri \/ task[r].held = Unread \/ RowStands(r))
       THEN Goto(r, AfterLoad(r), row[URI(r)], task[r].held)
       ELSE Proceed(r, IF op[r].byUri THEN "findCached" ELSE "failed")
    /\ UNCHANGED <<row, mark, cache, op, reaper, gone, mail, known, mode>>

\* persist_remote_status reads the cache: the row will be a copy of the cached
\* status, or else a placeholder.
FindCached(r) ==
    /\ task[r].at = "findCached"
    /\ Goto(r, "insertRow",
            IF URI(r) \in cache THEN URI(r) ELSE <<r, task[r].held # Unread>>,
            task[r].held)
    /\ UNCHANGED <<row, mark, cache, op, reaper, gone, mail, known, mode>>

\* insert_status: the URI is unique, so a row that is there by now is an error.
InsertRow(r) ==
    /\ task[r].at = "insertRow"
    /\ IF row[URI(r)] = None
       THEN /\ row' = [row EXCEPT ![URI(r)] = task[r].row]
            /\ Proceed(r, AfterLoad(r))
       ELSE Proceed(r, "failed") /\ UNCHANGED row
    /\ UNCHANGED <<mark, cache, op, reaper, gone, mail, known, mode>>

\* The delivery of mark m, its making or its undoing, is spawned.
SendMark(r, m) == mail' = mail \cup {[act |-> Act(r), of |-> m]}

\* With a bug: a repost by id is not announced.
AfterAddDone(r) ==
    IF Kind(r) = "repost" /\ op[r].byUri THEN "reread" ELSE "done"

\* What follows once a mark is made: a Like is spawned at once, a repost has
\* its URI read back (when it was asked for by URI) and its inboxes looked up.
AfterAdd(r) ==
    CASE Kind(r) # "repost"             -> "done"
      [] Kind(r) = "repost" /\ op[r].byUri -> "reread"
      [] OTHER -> IF Federated("repost", URI(r), task[r].row) THEN "spawn" ELSE "done"

\* insert_favourite, insert_bookmark, insert_repost: a plain INSERT, which fails
\* when the row is gone (the foreign key) or has such a mark (a unique index).
AddMark(r) ==
    /\ task[r].at = "add"
    /\ IF RowStands(r) /\ MarkOn(r) = None
       THEN /\ SetMark(r, r)
            /\ IF Kind(r) = "favourite" /\ Federated("favourite", URI(r), task[r].row)
               THEN SendMark(r, r) ELSE UNCHANGED mail
            /\ Goto(r, AfterAdd(r), task[r].row, r)
       ELSE Proceed(r, "failed") /\ UNCHANGED <<mark, mail>>
    /\ UNCHANGED <<row, cache, op, reaper, gone, known, mode>>

\* reblog_status by URI: get_repost_uri after the INSERT.  It finds whatever
\* repost the status has by now, and none at all is an error.
Reread(r) ==
    /\ task[r].at = "reread"
    /\ Goto(r, IF MarkOn(r) = None THEN "failed"
               ELSE IF Federated("repost", URI(r), task[r].row) THEN "spawn" ELSE "done",
            task[r].row, MarkOn(r))
    /\ UNCHANGED <<row, mark, cache, op, reaper, gone, mail, known, mode>>

\* With a bug: the mark is read only after it has been removed.
ReadMarkLate(r) ==
    /\ task[r].at = "readMark"
    /\ Goto(r, IF Kind(r) = "repost" THEN "find" ELSE "remove", task[r].row, None)
    /\ UNCHANGED <<row, mark, cache, op, reaper, gone, mail, known, mode>>

\* get_favourite_id, get_repost_uri, before the removal.  unreblog_status then
\* looks the status up a second time.
ReadMark(r) ==
    /\ task[r].at = "readMark"
    /\ Goto(r, IF Kind(r) = "repost" THEN "find" ELSE "remove", task[r].row, MarkOn(r))
    /\ UNCHANGED <<row, mark, cache, op, reaper, gone, mail, known, mode>>

\* With a bug: the DELETE matches no row.
RemoveMarkNot(r) ==
    /\ task[r].at = "remove"
    /\ IF Kind(r) = "favourite" /\ task[r].held # None THEN SendMark(r, task[r].held)
                                                   ELSE UNCHANGED mail
    /\ Proceed(r, "done")
    /\ UNCHANGED <<row, mark, cache, op, reaper, gone, known, mode>>

\* delete_favourite, delete_bookmark, delete_repost: whatever mark of the kind
\* the row has.  The Undo names the mark that was read.
RemoveMark(r) ==
    /\ task[r].at = "remove"
    /\ IF RowStands(r) THEN SetMark(r, None) ELSE UNCHANGED mark
    /\ IF /\ Kind(r) = "favourite" /\ task[r].held # None
          /\ Federated("favourite", URI(r), task[r].row)
       THEN SendMark(r, task[r].held) ELSE UNCHANGED mail
    /\ Proceed(r, IF /\ Kind(r) = "repost" /\ task[r].held # None
                     /\ Federated("repost", URI(r), task[r].row)
                  THEN "spawn" ELSE "done")
    /\ UNCHANGED <<row, cache, op, reaper, gone, known, mode>>

\* delete_status: only a local row; the marks go with it.  Followers are sent a
\* Delete of the status.
DeleteStatus(r) ==
    /\ task[r].at = "deleteRow"
    /\ IF ~IsLocal(URI(r), task[r].row)
       THEN Proceed(r, "failed") /\ UNCHANGED <<row, mark>>
       ELSE /\ IF RowStands(r) THEN DeleteRow(URI(r)) ELSE UNCHANGED <<row, mark>>
            /\ Proceed(r, "spawn")
    /\ UNCHANGED <<cache, op, reaper, gone, mail, known, mode>>

\* The inboxes are looked up and the delivery to them is spawned; a lookup that
\* fails is logged, and nothing is sent.
Spawn(r) ==
    /\ task[r].at = "spawn"
    /\ \/ IF Kind(r) = "delete"
          THEN mail' = mail \cup {[act |-> "delete", of |-> URI(r)]}
          ELSE SendMark(r, task[r].held)
       \/ "faulty" \in mode /\ UNCHANGED mail
    /\ Proceed(r, "done")
    /\ UNCHANGED <<row, mark, cache, op, reaper, gone, known, mode>>

-----------------------------------------------------------------------------
(* The inbox.                                                              *)

\* handle_create of a followee's status caches it; Creates may come again and
\* out of order.
HandleCreate(u) ==
    /\ u \notin cache
    /\ cache' = cache \cup {u}
    /\ UNCHANGED <<row, mark, op, task, reaper, gone, mail, known, mode>>

\* The cache drops what is old or over its limit.
Evict(u) ==
    /\ u \in cache
    /\ cache' = cache \ {u}
    /\ UNCHANGED <<row, mark, op, task, reaper, gone, mail, known, mode>>

\* handle_delete, sent by the author: the cached copy goes first,
HandleDelete(u) ==
    /\ reaper[u] = None
    /\ cache' = cache \ {u}
    /\ gone' = gone \cup {u}
    /\ reaper' = [reaper EXCEPT ![u] = Unread]
    /\ UNCHANGED <<row, mark, op, task, mail, known, mode>>

\* then the row is looked up,
FindDeleted(u) ==
    /\ reaper[u] = Unread
    /\ reaper' = [reaper EXCEPT ![u] = row[u]]
    /\ UNCHANGED <<row, mark, cache, op, task, gone, mail, known, mode>>

\* and deleted by its id.
DeletePersisted(u) ==
    /\ reaper[u] \notin {None, Unread}
    /\ IF row[u] = reaper[u] THEN DeleteRow(u) ELSE UNCHANGED <<row, mark>>
    /\ reaper' = [reaper EXCEPT ![u] = None]
    /\ UNCHANGED <<cache, op, task, gone, mail, known, mode>>

-----------------------------------------------------------------------------
(* The other servers, and faults.                                          *)

\* An activity arrives.  An Undo of something the receiver has not heard of
\* changes nothing; a Delete makes followers forget the reposts of the status.
Receive(m) ==
    /\ mail' = mail \ {m}
    /\ known' = CASE m.act = "make" -> known \cup {m.of}
                  [] m.act = "undo" -> known \ {m.of}
                  [] OTHER -> {x \in known : ~(URI(x) = m.of /\ Kind(x) = "repost")}
    /\ UNCHANGED <<row, mark, cache, op, task, reaper, gone, mode>>

\* A delivery fails or times out.
Lose(m) ==
    /\ "faulty" \in mode
    /\ mail' = mail \ {m}
    /\ UNCHANGED <<row, mark, cache, op, task, reaper, gone, known, mode>>

\* A statement fails, or the client disconnects and the handler is dropped.
Drop(r) ==
    /\ "faulty" \in mode /\ task[r].at \in InFlight
    /\ Proceed(r, "dropped")
    /\ UNCHANGED <<row, mark, cache, op, reaper, gone, mail, known, mode>>

\* The server stops and starts again: the tables survive; the cache, the
\* requests and the deliveries do not.
Restart ==
    /\ "faulty" \in mode
    /\ task' = [r \in Requests |-> IF task[r].at \in InFlight THEN At("dropped")
                                                          ELSE task[r]]
    /\ cache' = {} /\ mail' = {}
    /\ reaper' = [u \in Remote |-> None]
    /\ UNCHANGED <<row, mark, op, gone, known, mode>>

Step(r) ==
    \/ FindRow(r) \/ FindCached(r) \/ InsertRow(r)
    \/ AddMark(r) \/ Reread(r) \/ ReadMark(r) \/ RemoveMark(r)
    \/ DeleteStatus(r) \/ Spawn(r)

Inbox(u) ==
    \/ HandleCreate(u) \/ Evict(u)
    \/ HandleDelete(u) \/ FindDeleted(u) \/ DeletePersisted(u)

Next ==
    \/ \E r \in Requests : Arrive(r) \/ Step(r) \/ Drop(r)
    \/ \E u \in Remote : Inbox(u)
    \/ \E m \in mail : Receive(m) \/ Lose(m)
    \/ Restart

Spec == Init /\ [][Next]_vars

-----------------------------------------------------------------------------
(* Properties.                                                             *)

Standing == {mark[k][u] : k \in Kinds, u \in Statuses} \ {None}

\* An Undo that is under way never names a favourite or a repost that stands:
\* between reading its id and deleting it the row may be removed, made anew or
\* lost with its status, but never comes back with the same id.
UndoneIsGone == \A m \in mail : m.act = "undo" => m.of \notin Standing

\* Whatever requests overlap, once all deliveries are in, the author of a
\* remote status knows of the favourite the database has for it, and the
\* followers of the repost of a visible one.
StandingIsKnown ==
    "faulty" \notin mode /\ Settled =>
        \A k \in {"favourite", "repost"}, u \in Statuses :
            mark[k][u] # None /\ Federated(k, u, row[u]) => mark[k][u] \in known

\* An owner who waits for each request, and its deliveries, before the next has
\* no mark known to others that the database lacks, but on a status its author
\* has deleted.
KnownIsStanding ==
    mode = {"serial"} /\ Settled =>
        \A m \in known : URI(m) \notin gone => m \in Standing
==============================================================================
