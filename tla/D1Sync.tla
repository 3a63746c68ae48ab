------------------------------- MODULE D1Sync --------------------------------
(***************************************************************************)
(* The background task that copies the local database to Cloudflare D1     *)
(* (src/src/data/sync.rs, sync_to_d1; spawned by src/src/main.rs).         *)
(*                                                                         *)
(* A cycle takes a consistent copy of the database, turns it into SQL (a   *)
(* diff against the snapshot of the last synchronised state, or a dump     *)
(* when there is no snapshot), skips the upload when D1 already knows the  *)
(* hash of that SQL, runs it otherwise, makes the copy the new snapshot    *)
(* and prunes the hashes D1 keeps.  One cycle runs at a time; the server   *)
(* writes to the database all the while.  A cycle that fails, or is cut    *)
(* off by a restart, leaves the files and D1 as they are at that point.    *)
(***************************************************************************)
EXTENDS Naturals, Sequences

CONSTANTS
    Rows,        \* the rows of the database, by rowid
    Values,      \* what a row may hold
    Absent,      \* the row does not exist
    Canon,       \* what canonicalisation leaves of a value (blank lines go)
    None,        \* no snapshot file, or no payload
    Retention,   \* history_retention_count; 0 keeps every hash
    StopsAt,     \* the steps at which a cycle may stop
    MaxChanges,  \* bound: writes of the server
    MaxStops     \* bound: cycles that stop

ASSUME D1Assumption ==
    /\ Absent \notin Values
    /\ Canon \in [Values \cup {Absent} -> Values \cup {Absent}]
    /\ \A v \in Values \cup {Absent} : Canon[v] = Absent <=> v = Absent
    /\ None \notin [Rows -> Values \cup {Absent}]
    /\ Retention \in Nat /\ MaxChanges \in Nat /\ MaxStops \in Nat
    /\ StopsAt \subseteq {"check", "execute", "promote", "rename", "prune"}

VARIABLES
    local,     \* the local database
    snapshot,  \* the snapshot file, None when it is missing
    remote,    \* the D1 database
    history,   \* the keys in _rustresort_sync_history, oldest first
    pc,        \* where the cycle is
    source,    \* the copy of the local database the cycle works on
    payload,   \* the SQL it made of it
    changes,   \* writes so far
    stops,     \* cycles stopped so far
    (* history: no step depends on it *)
    last,      \* the payload that D1 carried out last, None before the first
    acked,     \* a snapshot was promoted since
    adrift     \* rows of uploads and skips that went wrong, until D1 writes them

cycle == <<pc, source, payload>>
account == <<last, acked, adrift>>
vars == <<local, snapshot, remote, history, cycle, changes, stops, account>>

DBs == [Rows -> Values \cup {Absent}]
Empty == [r \in Rows |-> Absent]

-----------------------------------------------------------------------------
(* The SQL.                                                                *)

Statement(old, new) ==
    [op |-> IF old = Absent THEN "insert" ELSE IF new = Absent THEN "delete" ELSE "update",
     value |-> new]

\* One statement for each row in which `to` differs from `from`.
Changes(from, to) ==
    [r \in {q \in Rows : from[q] # to[q]} |-> Statement(from[r], to[r])]

\* sqldiff against the snapshot.
Diff(from, to) == [mode |-> "diff", sql |-> Changes(from, to)]

\* DROP every table, then .dump.
FullDump(to) == [mode |-> "full", sql |-> Changes(Empty, to)]

\* No statements: sqldiff found no difference.  A dump is never empty.
NoSql(p) == p.mode = "diff" /\ DOMAIN p.sql = {}

\* The database the statements run on.
Base(p, db) == IF p.mode = "full" THEN Empty ELSE db

\* D1 runs the file as one transaction: an INSERT of a row that is there fails
\* it, an UPDATE or DELETE of a missing row does nothing.
Accepts(p, db) ==
    \A r \in DOMAIN p.sql : p.sql[r].op = "insert" => Base(p, db)[r] = Absent

Written(p, db) ==
    {r \in DOMAIN p.sql : p.sql[r].op = "update" => Base(p, db)[r] # Absent}

Apply(p, db) ==
    [r \in Rows |-> IF r \in Written(p, db) THEN p.sql[r].value ELSE Base(p, db)[r]]

\* With a bug: the hash leaves out the values.
SyncKeyOfRows(p) ==
    [mode |-> p.mode, sql |-> [r \in DOMAIN p.sql |-> p.sql[r].op]]

\* sync_key: the hash of the canonical text of the payload.
SyncKey(p) ==
    [mode |-> p.mode,
     sql |-> [r \in DOMAIN p.sql |->
                 [op |-> p.sql[r].op, value |-> Canon[p.sql[r].value]]]]

KeyExists(k) == \E i \in 1..Len(history) : history[i] = k

\* The newest n entries.
Newest(s, n) == IF Len(s) <= n THEN s ELSE SubSeq(s, Len(s) - n + 1, Len(s))

-----------------------------------------------------------------------------
PCs == {"idle", "check", "execute", "promote", "rename", "prune"}

TypeOK ==
    /\ local \in DBs
    /\ snapshot \in DBs \cup {None}
    /\ remote \in DBs
    /\ pc \in PCs
    /\ source \in DBs
    /\ changes \in 0..MaxChanges
    /\ stops \in 0..MaxStops
    /\ pc # "idle" => payload \in {FullDump(source)} \cup
                                  {Diff(db, source) : db \in DBs}
    /\ last = None => acked
    /\ acked \in BOOLEAN
    /\ adrift \subseteq Rows

\* An empty database, no snapshot yet; D1 may hold anything.
Init ==
    /\ local = Empty
    /\ snapshot = None
    /\ remote \in DBs
    /\ history = <<>>
    /\ pc = "idle"
    /\ source = Empty
    /\ payload = None
    /\ changes = 0
    /\ stops = 0
    /\ last = None
    /\ acked = TRUE
    /\ adrift = {}

\* The server writes a row.
Write(r, v) ==
    /\ changes < MaxChanges
    /\ local[r] # v
    /\ local' = [local EXCEPT ![r] = v]
    /\ changes' = changes + 1
    /\ UNCHANGED <<snapshot, remote, history, cycle, stops, account>>

\* A cycle begins: VACUUM INTO copies the database, and the SQL is built from
\* the copy; without differences the cycle is over.
Prepare ==
    /\ pc = "idle"
    /\ source' = local
    /\ payload' = IF snapshot = None THEN FullDump(local) ELSE Diff(snapshot, local)
    /\ pc' = IF NoSql(payload') THEN "idle" ELSE "check"
    /\ UNCHANGED <<local, snapshot, remote, history, changes, stops, account>>

\* The rows a payload is about: a dump replaces every one.
Touched(p) == IF p.mode = "full" THEN Rows ELSE DOMAIN p.sql

\* The rows of an upload whose snapshot is not in place yet, or never will be.
Unsettled == IF acked THEN {} ELSE Touched(last)

\* The payload's key is that of the last upload.
IsRetry == last # None /\ SyncKey(payload) = SyncKey(last)

\* d1_sync_key_exists: a key that is known counts as synchronised.
CheckKey ==
    /\ pc = "check"
    /\ IF KeyExists(SyncKey(payload))
       THEN /\ pc' = "promote"
            /\ adrift' = IF IsRetry THEN adrift
                         ELSE adrift \cup Touched(payload) \cup Unsettled
       ELSE /\ pc' = "execute"
            /\ UNCHANGED adrift
    /\ UNCHANGED <<local, snapshot, remote, history, source, payload, changes, stops,
                   last, acked>>

\* wrangler d1 execute: the payload and the INSERT of its key, or an error that
\* ends the cycle.
Execute ==
    /\ pc = "execute"
    /\ IF Accepts(payload, remote)
       THEN /\ remote' = Apply(payload, remote)
            /\ history' = Append(history, SyncKey(payload))
            /\ pc' = "promote"
            /\ last' = payload
            /\ acked' = FALSE
            /\ adrift' = IF payload.mode = "full" THEN {}
                         ELSE (adrift \cup Unsettled) \ Written(payload, remote)
       ELSE /\ pc' = "idle"
            /\ UNCHANGED <<remote, history, account>>
    /\ UNCHANGED <<local, snapshot, source, payload, changes, stops>>

\* promote_snapshot stages a copy of the source and removes the old snapshot.
RemoveSnapshot ==
    /\ pc = "promote"
    /\ snapshot' = None
    /\ pc' = "rename"
    /\ UNCHANGED <<local, remote, history, source, payload, changes, stops, account>>

\* With a bug: the snapshot is taken again from the database.
RenameLive ==
    /\ pc = "rename"
    /\ snapshot' = local
    /\ acked' = TRUE
    /\ pc' = "prune"
    /\ UNCHANGED <<local, remote, history, source, payload, changes, stops, last, adrift>>

\* The staged copy takes its place.
RenameStaged ==
    /\ pc = "rename"
    /\ snapshot' = source
    /\ acked' = TRUE
    /\ pc' = "prune"
    /\ UNCHANGED <<local, remote, history, source, payload, changes, stops, last, adrift>>

\* prune_sync_history.
PruneHistory ==
    /\ pc = "prune"
    /\ history' = IF Retention = 0 THEN history ELSE Newest(history, Retention)
    /\ pc' = "idle"
    /\ UNCHANGED <<local, snapshot, remote, source, payload, changes, stops, account>>

\* A tool or a file operation fails at this step, or the server restarts: the
\* look at the keys, wrangler before D1 has run the file ("execute") or after
\* ("promote", where the copy may fail as well), the rename, or the pruning,
\* whose failure is only warned about.
Stop ==
    /\ pc \in StopsAt
    /\ stops < MaxStops
    /\ stops' = stops + 1
    /\ pc' = "idle"
    /\ UNCHANGED <<local, snapshot, remote, history, source, payload, changes, account>>

Step == \/ Prepare \/ CheckKey \/ Execute \/ RemoveSnapshot \/ RenameStaged
        \/ PruneHistory

Next == \/ \E r \in Rows, v \in Values \cup {Absent} : Write(r, v)
        \/ Step
        \/ Stop

Spec == Init /\ [][Next]_vars

\* The timer starts cycle after cycle, and each goes on until it ends.
FairSpec == Spec /\ WF_vars(Step)

-----------------------------------------------------------------------------
(* Properties.                                                             *)

\* The same rows with the same text, up to blank lines and indentation.
Agree(a, b) == \A r \in Rows : Canon[a[r]] = Canon[b[r]]

\* The snapshot says what D1 holds, whatever cycles stop and wherever, but for
\* the rows of an upload that no promotion followed, and those of such uploads
\* and of payloads skipped for an old key that D1 has not written since: the
\* snapshot is the copy that was uploaded, never a later one ("Snapshot advances
\* only when execution is accepted as success", docs/SYNC_STRATEGY.md:99).
SnapshotIsRemote ==
    snapshot # None =>
        \A r \in Rows \ (adrift \cup Unsettled) : Canon[snapshot[r]] = Canon[remote[r]]

\* When D1 carried out an upload and the cycle stopped, a cycle that makes the
\* same SQL again finds its key and rightly skips the upload: D1 is where the
\* payload leads, for any number of keys kept.
RetryIsApplied ==
    pc = "check" /\ IsRetry =>
        \A r \in Rows \ adrift : Canon[source[r]] = Canon[remote[r]]

\* Any key that D1 knows means that D1 already is where the payload leads ("the
\* cycle is treated as already-applied success (no payload apply)",
\* docs/SYNC_STRATEGY.md:82).
KnownKeyIsApplied ==
    pc = "check" /\ KeyExists(SyncKey(payload)) => Agree(source, remote)

\* D1 refuses the diff: an upload that went wrong has put a row there that the
\* snapshot does not have, and the diff inserts it.
Refused ==
    snapshot # None /\ \E r \in adrift \cup Unsettled :
        snapshot[r] = Absent /\ local[r] # Absent /\ remote[r] # Absent

\* Once the server stops writing and cycles run through, D1 catches up and stays
\* equal, but for the rows of uploads and skips that went wrong, unless it
\* refuses the diff for one of those.
EventuallySynced ==
    <>[](Refused \/ \A r \in Rows \ (adrift \cup Unsettled) : Canon[local[r]] = Canon[remote[r]])
==============================================================================
