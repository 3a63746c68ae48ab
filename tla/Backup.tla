------------------------------- MODULE Backup --------------------------------
(***************************************************************************)
(* The backups of the database (src/src/storage/backup.rs): a timer's task *)
(* and the owner's requests each take a snapshot, seal it if a key is      *)
(* configured, put it into the bucket under the second in which the upload *)
(* begins, and delete what is beyond the retention count.                  *)
(*                                                                         *)
(* Nothing keeps two of them apart: they may overlap at every step, and    *)
(* two that begin to upload in one second write the same object.           *)
(***************************************************************************)
EXTENDS Naturals, FiniteSets

CONSTANTS
    Tasks,       \* what may back up at one time: the timer's task, requests
    Seals,       \* the encryption keys that may be configured
    Plain,       \* encryption is off
    Retention,   \* storage.backup.retention_count
    MaxVersion,  \* bound: versions of the database
    MaxSecond,   \* bound: the clock
    MaxPuts,     \* bound: objects written
    MaxSlips     \* bound: failures and restarts

\* A retention count of 0 is accepted by the code, and deletes every backup; with
\* 1, two backups of one second can delete each other's object.
ASSUME BackupAssumption ==
    /\ Plain \notin Seals
    /\ IsFiniteSet(Tasks)
    /\ Retention \in Nat /\ Cardinality(Tasks) <= Retention
    /\ {MaxVersion, MaxSecond, MaxPuts, MaxSlips} \subseteq Nat

VARIABLES
    version,   \* the state of the database, which every write changes
    second,    \* the clock, as it is written into a name
    seal,      \* the key of the process that runs, or Plain
    bucket,    \* the objects under backups/rustresort_
    puts,      \* how many objects have been written, their order in the list
    task,      \* task[t]: where t is, with what it carries
    promised,  \* history: the version a finished backup promises (0: none)
    slips

backupVars == <<version, second, seal, bucket, puts, task, promised, slips>>

Idle == [at |-> "idle"]

BackupInit ==
    /\ version = 1
    /\ second = 1
    /\ seal \in Seals \cup {Plain}
    /\ bucket = {}
    /\ puts = 0
    /\ task = [t \in Tasks |-> Idle]
    /\ promised = 0
    /\ slips = 0

-----------------------------------------------------------------------------
\* The name of an object: the second, and the suffix of a sealed one.
Name(o) == <<o.begun, o.seal # Plain>>

\* download_backup: the key is needed where the name ends in .enc.
Opens(o) == o.seal \in {Plain, seal}

Becomes(t, r) == task' = [task EXCEPT ![t] = r]

\* create_sqlite_backup_snapshot: VACUUM INTO sees one state of the database.
Snapshot(t) ==
    /\ task[t].at = "idle"
    /\ puts < MaxPuts
    /\ Becomes(t, [at |-> "sealing", holds |-> version])
    /\ UNCHANGED <<version, second, seal, bucket, puts, promised, slips>>

\* The snapshot is sealed, and upload_backup takes its name from the clock.
BeginUpload(t) ==
    /\ task[t].at = "sealing"
    /\ Becomes(t, [at |-> "uploading", holds |-> task[t].holds, begun |-> second])
    /\ UNCHANGED <<version, second, seal, bucket, puts, promised, slips>>

\* The object of task t, over one of the same name.
Object(t) == [begun |-> task[t].begun, seal |-> seal,
              holds |-> task[t].holds, put |-> puts + 1]
With(o) == {p \in bucket : Name(p) # Name(o)} \cup {o}

\* The snapshots that are on their way when t has put its own. They were taken
\* before, may be older, and may yet be written over it.
Floor(t) ==
    LET under == {u \in Tasks : task[u].at \in {"sealing", "uploading"}}
    IN  CHOOSE v \in {task[u].holds : u \in under} :
            \A u \in under : v <= task[u].holds

\* A cleanup has listed an older object of the same second, and will delete the
\* new one instead.
Doomed(t) == \E u \in Tasks : /\ task[u].at = "deleting"
                              /\ \E o \in task[u].doomed : Name(o) = Name(Object(t))

Put(t) ==
    /\ task[t].at = "uploading"
    /\ puts < MaxPuts
    /\ puts' = puts + 1
    /\ bucket' = With(Object(t))
    /\ promised' = IF promised < Floor(t) /\ ~Doomed(t) THEN Floor(t) ELSE promised
    /\ Becomes(t, [at |-> "listing"])
    /\ UNCHANGED <<version, second, seal, slips>>

Newer(o) == {p \in bucket : p.put > o.put}

\* With a bug: the list is sorted by date ascending.
ExcessNewest == {o \in bucket : Cardinality({p \in bucket : p.put < o.put}) >= Retention}

\* cleanup_old_backups: what list_backups, sorted by date descending, has after
\* the first retention_count.
Excess == {o \in bucket : Cardinality(Newer(o)) >= Retention}

List(t) ==
    /\ task[t].at = "listing"
    /\ Becomes(t, IF Excess = {} THEN Idle
                  ELSE [at |-> "deleting", doomed |-> Excess])
    /\ UNCHANGED <<version, second, seal, bucket, puts, promised, slips>>

\* One DELETE after the other, by name, in the order of the list.
Delete(t) ==
    /\ task[t].at = "deleting"
    /\ LET doomed == task[t].doomed
           next == CHOOSE o \in doomed : \A p \in doomed : p.put <= o.put
       IN  /\ bucket' = {p \in bucket : Name(p) # Name(next)}
           /\ Becomes(t, IF doomed = {next} THEN Idle
                         ELSE [at |-> "deleting", doomed |-> doomed \ {next}])
    /\ UNCHANGED <<version, second, seal, puts, promised, slips>>

-----------------------------------------------------------------------------
Slip == slips < MaxSlips /\ slips' = slips + 1

\* The snapshot, the sealing or the upload fails and so does the backup. The
\* object may have been written all the same.
FailBackup(t) ==
    /\ Slip
    /\ task[t].at \in {"sealing", "uploading"}
    /\ \/ UNCHANGED <<bucket, puts>>
       \/ /\ task[t].at = "uploading" /\ puts < MaxPuts
          /\ bucket' = With(Object(t))
          /\ puts' = puts + 1
    /\ Becomes(t, Idle)
    /\ UNCHANGED <<version, second, seal, promised>>

\* Listing or deleting fails: it is logged, and the backup succeeds.
FailCleanup(t) ==
    /\ Slip
    /\ task[t].at \in {"listing", "deleting"}
    /\ Becomes(t, Idle)
    /\ UNCHANGED <<version, second, seal, bucket, puts, promised>>

\* The process starts again, which takes a second or more, perhaps with another
\* key. A backup sealed with the old one is promised to who still has that key.
Restart ==
    /\ Slip
    /\ second < MaxSecond /\ second' = second + 1
    /\ task' = [t \in Tasks |-> Idle]
    /\ seal' \in Seals \cup {Plain}
    /\ promised' = IF seal' = seal THEN promised ELSE 0
    /\ UNCHANGED <<version, bucket, puts>>

Write ==
    /\ version < MaxVersion /\ version' = version + 1
    /\ UNCHANGED <<second, seal, bucket, puts, task, promised, slips>>

NextSecond ==
    /\ second < MaxSecond /\ second' = second + 1
    /\ UNCHANGED <<version, seal, bucket, puts, task, promised, slips>>

BackupNext ==
    \/ Restart \/ Write \/ NextSecond
    \/ \E t \in Tasks : \/ Snapshot(t) \/ BeginUpload(t) \/ Put(t) \/ List(t)
                        \/ Delete(t) \/ FailBackup(t) \/ FailCleanup(t)

BackupSpec == BackupInit /\ [][BackupNext]_backupVars

-----------------------------------------------------------------------------
(* Properties.                                                             *)

\* A finished backup is never lost: with the key that sealed it, the database
\* can be restored as it was then, or later. Where backups overlap this is as
\* the oldest snapshot that was still on its way had it, since that may be
\* written over the newer one in the same second, or count as the newer. Left
\* out is an upload whose name a cleanup is about to delete (see Doomed).
FinishedIsRestorable ==
    promised > 0 => \E o \in bucket : Opens(o) /\ o.holds >= promised

==============================================================================
