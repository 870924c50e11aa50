---------------------------- MODULE PersonalSync ----------------------------
(***************************************************************************)
(* Personal cloud sync of one device's connections with one sync folder    *)
(* (crates/core/src/cloud_sync/personal): the worker's event queue and its *)
(* pass (list, plan, apply), the conflict resolver, the user who edits and *)
(* deletes connections meanwhile, and the other devices, which write the   *)
(* same folder.  The pass runs on its own thread: every read and write of  *)
(* the database or of the folder is a step, and whatever the pass listed   *)
(* is old by the time it is applied.                                       *)
(*                                                                         *)
(* A version is a number, a time a second; what a connection holds is an   *)
(* element of Contents, and two checksums are equal when the contents are. *)
(***************************************************************************)
EXTENDS Integers

CONSTANTS
    Contents,    \* what a connection may hold
    MaxRows,     \* bound: connections the device ever has
    MaxRecords,  \* bound: records the device ever creates
    MaxTime,     \* bound: seconds
    MaxChanges,  \* bound: creations, edits and deletions by the user
    MaxRemote,   \* bound: writes by other devices
    MaxFaults,   \* bound: I/O errors and crashes of the application
    MaxResolves, \* bound: conflicts the user resolves
    MaxEvents,   \* bound: changes, remote writes, faults and resolutions together
    None

ASSUME SyncAssumption ==
    /\ MaxRows \in Nat \ {0} /\ MaxRecords \in Nat \ {0} /\ MaxTime \in Nat \ {0, 1}
    /\ \E c, d \in Contents : c # d
    /\ {MaxChanges, MaxRemote, MaxFaults, MaxResolves, MaxEvents} \subseteq Nat
    /\ None \notin Contents \cup (1..(MaxRows + MaxRecords + MaxRemote))

VARIABLES
    rows,      \* the connections table: NoRow, GoneRow, or a row
    records,   \* the record files of the folder
    conflicts, \* the personal_sync_conflicts table, by record
    form,      \* the open connection form with the sync columns it copied
    pending, active, dirty,  \* WorkerState
    at,        \* where the pass is
    items, listed, deletes,  \* what the pass read: rows, records, deletions
    paused,    \* the records with a conflict when the pass made its plan
    todo,      \* what the phase of the pass still has to treat
    work,      \* the element it is treating
    resolve,   \* the running conflict resolution
    clock, changes, remotes, faults, resolves,
    unlisted,  \* history: the user changed something no pass has listed
    reverted   \* history: a form wrote back a cloud id that sync had replaced

Room == changes + remotes + faults + resolves < MaxEvents

vars == <<rows, records, conflicts, form, pending, active, dirty, at, items, listed,
          deletes, paused, todo, work, resolve, clock, changes, remotes, faults, resolves,
          unlisted, reverted>>
queueVars == <<pending, active, dirty>>
passVars == <<at, items, listed, deletes, paused, todo, work>>
boundVars == <<clock, changes, remotes, faults, resolves>>

RowId == 1..MaxRows
RecordId == 1..(MaxRecords + MaxRemote)
Time == 1..MaxTime

NoRow == [cloud |-> None, content |-> None, updated |-> 0, synced |-> 0]
GoneRow == [NoRow EXCEPT !.updated = -1]
Row == [cloud : RecordId \cup {None}, content : Contents, updated : Time, synced : Time \cup {0}]
NoRecord == [version |-> 0, content |-> None, updated |-> 0, deleted |-> FALSE]
Record == [version : Nat \ {0}, content : Contents, updated : Time, deleted : BOOLEAN]
NoRows == [l \in RowId |-> NoRow]
NoRecords == [r \in RecordId |-> NoRecord]
NoWork == [step |-> "none"]

HasRow(table, l) == table[l].content # None
HasRecord(table, r) == table[r].content # None
Live(table, r) == HasRecord(table, r) /\ ~table[r].deleted

\* sqlite's AUTOINCREMENT never hands a row id out twice; an upload without a
\* cloud id takes a new uuid, and no two devices take the same.
FreshRows == {l \in RowId : rows[l] = NoRow /\ \A k \in RowId : k < l => rows[k] # NoRow}
Fresh(ids) == {r \in ids : ~HasRecord(records, r) /\ \A k \in ids : k < r => HasRecord(records, k)}
FreshRecords == Fresh(1..MaxRecords)
FreshElsewhere == Fresh((MaxRecords + 1)..(MaxRecords + MaxRemote))

-----------------------------------------------------------------------------
(* The planner: pure operators on what the pass listed.                    *)

\* mutant of LocalChanged: an edit of the second of the last sync looks synced
LaterEditOnly(item, record) == item.updated > item.synced

\* A second that both sides name counts as a local change: an edit saved
\* while its predecessor was being uploaded must not look synced.
LocalChanged(item, record) ==
    item.updated > item.synced \/ record.updated <= item.synced
RemoteChanged(item, record) == record.updated > item.synced

\* deleted records and records this device just deleted are out of the plan
Planned(r) == Live(listed, r) /\ r \notin deletes

\* mutant of Unpaused: the pass plans as if nothing waited for the user
NothingPaused(r) == TRUE

Unpaused(r) == r \notin paused

Matched == {l \in RowId :
    /\ HasRow(items, l) /\ items[l].cloud # None
    /\ Unpaused(items[l].cloud) /\ Planned(items[l].cloud)}
Differing == {l \in Matched : items[l].content # listed[items[l].cloud].content}

Uploads == {l \in RowId :
    /\ HasRow(items, l)
    /\ \/ items[l].cloud = None
       \/ Unpaused(items[l].cloud) /\ ~Planned(items[l].cloud)}
Marks == Matched \ Differing
CloudUpdates == {l \in Differing :
    LET r == listed[items[l].cloud] IN LocalChanged(items[l], r) /\ ~RemoteChanged(items[l], r)}
LocalUpdates == {l \in Differing :
    LET r == listed[items[l].cloud] IN ~LocalChanged(items[l], r) /\ RemoteChanged(items[l], r)}
Clashes == {l \in Differing :
    LET r == listed[items[l].cloud] IN LocalChanged(items[l], r) /\ RemoteChanged(items[l], r)}
\* mutant of Downloads: only what the plan compares counts as present
DownloadsUnmatched == {r \in RecordId : Planned(r) /\ \A l \in Matched : items[l].cloud # r}

Downloads == {r \in RecordId :
    /\ Planned(r) /\ Unpaused(r)
    /\ \A l \in RowId : HasRow(items, l) => items[l].cloud # r}

Paused == {r \in RecordId : conflicts[r] # None}

-----------------------------------------------------------------------------
(* The worker's queue.  Only deletions carry data a pass uses: every other *)
(* event is Scan.                                                          *)

Scan == 0

\* mutant of Enqueue: while a pass runs, events are left to it
EnqueueWhenIdle(event) ==
    /\ pending' = IF active THEN pending ELSE pending \cup {event}
    /\ UNCHANGED <<active, dirty>>

Enqueue(event) ==
    /\ pending' = pending \cup {event}
    /\ dirty' = (dirty \/ active)
    /\ UNCHANGED active

\* the runtime's timer, a watcher notification or "sync now"
ScanRequested ==
    /\ Scan \notin pending \/ (active /\ ~dirty)
    /\ Enqueue(Scan)
    /\ UNCHANGED <<rows, records, conflicts, form, passVars, resolve, boundVars, unlisted,
                   reverted>>

BeginDrain ==
    /\ ~active /\ pending # {}
    /\ deletes' = pending \ {Scan}
    /\ pending' = {} /\ active' = TRUE /\ at' = "items"
    /\ UNCHANGED <<rows, records, conflicts, dirty, items, listed, paused, todo, work,
                   unlisted>>

\* finish_drain, after the pass has ended in whatever way
FinishDrain ==
    /\ active' = FALSE /\ dirty' = FALSE
    /\ pending' = IF dirty THEN pending \cup {Scan} ELSE pending
    /\ at' = "idle" /\ items' = NoRows /\ listed' = NoRecords
    /\ deletes' = {} /\ paused' = {} /\ todo' = {} /\ work' = NoWork

-----------------------------------------------------------------------------
(* The pass: what it reads.                                                *)

ListItems ==
    /\ at = "items"
    /\ items' = [l \in RowId |-> IF HasRow(rows, l) THEN rows[l] ELSE NoRow]
    /\ at' = "records" /\ unlisted' = FALSE
    /\ UNCHANGED <<rows, records, conflicts, queueVars, listed, deletes, paused, todo,
                   work>>

ListRecords ==
    /\ at = "records"
    /\ listed' = records /\ at' = "deletes"
    /\ todo' = {r \in deletes : Live(records, r)}
    /\ UNCHANGED <<rows, records, conflicts, queueVars, items, deletes, paused, work,
                   unlisted>>

\* The rows whose record the folder says is deleted.
Tombstoned == {l \in RowId :
    HasRow(items, l) /\ items[l].cloud # None /\ HasRecord(listed, items[l].cloud)
                     /\ listed[items[l].cloud].deleted}

\* The phases in the order of run_pass and apply_plan.
PhaseAfter == [deletes |-> "tombstones", tombstones |-> "plan", uploads |-> "cloud",
               cloud |-> "local", local |-> "downloads", downloads |-> "marks",
               marks |-> "conflicts"]
TodoOf(phase) ==
    CASE phase = "tombstones" -> Tombstoned [] phase = "cloud" -> CloudUpdates
      [] phase = "local" -> LocalUpdates [] phase = "downloads" -> Downloads
      [] phase = "marks" -> Marks [] phase = "conflicts" -> Clashes [] OTHER -> {}

NextPhase ==
    /\ at \in DOMAIN PhaseAfter /\ todo = {} /\ work = NoWork
    /\ UNCHANGED <<rows, records, conflicts, queueVars, items, listed, deletes, paused,
                   work, unlisted>>
    /\ at' = PhaseAfter[at] /\ todo' = TodoOf(at')

\* The keys of the conflicts table are read only now, and the plan is made of
\* rows and records listed before the deletions were applied.
MakePlan ==
    /\ at = "plan"
    /\ UNCHANGED <<rows, records, conflicts, queueVars, items, listed, deletes, work,
                   unlisted>>
    /\ paused' = Paused /\ at' = "uploads" /\ todo' = (Uploads)'

EndPass ==
    /\ at = "conflicts" /\ todo = {}
    /\ FinishDrain
    /\ UNCHANGED <<rows, records, conflicts, unlisted>>

PassIs(phase, step) == at = phase /\ work.step = step
Take(x, step) == x \in todo /\ work = NoWork /\ todo' = todo \ {x} /\ work' = step
Done == work' = NoWork
passFrame == <<queueVars, at, items, listed, deletes, paused, unlisted>>

\* an error of any step ends the pass, and what it had not treated is dropped
Abort == FinishDrain /\ UNCHANGED <<rows, records, conflicts, unlisted>>

-----------------------------------------------------------------------------
(* What rows and records are written with; the conflict resolver uses the  *)
(* same operations.                                                        *)

\* mark_synced: no row, nothing updated
Marked(l, r, second) ==
    IF HasRow(rows, l) THEN [rows EXCEPT ![l].cloud = r, ![l].synced = second] ELSE rows

\* update stamps the row with the local second, and a second statement puts
\* the record's in its place
Overwritten(l, r, record) ==
    [rows EXCEPT ![l] = [cloud |-> r, content |-> record.content,
                         updated |-> clock, synced |-> record.updated]]
Stamped(l, r, record) ==
    IF HasRow(rows, l)
    THEN [rows EXCEPT ![l].cloud = r, ![l].synced = record.updated, ![l].updated = record.updated]
    ELSE rows

\* ensure_expected_version
IsExpected(r, version) == HasRecord(records, r) /\ records[r].version = version

\* next_stored_record: of the record read before the version was checked
Stored(r, content, version) ==
    [records EXCEPT ![r] = [version |-> version + 1, content |-> content,
                            updated |-> clock, deleted |-> FALSE]]

-----------------------------------------------------------------------------
(* The pass: what it writes.                                               *)

\* apply_local_delete_events: the version of the listing must still be there.
CheckDelete ==
    /\ PassIs("deletes", "none")
    /\ \E r \in todo :
        IF IsExpected(r, listed[r].version)
        THEN /\ Take(r, [step |-> "tombstone", record |-> r, found |-> records[r]])
             /\ UNCHANGED <<rows, records, conflicts, passFrame>>
        ELSE Abort

WriteTombstone ==
    /\ PassIs("deletes", "tombstone")
    /\ records' = [records EXCEPT ![work.record] =
            [work.found EXCEPT !.deleted = TRUE, !.version = @ + 1, !.updated = clock]]
    /\ Done
    /\ UNCHANGED <<rows, conflicts, todo, passFrame>>

\* apply_remote_tombstones: delete_item asks nothing of the row.
DeleteTombstoned ==
    /\ PassIs("tombstones", "none")
    /\ \E l \in todo :
        /\ rows' = [rows EXCEPT ![l] = GoneRow]
        /\ todo' = todo \ {l}
    /\ UNCHANGED <<records, conflicts, work, passFrame>>

\* export_item needs the row; a row without a cloud id goes to a new record.
ExportUpload ==
    /\ PassIs("uploads", "none")
    /\ \E l \in todo :
        IF HasRow(rows, l)
        THEN \E r \in IF rows[l].cloud = None THEN FreshRecords ELSE {rows[l].cloud} :
                /\ Take(l, [step |-> "write", row |-> l, record |-> r, content |-> rows[l].content,
                            version |-> records[r].version])
                /\ UNCHANGED <<rows, records, conflicts, passFrame>>
        ELSE Abort

ExportCloudUpdate ==
    /\ PassIs("cloud", "none")
    /\ \E l \in todo :
        IF HasRow(rows, l) /\ rows[l].cloud # None
        THEN /\ Take(l, [step |-> "check", row |-> l, record |-> rows[l].cloud,
                         content |-> rows[l].content])
             /\ UNCHANGED <<rows, records, conflicts, passFrame>>
        ELSE Abort

CheckCloudUpdate ==
    /\ PassIs("cloud", "check")
    /\ IF IsExpected(work.record, listed[items[work.row].cloud].version)
       THEN /\ work' = [step |-> "write", row |-> work.row, record |-> work.record,
                        content |-> work.content, version |-> records[work.record].version]
            /\ UNCHANGED <<rows, records, conflicts, todo, passFrame>>
       ELSE Abort

WriteRecord ==
    /\ at \in {"uploads", "cloud"} /\ work.step = "write"
    /\ records' = Stored(work.record, work.content, work.version)
    /\ work' = [step |-> "mark", row |-> work.row, record |-> work.record, second |-> clock]
    /\ UNCHANGED <<rows, conflicts, todo, passFrame>>

MarkWritten ==
    /\ at \in {"uploads", "cloud", "local"} /\ work.step = "mark"
    /\ rows' = Marked(work.row, work.record, work.second)
    /\ Done
    /\ UNCHANGED <<records, conflicts, todo, passFrame>>

\* apply_remote with a row: update fails when the row is gone
UpdateRow ==
    /\ PassIs("local", "none")
    /\ \E l \in todo :
        LET r == items[l].cloud IN
        IF HasRow(rows, l)
        THEN /\ rows' = Overwritten(l, r, listed[r])
             /\ Take(l, [step |-> "stamp", row |-> l, record |-> r])
             /\ UNCHANGED <<records, conflicts, passFrame>>
        ELSE Abort

StampRow ==
    /\ PassIs("local", "stamp")
    /\ rows' = Stamped(work.row, work.record, listed[work.record])
    /\ work' = [step |-> "mark", row |-> work.row, record |-> work.record,
                second |-> listed[work.record].updated]
    /\ UNCHANGED <<records, conflicts, todo, passFrame>>

\* apply_remote without a row: insert stamps it with the local second
InsertRow ==
    /\ PassIs("downloads", "none")
    /\ \E r \in todo, l \in FreshRows :
        /\ rows' = Overwritten(l, r, listed[r])
        /\ todo' = todo \ {r}
    /\ UNCHANGED <<records, conflicts, work, passFrame>>

MarkEqual ==
    /\ PassIs("marks", "none")
    /\ \E l \in todo :
        /\ rows' = Marked(l, items[l].cloud, items[l].updated)
        /\ todo' = todo \ {l}
    /\ UNCHANGED <<records, conflicts, work, passFrame>>

\* pause_record keeps what was listed of both sides
PauseRecord ==
    /\ PassIs("conflicts", "none")
    /\ \E l \in todo :
        /\ conflicts' = [conflicts EXCEPT ![items[l].cloud] = [row |-> l, remote |-> listed[items[l].cloud]]]
        /\ todo' = todo \ {l}
    /\ UNCHANGED <<rows, records, work, passFrame>>

PassStep ==
    \/ ListItems \/ ListRecords \/ NextPhase \/ MakePlan \/ EndPass
    \/ CheckDelete \/ WriteTombstone \/ DeleteTombstoned
    \/ ExportUpload \/ ExportCloudUpdate \/ CheckCloudUpdate \/ WriteRecord \/ MarkWritten
    \/ UpdateRow \/ StampRow \/ InsertRow \/ MarkEqual \/ PauseRecord

\* drain_once
Drain ==
    /\ UNCHANGED <<form, resolve, boundVars, reverted>>
    /\ BeginDrain \/ PassStep

\* any read or write of the pass may fail; an event it took before it listed
\* anything is gone then, and what it was about waits for the timer
PassFails ==
    /\ at # "idle" /\ faults < MaxFaults /\ Room /\ faults' = faults + 1
    /\ FinishDrain
    /\ unlisted' = (unlisted /\ (at # "items" \/ dirty))
    /\ UNCHANGED <<rows, records, conflicts, form, resolve, clock, changes, remotes, resolves,
                   reverted>>

-----------------------------------------------------------------------------
(* The user, on the UI thread.                                             *)

userFrame == <<records, conflicts, passVars, resolve, clock, remotes, faults, resolves>>
Changes == changes < MaxChanges /\ Room /\ changes' = changes + 1 /\ unlisted' = TRUE

Create ==
    /\ Changes
    /\ \E l \in FreshRows, c \in Contents :
        rows' = [rows EXCEPT ![l] = [cloud |-> None, content |-> c, updated |-> clock, synced |-> 0]]
    /\ Enqueue(Scan)
    /\ UNCHANGED <<userFrame, form, reverted>>

\* The form copies the sync columns when it opens and writes them back when
\* it saves, whatever the pass has written there meanwhile.
OpenForm ==
    /\ form = None /\ changes < MaxChanges /\ Room
    /\ \E l \in RowId :
        /\ HasRow(rows, l)
        /\ form' = [row |-> l, cloud |-> rows[l].cloud, synced |-> rows[l].synced]
    /\ UNCHANGED <<userFrame, rows, queueVars, changes, unlisted, reverted>>

SaveForm ==
    /\ form # None /\ form' = None
    /\ IF HasRow(rows, form.row)
       THEN /\ Changes
            /\ \E c \in Contents \ {rows[form.row].content} :
                rows' = [rows EXCEPT ![form.row] = [cloud |-> form.cloud, content |-> c,
                                                    updated |-> clock, synced |-> form.synced]]
            /\ reverted' = (reverted \/ form.cloud # rows[form.row].cloud)
            /\ Enqueue(Scan)
       ELSE UNCHANGED <<rows, queueVars, changes, unlisted, reverted>>
    /\ UNCHANGED userFrame

\* The deletion event carries the cloud id of the list on the screen, which
\* may have been loaded before the row had one.
Delete ==
    /\ Changes
    /\ \E l \in RowId :
        /\ HasRow(rows, l)
        /\ rows' = [rows EXCEPT ![l] = GoneRow]
        /\ \E cloud \in {rows[l].cloud, None} : Enqueue(IF cloud = None THEN Scan ELSE cloud)
    /\ UNCHANGED <<userFrame, form, reverted>>

-----------------------------------------------------------------------------
(* Resolving a conflict with what its snapshots say.                       *)

resolverFrame == <<form, queueVars, passVars, clock, changes, remotes, faults, unlisted,
                   reverted>>
ResolverIs(step) == resolve # None /\ resolve.step = step
ResolverStops == resolve' = None /\ UNCHANGED <<rows, records, conflicts>>

StartResolve ==
    /\ resolve = None /\ resolves < MaxResolves /\ Room /\ resolves' = resolves + 1
    /\ \E r \in Paused, step \in {"apply", "export"} :
        resolve' = [step |-> step, record |-> r, row |-> conflicts[r].row, remote |-> conflicts[r].remote]
    /\ UNCHANGED <<resolverFrame, rows, records, conflicts>>

\* use_cloud
ApplyCloud ==
    /\ ResolverIs("apply")
    /\ IF HasRow(rows, resolve.row)
       THEN /\ rows' = Overwritten(resolve.row, resolve.record, resolve.remote)
            /\ resolve' = [resolve EXCEPT !.step = "stamp"]
            /\ UNCHANGED <<records, conflicts>>
       ELSE ResolverStops

StampCloud ==
    /\ ResolverIs("stamp")
    /\ rows' = Stamped(resolve.row, resolve.record, resolve.remote)
    /\ resolve' = [step |-> "mark", record |-> resolve.record, row |-> resolve.row,
                   second |-> resolve.remote.updated]
    /\ UNCHANGED <<records, conflicts>>

\* use_local
ExportLocal ==
    /\ ResolverIs("export")
    /\ IF HasRow(rows, resolve.row)
       THEN /\ resolve' = [step |-> "check", record |-> resolve.record, row |-> resolve.row,
                           remote |-> resolve.remote, content |-> rows[resolve.row].content]
            /\ UNCHANGED <<rows, records, conflicts>>
       ELSE ResolverStops

\* the version is the one of the conflict's snapshot
CheckLocal ==
    /\ ResolverIs("check")
    /\ IF IsExpected(resolve.record, resolve.remote.version)
       THEN /\ resolve' = [resolve EXCEPT !.step = "write"]
            /\ UNCHANGED <<rows, records, conflicts>>
       ELSE ResolverStops

WriteLocal ==
    /\ ResolverIs("write")
    /\ records' = Stored(resolve.record, resolve.content, resolve.remote.version)
    /\ resolve' = [step |-> "mark", record |-> resolve.record, row |-> resolve.row, second |-> clock]
    /\ UNCHANGED <<rows, conflicts>>

MarkResolved ==
    /\ ResolverIs("mark")
    /\ rows' = Marked(resolve.row, resolve.record, resolve.second)
    /\ resolve' = [step |-> "clear", record |-> resolve.record]
    /\ UNCHANGED <<records, conflicts>>

ClearConflict ==
    /\ ResolverIs("clear")
    /\ conflicts' = [conflicts EXCEPT ![resolve.record] = None]
    /\ resolve' = None
    /\ UNCHANGED <<rows, records>>

ResolverStep ==
    /\ UNCHANGED <<resolverFrame, resolves>>
    /\ \/ ApplyCloud \/ StampCloud \/ ExportLocal \/ CheckLocal \/ WriteLocal
       \/ MarkResolved \/ ClearConflict

-----------------------------------------------------------------------------
(* The rest of the world.                                                  *)

worldFrame == <<rows, conflicts, form, queueVars, passVars, resolve, changes, resolves, unlisted,
                reverted>>

\* another device uploads a connection, changes one it has listed, or deletes it
OtherDevice ==
    /\ remotes < MaxRemote /\ Room /\ remotes' = remotes + 1
    /\ \/ \E r \in FreshElsewhere, c \in Contents : records' = Stored(r, c, 0)
       \/ \E r \in RecordId, c \in Contents :
            /\ Live(records, r) /\ c # records[r].content
            /\ records' = Stored(r, c, records[r].version)
       \/ \E r \in RecordId :
            /\ Live(records, r)
            /\ records' = [records EXCEPT ![r].deleted = TRUE, ![r].version = @ + 1, ![r].updated = clock]
    /\ UNCHANGED <<worldFrame, clock, faults>>

Tick ==
    /\ clock < MaxTime /\ clock' = clock + 1
    /\ UNCHANGED <<worldFrame, records, remotes, faults>>

\* The application dies: the queue and the pass are gone, what was written stays.
Crash ==
    /\ faults < MaxFaults /\ Room /\ faults' = faults + 1
    /\ FinishDrain /\ pending' = {} /\ form' = None /\ resolve' = None
    /\ unlisted' = FALSE
    /\ UNCHANGED <<rows, records, conflicts, clock, changes, remotes, resolves, reverted>>

-----------------------------------------------------------------------------
(* A device that has never synced, one with one connection in sync, or one *)
(* whose connection was edited on both sides while sync was off.           *)
Original == CHOOSE c \in Contents : TRUE
Edited == CHOOSE c \in Contents : c # Original
First(table, x) == [table EXCEPT ![1] = x]
Synced == [cloud |-> 1, content |-> Original, updated |-> 1, synced |-> 1]
Shared == [version |-> 1, content |-> Original, updated |-> 1, deleted |-> FALSE]

Init ==
    /\ \/ rows = NoRows /\ records = NoRecords /\ clock = 1
       \/ rows = First(NoRows, Synced) /\ records = First(NoRecords, Shared) /\ clock = 1
       \/ /\ rows = First(NoRows, [Synced EXCEPT !.content = Edited, !.updated = 2])
          /\ \E c \in Contents \ {Edited} :
                records = First(NoRecords, [Shared EXCEPT !.content = c, !.version = 2, !.updated = 2])
          /\ clock = 2
    /\ conflicts = [r \in RecordId |-> None] /\ form = None /\ resolve = None
    /\ pending = {} /\ active = FALSE /\ dirty = FALSE
    /\ at = "idle" /\ items = NoRows /\ listed = NoRecords
    /\ deletes = {} /\ paused = {} /\ todo = {} /\ work = NoWork
    /\ changes = 0 /\ remotes = 0 /\ faults = 0 /\ resolves = 0
    /\ unlisted = FALSE /\ reverted = FALSE

Next ==
    \/ ScanRequested \/ Drain \/ PassFails
    \/ Create \/ OpenForm \/ SaveForm \/ Delete
    \/ StartResolve \/ ResolverStep
    \/ OtherDevice \/ Tick \/ Crash

Spec == Init /\ [][Next]_vars

\* The timer comes back every minute, and a drain, a pass and a resolution are
\* tasks of the runtime's pool.
FairSpec ==
    /\ Spec
    /\ WF_vars(ScanRequested) /\ WF_vars(Drain) /\ WF_vars(ResolverStep)

-----------------------------------------------------------------------------
WorkType == [step : {"none"}]
    \cup [step : {"tombstone"}, record : RecordId, found : Record]
    \cup [step : {"check"}, row : RowId, record : RecordId, content : Contents]
    \cup [step : {"write"}, row : RowId, record : RecordId, content : Contents, version : Nat]
    \cup [step : {"stamp"}, row : RowId, record : RecordId]
    \cup [step : {"mark"}, row : RowId, record : RecordId, second : Time]

\* The state is well formed: no pass without the worker being active, no
\* half-read listing left over, and a row's sync columns written together.
SyncTypeOK ==
    /\ rows \in [RowId -> Row \cup {NoRow, GoneRow}]
    /\ records \in [RecordId -> Record \cup {NoRecord}]
    /\ \A r \in RecordId : conflicts[r] = None
            \/ (conflicts[r].row \in RowId /\ conflicts[r].remote \in Record)
    /\ pending \subseteq RecordId \cup {Scan}
    /\ active = (at # "idle") /\ (dirty => active)
    /\ items \in [RowId -> Row \cup {NoRow}] /\ listed \in [RecordId -> Record \cup {NoRecord}]
    /\ deletes \subseteq RecordId /\ paused \subseteq RecordId
    /\ todo \subseteq RowId \cup RecordId /\ work \in WorkType
    /\ \A l \in RowId : HasRow(rows, l) /\ rows[l].synced > 0 => rows[l].cloud # None

\* A record is never downloaded into a second row: no two connections of the
\* device belong to the same record, whatever the passes, the form and the
\* resolver overwrite, unless a form took a connection its cloud id away (then
\* a resolution may give it back while a pass believes the record has no row).
OneRowPerRecord ==
    ~reverted =>
        \A k, l \in RowId :
            HasRow(rows, k) /\ HasRow(rows, l) /\ rows[k].cloud = rows[l].cloud /\ k # l
                => rows[k].cloud = None

\* A change the user makes while a pass runs is never lost to the worker: as
\* long as no pass has listed it, an event is queued or a pass is about to list
\* (a pass that fails before it lists drops its events for the timer to replace).
UnlistedChangeQueued == unlisted => pending # {} \/ at = "items"

OthersIdle == changes' = changes /\ remotes' = remotes /\ resolve' = resolve

\* A record that a local deletion has marked deleted is not revived by the
\* device that deleted it, unless the user resolves a conflict that way.
DeletionStays ==
    [][\A r \in RecordId :
        at = "uploads" /\ OthersIdle /\ records[r].deleted => records'[r].deleted]_vars

\* A pass replaces nothing it does not know of.  An upload, which carries no
\* expected version, never replaces what another device wrote: a record the
\* planner takes for missing is missing, and a row whose record was deleted
\* elsewhere is gone before its upload could revive it.  And while a conflict
\* waits for the user its record is not written, nor is a connection of that
\* record given another content; only a deletion goes through.
\* All that as long as no form took a connection its cloud id away.
NothingOverwritten ==
    [][OthersIdle /\ ~reverted =>
        /\ \A r \in RecordId : at = "uploads" /\ records'[r] # records[r]
                => ~HasRecord(records, r) \/ r \in deletes
        /\ \A r \in Paused :
                /\ records'[r] = records[r] \/ records'[r].deleted
                /\ \A l \in RowId : HasRow(rows', l) /\ rows'[l].cloud = r
                        => rows'[l].content = rows[l].content]_vars

\* When users stop changing things the device and the folder agree: every
\* connection is what its record is, every record has its connection, and what
\* differs waits for the user as a conflict.
Settled ==
    /\ \A l \in RowId : HasRow(rows, l) =>
        /\ rows[l].cloud # None
        /\ rows[l].cloud \in Paused \/ (/\ Live(records, rows[l].cloud)
                                        /\ records[rows[l].cloud].content = rows[l].content)
    /\ \A r \in RecordId : Live(records, r) =>
        r \in Paused \/ \E l \in RowId : HasRow(rows, l) /\ rows[l].cloud = r
Converges == <>[]Settled

=============================================================================
