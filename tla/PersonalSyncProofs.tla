------------------------- MODULE PersonalSyncProofs -------------------------
(***************************************************************************)
(* That no record gets a second row and a pass replaces nothing it does    *)
(* not know of, for any contents, any number of rows and records and any   *)
(* number of edits, remote writes, faults and resolutions.                 *)
(***************************************************************************)
EXTENDS PersonalSync, TLAPS

Phases == {"idle", "items", "records", "deletes", "tombstones", "plan", "uploads", "cloud",
           "local", "downloads", "marks", "conflicts"}
FormType == [row : RowId, cloud : RecordId \cup {None}, synced : Time \cup {0}]
ConflictType == [row : RowId, remote : Record]
ResolveType ==
    [step : {"apply", "export", "stamp"}, record : RecordId, row : RowId, remote : Record]
    \cup [step : {"check", "write"}, record : RecordId, row : RowId, remote : Record,
          content : Contents]
    \cup [step : {"mark"}, record : RecordId, row : RowId, second : Time]
    \cup [step : {"clear"}, record : RecordId]

(* The two columns of a row that sync writes are written together.         *)
RowsOK(table) ==
    /\ table \in [RowId -> Row \cup {NoRow, GoneRow}]
    /\ \A l \in RowId : HasRow(table, l) /\ table[l].synced > 0 => table[l].cloud # None

TableTypes ==
    /\ RowsOK(rows) /\ records \in [RecordId -> Record \cup {NoRecord}]
    /\ conflicts \in [RecordId -> ConflictType \cup {None}]

QueueTypes ==
    /\ pending \subseteq RecordId \cup {Scan} /\ dirty \in BOOLEAN /\ at \in Phases
    /\ active = (at # "idle") /\ (dirty => active)

OtherTypes ==
    /\ form = None \/ form \in FormType
    /\ form # None /\ form.synced > 0 => form.cloud # None
    /\ resolve = None \/ resolve \in ResolveType
    /\ clock \in Time /\ changes \in Nat /\ remotes \in Nat /\ reverted \in BOOLEAN

(* Element w is treated in the phase that takes elements in that way.      *)
Fits(w, phase) ==
    /\ w.step = "tombstone" => phase = "deletes"
    /\ w.step = "check" => phase = "cloud"
    /\ w.step = "write" => phase \in {"uploads", "cloud"}
    /\ w.step = "stamp" => phase = "local" /\ HasRecord(listed, w.record)
    /\ w.step = "mark" => phase \in {"uploads", "cloud", "local"}

(* What a phase still has to treat is of its own list, and an element is   *)
(* only treated in the phase that takes it in that way.                    *)
ToDelete == {r \in deletes : Live(listed, r)}
PhaseInv ==
    /\ at = "deletes" => todo \subseteq ToDelete
    /\ at = "uploads" => todo \subseteq Uploads
    /\ at \notin {"deletes", "uploads"} => todo \subseteq TodoOf(at)
    /\ Fits(work, at)

PassTypes ==
    /\ items \in [RowId -> Row \cup {NoRow}] /\ listed \in [RecordId -> Record \cup {NoRecord}]
    /\ deletes \subseteq RecordId /\ paused \subseteq RecordId
    /\ todo \subseteq RowId \cup RecordId /\ work \in WorkType
    /\ PhaseInv

Typed == TableTypes /\ QueueTypes /\ OtherTypes /\ PassTypes

-----------------------------------------------------------------------------
(* Row l is, or was before it was deleted, the row of record r.            *)
Used(table, l) == table[l] # NoRow
Of(table, l, r) == Used(table, l) /\ (HasRow(table, l) => table[l].cloud = r)
Unbound(table, l) == Of(table, l, None)
HasCloud(table, l) == HasRow(table, l) /\ table[l].cloud # None

(* No two rows of one record, and the record of a row exists.              *)
RowsInv ==
    /\ \A k, l \in RowId : HasCloud(rows, k) /\ HasCloud(rows, l) /\ rows[k].cloud = rows[l].cloud
                               => k = l
    /\ \A l \in RowId : HasCloud(rows, l) => HasRecord(records, rows[l].cloud)

(* A row that was listed with a record keeps it, and the record was listed *)
(* after it.                                                               *)
ItemsInv ==
    /\ \A l \in RowId : HasRow(items, l) => Used(rows, l)
    /\ \A l \in RowId : HasCloud(items, l) =>
           Of(rows, l, items[l].cloud) /\ HasRecord(records, items[l].cloud)
    /\ at \notin {"idle", "items", "records"} =>
           \A l \in RowId : HasCloud(items, l) => HasRecord(listed, items[l].cloud)
    /\ \A r \in RecordId : HasRecord(listed, r) => HasRecord(records, r)

(* Until the downloads are done: what was listed as a record without a row *)
(* has none yet, and what was listed as a row without a record has none    *)
(* before its upload.                                                      *)
Reading == {"records", "deletes", "tombstones", "plan"}
Writing == {"uploads", "cloud", "local", "downloads"}
MissingInv ==
    /\ at = "records" =>
           \A l \in RowId : HasCloud(rows, l) => HasCloud(items, l)
    /\ at \in (Reading \cup Writing) \ {"records"} =>
           \A l \in RowId : HasCloud(rows, l) /\ HasRecord(listed, rows[l].cloud) =>
               HasCloud(items, l) \/ (at = "downloads" /\ rows[l].cloud \notin todo)
    /\ at \in Reading \cup {"uploads"} =>
           \A l \in RowId : HasRow(items, l) /\ items[l].cloud = None
                               => Unbound(rows, l) \/ (at = "uploads" /\ l \notin todo)

(* The rows of records that were listed as deleted are deleted before the  *)
(* plan is made.                                                           *)
TombstoneInv ==
    /\ at = "tombstones" => \A l \in Tombstoned \ todo : ~HasRow(rows, l)
    /\ at \in {"plan", "conflicts", "marks"} \cup Writing =>
           \A l \in Tombstoned : ~HasRow(rows, l)

(* A conflict is of the row of its record, and the plan knows of all.      *)
ConflictInv ==
    /\ \A r \in Paused : Of(rows, conflicts[r].row, r) /\ HasRecord(records, r)
    /\ at \in {"marks"} \cup Writing => Paused \subseteq paused
    /\ resolve # None /\ resolve.step # "clear" =>
           Of(rows, resolve.row, resolve.record) /\ HasRecord(records, resolve.record)

(* What is being written goes to the record of its row, or to one that is  *)
(* new and that no listing and no other row knows.                         *)
IsNew(r) ==
    /\ ~HasRecord(listed, r) /\ r \notin Paused
    /\ \A k \in RowId : HasRow(rows, k) => rows[k].cloud # r
WorkInv ==
    /\ at = "uploads" /\ work.step # "none" =>
        /\ work.row \notin todo
        /\ \/ /\ Of(rows, work.row, work.record)
              /\ work.record \in deletes /\ work.record \notin paused
              /\ HasRecord(records, work.record)
           \/ /\ Unbound(rows, work.row) /\ IsNew(work.record) /\ work.record <= MaxRecords
              /\ (HasRecord(records, work.record) <=> work.step = "mark")
    /\ at \in {"cloud", "local"} /\ work.step # "none" =>
           /\ HasCloud(items, work.row) /\ work.record = items[work.row].cloud
           /\ work.record \notin paused

CloudInv ==
    /\ RowsInv /\ ItemsInv /\ MissingInv /\ TombstoneInv /\ ConflictInv /\ WorkInv

SyncInv == Typed /\ (~reverted => CloudInv)

-----------------------------------------------------------------------------
(* The values.                                                             *)

LEMMA Ids ==
    /\ RowId \subseteq Nat \ {0} /\ RecordId \subseteq Nat \ {0} /\ Time \subseteq Nat \ {0}
    /\ 1 \in RowId /\ 1 \in RecordId /\ 1 \in Time /\ 2 \in Time
    /\ None \notin RecordId /\ None \notin Contents
    /\ 1..MaxRecords \subseteq RecordId /\ (MaxRecords + 1)..(MaxRecords + MaxRemote) \subseteq RecordId
<1>1. /\ MaxRows \in Nat /\ MaxRows > 0 /\ MaxRecords \in Nat /\ MaxRecords > 0 /\ MaxRemote \in Nat
      /\ MaxTime \in Nat /\ MaxTime > 1
  BY SyncAssumption DEF SyncAssumption
<1>2. None \notin 1..(MaxRows + MaxRecords + MaxRemote) /\ None \notin Contents
  BY SyncAssumption DEF SyncAssumption
<1>3. QED
  BY <1>1, <1>2 DEF RowId, RecordId, Time

LEMMA WorkCases ==
    ASSUME work \in WorkType
    PROVE  /\ work.step = "none" => work = NoWork
           /\ work.step = "tombstone" => work.record \in RecordId /\ work.found \in Record
           /\ work.step = "check" => /\ work.row \in RowId /\ work.record \in RecordId
                                     /\ work.content \in Contents
           /\ work.step = "write" => /\ work.row \in RowId /\ work.record \in RecordId
                                     /\ work.content \in Contents /\ work.version \in Nat
           /\ work.step = "stamp" => work.row \in RowId /\ work.record \in RecordId
           /\ work.step = "mark" => /\ work.row \in RowId /\ work.record \in RecordId
                                    /\ work.second \in Time
           /\ work.step \in {"none", "tombstone", "check", "write", "stamp", "mark"}
  BY DEF WorkType, NoWork

LEMMA ResolveCases ==
    ASSUME resolve \in ResolveType
    PROVE  /\ resolve.step \in {"apply", "export", "stamp", "check", "write", "mark", "clear"}
           /\ resolve.record \in RecordId
           /\ resolve.step # "clear" => resolve.row \in RowId
           /\ resolve.step \in {"apply", "export", "stamp", "check", "write"} =>
                  resolve.remote \in Record
           /\ resolve.step \in {"check", "write"} => resolve.content \in Contents
           /\ resolve.step = "mark" => resolve.second \in Time
           /\ resolve.step \in {"apply", "export", "stamp"} =>
                  resolve \in [step : {"apply", "export", "stamp"}, record : RecordId,
                               row : RowId, remote : Record]
           /\ resolve.step \in {"check", "write"} =>
                  resolve \in [step : {"check", "write"}, record : RecordId, row : RowId,
                               remote : Record, content : Contents]
  BY DEF ResolveType

LEMMA RowValues ==
    ASSUME NEW table \in [RowId -> Row \cup {NoRow, GoneRow}], NEW l \in RowId
    PROVE  /\ HasRow(table, l) <=> table[l] \in Row
           /\ ~HasRow(table, l) <=> table[l] \in {NoRow, GoneRow}
           /\ HasRow(table, l) => table[l] # NoRow
           /\ NoRow # GoneRow
  BY Ids DEF HasRow, Row, NoRow, GoneRow

LEMMA RecordValues ==
    ASSUME NEW table \in [RecordId -> Record \cup {NoRecord}], NEW r \in RecordId
    PROVE  /\ HasRecord(table, r) <=> table[r] \in Record
           /\ ~HasRecord(table, r) <=> table[r] = NoRecord
           /\ table[r].version \in Nat
  BY Ids DEF HasRecord, Record, NoRecord

(* What the operations on the connections table write.                     *)
LEMMA MarkedRows ==
    ASSUME RowsOK(rows), NEW l \in RowId, NEW r \in RecordId, NEW second \in Time \cup {0}
    PROVE  /\ RowsOK(Marked(l, r, second))
           /\ \A k \in RowId :
                /\ HasRow(Marked(l, r, second), k) <=> HasRow(rows, k)
                /\ k # l => Marked(l, r, second)[k] = rows[k]
                /\ HasRow(rows, k) => Marked(l, r, second)[k].content = rows[k].content
           /\ HasRow(rows, l) => Marked(l, r, second)[l].cloud = r
           /\ ~HasRow(rows, l) => Marked(l, r, second) = rows
<1>1. CASE ~HasRow(rows, l)
  BY <1>1 DEF Marked
<1>2. CASE HasRow(rows, l)
  <2> DEFINE row == [rows[l] EXCEPT !.cloud = r, !.synced = second]
             table == [rows EXCEPT ![l] = row]
  <2>1. rows[l] \in Row
    BY <1>2, RowValues DEF RowsOK
  <2>2. row \in Row /\ row.cloud = r /\ row.content = rows[l].content
    BY <2>1 DEF Row
  <2>3. Marked(l, r, second) = table
    BY <1>2, <2>1 DEF Marked, RowsOK, Row
  <2>4. table \in [RowId -> Row \cup {NoRow, GoneRow}]
    BY <2>2 DEF RowsOK
  <2>5. \A k \in RowId : table[k] = IF k = l THEN row ELSE rows[k]
    BY DEF RowsOK
  <2> HIDE DEF row, table
  <2>6. QED
    BY <1>2, <2>2, <2>3, <2>4, <2>5, Ids DEF RowsOK, HasRow
<1>3. QED
  BY <1>1, <1>2

LEMMA OverwrittenRows ==
    ASSUME RowsOK(rows), clock \in Time, NEW l \in RowId, NEW r \in RecordId, NEW record \in Record
    PROVE  /\ RowsOK(Overwritten(l, r, record))
           /\ \A k \in RowId \ {l} : Overwritten(l, r, record)[k] = rows[k]
           /\ HasRow(Overwritten(l, r, record), l) /\ Overwritten(l, r, record)[l].cloud = r
<1> DEFINE row == [cloud |-> r, content |-> record.content, updated |-> clock,
                   synced |-> record.updated]
           table == [rows EXCEPT ![l] = row]
<1>1. row \in Row /\ row.cloud = r /\ row.content # None
  BY Ids DEF Row, Record
<1>2. Overwritten(l, r, record) = table
  BY DEF Overwritten
<1>3. table \in [RowId -> Row \cup {NoRow, GoneRow}]
  BY <1>1 DEF RowsOK
<1>4. \A k \in RowId : table[k] = IF k = l THEN row ELSE rows[k]
  BY DEF RowsOK
<1> HIDE DEF row, table
<1>5. QED
  BY <1>1, <1>2, <1>3, <1>4, Ids DEF RowsOK, HasRow

LEMMA StampedRows ==
    ASSUME RowsOK(rows), NEW l \in RowId, NEW r \in RecordId, NEW record \in Record
    PROVE  /\ RowsOK(Stamped(l, r, record))
           /\ \A k \in RowId :
                /\ HasRow(Stamped(l, r, record), k) <=> HasRow(rows, k)
                /\ k # l => Stamped(l, r, record)[k] = rows[k]
                /\ HasRow(rows, k) => Stamped(l, r, record)[k].content = rows[k].content
           /\ HasRow(rows, l) => Stamped(l, r, record)[l].cloud = r
           /\ ~HasRow(rows, l) => Stamped(l, r, record) = rows
<1>1. CASE ~HasRow(rows, l)
  BY <1>1 DEF Stamped
<1>2. CASE HasRow(rows, l)
  <2> DEFINE row == [rows[l] EXCEPT !.cloud = r, !.synced = record.updated, !.updated = record.updated]
             table == [rows EXCEPT ![l] = row]
  <2>1. rows[l] \in Row
    BY <1>2, RowValues DEF RowsOK
  <2>2. row \in Row /\ row.cloud = r /\ row.content = rows[l].content
    BY <2>1 DEF Row, Record
  <2>3. Stamped(l, r, record) = table
    BY <1>2, <2>1 DEF Stamped, RowsOK, Row
  <2>4. table \in [RowId -> Row \cup {NoRow, GoneRow}]
    BY <2>2 DEF RowsOK
  <2>5. \A k \in RowId : table[k] = IF k = l THEN row ELSE rows[k]
    BY DEF RowsOK
  <2> HIDE DEF row, table
  <2>6. QED
    BY <1>2, <2>2, <2>3, <2>4, <2>5, Ids DEF RowsOK, HasRow
<1>3. QED
  BY <1>1, <1>2

LEMMA StoredRecords ==
    ASSUME records \in [RecordId -> Record \cup {NoRecord}], clock \in Time,
           NEW r \in RecordId, NEW content \in Contents, NEW version \in Nat
    PROVE  /\ Stored(r, content, version) \in [RecordId -> Record \cup {NoRecord}]
           /\ \A q \in RecordId \ {r} : Stored(r, content, version)[q] = records[q]
           /\ HasRecord(Stored(r, content, version), r)
<1> DEFINE record == [version |-> version + 1, content |-> content, updated |-> clock,
                      deleted |-> FALSE]
<1>1. record \in Record /\ record.content # None
  BY Ids DEF Record
<1>2. Stored(r, content, version) = [records EXCEPT ![r] = record]
  BY DEF Stored
<1> HIDE DEF record
<1>3. QED
  BY <1>1, <1>2 DEF HasRecord

(* A record that is marked deleted, by this device or by another.          *)
LEMMA DeletedRecord ==
    ASSUME records \in [RecordId -> Record \cup {NoRecord}], clock \in Time,
           NEW r \in RecordId, NEW found \in Record
    PROVE  LET record == [found EXCEPT !.deleted = TRUE, !.version = @ + 1, !.updated = clock]
               table == [records EXCEPT ![r] = record]
           IN  /\ table \in [RecordId -> Record \cup {NoRecord}]
               /\ \A q \in RecordId \ {r} : table[q] = records[q]
               /\ HasRecord(table, r) /\ table[r].deleted
<1> DEFINE record == [found EXCEPT !.deleted = TRUE, !.version = @ + 1, !.updated = clock]
<1>1. record \in Record /\ record.content # None /\ record.deleted
  <2>1. PICK version \in Nat \ {0} : version = found.version + 1
    BY DEF Record
  <2>2. record = [found EXCEPT !.deleted = TRUE, !.version = version, !.updated = clock]
    BY <2>1
  <2>3. record \in Record
    BY <2>2 DEF Record
  <2>4. record.content = found.content /\ record.deleted
    BY DEF Record
  <2>5. QED
    BY <2>3, <2>4, Ids DEF Record
<1> HIDE DEF record
<1>2. /\ [records EXCEPT ![r] = record] \in [RecordId -> Record \cup {NoRecord}]
      /\ \A q \in RecordId \ {r} : [records EXCEPT ![r] = record][q] = records[q]
      /\ HasRecord([records EXCEPT ![r] = record], r) /\ [records EXCEPT ![r] = record][r].deleted
  BY <1>1 DEF HasRecord
<1>3. QED
  BY <1>2 DEF record

-----------------------------------------------------------------------------
(* The types.                                                              *)

LEMMA TypedIsTyped ==
    ASSUME Typed
    PROVE  SyncTypeOK
<1>1. ASSUME NEW r \in RecordId
      PROVE  conflicts[r] = None \/ (conflicts[r].row \in RowId /\ conflicts[r].remote \in Record)
  BY DEF Typed, TableTypes, ConflictType
<1>2. QED
  BY <1>1 DEF Typed, TableTypes, QueueTypes, PassTypes, RowsOK, SyncTypeOK

(* What is true of an element that a phase still has to treat.             *)
LEMMA Listed ==
    ASSUME PassTypes, NEW l \in RowId, HasRow(items, l), items[l].cloud # None
    PROVE  items[l] \in Row /\ items[l].cloud \in RecordId /\ items[l].updated \in Time
BY Ids DEF PassTypes, HasRow, NoRow, Row

LEMMA TodoRows ==
    ASSUME PassTypes, at \in {"cloud", "local", "marks", "conflicts"}, NEW l \in todo
    PROVE  /\ l \in RowId /\ HasCloud(items, l) /\ items[l].cloud \in RecordId
           /\ items[l].updated \in Time
           /\ items[l].cloud \notin paused /\ listed[items[l].cloud] \in Record
<1>1. l \in Matched
  BY DEF PassTypes, PhaseInv, TodoOf, CloudUpdates, LocalUpdates, Marks, Clashes, Differing
<1>2. l \in RowId /\ HasCloud(items, l) /\ items[l].cloud \notin paused
      /\ HasRecord(listed, items[l].cloud)
  BY <1>1 DEF Matched, HasCloud, Unpaused, Planned, Live
<1>3. items[l].cloud \in RecordId /\ items[l].updated \in Time
  BY <1>2, Listed DEF HasCloud
<1>4. QED
  BY <1>2, <1>3, RecordValues DEF PassTypes

LEMMA TodoDownloads ==
    ASSUME PassTypes, at = "downloads", NEW r \in todo
    PROVE  r \in RecordId /\ r \in Downloads /\ listed[r] \in Record
<1>1. r \in Downloads
  BY DEF PassTypes, PhaseInv, TodoOf
<1>2. r \in RecordId /\ HasRecord(listed, r)
  BY <1>1 DEF Downloads, Planned, Live
<1>3. QED
  BY <1>1, <1>2, RecordValues DEF PassTypes

(* What is to do only depends on what the pass read.                       *)
LEMMA PlanKept ==
    ASSUME UNCHANGED <<items, listed, deletes, paused>>
    PROVE  /\ Uploads' = Uploads /\ ToDelete' = ToDelete /\ Tombstoned' = Tombstoned
           /\ \A phase \in Phases : TodoOf(phase)' = TodoOf(phase)
<1>1. Matched' = Matched /\ Uploads' = Uploads /\ Downloads' = Downloads
  BY DEF Matched, Uploads, Downloads, Unpaused, Planned, Live, HasRow, HasRecord
<1>2. Tombstoned' = Tombstoned /\ ToDelete' = ToDelete
  BY DEF Tombstoned, ToDelete, Live, HasRow, HasRecord
<1>3. Differing' = Differing
  BY <1>1 DEF Differing
<1>4. CloudUpdates' = CloudUpdates /\ LocalUpdates' = LocalUpdates /\ Clashes' = Clashes
  BY <1>3 DEF CloudUpdates, LocalUpdates, Clashes, LocalChanged, RemoteChanged
<1>5. QED
  BY <1>1, <1>2, <1>3, <1>4 DEF TodoOf, Marks

LEMMA PassTakes ==
    ASSUME PassTypes, at \in Phases, UNCHANGED <<at, items, listed, deletes, paused>>,
           todo' \subseteq todo, work' \in WorkType, Fits(work', at)
    PROVE  PassTypes'
<1>1. /\ Uploads' = Uploads /\ ToDelete' = ToDelete
      /\ at \notin {"deletes", "uploads"} => TodoOf(at)' = TodoOf(at)
  BY PlanKept
<1>2. PhaseInv'
  BY <1>1 DEF PassTypes, PhaseInv, Fits
<1>3. QED
  BY <1>2 DEF PassTypes, WorkType

LEMMA PassKept ==
    ASSUME PassTypes, at \in Phases, UNCHANGED passVars
    PROVE  PassTypes'
BY PassTakes DEF passVars, PassTypes, PhaseInv

LEMMA NoTable ==
    /\ NoRows \in [RowId -> Row \cup {NoRow}] /\ NoRecords \in [RecordId -> Record \cup {NoRecord}]
    /\ \A l \in RowId : ~HasRow(NoRows, l)
    /\ \A r \in RecordId : ~HasRecord(NoRecords, r)
BY DEF NoRows, NoRecords, HasRow, HasRecord, NoRow, NoRecord

LEMMA PassEnds ==
    ASSUME QueueTypes, FinishDrain
    PROVE  PassTypes' /\ QueueTypes'
<1>1. PassTypes'
  BY NoTable DEF FinishDrain, PassTypes, PhaseInv, Fits, WorkType, NoWork
<1>2. QueueTypes'
  BY DEF QueueTypes, FinishDrain, Phases
<1>3. QED
  BY <1>1, <1>2

(* A tables' type is kept by whatever writes one of them.                  *)
LEMMA FreshIds ==
    /\ FreshRows \subseteq RowId /\ \A l \in FreshRows : rows[l] = NoRow
    /\ FreshRecords \subseteq RecordId /\ FreshElsewhere \subseteq RecordId
    /\ \A r \in FreshRecords \cup FreshElsewhere : ~HasRecord(records, r)
    /\ FreshRecords \subseteq 1..MaxRecords
    /\ \A r \in FreshElsewhere : ~(r <= MaxRecords)
<1>1. MaxRecords \in Nat /\ MaxRemote \in Nat
  BY SyncAssumption DEF SyncAssumption
<1>2. QED
  BY <1>1, Ids DEF FreshRows, FreshRecords, FreshElsewhere, Fresh

(* The actions of the user, of the resolver and of the world.              *)
LEMMA UserTypes ==
    ASSUME Typed, ScanRequested \/ Create \/ OpenForm \/ SaveForm \/ Delete
    PROVE  Typed'
<1> USE DEF Typed
<1> DEFINE Row1(c) == [cloud |-> None, content |-> c, updated |-> clock, synced |-> 0]
<1>1. CASE ScanRequested
  <2>1. TableTypes' /\ OtherTypes' /\ QueueTypes'
    BY <1>1 DEF ScanRequested, Enqueue, TableTypes, OtherTypes, QueueTypes, passVars, boundVars
  <2>2. PassTypes'
    BY <1>1, PassKept DEF ScanRequested, QueueTypes
  <2>3. QED
    BY <2>1, <2>2
<1>2. CASE Create
  <2>1. PICK l \in FreshRows, c \in Contents : rows' = [rows EXCEPT ![l] = Row1(c)]
    BY <1>2 DEF Create
  <2>2. l \in RowId /\ Row1(c) \in Row /\ Row1(c).synced = 0
    BY FreshIds DEF Row, OtherTypes
  <2>3. RowsOK(rows')
    <3>1. rows' \in [RowId -> Row \cup {NoRow, GoneRow}]
      BY <2>1, <2>2 DEF TableTypes, RowsOK
    <3>2. \A k \in RowId : rows'[k] = IF k = l THEN Row1(c) ELSE rows[k]
      BY <2>1 DEF TableTypes, RowsOK
    <3> HIDE DEF Row1
    <3>3. QED
      BY <2>2, <3>1, <3>2 DEF TableTypes, RowsOK, HasRow
  <2>4. TableTypes'
    BY <1>2, <2>3 DEF Create, userFrame, TableTypes
  <2>5. OtherTypes' /\ QueueTypes'
    BY <1>2 DEF Create, Changes, Enqueue, userFrame, passVars, OtherTypes, QueueTypes
  <2>6. PassTypes'
    BY <1>2, PassKept DEF Create, userFrame, QueueTypes
  <2>7. QED
    BY <2>4, <2>5, <2>6
<1>3. CASE OpenForm
  <2>1. PICK l \in RowId : HasRow(rows, l) /\ form' = [row |-> l, cloud |-> rows[l].cloud,
                                                      synced |-> rows[l].synced]
    BY <1>3 DEF OpenForm
  <2>2. rows[l] \in Row /\ (rows[l].synced > 0 => rows[l].cloud # None)
    BY <2>1, RowValues DEF TableTypes, RowsOK
  <2>3. form' \in FormType /\ (form'.synced > 0 => form'.cloud # None)
    BY <2>1, <2>2 DEF FormType, Row
  <2>4. TableTypes' /\ OtherTypes' /\ QueueTypes'
    BY <1>3, <2>3 DEF OpenForm, userFrame, queueVars, passVars, TableTypes, OtherTypes, QueueTypes
  <2>5. PassTypes'
    BY <1>3, PassKept DEF OpenForm, userFrame, QueueTypes
  <2>6. QED
    BY <2>4, <2>5
<1>4. CASE SaveForm
  <2>1. RowsOK(rows')
    <3>1. CASE ~HasRow(rows, form.row)
      BY <1>4, <3>1 DEF SaveForm, TableTypes
    <3>2. CASE HasRow(rows, form.row)
      <4> DEFINE saved(c) == [cloud |-> form.cloud, content |-> c, updated |-> clock,
                              synced |-> form.synced]
      <4>1. PICK c \in Contents : rows' = [rows EXCEPT ![form.row] = saved(c)]
        BY <1>4, <3>2 DEF SaveForm
      <4>2. form \in FormType /\ (form.synced > 0 => form.cloud # None)
        BY <1>4 DEF SaveForm, OtherTypes
      <4>3. /\ form.row \in RowId /\ saved(c) \in Row
            /\ saved(c).synced > 0 => saved(c).cloud # None
        BY <4>2 DEF FormType, Row, OtherTypes
      <4>4. rows' \in [RowId -> Row \cup {NoRow, GoneRow}]
        BY <4>1, <4>3 DEF TableTypes, RowsOK
      <4>5. \A k \in RowId : rows'[k] = IF k = form.row THEN saved(c) ELSE rows[k]
        BY <4>1 DEF TableTypes, RowsOK
      <4> HIDE DEF saved
      <4>6. QED
        BY <4>3, <4>4, <4>5 DEF TableTypes, RowsOK, HasRow
    <3>3. QED
      BY <3>1, <3>2
  <2>2. TableTypes'
    BY <1>4, <2>1 DEF SaveForm, userFrame, TableTypes
  <2>3. OtherTypes'
    <3>1. reverted' \in BOOLEAN
      BY <1>4 DEF SaveForm, OtherTypes
    <3>2. changes' \in Nat
      BY <1>4 DEF SaveForm, Changes, OtherTypes
    <3>3. form' = None /\ UNCHANGED <<resolve, clock, remotes>>
      BY <1>4 DEF SaveForm, userFrame
    <3>4. QED
      BY <3>1, <3>2, <3>3 DEF OtherTypes
  <2>4. QueueTypes'
    BY <1>4 DEF SaveForm, Enqueue, queueVars, userFrame, passVars, QueueTypes
  <2>5. PassTypes'
    BY <1>4, PassKept DEF SaveForm, userFrame, QueueTypes
  <2>6. QED
    BY <2>2, <2>3, <2>4, <2>5
<1>5. CASE Delete
  <2>1. PICK l \in RowId :
            /\ HasRow(rows, l) /\ rows' = [rows EXCEPT ![l] = GoneRow]
            /\ \E cloud \in {rows[l].cloud, None} : Enqueue(IF cloud = None THEN Scan ELSE cloud)
    BY <1>5 DEF Delete
  <2>2. PICK cloud \in {rows[l].cloud, None} : Enqueue(IF cloud = None THEN Scan ELSE cloud)
    BY <2>1
  <2>3. cloud = None \/ cloud \in RecordId
    BY <2>1, RowValues DEF TableTypes, RowsOK, Row
  <2>4. RowsOK(rows')
    <3>1. rows' \in [RowId -> Row \cup {NoRow, GoneRow}]
      BY <2>1 DEF TableTypes, RowsOK
    <3>2. \A k \in RowId : rows'[k] = IF k = l THEN GoneRow ELSE rows[k]
      BY <2>1 DEF TableTypes, RowsOK
    <3>3. ~HasRow(rows', l)
      BY <3>1, <3>2, RowValues
    <3>4. QED
      BY <3>1, <3>2, <3>3 DEF TableTypes, RowsOK, HasRow
  <2>5. TableTypes'
    BY <1>5, <2>4 DEF Delete, userFrame, TableTypes
  <2>6. OtherTypes'
    BY <1>5 DEF Delete, Changes, userFrame, OtherTypes
  <2>7. QueueTypes'
    BY <1>5, <2>2, <2>3 DEF Delete, Enqueue, userFrame, passVars, QueueTypes, Scan
  <2>8. PassTypes'
    BY <1>5, PassKept DEF Delete, userFrame, QueueTypes
  <2>9. QED
    BY <2>5, <2>6, <2>7, <2>8
<1>6. QED
  BY <1>1, <1>2, <1>3, <1>4, <1>5

LEMMA ResolverTypes ==
    ASSUME Typed, StartResolve \/ ResolverStep
    PROVE  Typed'
<1> USE DEF Typed
<1>1. UNCHANGED resolverFrame
  BY DEF StartResolve, ResolverStep
<1>2. QueueTypes' /\ PassTypes'
  BY <1>1, PassKept DEF resolverFrame, QueueTypes, queueVars, passVars
<1>3. ASSUME TableTypes', resolve' = None \/ resolve' \in ResolveType
      PROVE  Typed'
  BY <1>1, <1>2, <1>3 DEF resolverFrame, OtherTypes
<1>4. CASE StartResolve
  <2>1. PICK r \in Paused, step \in {"apply", "export"} :
            resolve' = [step |-> step, record |-> r, row |-> conflicts[r].row,
                        remote |-> conflicts[r].remote]
    BY <1>4 DEF StartResolve
  <2>2. r \in RecordId /\ conflicts[r] \in ConflictType
    BY DEF Paused, TableTypes
  <2>3. resolve' \in ResolveType
    BY <2>1, <2>2 DEF ResolveType, ConflictType
  <2>4. QED
    BY <1>3, <1>4, <2>3 DEF StartResolve, TableTypes
<1>5. CASE ResolverStep
  <2>1. resolve # None
    BY <1>5 DEF ResolverStep, ApplyCloud, StampCloud, ExportLocal, CheckLocal, WriteLocal,
                MarkResolved, ClearConflict, ResolverIs
  <2>2. resolve \in ResolveType
    BY <2>1 DEF OtherTypes
  <2>3. CASE ResolverStops
    BY <1>3, <2>3 DEF ResolverStops, TableTypes
  <2>4. CASE ApplyCloud /\ ~ResolverStops
    <3>1. /\ resolve.step = "apply" /\ HasRow(rows, resolve.row) /\ UNCHANGED <<records, conflicts>>
          /\ rows' = Overwritten(resolve.row, resolve.record, resolve.remote)
          /\ resolve' = [resolve EXCEPT !.step = "stamp"]
      BY <2>4 DEF ApplyCloud, ResolverIs
    <3>2. RowsOK(rows')
      BY <2>2, <3>1, ResolveCases, OverwrittenRows DEF TableTypes, OtherTypes
    <3>3. resolve' \in ResolveType
      BY <2>2, <3>1, ResolveCases DEF ResolveType
    <3>4. QED
      BY <1>3, <3>1, <3>2, <3>3 DEF TableTypes
  <2>5. CASE StampCloud
    <3>1. /\ resolve.step = "stamp" /\ UNCHANGED <<records, conflicts>>
          /\ rows' = Stamped(resolve.row, resolve.record, resolve.remote)
          /\ resolve' = [step |-> "mark", record |-> resolve.record, row |-> resolve.row,
                         second |-> resolve.remote.updated]
      BY <2>5 DEF StampCloud, ResolverIs
    <3>2. RowsOK(rows')
      BY <2>2, <3>1, ResolveCases, StampedRows DEF TableTypes
    <3>3. resolve.remote.updated \in Time
      BY <2>2, <3>1, ResolveCases DEF Record
    <3>4. resolve' \in ResolveType
      BY <2>2, <3>1, <3>3, ResolveCases DEF ResolveType
    <3>5. QED
      BY <1>3, <3>1, <3>2, <3>4 DEF TableTypes
  <2>6. CASE ExportLocal /\ ~ResolverStops
    <3>1. /\ resolve.step = "export" /\ HasRow(rows, resolve.row)
          /\ UNCHANGED <<rows, records, conflicts>>
          /\ resolve' = [step |-> "check", record |-> resolve.record, row |-> resolve.row,
                         remote |-> resolve.remote, content |-> rows[resolve.row].content]
      BY <2>6 DEF ExportLocal, ResolverIs
    <3>2. rows[resolve.row].content \in Contents
      BY <2>2, <3>1, ResolveCases, RowValues DEF TableTypes, RowsOK, Row
    <3>3. resolve' \in ResolveType
      BY <2>2, <3>1, <3>2, ResolveCases DEF ResolveType
    <3>4. QED
      BY <1>3, <3>1, <3>3 DEF TableTypes
  <2>7. CASE CheckLocal /\ ~ResolverStops
    <3>1. /\ resolve.step = "check" /\ UNCHANGED <<rows, records, conflicts>>
          /\ resolve' = [resolve EXCEPT !.step = "write"]
      BY <2>7 DEF CheckLocal, ResolverIs
    <3>2. resolve' \in ResolveType
      BY <2>2, <3>1, ResolveCases DEF ResolveType
    <3>3. QED
      BY <1>3, <3>1, <3>2 DEF TableTypes
  <2>8. CASE WriteLocal
    <3>1. /\ resolve.step = "write" /\ UNCHANGED <<rows, conflicts>>
          /\ records' = Stored(resolve.record, resolve.content, resolve.remote.version)
          /\ resolve' = [step |-> "mark", record |-> resolve.record, row |-> resolve.row,
                         second |-> clock]
      BY <2>8 DEF WriteLocal, ResolverIs
    <3>2. resolve.remote.version \in Nat
      BY <2>2, <3>1, ResolveCases DEF Record
    <3>3. records' \in [RecordId -> Record \cup {NoRecord}]
      BY <2>2, <3>1, <3>2, ResolveCases, StoredRecords DEF TableTypes, OtherTypes
    <3>4. resolve' \in ResolveType
      BY <2>2, <3>1, ResolveCases DEF ResolveType, OtherTypes
    <3>5. QED
      BY <1>3, <3>1, <3>3, <3>4 DEF TableTypes
  <2>9. CASE MarkResolved
    <3>1. /\ resolve.step = "mark" /\ UNCHANGED <<records, conflicts>>
          /\ rows' = Marked(resolve.row, resolve.record, resolve.second)
          /\ resolve' = [step |-> "clear", record |-> resolve.record]
      BY <2>9 DEF MarkResolved, ResolverIs
    <3>2. RowsOK(rows')
      BY <2>2, <3>1, ResolveCases, MarkedRows DEF TableTypes
    <3>3. resolve' \in ResolveType
      BY <2>2, <3>1, ResolveCases DEF ResolveType
    <3>4. QED
      BY <1>3, <3>1, <3>2, <3>3 DEF TableTypes
  <2>10. CASE ClearConflict
    BY <1>3, <2>10 DEF ClearConflict, TableTypes
  <2>11. QED
    BY <1>5, <2>3, <2>4, <2>5, <2>6, <2>7, <2>8, <2>9, <2>10 DEF ResolverStep
<1>6. QED
  BY <1>4, <1>5

LEMMA WorldTypes ==
    ASSUME Typed, OtherDevice \/ Tick \/ Crash
    PROVE  Typed'
<1> USE DEF Typed
<1>1. CASE OtherDevice
  <2>1. records' \in [RecordId -> Record \cup {NoRecord}]
    <3>1. ASSUME NEW r \in FreshElsewhere, NEW c \in Contents, records' = Stored(r, c, 0)
          PROVE  records' \in [RecordId -> Record \cup {NoRecord}]
      BY <3>1, FreshIds, StoredRecords DEF TableTypes, OtherTypes
    <3>2. ASSUME NEW r \in RecordId, NEW c \in Contents,
                 records' = Stored(r, c, records[r].version)
          PROVE  records' \in [RecordId -> Record \cup {NoRecord}]
      BY <3>2, RecordValues, StoredRecords DEF TableTypes, OtherTypes
    <3>3. ASSUME NEW r \in RecordId, Live(records, r),
                 records' = [records EXCEPT ![r].deleted = TRUE, ![r].version = @ + 1,
                                            ![r].updated = clock]
          PROVE  records' \in [RecordId -> Record \cup {NoRecord}]
      <4>1. records[r] \in Record
        BY <3>3, RecordValues DEF TableTypes, Live
      <4>2. records' = [records EXCEPT ![r] = [records[r] EXCEPT !.deleted = TRUE,
                                            !.version = @ + 1, !.updated = clock]]
        BY <3>3 DEF TableTypes
      <4>3. QED
        BY <4>1, <4>2, DeletedRecord DEF TableTypes, OtherTypes
    <3>4. QED
      BY <1>1, <3>1, <3>2, <3>3 DEF OtherDevice
  <2>2. /\ remotes' = remotes + 1
        /\ UNCHANGED <<rows, conflicts, form, queueVars, passVars, resolve, changes, reverted, clock>>
    BY <1>1 DEF OtherDevice, worldFrame
  <2>3. TableTypes' /\ QueueTypes' /\ OtherTypes'
    BY <2>1, <2>2 DEF queueVars, passVars, TableTypes, QueueTypes, OtherTypes
  <2>4. PassTypes'
    BY <2>2, PassKept DEF QueueTypes
  <2>5. QED
    BY <2>3, <2>4
<1>2. CASE Tick
  <2>1. clock + 1 \in Time
    BY <1>2, SyncAssumption DEF Tick, OtherTypes, Time, SyncAssumption
  <2>2. TableTypes' /\ QueueTypes' /\ OtherTypes'
    BY <1>2, <2>1 DEF Tick, worldFrame, queueVars, passVars, TableTypes, QueueTypes, OtherTypes
  <2>3. PassTypes'
    BY <1>2, PassKept DEF Tick, worldFrame, QueueTypes
  <2>4. QED
    BY <2>2, <2>3
<1>3. CASE Crash
  <2>1. PassTypes' /\ QueueTypes'
    BY <1>3, PassEnds DEF Crash
  <2>2. TableTypes' /\ OtherTypes'
    BY <1>3 DEF Crash, TableTypes, OtherTypes
  <2>3. QED
    BY <2>1, <2>2
<1>4. QED
  BY <1>1, <1>2, <1>3

(* The steps of the pass.                                                  *)
LEMMA PassStepTypes ==
    ASSUME Typed, Drain \/ PassFails
    PROVE  Typed'
<1> USE DEF Typed
<1>1. OtherTypes'
  BY DEF Drain, PassFails, boundVars, OtherTypes
<1>2. CASE FinishDrain /\ UNCHANGED <<rows, records, conflicts>>
  BY <1>1, <1>2, PassEnds DEF TableTypes
\* A step of a phase that treats an element.
<1>3. ASSUME TableTypes', UNCHANGED <<queueVars, at, items, listed, deletes, paused>>,
             todo' \subseteq todo, work' \in WorkType, Fits(work', at)
      PROVE  Typed'
  <2>1. PassTypes'
    BY <1>3, PassTakes DEF QueueTypes
  <2>2. QueueTypes'
    BY <1>3 DEF queueVars, QueueTypes
  <2>3. QED
    BY <1>1, <1>3, <2>1, <2>2
<1>4. NoWork \in WorkType /\ NoWork.step = "none" /\ \A phase \in Phases : Fits(NoWork, phase)
  BY DEF NoWork, WorkType, Fits
<1>5. work \in WorkType /\ Fits(work, at) /\ at \in Phases
  BY DEF PassTypes, PhaseInv, QueueTypes
<1>6. CASE BeginDrain
  <2>1. TableTypes' /\ QueueTypes'
    BY <1>6 DEF BeginDrain, TableTypes, QueueTypes, Phases
  <2>2. todo = {} /\ work.step = "none"
    BY <1>5, <1>6, WorkCases DEF BeginDrain, QueueTypes, PassTypes, PhaseInv, TodoOf, Fits
  <2>3. PassTypes'
    BY <1>6, <2>2 DEF BeginDrain, PassTypes, PhaseInv, Fits, QueueTypes, Scan
  <2>4. QED
    BY <1>1, <2>1, <2>3
<1>7. CASE ListItems
  <2>1. TableTypes' /\ QueueTypes'
    BY <1>7 DEF ListItems, queueVars, TableTypes, QueueTypes, Phases
  <2>2. todo = {} /\ work.step = "none"
    BY <1>5, <1>7, WorkCases DEF ListItems, PassTypes, PhaseInv, TodoOf, Fits
  <2>3. items' \in [RowId -> Row \cup {NoRow}]
    <3>1. \A l \in RowId : HasRow(rows, l) => rows[l] \in Row
      BY RowValues DEF TableTypes, RowsOK
    <3>2. QED
      BY <1>7, <3>1 DEF ListItems
  <2>4. PassTypes'
    BY <1>7, <2>2, <2>3 DEF ListItems, PassTypes, PhaseInv, Fits
  <2>5. QED
    BY <1>1, <2>1, <2>4
<1>8. CASE ListRecords
  <2>1. TableTypes' /\ QueueTypes'
    BY <1>8 DEF ListRecords, queueVars, TableTypes, QueueTypes, Phases
  <2>2. todo' = ToDelete' /\ work.step = "none"
    BY <1>5, <1>8, WorkCases DEF ListRecords, Fits, ToDelete
  <2>3. PassTypes'
    BY <1>8, <2>2 DEF ListRecords, PassTypes, TableTypes, PhaseInv, Fits, ToDelete
  <2>4. QED
    BY <1>1, <2>1, <2>3
<1>9. CASE NextPhase
  <2>1. /\ at' \in Phases \ {"idle", "items", "records", "deletes", "uploads"}
        /\ at # "idle" /\ UNCHANGED <<rows, records, conflicts, queueVars, items, listed, deletes, paused, work>>
        /\ todo' = TodoOf(at') /\ work = NoWork
    BY <1>9 DEF NextPhase, PhaseAfter, Phases
  <2>2. TableTypes' /\ QueueTypes'
    BY <2>1 DEF queueVars, TableTypes, QueueTypes
  <2>3. todo' \subseteq RowId \cup RecordId
    BY <2>1 DEF TodoOf, Tombstoned, CloudUpdates, LocalUpdates, Marks, Clashes, Differing,
                Matched, Downloads
  <2>4. TodoOf(at)' = TodoOf(at')
    BY <2>1, PlanKept
  <2>5. PhaseInv'
    BY <1>4, <2>1, <2>4 DEF PhaseInv, Fits
  <2>6. PassTypes'
    BY <2>1, <2>3, <2>5 DEF PassTypes
  <2>7. QED
    BY <1>1, <2>2, <2>6
<1>10. CASE MakePlan
  <2>1. TableTypes' /\ QueueTypes'
    BY <1>10 DEF MakePlan, queueVars, TableTypes, QueueTypes, Phases
  <2>2. work.step = "none"
    BY <1>5, <1>10, WorkCases DEF MakePlan, Fits
  <2>3. paused' \subseteq RecordId /\ todo' = Uploads' /\ todo' \subseteq RowId
    BY <1>10 DEF MakePlan, Paused, Uploads
  <2>4. PassTypes'
    BY <1>10, <2>2, <2>3 DEF MakePlan, PassTypes, PhaseInv, Fits
  <2>5. QED
    BY <1>1, <2>1, <2>4
<1>11. CASE EndPass
  BY <1>2, <1>11 DEF EndPass
<1>12. CASE Abort
  BY <1>2, <1>12 DEF Abort
<1>13. CASE CheckDelete /\ ~Abort
  <2>1. PICK r \in todo : /\ work' = [step |-> "tombstone", record |-> r, found |-> records[r]]
                          /\ IsExpected(r, listed[r].version) /\ todo' = todo \ {r}
                          /\ at = "deletes" /\ UNCHANGED <<rows, records, conflicts, passFrame>>
    BY <1>13 DEF CheckDelete, Take, PassIs
  <2>2. r \in RecordId
    BY <2>1 DEF PassTypes, PhaseInv, ToDelete
  <2>3. records[r] \in Record
    BY <2>1, <2>2, RecordValues DEF IsExpected, TableTypes
  <2>4. work' \in WorkType /\ Fits(work', at)
    BY <2>1, <2>2, <2>3 DEF WorkType, Fits
  <2>5. QED
    BY <1>3, <2>1, <2>4 DEF passFrame, TableTypes
<1>14. CASE WriteTombstone
  <2>1. work.step = "tombstone" /\ work' = NoWork /\ UNCHANGED <<rows, conflicts, todo, passFrame>>
    BY <1>14 DEF WriteTombstone, PassIs, Done
  <2>2. records' \in [RecordId -> Record \cup {NoRecord}]
    BY <1>5, <1>14, <2>1, WorkCases, DeletedRecord DEF WriteTombstone, TableTypes, OtherTypes
  <2>3. QED
    BY <1>3, <1>4, <1>5, <2>1, <2>2 DEF passFrame, TableTypes
<1>15. CASE DeleteTombstoned
  <2>1. PICK l \in todo : /\ rows' = [rows EXCEPT ![l] = GoneRow] /\ todo' = todo \ {l}
                          /\ at = "tombstones" /\ UNCHANGED <<records, conflicts, work, passFrame>>
    BY <1>15 DEF DeleteTombstoned, PassIs
  <2>2. l \in RowId
    BY <2>1 DEF PassTypes, PhaseInv, TodoOf, Tombstoned
  <2>3. RowsOK(rows')
    <3>1. rows' \in [RowId -> Row \cup {NoRow, GoneRow}]
      BY <2>1 DEF TableTypes, RowsOK
    <3>2. \A k \in RowId : rows'[k] = IF k = l THEN GoneRow ELSE rows[k]
      BY <2>1 DEF TableTypes, RowsOK
    <3>3. ~HasRow(rows', l)
      BY <2>2, <3>1, <3>2, RowValues
    <3>4. QED
      BY <3>1, <3>2, <3>3 DEF TableTypes, RowsOK, HasRow
  <2>4. QED
    BY <1>3, <1>5, <2>1, <2>3 DEF passFrame, TableTypes
<1>16. CASE ExportUpload /\ ~Abort
  <2>1. PICK l \in todo :
            /\ HasRow(rows, l) /\ at = "uploads"
            /\ \E r \in IF rows[l].cloud = None THEN FreshRecords ELSE {rows[l].cloud} :
                /\ Take(l, [step |-> "write", row |-> l, record |-> r, content |-> rows[l].content,
                            version |-> records[r].version])
                /\ UNCHANGED <<rows, records, conflicts, passFrame>>
    BY <1>16 DEF ExportUpload, PassIs
  <2>2. PICK r \in IF rows[l].cloud = None THEN FreshRecords ELSE {rows[l].cloud} :
            /\ work' = [step |-> "write", row |-> l, record |-> r, content |-> rows[l].content,
                        version |-> records[r].version]
            /\ todo' = todo \ {l} /\ UNCHANGED <<rows, records, conflicts, passFrame>>
    BY <2>1 DEF Take
  <2>3. l \in RowId
    BY <2>1 DEF PassTypes, PhaseInv, Uploads
  <2>4. rows[l] \in Row
    BY <2>1, <2>3, RowValues DEF TableTypes, RowsOK
  <2>5. r \in RecordId /\ records[r].version \in Nat
    BY <2>4, FreshIds, RecordValues DEF TableTypes, Row
  <2>6. work' \in WorkType /\ Fits(work', at)
    BY <2>1, <2>2, <2>3, <2>4, <2>5 DEF WorkType, Fits, Row
  <2>7. QED
    BY <1>3, <2>2, <2>6 DEF passFrame, TableTypes
<1>17. CASE ExportCloudUpdate /\ ~Abort
  <2>1. PICK l \in todo :
            /\ HasRow(rows, l) /\ rows[l].cloud # None /\ at = "cloud" /\ todo' = todo \ {l}
            /\ work' = [step |-> "check", row |-> l, record |-> rows[l].cloud,
                        content |-> rows[l].content]
            /\ UNCHANGED <<rows, records, conflicts, passFrame>>
    BY <1>17 DEF ExportCloudUpdate, PassIs, Take
  <2>2. l \in RowId
    BY <2>1, TodoRows
  <2>3. rows[l] \in Row
    BY <2>1, <2>2, RowValues DEF TableTypes, RowsOK
  <2>4. work' \in WorkType /\ Fits(work', at)
    BY <2>1, <2>2, <2>3 DEF WorkType, Fits, Row
  <2>5. QED
    BY <1>3, <2>1, <2>4 DEF passFrame, TableTypes
<1>18. CASE CheckCloudUpdate /\ ~Abort
  <2>1. /\ work' = [step |-> "write", row |-> work.row, record |-> work.record,
                    content |-> work.content, version |-> records[work.record].version]
        /\ at = "cloud" /\ work.step = "check" /\ UNCHANGED <<rows, records, conflicts, todo, passFrame>>
    BY <1>18 DEF CheckCloudUpdate, PassIs
  <2>2. work' \in WorkType /\ Fits(work', at)
    BY <1>5, <2>1, WorkCases, RecordValues DEF WorkType, Fits, TableTypes
  <2>3. QED
    BY <1>3, <2>1, <2>2 DEF passFrame, TableTypes
<1>19. CASE WriteRecord
  <2>1. /\ records' = Stored(work.record, work.content, work.version)
        /\ work' = [step |-> "mark", row |-> work.row, record |-> work.record, second |-> clock]
        /\ at \in {"uploads", "cloud"} /\ work.step = "write"
        /\ UNCHANGED <<rows, conflicts, todo, passFrame>>
    BY <1>19 DEF WriteRecord
  <2>2. work' \in WorkType /\ Fits(work', at)
    BY <1>5, <2>1, WorkCases DEF WorkType, Fits, OtherTypes
  <2>3. records' \in [RecordId -> Record \cup {NoRecord}]
    BY <1>5, <2>1, WorkCases, StoredRecords DEF TableTypes, OtherTypes
  <2>4. QED
    BY <1>3, <2>1, <2>2, <2>3 DEF passFrame, TableTypes
<1>20. CASE MarkWritten
  <2>1. /\ rows' = Marked(work.row, work.record, work.second) /\ work' = NoWork
        /\ work.step = "mark" /\ UNCHANGED <<records, conflicts, todo, passFrame>>
    BY <1>20 DEF MarkWritten, Done
  <2>2. RowsOK(rows')
    BY <1>5, <2>1, WorkCases, MarkedRows DEF TableTypes
  <2>3. QED
    BY <1>3, <1>4, <1>5, <2>1, <2>2 DEF passFrame, TableTypes
<1>21. CASE UpdateRow /\ ~Abort
  <2>1. PICK l \in todo :
            /\ at = "local" /\ HasRow(rows, l) /\ todo' = todo \ {l}
            /\ rows' = Overwritten(l, items[l].cloud, listed[items[l].cloud])
            /\ work' = [step |-> "stamp", row |-> l, record |-> items[l].cloud]
            /\ UNCHANGED <<records, conflicts, passFrame>>
    BY <1>21 DEF UpdateRow, PassIs, Take
  <2>2. l \in RowId /\ items[l].cloud \in RecordId /\ listed[items[l].cloud] \in Record
    BY <2>1, TodoRows
  <2>3. RowsOK(rows')
    BY <2>1, <2>2, OverwrittenRows DEF TableTypes, OtherTypes
  <2>4. work' \in WorkType /\ Fits(work', at)
    BY <2>1, <2>2, RecordValues DEF WorkType, Fits, PassTypes
  <2>5. QED
    BY <1>3, <2>1, <2>3, <2>4 DEF passFrame, TableTypes
<1>22. CASE StampRow
  <2>1. /\ at = "local" /\ work.step = "stamp"
        /\ rows' = Stamped(work.row, work.record, listed[work.record])
        /\ work' = [step |-> "mark", row |-> work.row, record |-> work.record,
                    second |-> listed[work.record].updated]
        /\ UNCHANGED <<records, conflicts, todo, passFrame>>
    BY <1>22 DEF StampRow, PassIs
  <2>2. work.row \in RowId /\ work.record \in RecordId
    BY <1>5, <2>1, WorkCases
  <2>3. listed[work.record] \in Record
    BY <1>5, <2>1, <2>2, RecordValues DEF PassTypes, Fits
  <2>4. RowsOK(rows')
    BY <2>1, <2>2, <2>3, StampedRows DEF TableTypes
  <2>5. work' \in WorkType /\ Fits(work', at)
    BY <2>1, <2>2, <2>3 DEF WorkType, Fits, Record
  <2>6. QED
    BY <1>3, <2>1, <2>4, <2>5 DEF passFrame, TableTypes
<1>23. CASE InsertRow
  <2>1. PICK r \in todo, l \in FreshRows :
            /\ at = "downloads" /\ rows' = Overwritten(l, r, listed[r]) /\ todo' = todo \ {r}
            /\ UNCHANGED <<records, conflicts, work, passFrame>>
    BY <1>23 DEF InsertRow, PassIs
  <2>2. l \in RowId /\ r \in RecordId /\ listed[r] \in Record
    BY <2>1, TodoDownloads, FreshIds
  <2>3. RowsOK(rows')
    BY <2>1, <2>2, OverwrittenRows DEF TableTypes, OtherTypes
  <2>4. QED
    BY <1>3, <1>5, <2>1, <2>3 DEF passFrame, TableTypes
<1>24. CASE MarkEqual
  <2>1. PICK l \in todo :
            /\ at = "marks" /\ rows' = Marked(l, items[l].cloud, items[l].updated)
            /\ todo' = todo \ {l} /\ UNCHANGED <<records, conflicts, work, passFrame>>
    BY <1>24 DEF MarkEqual, PassIs
  <2>2. l \in RowId /\ items[l].cloud \in RecordId /\ items[l].updated \in Time
    BY <2>1, TodoRows
  <2>3. RowsOK(rows')
    BY <2>1, <2>2, MarkedRows DEF TableTypes
  <2>4. QED
    BY <1>3, <1>5, <2>1, <2>3 DEF passFrame, TableTypes
<1>25. CASE PauseRecord
  <2>1. PICK l \in todo :
            /\ at = "conflicts" /\ todo' = todo \ {l} /\ UNCHANGED <<rows, records, work, passFrame>>
            /\ conflicts' = [conflicts EXCEPT ![items[l].cloud] =
                                [row |-> l, remote |-> listed[items[l].cloud]]]
    BY <1>25 DEF PauseRecord, PassIs
  <2>2. l \in RowId /\ items[l].cloud \in RecordId /\ listed[items[l].cloud] \in Record
    BY <2>1, TodoRows
  <2>3. conflicts' \in [RecordId -> ConflictType \cup {None}]
    BY <2>1, <2>2 DEF TableTypes, ConflictType
  <2>4. QED
    BY <1>3, <1>5, <2>1, <2>3 DEF passFrame, TableTypes
<1>26. QED
  BY <1>2, <1>6, <1>7, <1>8, <1>9, <1>10, <1>11, <1>12, <1>13, <1>14, <1>15, <1>16, <1>17, <1>18,
     <1>19, <1>20, <1>21, <1>22, <1>23, <1>24, <1>25 DEF Drain, PassStep, PassFails

LEMMA InitTypes ==
    ASSUME Init
    PROVE  Typed
<1> USE DEF Init
<1>1. Original \in Contents /\ Edited \in Contents
  BY SyncAssumption DEF Original, Edited, SyncAssumption
<1>2. clock \in Time
  BY Ids
<1>3. RowsOK(NoRows) /\ NoRows \in [RowId -> Row \cup {NoRow}]
  BY NoTable DEF RowsOK
<1>4. ASSUME NEW row \in Row, row.cloud # None
      PROVE  RowsOK(First(NoRows, row))
  <2>1. First(NoRows, row) \in [RowId -> Row \cup {NoRow, GoneRow}]
    BY <1>3 DEF First
  <2>2. \A l \in RowId : First(NoRows, row)[l] = IF l = 1 THEN row ELSE NoRow
    BY DEF First, NoRows
  <2>3. \A l \in RowId : HasRow(First(NoRows, row), l) => l = 1
    BY <2>1, <2>2, RowValues
  <2>4. QED
    BY <1>4, <2>1, <2>2, <2>3 DEF RowsOK
<1>5. Synced \in Row /\ Synced.cloud # None
  BY <1>1, Ids DEF Synced, Row
<1>6. [Synced EXCEPT !.content = Edited, !.updated = 2] \in Row
      /\ [Synced EXCEPT !.content = Edited, !.updated = 2].cloud # None
  BY <1>1, Ids DEF Synced, Row
<1>7. RowsOK(rows)
  BY <1>3, <1>4, <1>5, <1>6
<1>8. Shared \in Record
  BY <1>1, Ids DEF Shared, Record
<1>9. \A c \in Contents : [Shared EXCEPT !.content = c, !.version = 2, !.updated = 2] \in Record
  BY Ids DEF Shared, Record
<1>10. records \in [RecordId -> Record \cup {NoRecord}]
  <2>1. \A record \in Record : First(NoRecords, record) \in [RecordId -> Record \cup {NoRecord}]
    BY NoTable DEF First
  <2>2. records = NoRecords \/ \E record \in Record : records = First(NoRecords, record)
    BY <1>8, <1>9
  <2>3. QED
    BY <2>1, <2>2, NoTable
<1>11. TableTypes
  BY <1>7, <1>10 DEF TableTypes
<1>12. QueueTypes /\ OtherTypes
  BY <1>2 DEF QueueTypes, OtherTypes, Phases
<1>13. PassTypes
  BY NoTable DEF PassTypes, PhaseInv, Fits, WorkType, NoWork
<1>14. QED
  BY <1>11, <1>12, <1>13 DEF Typed

LEMMA StepTypes ==
    ASSUME Typed, [Next]_vars
    PROVE  Typed'
<1>1. CASE UNCHANGED vars
  BY <1>1, PassKept DEF vars, Typed, TableTypes, QueueTypes, OtherTypes, passVars
<1>2. QED
  BY <1>1, UserTypes, ResolverTypes, WorldTypes, PassStepTypes DEF Next

(* The state of the worker, of a pass and of the tables is well formed     *)
(* after any steps.                                                        *)
THEOREM SyncTypeCorrect == Spec => []SyncTypeOK
<1>1. Spec => []Typed
  BY InitTypes, StepTypes, PTL DEF Spec
<1>2. Typed => SyncTypeOK
  BY TypedIsTyped
<1>3. QED
  BY <1>1, <1>2, PTL

-----------------------------------------------------------------------------
(* The queue: what the user changed waits for a pass.                      *)

LEMMA QueueStep ==
    ASSUME UnlistedChangeQueued, [Next]_vars
    PROVE  UnlistedChangeQueued'
<1> USE DEF UnlistedChangeQueued
<1>1. CASE ScanRequested \/ UNCHANGED vars
  BY <1>1 DEF ScanRequested, Enqueue, passVars, vars
<1>2. CASE BeginDrain
  BY <1>2 DEF BeginDrain
<1>3. CASE ListItems
  BY <1>3 DEF ListItems
<1>4. CASE ListRecords \/ NextPhase \/ MakePlan
  BY <1>4 DEF ListRecords, NextPhase, MakePlan, queueVars, PhaseAfter
<1>5. ASSUME at # "items", FinishDrain, unlisted' = unlisted
      PROVE  UnlistedChangeQueued'
  BY <1>5 DEF FinishDrain
<1>6. CASE EndPass \/ (Abort /\ at # "items")
  BY <1>5, <1>6 DEF EndPass, Abort
<1>7. CASE UNCHANGED passFrame
  BY <1>7 DEF passFrame, queueVars
<1>8. CASE PassFails
  BY <1>8 DEF PassFails, FinishDrain
<1>9. CASE Create \/ Delete
  BY <1>9 DEF Create, Delete, Enqueue
<1>10. CASE SaveForm
  BY <1>10 DEF SaveForm, Enqueue, queueVars, userFrame, passVars
<1>11. CASE OpenForm \/ StartResolve \/ ResolverStep
  BY <1>11 DEF OpenForm, StartResolve, ResolverStep, userFrame, resolverFrame, queueVars, passVars
<1>12. CASE OtherDevice \/ Tick
  BY <1>12 DEF OtherDevice, Tick, worldFrame, queueVars, passVars
<1>13. CASE Crash
  BY <1>13 DEF Crash
<1>14. CASE CheckDelete \/ WriteTombstone \/ DeleteTombstoned \/ ExportUpload \/ ExportCloudUpdate
  BY <1>6, <1>7, <1>14 DEF CheckDelete, WriteTombstone, DeleteTombstoned, ExportUpload,
       ExportCloudUpdate, PassIs
<1>15. CASE CheckCloudUpdate \/ WriteRecord \/ MarkWritten \/ UpdateRow \/ StampRow
  BY <1>6, <1>7, <1>15 DEF CheckCloudUpdate, WriteRecord, MarkWritten, UpdateRow, StampRow, PassIs
<1>16. CASE InsertRow \/ MarkEqual \/ PauseRecord
  BY <1>7, <1>16 DEF InsertRow, MarkEqual, PauseRecord
<1>17. QED
  BY <1>1, <1>2, <1>3, <1>4, <1>6, <1>8, <1>9, <1>10, <1>11, <1>12, <1>13, <1>14, <1>15, <1>16
     DEF Next, Drain, PassStep

(* A change the user made and that no pass has listed yet is waited for:   *)
(* an event is queued, or a pass is about to list.                         *)
THEOREM ChangesAreQueued == Spec => []UnlistedChangeQueued
<1>1. Init => UnlistedChangeQueued
  BY DEF Init, UnlistedChangeQueued
<1>2. QED
  BY <1>1, QueueStep, PTL DEF Spec

-----------------------------------------------------------------------------
(* One row per record.                                                     *)

(* What a step does to the tables that is not an upload's or a download's: *)
(* a row keeps its record, and no record this device may create appears.   *)
KeepsRow(l) ==
    /\ Used(rows, l) => Used(rows', l)
    /\ HasRow(rows', l) => \/ HasRow(rows, l) /\ rows'[l].cloud = rows[l].cloud
                           \/ ~Used(rows, l) /\ rows'[l].cloud = None
KeepsRows == \A l \in RowId : KeepsRow(l)
KeepsRecords == \A r \in RecordId : HasRecord(records, r) => HasRecord(records', r)
KeepsNew == \A r \in RecordId : HasRecord(records', r) /\ r <= MaxRecords => HasRecord(records, r)
KeepsConflicts ==
    /\ \A r \in RecordId : conflicts'[r] # None => conflicts'[r] = conflicts[r]
    /\ resolve' # None /\ resolve'.step # "clear" =>
           \/ resolve # None /\ resolve.step # "clear"
              /\ resolve'.row = resolve.row /\ resolve'.record = resolve.record
           \/ resolve'.record \in Paused /\ resolve'.row = conflicts[resolve'.record].row

LEMMA CloudIds ==
    ASSUME Typed
    PROVE  /\ \A l \in RowId : HasCloud(rows, l) => rows[l].cloud \in RecordId
           /\ \A l \in RowId : HasCloud(items, l) => items[l].cloud \in RecordId
           /\ \A r \in Paused : r \in RecordId /\ conflicts[r].row \in RowId
           /\ resolve # None => /\ resolve.record \in RecordId
                                /\ resolve.step # "clear" => resolve.row \in RowId
           /\ \A l \in RowId : HasRow(rows, l) => Used(rows, l)
<1>1. \A l \in RowId : HasCloud(rows, l) => rows[l].cloud \in RecordId
  BY RowValues DEF Typed, TableTypes, RowsOK, HasCloud, Row
<1>2. \A l \in RowId : HasCloud(items, l) => items[l].cloud \in RecordId
  BY Listed DEF Typed, HasCloud
<1>3. \A r \in Paused : r \in RecordId /\ conflicts[r].row \in RowId
  BY DEF Typed, TableTypes, Paused, ConflictType
<1>4. resolve # None => /\ resolve.record \in RecordId
                        /\ resolve.step # "clear" => resolve.row \in RowId
  BY ResolveCases DEF Typed, OtherTypes
<1>5. \A l \in RowId : HasRow(rows, l) => Used(rows, l)
  BY RowValues DEF Typed, TableTypes, RowsOK, Used
<1>6. QED
  BY <1>1, <1>2, <1>3, <1>4, <1>5

LEMMA KeptOf ==
    ASSUME NEW l \in RowId, KeepsRow(l), Used(rows, l)
    PROVE  /\ Used(rows', l)
           /\ \A r : Of(rows, l, r) => Of(rows', l, r)
           /\ Unbound(rows, l) => Unbound(rows', l)
           /\ HasRow(rows', l) => HasRow(rows, l)
           /\ HasCloud(rows', l) => HasCloud(rows, l) /\ rows'[l].cloud = rows[l].cloud
BY DEF KeepsRow, Used, Of, Unbound, HasCloud

LEMMA KeptCloud ==
    ASSUME NEW l \in RowId, KeepsRow(l), HasCloud(rows', l)
    PROVE  HasCloud(rows, l) /\ rows'[l].cloud = rows[l].cloud
BY DEF KeepsRow, HasCloud

LEMMA KeptRows ==
    ASSUME RowsInv, KeepsRows, KeepsRecords, Typed
    PROVE  RowsInv'
BY KeptCloud, CloudIds DEF RowsInv, KeepsRows, KeepsRecords, HasCloud

LEMMA KeptItems ==
    ASSUME ItemsInv, KeepsRows, KeepsRecords, Typed, UNCHANGED <<at, items, listed>>
    PROVE  ItemsInv'
<1>1. \A l \in RowId : HasCloud(items', l) <=> HasCloud(items, l)
  BY DEF HasCloud, HasRow
<1>2. \A l \in RowId : HasRow(items', l) => Used(rows', l)
  BY KeptOf DEF ItemsInv, KeepsRows, HasRow
<1>3. ASSUME NEW l \in RowId, HasCloud(items', l)
      PROVE  Of(rows', l, items'[l].cloud) /\ HasRecord(records', items'[l].cloud)
  <2>1. HasCloud(items, l) /\ items'[l].cloud = items[l].cloud
    BY <1>1, <1>3
  <2>2. Of(rows, l, items[l].cloud) /\ HasRecord(records, items[l].cloud) /\ Used(rows, l)
    BY <2>1 DEF ItemsInv, HasCloud
  <2>3. KeepsRow(l) /\ items[l].cloud \in RecordId
    BY <2>1, CloudIds DEF KeepsRows
  <2>4. Of(rows', l, items'[l].cloud)
    BY <2>1, <2>2, <2>3, KeptOf
  <2>5. QED
    BY <2>1, <2>2, <2>3, <2>4 DEF KeepsRecords
<1>4. \A r \in RecordId : HasRecord(listed', r) => HasRecord(records', r)
  BY DEF ItemsInv, KeepsRecords, HasRecord
<1>5. at' \notin {"idle", "items", "records"} =>
          \A l \in RowId : HasCloud(items', l) => HasRecord(listed', items'[l].cloud)
  BY <1>1 DEF ItemsInv
<1>6. QED
  BY <1>2, <1>3, <1>4, <1>5 DEF ItemsInv

LEMMA KeptMissing ==
    ASSUME MissingInv, ItemsInv, KeepsRows, Typed, UNCHANGED <<at, items, listed>>,
           todo' \subseteq todo
    PROVE  MissingInv'
<1>1. \A l \in RowId : HasCloud(items', l) <=> HasCloud(items, l)
  BY DEF HasCloud, HasRow
<1>2. at' = "records" => \A l \in RowId : HasCloud(rows', l) => HasCloud(items', l)
  BY <1>1, KeptCloud DEF MissingInv, KeepsRows
<1>3. ASSUME at' \in (Reading \cup Writing) \ {"records"}, NEW l \in RowId,
             HasCloud(rows', l), HasRecord(listed', rows'[l].cloud)
      PROVE  HasCloud(items', l) \/ (at' = "downloads" /\ rows'[l].cloud \notin todo')
  <2>1. HasCloud(rows, l) /\ rows'[l].cloud = rows[l].cloud
    BY <1>3, KeptCloud DEF KeepsRows
  <2>2. HasCloud(items, l) \/ (at = "downloads" /\ rows[l].cloud \notin todo)
    BY <1>3, <2>1 DEF MissingInv
  <2>3. QED
    BY <1>1, <2>1, <2>2
<1>4. ASSUME at' \in Reading \cup {"uploads"}, NEW l \in RowId, HasRow(items', l),
             items'[l].cloud = None
      PROVE  Unbound(rows', l) \/ (at' = "uploads" /\ l \notin todo')
  <2>1. Unbound(rows, l) \/ (at = "uploads" /\ l \notin todo)
    BY <1>4 DEF MissingInv, HasRow
  <2>2. Used(rows, l) /\ KeepsRow(l)
    BY <1>4 DEF ItemsInv, HasRow, KeepsRows
  <2>3. QED
    BY <2>1, <2>2, KeptOf
<1>5. QED
  BY <1>2, <1>3, <1>4 DEF MissingInv, Reading, Writing

LEMMA KeptTombstones ==
    ASSUME TombstoneInv, ItemsInv, KeepsRows, UNCHANGED <<at, items, listed, deletes, paused>>,
           at = "tombstones" => \A l \in todo \ todo' : ~HasRow(rows', l)
    PROVE  TombstoneInv'
<1>1. Tombstoned' = Tombstoned
  BY PlanKept
<1>2. ASSUME NEW l \in Tombstoned, ~HasRow(rows, l)
      PROVE  ~HasRow(rows', l)
  <2>1. l \in RowId /\ Used(rows, l) /\ KeepsRow(l)
    BY DEF Tombstoned, ItemsInv, KeepsRows
  <2>2. QED
    BY <1>2, <2>1, KeptOf
<1>3. QED
  BY <1>1, <1>2 DEF TombstoneInv, Writing

LEMMA KeptConflicts ==
    ASSUME ConflictInv, KeepsRows, KeepsRecords, KeepsConflicts, Typed, Typed'
    PROVE  /\ Paused' \subseteq Paused
           /\ \A r \in Paused' : Of(rows', conflicts'[r].row, r) /\ HasRecord(records', r)
           /\ resolve' # None /\ resolve'.step # "clear" =>
                  /\ Of(rows', resolve'.row, resolve'.record)
                  /\ HasRecord(records', resolve'.record)
<1>1. Paused' \subseteq Paused /\ \A r \in Paused' : conflicts'[r] = conflicts[r]
  BY DEF Paused, KeepsConflicts
<1>2. ASSUME NEW r \in RecordId, NEW l \in RowId, Of(rows, l, r), HasRecord(records, r)
      PROVE  Of(rows', l, r) /\ HasRecord(records', r)
  BY <1>2, KeptOf DEF Of, KeepsRows, KeepsRecords
<1>3. ASSUME NEW r \in Paused'
      PROVE  Of(rows', conflicts'[r].row, r) /\ HasRecord(records', r)
  <2>1. r \in Paused /\ conflicts'[r] = conflicts[r]
    BY <1>1
  <2>2. r \in RecordId /\ conflicts[r].row \in RowId
    BY <2>1, CloudIds
  <2>3. Of(rows, conflicts[r].row, r) /\ HasRecord(records, r)
    BY <2>1 DEF ConflictInv
  <2>4. QED
    BY <1>2, <2>1, <2>2, <2>3
<1>4. ASSUME resolve' # None, resolve'.step # "clear"
      PROVE  Of(rows', resolve'.row, resolve'.record) /\ HasRecord(records', resolve'.record)
  <2>1. /\ Of(rows, resolve'.row, resolve'.record) /\ HasRecord(records, resolve'.record)
        /\ resolve'.row \in RowId /\ resolve'.record \in RecordId
    BY <1>4, CloudIds DEF KeepsConflicts, ConflictInv
  <2>2. QED
    BY <1>2, <2>1
<1>5. QED
  BY <1>1, <1>3, <1>4

LEMMA KeptNew ==
    ASSUME NEW r \in RecordId, IsNew(r), KeepsRows, KeepsConflicts, listed' = listed
    PROVE  IsNew(r)'
<1>1. ~HasRecord(listed', r) /\ r \notin Paused'
  BY DEF IsNew, HasRecord, Paused, KeepsConflicts
<1>2. ASSUME NEW k \in RowId, HasRow(rows', k)
      PROVE  rows'[k].cloud # r
  BY <1>2, Ids DEF IsNew, KeepsRows, KeepsRow
<1>3. QED
  BY <1>1, <1>2 DEF IsNew

LEMMA KeptWork ==
    ASSUME WorkInv, ItemsInv, KeepsRows, KeepsRecords, KeepsNew, KeepsConflicts, Typed,
           UNCHANGED <<at, items, listed, deletes, paused, todo, work>>
    PROVE  WorkInv'
<1>1. ASSUME at = "uploads", work.step # "none"
      PROVE  WorkInv'
  <2>1. work.row \in RowId /\ work.record \in RecordId /\ KeepsRow(work.row)
    <3>1. work.step \in {"write", "mark"}
      BY <1>1, WorkCases DEF Typed, PassTypes, PhaseInv, Fits
    <3>2. QED
      BY <3>1, WorkCases DEF Typed, PassTypes, KeepsRows
  <2>2. CASE /\ Of(rows, work.row, work.record)
             /\ work.record \in deletes /\ work.record \notin paused
             /\ HasRecord(records, work.record)
    <3>1. Of(rows', work.row, work.record) /\ HasRecord(records', work.record)
      BY <2>1, <2>2, KeptOf DEF KeepsRecords, Of
    <3>2. QED
      BY <1>1, <2>2, <3>1 DEF WorkInv
  <2>3. CASE /\ Unbound(rows, work.row) /\ IsNew(work.record) /\ work.record <= MaxRecords
             /\ (HasRecord(records, work.record) <=> work.step = "mark")
    <3>1. Unbound(rows', work.row)
      BY <2>1, <2>3, KeptOf DEF Unbound, Of
    <3>2. IsNew(work.record)'
      BY <2>1, <2>3, KeptNew
    <3>3. HasRecord(records', work.record) <=> work.step = "mark"
      BY <2>1, <2>3 DEF KeepsRecords, KeepsNew
    <3>4. QED
      BY <1>1, <2>3, <3>1, <3>2, <3>3 DEF WorkInv
  <2>4. QED
    BY <1>1, <2>2, <2>3 DEF WorkInv
<1>2. ASSUME ~(at = "uploads" /\ work.step # "none")
      PROVE  WorkInv'
  BY <1>2 DEF WorkInv, HasCloud, HasRow
<1>3. QED
  BY <1>1, <1>2

(* Whatever happens outside the pass.                                      *)
LEMMA KeptInv ==
    ASSUME CloudInv, KeepsRows, KeepsRecords, KeepsNew, KeepsConflicts, Typed, Typed',
           UNCHANGED passVars
    PROVE  CloudInv'
<1>1. UNCHANGED <<at, items, listed, deletes, paused, todo, work>>
  BY DEF passVars
<1>2. RowsInv' /\ ItemsInv' /\ MissingInv' /\ TombstoneInv' /\ ConflictInv' /\ WorkInv'
  <2>1. ConflictInv'
    BY <1>1, KeptConflicts DEF CloudInv, ConflictInv, Writing
  <2>2. QED
    BY <1>1, <2>1, KeptRows, KeptItems, KeptMissing, KeptTombstones, KeptWork DEF CloudInv
<1>3. QED
  BY <1>2 DEF CloudInv

LEMMA EndedInv ==
    ASSUME CloudInv, KeepsRows, KeepsRecords, KeepsConflicts, Typed, Typed', FinishDrain
    PROVE  CloudInv'
<1>1. RowsInv'
  BY KeptRows DEF CloudInv
<1>2. ItemsInv' /\ MissingInv' /\ TombstoneInv' /\ WorkInv'
  BY NoTable DEF FinishDrain, ItemsInv, MissingInv, TombstoneInv, WorkInv, HasCloud, Writing, Reading
<1>3. ConflictInv'
  BY KeptConflicts DEF CloudInv, ConflictInv, FinishDrain, Writing
<1>4. QED
  BY <1>1, <1>2, <1>3 DEF CloudInv

(* A row whose record is r is given the record r again, or deleted.        *)
LEMMA WritesRow ==
    ASSUME Typed, NEW l \in RowId, NEW r \in RecordId, Of(rows, l, r),
           \A k \in RowId \ {l} : rows'[k] = rows[k],
           Used(rows', l), HasRow(rows', l) => HasRow(rows, l) /\ rows'[l].cloud = r
    PROVE  KeepsRows
BY DEF KeepsRows, KeepsRow, HasRow, Used, Of

LEMMA SameRows ==
    ASSUME rows' = rows
    PROVE  KeepsRows
BY DEF KeepsRows, KeepsRow, HasRow, Used

LEMMA SameRecords ==
    ASSUME records' = records
    PROVE  KeepsRecords /\ KeepsNew
BY DEF KeepsRecords, KeepsNew, HasRecord

LEMMA SameConflicts ==
    ASSUME UNCHANGED <<conflicts, resolve>>
    PROVE  KeepsConflicts
BY DEF KeepsConflicts

(* The record that is written exists.                                      *)
LEMMA WritesRecord ==
    ASSUME NEW r \in RecordId, \A q \in RecordId \ {r} : records'[q] = records[q],
           HasRecord(records', r)
    PROVE  /\ KeepsRecords
           /\ HasRecord(records, r) \/ ~(r <= MaxRecords) => KeepsNew
BY DEF KeepsRecords, KeepsNew, HasRecord

LEMMA UserKeeps ==
    ASSUME Typed, ~reverted', ScanRequested \/ Create \/ OpenForm \/ SaveForm \/ Delete
    PROVE  KeepsRows /\ KeepsRecords /\ KeepsNew /\ KeepsConflicts /\ UNCHANGED passVars
<1>1. UNCHANGED <<records, conflicts, resolve>> /\ UNCHANGED passVars
  BY DEF ScanRequested, Create, OpenForm, SaveForm, Delete, userFrame
<1>2. KeepsRecords /\ KeepsNew /\ KeepsConflicts
  BY <1>1, SameRecords, SameConflicts
<1>3. KeepsRows
  <2>1. CASE ScanRequested \/ OpenForm
    BY <2>1, SameRows DEF ScanRequested, OpenForm
  <2>2. CASE Create
    <3>1. PICK l \in FreshRows, c \in Contents :
            rows' = [rows EXCEPT ![l] = [cloud |-> None, content |-> c, updated |-> clock, synced |-> 0]]
      BY <2>2 DEF Create
    <3>2. l \in RowId /\ rows[l] = NoRow
      BY FreshIds
    <3>3. /\ \A k \in RowId \ {l} : rows'[k] = rows[k]
          /\ rows'[l].cloud = None
      BY <3>1, <3>2 DEF Typed, TableTypes, RowsOK
    <3>4. QED
      BY <3>2, <3>3 DEF KeepsRows, KeepsRow, Used, HasRow
  <2>3. CASE SaveForm
    <3>1. CASE ~HasRow(rows, form.row)
      BY <2>3, <3>1, SameRows DEF SaveForm
    <3>2. CASE HasRow(rows, form.row)
      <4> DEFINE saved(c) == [cloud |-> form.cloud, content |-> c, updated |-> clock,
                              synced |-> form.synced]
      <4>1. PICK c \in Contents : rows' = [rows EXCEPT ![form.row] = saved(c)]
        BY <2>3, <3>2 DEF SaveForm
      <4>2. form.cloud = rows[form.row].cloud
        BY <2>3, <3>2 DEF SaveForm
      <4>3. form.row \in RowId
        BY <2>3 DEF SaveForm, Typed, OtherTypes, FormType
      <4>4. \A k \in RowId : rows'[k] = IF k = form.row THEN saved(c) ELSE rows[k]
        BY <4>1 DEF Typed, TableTypes, RowsOK
      <4>5. saved(c).cloud = form.cloud /\ saved(c).content # None
        BY Ids
      <4> HIDE DEF saved
      <4>6. HasRow(rows', form.row) /\ rows'[form.row].cloud = rows[form.row].cloud
        BY <4>2, <4>3, <4>4, <4>5 DEF HasRow
      <4>7. rows'[form.row] # NoRow
        BY <4>6 DEF HasRow, NoRow
      <4>8. QED
        BY <3>2, <4>3, <4>4, <4>6, <4>7 DEF KeepsRows, KeepsRow, Used, HasRow
    <3>3. QED
      BY <3>1, <3>2
  <2>4. CASE Delete
    <3>1. PICK l \in RowId : rows' = [rows EXCEPT ![l] = GoneRow]
      BY <2>4 DEF Delete
    <3>2. \A k \in RowId : rows'[k] = IF k = l THEN GoneRow ELSE rows[k]
      BY <3>1 DEF Typed, TableTypes, RowsOK
    <3>3. GoneRow # NoRow /\ GoneRow.content = None
      BY DEF GoneRow, NoRow
    <3>4. QED
      BY <3>2, <3>3 DEF KeepsRows, KeepsRow, Used, HasRow
  <2>5. QED
    BY <2>1, <2>2, <2>3, <2>4
<1>4. QED
  BY <1>1, <1>2, <1>3

LEMMA ResolverKeeps ==
    ASSUME Typed, ConflictInv, StartResolve \/ ResolverStep
    PROVE  KeepsRows /\ KeepsRecords /\ KeepsNew /\ KeepsConflicts /\ UNCHANGED passVars
<1>1. UNCHANGED passVars
  BY DEF StartResolve, ResolverStep, resolverFrame
<1>2. ASSUME ResolverStops
      PROVE  KeepsRows /\ KeepsRecords /\ KeepsNew /\ KeepsConflicts
  BY <1>2, SameRows, SameRecords DEF ResolverStops, KeepsConflicts
<1>3. ASSUME conflicts' = conflicts, resolve # None, resolve.step # "clear",
             resolve'.row = resolve.row \/ resolve'.step = "clear", resolve'.record = resolve.record
      PROVE  KeepsConflicts
  BY <1>3 DEF KeepsConflicts
<1>4. CASE StartResolve
  <2>1. PICK r \in Paused, step \in {"apply", "export"} :
            resolve' = [step |-> step, record |-> r, row |-> conflicts[r].row,
                        remote |-> conflicts[r].remote]
    BY <1>4 DEF StartResolve
  <2>2. KeepsConflicts
    BY <1>4, <2>1 DEF StartResolve, KeepsConflicts
  <2>3. QED
    BY <1>1, <1>4, <2>2, SameRows, SameRecords DEF StartResolve
<1>5. CASE ResolverStep
  <2>1. resolve # None
    BY <1>5 DEF ResolverStep, ApplyCloud, StampCloud, ExportLocal, CheckLocal, WriteLocal,
                MarkResolved, ClearConflict, ResolverIs
  <2>2. resolve \in ResolveType
    BY <2>1 DEF Typed, OtherTypes
  <2>3. resolve.record \in RecordId /\ (resolve.step # "clear" => resolve.row \in RowId)
    BY <2>2, ResolveCases
  <2>4. resolve.step # "clear" =>
            Of(rows, resolve.row, resolve.record) /\ HasRecord(records, resolve.record)
    BY <2>1 DEF ConflictInv
  <2> DEFINE l == resolve.row
             r == resolve.record
  <2>5. RowsOK(rows) /\ clock \in Time
    BY DEF Typed, TableTypes, OtherTypes
  <2>6. CASE ResolverStops
    BY <1>1, <1>2, <2>6
  <2>7. CASE ApplyCloud /\ ~ResolverStops
    <3>1. /\ resolve.step = "apply" /\ HasRow(rows, l) /\ UNCHANGED <<records, conflicts>>
          /\ rows' = Overwritten(l, r, resolve.remote)
          /\ resolve' = [resolve EXCEPT !.step = "stamp"]
      BY <2>7 DEF ApplyCloud, ResolverIs
    <3>2. resolve'.row = l /\ resolve'.record = r
      BY <2>2, <3>1, ResolveCases
    <3>3. /\ \A k \in RowId \ {l} : rows'[k] = rows[k]
          /\ HasRow(rows', l) /\ rows'[l].cloud = r
      BY <2>2, <2>3, <2>5, <3>1, ResolveCases, OverwrittenRows
    <3>4. Used(rows', l)
      BY <3>3 DEF Used, HasRow, NoRow
    <3>5. KeepsRows
      BY <2>3, <2>4, <3>1, <3>3, <3>4, WritesRow
    <3>6. QED
      BY <1>1, <1>3, <2>1, <3>1, <3>2, <3>5, SameRecords
  <2>8. CASE StampCloud
    <3>1. /\ resolve.step = "stamp" /\ UNCHANGED <<records, conflicts>>
          /\ rows' = Stamped(l, r, resolve.remote)
          /\ resolve' = [step |-> "mark", record |-> r, row |-> l, second |-> resolve.remote.updated]
      BY <2>8 DEF StampCloud, ResolverIs
    <3>2. resolve'.row = l /\ resolve'.record = r
      BY <3>1
    <3>3. /\ \A k \in RowId \ {l} : rows'[k] = rows[k]
          /\ HasRow(rows', l) => HasRow(rows, l) /\ rows'[l].cloud = r
          /\ ~HasRow(rows, l) => rows' = rows
      BY <2>2, <2>3, <2>5, <3>1, ResolveCases, StampedRows
    <3>4. KeepsRows
      <4>1. CASE ~HasRow(rows, l)
        BY <3>3, <4>1, SameRows
      <4>2. CASE HasRow(rows, l)
        <5>1. HasRow(rows', l)
          BY <2>2, <2>3, <2>5, <3>1, <4>2, ResolveCases, StampedRows
        <5>2. Used(rows', l)
          BY <5>1 DEF Used, HasRow, NoRow
        <5>3. QED
          BY <2>3, <2>4, <3>1, <3>3, <5>2, WritesRow
      <4>3. QED
        BY <4>1, <4>2
    <3>5. QED
      BY <1>1, <1>3, <2>1, <3>1, <3>2, <3>4, SameRecords
  <2>9. CASE ExportLocal /\ ~ResolverStops
    <3>1. /\ resolve.step = "export" /\ UNCHANGED <<rows, records, conflicts>>
          /\ resolve'.row = l /\ resolve'.record = r
      BY <2>9 DEF ExportLocal, ResolverIs
    <3>2. QED
      BY <1>1, <1>3, <2>1, <3>1, SameRows, SameRecords
  <2>10. CASE CheckLocal /\ ~ResolverStops
    <3>1. /\ resolve.step = "check" /\ UNCHANGED <<rows, records, conflicts>>
          /\ resolve' = [resolve EXCEPT !.step = "write"]
      BY <2>10 DEF CheckLocal, ResolverIs
    <3>2. resolve'.row = l /\ resolve'.record = r
      BY <2>2, <3>1, ResolveCases
    <3>3. QED
      BY <1>1, <1>3, <2>1, <3>1, <3>2, SameRows, SameRecords
  <2>11. CASE WriteLocal
    <3>1. /\ resolve.step = "write" /\ UNCHANGED <<rows, conflicts>>
          /\ records' = Stored(r, resolve.content, resolve.remote.version)
          /\ resolve'.row = l /\ resolve'.record = r
      BY <2>11 DEF WriteLocal, ResolverIs
    <3>2. resolve.content \in Contents /\ resolve.remote.version \in Nat
      BY <2>2, <3>1, ResolveCases DEF Record
    <3>3. (\A q \in RecordId \ {r} : records'[q] = records[q]) /\ HasRecord(records', r)
      BY <2>3, <2>5, <3>1, <3>2, StoredRecords DEF Typed, TableTypes
    <3>4. KeepsRecords /\ KeepsNew
      BY <2>3, <2>4, <3>1, <3>3, WritesRecord
    <3>5. QED
      BY <1>1, <1>3, <2>1, <3>1, <3>4, SameRows
  <2>12. CASE MarkResolved
    <3>1. /\ resolve.step = "mark" /\ UNCHANGED <<records, conflicts>>
          /\ rows' = Marked(l, r, resolve.second)
          /\ resolve'.step = "clear" /\ resolve'.record = r
      BY <2>12 DEF MarkResolved, ResolverIs
    <3>2. /\ \A k \in RowId \ {l} : rows'[k] = rows[k]
          /\ HasRow(rows', l) => HasRow(rows, l) /\ rows'[l].cloud = r
          /\ HasRow(rows, l) => HasRow(rows', l)
          /\ ~HasRow(rows, l) => rows' = rows
      BY <2>2, <2>3, <2>5, <3>1, ResolveCases, MarkedRows
    <3>3. KeepsRows
      <4>1. CASE ~HasRow(rows, l)
        BY <3>2, <4>1, SameRows
      <4>2. CASE HasRow(rows, l)
        <5>1. Used(rows', l)
          BY <3>2, <4>2 DEF Used, HasRow, NoRow
        <5>2. QED
          BY <2>3, <2>4, <3>1, <3>2, <5>1, WritesRow
      <4>3. QED
        BY <4>1, <4>2
    <3>4. QED
      BY <1>1, <1>3, <2>1, <3>1, <3>3, SameRecords
  <2>13. CASE ClearConflict
    <3>1. KeepsConflicts
      BY <2>3, <2>13 DEF ClearConflict, KeepsConflicts, Typed, TableTypes
    <3>2. QED
      BY <1>1, <2>13, <3>1, SameRows, SameRecords DEF ClearConflict
  <2>14. QED
    BY <1>5, <2>6, <2>7, <2>8, <2>9, <2>10, <2>11, <2>12, <2>13 DEF ResolverStep
<1>6. QED
  BY <1>4, <1>5

LEMMA WorldKeeps ==
    ASSUME Typed, OtherDevice \/ Tick
    PROVE  KeepsRows /\ KeepsRecords /\ KeepsNew /\ KeepsConflicts /\ UNCHANGED passVars
<1>1. UNCHANGED <<rows, conflicts, resolve>> /\ UNCHANGED passVars
  BY DEF OtherDevice, Tick, worldFrame
<1>2. KeepsRows /\ KeepsConflicts
  BY <1>1, SameRows, SameConflicts
<1>3. KeepsRecords /\ KeepsNew
  <2>1. CASE Tick
    BY <2>1, SameRecords DEF Tick
  <2>2. ASSUME NEW r \in FreshElsewhere, NEW c \in Contents, records' = Stored(r, c, 0)
        PROVE  KeepsRecords /\ KeepsNew
    <3>1. r \in RecordId /\ ~(r <= MaxRecords)
      BY FreshIds
    <3>2. (\A q \in RecordId \ {r} : records'[q] = records[q]) /\ HasRecord(records', r)
      BY <2>2, <3>1, StoredRecords DEF Typed, TableTypes, OtherTypes
    <3>3. QED
      BY <3>1, <3>2, WritesRecord
  <2>3. ASSUME NEW r \in RecordId, NEW c \in Contents, Live(records, r),
               records' = Stored(r, c, records[r].version)
        PROVE  KeepsRecords /\ KeepsNew
    <3>1. records[r].version \in Nat
      BY RecordValues DEF Typed, TableTypes
    <3>2. (\A q \in RecordId \ {r} : records'[q] = records[q]) /\ HasRecord(records', r)
      BY <2>3, <3>1, StoredRecords DEF Typed, TableTypes, OtherTypes
    <3>3. QED
      BY <2>3, <3>2, WritesRecord DEF Live
  <2>4. ASSUME NEW r \in RecordId, Live(records, r),
               records' = [records EXCEPT ![r].deleted = TRUE, ![r].version = @ + 1,
                                          ![r].updated = clock]
        PROVE  KeepsRecords /\ KeepsNew
    <3>1. records[r] \in Record
      BY <2>4, RecordValues DEF Typed, TableTypes, Live
    <3>2. records' = [records EXCEPT ![r] = [records[r] EXCEPT !.deleted = TRUE,
                                          !.version = @ + 1, !.updated = clock]]
      BY <2>4 DEF Typed, TableTypes
    <3>3. (\A q \in RecordId \ {r} : records'[q] = records[q]) /\ HasRecord(records', r)
      BY <3>1, <3>2, DeletedRecord DEF Typed, TableTypes, OtherTypes
    <3>4. QED
      BY <2>4, <3>3, WritesRecord DEF Live
  <2>5. QED
    BY <2>1, <2>2, <2>3, <2>4 DEF OtherDevice
<1>4. QED
  BY <1>1, <1>2, <1>3

(* A step of the pass that treats an element of its phase.                 *)
LEMMA TreatInv ==
    ASSUME CloudInv, Typed, Typed', KeepsRows, KeepsRecords, WorkInv',
           UNCHANGED <<at, items, listed, deletes, paused, conflicts, resolve>>, todo' \subseteq todo,
           at = "tombstones" => \A l \in todo \ todo' : ~HasRow(rows', l)
    PROVE  CloudInv'
<1>1. ConflictInv'
  BY SameConflicts, KeptConflicts DEF CloudInv, ConflictInv, Writing
<1>2. RowsInv' /\ ItemsInv' /\ MissingInv' /\ TombstoneInv'
  BY KeptRows, KeptItems, KeptMissing, KeptTombstones DEF CloudInv
<1>3. QED
  BY <1>1, <1>2 DEF CloudInv

(* What is uploaded without being in the plan as a record that was deleted *)
(* here has no record yet.                                                 *)
LEMMA UploadOf ==
    ASSUME CloudInv, Typed, at = "uploads", NEW l \in todo, HasRow(rows, l), rows[l].cloud # None
    PROVE  /\ l \in RowId /\ Of(rows, l, rows[l].cloud) /\ HasRecord(records, rows[l].cloud)
           /\ rows[l].cloud \in deletes /\ rows[l].cloud \notin paused
<1>1. l \in Uploads /\ l \in RowId /\ HasRow(items, l)
  BY DEF Typed, PassTypes, PhaseInv, Uploads
<1>2. Used(rows, l) /\ HasCloud(rows, l)
  BY <1>1, CloudIds DEF HasCloud
<1>3. items[l].cloud # None
  BY <1>1, <1>2 DEF CloudInv, MissingInv, Unbound, Of, Reading
<1>4. /\ HasCloud(items, l) /\ rows[l].cloud = items[l].cloud
      /\ HasRecord(listed, items[l].cloud)
  BY <1>1, <1>3 DEF CloudInv, ItemsInv, HasCloud, Of
<1>5. items[l].cloud \notin paused /\ ~Planned(items[l].cloud)
  BY <1>1, <1>3 DEF Uploads, Unpaused
<1>6. l \notin Tombstoned
  BY <1>1 DEF CloudInv, TombstoneInv, Writing
<1>7. ~listed[items[l].cloud].deleted
  BY <1>1, <1>4, <1>6 DEF Tombstoned, HasCloud
<1>8. items[l].cloud \in deletes
  BY <1>4, <1>5, <1>7 DEF Planned, Live
<1>9. HasRecord(records, rows[l].cloud)
  BY <1>1, <1>2 DEF CloudInv, RowsInv
<1>10. QED
  BY <1>1, <1>2, <1>4, <1>5, <1>8, <1>9 DEF Of

(* A record that this device creates is new.                               *)
LEMMA UploadNew ==
    ASSUME CloudInv, Typed, NEW r \in FreshRecords
    PROVE  IsNew(r) /\ r \in RecordId /\ r <= MaxRecords /\ ~HasRecord(records, r)
<1>1. r \in RecordId /\ ~HasRecord(records, r) /\ r \in 1..MaxRecords
  BY FreshIds
<1>2. r <= MaxRecords
  BY <1>1, SyncAssumption DEF SyncAssumption
<1>3. ~HasRecord(listed, r) /\ r \notin Paused
  BY <1>1 DEF CloudInv, ItemsInv, ConflictInv
<1>4. \A k \in RowId : HasRow(rows, k) => rows[k].cloud # r
  BY <1>1, Ids DEF CloudInv, RowsInv, HasCloud
<1>5. QED
  BY <1>1, <1>2, <1>3, <1>4 DEF IsNew

(* What the pass reads and plans.                                          *)
LEMMA ReadingInv ==
    ASSUME CloudInv, Typed, Typed', UNCHANGED <<resolve, clock>>,
           BeginDrain \/ ListItems \/ ListRecords \/ NextPhase \/ MakePlan
    PROVE  CloudInv'
<1>1. UNCHANGED <<rows, records, conflicts, resolve>>
  BY DEF BeginDrain, ListItems, ListRecords, NextPhase, MakePlan
<1>2. KeepsRows /\ KeepsRecords /\ KeepsConflicts
  BY <1>1, SameRows, SameRecords, SameConflicts
<1>3. RowsInv'
  BY <1>2, KeptRows DEF CloudInv
<1>4. /\ Paused' \subseteq Paused
      /\ \A r \in Paused' : Of(rows', conflicts'[r].row, r) /\ HasRecord(records', r)
      /\ resolve' # None /\ resolve'.step # "clear" =>
                  /\ Of(rows', resolve'.row, resolve'.record)
                  /\ HasRecord(records', resolve'.record)
  BY <1>2, KeptConflicts DEF CloudInv
<1> USE DEF CloudInv
<1>5. CASE BeginDrain
  <2>1. at' = "items" /\ UNCHANGED <<items, listed>>
    BY <1>5 DEF BeginDrain
  <2>2. ItemsInv'
    BY <1>1, <2>1 DEF ItemsInv, HasCloud, Of, Used, HasRow, HasRecord
  <2>3. MissingInv' /\ TombstoneInv' /\ WorkInv' /\ ConflictInv'
    BY <1>4, <2>1 DEF MissingInv, TombstoneInv, WorkInv, ConflictInv, Reading, Writing
  <2>4. QED
    BY <1>3, <2>2, <2>3
<1>6. CASE ListItems
  <2>1. at' = "records" /\ UNCHANGED listed
        /\ items' = [l \in RowId |-> IF HasRow(rows, l) THEN rows[l] ELSE NoRow]
    BY <1>6 DEF ListItems
  <2>2. \A l \in RowId : /\ HasRow(items', l) <=> HasRow(rows, l)
                         /\ HasRow(rows, l) => items'[l] = rows[l]
    BY <2>1 DEF HasRow, NoRow
  <2>3. ItemsInv'
    BY <1>1, <2>1, <2>2, CloudIds DEF ItemsInv, RowsInv, HasCloud, Of, HasRecord
  <2>4. MissingInv'
    BY <1>1, <2>1, <2>2, CloudIds DEF MissingInv, Reading, Writing, HasCloud, Unbound, Of
  <2>5. TombstoneInv' /\ WorkInv' /\ ConflictInv'
    BY <1>4, <2>1 DEF TombstoneInv, WorkInv, ConflictInv, Writing
  <2>6. QED
    BY <1>3, <2>3, <2>4, <2>5
<1>7. CASE ListRecords
  <2>1. at = "records" /\ at' = "deletes" /\ listed' = records /\ UNCHANGED <<items, work>>
        /\ work.step = "none"
    <3>1. at = "records" /\ at' = "deletes" /\ listed' = records /\ UNCHANGED <<items, work>>
      BY <1>7 DEF ListRecords
    <3>2. QED
      BY <3>1, WorkCases DEF Typed, PassTypes, PhaseInv, Fits
  <2>2. ItemsInv'
    BY <1>1, <2>1 DEF ItemsInv, HasCloud, Of, Used, HasRow, HasRecord
  <2>3. MissingInv'
    BY <1>1, <2>1 DEF MissingInv, Reading, Writing, HasCloud, Unbound, Of, Used, HasRow
  <2>4. TombstoneInv' /\ WorkInv' /\ ConflictInv'
    BY <1>4, <2>1 DEF TombstoneInv, WorkInv, ConflictInv, Writing
  <2>5. QED
    BY <1>3, <2>2, <2>3, <2>4
<1>8. CASE NextPhase
  <2>1. /\ <<at, at'>> \in {<<"deletes", "tombstones">>, <<"tombstones", "plan">>, <<"uploads", "cloud">>,
                            <<"cloud", "local">>, <<"local", "downloads">>, <<"downloads", "marks">>,
                            <<"marks", "conflicts">>}
        /\ todo = {} /\ work' = NoWork /\ todo' = TodoOf(at')
        /\ UNCHANGED <<items, listed, deletes, paused>>
    BY <1>8 DEF NextPhase, PhaseAfter
  <2>2. ItemsInv'
    BY <1>1, <2>1 DEF ItemsInv, HasCloud, Of, Used, HasRow, HasRecord
  <2>3. MissingInv'
    BY <1>1, <2>1 DEF MissingInv, Reading, Writing, HasCloud, Unbound, Of, Used, HasRow, HasRecord
  <2>4. TombstoneInv'
    <3>1. Tombstoned' = Tombstoned
      BY <2>1, PlanKept
    <3>2. todo' = Tombstoned \/ at' # "tombstones"
      BY <2>1 DEF TodoOf
    <3>3. QED
      BY <1>1, <2>1, <3>1, <3>2 DEF TombstoneInv, Writing, HasRow
  <2>5. WorkInv'
    BY <2>1 DEF WorkInv, NoWork
  <2>6. ConflictInv'
    BY <1>4, <2>1 DEF ConflictInv, Writing
  <2>7. QED
    BY <1>3, <2>2, <2>3, <2>4, <2>5, <2>6
<1>9. CASE MakePlan
  <2>1. /\ at = "plan" /\ at' = "uploads" /\ paused' = Paused
        /\ UNCHANGED <<items, listed, deletes, work>>
    BY <1>9 DEF MakePlan
  <2>2. work.step = "none"
    BY <2>1, WorkCases DEF Typed, PassTypes, PhaseInv, Fits
  <2>3. ItemsInv'
    BY <1>1, <2>1 DEF ItemsInv, HasCloud, Of, Used, HasRow, HasRecord
  <2>4. MissingInv'
    BY <1>1, <2>1 DEF MissingInv, Reading, Writing, HasCloud, Unbound, Of, Used, HasRow, HasRecord
  <2>5. TombstoneInv'
    BY <1>1, <2>1 DEF TombstoneInv, Writing, HasRow, Tombstoned, HasRecord
  <2>6. WorkInv'
    BY <2>1, <2>2 DEF WorkInv
  <2>7. ConflictInv'
    BY <1>4, <2>1 DEF ConflictInv, Writing
  <2>8. QED
    BY <1>3, <2>3, <2>4, <2>5, <2>6, <2>7
<1>10. QED
  BY <1>5, <1>6, <1>7, <1>8, <1>9

(* What the pass writes.                                                   *)
LEMMA WritingInv ==
    ASSUME CloudInv, Typed, Typed', UNCHANGED resolve, PassStep,
           ~(BeginDrain \/ ListItems \/ ListRecords \/ NextPhase \/ MakePlan)
    PROVE  CloudInv'
<1>1. RowsOK(rows) /\ clock \in Time /\ records \in [RecordId -> Record \cup {NoRecord}]
  BY DEF Typed, TableTypes, OtherTypes
<1>2. work \in WorkType /\ PassTypes
  BY DEF Typed, PassTypes
<1>3. CASE FinishDrain /\ UNCHANGED <<rows, records, conflicts>>
  BY <1>3, EndedInv, SameRows, SameRecords, SameConflicts
<1>4. CASE EndPass \/ Abort
  BY <1>3, <1>4 DEF EndPass, Abort
\* A step that writes no row and no record, of another phase than the uploads.
<1>5. ASSUME UNCHANGED <<rows, records, conflicts, passFrame>>, todo' \subseteq todo,
             at # "tombstones", WorkInv'
      PROVE  CloudInv'
  BY <1>5, TreatInv, SameRows, SameRecords DEF passFrame
\* A step that writes the row of its record.
<1>6. ASSUME UNCHANGED <<records, conflicts, passFrame>>, todo' \subseteq todo,
             at # "tombstones", WorkInv',
             NEW l \in RowId, NEW r \in RecordId, Of(rows, l, r),
             \A k \in RowId \ {l} : rows'[k] = rows[k],
             HasRow(rows', l) <=> HasRow(rows, l),
             HasRow(rows, l) => rows'[l].cloud = r,
             ~HasRow(rows, l) => rows' = rows
      PROVE  CloudInv'
  <2>1. Used(rows', l)
    BY <1>6 DEF Of, Used, HasRow, NoRow
  <2>2. KeepsRows
    BY <1>6, <2>1, WritesRow
  <2>3. QED
    BY <1>6, <2>2, TreatInv, SameRecords DEF passFrame
<1>7. ASSUME NEW l \in RowId, HasCloud(items, l)
      PROVE  /\ Of(rows, l, items[l].cloud) /\ HasRecord(records, items[l].cloud)
             /\ items[l].cloud \in RecordId
  BY <1>7, CloudIds DEF CloudInv, ItemsInv
<1>8. ASSUME at \in {"cloud", "local"}, work.step # "none"
      PROVE  /\ HasCloud(items, work.row) /\ work.record = items[work.row].cloud
             /\ work.record \notin paused /\ work.row \in RowId /\ work.record \in RecordId
             /\ Of(rows, work.row, work.record) /\ HasRecord(records, work.record)
  <2>1. work.step \in {"check", "write", "stamp", "mark"}
    BY <1>2, <1>8, WorkCases DEF PassTypes, PhaseInv, Fits
  <2>2. work.row \in RowId
    BY <1>2, <2>1, WorkCases
  <2>3. QED
    BY <1>7, <1>8, <2>2 DEF CloudInv, WorkInv
<1>9. CASE CheckDelete /\ ~Abort
  <2>1. at = "deletes" /\ UNCHANGED <<rows, records, conflicts, passFrame>> /\ todo' \subseteq todo
    BY <1>9 DEF CheckDelete, PassIs, Take
  <2>2. WorkInv'
    BY <2>1 DEF passFrame, WorkInv
  <2>3. QED
    BY <1>5, <2>1, <2>2
<1>10. CASE WriteTombstone
  <2>1. at = "deletes" /\ work.step = "tombstone" /\ UNCHANGED <<rows, conflicts, todo, passFrame>>
        /\ records' = [records EXCEPT ![work.record] =
              [work.found EXCEPT !.deleted = TRUE, !.version = @ + 1, !.updated = clock]]
    BY <1>10 DEF WriteTombstone, PassIs
  <2>2. work.record \in RecordId /\ work.found \in Record
    BY <1>2, <2>1, WorkCases
  <2>3. KeepsRecords
    BY <1>1, <2>1, <2>2, DeletedRecord, WritesRecord
  <2>4. WorkInv'
    BY <2>1 DEF passFrame, WorkInv
  <2>5. QED
    BY <2>1, <2>3, <2>4, TreatInv, SameRows DEF passFrame
<1>11. CASE DeleteTombstoned
  <2>1. PICK l \in todo : /\ rows' = [rows EXCEPT ![l] = GoneRow] /\ todo' = todo \ {l}
                          /\ at = "tombstones" /\ UNCHANGED <<records, conflicts, work, passFrame>>
    BY <1>11 DEF DeleteTombstoned, PassIs
  <2>2. \A k \in RowId : rows'[k] = IF k = l THEN GoneRow ELSE rows[k]
    BY <1>1, <2>1 DEF RowsOK
  <2>3. l \in RowId
    BY <1>2, <2>1 DEF PassTypes, PhaseInv, TodoOf, Tombstoned
  <2>4. GoneRow # NoRow /\ GoneRow.content = None
    BY DEF GoneRow, NoRow
  <2>5. KeepsRows
    BY <2>2, <2>4 DEF KeepsRows, KeepsRow, Used, HasRow
  <2>6. \A k \in todo \ todo' : ~HasRow(rows', k)
    BY <2>1, <2>2, <2>3, <2>4 DEF HasRow
  <2>7. WorkInv'
    BY <2>1 DEF passFrame, WorkInv
  <2>8. QED
    BY <2>1, <2>5, <2>6, <2>7, TreatInv, SameRecords DEF passFrame
<1>12. CASE ExportUpload /\ ~Abort
  <2>1. PICK l \in todo :
            /\ HasRow(rows, l) /\ at = "uploads"
            /\ \E r \in IF rows[l].cloud = None THEN FreshRecords ELSE {rows[l].cloud} :
                /\ Take(l, [step |-> "write", row |-> l, record |-> r, content |-> rows[l].content,
                            version |-> records[r].version])
                /\ UNCHANGED <<rows, records, conflicts, passFrame>>
    BY <1>12 DEF ExportUpload, PassIs
  <2>2. PICK r \in IF rows[l].cloud = None THEN FreshRecords ELSE {rows[l].cloud} :
            /\ work' = [step |-> "write", row |-> l, record |-> r, content |-> rows[l].content,
                        version |-> records[r].version]
            /\ todo' = todo \ {l} /\ UNCHANGED <<rows, records, conflicts, passFrame>>
    BY <2>1 DEF Take
  <2>3. work'.row = l /\ work'.record = r /\ work'.step = "write" /\ l \notin todo'
    BY <2>2
  <2>4. at' = at /\ deletes' = deletes /\ paused' = paused /\ listed' = listed
        /\ rows' = rows /\ records' = records /\ conflicts' = conflicts
    BY <2>2 DEF passFrame
  <2>5. l \in RowId
    BY <1>2, <2>1 DEF PassTypes, PhaseInv, Uploads
  <2>6. CASE rows[l].cloud # None
    <3>1. /\ Of(rows, l, r) /\ HasRecord(records, r)
          /\ r \in deletes /\ r \notin paused
      BY <2>1, <2>2, <2>6, UploadOf
    <3>2. WorkInv'
      BY <2>1, <2>3, <2>4, <3>1 DEF WorkInv
    <3>3. QED
      BY <1>5, <2>1, <2>2, <3>2
  <2>7. CASE rows[l].cloud = None
    <3>1. IsNew(r) /\ r \in RecordId /\ r <= MaxRecords /\ ~HasRecord(records, r)
      BY <2>2, <2>7, UploadNew
    <3>2. IsNew(r)'
      BY <2>4, <3>1 DEF IsNew, Paused
    <3>3. Unbound(rows, l)
      BY <2>1, <2>5, <2>7, CloudIds DEF Unbound, Of
    <3>4. WorkInv'
      BY <2>1, <2>3, <2>4, <3>1, <3>2, <3>3 DEF WorkInv
    <3>5. QED
      BY <1>5, <2>1, <2>2, <3>4
  <2>8. QED
    BY <2>6, <2>7
<1>13. CASE ExportCloudUpdate /\ ~Abort
  <2>1. PICK l \in todo :
            /\ HasRow(rows, l) /\ rows[l].cloud # None /\ at = "cloud" /\ todo' = todo \ {l}
            /\ work' = [step |-> "check", row |-> l, record |-> rows[l].cloud,
                        content |-> rows[l].content]
            /\ UNCHANGED <<rows, records, conflicts, passFrame>>
    BY <1>13 DEF ExportCloudUpdate, PassIs, Take
  <2>2. l \in RowId /\ HasCloud(items, l) /\ items[l].cloud \notin paused
    BY <1>2, <2>1, TodoRows
  <2>3. rows[l].cloud = items[l].cloud
    BY <1>7, <2>1, <2>2 DEF Of
  <2>4. WorkInv'
    BY <2>1, <2>2, <2>3 DEF WorkInv, passFrame
  <2>5. QED
    BY <1>5, <2>1, <2>4
<1>14. CASE CheckCloudUpdate /\ ~Abort
  <2>1. /\ work' = [step |-> "write", row |-> work.row, record |-> work.record,
                    content |-> work.content, version |-> records[work.record].version]
        /\ at = "cloud" /\ work.step = "check" /\ UNCHANGED <<rows, records, conflicts, todo, passFrame>>
    BY <1>14 DEF CheckCloudUpdate, PassIs
  <2>2. WorkInv'
    BY <1>8, <2>1 DEF WorkInv, passFrame
  <2>3. QED
    BY <1>5, <2>1, <2>2
<1>15. CASE WriteRecord
  <2>1. /\ records' = Stored(work.record, work.content, work.version)
        /\ work' = [step |-> "mark", row |-> work.row, record |-> work.record, second |-> clock]
        /\ at \in {"uploads", "cloud"} /\ work.step = "write"
        /\ UNCHANGED <<rows, conflicts, todo, passFrame>>
    BY <1>15 DEF WriteRecord
  <2>2. /\ work.row \in RowId /\ work.record \in RecordId
        /\ work.content \in Contents /\ work.version \in Nat
    BY <1>2, <2>1, WorkCases
  <2>3. KeepsRecords /\ HasRecord(records', work.record)
    BY <1>1, <2>1, <2>2, StoredRecords, WritesRecord
  <2>4. work'.row = work.row /\ work'.record = work.record /\ work'.step = "mark"
    BY <2>1
  <2>5. UNCHANGED <<at, items, listed, deletes, paused, todo, rows, conflicts>>
    BY <2>1 DEF passFrame
  <2>6. WorkInv'
    <3>1. CASE at = "cloud"
      BY <1>8, <2>1, <2>4, <2>5, <3>1 DEF WorkInv
    <3>2. CASE at = "uploads"
      <4>1. work.row \notin todo
        BY <2>1, <3>2 DEF CloudInv, WorkInv
      <4>2. CASE Of(rows, work.row, work.record) /\ work.record \in deletes /\ work.record \notin paused
        BY <2>3, <2>4, <2>5, <3>2, <4>1, <4>2 DEF WorkInv
      <4>3. CASE Unbound(rows, work.row) /\ IsNew(work.record) /\ work.record <= MaxRecords
        <5>1. IsNew(work.record)'
          BY <2>4, <2>5, <4>3 DEF IsNew, Paused
        <5>2. QED
          BY <2>3, <2>4, <2>5, <3>2, <4>1, <4>3, <5>1 DEF WorkInv
      <4>4. QED
        BY <2>1, <3>2, <4>2, <4>3 DEF CloudInv, WorkInv
    <3>3. QED
      BY <2>1, <3>1, <3>2
  <2>7. QED
    BY <2>1, <2>3, <2>5, <2>6, TreatInv, SameRows
<1>16. CASE MarkWritten
  <2>1. /\ rows' = Marked(work.row, work.record, work.second) /\ work' = NoWork
        /\ at \in {"uploads", "cloud", "local"} /\ work.step = "mark"
        /\ UNCHANGED <<records, conflicts, todo, passFrame>>
    BY <1>16 DEF MarkWritten, Done
  <2>2. work.row \in RowId /\ work.record \in RecordId /\ work.second \in Time
    BY <1>2, <2>1, WorkCases
  <2>3. /\ \A k \in RowId \ {work.row} : rows'[k] = rows[k]
        /\ HasRow(rows', work.row) <=> HasRow(rows, work.row)
        /\ HasRow(rows, work.row) => rows'[work.row].cloud = work.record
        /\ ~HasRow(rows, work.row) => rows' = rows
    BY <1>1, <2>1, <2>2, MarkedRows
  <2>4. WorkInv'
    BY <2>1 DEF WorkInv, NoWork
  <2>5. CASE Of(rows, work.row, work.record)
    BY <1>6, <2>1, <2>2, <2>3, <2>4, <2>5
  <2>6. CASE ~HasRow(rows, work.row)
    BY <1>5, <2>1, <2>3, <2>4, <2>6
  <2>7. CASE ~Of(rows, work.row, work.record) /\ HasRow(rows, work.row)
    <3> DEFINE l == work.row
               r == work.record
    <3>1. /\ at = "uploads" /\ l \notin todo /\ Unbound(rows, l) /\ IsNew(r)
          /\ HasRecord(records, r)
      BY <1>8, <2>1, <2>7 DEF CloudInv, WorkInv
    <3>2. UNCHANGED <<at, items, listed, deletes, paused, todo, records, conflicts>>
      BY <2>1 DEF passFrame
    <3>3. rows[l].cloud = None /\ HasRow(rows', l) /\ rows'[l].cloud = r
      BY <2>3, <2>7, <3>1 DEF Unbound, Of
    <3> HIDE DEF l, r
    <3>4. l \in RowId /\ r \in RecordId /\ HasRow(rows, l)
          /\ \A k \in RowId \ {l} : rows'[k] = rows[k]
      BY <2>2, <2>3, <2>7 DEF l, r
    <3>5. ASSUME NEW k \in RowId, NEW q \in RecordId, Of(rows, k, q)
          PROVE  k # l /\ Of(rows', k, q)
      <4>1. k # l
        BY <3>3, <3>4, <3>5, Ids DEF Of
      <4>2. QED
        BY <3>4, <3>5, <4>1 DEF Of, Used, HasRow
    <3>6. \A k \in RowId : Used(rows, k) => Used(rows', k)
      BY <3>3, <3>4 DEF Used, HasRow, NoRow
    <3>7. RowsInv'
      <4>1. ASSUME NEW k \in RowId, HasCloud(rows', k), rows'[k].cloud = r
            PROVE  k = l
        BY <3>1, <3>4, <4>1 DEF IsNew, HasCloud, HasRow
      <4>2. ASSUME NEW k \in RowId \ {l}
            PROVE  HasCloud(rows', k) <=> HasCloud(rows, k)
        BY <3>4 DEF HasCloud, HasRow
      <4>3. \A j, k \in RowId : HasCloud(rows', j) /\ HasCloud(rows', k)
                /\ rows'[j].cloud = rows'[k].cloud => j = k
        BY <3>3, <3>4, <4>1, <4>2 DEF CloudInv, RowsInv
      <4>4. \A k \in RowId : HasCloud(rows', k) => HasRecord(records', rows'[k].cloud)
        BY <3>1, <3>2, <3>3, <3>4, <4>2 DEF CloudInv, RowsInv
      <4>5. QED
        BY <4>3, <4>4 DEF RowsInv
    <3>8. ItemsInv'
      BY <1>7, <3>1, <3>2, <3>5, <3>6 DEF CloudInv, ItemsInv, HasCloud, HasRow, HasRecord
    <3>9. MissingInv'
      <4>1. ASSUME NEW k \in RowId, HasCloud(rows', k), HasRecord(listed', rows'[k].cloud)
            PROVE  HasCloud(items', k)
        <5>1. k # l
          BY <3>1, <3>2, <3>3, <4>1 DEF IsNew
        <5>2. QED
          BY <3>1, <3>2, <3>4, <4>1, <5>1 DEF CloudInv, MissingInv, Writing, Reading, HasCloud, HasRow, HasRecord
      <4>2. ASSUME NEW k \in RowId, HasRow(items', k), items'[k].cloud = None, k \in todo'
            PROVE  Unbound(rows', k)
        <5>1. k # l
          BY <3>1, <3>2, <4>2
        <5>2. Unbound(rows, k)
          BY <3>1, <3>2, <4>2 DEF CloudInv, MissingInv, HasRow
        <5>3. QED
          BY <3>4, <5>1, <5>2 DEF Unbound, Of, Used, HasRow
      <4>3. QED
        BY <3>1, <3>2, <4>1, <4>2 DEF MissingInv, Writing, Reading
    <3>10. TombstoneInv'
      <4>1. Tombstoned' = Tombstoned
        BY <3>2, PlanKept
      <4>2. ASSUME NEW k \in RowId, ~HasRow(rows, k)
            PROVE  ~HasRow(rows', k)
        BY <3>4, <4>2 DEF HasRow
      <4>3. QED
        BY <3>1, <3>2, <4>1, <4>2 DEF CloudInv, TombstoneInv, Tombstoned, Writing
    <3>11. ConflictInv'
      <4>1. Paused' = Paused
        BY <3>2 DEF Paused
      <4>2. ASSUME NEW q \in Paused'
            PROVE  Of(rows', conflicts'[q].row, q) /\ HasRecord(records', q)
        <5>1. q \in RecordId /\ conflicts[q].row \in RowId
          BY <4>1, <4>2, CloudIds
        <5>2. Of(rows, conflicts[q].row, q) /\ HasRecord(records, q)
          BY <4>1, <4>2 DEF CloudInv, ConflictInv
        <5>3. QED
          BY <3>2, <3>5, <5>1, <5>2
      <4>3. resolve' # None /\ resolve'.step # "clear" =>
                Of(rows', resolve'.row, resolve'.record) /\ HasRecord(records', resolve'.record)
        BY <3>2, <3>5, CloudIds DEF CloudInv, ConflictInv
      <4>4. QED
        BY <3>1, <3>2, <4>1, <4>2, <4>3 DEF CloudInv, ConflictInv, Writing
    <3>12. QED
      BY <2>4, <3>7, <3>8, <3>9, <3>10, <3>11 DEF CloudInv
  <2>8. QED
    BY <2>5, <2>6, <2>7
<1>17. CASE UpdateRow /\ ~Abort
  <2>1. PICK l \in todo :
            /\ at = "local" /\ HasRow(rows, l) /\ todo' = todo \ {l}
            /\ rows' = Overwritten(l, items[l].cloud, listed[items[l].cloud])
            /\ work' = [step |-> "stamp", row |-> l, record |-> items[l].cloud]
            /\ UNCHANGED <<records, conflicts, passFrame>>
    BY <1>17 DEF UpdateRow, PassIs, Take
  <2>2. /\ l \in RowId /\ items[l].cloud \in RecordId /\ listed[items[l].cloud] \in Record
        /\ HasCloud(items, l) /\ items[l].cloud \notin paused
    BY <1>2, <2>1, TodoRows
  <2>3. /\ \A k \in RowId \ {l} : rows'[k] = rows[k]
        /\ HasRow(rows', l) /\ rows'[l].cloud = items[l].cloud
    BY <1>1, <2>1, <2>2, OverwrittenRows
  <2>4. WorkInv'
    BY <2>1, <2>2 DEF WorkInv, passFrame
  <2>5. QED
    BY <1>6, <1>7, <2>1, <2>2, <2>3, <2>4
<1>18. CASE StampRow
  <2>1. /\ at = "local" /\ work.step = "stamp"
        /\ rows' = Stamped(work.row, work.record, listed[work.record])
        /\ work' = [step |-> "mark", row |-> work.row, record |-> work.record,
                    second |-> listed[work.record].updated]
        /\ UNCHANGED <<records, conflicts, todo, passFrame>>
    BY <1>18 DEF StampRow, PassIs
  <2>2. /\ work.row \in RowId /\ work.record \in RecordId /\ Of(rows, work.row, work.record)
        /\ HasCloud(items, work.row) /\ work.record = items[work.row].cloud /\ work.record \notin paused
    BY <1>8, <2>1
  <2>3. listed[work.record] \in Record
    BY <1>2, <2>1, <2>2, RecordValues DEF PassTypes, PhaseInv, Fits
  <2>4. /\ \A k \in RowId \ {work.row} : rows'[k] = rows[k]
        /\ HasRow(rows', work.row) <=> HasRow(rows, work.row)
        /\ HasRow(rows, work.row) => rows'[work.row].cloud = work.record
        /\ ~HasRow(rows, work.row) => rows' = rows
    BY <1>1, <2>1, <2>2, <2>3, StampedRows
  <2>5. WorkInv'
    BY <2>1, <2>2 DEF WorkInv, passFrame
  <2>6. QED
    BY <1>6, <2>1, <2>2, <2>4, <2>5
<1>19. CASE InsertRow
  <2>1. PICK r \in todo, l \in FreshRows :
            /\ at = "downloads" /\ rows' = Overwritten(l, r, listed[r]) /\ todo' = todo \ {r}
            /\ UNCHANGED <<records, conflicts, work, passFrame>>
    BY <1>19 DEF InsertRow, PassIs
  <2>2. /\ l \in RowId /\ rows[l] = NoRow
        /\ r \in RecordId /\ listed[r] \in Record /\ r \in Downloads /\ HasRecord(listed, r)
    BY <1>2, <2>1, TodoDownloads, FreshIds DEF Downloads, Planned, Live
  <2>3. /\ \A k \in RowId \ {l} : rows'[k] = rows[k]
        /\ HasRow(rows', l) /\ rows'[l].cloud = r
    BY <1>1, <2>1, <2>2, OverwrittenRows
  <2>4. UNCHANGED <<at, items, listed, deletes, paused, records, conflicts>>
    BY <2>1 DEF passFrame
  <2>5. ~Used(rows, l) /\ ~HasRow(rows, l)
    BY <2>2 DEF Used, HasRow, NoRow
  <2>6. ASSUME NEW k \in RowId, HasCloud(rows, k)
        PROVE  rows[k].cloud # r
    <3>1. SUFFICES ASSUME rows[k].cloud = r PROVE FALSE
      OBVIOUS
    <3>2. HasCloud(items, k)
      BY <2>1, <2>2, <2>6, <3>1 DEF CloudInv, MissingInv, Writing, Reading
    <3>3. items[k].cloud = r
      BY <1>7, <2>6, <3>1, <3>2 DEF Of, HasCloud
    <3>4. QED
      BY <2>2, <3>2, <3>3 DEF Downloads, HasCloud
  <2>7. ASSUME NEW k \in RowId, Used(rows, k)
        PROVE  k # l /\ rows'[k] = rows[k]
    BY <2>3, <2>5, <2>7
  <2>8. RowsInv'
    <3>1. \A k \in RowId \ {l} : HasCloud(rows', k) <=> HasCloud(rows, k)
      BY <2>3 DEF HasCloud, HasRow
    <3>2. \A j, k \in RowId : HasCloud(rows', j) /\ HasCloud(rows', k)
              /\ rows'[j].cloud = rows'[k].cloud => j = k
      BY <2>3, <2>6, <3>1 DEF CloudInv, RowsInv
    <3>3. HasRecord(records, r)
      BY <2>2 DEF CloudInv, ItemsInv
    <3>4. \A k \in RowId : HasCloud(rows', k) => HasRecord(records', rows'[k].cloud)
      BY <2>3, <2>4, <3>1, <3>3 DEF CloudInv, RowsInv
    <3>5. QED
      BY <3>2, <3>4 DEF RowsInv
  <2>9. ItemsInv'
    BY <2>4, <2>7 DEF CloudInv, ItemsInv, HasCloud, HasRow, HasRecord, Of, Used
  <2>10. MissingInv'
    <3>1. ASSUME NEW k \in RowId, HasCloud(rows', k), HasRecord(listed', rows'[k].cloud)
          PROVE  HasCloud(items', k) \/ rows'[k].cloud \notin todo'
      <4>1. CASE k = l
        BY <2>1, <2>3, <4>1
      <4>2. CASE k # l
        BY <2>1, <2>3, <2>4, <3>1, <4>2 DEF CloudInv, MissingInv, Writing, Reading, HasCloud,
           HasRow, HasRecord
      <4>3. QED
        BY <4>1, <4>2
    <3>2. QED
      BY <2>1, <2>4, <3>1 DEF MissingInv, Writing, Reading
  <2>11. TombstoneInv'
    <3>1. Tombstoned' = Tombstoned
      BY <2>4, PlanKept
    <3>2. ASSUME NEW k \in Tombstoned
          PROVE  ~HasRow(rows', k)
      <4>1. k \in RowId /\ Used(rows, k) /\ ~HasRow(rows, k)
        BY <2>1 DEF CloudInv, TombstoneInv, ItemsInv, Tombstoned, Writing
      <4>2. QED
        BY <2>7, <4>1 DEF HasRow
    <3>3. QED
      BY <2>1, <2>4, <3>1, <3>2 DEF TombstoneInv
  <2>12. ConflictInv'
    <3>1. ASSUME NEW k \in RowId, NEW q, Of(rows, k, q)
          PROVE  Of(rows', k, q)
      BY <2>7, <3>1 DEF Of, Used, HasRow
    <3>2. Paused' = Paused
      BY <2>4 DEF Paused
    <3>3. ASSUME NEW q \in Paused'
          PROVE  Of(rows', conflicts'[q].row, q) /\ HasRecord(records', q)
      BY <2>4, <3>1, <3>2, <3>3, CloudIds DEF CloudInv, ConflictInv
    <3>4. resolve' # None /\ resolve'.step # "clear" =>
              Of(rows', resolve'.row, resolve'.record) /\ HasRecord(records', resolve'.record)
      BY <2>4, <3>1, CloudIds DEF CloudInv, ConflictInv
    <3>5. QED
      BY <2>1, <2>4, <3>2, <3>3, <3>4 DEF CloudInv, ConflictInv, Writing
  <2>13. WorkInv'
    BY <2>1, <2>4 DEF WorkInv
  <2>14. QED
    BY <2>8, <2>9, <2>10, <2>11, <2>12, <2>13 DEF CloudInv
<1>20. CASE MarkEqual
  <2>1. PICK l \in todo :
            /\ at = "marks" /\ rows' = Marked(l, items[l].cloud, items[l].updated)
            /\ todo' = todo \ {l} /\ UNCHANGED <<records, conflicts, work, passFrame>>
    BY <1>20 DEF MarkEqual, PassIs
  <2>2. /\ l \in RowId /\ items[l].cloud \in RecordId /\ items[l].updated \in Time
        /\ HasCloud(items, l)
    BY <1>2, <2>1, TodoRows
  <2>3. /\ \A k \in RowId \ {l} : rows'[k] = rows[k]
        /\ HasRow(rows', l) <=> HasRow(rows, l)
        /\ HasRow(rows, l) => rows'[l].cloud = items[l].cloud
        /\ ~HasRow(rows, l) => rows' = rows
    BY <1>1, <2>1, <2>2, MarkedRows
  <2>4. WorkInv'
    BY <2>1 DEF WorkInv, passFrame
  <2>5. QED
    BY <1>6, <1>7, <2>1, <2>2, <2>3, <2>4
<1>21. CASE PauseRecord
  <2>1. PICK l \in todo :
            /\ at = "conflicts" /\ todo' = todo \ {l} /\ UNCHANGED <<rows, records, work, passFrame>>
            /\ conflicts' = [conflicts EXCEPT ![items[l].cloud] =
                                [row |-> l, remote |-> listed[items[l].cloud]]]
    BY <1>21 DEF PauseRecord, PassIs
  <2>2. l \in RowId /\ items[l].cloud \in RecordId /\ HasCloud(items, l)
    BY <1>2, <2>1, TodoRows
  <2>3. Of(rows, l, items[l].cloud) /\ HasRecord(records, items[l].cloud)
    BY <1>7, <2>2
  <2>4. UNCHANGED <<at, items, listed, deletes, paused, rows, records>>
    BY <2>1 DEF passFrame
  <2>5. \A q \in RecordId : conflicts'[q] = IF q = items[l].cloud
                                THEN [row |-> l, remote |-> listed[items[l].cloud]] ELSE conflicts[q]
    BY <2>1 DEF Typed, TableTypes
  <2>6. ConflictInv'
    <3>1. ASSUME NEW q \in Paused'
          PROVE  Of(rows', conflicts'[q].row, q) /\ HasRecord(records', q)
      <4>1. CASE q = items[l].cloud
        BY <2>2, <2>3, <2>4, <2>5, <4>1
      <4>2. CASE q # items[l].cloud
        BY <2>4, <2>5, <3>1, <4>2 DEF CloudInv, ConflictInv, Paused
      <4>3. QED
        BY <4>1, <4>2
    <3>2. QED
      BY <2>1, <2>4, <3>1 DEF CloudInv, ConflictInv, Writing
  <2>7. RowsInv' /\ ItemsInv'
    BY <2>4, KeptRows, KeptItems, SameRows, SameRecords DEF CloudInv
  <2>8. MissingInv' /\ TombstoneInv'
    BY <2>1, <2>4, KeptMissing, KeptTombstones, SameRows DEF CloudInv
  <2>9. WorkInv'
    BY <2>1, <2>4 DEF WorkInv
  <2>10. QED
    BY <2>6, <2>7, <2>8, <2>9 DEF CloudInv
<1>22. QED
  BY <1>4, <1>9, <1>10, <1>11, <1>12, <1>13, <1>14, <1>15, <1>16, <1>17, <1>18, <1>19, <1>20, <1>21
     DEF PassStep

LEMMA CloudStep ==
    ASSUME SyncInv, [Next]_vars, ~reverted'
    PROVE  CloudInv'
<1>1. Typed /\ Typed'
  BY StepTypes DEF SyncInv
<1>2. CloudInv
  BY DEF SyncInv, Next, vars, ScanRequested, Drain, PassFails, Create, OpenForm, SaveForm, Delete,
         StartResolve, ResolverStep, resolverFrame, OtherDevice, Tick, worldFrame, Crash
<1>3. ConflictInv
  BY <1>2 DEF CloudInv
<1>4. ASSUME KeepsRows /\ KeepsRecords /\ KeepsNew /\ KeepsConflicts /\ UNCHANGED passVars
      PROVE  CloudInv'
  BY <1>1, <1>2, <1>4, KeptInv
<1>5. CASE UNCHANGED vars
  <2>1. UNCHANGED <<rows, records, conflicts, resolve>> /\ UNCHANGED passVars
    BY <1>5 DEF vars, passVars
  <2>2. QED
    BY <1>4, <2>1, SameRows, SameRecords, SameConflicts
<1>6. CASE ScanRequested \/ Create \/ OpenForm \/ SaveForm \/ Delete
  BY <1>1, <1>4, <1>6, UserKeeps
<1>7. CASE StartResolve \/ ResolverStep
  BY <1>1, <1>3, <1>4, <1>7, ResolverKeeps
<1>8. CASE OtherDevice \/ Tick
  BY <1>1, <1>4, <1>8, WorldKeeps
<1>9. CASE Drain
  <2>1. UNCHANGED <<resolve, clock>>
    BY <1>9 DEF Drain, boundVars
  <2>2. CASE BeginDrain \/ ListItems \/ ListRecords \/ NextPhase \/ MakePlan
    BY <1>1, <1>2, <2>1, <2>2, ReadingInv
  <2>3. CASE ~(BeginDrain \/ ListItems \/ ListRecords \/ NextPhase \/ MakePlan)
    BY <1>1, <1>2, <1>9, <2>1, <2>3, WritingInv DEF Drain
  <2>4. QED
    BY <2>2, <2>3
<1>10. CASE PassFails \/ Crash
  <2>1. FinishDrain /\ UNCHANGED <<rows, records, conflicts>> /\ (resolve' = resolve \/ resolve' = None)
    BY <1>10 DEF PassFails, Crash
  <2>2. KeepsConflicts
    BY <2>1 DEF KeepsConflicts
  <2>3. QED
    BY <1>1, <1>2, <2>1, <2>2, EndedInv, SameRows, SameRecords
<1>11. QED
  BY <1>5, <1>6, <1>7, <1>8, <1>9, <1>10 DEF Next

LEMMA InitCloud ==
    ASSUME Init
    PROVE  CloudInv
<1>1. Typed
  BY InitTypes
<1>2. \A l \in RowId : HasRow(rows, l) => l = 1 /\ rows[l].cloud = 1
  <2>1. ASSUME NEW row, row.cloud = 1, rows = First(NoRows, row), NEW l \in RowId, HasRow(rows, l)
        PROVE  l = 1 /\ rows[l].cloud = 1
    <3>1. rows[l] = IF l = 1 THEN row ELSE NoRow
      BY <2>1 DEF First, NoRows
    <3>2. QED
      BY <2>1, <3>1 DEF HasRow, NoRow
  <2>2. /\ Synced.cloud = 1
        /\ [Synced EXCEPT !.content = Edited, !.updated = 2].cloud = 1
    BY DEF Synced
  <2>3. rows = NoRows \/ \E row : row.cloud = 1 /\ rows = First(NoRows, row)
    BY <2>2 DEF Init
  <2>4. QED
    BY <2>1, <2>3, NoTable
<1>3. HasRow(rows, 1) => HasRecord(records, 1)
  <2>1. CASE rows = NoRows
    BY <2>1, Ids, NoTable
  <2>2. CASE rows # NoRows
    <3>1. Shared \in Record /\ \A c \in Contents :
              [Shared EXCEPT !.content = c, !.version = 2, !.updated = 2] \in Record
      <4>1. Original \in Contents
        BY SyncAssumption DEF Original, SyncAssumption
      <4>2. QED
        BY <4>1, Ids DEF Shared, Record
    <3>2. PICK record \in Record : records = First(NoRecords, record)
      BY <2>2, <3>1 DEF Init
    <3>3. records[1] = record
      BY <3>2, Ids DEF First, NoRecords
    <3>4. QED
      BY <3>3, Ids DEF HasRecord, Record
  <2>3. QED
    BY <2>1, <2>2
<1>4. RowsInv
  BY <1>2, <1>3 DEF RowsInv, HasCloud
<1>5. ItemsInv
  BY NoTable DEF Init, ItemsInv, HasCloud
<1>6. MissingInv /\ TombstoneInv /\ WorkInv
  BY DEF Init, MissingInv, TombstoneInv, WorkInv, Reading, Writing
<1>7. ConflictInv
  BY DEF Init, ConflictInv, Paused, Writing
<1>8. QED
  BY <1>4, <1>5, <1>6, <1>7 DEF CloudInv

(* The inductive invariant of the sync.                                    *)
THEOREM SyncInvariant == Spec => []SyncInv
<1>1. Init => SyncInv
  BY InitTypes, InitCloud DEF SyncInv
<1>2. SyncInv /\ [Next]_vars => SyncInv'
  BY StepTypes, CloudStep DEF SyncInv
<1>3. QED
  BY <1>1, <1>2, PTL DEF Spec

(* No two connections of the device ever belong to the same record, until  *)
(* a form takes a connection its cloud id away.                            *)
THEOREM RecordsHaveOneRow == Spec => []OneRowPerRecord
<1>1. SyncInv => OneRowPerRecord
  BY CloudIds DEF SyncInv, CloudInv, RowsInv, OneRowPerRecord, HasCloud
<1>2. QED
  BY <1>1, SyncInvariant, PTL

-----------------------------------------------------------------------------
(* What a pass may replace.                                                *)

Replaces ==
    OthersIdle /\ ~reverted =>
        /\ \A r \in RecordId : at = "uploads" /\ records'[r] # records[r]
                => ~HasRecord(records, r) \/ r \in deletes
        /\ \A r \in Paused :
                /\ records'[r] = records[r] \/ records'[r].deleted
                /\ \A l \in RowId : HasRow(rows', l) /\ rows'[l].cloud = r
                        => rows'[l].content = rows[l].content

\* The steps that are not the user's, another device's or a resolution's.
LEMMA IdleSteps ==
    ASSUME Typed, [Next]_vars, OthersIdle
    PROVE  \/ UNCHANGED <<rows, records>>
           \/ PassStep
<1> USE DEF OthersIdle
<1>1. changes \in Nat /\ remotes \in Nat
  BY DEF Typed, OtherTypes
<1>2. ~Create /\ ~Delete /\ ~OtherDevice
  <2>1. changes' # changes + 1 /\ remotes' # remotes + 1
    BY <1>1
  <2>2. ~Changes
    BY <2>1 DEF Changes
  <2>3. ~OtherDevice
    BY <2>1 DEF OtherDevice
  <2>4. QED
    BY <2>2, <2>3 DEF Create, Delete
<1>3. ~(SaveForm /\ rows' # rows)
  BY <1>1 DEF SaveForm, Changes
<1>4. ~ResolverStep
  <2>1. SUFFICES ASSUME ResolverStep PROVE FALSE
    OBVIOUS
  <2>2. resolve # None /\ resolve' = resolve
    BY <2>1 DEF ResolverStep, ApplyCloud, StampCloud, ExportLocal, CheckLocal, WriteLocal,
                MarkResolved, ClearConflict, ResolverIs
  <2>3. resolve \in ResolveType
    BY <2>2 DEF Typed, OtherTypes
  <2>4. ~ResolverStops /\ ~ClearConflict
    BY <2>2 DEF ResolverStops, ClearConflict
  <2>5. resolve'.step = resolve.step
    BY <2>2
  <2>6. ~ApplyCloud /\ ~CheckLocal
    BY <2>3, <2>4, <2>5, ResolveCases DEF ApplyCloud, CheckLocal, ResolverIs
  <2>7. ~StampCloud /\ ~ExportLocal /\ ~WriteLocal /\ ~MarkResolved
    BY <2>4, <2>5 DEF StampCloud, ExportLocal, WriteLocal, MarkResolved, ResolverIs
  <2>8. QED
    BY <2>1, <2>4, <2>6, <2>7 DEF ResolverStep
<1>5. CASE ScanRequested \/ PassFails \/ OpenForm \/ StartResolve \/ Tick \/ Crash \/ UNCHANGED vars
  BY <1>5 DEF ScanRequested, PassFails, OpenForm, StartResolve, Tick, Crash, userFrame, worldFrame, vars
<1>6. CASE SaveForm
  BY <1>3, <1>6 DEF SaveForm, userFrame
<1>7. CASE Drain
  BY <1>7 DEF Drain, BeginDrain
<1>8. QED
  BY <1>2, <1>4, <1>5, <1>6, <1>7 DEF Next

LEMMA ReplacesStep ==
    ASSUME SyncInv, [Next]_vars
    PROVE  Replaces
<1> SUFFICES ASSUME OthersIdle, ~reverted
             PROVE  /\ \A r \in RecordId : at = "uploads" /\ records'[r] # records[r]
                            => ~HasRecord(records, r) \/ r \in deletes
                    /\ \A r \in Paused :
                            /\ records'[r] = records[r] \/ records'[r].deleted
                            /\ \A l \in RowId : HasRow(rows', l) /\ rows'[l].cloud = r
                                    => rows'[l].content = rows[l].content
  BY DEF Replaces
<1> DEFINE Goal == /\ \A r \in RecordId : at = "uploads" /\ records'[r] # records[r]
                            => ~HasRecord(records, r) \/ r \in deletes
                   /\ \A r \in Paused :
                            /\ records'[r] = records[r] \/ records'[r].deleted
                            /\ \A l \in RowId : HasRow(rows', l) /\ rows'[l].cloud = r
                                    => rows'[l].content = rows[l].content
<1>1. Typed /\ CloudInv /\ PassTypes
  BY DEF SyncInv, Typed
<1>2. RowsOK(rows) /\ clock \in Time /\ records \in [RecordId -> Record \cup {NoRecord}] /\ work \in WorkType
  BY <1>1 DEF Typed, TableTypes, OtherTypes, PassTypes
<1>3. CASE UNCHANGED <<rows, records>>
  BY <1>3
\* Rows that keep what they hold.
<1>4. ASSUME records' = records, \A l \in RowId : HasRow(rows', l) => rows'[l].content = rows[l].content
      PROVE  Goal
  BY <1>4
\* A row of a record for which no conflict waits is written.
<1>5. ASSUME records' = records, NEW l \in RowId, \A k \in RowId \ {l} : rows'[k] = rows[k],
             rows'[l].cloud \notin Paused
      PROVE  Goal
  BY <1>5
\* A record for which no conflict waits is written.
<1>6. ASSUME rows' = rows, NEW r \in RecordId, \A q \in RecordId \ {r} : records'[q] = records[q],
             r \notin Paused \/ records'[r].deleted,
             at = "uploads" => ~HasRecord(records, r) \/ r \in deletes
      PROVE  Goal
  BY <1>6 DEF Paused, HasRow
<1>7. at \in Writing => Paused \subseteq paused
  BY <1>1 DEF CloudInv, ConflictInv
<1>8. CASE PassStep
  <2>1. CASE WriteTombstone
    <3>1. at = "deletes" /\ work.step = "tombstone" /\ rows' = rows
          /\ records' = [records EXCEPT ![work.record] =
                [work.found EXCEPT !.deleted = TRUE, !.version = @ + 1, !.updated = clock]]
      BY <2>1 DEF WriteTombstone, PassIs
    <3>2. work.record \in RecordId /\ work.found \in Record
      BY <1>2, <3>1, WorkCases
    <3>3. (\A q \in RecordId \ {work.record} : records'[q] = records[q]) /\ records'[work.record].deleted
      BY <1>2, <3>1, <3>2, DeletedRecord
    <3>4. QED
      BY <1>6, <3>1, <3>2, <3>3
  <2>2. CASE WriteRecord
    <3>1. /\ records' = Stored(work.record, work.content, work.version) /\ rows' = rows
          /\ at \in {"uploads", "cloud"} /\ work.step = "write"
      BY <2>2 DEF WriteRecord
    <3>2. /\ work.record \in RecordId /\ work.content \in Contents /\ work.version \in Nat
      BY <1>2, <3>1, WorkCases
    <3>3. \A q \in RecordId \ {work.record} : records'[q] = records[q]
      BY <1>2, <3>1, <3>2, StoredRecords
    <3>4. work.record \notin Paused
      BY <1>1, <1>7, <3>1 DEF CloudInv, WorkInv, IsNew, Writing
    <3>5. at = "uploads" => ~HasRecord(records, work.record) \/ work.record \in deletes
      BY <1>1, <3>1 DEF CloudInv, WorkInv
    <3>6. QED
      BY <1>6, <3>1, <3>2, <3>3, <3>4, <3>5
  <2>3. CASE DeleteTombstoned
    <3>1. PICK l : rows' = [rows EXCEPT ![l] = GoneRow]
      BY <2>3 DEF DeleteTombstoned
    <3>2. records' = records
      BY <2>3 DEF DeleteTombstoned
    <3>3. \A k \in RowId : rows'[k] = IF k = l THEN GoneRow ELSE rows[k]
      BY <1>2, <3>1 DEF RowsOK
    <3>4. GoneRow.content = None
      BY DEF GoneRow, NoRow
    <3>5. \A k \in RowId : HasRow(rows', k) => rows'[k].content = rows[k].content
      BY <3>3, <3>4 DEF HasRow
    <3>6. QED
      BY <1>4, <3>2, <3>5
  <2>4. CASE MarkWritten
    <3>1. /\ rows' = Marked(work.row, work.record, work.second) /\ work.step = "mark"
          /\ records' = records
      BY <2>4 DEF MarkWritten
    <3>2. work.row \in RowId /\ work.record \in RecordId /\ work.second \in Time
      BY <1>2, <3>1, WorkCases
    <3>3. \A k \in RowId : HasRow(rows', k) => rows'[k].content = rows[k].content
      BY <1>2, <3>1, <3>2, MarkedRows
    <3>4. QED
      BY <1>4, <3>1, <3>3
  <2>5. CASE UpdateRow /\ rows' # rows
    <3>1. PICK l \in todo :
            /\ at = "local" /\ records' = records
            /\ rows' = Overwritten(l, items[l].cloud, listed[items[l].cloud])
      BY <2>5 DEF UpdateRow, PassIs, Abort
    <3>2. /\ l \in RowId /\ items[l].cloud \in RecordId /\ listed[items[l].cloud] \in Record
          /\ items[l].cloud \notin paused
      BY <1>1, <3>1, TodoRows
    <3>3. /\ \A k \in RowId \ {l} : rows'[k] = rows[k]
          /\ rows'[l].cloud = items[l].cloud
      BY <1>2, <3>1, <3>2, OverwrittenRows
    <3>4. items[l].cloud \notin Paused
      BY <1>7, <3>1, <3>2 DEF Writing
    <3>5. QED
      BY <1>5, <3>1, <3>2, <3>3, <3>4
  <2>6. CASE StampRow
    <3>1. /\ rows' = Stamped(work.row, work.record, listed[work.record]) /\ work.step = "stamp"
          /\ records' = records
      BY <2>6 DEF StampRow, PassIs
    <3>2. work.row \in RowId /\ work.record \in RecordId
      BY <1>2, <3>1, WorkCases
    <3>3. listed[work.record] \in Record
      BY <1>1, <3>1, <3>2, RecordValues DEF PassTypes, PhaseInv, Fits
    <3>4. \A k \in RowId : HasRow(rows', k) => rows'[k].content = rows[k].content
      BY <1>2, <3>1, <3>2, <3>3, StampedRows
    <3>5. QED
      BY <1>4, <3>1, <3>4
  <2>7. CASE InsertRow
    <3>1. PICK r \in todo, l \in FreshRows :
            at = "downloads" /\ rows' = Overwritten(l, r, listed[r]) /\ records' = records
      BY <2>7 DEF InsertRow, PassIs
    <3>2. l \in RowId /\ r \in RecordId /\ listed[r] \in Record /\ r \notin paused
      BY <1>1, <3>1, TodoDownloads, FreshIds DEF Downloads, Unpaused
    <3>3. (\A k \in RowId \ {l} : rows'[k] = rows[k]) /\ rows'[l].cloud = r
      BY <1>2, <3>1, <3>2, OverwrittenRows
    <3>4. r \notin Paused
      BY <1>7, <3>1, <3>2 DEF Writing
    <3>5. QED
      BY <1>5, <3>1, <3>2, <3>3, <3>4
  <2>8. CASE MarkEqual
    <3>1. PICK l \in todo : at = "marks" /\ rows' = Marked(l, items[l].cloud, items[l].updated)
                            /\ records' = records
      BY <2>8 DEF MarkEqual, PassIs
    <3>2. l \in RowId /\ items[l].cloud \in RecordId /\ items[l].updated \in Time
      BY <1>1, <3>1, TodoRows
    <3>3. \A k \in RowId : HasRow(rows', k) => rows'[k].content = rows[k].content
      BY <1>2, <3>1, <3>2, MarkedRows
    <3>4. QED
      BY <1>4, <3>1, <3>3
  <2>9. CASE /\ ~WriteTombstone /\ ~WriteRecord /\ ~DeleteTombstoned /\ ~MarkWritten
             /\ ~(UpdateRow /\ rows' # rows) /\ ~StampRow /\ ~InsertRow /\ ~MarkEqual
    <3>1. rows' = rows /\ records' = records
      BY <1>8, <2>9 DEF PassStep, ListItems, ListRecords, NextPhase, MakePlan, EndPass, CheckDelete,
         ExportUpload, ExportCloudUpdate, CheckCloudUpdate, UpdateRow, PauseRecord, Abort
    <3>2. QED
      BY <1>3, <3>1
  <2>10. QED
    BY <2>1, <2>2, <2>3, <2>4, <2>5, <2>6, <2>7, <2>8, <2>9
<1>9. QED
  BY <1>1, <1>3, <1>8, IdleSteps

(* A pass replaces nothing it does not know of: an upload writes only a    *)
(* record that is missing or that this device deleted, and nothing of a    *)
(* record is written while a conflict waits for the user, save a deletion. *)
THEOREM PassesOverwriteNothing == Spec => NothingOverwritten
<1>1. SyncInv /\ [Next]_vars => [Replaces]_vars
  BY ReplacesStep
<1>2. Spec => [][Replaces]_vars
  BY <1>1, SyncInvariant, PTL DEF Spec
<1>3. QED
  BY <1>2 DEF NothingOverwritten, Replaces

=============================================================================
