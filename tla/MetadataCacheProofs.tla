------------------------ MODULE MetadataCacheProofs -------------------------
(***************************************************************************)
(* That an invalidation which no lookup overlaps leaves nothing old, for   *)
(* every set of keys, lookups, statements and bounds.                      *)
(*                                                                         *)
(* The invariant says of a key that was never exposed: it is looked up or  *)
(* handled by a statement, never both; what a lookup holds is current; and *)
(* a statement that changed it still has it before itself or has emptied   *)
(* both copies already.                                                    *)
(***************************************************************************)
EXTENDS MetadataCache, TLAPS

EventKind ==
    {"CreateTable", "AlterTable", "DropTable", "DropTables", "TruncateTable",
     "RenameTable", "RenameTables", "CreateDatabase", "DropDatabase",
     "CreateIndex", "DropIndex", "CreateView", "DropView",
     "CreateFunction", "DropFunction", "CreateProcedure", "DropProcedure",
     "CreateTrigger", "CreateTriggerUnnamed", "DropTrigger",
     "CreateSequence", "DropSequence", "CreateSchema", "DropSchema"}

(* The keys a statement changes and its event's plan does not reach: what  *)
(* lives in a schema that is dropped and the databases one may be among,   *)
(* the indexes and triggers of a table the event does not name, the lists  *)
(* of what belongs to a table, the columns of a view.                      *)
Missed(event) ==
    CASE event = "CreateTable" -> {"sequences"}
      [] event \in {"AlterTable", "DropTable"} -> {"triggers", "sequences"}
      [] event = "DropTables" -> OfTable \cup {"triggers", "sequences"}
      [] event = "RenameTable" -> {"triggers"}
      [] event = "RenameTables" -> OfTable \cup {"triggers"}
      [] event = "CreateSchema" -> {"databases"}
      [] event = "DropSchema" -> EntryType \ {"schemas"}
      [] event = "DropIndex" -> {"indexes"}
      [] event \in {"CreateView", "DropView"} -> {"columns"}
      [] event \in {"CreateTriggerUnnamed", "DropTrigger"} -> {"table_triggers"}
      [] OTHER -> {}

Covers(plan, k) == \E i \in DOMAIN plan : k \in plan[i]
IsPlan(plan) == plan \in Seq(SUBSET EntryType) /\ plan # <<>>

Made == 1 .. Len(versionOf)
Copy == {NoEntry} \cup Made

ReaderOK(r) ==
    /\ reader[r].pc \in {"idle", "load", "insert", "remove", "query", "set", "save"}
    /\ reader[r].pc # "idle" => reader[r].key \in Key
    /\ reader[r].pc \in {"insert", "save"} => reader[r].entry \in Made
    /\ reader[r].pc = "set" => reader[r].version \in Nat

WriterOK(w) ==
    /\ writer[w].pc \in {"idle", "memory", "file"}
    /\ writer[w].pc # "idle" => writer[w].changed \subseteq Key /\ IsPlan(writer[w].plan)

TypeInv ==
    /\ schema \in [Key -> Nat]
    /\ versionOf \in Seq(Nat)
    /\ memory \in [Key -> Copy] /\ file \in [Key -> Copy]
    /\ DOMAIN reader = Reader /\ \A r \in Reader : ReaderOK(r)
    /\ DOMAIN writer = Writer /\ \A w \in Writer : WriterOK(w)

Apart == \A k \in Key \ exposed : Handling(k) = {} \/ Reading(k) = {}

Holds(r, k) ==
    /\ reader[r].pc \in {"insert", "save"} => versionOf[reader[r].entry] = schema[k]
    /\ reader[r].pc = "set" => reader[r].version = schema[k]

LookupsCurrent == \A k \in Key \ exposed : \A r \in Reading(k) : Holds(r, k)

Emptied(k) == memory[k] = NoEntry /\ file[k] = NoEntry

Tends(w, k) ==
    \/ Emptied(k)
    \/ writer[w].pc = "memory" /\ Covers(writer[w].plan, k)
    \/ writer[w].pc = "file" /\ k \in Leaving(w) /\ memory[k] = NoEntry
    \/ writer[w].pc = "file" /\ Covers(Tail(writer[w].plan), k)

StatementsTend == \A k \in Key \ exposed : \A w \in Handling(k) : Tends(w, k)

CleanInv == TypeInv /\ Apart /\ LookupsCurrent /\ StatementsTend /\ CleanInvalidation

-----------------------------------------------------------------------------
(* A key that is left to do is the next one, or left after it.             *)
LEMMA HeadOrTail ==
    ASSUME NEW plan, IsPlan(plan)
    PROVE  /\ Tail(plan) \in Seq(SUBSET EntryType)
           /\ Head(plan) \subseteq EntryType
           /\ \A k : Covers(plan, k) => k \in Head(plan) \/ Covers(Tail(plan), k)
<1>1. plan \in Seq(SUBSET EntryType) /\ plan # <<>>
  BY DEF IsPlan
<1>2. Tail(plan) \in Seq(SUBSET EntryType) /\ Head(plan) \subseteq EntryType
  BY <1>1
<1>3. ASSUME NEW k, NEW i \in DOMAIN plan, k \in plan[i], k \notin Head(plan)
      PROVE  Covers(Tail(plan), k)
  <2>1. i \in 2 .. Len(plan)
    BY <1>1, <1>3
  <2>2. i - 1 \in DOMAIN Tail(plan) /\ Tail(plan)[i - 1] = plan[i]
    BY <1>1, <2>1
  <2>3. QED BY <1>3, <2>2 DEF Covers
<1>4. QED BY <1>2, <1>3 DEF Covers

(* What is put after a list is covered, what was in it, and nothing else.  *)
LEMMA Appended ==
    ASSUME NEW plan, IsPlan(plan), NEW more, IsPlan(more)
    PROVE  /\ IsPlan(plan \o more)
           /\ \A k : Covers(plan \o more, k) <=> Covers(plan, k) \/ Covers(more, k)
<1>1. plan \in Seq(SUBSET EntryType) /\ more \in Seq(SUBSET EntryType)
  BY DEF IsPlan
<1>2. plan \o more \in Seq(SUBSET EntryType) /\ Len(plan \o more) = Len(plan) + Len(more)
  BY <1>1
<1>3. Len(plan) > 0
  BY <1>1 DEF IsPlan
<1>4. ASSUME NEW k, NEW i \in DOMAIN plan, k \in plan[i]
      PROVE  Covers(plan \o more, k)
  <2>1. i \in DOMAIN (plan \o more) /\ (plan \o more)[i] = plan[i]
    BY <1>1, <1>2
  <2>2. QED BY <1>4, <2>1 DEF Covers
<1>5. ASSUME NEW k, NEW i \in DOMAIN more, k \in more[i]
      PROVE  Covers(plan \o more, k)
  <2>1. Len(plan) + i \in DOMAIN (plan \o more) /\ (plan \o more)[Len(plan) + i] = more[i]
    BY <1>1, <1>2
  <2>2. QED BY <1>5, <2>1 DEF Covers
<1>6. ASSUME NEW k, NEW i \in DOMAIN (plan \o more), k \in (plan \o more)[i]
      PROVE  Covers(plan, k) \/ Covers(more, k)
  <2>1. CASE i <= Len(plan)
    <3>1. i \in DOMAIN plan /\ (plan \o more)[i] = plan[i]
      BY <1>1, <1>2, <2>1
    <3>2. QED BY <1>6, <3>1 DEF Covers
  <2>2. CASE i > Len(plan)
    <3>1. i - Len(plan) \in DOMAIN more /\ (plan \o more)[i] = more[i - Len(plan)]
      BY <1>1, <1>2, <2>2
    <3>2. QED BY <1>6, <3>1 DEF Covers
  <2>3. QED BY <1>1, <1>2, <2>1, <2>2
<1>7. QED BY <1>2, <1>3, <1>4, <1>5, <1>6 DEF IsPlan, Covers

(* A plan of one step, and one of two.                                     *)
LEMMA Steps ==
    ASSUME NEW S \in SUBSET EntryType, NEW T \in SUBSET EntryType
    PROVE  /\ IsPlan(<<S>>) /\ \A k : Covers(<<S>>, k) <=> k \in S
           /\ IsPlan(<<S, T>>) /\ \A k : Covers(<<S, T>>, k) <=> k \in S \cup T
BY DEF IsPlan, Covers

(* The steps of a table, alone and before the list of tables.              *)
LEMMA TableSteps ==
    LET list == <<{"tables"}>>
    IN  /\ OfTable = {"columns", "indexes", "foreign_keys", "table_triggers", "checks"}
        /\ \A plan \in {TableKeys \o list, TableKeys \o OtherTable \o list,
                         OtherTable \o TableKeys \o list} :
              IsPlan(plan) /\ \A k : Covers(plan, k) <=> k \in OfTable \cup {"tables"}
        /\ \A plan \in {OtherTable \o list, OtherTable \o OtherTable \o list} :
              IsPlan(plan) /\ \A k : Covers(plan, k) <=> k = "tables"
<1> DEFINE list == <<{"tables"}>>
<1>1. /\ DOMAIN TableKeys = 1 .. 5
      /\ TableKeys[1] = {"columns"} /\ TableKeys[2] = {"indexes"}
      /\ TableKeys[3] = {"foreign_keys"} /\ TableKeys[4] = {"table_triggers"}
      /\ TableKeys[5] = {"checks"}
  BY DEF TableKeys
<1>2. OfTable = {"columns", "indexes", "foreign_keys", "table_triggers", "checks"}
  BY <1>1 DEF OfTable
<1>3. IsPlan(TableKeys) /\ \A k : Covers(TableKeys, k) <=> k \in OfTable
  <2>1. IsPlan(TableKeys)
    BY DEF IsPlan, TableKeys, EntryType, InDatabase
  <2>2. \A k : Covers(TableKeys, k) <=> k \in OfTable
    BY DEF Covers, OfTable
  <2>3. QED BY <2>1, <2>2
<1>4. IsPlan(OtherTable) /\ \A k : ~Covers(OtherTable, k)
  BY DEF IsPlan, Covers, OtherTable
<1>5. IsPlan(list) /\ \A k : Covers(list, k) <=> k = "tables"
  <2>1. {"tables"} \in SUBSET EntryType
    BY DEF EntryType, InDatabase
  <2>2. QED BY <2>1, Steps
<1> HIDE DEF list
<1>6. /\ IsPlan(TableKeys \o OtherTable) /\ IsPlan(OtherTable \o TableKeys)
      /\ IsPlan(OtherTable \o OtherTable)
      /\ \A k : /\ Covers(TableKeys \o OtherTable, k) <=> k \in OfTable
                /\ Covers(OtherTable \o TableKeys, k) <=> k \in OfTable
                /\ ~Covers(OtherTable \o OtherTable, k)
  BY <1>3, <1>4, Appended
<1>7. ASSUME NEW plan \in {TableKeys \o list, (TableKeys \o OtherTable) \o list,
                          (OtherTable \o TableKeys) \o list}
      PROVE  IsPlan(plan) /\ \A k : Covers(plan, k) <=> k \in OfTable \cup {"tables"}
  <2>1. PICK first \in {TableKeys, TableKeys \o OtherTable, OtherTable \o TableKeys} :
             plan = first \o list
    BY <1>7
  <2>2. IsPlan(first) /\ \A k : Covers(first, k) <=> k \in OfTable
    BY <1>3, <1>6
  <2>3. QED BY <1>5, <2>1, <2>2, Appended
<1>8. ASSUME NEW plan \in {OtherTable \o list, (OtherTable \o OtherTable) \o list}
      PROVE  IsPlan(plan) /\ \A k : Covers(plan, k) <=> k = "tables"
  <2>1. PICK first \in {OtherTable, OtherTable \o OtherTable} : plan = first \o list
    BY <1>8
  <2>2. IsPlan(first) /\ \A k : ~Covers(first, k)
    BY <1>4, <1>6
  <2>3. QED BY <1>5, <2>1, <2>2, Appended
<1>9. QED BY <1>2, <1>7, <1>8 DEF list

(* The plans are plans, and of the keys a statement changes each of its    *)
(* plans reaches exactly those that are not in Missed.                     *)
LEMMA PlansCover ==
    ASSUME NEW event \in EventKind, NEW plan \in KeysOf(event)
    PROVE  /\ IsPlan(plan)
           /\ \A k \in Changed(event) : Covers(plan, k) <=> k \notin Missed(event)
<1> DEFINE list == <<{"tables"}>>
<1>1. CASE event \in {"CreateTable", "AlterTable", "DropTable", "RenameTable"}
  <2>1. plan \in {TableKeys \o list, TableKeys \o OtherTable \o list,
                 OtherTable \o TableKeys \o list}
    BY <1>1 DEF KeysOf
  <2>2. /\ Changed(event) \subseteq OfTable \cup {"tables"} \cup Missed(event)
        /\ Missed(event) \subseteq {"triggers", "sequences"}
    BY <1>1 DEF Changed, Missed
  <2>3. QED BY <2>1, <2>2, TableSteps
<1>2. CASE event \in {"DropTables", "RenameTables"}
  <2>1. plan \in {OtherTable \o list, OtherTable \o OtherTable \o list}
    BY <1>2 DEF KeysOf
  <2>2. /\ Changed(event) \subseteq {"tables"} \cup Missed(event)
        /\ Missed(event) \subseteq OfTable \cup {"triggers", "sequences"}
    BY <1>2 DEF Changed, Missed
  <2>3. QED BY <2>1, <2>2, TableSteps
<1>3. CASE event = "TruncateTable"
  <2>1. plan \in {TableKeys \o list, OtherTable \o list}
    BY <1>3 DEF KeysOf
  <2>2. Changed(event) \subseteq {"tables"} /\ Missed(event) = {}
    BY <1>3 DEF Changed, Missed
  <2>3. QED BY <2>1, <2>2, TableSteps
<1>4. CASE event \in {"CreateDatabase", "DropDatabase"}
  <2>1. plan = <<{"databases"}, InDatabase>>
    BY <1>4 DEF KeysOf
  <2>2. Changed(event) \subseteq EntryType /\ Missed(event) = {}
    BY <1>4 DEF Changed, Missed
  <2>3. IsPlan(plan) /\ \A k : Covers(plan, k) <=> k \in EntryType
    <3>1. {"databases"} \in SUBSET EntryType /\ InDatabase \in SUBSET EntryType
      BY DEF EntryType
    <3>2. QED BY <2>1, <3>1, Steps DEF EntryType
  <2>4. QED BY <2>2, <2>3
<1>5. CASE event \in {"CreateIndex", "DropIndex"}
  <2>1. plan = IF event = "CreateIndex" THEN <<{"indexes"}>> ELSE <<{}>>
    BY <1>5 DEF KeysOf
  <2>2. /\ Changed(event) \subseteq {"indexes"}
        /\ Missed(event) = IF event = "CreateIndex" THEN {} ELSE {"indexes"}
    BY <1>5 DEF Changed, Missed
  <2>3. IsPlan(plan) /\ \A k : Covers(plan, k) <=> event = "CreateIndex" /\ k = "indexes"
    <3>1. {"indexes"} \in SUBSET EntryType /\ {} \in SUBSET EntryType
      BY DEF EntryType, InDatabase
    <3>2. \A S \in {{"indexes"}, {}} : IsPlan(<<S>>) /\ \A k : Covers(<<S>>, k) <=> k \in S
      BY <3>1, Steps
    <3>3. CASE event = "CreateIndex"
      BY <2>1, <3>2, <3>3
    <3>4. CASE event # "CreateIndex"
      BY <2>1, <3>2, <3>4
    <3>5. QED BY <3>3, <3>4
  <2>4. QED BY <1>5, <2>2, <2>3
<1>6. CASE event \in {"CreateView", "DropView"}
  <2>1. plan = <<{"views"}, {"tables"}>>
    BY <1>6 DEF KeysOf
  <2>2. Changed(event) \subseteq {"views", "tables", "columns"} /\ Missed(event) = {"columns"}
    BY <1>6 DEF Changed, Missed
  <2>3. IsPlan(plan) /\ \A k : Covers(plan, k) <=> k \in {"views", "tables"}
    <3>1. {"views"} \in SUBSET EntryType /\ {"tables"} \in SUBSET EntryType
      BY DEF EntryType, InDatabase
    <3>2. QED BY <2>1, <3>1, Steps
  <2>4. QED BY <2>2, <2>3
<1>7. CASE event \in {"CreateFunction", "DropFunction"}
  <2>1. plan = <<{"functions"}>> /\ Changed(event) \subseteq {"functions"} /\ Missed(event) = {}
    BY <1>7 DEF KeysOf, Changed, Missed
  <2>2. QED BY <2>1, Steps DEF EntryType, InDatabase
<1>8. CASE event \in {"CreateProcedure", "DropProcedure"}
  <2>1. plan = <<{"procedures"}>> /\ Changed(event) \subseteq {"procedures"} /\ Missed(event) = {}
    BY <1>8 DEF KeysOf, Changed, Missed
  <2>2. QED BY <2>1, Steps DEF EntryType, InDatabase
<1>9. CASE event = "CreateTrigger"
  <2>1. plan = <<{"triggers"}, {"table_triggers"}>>
    BY <1>9 DEF KeysOf
  <2>2. Changed(event) \subseteq {"triggers", "table_triggers"} /\ Missed(event) = {}
    BY <1>9 DEF Changed, Missed
  <2>3. IsPlan(plan) /\ \A k : Covers(plan, k) <=> k \in {"triggers", "table_triggers"}
    <3>1. {"triggers"} \in SUBSET EntryType /\ {"table_triggers"} \in SUBSET EntryType
      BY DEF EntryType, InDatabase
    <3>2. QED BY <2>1, <3>1, Steps
  <2>4. QED BY <2>2, <2>3
<1>10. CASE event \in {"CreateTriggerUnnamed", "DropTrigger"}
  <2>1. plan = <<{"triggers"}>>
    BY <1>10 DEF KeysOf
  <2>2. /\ Changed(event) \subseteq {"triggers", "table_triggers"}
        /\ Missed(event) = {"table_triggers"}
    BY <1>10 DEF Changed, Missed
  <2>3. IsPlan(plan) /\ \A k : Covers(plan, k) <=> k = "triggers"
    <3>1. {"triggers"} \in SUBSET EntryType
      BY DEF EntryType, InDatabase
    <3>2. QED BY <2>1, <3>1, Steps
  <2>4. QED BY <2>2, <2>3
<1>11. CASE event \in {"CreateSequence", "DropSequence"}
  <2>1. plan = <<{"sequences"}>> /\ Changed(event) \subseteq {"sequences"} /\ Missed(event) = {}
    BY <1>11 DEF KeysOf, Changed, Missed
  <2>2. QED BY <2>1, Steps DEF EntryType, InDatabase
<1>12. CASE event \in {"CreateSchema", "DropSchema"}
  <2>1. plan = <<{"schemas"}>>
    BY <1>12 DEF KeysOf
  <2>2. /\ Changed(event) \subseteq {"schemas"} \cup Missed(event)
        /\ "schemas" \notin Missed(event)
    BY <1>12 DEF Changed, Missed, EntryType, InDatabase
  <2>3. IsPlan(plan) /\ \A k : Covers(plan, k) <=> k = "schemas"
    <3>1. {"schemas"} \in SUBSET EntryType
      BY DEF EntryType, InDatabase
    <3>2. QED BY <2>1, <3>1, Steps
  <2>4. QED BY <2>2, <2>3
<1>13. QED
  BY <1>1, <1>2, <1>3, <1>4, <1>5, <1>6, <1>7, <1>8, <1>9, <1>10, <1>11, <1>12
  DEF EventKind

(* Nothing is in Missed that the statement leaves as it is.                *)
LEMMA MissedIsChanged ==
    ASSUME NEW event \in EventKind
    PROVE  Key \cap Missed(event) \subseteq Changed(event)
<1>1. CASE event \in {"CreateTable", "AlterTable", "DropTable", "DropTables",
                     "RenameTable", "RenameTables"}
  BY <1>1 DEF Missed, Changed
<1>2. CASE event \in {"CreateSchema", "DropSchema", "DropIndex"}
  BY <1>2 DEF Missed, Changed
<1>3. CASE event \in {"CreateView", "DropView", "CreateTriggerUnnamed", "DropTrigger"}
  BY <1>3 DEF Missed, Changed
<1>4. CASE event \in {"TruncateTable", "CreateDatabase", "DropDatabase", "CreateIndex",
                     "CreateFunction", "DropFunction", "CreateProcedure", "DropProcedure",
                     "CreateTrigger", "CreateSequence", "DropSequence"}
  BY <1>4 DEF Missed
<1>5. QED BY <1>1, <1>2, <1>3, <1>4 DEF EventKind

-----------------------------------------------------------------------------
THEOREM InitClean == Init => CleanInv
<1> SUFFICES ASSUME Init PROVE CleanInv
  OBVIOUS
<1>1. versionOf \in Seq(Nat) /\ \A k \in Key : memory[k] = NoEntry /\ file[k] = NoEntry
  BY DEF Init
<1>2. TypeInv
  BY <1>1 DEF Init, TypeInv, Copy, ReaderOK, WriterOK, Idle
<1>3. Apart /\ LookupsCurrent /\ StatementsTend
  BY DEF Init, Apart, LookupsCurrent, StatementsTend, Reading, Handling, Idle
<1>4. CleanInvalidation
  BY <1>1 DEF CleanInvalidation, Current
<1>5. QED BY <1>2, <1>3, <1>4 DEF CleanInv

(* Whoever looks up a key that was not exposed has it to himself.          *)
LEMMA LookedUp ==
    ASSUME CleanInv, NEW r \in Reader, reader[r].pc # "idle", reader[r].key \notin exposed
    PROVE  /\ reader[r].key \in Key
           /\ r \in Reading(reader[r].key)
           /\ Handling(reader[r].key) = {}
           /\ Holds(r, reader[r].key)
           /\ Current(reader[r].key, file[reader[r].key])
<1>1. reader[r].key \in Key
  BY DEF CleanInv, TypeInv, ReaderOK
<1>2. r \in Reading(reader[r].key)
  BY DEF Reading
<1>3. Handling(reader[r].key) = {}
  BY <1>1, <1>2 DEF CleanInv, Apart
<1>4. QED
  BY <1>1, <1>2, <1>3 DEF CleanInv, LookupsCurrent, CleanInvalidation

LEMMA LoadFromFileClean ==
    ASSUME CleanInv, NEW r \in Reader, LoadFromFile(r)
    PROVE  CleanInv'
<1> USE DEF CleanInv, LoadFromFile
<1>1. TypeInv'
  BY DEF TypeInv, Copy, Made, ReaderOK, WriterOK, Idle, Usable
<1>2. \A k \in Key : Handling(k)' = Handling(k) /\ Reading(k)' \subseteq Reading(k)
  BY DEF TypeInv, Handling, Reading, Idle
<1>3. Apart'
  BY <1>2 DEF Apart
<1>4. LookupsCurrent'
  <2> SUFFICES ASSUME NEW k \in Key \ exposed, NEW q \in Reading(k)' PROVE Holds(q, k)'
    BY DEF LookupsCurrent
  <2>1. q \in Reading(k) /\ Holds(q, k) /\ Current(k, file[k])
    BY <1>2, LookedUp DEF LookupsCurrent, Reading
  <2>2. CASE q # r
    <3>1. reader'[q] = reader[q] /\ schema' = schema /\ versionOf' = versionOf
      BY <2>1, <2>2 DEF TypeInv, Reading
    <3>2. QED BY <2>1, <3>1 DEF Holds
  <2>3. CASE q = r
    <3>1. reader[r].key = k
      BY <2>1, <2>3 DEF Reading
    <3>2. \/ reader'[r] = [pc |-> "query", key |-> k]
          \/ reader'[r] = [pc |-> "remove", key |-> k]
          \/ reader'[r] = [pc |-> "insert", key |-> k, entry |-> file[k]] /\ Usable(file[k])
      <4>1. DOMAIN reader = Reader
        BY DEF TypeInv
      <4>2. CASE reader' = [reader EXCEPT ![r] = [pc |-> "query", key |-> k]]
        BY <4>1, <4>2
      <4>3. CASE reader' = [reader EXCEPT ![r] = [pc |-> "remove", key |-> k]]
        BY <4>1, <4>3
      <4>4. CASE /\ Usable(file[k])
                 /\ reader' = [reader EXCEPT ![r] = [pc |-> "insert", key |-> k,
                                                     entry |-> file[k]]]
        BY <4>1, <4>4
      <4>5. QED BY <3>1, <4>2, <4>3, <4>4
    <3>3. QED BY <2>1, <2>3, <3>2 DEF Holds, Usable, Current
  <2>4. QED BY <2>2, <2>3
<1>5. StatementsTend'
  <2> SUFFICES ASSUME NEW k \in Key \ exposed, NEW w \in Handling(k) PROVE Tends(w, k)'
    BY <1>2 DEF StatementsTend
  <2>1. Tends(w, k) /\ Reading(k) = {}
    BY DEF StatementsTend, Apart
  <2>2. reader[r].key # k
    BY <2>1 DEF Reading
  <2>3. memory'[k] = memory[k] /\ file'[k] = file[k]
    BY <2>2 DEF TypeInv
  <2>4. QED BY <2>1, <2>3 DEF Tends, Emptied, Leaving
<1>6. CleanInvalidation'
  <2> SUFFICES ASSUME NEW k \in Key \ exposed, Handling(k) = {}
               PROVE  Current(k, memory[k])' /\ Current(k, file[k])'
    BY <1>2 DEF CleanInvalidation
  <2>1. Current(k, memory[k]) /\ Current(k, file[k])
    BY DEF CleanInvalidation
  <2>2. reader[r].key = k => Holds(r, k)
    BY LookedUp
  <2>3. QED BY <2>1, <2>2 DEF Current, Holds, TypeInv
<1>7. QED BY <1>1, <1>3, <1>4, <1>5, <1>6

LEMMA InsertLoadedClean ==
    ASSUME CleanInv, NEW r \in Reader, InsertLoaded(r)
    PROVE  CleanInv'
<1> USE DEF CleanInv, InsertLoaded
<1>1. TypeInv'
  BY DEF TypeInv, Copy, Made, ReaderOK, WriterOK, Idle, Usable
<1>2. \A k \in Key : Handling(k)' = Handling(k) /\ Reading(k)' \subseteq Reading(k)
  BY DEF TypeInv, Handling, Reading, Idle
<1>3. Apart'
  BY <1>2 DEF Apart
<1>4. LookupsCurrent'
  <2> SUFFICES ASSUME NEW k \in Key \ exposed, NEW q \in Reading(k)' PROVE Holds(q, k)'
    BY DEF LookupsCurrent
  <2>1. q \in Reading(k) /\ Holds(q, k) /\ Current(k, file[k])
    BY <1>2, LookedUp DEF LookupsCurrent, Reading
  <2>2. QED BY <2>1 DEF Holds, TypeInv, Idle, Usable, Current, Reading
<1>5. StatementsTend'
  <2> SUFFICES ASSUME NEW k \in Key \ exposed, NEW w \in Handling(k) PROVE Tends(w, k)'
    BY <1>2 DEF StatementsTend
  <2>1. Tends(w, k) /\ Reading(k) = {}
    BY DEF StatementsTend, Apart
  <2>2. reader[r].key # k
    BY <2>1 DEF Reading
  <2>3. memory'[k] = memory[k] /\ file'[k] = file[k]
    BY <2>2 DEF TypeInv
  <2>4. QED BY <2>1, <2>3 DEF Tends, Emptied, Leaving
<1>6. CleanInvalidation'
  <2> SUFFICES ASSUME NEW k \in Key \ exposed, Handling(k) = {}
               PROVE  Current(k, memory[k])' /\ Current(k, file[k])'
    BY <1>2 DEF CleanInvalidation
  <2>1. Current(k, memory[k]) /\ Current(k, file[k])
    BY DEF CleanInvalidation
  <2>2. reader[r].key = k => Holds(r, k)
    BY LookedUp
  <2>3. QED BY <2>1, <2>2 DEF Current, Holds, TypeInv
<1>7. QED BY <1>1, <1>3, <1>4, <1>5, <1>6

LEMMA RemoveExpiredClean ==
    ASSUME CleanInv, NEW r \in Reader, RemoveExpired(r)
    PROVE  CleanInv'
<1> USE DEF CleanInv, RemoveExpired
<1>1. TypeInv'
  BY DEF TypeInv, Copy, Made, ReaderOK, WriterOK, Idle, Usable
<1>2. \A k \in Key : Handling(k)' = Handling(k) /\ Reading(k)' \subseteq Reading(k)
  BY DEF TypeInv, Handling, Reading, Idle
<1>3. Apart'
  BY <1>2 DEF Apart
<1>4. LookupsCurrent'
  <2> SUFFICES ASSUME NEW k \in Key \ exposed, NEW q \in Reading(k)' PROVE Holds(q, k)'
    BY DEF LookupsCurrent
  <2>1. q \in Reading(k) /\ Holds(q, k) /\ Current(k, file[k])
    BY <1>2, LookedUp DEF LookupsCurrent, Reading
  <2>2. QED BY <2>1 DEF Holds, TypeInv, Idle, Usable, Current, Reading
<1>5. StatementsTend'
  <2> SUFFICES ASSUME NEW k \in Key \ exposed, NEW w \in Handling(k) PROVE Tends(w, k)'
    BY <1>2 DEF StatementsTend
  <2>1. Tends(w, k) /\ Reading(k) = {}
    BY DEF StatementsTend, Apart
  <2>2. reader[r].key # k
    BY <2>1 DEF Reading
  <2>3. memory'[k] = memory[k] /\ file'[k] = file[k]
    BY <2>2 DEF TypeInv
  <2>4. QED BY <2>1, <2>3 DEF Tends, Emptied, Leaving
<1>6. CleanInvalidation'
  <2> SUFFICES ASSUME NEW k \in Key \ exposed, Handling(k) = {}
               PROVE  Current(k, memory[k])' /\ Current(k, file[k])'
    BY <1>2 DEF CleanInvalidation
  <2>1. Current(k, memory[k]) /\ Current(k, file[k])
    BY DEF CleanInvalidation
  <2>2. reader[r].key = k => Holds(r, k)
    BY LookedUp
  <2>3. QED BY <2>1, <2>2 DEF Current, Holds, TypeInv
<1>7. QED BY <1>1, <1>3, <1>4, <1>5, <1>6

LEMMA QueryDatabaseClean ==
    ASSUME CleanInv, NEW r \in Reader, QueryDatabase(r)
    PROVE  CleanInv'
<1> USE DEF CleanInv, QueryDatabase
<1>1. TypeInv'
  <2>1. reader[r].key \in Key /\ schema[reader[r].key] \in Nat
    BY DEF TypeInv, ReaderOK
  <2>2. ReaderOK(r)'
    BY <2>1 DEF TypeInv, ReaderOK, Idle
  <2>3. \A q \in Reader : q # r => ReaderOK(q)'
    BY DEF TypeInv, ReaderOK, Made
  <2>4. DOMAIN reader' = Reader
    BY DEF TypeInv
  <2>5. \A w \in Writer : WriterOK(w)' <=> WriterOK(w)
    BY DEF WriterOK
  <2>6. Copy' = Copy
    BY DEF Copy, Made
  <2>7. QED BY <2>2, <2>3, <2>4, <2>5, <2>6 DEF TypeInv
<1>2. \A k \in Key : Handling(k)' = Handling(k) /\ Reading(k)' \subseteq Reading(k)
  <2>1. \A q \in Reader : q # r => reader'[q] = reader[q]
    BY DEF TypeInv
  <2>2. reader'[r].pc = "idle" \/ reader'[r].key = reader[r].key
    BY DEF TypeInv, Idle
  <2>3. QED BY <2>1, <2>2 DEF Handling, Reading
<1>3. Apart'
  BY <1>2 DEF Apart
<1>4. LookupsCurrent'
  <2> SUFFICES ASSUME NEW k \in Key \ exposed, NEW q \in Reading(k)' PROVE Holds(q, k)'
    BY DEF LookupsCurrent
  <2>1. q \in Reading(k) /\ Holds(q, k) /\ Current(k, file[k])
    BY <1>2, LookedUp DEF LookupsCurrent, Reading
  <2>2. schema' = schema /\ versionOf' = versionOf
    OBVIOUS
  <2>3. CASE q # r
    <3>1. \A p \in Reader : p # r => reader'[p] = reader[p]
      BY DEF TypeInv
    <3>2. q \in Reader
      BY <2>1 DEF Reading
    <3>3. QED BY <2>1, <2>2, <2>3, <3>1, <3>2 DEF Holds
  <2>4. CASE q = r
    <3>1. reader[r].key = k
      BY <2>1, <2>4 DEF Reading
    <3>2. reader'[r].pc = "set" => reader'[r].version = schema[k]
      BY <3>1 DEF TypeInv, Idle
    <3>3. reader'[r].pc \in {"set", "idle"}
      BY DEF TypeInv, Idle
    <3>4. QED BY <2>2, <2>4, <3>2, <3>3 DEF Holds
  <2>5. QED BY <2>3, <2>4
<1>5. StatementsTend'
  <2> SUFFICES ASSUME NEW k \in Key \ exposed, NEW w \in Handling(k) PROVE Tends(w, k)'
    BY <1>2 DEF StatementsTend
  <2>1. Tends(w, k) /\ Reading(k) = {}
    BY DEF StatementsTend, Apart
  <2>2. reader[r].key # k
    BY <2>1 DEF Reading
  <2>3. memory'[k] = memory[k] /\ file'[k] = file[k]
    BY <2>2 DEF TypeInv
  <2>4. QED BY <2>1, <2>3 DEF Tends, Emptied, Leaving
<1>6. CleanInvalidation'
  <2> SUFFICES ASSUME NEW k \in Key \ exposed, Handling(k) = {}
               PROVE  Current(k, memory[k])' /\ Current(k, file[k])'
    BY <1>2 DEF CleanInvalidation
  <2>1. Current(k, memory[k]) /\ Current(k, file[k])
    BY DEF CleanInvalidation
  <2>2. reader[r].key = k => Holds(r, k)
    BY LookedUp
  <2>3. QED BY <2>1, <2>2 DEF Current, Holds, TypeInv
<1>7. QED BY <1>1, <1>3, <1>4, <1>5, <1>6

LEMMA SaveToFileClean ==
    ASSUME CleanInv, NEW r \in Reader, SaveToFile(r)
    PROVE  CleanInv'
<1> USE DEF CleanInv, SaveToFile
<1>1. TypeInv'
  BY DEF TypeInv, Copy, Made, ReaderOK, WriterOK, Idle, Usable
<1>2. \A k \in Key : Handling(k)' = Handling(k) /\ Reading(k)' \subseteq Reading(k)
  BY DEF TypeInv, Handling, Reading, Idle
<1>3. Apart'
  BY <1>2 DEF Apart
<1>4. LookupsCurrent'
  <2> SUFFICES ASSUME NEW k \in Key \ exposed, NEW q \in Reading(k)' PROVE Holds(q, k)'
    BY DEF LookupsCurrent
  <2>1. q \in Reading(k) /\ Holds(q, k) /\ Current(k, file[k])
    BY <1>2, LookedUp DEF LookupsCurrent, Reading
  <2>2. QED BY <2>1 DEF Holds, TypeInv, Idle, Usable, Current, Reading
<1>5. StatementsTend'
  <2> SUFFICES ASSUME NEW k \in Key \ exposed, NEW w \in Handling(k) PROVE Tends(w, k)'
    BY <1>2 DEF StatementsTend
  <2>1. Tends(w, k) /\ Reading(k) = {}
    BY DEF StatementsTend, Apart
  <2>2. reader[r].key # k
    BY <2>1 DEF Reading
  <2>3. memory'[k] = memory[k] /\ file'[k] = file[k]
    BY <2>2 DEF TypeInv
  <2>4. QED BY <2>1, <2>3 DEF Tends, Emptied, Leaving
<1>6. CleanInvalidation'
  <2> SUFFICES ASSUME NEW k \in Key \ exposed, Handling(k) = {}
               PROVE  Current(k, memory[k])' /\ Current(k, file[k])'
    BY <1>2 DEF CleanInvalidation
  <2>1. Current(k, memory[k]) /\ Current(k, file[k])
    BY DEF CleanInvalidation
  <2>2. reader[r].key = k => Holds(r, k)
    BY LookedUp
  <2>3. QED BY <2>1, <2>2 DEF Current, Holds, TypeInv
<1>7. QED BY <1>1, <1>3, <1>4, <1>5, <1>6

LEMMA SetClean ==
    ASSUME CleanInv, NEW r \in Reader, Set(r)
    PROVE  CleanInv'
<1> USE DEF CleanInv, Set
<1>0. /\ Len(versionOf) + 1 \in Made'
      /\ versionOf'[Len(versionOf) + 1] = reader[r].version
      /\ \A e \in Made : e \in Made' /\ versionOf'[e] = versionOf[e]
  BY DEF TypeInv, Made, ReaderOK
<1>1. TypeInv'
  BY DEF TypeInv, Copy, Made, ReaderOK, WriterOK, Idle, Usable
<1>2. \A k \in Key : Handling(k)' = Handling(k) /\ Reading(k)' \subseteq Reading(k)
  BY DEF TypeInv, Handling, Reading, Idle
<1>3. Apart'
  BY <1>2 DEF Apart
<1>4. LookupsCurrent'
  <2> SUFFICES ASSUME NEW k \in Key \ exposed, NEW q \in Reading(k)' PROVE Holds(q, k)'
    BY DEF LookupsCurrent
  <2>1. q \in Reading(k) /\ Holds(q, k) /\ Current(k, file[k])
    BY <1>2, LookedUp DEF LookupsCurrent, Reading
  <2>2. CASE q # r
    <3>1. reader'[q] = reader[q] /\ schema' = schema
      BY <2>1, <2>2 DEF TypeInv, Reading
    <3>2. reader[q].pc \in {"insert", "save"} => reader[q].entry \in Made
      BY <2>1 DEF TypeInv, ReaderOK, Reading
    <3>3. QED BY <1>0, <2>1, <3>1, <3>2 DEF Holds
  <2>3. CASE q = r
    BY <1>0, <2>1, <2>3 DEF Holds, TypeInv
  <2>4. QED BY <2>2, <2>3
<1>5. StatementsTend'
  <2> SUFFICES ASSUME NEW k \in Key \ exposed, NEW w \in Handling(k) PROVE Tends(w, k)'
    BY <1>2 DEF StatementsTend
  <2>1. Tends(w, k) /\ Reading(k) = {}
    BY DEF StatementsTend, Apart
  <2>2. reader[r].key # k
    BY <2>1 DEF Reading
  <2>3. memory'[k] = memory[k] /\ file'[k] = file[k]
    BY <2>2 DEF TypeInv
  <2>4. QED BY <2>1, <2>3 DEF Tends, Emptied, Leaving
<1>6. CleanInvalidation'
  <2> SUFFICES ASSUME NEW k \in Key \ exposed, Handling(k) = {}
               PROVE  Current(k, memory[k])' /\ Current(k, file[k])'
    BY <1>2 DEF CleanInvalidation
  <2>1. Current(k, memory[k]) /\ Current(k, file[k])
    BY DEF CleanInvalidation
  <2>2. reader[r].key = k => Holds(r, k)
    BY LookedUp
  <2>3. Current(k, memory[k])'
    <3>1. CASE reader[r].key = k
      BY <1>0, <2>2, <3>1 DEF Current, Holds, TypeInv
    <3>2. CASE reader[r].key # k
      BY <1>0, <2>1, <3>2 DEF Current, TypeInv, Copy
    <3>3. QED BY <3>1, <3>2
  <2>4. Current(k, file[k])'
    BY <1>0, <2>1 DEF Current, TypeInv, Copy
  <2>5. QED BY <2>3, <2>4
<1>7. QED BY <1>1, <1>3, <1>4, <1>5, <1>6

-----------------------------------------------------------------------------
LEMMA GetClean ==
    ASSUME CleanInv, NEW r \in Reader, NEW l \in Key, Get(r, l)
    PROVE  CleanInv'
<1> USE DEF CleanInv, Get
<1>1. TypeInv'
  BY DEF TypeInv, Copy, Made, ReaderOK, WriterOK, Idle
<1>2. /\ \A k \in Key : Handling(k)' = Handling(k) /\ (k # l => Reading(k)' = Reading(k))
      /\ Reading(l)' = Reading(l) \cup {r}
      /\ exposed \subseteq exposed'
      /\ l \notin exposed' => Handling(l) = {}
      /\ \A k \in Key : memory'[k] \in {NoEntry, memory[k]}
  <2>1. \A q \in Reader : q # r => reader'[q] = reader[q]
    BY DEF TypeInv
  <2>2. reader[r].pc = "idle" /\ reader'[r] = [pc |-> "load", key |-> l]
    BY DEF TypeInv, Idle
  <2>3. QED BY <2>1, <2>2 DEF Handling, Reading, TypeInv
<1>3. Apart'
  BY <1>2 DEF Apart
<1>4. LookupsCurrent'
  <2> SUFFICES ASSUME NEW k \in Key \ exposed', NEW q \in Reading(k)' PROVE Holds(q, k)'
    BY DEF LookupsCurrent
  <2>1. CASE q = r
    <3>1. reader'[q].pc = "load"
      BY <2>1 DEF TypeInv
    <3>2. QED BY <3>1 DEF Holds
  <2>2. CASE q # r
    <3>1. q \in Reading(k) /\ Holds(q, k)
      BY <1>2, <2>2 DEF LookupsCurrent
    <3>2. reader'[q] = reader[q]
      BY <2>2, <3>1 DEF TypeInv, Reading
    <3>3. QED BY <3>1, <3>2 DEF Holds
  <2>3. QED BY <2>1, <2>2
<1>5. StatementsTend'
  <2> SUFFICES ASSUME NEW k \in Key \ exposed', NEW w \in Handling(k) PROVE Tends(w, k)'
    BY <1>2 DEF StatementsTend
  <2>1. Tends(w, k) /\ memory'[k] \in {NoEntry, memory[k]}
    BY <1>2 DEF StatementsTend
  <2>2. QED BY <2>1 DEF Tends, Emptied, Leaving
<1>6. CleanInvalidation'
  BY <1>2 DEF CleanInvalidation, Current
<1>7. QED BY <1>1, <1>3, <1>4, <1>5, <1>6

(* A copy that goes away, in memory or in a file, hurts no key.            *)
LEMMA LosingCopies ==
    ASSUME CleanInv, exposed \subseteq exposed',
           UNCHANGED <<schema, versionOf, reader, writer>>,
           TypeInv',
           \A k \in Key : memory'[k] \in {NoEntry, memory[k]} /\ file'[k] \in {NoEntry, file[k]}
    PROVE  CleanInv'
<1> USE DEF CleanInv
<1>1. \A k \in Key : Handling(k)' = Handling(k) /\ Reading(k)' = Reading(k)
  BY DEF Handling, Reading
<1>2. Apart' /\ LookupsCurrent'
  BY <1>1 DEF Apart, LookupsCurrent, Holds
<1>3. StatementsTend'
  BY <1>1 DEF StatementsTend, Tends, Emptied, Leaving
<1>4. CleanInvalidation'
  BY <1>1 DEF CleanInvalidation, Current
<1>5. QED BY <1>2, <1>3, <1>4

LEMMA EvictClean ==
    ASSUME CleanInv, NEW l \in Key, Evict(l)
    PROVE  CleanInv'
<1>1. TypeInv'
  BY DEF CleanInv, Evict, TypeInv, Copy, Made, ReaderOK, WriterOK
<1>2. \A k \in Key : memory'[k] \in {NoEntry, memory[k]} /\ file'[k] \in {NoEntry, file[k]}
  BY DEF CleanInv, Evict, TypeInv
<1>3. QED BY <1>1, <1>2, LosingCopies DEF Evict

LEMMA ExpireClean ==
    ASSUME CleanInv, NEW e \in Entry, Expire(e)
    PROVE  CleanInv'
<1>1. TypeInv'
  BY DEF CleanInv, Expire, TypeInv, Copy, Made, ReaderOK, WriterOK
<1>2. QED BY <1>1, LosingCopies DEF Expire

LEMMA RestartClean ==
    ASSUME CleanInv, Restart
    PROVE  CleanInv'
<1> USE DEF CleanInv, Restart
<1>1. TypeInv'
  BY DEF TypeInv, Copy, Made, ReaderOK, WriterOK, Idle
<1>2. \A k \in Key : Handling(k)' = {} /\ Reading(k)' = {}
  BY DEF Handling, Reading, Idle
<1>3. Apart' /\ LookupsCurrent' /\ StatementsTend'
  BY <1>2 DEF Apart, LookupsCurrent, StatementsTend
<1>4. CleanInvalidation'
  <2> SUFFICES ASSUME NEW k \in Key \ exposed'
               PROVE  Current(k, memory[k])' /\ Current(k, file[k])'
    BY DEF CleanInvalidation
  <2>1. Handling(k) = {} /\ file'[k] \in {NoEntry, file[k]} /\ memory'[k] = NoEntry
    BY DEF TypeInv
  <2>2. QED BY <2>1 DEF CleanInvalidation, Current
<1>5. QED BY <1>1, <1>3, <1>4

-----------------------------------------------------------------------------
LEMMA ExecuteClean ==
    ASSUME CleanInv, NEW w \in Writer, NEW event \in EventKind, Key \cap Missed(event) = {},
           Execute(w, event)
    PROVE  CleanInv'
<1> DEFINE changed == Changed(event)
<1>0. changed \subseteq Key /\ Changed(event) = changed
  BY DEF Changed
<1>c. \A plan \in KeysOf(event) \cup {Conservative} :
         IsPlan(plan) /\ \A k \in changed : Covers(plan, k)
  <2>1. IsPlan(Conservative) /\ \A k \in Key : Covers(Conservative, k)
    BY KeyAssumption DEF Conservative, IsPlan, Covers
  <2>2. \A plan \in KeysOf(event) : IsPlan(plan) /\ \A k \in changed : Covers(plan, k)
    BY <1>0, PlansCover
  <2>3. QED BY <1>0, <2>1, <2>2
<1> HIDE DEF changed
<1>s. /\ schema' \in [Key -> Nat]
      /\ \A k \in Key \ changed : schema'[k] = schema[k]
      /\ UNCHANGED <<memory, file, versionOf, reader>>
      /\ writer[w] = Idle
  BY <1>0 DEF CleanInv, TypeInv, Execute
<1>1. CASE writer' = writer /\ exposed' = exposed \cup changed
  <2>1. TypeInv'
    BY <1>s, <1>1 DEF CleanInv, TypeInv, Copy, Made, ReaderOK, WriterOK
  <2>2. \A k \in Key : Handling(k)' = Handling(k) /\ Reading(k)' = Reading(k)
    BY <1>s, <1>1 DEF Handling, Reading
  <2>3. QED
    BY <1>s, <1>1, <2>1, <2>2
    DEF CleanInv, Apart, LookupsCurrent, Holds, StatementsTend, Tends, Emptied, Leaving,
        CleanInvalidation, Current
<1>2. CASE /\ \E plan \in KeysOf(event) \cup {Conservative} :
                writer' = [writer EXCEPT ![w] = [pc |-> "memory", changed |-> changed,
                                                 plan |-> plan]]
           /\ exposed' = exposed \cup {k \in changed : Reading(k) # {}}
  <2>1. PICK plan \in KeysOf(event) \cup {Conservative} :
             writer' = [writer EXCEPT ![w] = [pc |-> "memory", changed |-> changed,
                                              plan |-> plan]]
    BY <1>2
  <2>2. IsPlan(plan) /\ \A k \in changed : Covers(plan, k)
    BY <1>0, <1>c
  <2>3. /\ writer'[w] = [pc |-> "memory", changed |-> changed, plan |-> plan]
        /\ \A v \in Writer : v # w => writer'[v] = writer[v]
        /\ DOMAIN writer' = Writer
    BY <2>1 DEF CleanInv, TypeInv
  <2>4. TypeInv'
    <3>1. \A v \in Writer : WriterOK(v)'
      BY SMTT(30), <1>0, <2>2, <2>3 DEF CleanInv, TypeInv, WriterOK
    <3>2. QED BY <1>s, <2>3, <3>1 DEF CleanInv, TypeInv, Copy, Made, ReaderOK
  <2>5. /\ \A k \in Key : Reading(k)' = Reading(k)
        /\ \A k \in Key \ changed : Handling(k)' = Handling(k)
        /\ \A k \in changed : Handling(k)' = Handling(k) \cup {w}
    BY <1>0, <1>s, <2>3 DEF Handling, Reading, Idle
  <2>6. \A k \in changed \ exposed' : Reading(k) = {} /\ k \notin exposed
    BY <1>2
  <2>7. Apart' /\ LookupsCurrent'
    BY <1>0, <1>2, <1>s, <2>5, <2>6 DEF CleanInv, Apart, LookupsCurrent, Holds
  <2>8. StatementsTend'
    <3> SUFFICES ASSUME NEW k \in Key \ exposed', NEW v \in Handling(k)' PROVE Tends(v, k)'
      BY DEF StatementsTend
    <3>1. CASE v = w
      <4>1. k \in changed
        BY <2>3, <3>1 DEF Handling
      <4>2. QED BY <2>2, <2>3, <3>1, <4>1 DEF Tends
    <3>2. CASE v # w
      <4>1. v \in Handling(k) /\ writer'[v] = writer[v] /\ k \notin exposed
        BY <1>2, <2>3, <3>2 DEF Handling
      <4>2. QED
        BY <1>s, <4>1 DEF CleanInv, StatementsTend, Tends, Emptied, Leaving
    <3>3. QED BY <3>1, <3>2
  <2>9. CleanInvalidation'
    BY <1>2, <1>s, <2>5 DEF CleanInv, CleanInvalidation, Current
  <2>10. QED BY <2>4, <2>7, <2>8, <2>9 DEF CleanInv
<1>3. QED BY <1>1, <1>2 DEF Execute, changed

LEMMA InvalidateMemoryClean ==
    ASSUME CleanInv, NEW w \in Writer, InvalidateMemory(w)
    PROVE  CleanInv'
<1> USE DEF CleanInv, InvalidateMemory
<1>1. /\ writer'[w].pc = "file" /\ writer'[w].changed = writer[w].changed
      /\ writer'[w].plan = writer[w].plan
      /\ \A v \in Writer : v # w => writer'[v] = writer[v]
      /\ DOMAIN writer' = Writer
  BY DEF TypeInv
<1>2. /\ UNCHANGED <<schema, file, versionOf, reader, exposed>>
      /\ memory' \in [Key -> Copy]
      /\ \A k \in Key : memory'[k] = IF k \in Leaving(w) THEN NoEntry ELSE memory[k]
  BY DEF TypeInv, Copy
<1>3. TypeInv'
  <2>1. \A v \in Writer : WriterOK(v)'
    BY <1>1 DEF TypeInv, WriterOK
  <2>2. QED BY <1>1, <1>2, <2>1 DEF TypeInv, Copy, Made, ReaderOK
<1>4. \A k \in Key : Handling(k)' = Handling(k) /\ Reading(k)' = Reading(k)
  BY <1>1, <1>2 DEF Handling, Reading
<1>5. Apart' /\ LookupsCurrent'
  BY <1>2, <1>4 DEF Apart, LookupsCurrent, Holds
<1>6. StatementsTend'
  <2> SUFFICES ASSUME NEW k \in Key \ exposed, NEW v \in Handling(k) PROVE Tends(v, k)'
    BY <1>2, <1>4 DEF StatementsTend
  <2>1. Tends(v, k) /\ v \in Writer
    BY DEF StatementsTend, Handling
  <2>2. CASE v # w
    BY <1>1, <1>2, <2>1, <2>2 DEF Tends, Emptied, Leaving
  <2>3. CASE v = w
    <3>1. Emptied(k) \/ Covers(writer[w].plan, k)
      BY <2>1, <2>3 DEF Tends
    <3>2. CASE Emptied(k)
      BY <1>2, <3>2 DEF Tends, Emptied
    <3>3. CASE Covers(writer[w].plan, k)
      <4>1. IsPlan(writer[w].plan)
        BY DEF TypeInv, WriterOK
      <4>2. k \in Head(writer[w].plan) \/ Covers(Tail(writer[w].plan), k)
        BY <3>3, <4>1, HeadOrTail
      <4>3. QED BY <1>1, <1>2, <2>3, <4>2 DEF Tends, Leaving
    <3>4. QED BY <3>1, <3>2, <3>3
  <2>4. QED BY <2>2, <2>3
<1>7. CleanInvalidation'
  BY <1>2, <1>4 DEF CleanInvalidation, Current
<1>8. QED BY <1>3, <1>5, <1>6, <1>7

LEMMA RemoveFileClean ==
    ASSUME CleanInv, NEW w \in Writer, RemoveFile(w)
    PROVE  CleanInv'
<1> USE DEF CleanInv
<1> DEFINE rest == Tail(writer[w].plan)
<1>0. /\ writer[w].pc = "file" /\ IsPlan(writer[w].plan) /\ writer[w].changed \subseteq Key
      /\ rest \in Seq(SUBSET EntryType)
  BY HeadOrTail DEF RemoveFile, TypeInv, WriterOK
<1>1. /\ \A v \in Writer : v # w => writer'[v] = writer[v]
      /\ DOMAIN writer' = Writer
      /\ \/ rest = <<>> /\ writer'[w] = Idle
         \/ /\ rest # <<>>
            /\ writer'[w] = [pc |-> "memory", changed |-> writer[w].changed, plan |-> rest]
  BY DEF RemoveFile, TypeInv
<1>2. /\ UNCHANGED <<schema, memory, versionOf, reader>>
      /\ exposed \subseteq exposed'
      /\ file' \in [Key -> Copy]
      /\ \A k \in Key : file'[k] \in {NoEntry, file[k]}
      /\ \A k \in Key \ exposed' : k \in Leaving(w) => file'[k] = NoEntry
  BY DEF RemoveFile, TypeInv, Copy
<1> HIDE DEF rest
<1>3. TypeInv'
  <2>1. WriterOK(w)'
    <3>1. CASE writer'[w] = Idle
      BY <3>1 DEF WriterOK, Idle
    <3>2. CASE rest # <<>> /\ writer'[w] = [pc |-> "memory", changed |-> writer[w].changed,
                                            plan |-> rest]
      <4>1. IsPlan(rest)
        BY <1>0, <3>2 DEF IsPlan
      <4>2. QED BY <1>0, <3>2, <4>1 DEF WriterOK
    <3>3. QED BY <1>1, <3>1, <3>2
  <2>2. ASSUME NEW v \in Writer, v # w PROVE WriterOK(v)'
    BY <1>1, <2>2 DEF TypeInv, WriterOK
  <2>3. QED BY <1>1, <1>2, <2>1, <2>2 DEF TypeInv, Copy, Made, ReaderOK
<1>4. /\ \A k \in Key : Reading(k)' = Reading(k)
      /\ \A k \in Key : Handling(k)' \subseteq Handling(k) /\ Handling(k) \subseteq Handling(k)' \cup {w}
  BY <1>0, <1>1, <1>2 DEF Handling, Reading, Idle
<1>5. Apart' /\ LookupsCurrent'
  BY <1>2, <1>4 DEF Apart, LookupsCurrent, Holds
<1>6. \A k \in Key \ exposed' :
        w \in Handling(k) => \/ memory'[k] = NoEntry /\ file'[k] = NoEntry
                             \/ Covers(rest, k)
  BY <1>0, <1>2 DEF StatementsTend, Tends, Emptied, rest
<1>7. StatementsTend'
  <2> SUFFICES ASSUME NEW k \in Key \ exposed', NEW v \in Handling(k)' PROVE Tends(v, k)'
    BY DEF StatementsTend
  <2>1. v \in Handling(k) /\ v \in Writer /\ k \notin exposed
    BY <1>2, <1>4 DEF Handling
  <2>2. CASE v # w
    BY <1>1, <1>2, <2>1, <2>2 DEF StatementsTend, Tends, Emptied, Leaving
  <2>3. CASE v = w
    <3>1. writer'[w] = [pc |-> "memory", changed |-> writer[w].changed, plan |-> rest]
      BY <1>1, <2>3 DEF Handling, Idle
    <3>2. QED BY <1>6, <2>1, <2>3, <3>1 DEF Tends, Emptied
  <2>4. QED BY <2>2, <2>3
<1>8. CleanInvalidation'
  <2> SUFFICES ASSUME NEW k \in Key \ exposed', Handling(k)' = {}
               PROVE  Current(k, memory[k])' /\ Current(k, file[k])'
    BY DEF CleanInvalidation
  <2>1. CASE w \in Handling(k)
    <3>1. rest = <<>>
      BY <1>0, <1>1, <2>1 DEF Handling
    <3>2. ~Covers(rest, k)
      BY <3>1 DEF Covers
    <3>3. QED BY <1>6, <2>1, <3>2 DEF Current
  <2>2. CASE w \notin Handling(k)
    <3>1. Handling(k) = {} /\ k \notin exposed
      BY <1>2, <1>4, <2>2
    <3>2. QED BY <1>2, <3>1 DEF CleanInvalidation, Current
  <2>3. QED BY <2>1, <2>2
<1>9. QED BY <1>3, <1>5, <1>7, <1>8

-----------------------------------------------------------------------------
LEMMA StepClean ==
    ASSUME Event \subseteq EventKind, \A event \in Event : Key \cap Missed(event) = {},
           CleanInv, [Next]_vars
    PROVE  CleanInv'
<1>1. ASSUME NEW r \in Reader, Lookup(r) PROVE CleanInv'
  BY <1>1, LoadFromFileClean, InsertLoadedClean, RemoveExpiredClean, QueryDatabaseClean,
     SetClean, SaveToFileClean DEF Lookup
<1>2. ASSUME NEW w \in Writer, Invalidate(w) PROVE CleanInv'
  BY <1>2, InvalidateMemoryClean, RemoveFileClean DEF Invalidate
<1>3. CASE UNCHANGED vars
  <2>1. TypeInv'
    BY <1>3 DEF vars, CleanInv, TypeInv, Copy, Made, ReaderOK, WriterOK
  <2>2. QED BY <1>3, <2>1, LosingCopies DEF vars
<1>4. QED
  BY <1>1, <1>2, <1>3, GetClean, ExecuteClean, ExpireClean, EvictClean, RestartClean DEF Next

(* What CleanInvalidation says, of every set of keys, lookups, statements  *)
(* and bounds, where no key that is looked up is missed by the events of   *)
(* the DDL that is run.                                                    *)
THEOREM InvalidationClean ==
    ASSUME Event \subseteq EventKind, \A event \in Event : Key \cap Missed(event) = {}
    PROVE  Spec => []CleanInvalidation
<1>1. CleanInv /\ [Next]_vars => CleanInv'
  BY StepClean
<1>2. CleanInv => CleanInvalidation
  BY DEF CleanInv
<1>3. QED BY <1>1, <1>2, InitClean, PTL DEF Spec

=============================================================================
