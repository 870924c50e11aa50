--------------------------- MODULE MetadataCache ----------------------------
(***************************************************************************)
(* The metadata cache of a database connection                             *)
(* (crates/db/src/metadata_cache.rs), the lookups that fill it             *)
(* (manager.rs, list_tables and its likes) and the DDL that invalidates it *)
(* (ddl_invalidator.rs).                                                   *)
(*                                                                         *)
(* An answer is kept twice, in memory and in a file that survives the      *)
(* program; both copies carry the time they were made, so they expire      *)
(* together.  A lookup and an invalidation touch one copy after the other  *)
(* and wait in between, the file is written by a task of its own, and the  *)
(* database changes when the statement runs, not when the cache hears of   *)
(* it.  The keys are those of one schema with one table or view.           *)
(***************************************************************************)
EXTENDS Integers, Sequences, FiniteSets

CONSTANTS
    Key,        \* the entry types that are looked up
    Event,      \* the kinds of DDL that are run
    Reader,     \* lookups under way at a time
    Writer,     \* statements under way at a time
    MaxEntry,   \* bound on the answers that are cached
    MaxDdl      \* bound on the statements

VARIABLES
    schema,     \* schema[k]: the version of what key k describes, in the database
    memory,     \* memory[k]: the entry in memory_cache
    file,       \* file[k]: the entry in the cache directory
    versionOf,  \* the entries made so far: what version each holds
    over,       \* the entries whose TTL has ended
    reader,
    writer,
    ddls,       \* statements run
    restarted,  \* the program was restarted
    exposed     \* keys of which a lookup overlapped a statement's invalidation

vars == <<schema, memory, file, versionOf, over, reader, writer, ddls,
          restarted, exposed>>

NoEntry == 0
Entry == 1 .. MaxEntry

TableKeys == <<{"columns"}, {"indexes"}, {"foreign_keys"}, {"table_triggers"}, {"checks"}>>
InDatabase == {"schemas", "tables", "columns", "indexes", "foreign_keys",
               "table_triggers", "checks", "views", "functions", "procedures",
               "triggers", "sequences"}
EntryType == InDatabase \cup {"databases"}

ASSUME KeyAssumption == Key \subseteq EntryType

(* The same steps for another table, or for the table "" of an event that  *)
(* was built without a name.                                               *)
OtherTable == <<{}, {}, {}, {}, {}>>
OfTable == UNION {TableKeys[i] : i \in DOMAIN TableKeys}

\* mutant of KeysOf: the keys of a renamed table leave under its old name only
KeysOfOldName(event) ==
    IF event = "RenameTable"
    THEN {TableKeys \o <<{"tables"}>>, OtherTable \o <<{"tables"}>>} ELSE {<<EntryType>>}

(* What may be invalidated for an event, step by step; the keys of one     *)
(* step leave together.  Of a statement that names several tables the      *)
(* event has the first: DropTables and RenameTables are those in which the *)
(* keys' table comes later.  No event of a dropped or altered index has a  *)
(* table, nor that of a dropped trigger, nor that of a created one in      *)
(* whose text no ON was found (CreateTriggerUnnamed).                      *)
KeysOf(event) ==
    LET list == <<{"tables"}>>
    IN  CASE event \in {"CreateTable", "AlterTable", "DropTable"} -> {TableKeys \o list}
          [] event = "DropTables" -> {OtherTable \o list}
          [] event = "TruncateTable" -> {TableKeys \o list, OtherTable \o list}
          [] event = "RenameTable" -> {TableKeys \o OtherTable \o list,
                                       OtherTable \o TableKeys \o list}
          [] event = "RenameTables" -> {OtherTable \o OtherTable \o list}
          [] event \in {"CreateDatabase", "DropDatabase"} -> {<<{"databases"}, InDatabase>>}
          [] event = "CreateIndex" -> {<<{"indexes"}>>}
          [] event = "DropIndex" -> {<<{}>>}
          [] event \in {"CreateView", "DropView"} -> {<<{"views"}, {"tables"}>>}
          [] event \in {"CreateFunction", "DropFunction"} -> {<<{"functions"}>>}
          [] event \in {"CreateProcedure", "DropProcedure"} -> {<<{"procedures"}>>}
          [] event = "CreateTrigger" -> {<<{"triggers"}, {"table_triggers"}>>}
          [] event \in {"CreateTriggerUnnamed", "DropTrigger"} -> {<<{"triggers"}>>}
          [] event \in {"CreateSequence", "DropSequence"} -> {<<{"sequences"}>>}
          [] event \in {"CreateSchema", "DropSchema"} -> {<<{"schemas"}>>}

(* A cancelled or failed stream of a file or a transaction is not taken    *)
(* apart: everything of the connection goes.                               *)
Conservative == <<EntryType>>

(* What such a statement changes in the database: the objects it names,    *)
(* and what belongs to them - the triggers of a table, in both lists, and  *)
(* the sequences of its columns, the columns of a view.  Where servers     *)
(* differ it is the larger set: MySQL lists views with the tables, and a   *)
(* schema is a database to it.                                             *)
Changed(event) ==
    Key \cap
    CASE event \in {"CreateDatabase", "DropDatabase", "DropSchema"} -> EntryType
      [] event = "CreateSchema" -> {"schemas", "databases"}
      [] event = "CreateTable" -> OfTable \cup {"tables", "sequences"}
      [] event \in {"AlterTable", "DropTable", "DropTables"} ->
             OfTable \cup {"tables", "triggers", "sequences"}
      [] event \in {"RenameTable", "RenameTables"} -> OfTable \cup {"tables", "triggers"}
      [] event = "TruncateTable" -> {"tables"}
      [] event \in {"CreateIndex", "DropIndex"} -> {"indexes"}
      [] event \in {"CreateView", "DropView"} -> {"views", "tables", "columns"}
      [] event \in {"CreateFunction", "DropFunction"} -> {"functions"}
      [] event \in {"CreateProcedure", "DropProcedure"} -> {"procedures"}
      [] event \in {"CreateTrigger", "CreateTriggerUnnamed", "DropTrigger"} ->
             {"triggers", "table_triggers"}
      [] event \in {"CreateSequence", "DropSequence"} -> {"sequences"}

\* mutant of Usable: a TTL nobody reads
UsableForEver(e) == e # NoEntry

(* A copy is given out while its TTL lasts.                                *)
Usable(e) == e # NoEntry /\ e \notin over

Idle == [pc |-> "idle"]
Reading(k) == {r \in Reader : reader[r].pc # "idle" /\ reader[r].key = k}
Saving(k) == {r \in Reading(k) : reader[r].pc = "save"}
Handling(k) == {w \in Writer : writer[w].pc # "idle" /\ k \in writer[w].changed}

-----------------------------------------------------------------------------
(* A lookup that memory cannot answer; what memory answers changes nothing. *)

Get(r, k) ==
    /\ reader[r] = Idle /\ ~Usable(memory[k])
    /\ reader' = [reader EXCEPT ![r] = [pc |-> "load", key |-> k]]
    /\ memory' = [memory EXCEPT ![k] = NoEntry]
    /\ exposed' = IF Handling(k) = {} THEN exposed ELSE exposed \cup {k}
    /\ UNCHANGED <<schema, file, versionOf, over, writer, ddls, restarted>>

(* The file is read; while it is being written it may not parse.           *)
LoadFromFile(r) ==
    LET k == reader[r].key
        e == file[k]
        miss == [pc |-> "query", key |-> k]
    IN  /\ reader[r].pc = "load"
        /\ \/ /\ e = NoEntry \/ Saving(k) # {}
              /\ reader' = [reader EXCEPT ![r] = miss]
           \/ /\ Usable(e)
              /\ reader' = [reader EXCEPT ![r] = [pc |-> "insert", key |-> k, entry |-> e]]
           \/ /\ e # NoEntry /\ ~Usable(e)
              /\ reader' = [reader EXCEPT ![r] = [pc |-> "remove", key |-> k]]
        /\ UNCHANGED <<schema, memory, file, versionOf, over, writer, ddls,
                       restarted, exposed>>

InsertLoaded(r) ==
    /\ reader[r].pc = "insert"
    /\ memory' = [memory EXCEPT ![reader[r].key] = reader[r].entry]
    /\ reader' = [reader EXCEPT ![r] = Idle]
    /\ UNCHANGED <<schema, file, versionOf, over, writer, ddls, restarted, exposed>>

(* Whatever the file is by now; that the removal fails is ignored.         *)
RemoveExpired(r) ==
    /\ reader[r].pc = "remove"
    /\ \/ file' = [file EXCEPT ![reader[r].key] = NoEntry]
       \/ UNCHANGED file
    /\ reader' = [reader EXCEPT ![r] = [pc |-> "query", key |-> reader[r].key]]
    /\ UNCHANGED <<schema, memory, versionOf, over, writer, ddls, restarted, exposed>>

(* The database is asked; it may fail.                                     *)
QueryDatabase(r) ==
    LET k == reader[r].key
    IN  /\ reader[r].pc = "query"
        /\ \/ reader' = [reader EXCEPT ![r] = [pc |-> "set", key |-> k, version |-> schema[k]]]
           \/ reader' = [reader EXCEPT ![r] = Idle]
        /\ UNCHANGED <<schema, memory, file, versionOf, over, writer, ddls,
                       restarted, exposed>>

(* The caller has its answer; a task of its own caches it.                 *)
Set(r) ==
    LET k == reader[r].key
        e == Len(versionOf) + 1
    IN  /\ reader[r].pc = "set" /\ e <= MaxEntry
        /\ versionOf' = Append(versionOf, reader[r].version)
        /\ memory' = [memory EXCEPT ![k] = e]
        /\ reader' = [reader EXCEPT ![r] = [pc |-> "save", key |-> k, entry |-> e]]
        /\ UNCHANGED <<schema, file, over, writer, ddls, restarted, exposed>>

(* And another one writes the file; what fails leaves the old one or none  *)
(* that parses.                                                            *)
SaveToFile(r) ==
    LET k == reader[r].key
    IN  /\ reader[r].pc = "save"
        /\ \E e \in {reader[r].entry, file[k], NoEntry} : file' = [file EXCEPT ![k] = e]
        /\ reader' = [reader EXCEPT ![r] = Idle]
        /\ UNCHANGED <<schema, memory, versionOf, over, writer, ddls, restarted, exposed>>

-----------------------------------------------------------------------------
(* A statement takes effect - of a manual transaction, its commit - and    *)
(* the cache is told what it was, or that everything may have changed.     *)
(* Or it is not told: the call may fail after the statement took effect,   *)
(* when its session is closed, and a stream may be cancelled or dropped    *)
(* before the server is through with what it sent.                         *)
Execute(w, event) ==
    LET changed == Changed(event)
    IN  /\ writer[w] = Idle /\ ddls < MaxDdl
        /\ ddls' = ddls + 1
        /\ schema' = [k \in Key |-> schema[k] + (IF k \in changed THEN 1 ELSE 0)]
        /\ \/ /\ \E plan \in KeysOf(event) \cup {Conservative} :
                  writer' = [writer EXCEPT ![w] = [pc |-> "memory", changed |-> changed,
                                                   plan |-> plan]]
              /\ exposed' = exposed \cup {k \in changed : Reading(k) # {}}
           \/ /\ exposed' = exposed \cup changed
              /\ UNCHANGED writer
        /\ UNCHANGED <<memory, file, versionOf, over, reader, restarted>>

Leaving(w) == Head(writer[w].plan)

InvalidateMemory(w) ==
    /\ writer[w].pc = "memory"
    /\ memory' = [k \in Key |-> IF k \in Leaving(w) THEN NoEntry ELSE memory[k]]
    /\ writer' = [writer EXCEPT ![w] = [pc |-> "file", changed |-> writer[w].changed,
                                        plan |-> writer[w].plan]]
    /\ UNCHANGED <<schema, file, versionOf, over, reader, ddls, restarted, exposed>>

(* That the removal fails is ignored.                                      *)
RemoveFile(w) ==
    LET rest == Tail(writer[w].plan)
    IN  /\ writer[w].pc = "file"
        /\ \/ /\ file' = [k \in Key |-> IF k \in Leaving(w) THEN NoEntry ELSE file[k]]
              /\ UNCHANGED exposed
           \/ /\ exposed' = exposed \cup (Key \cap Leaving(w))
              /\ UNCHANGED file
        /\ writer' = [writer EXCEPT ![w] =
                          IF rest = <<>> THEN Idle
                          ELSE [pc |-> "memory", changed |-> @.changed, plan |-> rest]]
        /\ UNCHANGED <<schema, memory, versionOf, over, reader, ddls, restarted>>

-----------------------------------------------------------------------------
(* The TTL of an entry ends, in every copy of it.                          *)
Expire(e) ==
    /\ e <= Len(versionOf) /\ e \notin over
    /\ over' = over \cup {e}
    /\ UNCHANGED <<schema, memory, file, versionOf, reader, writer, ddls,
                   restarted, exposed>>

(* Memory is bounded and forgets what is not used.                         *)
Evict(k) ==
    /\ memory[k] # NoEntry
    /\ memory' = [memory EXCEPT ![k] = NoEntry]
    /\ UNCHANGED <<schema, file, versionOf, over, reader, writer, ddls,
                   restarted, exposed>>

(* The program ends, with whatever was under way, and starts again; a file *)
(* half written is none.                                                   *)
Restart ==
    /\ ~restarted /\ restarted' = TRUE
    /\ \E torn \in SUBSET {k \in Key : Saving(k) # {}} :
          file' = [k \in Key |-> IF k \in torn THEN NoEntry ELSE file[k]]
    /\ memory' = [k \in Key |-> NoEntry]
    /\ exposed' = exposed \cup {k \in Key : Handling(k) # {}}
    /\ reader' = [r \in Reader |-> Idle]
    /\ writer' = [w \in Writer |-> Idle]
    /\ UNCHANGED <<schema, versionOf, over, ddls>>

Init ==
    /\ schema = [k \in Key |-> 0]
    /\ memory = [k \in Key |-> NoEntry] /\ file = [k \in Key |-> NoEntry]
    /\ versionOf = <<>> /\ over = {}
    /\ reader = [r \in Reader |-> Idle] /\ writer = [w \in Writer |-> Idle]
    /\ ddls = 0 /\ restarted = FALSE
    /\ exposed = {}

Lookup(r) ==
    \/ LoadFromFile(r) \/ InsertLoaded(r) \/ RemoveExpired(r)
    \/ QueryDatabase(r) \/ Set(r) \/ SaveToFile(r)

Invalidate(w) == InvalidateMemory(w) \/ RemoveFile(w)

Next ==
    \/ \E r \in Reader : Lookup(r) \/ \E k \in Key : Get(r, k)
    \/ \E w \in Writer : Invalidate(w) \/ \E event \in Event : Execute(w, event)
    \/ \E e \in Entry : Expire(e)
    \/ \E k \in Key : Evict(k)
    \/ Restart

(* Lookups and invalidations that began go on, and time passes.            *)
Fairness ==
    /\ \A r \in Reader : WF_vars(Lookup(r))
    /\ \A w \in Writer : WF_vars(Invalidate(w))
    /\ \A e \in Entry : WF_vars(Expire(e))

Spec == Init /\ [][Next]_vars
FairSpec == Spec /\ Fairness

-----------------------------------------------------------------------------
(* What a lookup is given now, without asking the database.                *)
Answer(k) ==
    IF Usable(memory[k]) THEN memory[k]
    ELSE IF Usable(file[k]) THEN file[k] ELSE NoEntry

Current(k, e) == e = NoEntry \/ versionOf[e] = schema[k]

(* A statement's invalidation leaves no copy of an older answer behind,    *)
(* neither in memory nor in a file, unless a lookup of that key overlapped *)
(* it, or it was never made or not finished.  The keys of the plan must    *)
(* cover what the statement changes, and both copies of each must go; for  *)
(* some kinds of DDL and keys they do not.                                 *)
CleanInvalidation ==
    \A k \in Key \ exposed :
        Handling(k) = {} => Current(k, memory[k]) /\ Current(k, file[k])

(* However an old answer survived - a lookup that overlapped, a call that  *)
(* failed, a crash before the invalidation - it is not given out for ever. *)
StaleEnds == \A k \in Key : []<>Current(k, Answer(k))

=============================================================================
