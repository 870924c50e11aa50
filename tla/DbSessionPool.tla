--------------------------- MODULE DbSessionPool ----------------------------
(***************************************************************************)
(* The sessions of a database connection: ConnectionManager and the calls  *)
(* of GlobalDbState that borrow them (crates/db/src/manager.rs).           *)
(*                                                                         *)
(* A call asks for a session of one database, is given an idle one or      *)
(* connects a new one, uses it and gives it back, each of which it does    *)
(* under the lock of all sessions; it has nothing but the session's id in  *)
(* between, and may be dropped at each await.  A server that is one file   *)
(* (DuckDB, drivers that say so) is opened under a lock of that file.      *)
(***************************************************************************)
EXTENDS Naturals

CONSTANTS
    Call,       \* the calls; each names the session it may create
    Database,   \* the databases of the server
    NoDatabase, \* a connection whose config names none
    Kind        \* what calls are made: "metadata", "script", "stream", "manual"

VARIABLES
    singleFile, \* the server is one file; otherwise USE switches databases
    pool,       \* the sessions of the connection
    used,       \* those marked in_use
    label,      \* label[s]: the database in the config of session s
    at,         \* at[s]: the database it really is in
    pc,         \* pc[c]: where call c stands
    job,        \* job[c]: what it was called for
    session,    \* session[c]: the session it was given
    opening,    \* who holds the physical lock of the file
    guard       \* who executes with the write lock of all sessions in hand

vars == <<singleFile, pool, used, label, at, pc, job, session, opening, guard>>

Nobody == "nobody"
Job == [kind : Kind, database : Database \cup {NoDatabase}]
NoJob == [kind |-> "none", database |-> NoDatabase]

ASSUME DatabaseAssumption == NoDatabase \notin Database
ASSUME CallAssumption == Nobody \notin Call
ASSUME KindAssumption == Kind \subseteq {"metadata", "script", "stream", "manual"}

TypeOK ==
    /\ singleFile \in BOOLEAN
    /\ pool \subseteq Call /\ used \subseteq pool
    /\ label \in [Call -> Database \cup {NoDatabase}]
    /\ at \in [Call -> Database \cup {NoDatabase}]
    /\ pc \in [Call -> {"idle", "lock", "acquire", "connect", "push", "held", "exec",
                        "open", "release", "reuse", "close", "done", "lost"}]
    /\ job \in [Call -> Job \cup {NoJob}]
    /\ session \in [Call -> Call \cup {Nobody}]
    /\ opening \in Call \cup {Nobody} /\ guard \in Call \cup {Nobody}

Goto(c, place) == pc' = [pc EXCEPT ![c] = place]
At(c, place) == pc[c] = place
Wants(c) == job[c].database
Opened(c) == opening' = IF opening = c THEN Nobody ELSE opening
SessionsFree == guard = Nobody

-----------------------------------------------------------------------------
(* create_session *)

Start(c, j) ==
    /\ At(c, "idle")
    /\ job' = [job EXCEPT ![c] = j]
    /\ Goto(c, IF singleFile THEN "lock" ELSE "acquire")
    /\ UNCHANGED <<singleFile, pool, used, label, at, session, opening, guard>>

PhysicalOpenGuard(c) ==
    /\ At(c, "lock") /\ opening = Nobody
    /\ opening' = c /\ Goto(c, "acquire")
    /\ UNCHANGED <<singleFile, pool, used, label, at, job, session, guard>>

(* db_equals: a call that names no database matches nothing.               *)
Matching(c) == {s \in pool : label[s] = Wants(c) /\ Wants(c) # NoDatabase}
Idle(c) == Matching(c) \ used

\* mutant of Busy: the file is opened once more
BusyNever(c) == FALSE

Busy(c) == singleFile /\ Matching(c) \cap used # {}

(* Idle sessions that do not answer a ping are discarded until one does.   *)
(* If none is left, the call connects, or tries again in a moment while    *)
(* the file is in use.                                                     *)
TryAcquireSession(c) ==
    /\ At(c, "acquire") /\ SessionsFree
    /\ \E stale \in SUBSET Idle(c) :
           /\ pool' = pool \ stale
           /\ \/ \E s \in Idle(c) \ stale :
                     /\ used' = used \cup {s} /\ session' = [session EXCEPT ![c] = s]
                     /\ Goto(c, "held") /\ Opened(c)
              \/ /\ stale = Idle(c) /\ ~Busy(c)
                 /\ Goto(c, "connect") /\ UNCHANGED <<used, session, opening>>
              \/ /\ stale = Idle(c) /\ Busy(c)
                 /\ UNCHANGED <<used, pc, session, opening>>
    /\ UNCHANGED <<singleFile, label, at, job, guard>>

Connect(c) ==
    /\ At(c, "connect")
    /\ \/ /\ Goto(c, "push") /\ session' = [session EXCEPT ![c] = c]
          /\ label' = [label EXCEPT ![c] = Wants(c)] /\ at' = [at EXCEPT ![c] = Wants(c)]
          /\ UNCHANGED opening
       \/ /\ Goto(c, "done") /\ Opened(c)
          /\ UNCHANGED <<label, at, session>>
    /\ UNCHANGED <<singleFile, pool, used, job, guard>>

Push(c) ==
    /\ At(c, "push") /\ SessionsFree
    /\ pool' = pool \cup {c} /\ used' = used \cup {c}
    /\ Goto(c, "held") /\ Opened(c)
    /\ UNCHANGED <<singleFile, label, at, job, session, guard>>

-----------------------------------------------------------------------------
(* get_session_connection: the session is looked up again, and whoever     *)
(* executes on it keeps the lock of all sessions meanwhile.                *)
GetConnection(c) ==
    /\ SessionsFree
    /\ IF session[c] \in pool
       THEN Goto(c, "exec") /\ guard' = c /\ used' = used \cup {session[c]}
       ELSE Goto(c, "done") /\ UNCHANGED <<guard, used>>
    /\ UNCHANGED <<singleFile, pool, label, at, job, session, opening>>

Execute(c) == At(c, "held") /\ GetConnection(c)

(* A manual transaction goes on as its user likes.                         *)
Continue(c) == At(c, "open") /\ GetConnection(c)

(* A stream may be cancelled before it begins.                             *)
CancelStream(c) ==
    /\ At(c, "held") /\ job[c].kind = "stream"
    /\ Goto(c, "close")
    /\ UNCHANGED <<singleFile, pool, used, label, at, job, session, opening, guard>>

(* A query of metadata gives its session back whatever became of it, a     *)
(* stream closes its own, also when it fails or is cancelled.  A script    *)
(* that was executed closes it or, if it was a transaction or began one,   *)
(* leaves it to be used again; one that fails forgets it.  A manual        *)
(* transaction keeps it until it is committed or rolled back.              *)
After(c) ==
    CASE job[c].kind = "metadata" -> {"release"}
      [] job[c].kind = "script" -> {"close", "reuse", "lost"}
      [] job[c].kind = "stream" -> {"close"}
      [] job[c].kind = "manual" -> {"open", "close"}

(* What is executed may switch the database (USE).                         *)
EndExecution(c) ==
    /\ At(c, "exec")
    /\ guard' = Nobody
    /\ \E place \in After(c) : Goto(c, place)
    /\ \/ UNCHANGED at
       \/ /\ ~singleFile /\ job[c].kind # "metadata"
          /\ \E d \in Database : at' = [at EXCEPT ![session[c]] = d]
    /\ UNCHANGED <<singleFile, pool, used, label, job, session, opening>>

-----------------------------------------------------------------------------
(* release_session_internal, close_session *)

Remove(sessions) == pool' = pool \ sessions /\ used' = used \ sessions

\* mutant of Synced: the config keeps the database it was made with
NeverSynced(s) == UNCHANGED label

(* verify_and_sync_database *)
Synced(s) == label' = IF singleFile THEN label ELSE [label EXCEPT ![s] = at[s]]

(* "release" does not leave a file open, "reuse" does; a session whose     *)
(* database cannot be asked for is closed.  A session that is gone is      *)
(* reported.                                                               *)
Release(c) ==
    LET s == session[c]
    IN  /\ pc[c] \in {"release", "reuse"} /\ SessionsFree
        /\ Goto(c, "done")
        /\ CASE s \notin pool -> UNCHANGED <<pool, used, label>>
             [] s \in pool /\ singleFile /\ At(c, "release") -> Remove({s}) /\ UNCHANGED label
             [] OTHER -> \/ used' = used \ {s} /\ Synced(s) /\ UNCHANGED pool
                         \/ ~singleFile /\ Remove({s}) /\ UNCHANGED label
        /\ UNCHANGED <<singleFile, at, job, session, opening, guard>>

Close(c) ==
    /\ At(c, "close") /\ SessionsFree
    /\ Remove({session[c]}) /\ Goto(c, "done")
    /\ UNCHANGED <<singleFile, label, at, job, session, opening, guard>>

(* The future of a call is dropped at an await: nothing is given back but  *)
(* the locks.  Streams are tasks of their own, which nobody drops.         *)
Drop(c) ==
    /\ pc[c] \notin {"idle", "done", "lost"} /\ job[c].kind # "stream"
    /\ Goto(c, "lost") /\ Opened(c)
    /\ guard' = IF guard = c THEN Nobody ELSE guard
    /\ UNCHANGED <<singleFile, pool, used, label, at, job, session>>

\* mutant of Expire: what is in use is left alone
ExpireIdle(s) ==
    /\ s \in pool \ used /\ SessionsFree
    /\ Remove({s})
    /\ UNCHANGED <<singleFile, label, at, pc, job, session, opening, guard>>

(* cleanup_expired_sessions: a session that was idle for long is closed,   *)
(* and one that is old, in use or not.                                     *)
Expire(s) ==
    /\ s \in pool /\ SessionsFree
    /\ Remove({s})
    /\ UNCHANGED <<singleFile, label, at, pc, job, session, opening, guard>>

(* remove_all_sessions, when the user disconnects or edits the connection. *)
RemoveAllSessions ==
    /\ pool # {} /\ SessionsFree
    /\ Remove(pool)
    /\ UNCHANGED <<singleFile, label, at, pc, job, session, opening, guard>>

-----------------------------------------------------------------------------
Init ==
    /\ singleFile \in BOOLEAN
    /\ pool = {} /\ used = {}
    /\ label = [s \in Call |-> NoDatabase] /\ at = [s \in Call |-> NoDatabase]
    /\ pc = [c \in Call |-> "idle"] /\ job = [c \in Call |-> NoJob]
    /\ session = [c \in Call |-> Nobody]
    /\ opening = Nobody /\ guard = Nobody

Step(c) ==
    \/ PhysicalOpenGuard(c) \/ TryAcquireSession(c) \/ Connect(c) \/ Push(c)
    \/ Execute(c) \/ EndExecution(c) \/ Release(c) \/ Close(c)

Next ==
    \/ \E c \in Call :
           Step(c) \/ Continue(c) \/ CancelStream(c) \/ Drop(c) \/ \E j \in Job : Start(c, j)
    \/ \E s \in Call : Expire(s)
    \/ RemoveAllSessions

(* Both locks are fair queues, so a call or a cleanup that can get one     *)
(* again and again does; statements end; every session grows old.          *)
Fairness ==
    /\ \A c \in Call : SF_vars(Step(c))
    /\ \A s \in Call : SF_vars(Expire(s))

Spec == Init /\ [][Next]_vars
FairSpec == Spec /\ Fairness

-----------------------------------------------------------------------------
(* A session is in the database its call asked for when the call begins to *)
(* use it, though others used it before, switched its database and may     *)
(* have been dropped, and nothing but its id is kept between the lock that *)
(* chose it and the lock it is used under.                                 *)
RightDatabase ==
    \A c \in Call : At(c, "held") /\ session[c] \in pool => at[session[c]] = Wants(c)

Physical(s) == s \in pool \/ pc[s] \in {"connect", "push"}

(* A file is not opened twice for one database: neither by calls that come *)
(* at the same time, nor beside a session that is in use, forgotten or     *)
(* kept for reuse.  (Calls that name no database, or another one, do open  *)
(* it again.)                                                              *)
OneSessionPerFile ==
    singleFile =>
        \A s, t \in Call :
            Physical(s) /\ Physical(t) /\ Wants(s) = Wants(t) /\ Wants(s) # NoDatabase
                => s = t

(* Every call returns, whatever other calls hold or have forgotten: a file *)
(* in use is waited for with its physical lock in hand, so a session that  *)
(* nobody gives back must go in the end.  Nothing is said of a manual      *)
(* transaction, which ends when its user ends it.                          *)
CallsReturn ==
    \A c \in Call :
        []<>(pc[c] \in {"idle", "done", "lost"} \/ job[c].kind = "manual")

=============================================================================
