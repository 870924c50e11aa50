------------------------ MODULE DbSessionPoolProofs -------------------------
(***************************************************************************)
(* That a session is used in the database it was asked for, by one call at *)
(* a time, and that a file is not opened twice for one database: for any   *)
(* calls, databases and kinds of calls.                                    *)
(***************************************************************************)
EXTENDS DbSessionPool, TLAPS

(* The places of a call that has no session yet, and of one that has.      *)
Opens == {"acquire", "connect", "push"}
Early == {"idle", "lock"} \cup Opens
Holds == {"held", "exec", "open", "release", "reuse", "close"}

(* A session joins the pool once, when the call that connected it gives it *)
(* in; whoever holds a session holds one that did.                         *)
JoinedInv ==
    /\ \A s \in pool : pc[s] \notin Early
    /\ \A c \in Call : pc[c] \in Holds => session[c] \in Call /\ pc[session[c]] \notin Early
    /\ \A c \in Call : pc[c] = "push" => session[c] = c
    /\ \A c \in Call : pc[c] # "idle" => job[c] \in Job

(* A session of the pool that somebody holds is marked as in use, and      *)
(* nobody else holds it.                                                   *)
HolderInv ==
    /\ \A c \in Call : pc[c] \in Holds /\ session[c] \in pool => session[c] \in used
    /\ \A c, d \in Call :
           pc[c] \in Holds /\ pc[d] \in Holds /\ session[c] = session[d] /\ session[c] \in pool
               => c = d

(* What may be chosen is labelled by the database it is in.  A file has no *)
(* USE, so its label stays what its creator wanted.                        *)
LabelInv ==
    /\ \A s \in pool \ used : label[s] = at[s]
    /\ \A c \in Call : pc[c] = "push" => label[c] = Wants(c) /\ at[c] = Wants(c)
    /\ singleFile => label = at /\ \A s \in pool : label[s] = Wants(s)

(* The lock of the file is held from the look into the pool until what was *)
(* opened is in the pool.                                                  *)
OpeningInv == singleFile => \A c \in Call : pc[c] \in Opens => opening = c

PoolInv ==
    /\ TypeOK
    /\ JoinedInv
    /\ HolderInv
    /\ LabelInv
    /\ OpeningInv
    /\ RightDatabase
    /\ OneSessionPerFile

(* A call that has a session of the pool has it for itself: nobody else    *)
(* executes on it, gives it back or closes it.                             *)
OneUserPerSession ==
    \A c, d \in Call :
        pc[c] \in Holds /\ pc[d] \in Holds /\ session[c] = session[d] /\ session[c] \in pool
            => c = d

-----------------------------------------------------------------------------
(* Nobody has a session before the first call.                             *)
LEMMA InitPool == Init => PoolInv
BY DatabaseAssumption, CallAssumption
   DEF Init, PoolInv, TypeOK, JoinedInv, HolderInv, LabelInv, OpeningInv, RightDatabase,
       OneSessionPerFile, Physical, Early, Opens, Holds, Job, NoJob, At, Wants

(* A call begins: it waits for the lock of the file, or looks for a        *)
(* session.                                                                *)
LEMMA StartKeeps ==
    ASSUME PoolInv, NEW c \in Call, NEW j \in Job, Start(c, j)
    PROVE  PoolInv'
<1> USE DEF PoolInv
<1>1. TypeOK'
  BY CallAssumption, DatabaseAssumption, KindAssumption
     DEF TypeOK, Job, NoJob, Start, Goto, At, Wants
<1>2. JoinedInv'
  BY DEF TypeOK, JoinedInv, Early, Opens, Holds, Start, Goto, At, Wants
<1>3. HolderInv'
  BY DEF TypeOK, JoinedInv, HolderInv, Early, Opens, Holds, Start, Goto, At, Wants
<1>4. LabelInv'
  BY DEF TypeOK, JoinedInv, HolderInv, LabelInv, Early, Opens, Holds, Start, Goto, At,
         Wants
<1>5. OpeningInv'
  BY CallAssumption DEF TypeOK, OpeningInv, Opens, Start, Goto, At, Wants
<1>6. RightDatabase'
  BY DEF TypeOK, JoinedInv, HolderInv, LabelInv, RightDatabase, Early, Opens, Holds,
         Start, Goto, At, Wants
<1>7. OneSessionPerFile'
  BY DEF TypeOK, JoinedInv, LabelInv, OpeningInv, OneSessionPerFile, Physical, Early,
         Opens, Holds, Start, Goto, At, Wants
<1>8. QED  BY <1>1, <1>2, <1>3, <1>4, <1>5, <1>6, <1>7

(* A call takes the lock of the file.                                      *)
LEMMA OpenGuardKeeps ==
    ASSUME PoolInv, NEW c \in Call, PhysicalOpenGuard(c)
    PROVE  PoolInv'
<1> USE DEF PoolInv
<1>1. TypeOK'
  BY CallAssumption, DatabaseAssumption, KindAssumption
     DEF TypeOK, Job, NoJob, PhysicalOpenGuard, Goto, At, Wants, Nobody
<1>2. JoinedInv'
  BY DEF TypeOK, JoinedInv, Early, Opens, Holds, PhysicalOpenGuard, Goto, At, Wants,
         Nobody
<1>3. HolderInv'
  BY DEF TypeOK, JoinedInv, HolderInv, Early, Opens, Holds, PhysicalOpenGuard, Goto, At,
         Wants, Nobody
<1>4. LabelInv'
  BY DEF TypeOK, JoinedInv, HolderInv, LabelInv, Early, Opens, Holds, PhysicalOpenGuard,
         Goto, At, Wants, Nobody
<1>5. OpeningInv'
  BY CallAssumption
     DEF TypeOK, OpeningInv, Opens, PhysicalOpenGuard, Goto, At, Wants, Nobody
<1>6. RightDatabase'
  BY DEF TypeOK, JoinedInv, HolderInv, LabelInv, RightDatabase, Early, Opens, Holds,
         PhysicalOpenGuard, Goto, At, Wants, Nobody
<1>7. OneSessionPerFile'
  BY DEF TypeOK, JoinedInv, LabelInv, OpeningInv, OneSessionPerFile, Physical, Early,
         Opens, Holds, PhysicalOpenGuard, Goto, At, Wants, Nobody
<1>8. QED  BY <1>1, <1>2, <1>3, <1>4, <1>5, <1>6, <1>7

(* A call takes an idle session, goes on to connect, or tries again; what  *)
(* it does to the call is one of three things, whatever sessions were      *)
(* stale.                                                                  *)
LEMMA TryAcquireKeeps ==
    ASSUME PoolInv, NEW c \in Call, TryAcquireSession(c)
    PROVE  PoolInv'
<1> USE DEF PoolInv
<1>0. PICK stale \in SUBSET Idle(c) :
           /\ pool' = pool \ stale
           /\ \/ \E s \in Idle(c) \ stale :
                     /\ used' = used \cup {s} /\ session' = [session EXCEPT ![c] = s]
                     /\ Goto(c, "held") /\ Opened(c)
              \/ Goto(c, "connect") /\ UNCHANGED <<used, session, opening>>
              \/ UNCHANGED <<used, pc, session, opening>>
  BY DEF TryAcquireSession
<1>1. TypeOK'
  <2>1. CASE UNCHANGED <<used, pc, session, opening>>
    BY <1>0, CallAssumption, <2>1
       DEF TypeOK, Job, NoJob, Idle, Matching, TryAcquireSession, At, Goto, Opened,
           Nobody
  <2>2. CASE Goto(c, "connect") /\ UNCHANGED <<used, session, opening>>
    BY <1>0, CallAssumption, <2>2
       DEF TypeOK, Job, NoJob, Idle, Matching, TryAcquireSession, At, Goto, Opened,
           Nobody
  <2>3. ASSUME NEW s \in Idle(c) \ stale, used' = used \cup {s}, session' = [session EXCEPT ![c] = s],
               Goto(c, "held"), Opened(c)
        PROVE TypeOK'
    BY <1>0, CallAssumption, <2>3
       DEF TypeOK, Job, NoJob, Idle, Matching, TryAcquireSession, At, Goto, Opened,
           Nobody
  <2>4. QED  BY <1>0, <2>1, <2>2, <2>3
<1>2. JoinedInv'
  <2>1. CASE UNCHANGED <<used, pc, session, opening>>
    BY <1>0, CallAssumption, <2>1
       DEF TypeOK, JoinedInv, Early, Opens, Holds, Idle, Matching, TryAcquireSession,
           At, Goto, Opened, Nobody
  <2>2. CASE Goto(c, "connect") /\ UNCHANGED <<used, session, opening>>
    BY <1>0, CallAssumption, <2>2
       DEF TypeOK, JoinedInv, Early, Opens, Holds, Idle, Matching, TryAcquireSession,
           At, Goto, Opened, Nobody
  <2>3. ASSUME NEW s \in Idle(c) \ stale, used' = used \cup {s}, session' = [session EXCEPT ![c] = s],
               Goto(c, "held"), Opened(c)
        PROVE JoinedInv'
    BY <1>0, CallAssumption, <2>3
       DEF TypeOK, JoinedInv, Early, Opens, Holds, Idle, Matching, TryAcquireSession,
           At, Goto, Opened, Nobody
  <2>4. QED  BY <1>0, <2>1, <2>2, <2>3
<1>3. HolderInv'
  BY DEF TypeOK, JoinedInv, HolderInv, Early, Opens, Holds, TryAcquireSession, Idle,
         Matching, Busy, Goto, At, Wants, Opened, SessionsFree, Nobody
<1>4. LabelInv'
  BY DEF TypeOK, JoinedInv, HolderInv, LabelInv, Early, Opens, Holds, TryAcquireSession,
         Idle, Matching, Busy, Goto, At, Wants, Opened, SessionsFree, Nobody
<1>5. OpeningInv'
  BY CallAssumption
     DEF TypeOK, OpeningInv, Opens, TryAcquireSession, Idle, Matching, Busy, Goto, At,
         Wants, Opened, SessionsFree, Nobody
<1>6. RightDatabase'
  BY DEF TypeOK, JoinedInv, HolderInv, LabelInv, RightDatabase, Early, Opens, Holds,
         TryAcquireSession, Idle, Matching, Busy, Goto, At, Wants, Opened, SessionsFree,
         Nobody
<1>7. OneSessionPerFile'
  BY DEF TypeOK, JoinedInv, LabelInv, OpeningInv, OneSessionPerFile, Physical, Early,
         Opens, Holds, TryAcquireSession, Idle, Matching, Busy, Goto, At, Wants, Opened,
         SessionsFree, Nobody
<1>8. QED  BY <1>1, <1>2, <1>3, <1>4, <1>5, <1>6, <1>7

(* A connected session is in the database that was asked for.              *)
LEMMA ConnectKeeps == ASSUME PoolInv, NEW c \in Call, Connect(c) PROVE PoolInv'
<1> USE DEF PoolInv
<1>1. TypeOK'
  BY CallAssumption, DatabaseAssumption, KindAssumption
     DEF TypeOK, Job, NoJob, Connect, Goto, At, Wants, Opened, Nobody
<1>2. JoinedInv'
  BY DEF TypeOK, JoinedInv, Early, Opens, Holds, Connect, Goto, At, Wants, Opened, Nobody
<1>3. HolderInv'
  BY DEF TypeOK, JoinedInv, HolderInv, Early, Opens, Holds, Connect, Goto, At, Wants,
         Opened, Nobody
<1>4. LabelInv'
  BY DEF TypeOK, JoinedInv, HolderInv, LabelInv, Early, Opens, Holds, Connect, Goto, At,
         Wants, Opened, Nobody
<1>5. OpeningInv'
  BY CallAssumption
     DEF TypeOK, OpeningInv, Opens, Connect, Goto, At, Wants, Opened, Nobody
<1>6. RightDatabase'
  BY DEF TypeOK, JoinedInv, HolderInv, LabelInv, RightDatabase, Early, Opens, Holds,
         Connect, Goto, At, Wants, Opened, Nobody
<1>7. OneSessionPerFile'
  BY DEF TypeOK, JoinedInv, LabelInv, OpeningInv, OneSessionPerFile, Physical, Early,
         Opens, Holds, Connect, Goto, At, Wants, Opened, Nobody
<1>8. QED  BY <1>1, <1>2, <1>3, <1>4, <1>5, <1>6, <1>7

(* The new session joins the pool, in use by its creator.                  *)
LEMMA PushKeeps == ASSUME PoolInv, NEW c \in Call, Push(c) PROVE PoolInv'
<1> USE DEF PoolInv
<1>1. TypeOK'
  BY CallAssumption, DatabaseAssumption, KindAssumption
     DEF TypeOK, Job, NoJob, Push, Goto, At, Wants, Opened, SessionsFree, Nobody
<1>2. JoinedInv'
  BY DEF TypeOK, JoinedInv, Early, Opens, Holds, Push, Goto, At, Wants, Opened,
         SessionsFree, Nobody
<1>3. HolderInv'
  BY DEF TypeOK, JoinedInv, HolderInv, Early, Opens, Holds, Push, Goto, At, Wants,
         Opened, SessionsFree, Nobody
<1>4. LabelInv'
  BY DEF TypeOK, JoinedInv, HolderInv, LabelInv, Early, Opens, Holds, Push, Goto, At,
         Wants, Opened, SessionsFree, Nobody
<1>5. OpeningInv'
  BY CallAssumption
     DEF TypeOK, OpeningInv, Opens, Push, Goto, At, Wants, Opened, SessionsFree, Nobody
<1>6. RightDatabase'
  BY DEF TypeOK, JoinedInv, HolderInv, LabelInv, RightDatabase, Early, Opens, Holds,
         Push, Goto, At, Wants, Opened, SessionsFree, Nobody
<1>7. OneSessionPerFile'
  BY DEF TypeOK, JoinedInv, LabelInv, OpeningInv, OneSessionPerFile, Physical, Early,
         Opens, Holds, Push, Goto, At, Wants, Opened, SessionsFree, Nobody
<1>8. QED  BY <1>1, <1>2, <1>3, <1>4, <1>5, <1>6, <1>7

(* The session is looked up again by its id.                               *)
LEMMA GetConnectionKeeps ==
    ASSUME PoolInv, NEW c \in Call, pc[c] \in {"held", "open"}, GetConnection(c)
    PROVE  PoolInv'
<1> USE DEF PoolInv
<1>1. TypeOK'
  <2>1. used' \subseteq pool' /\ pool' \subseteq Call
    BY DEF TypeOK, GetConnection
  <2>2. guard' \in Call \cup {Nobody}
    BY DEF TypeOK, GetConnection
  <2>3. QED  BY <2>1, <2>2 DEF TypeOK, GetConnection, Goto
<1>2. JoinedInv'
  <2>1. CASE session[c] \in pool
    BY <2>1 DEF TypeOK, JoinedInv, Early, Opens, Holds, GetConnection, Goto
  <2>2. CASE session[c] \notin pool
    BY <2>2 DEF TypeOK, JoinedInv, Early, Opens, Holds, GetConnection, Goto
  <2>3. QED  BY <2>1, <2>2
<1>3. HolderInv'
  BY DEF TypeOK, JoinedInv, HolderInv, Early, Opens, Holds, GetConnection, Goto, Wants,
         SessionsFree, Nobody
<1>4. LabelInv'
  BY DEF TypeOK, JoinedInv, HolderInv, LabelInv, Early, Opens, Holds, GetConnection,
         Goto, Wants, SessionsFree, Nobody
<1>5. OpeningInv'
  BY CallAssumption
     DEF TypeOK, OpeningInv, Opens, GetConnection, Goto, Wants, SessionsFree, Nobody
<1>6. RightDatabase'
  BY DEF TypeOK, JoinedInv, HolderInv, LabelInv, RightDatabase, Early, Opens, Holds,
         GetConnection, Goto, At, Wants, SessionsFree, Nobody
<1>7. OneSessionPerFile'
  BY DEF TypeOK, JoinedInv, LabelInv, OpeningInv, OneSessionPerFile, Physical, Early,
         Opens, Holds, GetConnection, Goto, Wants, SessionsFree, Nobody
<1>8. QED  BY <1>1, <1>2, <1>3, <1>4, <1>5, <1>6, <1>7

(* Wherever a call goes when its statement ends, the session it used is    *)
(* still marked as in use: the label may be wrong.                         *)
LEMMA EndExecutionKeeps == ASSUME PoolInv, NEW c \in Call, EndExecution(c) PROVE PoolInv'
<1> USE DEF PoolInv
<1>0. PICK place \in {"release", "reuse", "close", "open", "lost"} : Goto(c, place)
  BY KindAssumption DEF EndExecution, After, JoinedInv, Job, At
<1>1. TypeOK'
  BY CallAssumption, DatabaseAssumption, KindAssumption, <1>0
     DEF TypeOK, Job, NoJob, EndExecution, Goto, At, Wants, Nobody
<1>2. JoinedInv'
  BY <1>0
     DEF TypeOK, JoinedInv, Early, Opens, Holds, EndExecution, Goto, At, Wants, Nobody
<1>3. HolderInv'
  BY <1>0
     DEF TypeOK, JoinedInv, HolderInv, Early, Opens, Holds, EndExecution, Goto, At,
         Wants, Nobody
<1>4. LabelInv'
  BY <1>0
     DEF TypeOK, JoinedInv, HolderInv, LabelInv, Early, Opens, Holds, EndExecution,
         Goto, At, Wants, Nobody
<1>5. OpeningInv'
  BY CallAssumption, <1>0
     DEF TypeOK, OpeningInv, Opens, EndExecution, Goto, At, Wants, Nobody
<1>6. RightDatabase'
  BY <1>0
     DEF TypeOK, JoinedInv, HolderInv, LabelInv, RightDatabase, Early, Opens, Holds,
         EndExecution, Goto, At, Wants, Nobody
<1>7. OneSessionPerFile'
  BY <1>0
     DEF TypeOK, JoinedInv, LabelInv, OpeningInv, OneSessionPerFile, Physical, Early,
         Opens, Holds, EndExecution, Goto, At, Wants, Nobody
<1>8. QED  BY <1>1, <1>2, <1>3, <1>4, <1>5, <1>6, <1>7

(* A session is given back with a new label, or leaves the pool.           *)
LEMMA ReleaseKeeps == ASSUME PoolInv, NEW c \in Call, Release(c) PROVE PoolInv'
<1> USE DEF PoolInv
<1>1. TypeOK'
  BY CallAssumption, DatabaseAssumption, KindAssumption
     DEF TypeOK, Job, NoJob, Release, Remove, Synced, Goto, At, Wants, SessionsFree,
         Nobody
<1>2. JoinedInv'
  BY DEF TypeOK, JoinedInv, Early, Opens, Holds, Release, Remove, Synced, Goto, At,
         Wants, SessionsFree, Nobody
<1>3. HolderInv'
  BY DEF TypeOK, JoinedInv, HolderInv, Early, Opens, Holds, Release, Remove, Synced,
         Goto, At, Wants, SessionsFree, Nobody
<1>4. LabelInv'
  BY DEF TypeOK, JoinedInv, HolderInv, LabelInv, Early, Opens, Holds, Release, Remove,
         Synced, Goto, At, Wants, SessionsFree, Nobody
<1>5. OpeningInv'
  BY CallAssumption
     DEF TypeOK, OpeningInv, Opens, Release, Remove, Synced, Goto, At, Wants,
         SessionsFree, Nobody
<1>6. RightDatabase'
  BY DEF TypeOK, JoinedInv, HolderInv, LabelInv, RightDatabase, Early, Opens, Holds,
         Release, Remove, Synced, Goto, At, Wants, SessionsFree, Nobody
<1>7. OneSessionPerFile'
  BY DEF TypeOK, JoinedInv, LabelInv, OpeningInv, OneSessionPerFile, Physical, Early,
         Opens, Holds, Release, Remove, Synced, Goto, At, Wants, SessionsFree, Nobody
<1>8. QED  BY <1>1, <1>2, <1>3, <1>4, <1>5, <1>6, <1>7

(* A session leaves the pool.                                              *)
LEMMA CloseKeeps == ASSUME PoolInv, NEW c \in Call, Close(c) PROVE PoolInv'
<1> USE DEF PoolInv
<1>1. TypeOK'
  BY CallAssumption, DatabaseAssumption, KindAssumption
     DEF TypeOK, Job, NoJob, Close, Remove, Goto, At, Wants, SessionsFree, Nobody
<1>2. JoinedInv'
  BY DEF TypeOK, JoinedInv, Early, Opens, Holds, Close, Remove, Goto, At, Wants,
         SessionsFree, Nobody
<1>3. HolderInv'
  BY DEF TypeOK, JoinedInv, HolderInv, Early, Opens, Holds, Close, Remove, Goto, At,
         Wants, SessionsFree, Nobody
<1>4. LabelInv'
  BY DEF TypeOK, JoinedInv, HolderInv, LabelInv, Early, Opens, Holds, Close, Remove,
         Goto, At, Wants, SessionsFree, Nobody
<1>5. OpeningInv'
  BY CallAssumption
     DEF TypeOK, OpeningInv, Opens, Close, Remove, Goto, At, Wants, SessionsFree, Nobody
<1>6. RightDatabase'
  BY DEF TypeOK, JoinedInv, HolderInv, LabelInv, RightDatabase, Early, Opens, Holds,
         Close, Remove, Goto, At, Wants, SessionsFree, Nobody
<1>7. OneSessionPerFile'
  BY DEF TypeOK, JoinedInv, LabelInv, OpeningInv, OneSessionPerFile, Physical, Early,
         Opens, Holds, Close, Remove, Goto, At, Wants, SessionsFree, Nobody
<1>8. QED  BY <1>1, <1>2, <1>3, <1>4, <1>5, <1>6, <1>7

(* A stream gives its session up without using it.                         *)
LEMMA CancelStreamKeeps == ASSUME PoolInv, NEW c \in Call, CancelStream(c) PROVE PoolInv'
<1> USE DEF PoolInv
<1>1. TypeOK'
  BY CallAssumption, DatabaseAssumption, KindAssumption
     DEF TypeOK, Job, NoJob, CancelStream, Goto, At, Wants
<1>2. JoinedInv'
  BY DEF TypeOK, JoinedInv, Early, Opens, Holds, CancelStream, Goto, At, Wants
<1>3. HolderInv'
  BY DEF TypeOK, JoinedInv, HolderInv, Early, Opens, Holds, CancelStream, Goto, At, Wants
<1>4. LabelInv'
  BY DEF TypeOK, JoinedInv, HolderInv, LabelInv, Early, Opens, Holds, CancelStream,
         Goto, At, Wants
<1>5. OpeningInv'
  BY CallAssumption DEF TypeOK, OpeningInv, Opens, CancelStream, Goto, At, Wants
<1>6. RightDatabase'
  BY DEF TypeOK, JoinedInv, HolderInv, LabelInv, RightDatabase, Early, Opens, Holds,
         CancelStream, Goto, At, Wants
<1>7. OneSessionPerFile'
  BY DEF TypeOK, JoinedInv, LabelInv, OpeningInv, OneSessionPerFile, Physical, Early,
         Opens, Holds, CancelStream, Goto, At, Wants
<1>8. QED  BY <1>1, <1>2, <1>3, <1>4, <1>5, <1>6, <1>7

(* Whoever is dropped holds nothing any more; the session stays in use.    *)
LEMMA DropKeeps == ASSUME PoolInv, NEW c \in Call, Drop(c) PROVE PoolInv'
<1> USE DEF PoolInv
<1>1. TypeOK'
  BY CallAssumption, DatabaseAssumption, KindAssumption
     DEF TypeOK, Job, NoJob, Drop, Goto, Wants, Opened, Nobody
<1>2. JoinedInv'
  BY DEF TypeOK, JoinedInv, Early, Opens, Holds, Drop, Goto, Wants, Opened, Nobody
<1>3. HolderInv'
  BY DEF TypeOK, JoinedInv, HolderInv, Early, Opens, Holds, Drop, Goto, Wants, Opened,
         Nobody
<1>4. LabelInv'
  BY DEF TypeOK, JoinedInv, HolderInv, LabelInv, Early, Opens, Holds, Drop, Goto, Wants,
         Opened, Nobody
<1>5. OpeningInv'
  BY CallAssumption DEF TypeOK, OpeningInv, Opens, Drop, Goto, Wants, Opened, Nobody
<1>6. RightDatabase'
  BY DEF TypeOK, JoinedInv, HolderInv, LabelInv, RightDatabase, Early, Opens, Holds,
         Drop, Goto, At, Wants, Opened, Nobody
<1>7. OneSessionPerFile'
  BY DEF TypeOK, JoinedInv, LabelInv, OpeningInv, OneSessionPerFile, Physical, Early,
         Opens, Holds, Drop, Goto, Wants, Opened, Nobody
<1>8. QED  BY <1>1, <1>2, <1>3, <1>4, <1>5, <1>6, <1>7

(* A session leaves the pool, whoever holds it.                            *)
LEMMA ExpireKeeps == ASSUME PoolInv, NEW s \in Call, Expire(s) PROVE PoolInv'
<1> USE DEF PoolInv
<1>1. TypeOK'
  BY CallAssumption, DatabaseAssumption, KindAssumption
     DEF TypeOK, Job, NoJob, Expire, Remove, Wants, SessionsFree, Nobody
<1>2. JoinedInv'
  BY DEF TypeOK, JoinedInv, Early, Opens, Holds, Expire, Remove, Wants, SessionsFree,
         Nobody
<1>3. HolderInv'
  BY DEF TypeOK, JoinedInv, HolderInv, Early, Opens, Holds, Expire, Remove, Wants,
         SessionsFree, Nobody
<1>4. LabelInv'
  BY DEF TypeOK, JoinedInv, HolderInv, LabelInv, Early, Opens, Holds, Expire, Remove,
         Wants, SessionsFree, Nobody
<1>5. OpeningInv'
  BY CallAssumption
     DEF TypeOK, OpeningInv, Opens, Expire, Remove, Wants, SessionsFree, Nobody
<1>6. RightDatabase'
  BY DEF TypeOK, JoinedInv, HolderInv, LabelInv, RightDatabase, Early, Opens, Holds,
         Expire, Remove, At, Wants, SessionsFree, Nobody
<1>7. OneSessionPerFile'
  BY DEF TypeOK, JoinedInv, LabelInv, OpeningInv, OneSessionPerFile, Physical, Early,
         Opens, Holds, Expire, Remove, Wants, SessionsFree, Nobody
<1>8. QED  BY <1>1, <1>2, <1>3, <1>4, <1>5, <1>6, <1>7

(* All sessions leave the pool.                                            *)
LEMMA RemoveAllKeeps == ASSUME PoolInv, RemoveAllSessions PROVE PoolInv'
<1> USE DEF PoolInv
<1>1. TypeOK'
  BY CallAssumption, DatabaseAssumption, KindAssumption
     DEF TypeOK, Job, NoJob, RemoveAllSessions, Remove, Wants, SessionsFree, Nobody
<1>2. JoinedInv'
  BY DEF TypeOK, JoinedInv, Early, Opens, Holds, RemoveAllSessions, Remove, Wants,
         SessionsFree, Nobody
<1>3. HolderInv'
  BY DEF TypeOK, JoinedInv, HolderInv, Early, Opens, Holds, RemoveAllSessions, Remove,
         Wants, SessionsFree, Nobody
<1>4. LabelInv'
  BY DEF TypeOK, JoinedInv, HolderInv, LabelInv, Early, Opens, Holds, RemoveAllSessions,
         Remove, Wants, SessionsFree, Nobody
<1>5. OpeningInv'
  BY CallAssumption
     DEF TypeOK, OpeningInv, Opens, RemoveAllSessions, Remove, Wants, SessionsFree,
         Nobody
<1>6. RightDatabase'
  BY DEF TypeOK, JoinedInv, HolderInv, LabelInv, RightDatabase, Early, Opens, Holds,
         RemoveAllSessions, Remove, At, Wants, SessionsFree, Nobody
<1>7. OneSessionPerFile'
  BY DEF TypeOK, JoinedInv, LabelInv, OpeningInv, OneSessionPerFile, Physical, Early,
         Opens, Holds, RemoveAllSessions, Remove, Wants, SessionsFree, Nobody
<1>8. QED  BY <1>1, <1>2, <1>3, <1>4, <1>5, <1>6, <1>7

(* Nothing changes.                                                        *)
LEMMA StutterKeeps == ASSUME PoolInv, UNCHANGED vars PROVE PoolInv'
<1> USE DEF PoolInv
<1>1. TypeOK'
  BY CallAssumption, DatabaseAssumption, KindAssumption
     DEF TypeOK, Job, NoJob, vars, Wants
<1>2. JoinedInv'
  BY DEF TypeOK, JoinedInv, Early, Opens, Holds, vars, Wants
<1>3. HolderInv'
  BY DEF TypeOK, JoinedInv, HolderInv, Early, Opens, Holds, vars, Wants
<1>4. LabelInv'
  BY DEF TypeOK, JoinedInv, HolderInv, LabelInv, Early, Opens, Holds, vars, Wants
<1>5. OpeningInv'
  BY CallAssumption DEF TypeOK, OpeningInv, Opens, vars, Wants
<1>6. RightDatabase'
  BY DEF TypeOK, JoinedInv, HolderInv, LabelInv, RightDatabase, Early, Opens, Holds,
         vars, At, Wants
<1>7. OneSessionPerFile'
  BY DEF TypeOK, JoinedInv, LabelInv, OpeningInv, OneSessionPerFile, Physical, Early,
         Opens, Holds, vars, Wants
<1>8. QED  BY <1>1, <1>2, <1>3, <1>4, <1>5, <1>6, <1>7

-----------------------------------------------------------------------------
(* Each step keeps the invariant.                                          *)
LEMMA NextPool == PoolInv /\ [Next]_vars => PoolInv'
<1> SUFFICES ASSUME PoolInv, [Next]_vars PROVE PoolInv'
  OBVIOUS
<1>1. CASE UNCHANGED vars
  BY <1>1, StutterKeeps
<1>2. ASSUME NEW c \in Call, Step(c) PROVE PoolInv'
  <2>1. CASE PhysicalOpenGuard(c)
    BY <2>1, OpenGuardKeeps
  <2>2. CASE TryAcquireSession(c)
    BY <2>2, TryAcquireKeeps
  <2>3. CASE Connect(c)
    BY <2>3, ConnectKeeps
  <2>4. CASE Push(c)
    BY <2>4, PushKeeps
  <2>5. CASE Execute(c)
    BY <2>5, GetConnectionKeeps DEF Execute, At
  <2>6. CASE EndExecution(c)
    BY <2>6, EndExecutionKeeps
  <2>7. CASE Release(c)
    BY <2>7, ReleaseKeeps
  <2>8. CASE Close(c)
    BY <2>8, CloseKeeps
  <2>9. QED  BY <1>2, <2>1, <2>2, <2>3, <2>4, <2>5, <2>6, <2>7, <2>8 DEF Step
<1>3. ASSUME NEW c \in Call, Continue(c) PROVE PoolInv'
  BY <1>3, GetConnectionKeeps DEF Continue, At
<1>4. ASSUME NEW c \in Call, CancelStream(c) PROVE PoolInv'
  BY <1>4, CancelStreamKeeps
<1>5. ASSUME NEW c \in Call, Drop(c) PROVE PoolInv'
  BY <1>5, DropKeeps
<1>6. ASSUME NEW c \in Call, NEW j \in Job, Start(c, j) PROVE PoolInv'
  BY <1>6, StartKeeps
<1>7. ASSUME NEW s \in Call, Expire(s) PROVE PoolInv'
  BY <1>7, ExpireKeeps
<1>8. CASE RemoveAllSessions
  BY <1>8, RemoveAllKeeps
<1>9. QED  BY <1>1, <1>2, <1>3, <1>4, <1>5, <1>6, <1>7, <1>8 DEF Next

(* The invariant holds of every pool.                                      *)
THEOREM PoolInvariant == Spec => []PoolInv
BY InitPool, NextPool, PTL DEF Spec

(* The state has its types; in particular only sessions of the pool are    *)
(* marked as in use.                                                       *)
THEOREM PoolTypeCorrect == Spec => []TypeOK
<1>1. PoolInv => TypeOK  BY DEF PoolInv
<1>2. QED  BY <1>1, PoolInvariant, PTL

(* A call uses its session in the database it asked for: what others did   *)
(* on the session before, and being dropped in the middle, do not show.    *)
THEOREM SessionInRightDatabase == Spec => []RightDatabase
<1>1. PoolInv => RightDatabase  BY DEF PoolInv
<1>2. QED  BY <1>1, PoolInvariant, PTL

(* A file is not opened twice for one database.                            *)
THEOREM FileOpenedOnce == Spec => []OneSessionPerFile
<1>1. PoolInv => OneSessionPerFile  BY DEF PoolInv
<1>2. QED  BY <1>1, PoolInvariant, PTL

(* No two calls use one session of the pool.                               *)
THEOREM SessionsNotShared == Spec => []OneUserPerSession
<1>1. PoolInv => OneUserPerSession  BY DEF PoolInv, HolderInv, OneUserPerSession
<1>2. QED  BY <1>1, PoolInvariant, PTL

=============================================================================
