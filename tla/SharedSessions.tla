----------------------------- MODULE SharedSessions -----------------------------
(***************************************************************************)
(* What sharing SSH sessions promises its consumers, without locks, leases *)
(* that are counted, waiters, tasks or timers: each key has at most one    *)
(* current session, a consumer only ever obtains the current open one, a   *)
(* session expires only while nobody uses it, and nothing starts or opens  *)
(* once admission is closed.  The registry of                              *)
(* crates/ssh/src/session_registry.rs implements this.                     *)
(***************************************************************************)
EXTENDS Naturals

CONSTANTS Key, Caller, MaxGen

Gen == 1 .. MaxGen

VARIABLES
    admitting,  \* sessions may start and open
    started,    \* sessions ever started, numbered in this order
    current,    \* the current session of each key, 0 for none
    open,       \* the keys whose current session is open
    use,        \* the session each consumer uses, 0 for none
    expired     \* sessions given to disconnection because nobody used them

sessionVars == << admitting, started, current, open, use, expired >>

Init ==
    /\ admitting = TRUE
    /\ started = 0
    /\ current = [k \in Key |-> 0]
    /\ open = {}
    /\ use = [c \in Caller |-> 0]
    /\ expired = {}

Unused(g) == \A c \in Caller : use[c] # g

Vacate(k) ==
    /\ current' = [current EXCEPT ![k] = 0]
    /\ open' = open \ {k}

Start(k) ==
    /\ admitting
    /\ current[k] = 0
    /\ started + 1 \in Gen
    /\ started' = started + 1
    /\ current' = [current EXCEPT ![k] = started']
    /\ UNCHANGED << admitting, open, use, expired >>

Open(k) ==
    /\ admitting
    /\ current[k] # 0
    /\ k \notin open
    /\ open' = open \cup {k}
    /\ UNCHANGED << admitting, started, current, use, expired >>

(* The session failed to start, or an open one is withdrawn by its owner;  *)
(* those who use it keep it.                                               *)
Withdraw(k) ==
    /\ current[k] # 0
    /\ Vacate(k)
    /\ UNCHANGED << admitting, started, use, expired >>

Obtain(c, k) ==
    /\ admitting
    /\ k \in open
    /\ use[c] = 0
    /\ use' = [use EXCEPT ![c] = current[k]]
    /\ UNCHANGED << admitting, started, current, open, expired >>

(* A consumer shares what it uses, even a session no longer current.       *)
Share(c, d) ==
    /\ use[c] # 0
    /\ use[d] = 0
    /\ use' = [use EXCEPT ![d] = use[c]]
    /\ UNCHANGED << admitting, started, current, open, expired >>

GiveBack(c) ==
    /\ use[c] # 0
    /\ use' = [use EXCEPT ![c] = 0]
    /\ UNCHANGED << admitting, started, current, open, expired >>

Expire(k) ==
    /\ k \in open
    /\ Unused(current[k])
    /\ expired' = expired \cup {current[k]}
    /\ Vacate(k)
    /\ UNCHANGED << admitting, started, use >>

Close ==
    /\ admitting
    /\ admitting' = FALSE
    /\ current' = [k \in Key |-> 0]
    /\ open' = {}
    /\ UNCHANGED << started, use, expired >>

Next ==
    \/ \E k \in Key : Start(k) \/ Open(k) \/ Withdraw(k) \/ Expire(k)
    \/ \E c \in Caller, k \in Key : Obtain(c, k)
    \/ \E c, d \in Caller : Share(c, d)
    \/ \E c \in Caller : GiveBack(c)
    \/ Close

Spec == Init /\ [][Next]_sessionVars

=============================================================================
