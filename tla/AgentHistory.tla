------------------------------ MODULE AgentHistory ------------------------------
(***************************************************************************)
(* The conversation history of an agent session                            *)
(* (crates/agent_runtime/src/history.rs) and the messages a model is sent  *)
(* for it (planner/prompt.rs), as pure operators on sequences of items.    *)
(*                                                                         *)
(* An item is a record [kind, turn, call]; texts, images and arguments are *)
(* left out.  "Reasoned" is an assistant text that carries reasoning.  A   *)
(* position in the code is an index from 0; "the first kept item" here is  *)
(* that position plus one.                                                 *)
(***************************************************************************)
EXTENDS Integers, Sequences

Kinds == {"User", "Assistant", "Reasoned", "Summary", "Call", "Obs"}

\* RuntimeHistory::record: append, then drop the oldest beyond the limit.
Record(h, item, limit) ==
    LET longer == Append(h, item)
    IN  IF Len(longer) > limit
        THEN SubSeq(longer, Len(longer) - limit + 1, Len(longer))
        ELSE longer

\* Where the run of items of the kind that ends just before i begins.
WalkBack(h, i, kind) ==
    CHOOSE j \in 1..i : /\ \A m \in j..(i - 1) : h[m].kind = kind
                        /\ j = 1 \/ h[j - 1].kind # kind

\* Where the run of items of the kind that begins at i is over.
WalkOn(h, i, kind) ==
    CHOOSE j \in i..(Len(h) + 1) : /\ \A m \in i..(j - 1) : h[m].kind = kind
                                   /\ j = Len(h) + 1 \/ h[j].kind # kind

-----------------------------------------------------------------------------
(* Compaction *)

\* Mutant: the reasoning that led to the calls is left behind.
CallBoundary(h, i) ==
    CASE h[i].kind = "Obs"  -> WalkBack(h, WalkBack(h, i, "Obs"), "Call")
      [] h[i].kind = "Call" -> WalkBack(h, i, "Call")
      [] OTHER              -> i

\* RuntimeHistory::compaction_tool_boundary: move the split back to the start
\* of the tool exchange it falls into, and before the reasoning that led to it.
ToolBoundary(h, i) ==
    LET start == CASE h[i].kind = "Obs"  -> WalkBack(h, WalkBack(h, i, "Obs"), "Call")
                   [] h[i].kind = "Call" -> WalkBack(h, i, "Call")
                   [] OTHER              -> i
    IN  IF /\ start > 1
           /\ h[start].kind \in {"Call", "Obs"}
           /\ h[start - 1].kind = "Reasoned"
        THEN start - 1
        ELSE start

\* RuntimeHistory::compaction_split_index; 1 says there is nothing to compact.
FirstKept(h, keep) ==
    IF Len(h) <= 1
    THEN 1
    ELSE LET atLeastOne == IF keep < 1 THEN 1 ELSE keep
             kept == IF atLeastOne > Len(h) - 1 THEN Len(h) - 1 ELSE atLeastOne
         IN  ToolBoundary(h, Len(h) - kept + 1)

\* RuntimeHistory::compaction_prefix
CompactionPrefix(h, keep) == SubSeq(h, 1, FirstKept(h, keep) - 1)

\* RuntimeHistory::compact_old_items: the summary stands for the prefix.
CompactOldItems(h, keep, summary) ==
    IF FirstKept(h, keep) = 1
    THEN h
    ELSE <<summary>> \o SubSeq(h, FirstKept(h, keep), Len(h))

\* should_compact, for a history above the size threshold: not again before
\* twice the kept number of items came after the last summary.
CooledDown(h, keep) ==
    \A i \in 1..Len(h) :
        h[i].kind = "Summary" /\ (\A j \in (i + 1)..Len(h) : h[j].kind # "Summary")
            => Len(h) - i >= 2 * keep

-----------------------------------------------------------------------------
(* The messages for the model *)

\* collect_tool_exchange: a run of calls and the run of observations after it.
ExchangeStarts(h, i) ==
    /\ i \in 1..Len(h)
    /\ h[i].kind = "Call"
    /\ i = 1 \/ h[i - 1].kind # "Call"

CallsOf(h, i) == i..(WalkOn(h, i, "Call") - 1)

ObservationsOf(h, i) ==
    LET first == WalkOn(h, i, "Call") IN first..(WalkOn(h, first, "Obs") - 1)

\* Mutant: observations of other calls are not counted.
ExchangeAnswered(h, i) ==
    \A c \in CallsOf(h, i) : \E o \in ObservationsOf(h, i) : h[o].call = h[c].call

\* tool_exchange_is_complete
ExchangeComplete(h, i) ==
    LET first == WalkOn(h, i, "Call")
        beyond == WalkOn(h, first, "Obs")
    IN  /\ first - i = beyond - first
        /\ \A c \in CallsOf(h, i) :
               \E o \in ObservationsOf(h, i) : h[o].call = h[c].call

\* The item belongs to an exchange that is sent in the native tool protocol.
InCompleteExchange(h, i) ==
    \E s \in 1..i : /\ ExchangeStarts(h, s)
                    /\ ExchangeComplete(h, s)
                    /\ i \in CallsOf(h, s) \cup ObservationsOf(h, s)

Message(role, calls, reasoned) == [role |-> role, calls |-> calls, reasoned |-> reasoned]

\* The messages that item i adds (history_to_messages).  The calls of an
\* exchange share one assistant message, which takes over the reasoning right
\* before it; an incomplete exchange and a stray observation become text.
MessagesAt(h, i) ==
    CASE h[i].kind = "User"      -> <<Message("user", <<>>, FALSE)>>
      [] h[i].kind = "Assistant" -> <<Message("assistant", <<>>, FALSE)>>
      [] h[i].kind = "Summary"   -> <<Message("system", <<>>, FALSE)>>
      [] h[i].kind = "Reasoned"  ->
            IF ExchangeStarts(h, i + 1) /\ ExchangeComplete(h, i + 1)
            THEN <<>>
            ELSE <<Message("assistant", <<>>, TRUE)>>
      [] h[i].kind = "Call" ->
            IF ~ExchangeStarts(h, i)
            THEN <<>>
            ELSE IF ExchangeComplete(h, i)
                 THEN LET n == WalkOn(h, i, "Call") - i
                      IN  <<Message("assistant", [m \in 1..n |-> h[i + m - 1].call],
                                    i > 1 /\ h[i - 1].kind = "Reasoned")>>
                 ELSE <<Message("system", <<>>, FALSE)>>
      [] h[i].kind = "Obs" ->
            IF InCompleteExchange(h, i)
            THEN <<Message("tool", <<h[i].call>>, FALSE)>>
            ELSE IF \E s \in 1..i : ExchangeStarts(h, s) /\ i \in ObservationsOf(h, s)
                 THEN <<>>
                 ELSE <<Message("system", <<>>, FALSE)>>

\* history_to_messages
Messages(h) ==
    LET upTo[i \in 0..Len(h)] == IF i = 0 THEN <<>> ELSE upTo[i - 1] \o MessagesAt(h, i)
    IN  upTo[Len(h)]

=============================================================================
