------------------------ MODULE TerminalIngressProofs ------------------------
(***************************************************************************)
(* Theorems about one terminal connection, for every number of chunks,     *)
(* every budget and every assignment of lengths.                           *)
(*                                                                         *)
(* The invariant has two halves.  BudgetInv says what the three counters   *)
(* are: sums over the chunks at certain stages.  DeliveryInv follows an    *)
(* accepted chunk through the lane, the guard and the parser; most steps   *)
(* are quiet: they neither accept a chunk nor move one that was accepted   *)
(* further than out of its reservation.                                    *)
(***************************************************************************)
EXTENDS TerminalIngress, FiniteSetTheorems, SequenceTheorems, TLAPS

Within(stages) == {c \in Chunk : at[c] \in stages}

PermitStages == Stage \ {"idle", "bytes", "gone"}
CountStages == PermitStages \ {"assigned", "acquired", "tried", "uncounted"}
SlotStages == {"given", "slotted", "sending", "queued"}

(* The stages of a chunk that was accepted.                                *)
Final == {"queued", "taken", "dropping", "uncounted", "gone"}

BudgetInv ==
    /\ at \in [Chunk -> Stage]
    /\ freeBytes \in Nat /\ freeBytes + Bytes[Within(PermitStages)] = MaxBytes
    /\ pendingBytes = Bytes[Within(CountStages)]
    /\ freeSlots \in Nat /\ freeSlots + Cardinality(Within(SlotStages)) = MaxChunks

Replies == {"none", "Ok", "Full", "Closed"}

(* Only what is not yet or no longer in a lane moves without being seen.   *)
Quiet ==
    /\ lane' = lane
    /\ reply' \in [Chunk -> Replies]
    /\ \A c \in Chunk : /\ Accepted(c)' <=> Accepted(c)
                        /\ at'[c] = "queued" <=> at[c] = "queued"
                        /\ at'[c] = "taken" <=> at[c] = "taken"
                        /\ Accepted(c) /\ at[c] \in Final => at'[c] \in Final

AcceptedInv ==
    /\ reply \in [Chunk -> Replies]
    /\ \A c \in Chunk : Accepted(c) => at[c] \in Final

(* The data lane holds the queued chunks, each accepted, in reading order. *)
LaneInv ==
    /\ lane \in Seq(Chunk)
    /\ \A i \in 1 .. Len(lane) : at[lane[i]] = "queued" /\ Accepted(lane[i])
    /\ \A i, j \in 1 .. Len(lane) : i < j => lane[i] < lane[j]
    /\ \A c \in Chunk : at[c] = "queued" => \E i \in 1 .. Len(lane) : lane[i] = c

Sendable(c) == c > read \/ (Polled(c) /\ ~Accepted(c))
InParsed(c) == \E i \in 1 .. Len(parsed) : parsed[i] = c

(* Whatever a send may still put into the lane was read after everything   *)
(* that a send accepted.                                                   *)
OrderInv == \A c, d \in Chunk : Accepted(c) /\ Sendable(d) => c < d

(* The parser holds at most one chunk, which is ahead of the lane.         *)
GuardInv ==
    /\ \A c \in Chunk : at[c] = "taken" => parser = "parse" /\ c = guard
    /\ parser = "parse" => /\ guard \in Chunk /\ at[guard] = "taken" /\ Accepted(guard)
                           /\ \A i \in 1 .. Len(lane) : guard < lane[i]

ParsedInv ==
    /\ parsed \in Seq(Chunk)
    /\ \A i \in 1 .. Len(parsed) : Accepted(parsed[i]) /\ at[parsed[i]] \notin {"queued", "taken"}
    /\ \A i, j \in 1 .. Len(parsed) : j < i => parsed[j] < parsed[i]
    /\ \A i \in 1 .. Len(parsed) : \A c \in Chunk : c <= parsed[i] /\ Accepted(c) => InParsed(c)

(* Until its loop ends, the parser loses nothing.                          *)
Loop == {"top", "recv", "controls", "data", "parse", "release", "drained"}
LoopInv ==
    parser \in Loop => \A c \in Chunk : Accepted(c) => at[c] \in {"queued", "taken"} \/ InParsed(c)

(* SourceClosed is the last thing a source offers.                         *)
Past == {"control", "finish", "dropping", "await", "done"}
ControlInv == (control # "none" => worker \in Past) /\ (closing => control # "none")

DrainedInv ==
    parser = "drained" \/ completion = "Drained" =>
        closing /\ \A c \in Chunk : Accepted(c) => InParsed(c)

(* The rest of the state: a chunk outside the queue has been read.         *)
WorldInv ==
    /\ bytesClosed \in BOOLEAN /\ cancelled \in BOOLEAN /\ lanesClosed \in BOOLEAN
    /\ control \in {"none", "offered", "sending", "queued", "taken", "refused", "dropped"}
    /\ senders \subseteq {"worker", "owner", "closer"}
    /\ transport \in Transports
    /\ worker \in {"select", "trying", "blocked", "message", "trail", "trailing", "abort",
                   "cancel", "close", "control", "finish", "dropping", "await", "done"}
    /\ read \in 0 .. MaxRead /\ pending \in 0 .. read
    /\ worker = "trying" => pending # 0
    /\ owner \in {"live", "stopping", "marked", "closed", "aborted", "dropped"}
    /\ parser \in {"top", "recv", "controls", "data", "parse", "release", "drained", "abort",
                   "cancel", "close", "drain", "ended"}
    /\ guard \in 0 .. MaxRead
    /\ closing \in BOOLEAN /\ leaving \in BOOLEAN
    /\ completion \in {"Running", "Drained", "Aborted"}

DeliveryInv ==
    AcceptedInv /\ LaneInv /\ OrderInv /\ GuardInv /\ ParsedInv /\ LoopInv /\ ControlInv /\ DrainedInv

-----------------------------------------------------------------------------
(* What moving one chunk does to a sum of lengths, and to a number of      *)
(* slots.                                                                  *)

LEMMA MoveWithin ==
    ASSUME NEW Q, NEW c \in Chunk, NEW s \in Stage, at \in [Chunk -> Stage], Move(c, s)
    PROVE  /\ at' \in [Chunk -> Stage]
           /\ Within(Q) \in SUBSET Chunk
           /\ Within(Q)' = IF s \in Q THEN Within(Q) \cup {c} ELSE Within(Q) \ {c}
           /\ c \in Within(Q) <=> at[c] \in Q
<1>1. at' \in [Chunk -> Stage]
  BY DEF Move
<1>2. \A d \in Chunk : at'[d] = IF d = c THEN s ELSE at[d]
  BY DEF Move
<1>3. Within(Q) \in SUBSET Chunk /\ (c \in Within(Q) <=> at[c] \in Q)
  BY DEF Within
<1>4. Within(Q)' = {d \in Chunk : at'[d] \in Q}
  BY DEF Within
<1>5. Within(Q)' = IF s \in Q THEN Within(Q) \cup {c} ELSE Within(Q) \ {c}
  BY <1>2, <1>4 DEF Within
<1> QED
  BY <1>1, <1>3, <1>5

LEMMA MoveBytes ==
    ASSUME NEW Q, NEW c \in Chunk, NEW s \in Stage, at \in [Chunk -> Stage], Move(c, s)
    PROVE  /\ Bytes[Within(Q)] \in Nat /\ Bytes[Within(Q)'] \in Nat
           /\ (at[c] \in Q <=> s \in Q) => Bytes[Within(Q)'] = Bytes[Within(Q)]
           /\ at[c] \in Q /\ s \notin Q => Bytes[Within(Q)] = Bytes[Within(Q)'] + Bytes[{c}]
           /\ at[c] \notin Q /\ s \in Q => Bytes[Within(Q)'] = Bytes[Within(Q)] + Bytes[{c}]
<1> DEFINE W == Within(Q)  V == Within(Q)'
<1>1. /\ W \in SUBSET Chunk
      /\ V = IF s \in Q THEN W \cup {c} ELSE W \ {c}
      /\ c \in W <=> at[c] \in Q
  BY MoveWithin
<1>2. \A S \in SUBSET Chunk : \A d \in Chunk \ S : Bytes[S \cup {d}] = Bytes[S] + Bytes[{d}]
  BY BytesAssumption
<1>3. \A S \in SUBSET Chunk : Bytes[S] \in Nat
  BY BytesAssumption
<1> HIDE DEF W, V
<1>4. V \in SUBSET Chunk
  BY <1>1
<1>5. Bytes[W] \in Nat /\ Bytes[V] \in Nat
  BY <1>1, <1>3, <1>4
<1>6. (at[c] \in Q <=> s \in Q) => V = W
  BY <1>1
<1>7. at[c] \in Q /\ s \notin Q => c \in Chunk \ V /\ W = V \cup {c}
  BY <1>1
<1>8. at[c] \notin Q /\ s \in Q => c \in Chunk \ W /\ V = W \cup {c}
  BY <1>1
<1> QED
  BY <1>1, <1>2, <1>4, <1>5, <1>6, <1>7, <1>8 DEF W, V

LEMMA ChunksFinite == \A S \in SUBSET Chunk : IsFiniteSet(S) /\ Cardinality(S) \in Nat
<1>1. IsFiniteSet(Chunk)
  BY FS_Interval, BudgetAssumption DEF Chunk
<1> QED
  BY <1>1, FS_Subset, FS_CardinalityType

LEMMA MoveSlots ==
    ASSUME NEW Q, NEW c \in Chunk, NEW s \in Stage, at \in [Chunk -> Stage], Move(c, s)
    PROVE  /\ Cardinality(Within(Q)) \in Nat /\ Cardinality(Within(Q)') \in Nat
           /\ (at[c] \in Q <=> s \in Q) => Cardinality(Within(Q)') = Cardinality(Within(Q))
           /\ at[c] \in Q /\ s \notin Q => Cardinality(Within(Q)) = Cardinality(Within(Q)') + 1
           /\ at[c] \notin Q /\ s \in Q => Cardinality(Within(Q)') = Cardinality(Within(Q)) + 1
<1> DEFINE W == Within(Q)  V == Within(Q)'
<1>1. /\ W \in SUBSET Chunk
      /\ V = IF s \in Q THEN W \cup {c} ELSE W \ {c}
      /\ c \in W <=> at[c] \in Q
  BY MoveWithin
<1> HIDE DEF W, V
<1>2. IsFiniteSet(W) /\ Cardinality(W) \in Nat
  BY <1>1, ChunksFinite
<1>3. /\ Cardinality(W \cup {c}) = IF c \in W THEN Cardinality(W) ELSE Cardinality(W) + 1
      /\ Cardinality(W \ {c}) = IF c \in W THEN Cardinality(W) - 1 ELSE Cardinality(W)
  BY <1>2, FS_AddElement, FS_RemoveElement
<1>4. V \in SUBSET Chunk
  BY <1>1
<1>5. Cardinality(V) \in Nat
  BY <1>4, ChunksFinite
<1>6. (at[c] \in Q <=> s \in Q) => V = W
  BY <1>1
<1>7. at[c] \in Q /\ s \notin Q => Cardinality(V) = Cardinality(W) - 1
  BY <1>1, <1>3
<1>8. at[c] \notin Q /\ s \in Q => Cardinality(V) = Cardinality(W) + 1
  BY <1>1, <1>3
<1> QED
  BY <1>2, <1>5, <1>6, <1>7, <1>8 DEF W, V

(* A chunk moves, and each counter follows it in or out.                   *)
LEMMA BudgetMove ==
    ASSUME BudgetInv, NEW c \in Chunk, NEW s \in Stage, Move(c, s),
           \/ (at[c] \in PermitStages <=> s \in PermitStages) /\ freeBytes' = freeBytes
           \/ /\ at[c] \in PermitStages /\ s \notin PermitStages
              /\ freeBytes' = freeBytes + Bytes[{c}]
           \/ /\ at[c] \notin PermitStages /\ s \in PermitStages
              /\ freeBytes' = freeBytes - Bytes[{c}] /\ Bytes[{c}] <= freeBytes,
           \/ (at[c] \in CountStages <=> s \in CountStages) /\ pendingBytes' = pendingBytes
           \/ /\ at[c] \in CountStages /\ s \notin CountStages
              /\ pendingBytes' = pendingBytes - Bytes[{c}]
           \/ /\ at[c] \notin CountStages /\ s \in CountStages
              /\ pendingBytes' = pendingBytes + Bytes[{c}],
           \/ (at[c] \in SlotStages <=> s \in SlotStages) /\ freeSlots' = freeSlots
           \/ at[c] \in SlotStages /\ s \notin SlotStages /\ freeSlots' = freeSlots + 1
           \/ /\ at[c] \notin SlotStages /\ s \in SlotStages
              /\ freeSlots' = freeSlots - 1 /\ freeSlots > 0
    PROVE  BudgetInv'
<1> DEFINE b == Bytes[{c}]
<1>1. at \in [Chunk -> Stage] /\ freeBytes \in Nat /\ freeSlots \in Nat
  BY DEF BudgetInv
<1>2. b \in Nat
  BY BytesAssumption
<1>3. at' \in [Chunk -> Stage]
  BY <1>1, MoveWithin
<1> HIDE DEF b
<1>4. freeBytes' \in Nat /\ freeBytes' + Bytes[Within(PermitStages)'] = MaxBytes
  <2> DEFINE x == Bytes[Within(PermitStages)]  y == Bytes[Within(PermitStages)']
  <2>1. /\ x \in Nat /\ y \in Nat
        /\ (at[c] \in PermitStages <=> s \in PermitStages) => y = x
        /\ at[c] \in PermitStages /\ s \notin PermitStages => x = y + b
        /\ at[c] \notin PermitStages /\ s \in PermitStages => y = x + b
    BY <1>1, MoveBytes DEF b
  <2>2. freeBytes + x = MaxBytes
    BY DEF BudgetInv
  <2> HIDE DEF x, y
  <2>3. freeBytes' \in Nat /\ freeBytes' + y = MaxBytes
    BY <1>1, <1>2, <2>1, <2>2 DEF b
  <2> QED
    BY <2>3 DEF y
<1>5. pendingBytes' = Bytes[Within(CountStages)']
  <2> DEFINE x == Bytes[Within(CountStages)]  y == Bytes[Within(CountStages)']
  <2>1. /\ x \in Nat /\ y \in Nat
        /\ (at[c] \in CountStages <=> s \in CountStages) => y = x
        /\ at[c] \in CountStages /\ s \notin CountStages => x = y + b
        /\ at[c] \notin CountStages /\ s \in CountStages => y = x + b
    BY <1>1, MoveBytes DEF b
  <2>2. pendingBytes = x
    BY DEF BudgetInv
  <2> HIDE DEF x, y
  <2>3. pendingBytes' = y
    BY <1>2, <2>1, <2>2 DEF b
  <2> QED
    BY <2>3 DEF y
<1>6. freeSlots' \in Nat /\ freeSlots' + Cardinality(Within(SlotStages)') = MaxChunks
  <2> DEFINE x == Cardinality(Within(SlotStages))  y == Cardinality(Within(SlotStages)')
  <2>1. /\ x \in Nat /\ y \in Nat
        /\ (at[c] \in SlotStages <=> s \in SlotStages) => y = x
        /\ at[c] \in SlotStages /\ s \notin SlotStages => x = y + 1
        /\ at[c] \notin SlotStages /\ s \in SlotStages => y = x + 1
    BY <1>1, MoveSlots
  <2>2. freeSlots + x = MaxChunks
    BY DEF BudgetInv
  <2> HIDE DEF x, y
  <2>3. freeSlots' \in Nat /\ freeSlots' + y = MaxChunks
    BY <1>1, <2>1, <2>2, BudgetAssumption
  <2> QED
    BY <2>3 DEF y
<1> QED
  BY <1>3, <1>4, <1>5, <1>6 DEF BudgetInv, PermitStages, CountStages, SlotStages

-----------------------------------------------------------------------------
(* The operations of the queue.                                            *)

LEMMA QuietMove ==
    ASSUME at \in [Chunk -> Stage], AcceptedInv, NEW c \in Chunk, NEW s \in Stage, Move(c, s),
           lane' = lane,
           reply' = reply \/ (at[c] \notin Final /\ \E r \in Replies \ {"Ok"} : Answer(c, r)),
           at[c] \notin {"queued", "taken"}, s \notin {"queued", "taken"},
           at[c] \in Final => s \in Final
    PROVE  Quiet
<1>1. \A d \in Chunk : at'[d] = IF d = c THEN s ELSE at[d]
  BY DEF Move
<1>2. /\ reply' \in [Chunk -> Replies]
      /\ \A d \in Chunk : reply'[d] = reply[d] \/ (d = c /\ reply'[d] # "Ok" /\ at[c] \notin Final)
  BY DEF Answer, AcceptedInv
<1>3. \A d \in Chunk : (reply'[d] = "Ok") <=> (reply[d] = "Ok")
  BY <1>2 DEF AcceptedInv, Accepted
<1>4. \A d \in Chunk : /\ at'[d] = "queued" <=> at[d] = "queued"
                       /\ at'[d] = "taken" <=> at[d] = "taken"
                       /\ at[d] \in Final => at'[d] \in Final
  BY <1>1
<1> QED
  BY <1>2, <1>3, <1>4 DEF Quiet, Accepted

LEMMA StageFacts ==
    /\ PermitStages \subseteq Stage /\ CountStages \subseteq PermitStages
    /\ SlotStages \subseteq CountStages /\ Awaiting \subseteq Stage /\ Final \subseteq Stage
BY DEF PermitStages, CountStages, SlotStages, Awaiting, Final, Stage

(* The steps of a send up to the one that puts its payload into the lane.  *)
LEMMA SendQuiet ==
    ASSUME BudgetInv, AcceptedInv, NEW c \in Chunk,
           \/ OfferWaiting(c) \/ PollBytes(c) \/ ReserveBytes(c) \/ ReserveSlot(c)
           \/ PollSlot(c) \/ RecheckAbort(c) \/ TrySlot(c)
    PROVE  BudgetInv' /\ Quiet
<1> USE DEF PermitStages, CountStages, SlotStages, Stage, Final, Replies, budgetVars, abortVars
<1>0. at \in [Chunk -> Stage] /\ Bytes[{c}] \in Nat /\ freeBytes \in Nat /\ freeSlots \in Nat
  BY BytesAssumption DEF BudgetInv
<1>1. CASE OfferWaiting(c)
  <2>1. PICK s \in {"gone", "acquired", "bytes"} :
            /\ Move(c, s) /\ at[c] = "idle" /\ lane' = lane
            /\ pendingBytes' = pendingBytes /\ freeSlots' = freeSlots
            /\ IF s = "acquired" THEN freeBytes' = freeBytes - Bytes[{c}] /\ Bytes[{c}] <= freeBytes
                                 ELSE freeBytes' = freeBytes
            /\ reply' = reply \/ Answer(c, "Closed")
    BY <1>1 DEF OfferWaiting, BytesAvailable
  <2>2. BudgetInv'
    BY <2>1, BudgetMove
  <2>3. Quiet
    BY <1>0, <2>1, QuietMove
  <2> QED
    BY <2>2, <2>3
<1>2. CASE PollBytes(c)
  <2>1. PICK s \in {"gone", "uncounted", "acquired"} :
            /\ Move(c, s) /\ at[c] \in {"bytes", "assigned"} /\ lane' = lane
            /\ at[c] = "bytes" <=> s = "gone"
            /\ pendingBytes' = pendingBytes /\ freeSlots' = freeSlots /\ freeBytes' = freeBytes
            /\ reply' = reply \/ Answer(c, "Closed")
    BY <1>2 DEF PollBytes
  <2>2. BudgetInv'
    BY <2>1, BudgetMove
  <2>3. Quiet
    BY <1>0, <2>1, QuietMove
  <2> QED
    BY <2>2, <2>3
<1>3. CASE ReserveBytes(c)
  <2>1. PICK s \in {"tryslot", "reserved"} :
            /\ Move(c, s) /\ at[c] \in {"acquired", "tried"} /\ lane' = lane
            /\ pendingBytes' = pendingBytes + Bytes[{c}]
            /\ freeSlots' = freeSlots /\ freeBytes' = freeBytes /\ reply' = reply
    BY <1>3 DEF ReserveBytes
  <2>2. BudgetInv'
    BY <2>1, BudgetMove
  <2>3. Quiet
    BY <1>0, <2>1, QuietMove
  <2> QED
    BY <2>2, <2>3
<1>4. CASE ReserveSlot(c) \/ TrySlot(c)
  <2>1. PICK s \in {"dropping", "slotted", "sending", "slot"} :
            /\ Move(c, s) /\ at[c] \in {"reserved", "tryslot"} /\ lane' = lane
            /\ pendingBytes' = pendingBytes /\ freeBytes' = freeBytes
            /\ IF s \in {"slotted", "sending"} THEN freeSlots' = freeSlots - 1 /\ freeSlots > 0
                                               ELSE freeSlots' = freeSlots
            /\ reply' = reply \/ Answer(c, "Closed") \/ Answer(c, "Full")
    BY <1>4 DEF ReserveSlot, TrySlot, SlotAvailable
  <2>2. BudgetInv'
    BY <2>1, BudgetMove
  <2>3. Quiet
    BY <1>0, <2>1, QuietMove
  <2> QED
    BY <2>2, <2>3
<1>5. CASE PollSlot(c) \/ RecheckAbort(c)
  <2>1. PICK s \in {"dropping", "slotted", "sending"} :
            /\ Move(c, s) /\ at[c] \in {"slot", "given", "slotted"} /\ lane' = lane
            /\ at[c] = "slot" => s = "dropping"
            /\ pendingBytes' = pendingBytes /\ freeBytes' = freeBytes
            /\ freeSlots' = IF at[c] # "slot" /\ s = "dropping" THEN freeSlots + 1 ELSE freeSlots
            /\ reply' = reply \/ Answer(c, "Closed")
    BY <1>5 DEF PollSlot, RecheckAbort
  <2>2. BudgetInv'
    BY <2>1, BudgetMove
  <2>3. Quiet
    BY <1>0, <2>1, QuietMove
  <2> QED
    BY <2>2, <2>3
<1> QED
  BY <1>1, <1>2, <1>3, <1>4, <1>5

(* What happens to a send from outside: a try, permits and slots granted,  *)
(* its future or its reservation dropped.                                  *)
LEMMA QueueQuiet ==
    ASSUME BudgetInv, AcceptedInv, NEW c \in Chunk,
           \/ OfferNow(c) \/ AssignBytes(c) \/ AssignSlot(c) \/ DropSend(c) \/ DropReservation(c)
    PROVE  BudgetInv' /\ Quiet
<1> USE DEF PermitStages, CountStages, SlotStages, Stage, Final, Replies, budgetVars, abortVars
<1>0. at \in [Chunk -> Stage] /\ Bytes[{c}] \in Nat /\ freeBytes \in Nat /\ freeSlots \in Nat
  BY BytesAssumption DEF BudgetInv
<1>1. CASE OfferNow(c)
  <2>1. PICK s \in {"gone", "tried"} :
            /\ Move(c, s) /\ at[c] = "idle" /\ lane' = lane
            /\ pendingBytes' = pendingBytes /\ freeSlots' = freeSlots
            /\ IF s = "tried" THEN freeBytes' = freeBytes - Bytes[{c}] /\ Bytes[{c}] <= freeBytes
                              ELSE freeBytes' = freeBytes
            /\ reply' = reply \/ Answer(c, "Closed") \/ Answer(c, "Full")
    BY <1>1 DEF OfferNow, BytesAvailable
  <2>2. BudgetInv'
    BY <2>1, BudgetMove
  <2>3. Quiet
    BY <1>0, <2>1, QuietMove
  <2> QED
    BY <2>2, <2>3
<1>2. CASE AssignBytes(c)
  <2>1. /\ Move(c, "assigned") /\ at[c] = "bytes" /\ lane' = lane /\ reply' = reply
        /\ pendingBytes' = pendingBytes /\ freeSlots' = freeSlots
        /\ freeBytes' = freeBytes - Bytes[{c}] /\ Bytes[{c}] <= freeBytes
    BY <1>2 DEF AssignBytes
  <2>2. BudgetInv'
    BY <2>1, BudgetMove
  <2>3. Quiet
    BY <1>0, <2>1, QuietMove
  <2> QED
    BY <2>2, <2>3
<1>3. CASE AssignSlot(c)
  <2>1. /\ Move(c, "given") /\ at[c] = "slot" /\ lane' = lane /\ reply' = reply
        /\ pendingBytes' = pendingBytes /\ freeBytes' = freeBytes
        /\ freeSlots' = freeSlots - 1 /\ freeSlots > 0
    BY <1>3 DEF AssignSlot
  <2>2. BudgetInv'
    BY <2>1, BudgetMove
  <2>3. Quiet
    BY <1>0, <2>1, QuietMove
  <2> QED
    BY <2>2, <2>3
<1>4. CASE DropSend(c)
  <2>1. PICK s \in {"gone", "uncounted", "dropping"} :
            /\ Move(c, s) /\ lane' = lane /\ reply' = reply
            /\ \/ at[c] \in {"idle", "bytes"} /\ s = "gone"
               \/ at[c] = "assigned" /\ s = "uncounted"
               \/ at[c] \in {"slot", "given"} /\ s = "dropping"
            /\ pendingBytes' = pendingBytes /\ freeBytes' = freeBytes
            /\ freeSlots' = IF at[c] = "given" THEN freeSlots + 1 ELSE freeSlots
    BY <1>4 DEF DropSend, Awaiting
  <2>2. BudgetInv'
    BY <2>1, BudgetMove
  <2>3. Quiet
    BY <1>0, <2>1, QuietMove
  <2> QED
    BY <2>2, <2>3
<1>5. CASE DropReservation(c)
  <2>1. PICK s \in {"gone", "uncounted"} :
            /\ Move(c, s) /\ lane' = lane /\ reply' = reply /\ freeSlots' = freeSlots
            /\ \/ /\ at[c] = "dropping" /\ s = "uncounted"
                  /\ pendingBytes' = pendingBytes - Bytes[{c}] /\ freeBytes' = freeBytes
               \/ /\ at[c] = "uncounted" /\ s = "gone"
                  /\ pendingBytes' = pendingBytes /\ freeBytes' = freeBytes + Bytes[{c}]
    BY <1>5 DEF DropReservation
  <2>2. BudgetInv'
    BY <2>1, BudgetMove
  <2>3. Quiet
    BY <1>0, <2>1, QuietMove
  <2> QED
    BY <2>2, <2>3
<1> QED
  BY <1>1, <1>2, <1>3, <1>4, <1>5

(* A full chunk goes back to its caller.                                   *)
LEMMA HandBack ==
    ASSUME BudgetInv, AcceptedInv, NEW c \in Chunk, at[c] = "gone", reply[c] = "Full",
           Move(c, "idle"), Answer(c, "none"), UNCHANGED << budgetVars, lane >>
    PROVE  BudgetInv' /\ Quiet
<1> USE DEF PermitStages, CountStages, SlotStages, Stage, Final, Replies, budgetVars
<1>1. BudgetInv'
  BY BudgetMove
<1>2. \A d \in Chunk : at'[d] = IF d = c THEN "idle" ELSE at[d]
  BY DEF Move, BudgetInv
<1>3. reply' \in [Chunk -> Replies] /\ \A d \in Chunk : reply'[d] = IF d = c THEN "none" ELSE reply[d]
  BY DEF Answer, AcceptedInv
<1>4. \A d \in Chunk : (reply'[d] = "Ok") <=> (reply[d] = "Ok")
  BY <1>3
<1> QED
  BY <1>1, <1>2, <1>3, <1>4 DEF Quiet, Accepted

LEMMA SendBudget == ASSUME BudgetInv, NEW c \in Chunk, SendSlot(c) PROVE BudgetInv'
<1> USE DEF PermitStages, CountStages, SlotStages, Stage
<1>1. /\ Move(c, "queued") /\ at[c] = "sending"
      /\ freeBytes' = freeBytes /\ pendingBytes' = pendingBytes /\ freeSlots' = freeSlots
  BY DEF SendSlot, budgetVars
<1> QED
  BY <1>1, BudgetMove

(* The head of the lane is the oldest chunk in it.                         *)
LEMMA TakeEffect ==
    ASSUME BudgetInv, AcceptedInv, LaneInv, NEW s \in {"taken", "dropping"}, TakeData(s)
    PROVE  /\ BudgetInv' /\ AcceptedInv' /\ LaneInv'
           /\ Head(lane) \in Chunk /\ at[Head(lane)] = "queued" /\ Accepted(Head(lane))
           /\ \A i \in 1 .. Len(lane') : Head(lane) < lane'[i]
           /\ \A c \in Chunk : /\ at'[c] = IF c = Head(lane) THEN s ELSE at[c]
                               /\ Accepted(c)' <=> Accepted(c)
<1> DEFINE h == Head(lane)
<1>0. at \in [Chunk -> Stage]
  BY DEF BudgetInv
<1>1. /\ lane # << >> /\ lane' = Tail(lane) /\ Move(h, s) /\ freeSlots' = freeSlots + 1
      /\ freeBytes' = freeBytes /\ pendingBytes' = pendingBytes /\ reply' = reply
  BY DEF TakeData
<1>2. /\ lane \in Seq(Chunk) /\ Len(lane) \in Nat /\ Len(lane) > 0
      /\ h \in Chunk /\ h = lane[1]
      /\ lane' \in Seq(Chunk) /\ Len(lane') = Len(lane) - 1
      /\ \A i \in 1 .. Len(lane') : lane'[i] = lane[i + 1]
  BY <1>1, HeadTailProperties DEF LaneInv
<1>3. at[h] = "queued" /\ Accepted(h)
  BY <1>2 DEF LaneInv
<1> HIDE DEF h
<1>4. \A c \in Chunk : at'[c] = IF c = h THEN s ELSE at[c]
  BY <1>0, <1>1 DEF Move
<1>5. \A c \in Chunk : Accepted(c)' <=> Accepted(c)
  BY <1>1 DEF Accepted
<1>6. \A i \in 1 .. Len(lane') : i + 1 \in 1 .. Len(lane) /\ h < lane'[i] /\ lane'[i] \in Chunk
  <2> SUFFICES ASSUME NEW i \in 1 .. Len(lane')
               PROVE  i + 1 \in 1 .. Len(lane) /\ h < lane'[i] /\ lane'[i] \in Chunk
    OBVIOUS
  <2>1. i + 1 \in 1 .. Len(lane) /\ 1 < i + 1 /\ 1 \in 1 .. Len(lane) /\ lane'[i] = lane[i + 1]
    BY <1>2
  <2>2. lane[1] < lane[i + 1] /\ lane[i + 1] \in Chunk
    BY <1>2, <2>1 DEF LaneInv
  <2> QED
    BY <1>2, <2>1, <2>2
<1>7. BudgetInv'
  BY <1>1, <1>2, <1>3, BudgetMove DEF PermitStages, CountStages, SlotStages, Stage
<1>8. AcceptedInv'
  <2>1. reply' \in [Chunk -> Replies]
    BY <1>1 DEF AcceptedInv
  <2>2. \A c \in Chunk : Accepted(c)' => at'[c] \in Final
    BY <1>4, <1>5 DEF AcceptedInv, Final
  <2> QED
    BY <2>1, <2>2 DEF AcceptedInv
<1>9. LaneInv'
  <2>1. \A i \in 1 .. Len(lane') : at'[lane'[i]] = "queued"
    <3>1. ASSUME NEW i \in 1 .. Len(lane')
          PROVE  lane'[i] \in Chunk /\ lane'[i] # h /\ at[lane'[i]] = "queued"
      <4>1. i + 1 \in 1 .. Len(lane) /\ lane'[i] = lane[i + 1] /\ h < lane'[i] /\ lane'[i] \in Chunk
        BY <1>2, <1>6
      <4>2. at[lane[i + 1]] = "queued"
        BY <4>1 DEF LaneInv
      <4> QED
        BY <1>2, <4>1, <4>2 DEF Chunk
    <3> QED
      BY <3>1, <1>4
  <2>2. \A i \in 1 .. Len(lane') : reply'[lane'[i]] = "Ok"
    BY <1>1, <1>2, <1>6 DEF LaneInv, Accepted
  <2>3. \A i, j \in 1 .. Len(lane') : i < j => lane'[i] < lane'[j]
    <3> SUFFICES ASSUME NEW i \in 1 .. Len(lane'), NEW j \in 1 .. Len(lane'), i < j
                 PROVE  lane'[i] < lane'[j]
      OBVIOUS
    <3>1. /\ i + 1 \in 1 .. Len(lane) /\ j + 1 \in 1 .. Len(lane) /\ i + 1 < j + 1
          /\ lane'[i] = lane[i + 1] /\ lane'[j] = lane[j + 1]
      BY <1>2
    <3> QED
      BY <3>1 DEF LaneInv
  <2>4. ASSUME NEW c \in Chunk, at'[c] = "queued"
        PROVE  \E i \in 1 .. Len(lane') : lane'[i] = c
    <3>1. at[c] = "queued" /\ c # h
      BY <1>4, <2>4
    <3>2. PICK i \in 1 .. Len(lane) : lane[i] = c
      BY <3>1 DEF LaneInv
    <3>3. i # 1
      BY <3>1, <3>2, <1>2
    <3>4. i - 1 \in 1 .. Len(lane') /\ lane'[i - 1] = c
      BY <3>2, <3>3, <1>2
    <3> QED
      BY <3>4
  <2> QED
    BY <1>2, <2>1, <2>2, <2>3, <2>4 DEF LaneInv, Accepted
<1>10. h \in Chunk /\ \A i \in 1 .. Len(lane') : h < lane'[i]
  BY <1>2, <1>6
<1>11. Head(lane) \in Chunk /\ at[Head(lane)] = "queued" /\ Accepted(Head(lane))
  BY <1>3, <1>10 DEF h
<1>12. \A i \in 1 .. Len(lane') : Head(lane) < lane'[i]
  BY <1>10 DEF h
<1>13. \A c \in Chunk : at'[c] = IF c = Head(lane) THEN s ELSE at[c]
  BY <1>4 DEF h
<1>14. \A c \in Chunk : /\ at'[c] = IF c = Head(lane) THEN s ELSE at[c]
                        /\ Accepted(c)' <=> Accepted(c)
  BY <1>5, <1>13 DEF Accepted
<1> QED
  BY <1>7, <1>8, <1>9, <1>11, <1>12, <1>14

LEMMA QuietLane ==
    ASSUME AcceptedInv, LaneInv, Quiet
    PROVE  AcceptedInv' /\ LaneInv'
<1>1. \A c \in Chunk : (reply'[c] = "Ok") <=> (reply[c] = "Ok")
  BY DEF Quiet, Accepted
<1>2. AcceptedInv'
  BY <1>1 DEF AcceptedInv, Quiet, Accepted
<1>3. \A i \in 1 .. Len(lane) : lane[i] \in Chunk
  BY DEF LaneInv
<1>4. LaneInv'
  BY <1>1, <1>3 DEF LaneInv, Quiet, Accepted
<1> QED
  BY <1>2, <1>4

(* A step that is quiet, takes the parser neither to nor from "parse" and  *)
(* lets no further chunk be sent.                                          *)
LEMMA QuietDelivery ==
    ASSUME DeliveryInv, Quiet, parsed' = parsed,
           (parser = "parse") <=> (parser' = "parse"), parser = "parse" => guard' = guard,
           parser' \in Loop => parser \in Loop,
           \A c \in Chunk : Sendable(c)' => Sendable(c),
           control' # "none" => worker' \in Past, closing' => control' # "none", closing => closing',
           parser' = "drained" \/ completion' = "Drained" =>
               \/ parser = "drained" \/ completion = "Drained"
               \/ closing' /\ \A c \in Chunk : Accepted(c) => InParsed(c)
    PROVE  DeliveryInv'
<1>1. \A c \in Chunk : /\ Accepted(c)' <=> Accepted(c)
                       /\ at'[c] = "queued" <=> at[c] = "queued"
                       /\ at'[c] = "taken" <=> at[c] = "taken"
  BY DEF Quiet
<1>2. \A c \in Chunk : InParsed(c)' <=> InParsed(c)
  BY DEF InParsed
<1>3. AcceptedInv' /\ LaneInv'
  BY QuietLane DEF DeliveryInv
<1>4. OrderInv'
  BY <1>1 DEF DeliveryInv, OrderInv
<1>5. GuardInv'
  <2>1. \A c \in Chunk : at'[c] = "taken" => parser' = "parse" /\ c = guard'
    BY <1>1 DEF DeliveryInv, GuardInv
  <2>2. ASSUME parser' = "parse"
        PROVE  /\ guard' = guard /\ guard \in Chunk /\ at'[guard] = "taken" /\ Accepted(guard)'
               /\ \A i \in 1 .. Len(lane) : guard < lane[i]
    BY <2>2, <1>1 DEF DeliveryInv, GuardInv
  <2> QED
    BY <2>1, <2>2 DEF GuardInv, Quiet, Accepted
<1>6. ParsedInv'
  <2>1. \A i \in 1 .. Len(parsed) : parsed[i] \in Chunk
    BY DEF DeliveryInv, ParsedInv
  <2>2. \A i \in 1 .. Len(parsed) : Accepted(parsed[i])' /\ at'[parsed[i]] \notin {"queued", "taken"}
    BY <1>1, <2>1 DEF DeliveryInv, ParsedInv
  <2>3. \A i \in 1 .. Len(parsed) : \A c \in Chunk :
            c <= parsed[i] /\ Accepted(c)' => InParsed(c)'
    BY <1>1, <1>2 DEF DeliveryInv, ParsedInv
  <2> QED
    BY <2>2, <2>3 DEF DeliveryInv, ParsedInv, Accepted, InParsed
<1>7. LoopInv'
  BY <1>1, <1>2 DEF DeliveryInv, LoopInv
<1>8. ControlInv'
  BY DEF ControlInv
<1>9. DrainedInv'
  BY <1>1, <1>2 DEF DeliveryInv, DrainedInv
<1> QED
  BY <1>3, <1>4, <1>5, <1>6, <1>7, <1>8, <1>9 DEF DeliveryInv

-----------------------------------------------------------------------------
(* The steps that are not quiet.                                           *)

(* A send accepts its chunk: the last one in reading order so far.         *)
LEMMA SendDelivery ==
    ASSUME BudgetInv, WorldInv, DeliveryInv,
           NEW k \in Chunk, Polled(k), SendSlot(k), UNCHANGED OtherThanQueue
    PROVE  DeliveryInv'
<1>1. /\ at[k] = "sending" /\ lane' = Append(lane, k)
      /\ \A c \in Chunk : at'[c] = IF c = k THEN "queued" ELSE at[c]
      /\ reply' \in [Chunk -> Replies]
      /\ \A c \in Chunk : reply'[c] = IF c = k THEN "Ok" ELSE reply[c]
  BY DEF SendSlot, Move, Answer, BudgetInv, DeliveryInv, AcceptedInv, Replies
<1>2. /\ worker' = worker /\ read' = read /\ pending' = pending /\ parser' = parser
      /\ guard' = guard /\ closing' = closing /\ completion' = completion /\ parsed' = parsed
      /\ control' = control
  BY DEF OtherThanQueue, workerVars, parserVars, SendSlot
<1>3. \A c \in Chunk : Accepted(c)' <=> c = k \/ Accepted(c)
  BY <1>1 DEF Accepted
<1>4. ~Accepted(k) /\ at[k] \notin Final
  BY <1>1 DEF DeliveryInv, AcceptedInv, Final
<1>5. \A c \in Chunk : Accepted(c) => c < k
  BY <1>4 DEF Sendable, DeliveryInv, OrderInv
<1>6. \A c \in Chunk : InParsed(c)' <=> InParsed(c)
  BY <1>2 DEF InParsed
<1>7. AcceptedInv'
  BY <1>1, <1>3 DEF DeliveryInv, AcceptedInv, Final
<1>8. LaneInv'
  <2>1. /\ lane \in Seq(Chunk) /\ Len(lane) \in Nat
        /\ \A i \in 1 .. Len(lane) : lane[i] \in Chunk /\ at[lane[i]] = "queued" /\ Accepted(lane[i])
    BY DEF DeliveryInv, LaneInv
  <2>2. /\ lane' \in Seq(Chunk) /\ Len(lane') = Len(lane) + 1 /\ lane'[Len(lane) + 1] = k
        /\ \A i \in 1 .. Len(lane) : lane'[i] = lane[i]
    BY <1>1, <2>1, AppendProperties
  <2>3. \A i \in 1 .. Len(lane') : i \in 1 .. Len(lane) \/ i = Len(lane) + 1
    BY <2>1, <2>2
  <2>4. \A i \in 1 .. Len(lane') : at'[lane'[i]] = "queued" /\ reply'[lane'[i]] = "Ok"
    BY <1>1, <2>1, <2>2, <2>3 DEF Accepted
  <2>5. \A i, j \in 1 .. Len(lane') : i < j => lane'[i] < lane'[j]
    <3>1. \A i \in 1 .. Len(lane) : lane[i] < k
      BY <1>5, <2>1
    <3>2. \A i, j \in 1 .. Len(lane) : i < j => lane[i] < lane[j]
      BY DEF DeliveryInv, LaneInv
    <3> QED
      BY <2>1, <2>2, <2>3, <3>1, <3>2
  <2>6. \A c \in Chunk : at'[c] = "queued" => \E i \in 1 .. Len(lane') : lane'[i] = c
    <3> SUFFICES ASSUME NEW c \in Chunk, at'[c] = "queued"
                 PROVE  \E i \in 1 .. Len(lane') : lane'[i] = c
      OBVIOUS
    <3>1. CASE c = k
      BY <2>1, <2>2, <3>1
    <3>2. CASE c # k
      <4>1. PICK i \in 1 .. Len(lane) : lane[i] = c
        BY <1>1, <3>2 DEF DeliveryInv, LaneInv
      <4> QED
        BY <2>1, <2>2, <4>1
    <3> QED
      BY <3>1, <3>2
  <2> QED
    BY <2>2, <2>4, <2>5, <2>6 DEF LaneInv, Accepted
<1>9. OrderInv'
  <2> SUFFICES ASSUME NEW c \in Chunk, NEW d \in Chunk, Accepted(c)', Sendable(d)'
               PROVE  c < d
    BY DEF OrderInv
  <2>1. Polled(d)' <=> Polled(d)
    BY <1>2 DEF Polled
  <2>2. d > read \/ (Polled(d) /\ d # k /\ ~Accepted(d))
    BY <1>2, <1>3, <2>1 DEF Sendable
  <2>3. k <= read /\ read \in Nat /\ k \in Nat /\ d \in Nat
    BY BudgetAssumption DEF Polled, WorldInv, Chunk
  <2>4. Polled(d) => d = k
    BY DEF Polled
  <2>5. d > read
    BY <2>2, <2>4
  <2>6. k < d /\ Sendable(d)
    BY <2>3, <2>5 DEF Sendable
  <2> QED
    BY <1>3, <2>6 DEF DeliveryInv, OrderInv
<1>10. GuardInv'
  <2>1. \A c \in Chunk : at'[c] = "taken" => parser' = "parse" /\ c = guard'
    BY <1>1, <1>2 DEF DeliveryInv, GuardInv
  <2>2. ASSUME parser = "parse"
        PROVE  /\ guard \in Chunk /\ at'[guard] = "taken" /\ reply'[guard] = "Ok"
               /\ \A i \in 1 .. Len(lane') : guard < lane'[i]
    <3>1. /\ guard \in Chunk /\ at[guard] = "taken" /\ Accepted(guard) /\ guard # k
          /\ \A i \in 1 .. Len(lane) : guard < lane[i]
      BY <2>2, <1>1 DEF DeliveryInv, GuardInv
    <3>2. guard < k
      BY <3>1, <1>5
    <3>3. \A i \in 1 .. Len(lane') : lane'[i] = k \/ (i \in 1 .. Len(lane) /\ lane'[i] = lane[i])
      BY <1>1, AppendProperties DEF DeliveryInv, LaneInv
    <3> QED
      BY <1>1, <3>1, <3>2, <3>3 DEF Accepted
  <2> QED
    BY <1>2, <2>1, <2>2 DEF GuardInv, Accepted
<1>11. ParsedInv'
  <2>1. \A i \in 1 .. Len(parsed) :
            /\ parsed[i] \in Chunk /\ Accepted(parsed[i]) /\ at[parsed[i]] \notin {"queued", "taken"}
            /\ parsed[i] < k
    BY <1>5 DEF DeliveryInv, ParsedInv
  <2>2. \A i \in 1 .. Len(parsed) : reply'[parsed[i]] = "Ok" /\ at'[parsed[i]] \notin {"queued", "taken"}
    BY <1>1, <2>1 DEF Accepted, Chunk
  <2>3. \A i \in 1 .. Len(parsed) : \A c \in Chunk :
            c <= parsed[i] /\ Accepted(c)' => InParsed(c)'
    BY <1>3, <1>6, <2>1 DEF DeliveryInv, ParsedInv, Chunk
  <2> QED
    BY <1>2, <2>2, <2>3 DEF DeliveryInv, ParsedInv, Accepted
<1>12. LoopInv'
  BY <1>1, <1>2, <1>3, <1>6 DEF DeliveryInv, LoopInv
<1>13. control = "none"
  BY DEF Polled, Past, DeliveryInv, ControlInv
<1>14. ControlInv' /\ DrainedInv'
  BY <1>2, <1>13 DEF DeliveryInv, ControlInv, DrainedInv
<1> QED
  BY <1>7, <1>8, <1>9, <1>10, <1>11, <1>12, <1>14 DEF DeliveryInv

(* The head of the lane becomes the guard of the parser, or is drained.    *)
LEMMA TakeDelivery ==
    ASSUME BudgetInv, DeliveryInv, NEW s \in {"taken", "dropping"}, TakeData(s),
           UNCHANGED << worker, read, pending, closing, completion, parsed >>,
           IF s = "taken" THEN parser = "data" /\ parser' = "parse" /\ guard' = Head(lane)
                          ELSE parser \in {"drain", "ended"} /\ parser' = parser
    PROVE  DeliveryInv' /\ BudgetInv'
<1> DEFINE h == Head(lane)
<1>1. /\ BudgetInv' /\ AcceptedInv' /\ LaneInv'
      /\ h \in Chunk /\ at[h] = "queued" /\ Accepted(h)
      /\ \A i \in 1 .. Len(lane') : h < lane'[i]
      /\ \A c \in Chunk : /\ at'[c] = IF c = h THEN s ELSE at[c]
                          /\ Accepted(c)' <=> Accepted(c)
  BY TakeEffect DEF DeliveryInv
<1> HIDE DEF h
<1>2. control' = control /\ reply' = reply
  BY DEF TakeData
<1>3. \A c \in Chunk : (InParsed(c)' <=> InParsed(c)) /\ (Sendable(c)' <=> Sendable(c))
  BY <1>1 DEF InParsed, Sendable, Polled
<1>4. OrderInv'
  BY <1>1, <1>3 DEF DeliveryInv, OrderInv
<1>5. GuardInv'
  <2>0. \A c \in Chunk : at[c] # "taken"
    BY DEF DeliveryInv, GuardInv
  <2>1. CASE s = "taken"
    <3>1. guard' = h /\ parser' = "parse"
      BY <2>1 DEF h
    <3>2. \A c \in Chunk : at'[c] = "taken" <=> c = h
      BY <1>1, <2>0, <2>1
    <3>3. reply'[h] = "Ok"
      BY <1>1, <1>2 DEF Accepted
    <3> QED
      BY <1>1, <3>1, <3>2, <3>3 DEF GuardInv, Accepted
  <2>2. CASE s = "dropping"
    <3>1. parser' # "parse" /\ \A c \in Chunk : at'[c] # "taken"
      BY <1>1, <2>0, <2>2
    <3> QED
      BY <3>1 DEF GuardInv
  <2> QED
    BY <2>1, <2>2
<1>6. ParsedInv'
  <2>1. \A i \in 1 .. Len(parsed) :
            parsed[i] \in Chunk /\ parsed[i] # h /\ at[parsed[i]] \notin {"queued", "taken"}
    BY <1>1 DEF DeliveryInv, ParsedInv
  <2>2. \A i \in 1 .. Len(parsed) : at'[parsed[i]] \notin {"queued", "taken"}
    BY <1>1, <2>1
  <2>3. \A i \in 1 .. Len(parsed) : \A c \in Chunk :
            c <= parsed[i] /\ Accepted(c)' => InParsed(c)'
    BY <1>1, <1>3 DEF DeliveryInv, ParsedInv
  <2> QED
    BY <1>2, <2>2, <2>3 DEF DeliveryInv, ParsedInv, Accepted
<1>7. LoopInv'
  <2>1. CASE s = "taken"
    BY <1>1, <1>3, <2>1 DEF DeliveryInv, LoopInv, Loop
  <2>2. CASE s = "dropping"
    BY <2>2 DEF LoopInv, Loop
  <2> QED
    BY <2>1, <2>2
<1>8. ControlInv' /\ DrainedInv'
  BY <1>1, <1>2, <1>3 DEF DeliveryInv, ControlInv, DrainedInv
<1> QED
  BY <1>1, <1>4, <1>5, <1>6, <1>7, <1>8 DEF DeliveryInv

(* The guard is the oldest chunk accepted and not yet parsed.              *)
LEMMA ParseDelivery ==
    ASSUME BudgetInv, DeliveryInv, Parse
    PROVE  DeliveryInv' /\ BudgetInv'
<1>1. /\ parser = "parse" /\ parser' = "release" /\ parsed' = Append(parsed, guard)
      /\ Move(guard, "dropping") /\ lane' = lane /\ reply' = reply /\ control' = control
      /\ UNCHANGED << worker, read, pending, closing, completion, freeBytes, pendingBytes, freeSlots >>
  BY DEF Parse, OtherThanParser, workerVars, budgetVars
<1>2. guard \in Chunk /\ at[guard] = "taken" /\ Accepted(guard)
      /\ \A i \in 1 .. Len(lane) : guard < lane[i]
  BY <1>1 DEF DeliveryInv, GuardInv
<1>3. \A c \in Chunk : at'[c] = IF c = guard THEN "dropping" ELSE at[c]
  BY <1>1 DEF Move, BudgetInv
<1>4. \A c \in Chunk : at[c] = "taken" <=> c = guard
  BY <1>2 DEF DeliveryInv, GuardInv
<1>5. \A c \in Chunk : (Accepted(c)' <=> Accepted(c)) /\ (Sendable(c)' <=> Sendable(c))
  BY <1>1 DEF Accepted, Sendable, Polled
<1>6. BudgetInv'
  BY <1>1, <1>2, BudgetMove DEF PermitStages, CountStages, SlotStages, Stage
<1>7. AcceptedInv'
  BY <1>1, <1>2, <1>3 DEF DeliveryInv, AcceptedInv, Final, Accepted
<1>8. LaneInv'
  <2>1. \A i \in 1 .. Len(lane) : lane[i] \in Chunk /\ at'[lane[i]] = "queued"
    BY <1>2, <1>3 DEF DeliveryInv, LaneInv
  <2>2. \A c \in Chunk : at'[c] = "queued" => at[c] = "queued"
    BY <1>3
  <2> QED
    BY <1>1, <2>1, <2>2 DEF DeliveryInv, LaneInv, Accepted
<1>9. OrderInv'
  BY <1>5 DEF DeliveryInv, OrderInv
<1>10. GuardInv'
  BY <1>1, <1>3, <1>4 DEF GuardInv
<1>11. /\ parsed \in Seq(Chunk) /\ Len(parsed) \in Nat
       /\ parsed' \in Seq(Chunk) /\ Len(parsed') = Len(parsed) + 1
       /\ parsed'[Len(parsed) + 1] = guard
       /\ \A i \in 1 .. Len(parsed) : parsed'[i] = parsed[i] /\ parsed[i] \in Chunk
  BY <1>1, <1>2, AppendProperties DEF DeliveryInv, ParsedInv
<1>12. \A i \in 1 .. Len(parsed') : i \in 1 .. Len(parsed) \/ (i = Len(parsed) + 1 /\ parsed'[i] = guard)
  BY <1>11
<1>13. \A c \in Chunk : InParsed(c)' <=> InParsed(c) \/ c = guard
  <2>1. \A c \in Chunk : InParsed(c)' => InParsed(c) \/ c = guard
    BY <1>11, <1>12 DEF InParsed
  <2>2. \A c \in Chunk : InParsed(c) \/ c = guard => InParsed(c)'
    BY <1>11, <1>12 DEF InParsed
  <2> QED
    BY <2>1, <2>2
<1>14. \A c \in Chunk : Accepted(c) => at[c] = "queued" \/ c = guard \/ InParsed(c)
  BY <1>1, <1>4 DEF DeliveryInv, LoopInv, Loop
<1>15. \A c \in Chunk : at[c] = "queued" => guard < c
  BY <1>2 DEF DeliveryInv, LaneInv
<1>16. \A i \in 1 .. Len(parsed) : parsed[i] < guard
  <2> SUFFICES ASSUME NEW i \in 1 .. Len(parsed) PROVE parsed[i] < guard
    OBVIOUS
  <2>1. parsed[i] \in Chunk /\ at[parsed[i]] # "taken"
    BY <1>11 DEF DeliveryInv, ParsedInv
  <2>2. ~InParsed(guard)
    BY <1>2, <1>11 DEF InParsed, DeliveryInv, ParsedInv
  <2>3. guard <= parsed[i] => InParsed(guard)
    BY <1>2 DEF DeliveryInv, ParsedInv
  <2> QED
    BY <1>2, <2>1, <2>2, <2>3 DEF Chunk
<1>17. ParsedInv'
  <2>1. \A i \in 1 .. Len(parsed') : reply'[parsed'[i]] = "Ok" /\ at'[parsed'[i]] \notin {"queued", "taken"}
    <3>1. \A i \in 1 .. Len(parsed) : /\ parsed[i] # guard /\ reply[parsed[i]] = "Ok"
                                      /\ at[parsed[i]] \notin {"queued", "taken"}
      BY <1>2 DEF DeliveryInv, ParsedInv, Accepted
    <3>2. reply'[guard] = "Ok" /\ at'[guard] = "dropping"
      BY <1>1, <1>2, <1>3 DEF Accepted
    <3> QED
      BY <1>1, <1>3, <1>11, <1>12, <3>1, <3>2
  <2>2. \A i, j \in 1 .. Len(parsed') : j < i => parsed'[j] < parsed'[i]
    <3>1. \A i, j \in 1 .. Len(parsed) : j < i => parsed[j] < parsed[i]
      BY DEF DeliveryInv, ParsedInv
    <3> QED
      BY <1>11, <1>12, <1>16, <3>1
  <2>3. \A i \in 1 .. Len(parsed') : \A c \in Chunk :
            c <= parsed'[i] /\ Accepted(c)' => InParsed(c)'
    <3> SUFFICES ASSUME NEW i \in 1 .. Len(parsed'), NEW c \in Chunk, c <= parsed'[i], Accepted(c)
                 PROVE  InParsed(c) \/ c = guard
      BY <1>5, <1>13
    <3>1. CASE i \in 1 .. Len(parsed)
      BY <1>11, <3>1 DEF DeliveryInv, ParsedInv
    <3>2. CASE parsed'[i] = guard
      <4>1. at[c] # "queued"
        BY <1>2, <1>15, <3>2 DEF Chunk
      <4> QED
        BY <1>14, <4>1
    <3> QED
      BY <1>12, <3>1, <3>2
  <2> QED
    BY <1>11, <2>1, <2>2, <2>3 DEF ParsedInv, Accepted
<1>18. LoopInv'
  BY <1>3, <1>5, <1>13, <1>14 DEF LoopInv
<1>19. ControlInv' /\ DrainedInv'
  BY <1>1, <1>5, <1>13 DEF DeliveryInv, ControlInv, DrainedInv
<1> QED
  BY <1>6, <1>7, <1>8, <1>9, <1>10, <1>17, <1>18, <1>19 DEF DeliveryInv

-----------------------------------------------------------------------------
(* The steps of the specification.                                         *)

IngressInv == BudgetInv /\ WorldInv /\ DeliveryInv

LEMMA StillQueue ==
    ASSUME BudgetInv, AcceptedInv, UNCHANGED << at, reply, budgetVars, lane >>
    PROVE  BudgetInv' /\ Quiet
<1>1. BudgetInv'
  BY DEF BudgetInv, budgetVars, Within
<1>2. Quiet
  BY DEF Quiet, AcceptedInv, Accepted
<1> QED
  BY <1>1, <1>2

(* What can still be sent shrinks, or grows by a chunk that was read now.  *)
LEMMA SendableShrinks ==
    ASSUME WorldInv, Quiet,
           \/ UNCHANGED << worker, read, pending >>
           \/ read' = read /\ worker' \notin {"select", "trying", "blocked", "trailing", "message"}
           \/ read' = read /\ pending' = 0 /\ worker' # "message"
           \/ read' = read /\ worker = "trying" /\ worker' = "select" /\ pending' = pending
           \/ read' = read + 1 /\ pending' = read + 1
           \/ read' = read + 1 /\ worker' = "message"
    PROVE  \A c \in Chunk : Sendable(c)' => Sendable(c)
<1> SUFFICES ASSUME NEW c \in Chunk, Sendable(c)' PROVE Sendable(c)
  OBVIOUS
<1>1. Accepted(c)' <=> Accepted(c)
  BY DEF Quiet
<1>2. read \in Nat /\ c \in Nat \ {0}
  BY BudgetAssumption DEF WorldInv, Chunk
<1> QED
  BY <1>1, <1>2 DEF Sendable, Polled

LEMMA WorkerSendsStep == ASSUME IngressInv, WorkerSends PROVE IngressInv'
<1> USE DEF IngressInv
<1>1. PICK c \in Chunk : Polled(c) /\ SendStep(c)
  BY DEF WorkerSends
<1>2. UNCHANGED OtherThanQueue /\ AcceptedInv
  BY DEF WorkerSends, DeliveryInv
<1>3. UNCHANGED << bytesClosed, cancelled, lanesClosed, control, senders >>
  BY <1>1 DEF SendStep, OfferWaiting, PollBytes, ReserveBytes, ReserveSlot, PollSlot, RecheckAbort,
              SendSlot, TrySlot, abortVars
<1>4. WorldInv'
  BY <1>2, <1>3 DEF WorldInv, OtherThanQueue, workerVars, parserVars
<1>5. CASE SendSlot(c)
  BY <1>1, <1>2, <1>4, <1>5, SendBudget, SendDelivery
<1>6. CASE ~SendSlot(c)
  <2>1. BudgetInv' /\ Quiet
    BY <1>1, <1>2, <1>6, SendQuiet DEF SendStep
  <2>2. DeliveryInv'
    <3>1. \A d \in Chunk : Sendable(d)' => Sendable(d)
      BY <1>2, <2>1, SendableShrinks DEF OtherThanQueue, workerVars
    <3>2. ControlInv
      BY DEF DeliveryInv
    <3> QED
      BY <1>2, <1>3, <2>1, <3>1, <3>2, QuietDelivery
         DEF OtherThanQueue, workerVars, parserVars, ControlInv
  <2> QED
    BY <1>4, <2>1, <2>2
<1> QED
  BY <1>5, <1>6

LEMMA QueueStep == ASSUME IngressInv, ReservationDrops \/ SemaphoreAssigns PROVE IngressInv'
<1> USE DEF IngressInv
<1>1. PICK c \in Chunk : AssignBytes(c) \/ AssignSlot(c) \/ DropReservation(c)
  BY DEF ReservationDrops, SemaphoreAssigns
<1>2. UNCHANGED OtherThanQueue /\ AcceptedInv /\ ControlInv
  BY DEF ReservationDrops, SemaphoreAssigns, DeliveryInv
<1>3. UNCHANGED << bytesClosed, cancelled, lanesClosed, control, senders >>
  BY <1>1 DEF AssignBytes, AssignSlot, DropReservation, abortVars
<1>4. WorldInv'
  BY <1>2, <1>3 DEF WorldInv, OtherThanQueue, workerVars, parserVars
<1>5. BudgetInv' /\ Quiet
  BY <1>1, <1>2, QueueQuiet
<1>6. \A d \in Chunk : Sendable(d)' => Sendable(d)
  BY <1>2, <1>5, SendableShrinks DEF OtherThanQueue, workerVars
<1>7. DeliveryInv'
  BY <1>2, <1>3, <1>5, <1>6, QuietDelivery DEF OtherThanQueue, workerVars, parserVars, ControlInv
<1> QED
  BY <1>4, <1>5, <1>7

(* The worker's steps are quiet: it offers and drops, its sends accept.    *)
LEMMA WorkerQuiet ==
    ASSUME IngressInv, WorkerLoops \/ WorkerLeaves
    PROVE  /\ BudgetInv' /\ Quiet
           /\ \A c \in Chunk : Sendable(c)' => Sendable(c)
<1> USE DEF IngressInv
<1>0. AcceptedInv /\ read \in Nat /\ MaxRead \in Nat /\ pending \in Nat /\ read <= MaxRead /\ pending <= read
  BY BudgetAssumption DEF DeliveryInv, WorldInv
<1>1. CASE Read \/ Fails
  <2>1. \/ UNCHANGED queueVars
        \/ read + 1 \in Chunk /\ OfferNow(read + 1)
    BY <1>0, <1>1 DEF Read, Fails, Chunk
  <2>2. BudgetInv' /\ Quiet
    BY <1>0, <2>1, StillQueue, QueueQuiet DEF queueVars, budgetVars
  <2>3. \/ read' = read /\ worker' \notin {"select", "trying", "blocked", "trailing", "message"}
        \/ read' = read + 1 /\ pending' = read + 1
        \/ read' = read + 1 /\ worker' = "message"
    BY <1>1 DEF Read, Fails
  <2> QED
    BY <2>2, <2>3, SendableShrinks
<1>2. CASE KeepPending
  <2>1. pending \in Chunk /\ worker = "trying"
    BY <1>0, <1>2 DEF KeepPending, WorldInv, Chunk
  <2>2. BudgetInv' /\ Quiet
    BY <1>0, <1>2, <2>1, HandBack DEF KeepPending
  <2>3. read' = read /\ worker = "trying" /\ worker' = "select" /\ pending' = pending
    BY <1>2 DEF KeepPending
  <2> QED
    BY <2>2, <2>3, SendableShrinks
<1>3. CASE DropPending
  <2>1. pending \in Chunk /\ DropSend(pending)
    BY <1>0, <1>3 DEF DropPending, NoPending, Chunk
  <2>2. BudgetInv' /\ Quiet
    BY <1>0, <2>1, QueueQuiet
  <2>3. read' = read /\ worker' \notin {"select", "trying", "blocked", "trailing", "message"}
    BY <1>3 DEF DropPending
  <2> QED
    BY <2>2, <2>3, SendableShrinks
<1>4. CASE SendReturns \/ Ends \/ ShutDown \/ MessageSent \/ Trail \/ TrailSent \/ WorkerAborts
           \/ CloseSource \/ ControlSends \/ ControlSent \/ DropSender \/ Joined
  <2>1. UNCHANGED << at, reply, budgetVars, lane >>
    BY <1>4 DEF SendReturns, Ends, ShutDown, MessageSent, Trail, TrailSent, WorkerAborts, CloseBytes,
                Cancel, CloseSource, ControlSends, SendControl, ControlSent, DropSender, Joined,
                queueVars, budgetVars
  <2>2. BudgetInv' /\ Quiet
    BY <1>0, <2>1, StillQueue
  <2>3. CASE SendReturns \/ Ends \/ ShutDown \/ MessageSent
    <3>1. \/ read' = read /\ worker' \notin {"select", "trying", "blocked", "trailing", "message"}
          \/ read' = read /\ pending' = 0 /\ worker' # "message"
      BY <2>3 DEF SendReturns, Ends, ShutDown, MessageSent
    <3> QED
      BY <2>2, <3>1, SendableShrinks
  <2>4. CASE Trail \/ TrailSent \/ WorkerAborts
    <3>1. \/ read' = read /\ worker' \notin {"select", "trying", "blocked", "trailing", "message"}
          \/ read' = read + 1 /\ pending' = read + 1
      BY <2>4 DEF Trail, TrailSent, WorkerAborts
    <3> QED
      BY <2>2, <3>1, SendableShrinks
  <2>5. CASE CloseSource \/ ControlSends \/ ControlSent \/ DropSender \/ Joined
    <3>1. \/ read' = read /\ worker' \notin {"select", "trying", "blocked", "trailing", "message"}
          \/ UNCHANGED << worker, read, pending >>
      BY <2>5 DEF CloseSource, ControlSends, ControlSent, DropSender, Joined, OtherThanQueue, workerVars
    <3> QED
      BY <2>2, <3>1, SendableShrinks
  <2> QED
    BY <1>4, <2>3, <2>4, <2>5
<1> QED
  BY <1>1, <1>2, <1>3, <1>4 DEF WorkerLoops, WorkerLeaves

LEMMA WorkerStep == ASSUME IngressInv, WorkerLoops \/ WorkerLeaves PROVE IngressInv'
<1> USE DEF IngressInv
<1>1. /\ BudgetInv' /\ Quiet
      /\ \A c \in Chunk : Sendable(c)' => Sendable(c)
  BY WorkerQuiet
<1>2. UNCHANGED << transport, owner, parser, guard, closing, leaving, parsed, completion >>
  BY DEF WorkerLoops, WorkerLeaves, Read, KeepPending, SendReturns, Ends, ShutDown, Fails, MessageSent,
         Trail, TrailSent, WorkerAborts, CloseSource, ControlSends, ControlSent, DropPending, DropSender,
         Joined, OtherThanQueue, workerVars, parserVars
<1>3. ControlInv'
  <2>0. ControlInv
    BY DEF DeliveryInv
  <2>1. CASE WorkerLoops
    <3>1. worker \notin Past
      BY <2>1 DEF WorkerLoops, Read, CanRead, KeepPending, SendReturns, Ends, ShutDown, Fails, Past
    <3>2. control' = control
      BY <2>1 DEF WorkerLoops, Read, KeepPending, SendReturns, Ends, ShutDown, Fails, OfferNow, queueVars
    <3> QED
      BY <1>2, <2>0, <3>1, <3>2 DEF ControlInv
  <2>2. CASE MessageSent \/ Trail \/ TrailSent \/ WorkerAborts
    <3>1. worker \notin Past
      BY <2>2 DEF MessageSent, Trail, TrailSent, WorkerAborts, Past
    <3>2. control' = control
      BY <2>2 DEF MessageSent, Trail, TrailSent, WorkerAborts, CloseBytes, Cancel, queueVars
    <3> QED
      BY <1>2, <2>0, <3>1, <3>2 DEF ControlInv
  <2>3. CASE CloseSource
    BY <1>2, <2>0, <2>3 DEF CloseSource, OfferControl, ControlInv, Past
  <2>4. CASE ControlSends
    <3>1. control # "none" /\ control' # "none" /\ worker' = worker
      BY <2>4 DEF ControlSends, SendControl, OtherThanQueue, workerVars
    <3> QED
      BY <1>2, <2>0, <3>1 DEF ControlInv
  <2>5. CASE ControlSent
    <3>1. control # "none" /\ control' = control /\ (worker' = worker \/ worker' = "finish")
      BY <2>5 DEF ControlSent
    <3> QED
      BY <1>2, <2>0, <3>1 DEF ControlInv, Past
  <2>6. CASE DropPending \/ DropSender \/ Joined
    <3>1. control' = control /\ worker' \in Past
      BY <2>6 DEF DropPending, DropSender, Joined, DropSend, queueVars, Past
    <3> QED
      BY <1>2, <2>0, <3>1 DEF ControlInv
  <2> QED
    BY <2>1, <2>2, <2>3, <2>4, <2>5, <2>6 DEF WorkerLeaves
<1>4. DeliveryInv'
  BY <1>1, <1>2, <1>3, QuietDelivery DEF ControlInv
<1>5. WorldInv'
  <2>0. read \in Nat /\ MaxRead \in Nat /\ pending \in Nat
    BY BudgetAssumption DEF WorldInv
  <2>1. read' \in 0 .. MaxRead /\ pending' \in 0 .. read' /\ (worker' = "trying" => pending' # 0)
    <3>1. CASE WorkerLoops
      BY <2>0, <3>1 DEF WorldInv, WorkerLoops, Read, KeepPending, SendReturns, Ends, ShutDown, Fails
    <3>2. CASE WorkerLeaves
      BY <2>0, <3>2 DEF WorldInv, WorkerLeaves, MessageSent, Trail, TrailSent, WorkerAborts, CloseSource,
            ControlSends, ControlSent, DropPending, DropSender, Joined, OtherThanQueue, workerVars
    <3> QED
      BY <3>1, <3>2
  <2>2. worker' \in {"select", "trying", "blocked", "message", "trail", "trailing", "abort",
                     "cancel", "close", "control", "finish", "dropping", "await", "done"}
    BY DEF WorldInv, WorkerLoops, WorkerLeaves, Read, KeepPending, SendReturns, Ends, ShutDown, Fails,
           MessageSent, Trail, TrailSent, WorkerAborts, CloseSource, ControlSends, ControlSent,
           DropPending, DropSender, Joined, OtherThanQueue, workerVars
  <2>3. CASE WorkerLoops
    <3>1. UNCHANGED << bytesClosed, cancelled, lanesClosed, control, senders >>
      BY <2>3 DEF WorkerLoops, Read, KeepPending, SendReturns, Ends, ShutDown, Fails, OfferNow,
                  queueVars, abortVars
    <3> QED
      BY <1>2, <2>1, <2>2, <3>1 DEF WorldInv
  <2>4. CASE WorkerLeaves
    <3>1. bytesClosed' \in BOOLEAN /\ cancelled' \in BOOLEAN /\ lanesClosed' \in BOOLEAN
      BY <2>4 DEF WorldInv, WorkerLeaves, MessageSent, Trail, TrailSent, WorkerAborts, CloseBytes, Cancel,
            CloseSource, ControlSends, SendControl, ControlSent, DropPending, DropSend, DropSender, Joined,
            queueVars, abortVars
    <3>2. control' \in {"none", "offered", "sending", "queued", "taken", "refused", "dropped"}
      BY <2>4 DEF WorldInv, WorkerLeaves, MessageSent, Trail, TrailSent, WorkerAborts, CloseBytes, Cancel,
            CloseSource, OfferControl, ControlSends, SendControl, ControlSent, DropPending, DropSend,
            DropSender, Joined, queueVars
    <3>3. senders' \subseteq {"worker", "owner", "closer"}
      BY <2>4 DEF WorldInv, WorkerLeaves, MessageSent, Trail, TrailSent, WorkerAborts, CloseBytes, Cancel,
            CloseSource, ControlSends, SendControl, ControlSent, DropPending, DropSend,
            DropSender, Joined, queueVars
    <3> QED
      BY <1>2, <2>1, <2>2, <3>1, <3>2, <3>3 DEF WorldInv
  <2> QED
    BY <2>3, <2>4
<1> QED
  BY <1>1, <1>4, <1>5

(* The owner only aborts, and marks the parser's completion as aborted.    *)
LEMMA OwnerStep == ASSUME IngressInv, Stop \/ OwnerAborts PROVE IngressInv'
<1> USE DEF IngressInv
<1>1. /\ UNCHANGED << at, reply, budgetVars, lane, control, lanesClosed >>
      /\ UNCHANGED << transport, worker, read, pending, parser, guard, closing, leaving, parsed >>
      /\ completion' = completion \/ completion' = "Aborted"
  BY DEF Stop, OwnerAborts, CloseBytes, Cancel, queueVars, budgetVars, abortVars, workerVars, parserVars
<1>2. AcceptedInv /\ ControlInv
  BY DEF DeliveryInv
<1>3. BudgetInv' /\ Quiet
  BY <1>1, <1>2, StillQueue
<1>4. \A c \in Chunk : Sendable(c)' => Sendable(c)
  BY <1>1, <1>3, SendableShrinks
<1>5. DeliveryInv'
  BY <1>1, <1>2, <1>3, <1>4, QuietDelivery DEF ControlInv
<1>6. /\ bytesClosed' \in BOOLEAN /\ cancelled' \in BOOLEAN
      /\ senders' \subseteq {"worker", "owner", "closer"}
      /\ owner' \in {"live", "stopping", "marked", "closed", "aborted", "dropped"}
  BY DEF WorldInv, Stop, OwnerAborts, CloseBytes, Cancel, queueVars, abortVars
<1>7. WorldInv'
  BY <1>1, <1>6 DEF WorldInv
<1> QED
  BY <1>3, <1>5, <1>7

(* When no byte is counted, nothing is in the lane or in the guard.        *)
LEMMA NothingCounted ==
    ASSUME BudgetInv, pendingBytes = 0, NEW c \in Chunk
    PROVE  at[c] \notin {"queued", "taken"}
<1> SUFFICES ASSUME at[c] \in {"queued", "taken"} PROVE FALSE
  OBVIOUS
<1>1. Within(CountStages) \in SUBSET Chunk /\ {c} \in SUBSET Chunk /\ {c} \subseteq Within(CountStages)
  BY DEF Within, CountStages, PermitStages, Stage
<1>2. Bytes[{c}] <= Bytes[Within(CountStages)]
  BY <1>1, BytesAssumption
<1>3. Bytes[{c}] \in 1 .. MaxBytes
  BY BytesAssumption
<1> QED
  BY <1>2, <1>3, BudgetAssumption DEF BudgetInv

(* The types of what the parser's steps assign.                            *)
LEMMA ParserTypes ==
    ASSUME IngressInv, ParserStep \/ ChannelDropped
    PROVE  WorldInv'
<1> USE DEF IngressInv
<1>1. UNCHANGED << transport, worker, read, pending, owner, senders >>
  BY DEF ParserStep, ChannelDropped, LoopTop, RecvWakes, RecvControl, RecvData, Parse, GuardReleased,
         ReportDrained, FinishAbort, TakeData, CloseBytes, Cancel, CloseLanes, queueVars,
         OtherThanParser, OtherThanQueue, workerVars
<1>2. lane # << >> => Head(lane) \in 0 .. MaxRead
  BY HeadTailProperties, BudgetAssumption DEF DeliveryInv, LaneInv, Chunk
<1>3. CASE LoopTop \/ RecvWakes \/ RecvControl
  <2>1. /\ UNCHANGED << bytesClosed, cancelled, lanesClosed, guard, leaving, completion >>
        /\ parser' \in {"drained", "recv", "abort", "controls", "top", "data"}
        /\ control' = control \/ control' = "taken"
    BY <1>3 DEF LoopTop, RecvWakes, RecvControl, queueVars, abortVars
  <2>2. closing' \in BOOLEAN
    BY <1>3 DEF LoopTop, RecvWakes, RecvControl, WorldInv
  <2> QED
    BY <1>1, <2>1, <2>2 DEF WorldInv
<1>4. CASE RecvData
  <2>1. /\ UNCHANGED << bytesClosed, cancelled, lanesClosed, control, closing, completion >>
        /\ parser' \in {"parse", "abort", "recv"} /\ leaving' \in BOOLEAN
        /\ guard' \in 0 .. MaxRead
    BY <1>2, <1>4 DEF WorldInv, RecvData, TakeData, queueVars, abortVars
  <2> QED
    BY <1>1, <2>1 DEF WorldInv
<1>5. CASE Parse \/ GuardReleased \/ ReportDrained
  <2>1. /\ UNCHANGED << bytesClosed, cancelled, lanesClosed, control, closing >>
        /\ parser' \in {"release", "top", "abort", parser}
        /\ guard' \in {guard, 0} /\ completion' \in {completion, "Drained"}
    BY <1>5 DEF Parse, GuardReleased, ReportDrained, queueVars, abortVars
  <2>2. 0 \in 0 .. MaxRead
    BY BudgetAssumption
  <2>3. leaving' \in BOOLEAN
    BY <1>5 DEF Parse, GuardReleased, ReportDrained, WorldInv
  <2> QED
    BY <1>1, <2>1, <2>2, <2>3 DEF WorldInv
<1>6. CASE FinishAbort
  <2>1. /\ UNCHANGED << closing, completion >> /\ leaving' \in BOOLEAN
        /\ bytesClosed' \in BOOLEAN /\ cancelled' \in BOOLEAN /\ lanesClosed' \in BOOLEAN
        /\ parser' \in {"cancel", "close", "drain", "ended", "abort"}
        /\ control' \in {"none", "offered", "sending", "queued", "taken", "refused", "dropped"}
    BY <1>6 DEF WorldInv, FinishAbort, TakeData, CloseBytes, Cancel, CloseLanes, abortVars
  <2>2. guard' \in 0 .. MaxRead
    BY <1>2, <1>6 DEF WorldInv, FinishAbort, TakeData
  <2> QED
    BY <1>1, <2>1, <2>2 DEF WorldInv
<1>7. CASE ChannelDropped
  BY <1>1, <1>7 DEF WorldInv, ChannelDropped, TakeData, OtherThanQueue, parserVars, abortVars
<1> QED
  BY <1>3, <1>4, <1>5, <1>6, <1>7 DEF ParserStep

LEMMA ParserDelivers == ASSUME IngressInv, ParserStep \/ ChannelDropped PROVE IngressInv'
<1> USE DEF IngressInv
<1>1. WorldInv' /\ AcceptedInv /\ ControlInv
  BY ParserTypes DEF DeliveryInv
<1>2. UNCHANGED << worker, read, pending >>
  BY DEF ParserStep, ChannelDropped, LoopTop, RecvWakes, RecvControl, RecvData, Parse, GuardReleased,
         ReportDrained, FinishAbort, OtherThanParser, OtherThanQueue, workerVars
<1>3. CASE Parse
  BY <1>1, <1>3, ParseDelivery
<1>4. CASE \E s \in {"taken", "dropping"} : TakeData(s)
  <2>1. CASE RecvData
    <3>1. CASE lane # << >>
      <4>1. /\ TakeData("taken") /\ parser = "data" /\ parser' = "parse" /\ guard' = Head(lane)
            /\ UNCHANGED << closing, completion, parsed >>
        BY <2>1, <3>1 DEF RecvData
      <4> QED
        BY <1>1, <1>2, <4>1, TakeDelivery
    <3>2. CASE lane = << >>
      BY <1>4, <3>2 DEF TakeData
    <3> QED
      BY <3>1, <3>2
  <2>2. CASE FinishAbort \/ ChannelDropped
    <3>1. /\ TakeData("dropping") /\ parser \in {"drain", "ended"} /\ parser' = parser
          /\ UNCHANGED << closing, completion, parsed >>
      <4>1. lane # << >> /\ lane' = Tail(lane) /\ lane' # lane
        BY <1>4, HeadTailProperties DEF TakeData, DeliveryInv, LaneInv
      <4> QED
        BY <2>2, <4>1 DEF FinishAbort, ChannelDropped, CloseBytes, Cancel, CloseLanes, OtherThanQueue,
                          parserVars
    <3> QED
      BY <1>1, <1>2, <3>1, TakeDelivery
  <2>3. CASE LoopTop \/ RecvWakes \/ RecvControl \/ GuardReleased \/ ReportDrained
    <3>1. lane # << >> /\ lane' = Tail(lane) /\ lane' # lane
      BY <1>4, HeadTailProperties DEF TakeData, DeliveryInv, LaneInv
    <3> QED
      BY <2>3, <3>1 DEF LoopTop, RecvWakes, RecvControl, GuardReleased, ReportDrained, queueVars
  <2> QED
    BY <1>3, <2>1, <2>2, <2>3 DEF ParserStep
<1>5. CASE ~Parse /\ ~\E s \in {"taken", "dropping"} : TakeData(s)
  <2>1. UNCHANGED << at, reply, budgetVars, lane, parsed >>
    BY <1>5 DEF ParserStep, ChannelDropped, LoopTop, RecvWakes, RecvControl, RecvData, GuardReleased,
         ReportDrained, FinishAbort, CloseBytes, Cancel, CloseLanes, queueVars, budgetVars
  <2>2. BudgetInv' /\ Quiet
    BY <1>1, <2>1, StillQueue
  <2>3. \A c \in Chunk : Sendable(c)' => Sendable(c)
    BY <1>2, <2>2, SendableShrinks
  <2>4. guard = 0 \/ at[guard] = "gone" => parser # "parse"
    BY DEF DeliveryInv, GuardInv, Chunk
  <2>5. /\ (parser = "parse") <=> (parser' = "parse")
        /\ parser = "parse" => guard' = guard
        /\ parser' \in Loop => parser \in Loop
    BY <1>5, <2>4 DEF ParserStep, ChannelDropped, LoopTop, RecvWakes, RecvControl, RecvData, GuardReleased,
         ReportDrained, FinishAbort, OtherThanQueue, parserVars, Loop
  <2>6. /\ control' # "none" => control # "none"
        /\ closing' => closing \/ control' # "none"
        /\ closing => closing'
        /\ control # "none" => control' # "none"
    BY <1>5 DEF ParserStep, ChannelDropped, LoopTop, RecvWakes, RecvControl, RecvData, GuardReleased,
         ReportDrained, FinishAbort, CloseBytes, Cancel, CloseLanes, OtherThanQueue, parserVars, queueVars
  <2>7. parser' = "drained" \/ completion' = "Drained" =>
            \/ parser = "drained" \/ completion = "Drained"
            \/ closing' /\ \A c \in Chunk : Accepted(c) => InParsed(c)
    <3>1. CASE LoopTop
      <4>1. parser = "top" /\ closing' = closing /\ completion' = completion
        BY <3>1 DEF LoopTop
      <4>2. ASSUME parser' = "drained" PROVE closing /\ pendingBytes = 0
        BY <3>1, <4>2 DEF LoopTop, Drained
      <4>3. ASSUME parser' = "drained", NEW c \in Chunk, Accepted(c) PROVE InParsed(c)
        BY <4>1, <4>2, <4>3, NothingCounted DEF DeliveryInv, LoopInv, Loop
      <4> QED
        BY <4>1, <4>2, <4>3
    <3>2. CASE ~LoopTop
      BY <1>5, <3>2 DEF ParserStep, ChannelDropped, RecvWakes, RecvControl, RecvData, GuardReleased,
         ReportDrained, FinishAbort, OtherThanQueue, parserVars
    <3> QED
      BY <3>1, <3>2
  <2>8. DeliveryInv'
    <3>1. control' # "none" => worker' \in Past
      BY <1>1, <1>2, <2>6 DEF ControlInv
    <3>2. closing' => control' # "none"
      BY <1>1, <2>6 DEF ControlInv
    <3> QED
      BY <2>1, <2>2, <2>3, <2>5, <2>6, <2>7, <3>1, <3>2, QuietDelivery
  <2> QED
    BY <1>1, <2>2, <2>8
<1> QED
  BY <1>3, <1>4, <1>5

-----------------------------------------------------------------------------
(* The theorems.                                                           *)

LEMMA IngressInit == Init => IngressInv
<1> SUFFICES ASSUME Init PROVE IngressInv
  OBVIOUS
<1>1. /\ at = [c \in Chunk |-> "idle"] /\ reply = [c \in Chunk |-> "none"]
      /\ freeBytes = MaxBytes /\ pendingBytes = 0 /\ freeSlots = MaxChunks /\ lane = << >>
  BY DEF Init, QueueInit
<1>2. Within(PermitStages) = {} /\ Within(CountStages) = {} /\ Within(SlotStages) = {}
  BY <1>1 DEF Within, PermitStages, CountStages, SlotStages
<1>3. BudgetInv
  BY <1>1, <1>2, FS_EmptySet, BytesAssumption, BudgetAssumption DEF BudgetInv, Stage
<1>4. WorldInv
  <2>1. read = 0 /\ 0 \in 0 .. MaxRead /\ pending = 0 /\ 0 \in 0 .. 0 /\ guard = 0
    BY BudgetAssumption DEF Init
  <2> QED
    BY <2>1 DEF Init, QueueInit, WorldInv
<1>5. \A c \in Chunk : ~Accepted(c) /\ at[c] = "idle"
  BY <1>1 DEF Accepted
<1>6. parsed = << >> /\ parser = "top" /\ control = "none" /\ closing = FALSE /\ completion = "Running"
  BY DEF Init, QueueInit
<1>7. DeliveryInv
  <2>1. AcceptedInv
    BY <1>1, <1>5 DEF AcceptedInv, Replies
  <2>2. LaneInv /\ ParsedInv
    BY <1>1, <1>5, <1>6 DEF LaneInv, ParsedInv
  <2> QED
    BY <1>5, <1>6, <2>1, <2>2 DEF DeliveryInv, OrderInv, GuardInv, LoopInv, ControlInv, DrainedInv
<1> QED
  BY <1>3, <1>4, <1>7 DEF IngressInv

LEMMA IngressStep == IngressInv /\ [Next]_vars => IngressInv'
<1> SUFFICES ASSUME IngressInv, [Next]_vars PROVE IngressInv'
  OBVIOUS
<1>1. CASE Next
  BY <1>1, WorkerSendsStep, QueueStep, WorkerStep, OwnerStep, ParserDelivers DEF Next
<1>2. CASE UNCHANGED vars
  <2>1. UNCHANGED << at, reply, budgetVars, lane >> /\ UNCHANGED << worker, read, pending >>
    BY <1>2 DEF vars, queueVars, budgetVars, workerVars
  <2>2. BudgetInv' /\ Quiet
    BY <2>1, StillQueue DEF IngressInv, DeliveryInv
  <2>3. \A c \in Chunk : Sendable(c)' => Sendable(c)
    BY <2>1, <2>2, SendableShrinks DEF IngressInv
  <2>4. UNCHANGED << parser, guard, closing, leaving, parsed, completion, control, owner, transport,
                     senders, bytesClosed, cancelled, lanesClosed >>
    BY <1>2 DEF vars, queueVars, parserVars, abortVars
  <2>5. DeliveryInv'
    <3>1. ControlInv
      BY DEF IngressInv, DeliveryInv
    <3> QED
      BY <2>1, <2>2, <2>3, <2>4, <3>1, QuietDelivery DEF IngressInv, ControlInv
  <2>6. WorldInv'
    BY <2>1, <2>4 DEF IngressInv, WorldInv
  <2> QED
    BY <2>2, <2>5, <2>6 DEF IngressInv
<1> QED
  BY <1>1, <1>2

(* The inductive invariant holds of every connection.                      *)
THEOREM IngressInvariant == Spec => []IngressInv
BY IngressInit, IngressStep, PTL DEF Spec

LEMMA SumsBounded ==
    ASSUME BudgetInv
    PROVE  /\ pendingBytes \in Nat /\ freeBytes \in 0 .. MaxBytes /\ freeSlots \in 0 .. MaxChunks
           /\ pendingBytes + freeBytes <= MaxBytes
<1> DEFINE x == Bytes[Within(PermitStages)]  y == Bytes[Within(CountStages)]
           z == Cardinality(Within(SlotStages))
<1>1. /\ Within(PermitStages) \in SUBSET Chunk /\ Within(CountStages) \in SUBSET Chunk
      /\ Within(CountStages) \subseteq Within(PermitStages) /\ Within(SlotStages) \in SUBSET Chunk
  BY DEF Within, CountStages
<1>2. x \in Nat /\ y \in Nat /\ y <= x
  BY <1>1, BytesAssumption
<1>3. z \in Nat
  BY <1>1, ChunksFinite
<1>4. /\ freeBytes \in Nat /\ freeBytes + x = MaxBytes /\ pendingBytes = y
      /\ freeSlots \in Nat /\ freeSlots + z = MaxChunks
  BY DEF BudgetInv
<1> HIDE DEF x, y, z
<1> QED
  BY <1>2, <1>3, <1>4, BudgetAssumption

(* The state is well typed: in particular no counter runs below zero, and  *)
(* permits and slots are never handed out twice.                           *)
THEOREM IngressTypes == Spec => []IngressTypeOK
<1>1. IngressInv => IngressTypeOK
  <2> SUFFICES ASSUME IngressInv PROVE IngressTypeOK
    OBVIOUS
  <2>1. pendingBytes \in Nat /\ freeBytes \in 0 .. MaxBytes /\ freeSlots \in 0 .. MaxChunks
    BY SumsBounded DEF IngressInv
  <2>2. /\ at \in [Chunk -> Stage] /\ reply \in [Chunk -> Replies]
        /\ lane \in Seq(Chunk) /\ parsed \in Seq(Chunk)
    BY DEF IngressInv, BudgetInv, DeliveryInv, AcceptedInv, LaneInv, ParsedInv
  <2>3. pending \in 0 .. MaxRead
    BY BudgetAssumption DEF IngressInv, WorldInv
  <2> QED
    BY <2>1, <2>2, <2>3 DEF IngressInv, WorldInv, IngressTypeOK, Replies
<1> QED
  BY <1>1, IngressInvariant, PTL

(* Whatever the budget: the bytes counted and the bytes free never exceed  *)
(* it together, although counter and permits change one after the other.   *)
THEOREM BudgetKept == Spec => []WithinBudget
<1>1. IngressInv => WithinBudget
  BY SumsBounded DEF IngressInv, WithinBudget
<1> QED
  BY <1>1, IngressInvariant, PTL

(* However much is read: nothing that a send accepted is overtaken or      *)
(* skipped on its way to the terminal.                                     *)
THEOREM ParsingOrder == Spec => []ParsedInOrder
<1>1. IngressInv => ParsedInOrder
  <2> SUFFICES ASSUME IngressInv, NEW i \in DOMAIN parsed
               PROVE  /\ \A j \in 1 .. i - 1 : parsed[j] < parsed[i]
                      /\ \A c \in 1 .. parsed[i] : Accepted(c) => \E j \in 1 .. i : parsed[j] = c
    BY DEF ParsedInOrder
  <2>1. /\ parsed \in Seq(Chunk) /\ Len(parsed) \in Nat /\ i \in 1 .. Len(parsed)
        /\ \A j, k \in 1 .. Len(parsed) : k < j => parsed[k] < parsed[j]
        /\ \A c \in Chunk : c <= parsed[i] /\ Accepted(c) => InParsed(c)
        /\ \A j \in 1 .. Len(parsed) : parsed[j] \in Chunk
    BY DEF IngressInv, DeliveryInv, ParsedInv
  <2>2. \A j \in 1 .. i - 1 : parsed[j] < parsed[i]
    BY <2>1
  <2>3. ASSUME NEW c \in 1 .. parsed[i], Accepted(c)
        PROVE  \E j \in 1 .. i : parsed[j] = c
    <3>1. c \in Chunk /\ c <= parsed[i]
      BY <2>1, BudgetAssumption DEF Chunk
    <3>2. PICK j \in 1 .. Len(parsed) : parsed[j] = c
      BY <2>1, <2>3, <3>1 DEF InParsed
    <3>3. ~(i < j)
      <4>1. i < j => parsed[i] < parsed[j]
        BY <2>1
      <4> QED
        BY <2>1, <3>1, <3>2, <4>1 DEF Chunk
    <3> QED
      BY <2>1, <3>2, <3>3
  <2> QED
    BY <2>2, <2>3
<1> QED
  BY <1>1, IngressInvariant, PTL

(* For every budget and however the threads interleave: what is reported   *)
(* as drained has gone through the parser.                                 *)
THEOREM DrainedIsParsed == Spec => []DrainedMeansParsed
<1>1. IngressInv => DrainedMeansParsed
  BY DEF IngressInv, DeliveryInv, DrainedInv, DrainedMeansParsed, ParsedInv, InParsed
<1> QED
  BY <1>1, IngressInvariant, PTL
=============================================================================
