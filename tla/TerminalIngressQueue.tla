------------------------- MODULE TerminalIngressQueue -------------------------
(***************************************************************************)
(* The byte-bounded queue between a transport and the terminal parser      *)
(* (crates/terminal/src/ingress_queue.rs): a data lane limited in chunks   *)
(* by its channel and in bytes by a semaphore, beside a counter of the     *)
(* pending bytes; a control lane; an abort token.  Each operation is cut   *)
(* at the points where another thread may come between.                    *)
(*                                                                         *)
(* A chunk is the payload of one send.  Its stage says how far the send,   *)
(* the lane and the reservation of its bytes are:                          *)
(*   idle       not offered, or handed back as Full                        *)
(*   bytes      its send waits for byte permits                            *)
(*   assigned   the semaphore gave it permits, its send was not polled yet *)
(*   acquired   permits in hand, not counted                               *)
(*   reserved   counted, about to ask for a slot of the data channel       *)
(*   slot       its send waits for a slot                                  *)
(*   given      the channel gave it a slot, its send was not polled yet    *)
(*   slotted    slot in hand, before the second look at the abort token    *)
(*   sending    about to put the payload into the slot                     *)
(*   queued     in the data lane                                           *)
(*   taken      received: the guard keeps its bytes reserved               *)
(*   dropping   its reservation is being dropped                           *)
(*   uncounted  subtracted from the counter, permits not returned yet      *)
(*   gone       nothing of it is left                                      *)
(* A non-blocking send goes through tried and tryslot instead.             *)
(***************************************************************************)
EXTENDS Integers, FiniteSets, Sequences

CONSTANTS
    MaxRead,     \* how many chunks a transport offers
    MaxBytes,    \* TerminalIngressBudget.max_pending_bytes
    MaxChunks,   \* TerminalIngressBudget.max_pending_chunks
    Bytes        \* the total length of a set of chunks

(* Chunks are numbered in the order in which they are offered.             *)
Chunk == 1 .. MaxRead

ASSUME BudgetAssumption ==
    /\ MaxRead \in Nat
    /\ MaxBytes \in Nat \ {0}
    /\ MaxChunks \in Nat \ {0}

(* Every payload is non-empty and fits the budget: the transports skip     *)
(* empty reads and read or split into chunks no larger than it.            *)
ASSUME BytesAssumption ==
    /\ Bytes \in [SUBSET Chunk -> Nat]
    /\ Bytes[{}] = 0
    /\ \A c \in Chunk : Bytes[{c}] \in 1 .. MaxBytes
    /\ \A S \in SUBSET Chunk : \A c \in Chunk \ S :
            Bytes[S \cup {c}] = Bytes[S] + Bytes[{c}]
    /\ \A S, T \in SUBSET Chunk : S \subseteq T => Bytes[S] <= Bytes[T]

VARIABLES
    at,            \* the stage of each chunk
    reply,         \* what its last send returned
    freeBytes,     \* permits of byte_permits in nobody's hand
    pendingBytes,  \* the counter pending_bytes
    freeSlots,     \* permits of the data channel in nobody's hand
    lane,          \* the data channel
    bytesClosed,   \* byte_permits was closed
    cancelled,     \* the abort token
    lanesClosed,   \* the receiver closed both channels
    control,       \* the one control a transport sends, and its send
    senders        \* the holders of live senders

queueVars == << at, reply, freeBytes, pendingBytes, freeSlots, lane, bytesClosed,
                cancelled, lanesClosed, control, senders >>
budgetVars == << freeBytes, pendingBytes, freeSlots >>
abortVars == << bytesClosed, cancelled, lanesClosed >>

Stage == {"idle", "bytes", "assigned", "acquired", "reserved", "slot", "given", "slotted",
          "sending", "queued", "taken", "dropping", "uncounted", "gone", "tried", "tryslot"}

(* The stages in which a send awaits, and may be dropped.                  *)
Awaiting == {"idle", "bytes", "assigned", "slot", "given"}

(* The chunks whose permits are out, whose bytes are counted, and which    *)
(* occupy a slot.                                                          *)
HoldsPermits(c) == at[c] \notin {"idle", "bytes", "gone"}
Counted(c) == HoldsPermits(c) /\ at[c] \notin {"assigned", "acquired", "tried", "uncounted"}
HoldsSlot(c) == at[c] \in {"given", "slotted", "sending", "queued"}

QueueInit ==
    /\ at = [c \in Chunk |-> "idle"]
    /\ reply = [c \in Chunk |-> "none"]
    /\ freeBytes = MaxBytes
    /\ pendingBytes = 0
    /\ freeSlots = MaxChunks
    /\ lane = << >>
    /\ bytesClosed = FALSE
    /\ cancelled = FALSE
    /\ lanesClosed = FALSE
    /\ control = "none"

Move(c, stage) == at' = [at EXCEPT ![c] = stage]
Answer(c, result) == reply' = [reply EXCEPT ![c] = result]

(* What a waiter of the semaphore lacks is reserved for it: a later        *)
(* request finds nothing.                                                  *)
BytesAvailable(c) == Bytes[{c}] <= freeBytes /\ \A d \in Chunk : at[d] # "bytes"
SlotAvailable == freeSlots > 0 /\ \A d \in Chunk : at[d] # "slot"

-----------------------------------------------------------------------------
(* send_data.                                                              *)

(* acquire_bytes up to its first await: aborted, acquired or waiting.      *)
OfferWaiting(c) ==
    /\ at[c] = "idle"
    /\ IF cancelled \/ bytesClosed
       THEN Move(c, "gone") /\ Answer(c, "Closed") /\ UNCHANGED freeBytes
       ELSE IF BytesAvailable(c)
       THEN Move(c, "acquired") /\ UNCHANGED reply /\ freeBytes' = freeBytes - Bytes[{c}]
       ELSE Move(c, "bytes") /\ UNCHANGED << reply, freeBytes >>
    /\ UNCHANGED << pendingBytes, freeSlots, lane, abortVars, control, senders >>

(* The semaphore hands a waiter its permits.                               *)
AssignBytes(c) ==
    /\ at[c] = "bytes"
    /\ ~bytesClosed
    /\ Bytes[{c}] <= freeBytes
    /\ Move(c, "assigned")
    /\ freeBytes' = freeBytes - Bytes[{c}]
    /\ UNCHANGED << reply, pendingBytes, freeSlots, lane, abortVars, control, senders >>

(* The waiting send is polled: the abort branch goes first.                *)
PollBytes(c) ==
    /\ \/ at[c] = "bytes" /\ (cancelled \/ bytesClosed)
       \/ at[c] = "assigned"
    /\ IF cancelled \/ at[c] = "bytes"
       THEN Move(c, IF at[c] = "bytes" THEN "gone" ELSE "uncounted") /\ Answer(c, "Closed")
       ELSE Move(c, "acquired") /\ UNCHANGED reply
    /\ UNCHANGED << budgetVars, lane, abortVars, control, senders >>

(* reserve_bytes.                                                          *)
ReserveBytes(c) ==
    /\ at[c] \in {"acquired", "tried"}
    /\ Move(c, IF at[c] = "tried" THEN "tryslot" ELSE "reserved")
    /\ pendingBytes' = pendingBytes + Bytes[{c}]
    /\ UNCHANGED << reply, freeBytes, freeSlots, lane, abortVars, control, senders >>

(* The select between the abort token and data_tx.reserve().               *)
ReserveSlot(c) ==
    /\ at[c] = "reserved"
    /\ IF cancelled \/ lanesClosed
       THEN Move(c, "dropping") /\ Answer(c, "Closed") /\ UNCHANGED freeSlots
       ELSE IF SlotAvailable
       THEN Move(c, "slotted") /\ UNCHANGED reply /\ freeSlots' = freeSlots - 1
       ELSE Move(c, "slot") /\ UNCHANGED << reply, freeSlots >>
    /\ UNCHANGED << freeBytes, pendingBytes, lane, abortVars, control, senders >>

AssignSlot(c) ==
    /\ at[c] = "slot"
    /\ ~lanesClosed
    /\ freeSlots > 0
    /\ Move(c, "given")
    /\ freeSlots' = freeSlots - 1
    /\ UNCHANGED << reply, freeBytes, pendingBytes, lane, abortVars, control, senders >>

PollSlot(c) ==
    /\ \/ at[c] = "slot" /\ (cancelled \/ lanesClosed)
       \/ at[c] = "given"
    /\ IF cancelled \/ at[c] = "slot"
       THEN /\ Move(c, "dropping")
            /\ Answer(c, "Closed")
            /\ freeSlots' = IF at[c] = "given" THEN freeSlots + 1 ELSE freeSlots
       ELSE Move(c, "slotted") /\ UNCHANGED << reply, freeSlots >>
    /\ UNCHANGED << freeBytes, pendingBytes, lane, abortVars, control, senders >>

(* The second look at the token, with the slot in hand.                    *)
RecheckAbort(c) ==
    /\ at[c] = "slotted"
    /\ IF cancelled
       THEN Move(c, "dropping") /\ Answer(c, "Closed") /\ freeSlots' = freeSlots + 1
       ELSE Move(c, "sending") /\ UNCHANGED << reply, freeSlots >>
    /\ UNCHANGED << freeBytes, pendingBytes, lane, abortVars, control, senders >>

(* slot.send: never refused, whatever happened to the receiver since.      *)
SendSlot(c) ==
    /\ at[c] = "sending"
    /\ Move(c, "queued")
    /\ Answer(c, "Ok")
    /\ lane' = Append(lane, c)
    /\ UNCHANGED << budgetVars, abortVars, control, senders >>

(* Mutant: a dropped send returns its slot but not its bytes.              *)
DropSendLeaking(c) ==
    /\ at[c] \in Awaiting
    /\ Move(c, "gone")
    /\ freeSlots' = IF at[c] = "given" THEN freeSlots + 1 ELSE freeSlots
    /\ UNCHANGED << reply, freeBytes, pendingBytes, lane, abortVars, control, senders >>

(* The future of a waiting send is dropped: what it was given goes back.   *)
DropSend(c) ==
    /\ at[c] \in Awaiting
    /\ Move(c, CASE at[c] \in {"idle", "bytes"} -> "gone"
                 [] at[c] = "assigned" -> "uncounted"
                 [] OTHER -> "dropping")
    /\ freeSlots' = IF at[c] = "given" THEN freeSlots + 1 ELSE freeSlots
    /\ UNCHANGED << reply, freeBytes, pendingBytes, lane, abortVars, control, senders >>

-----------------------------------------------------------------------------
(* try_send_data.                                                          *)

(* The look at the token and try_acquire_many_owned.                       *)
OfferNow(c) ==
    /\ at[c] = "idle"
    /\ IF cancelled \/ bytesClosed
       THEN Move(c, "gone") /\ Answer(c, "Closed") /\ UNCHANGED freeBytes
       ELSE IF BytesAvailable(c)
       THEN Move(c, "tried") /\ UNCHANGED reply /\ freeBytes' = freeBytes - Bytes[{c}]
       ELSE Move(c, "gone") /\ Answer(c, "Full") /\ UNCHANGED freeBytes
    /\ UNCHANGED << pendingBytes, freeSlots, lane, abortVars, control, senders >>

(* try_reserve of a slot.                                                  *)
TrySlot(c) ==
    /\ at[c] = "tryslot"
    /\ IF lanesClosed
       THEN Move(c, "dropping") /\ Answer(c, "Closed") /\ UNCHANGED freeSlots
       ELSE IF SlotAvailable
       THEN Move(c, "sending") /\ UNCHANGED reply /\ freeSlots' = freeSlots - 1
       ELSE Move(c, "dropping") /\ Answer(c, "Full") /\ UNCHANGED freeSlots
    /\ UNCHANGED << freeBytes, pendingBytes, lane, abortVars, control, senders >>

-----------------------------------------------------------------------------
(* Drop of ByteReservation: the counter first, then the field _permit.     *)

(* Mutant: the permits are free before the counter says so.                *)
UncountLate(c) ==
    \/ /\ at[c] = "dropping"
       /\ Move(c, "uncounted")
       /\ freeBytes' = freeBytes + Bytes[{c}]
       /\ UNCHANGED << reply, pendingBytes, freeSlots, lane, abortVars, control, senders >>
    \/ /\ at[c] = "uncounted"
       /\ Move(c, "gone")
       /\ pendingBytes' = pendingBytes - Bytes[{c}]
       /\ UNCHANGED << reply, freeBytes, freeSlots, lane, abortVars, control, senders >>

DropReservation(c) ==
    \/ /\ at[c] = "dropping"
       /\ Move(c, "uncounted")
       /\ pendingBytes' = pendingBytes - Bytes[{c}]
       /\ UNCHANGED << reply, freeBytes, freeSlots, lane, abortVars, control, senders >>
    \/ /\ at[c] = "uncounted"
       /\ Move(c, "gone")
       /\ freeBytes' = freeBytes + Bytes[{c}]
       /\ UNCHANGED << reply, pendingBytes, freeSlots, lane, abortVars, control, senders >>

-----------------------------------------------------------------------------
(* send_control of the one control there is; its lane is never full.       *)

OfferControl == control = "none" /\ control' = "offered"

SendControl ==
    /\ \/ control = "offered" /\ control' = IF cancelled \/ lanesClosed THEN "refused"
                                            ELSE "sending"
       \/ control = "sending" /\ cancelled /\ control' = "refused"
       \/ control = "sending" /\ control' = "queued"
    /\ UNCHANGED << at, reply, budgetVars, lane, abortVars >>

-----------------------------------------------------------------------------
(* The receiver.                                                           *)

(* Take the head of the data lane; its slot is free again.                 *)
TakeData(stage) ==
    /\ lane # << >>
    /\ Move(Head(lane), stage)
    /\ lane' = Tail(lane)
    /\ freeSlots' = freeSlots + 1
    /\ UNCHANGED << reply, freeBytes, pendingBytes, abortVars, control, senders >>

(* QueueState::abort, called by either side: two steps.                    *)
CloseBytes ==
    /\ bytesClosed' = TRUE
    /\ UNCHANGED << at, reply, budgetVars, lane, cancelled, lanesClosed, control, senders >>

Cancel ==
    /\ cancelled' = TRUE
    /\ UNCHANGED << at, reply, budgetVars, lane, bytesClosed, lanesClosed, control, senders >>

(* close() of both lanes.                                                  *)
CloseLanes ==
    /\ lanesClosed' = TRUE
    /\ UNCHANGED << at, reply, budgetVars, lane, bytesClosed, cancelled, control, senders >>

(* Nothing can arrive any more on a lane that is empty now.                *)
NoSenderLeft == senders = {} /\ lane = << >> /\ control # "queued"

=============================================================================
