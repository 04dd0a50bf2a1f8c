------------------------------- MODULE RxQueue -------------------------------
(***************************************************************************)
(* The receive queue of Transceiver.cpp: the receive interrupt copies each *)
(* decoded frame into a slot, the loop pops the oldest.                    *)
(*                                                                         *)
(* Only length and index[] are guarded by rxMux; the frames themselves are *)
(* copied outside it, and a slot belongs to whoever the bookkeeping says:  *)
(* free while its pulseCount is 0.  The interrupt is attached on the core  *)
(* of the first caller of attachInterrupt(), so its critical sections and  *)
(* copies interleave with the loop's.                                      *)
(*                                                                         *)
(* What is abstracted: a frame is the number of its capture, its payload   *)
(* and pulses with it; its RSSI was sampled or was not.                    *)
(***************************************************************************)
EXTENDS Naturals, FiniteSets, Sequences

CONSTANTS
  MAX_RX_BUFFER,  \* slots
  MaxFrames       \* bound: frames captured in one run

ASSUME BufferAssumption == MAX_RX_BUFFER \in 2 .. 254 /\ MaxFrames \in Nat

VARIABLES
  length, index, items,     \* rx_queue
  isr, first, captured,     \* the interrupt, its slot, the frame in somfy_rx
  pop, ndx, rx              \* the loop in receive(), its slot, its copy

bookkeeping == <<length, index>>
interrupt == <<isr, first, captured>>
consumer == <<pop, ndx, rx>>
vars == <<bookkeeping, items, interrupt, consumer>>

Slots == 0 .. MAX_RX_BUFFER - 1
None == 255                          \* an index that refers to no slot
NoFrame == [frame |-> 0, rssi |-> FALSE]
Frame == [frame : 0 .. MaxFrames, rssi : BOOLEAN]
Slot == [used : BOOLEAN, frame : 0 .. MaxFrames, rssi : BOOLEAN]
Content(s) == [frame |-> s.frame, rssi |-> s.rssi]

Init ==
  /\ length = 0 /\ index = [i \in Slots |-> None]
  /\ items = [s \in Slots |-> [used |-> FALSE, frame |-> 0, rssi |-> FALSE]]
  /\ isr = "idle" /\ first = None /\ captured = NoFrame
  /\ pop = "idle" /\ ndx = None /\ rx = NoFrame

-----------------------------------------------------------------------------
(* The tail of handleReceive(): the last bit of a frame is in.             *)

\* The oldest frame is thrown away when the queue is full.
Overflow == length >= MAX_RX_BUFFER

Kept == IF Overflow THEN [items EXCEPT ![index[MAX_RX_BUFFER - 1]].used = FALSE] ELSE items

Free(its) == {s \in Slots : ~its[s].used}

\* First critical section: overflow, then the first free slot.  Without one the
\* frame is dropped.
Reserve(sampled) ==
  /\ isr = "idle" /\ captured.frame < MaxFrames
  /\ captured' = [frame |-> captured.frame + 1, rssi |-> sampled]
  /\ items' = Kept
  /\ IF Overflow
     THEN index' = [index EXCEPT ![MAX_RX_BUFFER - 1] = None] /\ length' = length - 1
     ELSE UNCHANGED bookkeeping
  /\ IF Free(Kept) = {}
     THEN UNCHANGED <<isr, first>>
     ELSE /\ isr' = "copy"
          /\ \E s \in Free(Kept) : first' = s /\ \A t \in Free(Kept) : s <= t
  /\ UNCHANGED consumer

\* memcpy() into the reserved slot, outside the lock: pulseCount with the rest.
CopyIn ==
  /\ isr = "copy"
  /\ items' = [items EXCEPT ![first] = [used |-> TRUE, frame |-> captured.frame, rssi |-> captured.rssi]]
  /\ isr' = "publish"
  /\ UNCHANGED <<bookkeeping, first, captured, consumer>>

\* Second critical section: the indexes move up, the new one goes first.
Publish ==
  /\ isr = "publish"
  /\ index' = [i \in Slots |-> IF i = 0 THEN first ELSE index[i - 1]]
  /\ length' = length + 1
  /\ isr' = "idle" /\ first' = None
  /\ UNCHANGED <<items, captured, consumer>>

-----------------------------------------------------------------------------
(* Transceiver::receive() and somfy_rx_queue_t::pop().                     *)

\* The check without the lock.
CheckLength ==
  /\ pop = "idle" /\ length > 0
  /\ pop' = "claim"
  /\ UNCHANGED <<bookkeeping, items, interrupt, ndx, rx>>

\* Bug: the slot is given back before it is copied.
ClaimFreeing ==
  /\ pop = "claim"
  /\ \E i \in Slots :
       /\ index[i] # None /\ \A j \in Slots : j > i => index[j] = None
       /\ ndx' = index[i] /\ index' = [index EXCEPT ![i] = None]
       /\ items' = [items EXCEPT ![index[i]].used = FALSE]
  /\ length' = IF length > 0 THEN length - 1 ELSE length
  /\ pop' = "copy"
  /\ UNCHANGED <<interrupt, rx>>

\* The critical section: the oldest slot is detached and stays marked in use.
Claim ==
  /\ pop = "claim"
  /\ \E i \in Slots :
       /\ index[i] # None /\ \A j \in Slots : j > i => index[j] = None
       /\ ndx' = index[i] /\ index' = [index EXCEPT ![i] = None]
  /\ length' = IF length > 0 THEN length - 1 ELSE length
  /\ pop' = "copy"
  /\ UNCHANGED <<items, interrupt, rx>>

CopyOut ==
  /\ pop = "copy"
  /\ rx' = Content(items[ndx])
  /\ pop' = "clear"
  /\ UNCHANGED <<bookkeeping, items, interrupt, ndx>>

\* somfy_rx_t::clear(): the slot is wiped, then handed back by pulseCount = 0 ...
ClearPulses ==
  /\ pop = "clear"
  /\ items' = [items EXCEPT ![ndx].used = FALSE, ![ndx].frame = 0]
  /\ pop' = "cleared"
  /\ UNCHANGED <<bookkeeping, interrupt, ndx, rx>>

\* Bug: the slot is handed back before its payload is wiped.
WipeLate ==
  /\ pop = "cleared"
  /\ items' = [items EXCEPT ![ndx].frame = 0, ![ndx].rssi = FALSE]
  /\ pop' = "idle" /\ ndx' = None
  /\ UNCHANGED <<bookkeeping, interrupt, rx>>

\* ... and its RSSI is written after that, whoever has the slot by then.
ClearRssi ==
  /\ pop = "cleared"
  /\ items' = [items EXCEPT ![ndx].rssi = FALSE]
  /\ pop' = "idle" /\ ndx' = None
  /\ UNCHANGED <<bookkeeping, interrupt, rx>>

-----------------------------------------------------------------------------
Isr == (\E sampled \in BOOLEAN : Reserve(sampled)) \/ CopyIn \/ Publish
Receive == CheckLength \/ Claim \/ CopyOut \/ ClearPulses \/ ClearRssi

Next == Isr \/ Receive

Spec == Init /\ [][Next]_vars

-----------------------------------------------------------------------------
(* Properties.                                                             *)

TypeOK ==
  /\ length \in 0 .. MAX_RX_BUFFER /\ index \in [Slots -> Slots \cup {None}]
  /\ items \in [Slots -> Slot]
  /\ isr \in {"idle", "copy", "publish"} /\ first \in Slots \cup {None} /\ captured \in Frame
  /\ pop \in {"idle", "claim", "copy", "clear", "cleared"} /\ ndx \in Slots \cup {None} /\ rx \in Frame

(* The slot the interrupt fills, the slot the loop copies and the queued   *)
(* slots are different ones, so no frame is overwritten before the loop    *)
(* has its copy.  That is what pop() and handleReceive() keep of "the ISR  *)
(* is the only producer, so no concurrent writer exists"                   *)
(* (Transceiver.cpp:383): the loop's claim ends with pulseCount = 0, but   *)
(* clear() writes the slot once more (ClearRssi), whoever has it by then.  *)
(* What that write can reach is said by ImplementsFrameBuffer.             *)
Queued == {s \in Slots : \E i \in Slots : index[i] = s}
Filling == IF isr = "idle" THEN {} ELSE {first}
Copying == IF pop \in {"copy", "clear"} THEN {ndx} ELSE {}

Exclusive ==
  /\ Queued \cap Filling = {} /\ Queued \cap Copying = {} /\ Filling \cap Copying = {}
  /\ \A i, j \in Slots : index[i] = index[j] /\ index[i] # None => i = j

(* No slot is lost to the queue or handed out twice, whatever overflowed   *)
(* while the loop was copying: the slots marked in use are those somebody  *)
(* answers for, and length counts the queued ones.                         *)
SlotsAccountedFor ==
  /\ {s \in Slots : items[s].used} \cup Filling = Queued \cup Copying \cup Filling
  /\ \A i \in Slots : index[i] # None <=> i < length

(* pop() finds a frame whenever the unlocked check saw one, although the   *)
(* interrupt may drop the oldest in between: receive() decodes its copy    *)
(* without looking at what pop() returned.                                 *)
PopFinds == pop = "claim" => Queued # {}

(* All of it at once, the types included.                                  *)
HandoverSafe == TypeOK /\ Exclusive /\ SlotsAccountedFor /\ PopFinds

(* Every frame captured reaches the loop whole, in the order of capture    *)
(* and once, but for the oldest of a full queue and for a new one while    *)
(* the last slot is being copied out; and the late write of clear(),       *)
(* against pop()'s "clear() writes pulseCount = 0 last"                    *)
(* (Transceiver.cpp:172), costs at most one frame in the queue its RSSI    *)
(* each time: RxQueue implements FrameBuffer.                              *)
InTransit ==
  CASE isr = "idle" -> << >>
    [] isr = "copy" -> << captured >>
    [] isr = "publish" -> << Content(items[first]) >>

Handed == IF pop = "copy" THEN Content(items[ndx]) ELSE rx

Taking ==
  CASE pop \in {"copy", "clear"} -> "copying"
    [] pop = "cleared" -> "clearing"
    [] OTHER -> "no"

Buffer == INSTANCE FrameBuffer
            WITH Capacity <- MAX_RX_BUFFER, captures <- captured.frame, arriving <- InTransit,
                 held <- [k \in 1 .. length |-> Content(items[index[length - k]])],
                 given <- Handed, taking <- Taking

ImplementsFrameBuffer == Buffer!Spec

=============================================================================
