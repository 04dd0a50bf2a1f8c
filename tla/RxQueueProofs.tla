--------------------------- MODULE RxQueueProofs ----------------------------
(***************************************************************************)
(* RxQueue proved for any number of slots: the slots filled, copied and    *)
(* queued are different, no slot is lost, and the queue implements         *)
(* FrameBuffer.                                                            *)
(* The inductive invariant says who owns each slot in terms of index[],    *)
(* first and ndx; the sets of RxQueue's properties follow from it.         *)
(***************************************************************************)
EXTENDS RxQueue, SequenceTheorems, FiniteSetTheorems, TLAPS

\* index[] is filled from its start, up to length.
Indexed == \A i \in Slots : index[i] # None <=> i < length

\* No slot is queued twice.
Distinct == \A i, j \in Slots : index[i] = index[j] /\ index[i] # None => i = j

\* A queued slot is in use, and neither the interrupt nor the loop holds it.
QueuedUsed ==
  \A i \in Slots : index[i] # None =>
    /\ items[index[i]].used
    /\ isr # "idle" => index[i] # first
    /\ pop \in {"copy", "clear"} => index[i] # ndx

\* A slot in use is queued, being filled or being read.
Owned == \A s \in Slots : items[s].used => \/ \E i \in Slots : index[i] = s
                                           \/ isr # "idle" /\ s = first
                                           \/ pop \in {"copy", "clear"} /\ s = ndx

\* The reserved slot is in use once the frame is in it, and publishing it will fit.
Filled ==
  isr # "idle" => /\ first \in Slots /\ length < MAX_RX_BUFFER
                  /\ items[first].used <=> isr = "publish"
                  /\ pop \in {"copy", "clear"} => first # ndx

\* The slot the loop reads stays in use until it is cleared.
Claimed ==
  /\ pop \in {"copy", "clear"} => ndx \in Slots /\ items[ndx].used
  /\ pop = "cleared" => ndx \in Slots
  /\ pop = "claim" => length > 0

\* The inductive invariant.
IInv == TypeOK /\ Indexed /\ Distinct /\ QueuedUsed /\ Owned /\ Filled /\ Claimed

\* What MAX_RX_BUFFER being a small number of slots gives.
LEMMA SlotFacts ==
  /\ MAX_RX_BUFFER \in Nat /\ MAX_RX_BUFFER >= 2 /\ None \notin Slots /\ Slots \subseteq Nat
  /\ MAX_RX_BUFFER - 1 \in Slots /\ 0 \in Slots /\ \A i \in Slots : i < MAX_RX_BUFFER
  /\ MaxFrames \in Nat
BY BufferAssumption DEF BufferAssumption, None, Slots

\* somfy_rx_queue_t::init() establishes the inductive invariant.
LEMMA InitInv == Init => IInv
<1> SUFFICES ASSUME Init PROVE IInv
  OBVIOUS
<1> USE SlotFacts
<1>1. TypeOK
  BY DEF Init, TypeOK, Slot, Frame, NoFrame
<1>2. QED
  BY <1>1 DEF Init, IInv, Indexed, Distinct, QueuedUsed, Owned, Filled, Claimed

\* The interrupt's first critical section keeps it: overflow, then a free slot.
LEMMA ReserveInv == ASSUME IInv, NEW sampled \in BOOLEAN, Reserve(sampled) PROVE IInv'
<1> DEFINE last == MAX_RX_BUFFER - 1
<1> USE SlotFacts DEF IInv
<1>1. captured' \in Frame /\ UNCHANGED <<pop, ndx, rx>> /\ items' = Kept /\ isr = "idle"
  BY DEF Reserve, Frame, TypeOK, consumer
<1>2. Overflow => index[last] \in Slots /\ length = MAX_RX_BUFFER
  BY DEF TypeOK, Indexed, Overflow
<1>3. /\ Kept \in [Slots -> Slot]
      /\ \A s \in Slots : Kept[s].used <=> items[s].used /\ ~(Overflow /\ s = index[last])
  BY <1>2 DEF Kept, TypeOK, Slot
<1>4. /\ index' \in [Slots -> Slots \cup {None}]
      /\ \A i \in Slots : index'[i] = IF Overflow /\ i = last THEN None ELSE index[i]
  <2>1. CASE Overflow
    BY <2>1 DEF Reserve, TypeOK
  <2>2. CASE ~Overflow
    BY <2>2 DEF Reserve, TypeOK, bookkeeping
  <2>3. QED
    BY <2>1, <2>2
<1>5. length' = IF Overflow THEN length - 1 ELSE length
  BY DEF Reserve, bookkeeping
<1>6. length' \in 0 .. MAX_RX_BUFFER /\ length' < MAX_RX_BUFFER /\ (length > 0 => length' > 0)
  BY <1>2, <1>5 DEF TypeOK, Overflow
<1>7. \/ isr' = "idle" /\ first' = first
      \/ isr' = "copy" /\ first' \in Slots /\ ~Kept[first'].used
  BY <1>1 DEF Reserve, Free
<1>8. TypeOK'
  BY <1>1, <1>3, <1>4, <1>6, <1>7 DEF TypeOK
<1>9. Indexed'
  BY <1>2, <1>4, <1>5 DEF Indexed, Overflow, TypeOK, Slots
<1>10. Distinct'
  BY <1>4 DEF Distinct
<1>11. QueuedUsed'
  <2> SUFFICES ASSUME NEW i \in Slots, index'[i] # None
               PROVE  items'[index'[i]].used /\ (isr' # "idle" => index'[i] # first')
                      /\ (pop' \in {"copy", "clear"} => index'[i] # ndx')
    BY DEF QueuedUsed
  <2>1. index'[i] = index[i] /\ index[i] \in Slots /\ ~(Overflow /\ i = last)
    BY <1>4 DEF TypeOK
  <2>2. Overflow => index[i] # index[last]
    BY <2>1, <1>2 DEF Distinct
  <2>3. items[index[i]].used /\ (pop \in {"copy", "clear"} => index[i] # ndx)
    BY <2>1, Zenon DEF QueuedUsed
  <2>4. Kept[index[i]].used
    BY <1>3, <2>1, <2>2, <2>3, Zenon
  <2>5. isr' # "idle" => index[i] # first'
    BY <1>1, <1>7, <2>4, Zenon
  <2>6. QED
    BY <1>1, <2>1, <2>3, <2>4, <2>5, Zenon
<1>12. Owned'
  <2> SUFFICES ASSUME NEW s \in Slots, items'[s].used
               PROVE  \/ \E i \in Slots : index'[i] = s
                      \/ isr' # "idle" /\ s = first'
                      \/ pop' \in {"copy", "clear"} /\ s = ndx'
    BY DEF Owned
  <2>1. items[s].used /\ ~(Overflow /\ s = index[last])
    BY <1>1, <1>3
  <2>2. CASE \E i \in Slots : index[i] = s
    BY <2>1, <2>2, <1>4
  <2>3. CASE pop \in {"copy", "clear"} /\ s = ndx
    BY <2>3, <1>1
  <2>4. QED
    BY <2>1, <2>2, <2>3, <1>1 DEF Owned
<1>13. Filled' /\ Claimed'
  <2>1. ASSUME pop \in {"copy", "clear"} PROVE ndx \in Slots /\ Kept[ndx].used
    <3>1. ndx \in Slots /\ items[ndx].used
      BY <2>1, Zenon DEF Claimed
    <3>2. Overflow => index[last] # ndx
      BY <1>2, <2>1, Zenon DEF QueuedUsed
    <3>3. QED
      BY <1>3, <3>1, <3>2, Zenon
  <2>2. Claimed'
    BY <1>1, <1>6, <2>1 DEF Claimed
  <2>3. isr' = "idle" \/ (isr' = "copy" /\ ~items'[first'].used)
    BY <1>1, <1>7, Zenon
  <2>4. isr' # "idle" => (items'[first'].used <=> isr' = "publish")
    BY <2>3
  <2>5. isr' # "idle" /\ pop' \in {"copy", "clear"} => first' # ndx'
    BY <1>1, <1>7, <2>1, Zenon
  <2>6. isr' # "idle" => first' \in Slots /\ length' < MAX_RX_BUFFER
    BY <1>1, <1>6, <1>7
  <2>7. QED
    BY <2>2, <2>4, <2>5, <2>6 DEF Filled
<1>14. QED
  BY <1>8, <1>9, <1>10, <1>11, <1>12, <1>13

\* pop()'s critical section keeps it: the last index filled is the oldest frame.
LEMMA ClaimInv == ASSUME IInv, Claim PROVE IInv'
<1> USE SlotFacts DEF IInv
<1>1. PICK i \in Slots : /\ index[i] # None /\ \A j \in Slots : j > i => index[j] = None
                         /\ ndx' = index[i] /\ index' = [index EXCEPT ![i] = None]
  BY DEF Claim
<1>2. /\ pop = "claim" /\ pop' = "copy" /\ UNCHANGED <<items, isr, first, captured, rx>>
      /\ length' = IF length > 0 THEN length - 1 ELSE length
  BY DEF Claim, interrupt
<1>3. length = i + 1 /\ length' = i /\ length' < length /\ length' \in 0 .. MAX_RX_BUFFER
  <2>1. i < length
    BY <1>1 DEF Indexed
  <2>2. ~(i + 1 < length)
    BY <1>1 DEF Indexed, TypeOK, Slots
  <2>3. QED
    BY <1>2, <2>1, <2>2 DEF TypeOK
<1>4. /\ index[i] \in Slots /\ index' \in [Slots -> Slots \cup {None}]
      /\ \A j \in Slots : index'[j] = IF j = i THEN None ELSE index[j]
  BY <1>1 DEF TypeOK
<1>5. TypeOK'
  BY <1>1, <1>2, <1>3, <1>4 DEF TypeOK
<1>6. Indexed' /\ Distinct'
  BY <1>3, <1>4 DEF Indexed, Distinct, Slots
<1>7. QueuedUsed'
  BY <1>1, <1>2, <1>4 DEF QueuedUsed, Distinct
<1>8. Owned'
  BY <1>1, <1>2, <1>4 DEF Owned
<1>9. items[index[i]].used /\ (isr # "idle" => index[i] # first)
  BY <1>1, Zenon DEF QueuedUsed
<1>11. Claimed'
  BY <1>1, <1>2, <1>4, <1>9 DEF Claimed
<1>12. length' < length /\ (isr # "idle" => length' < MAX_RX_BUFFER)
  BY <1>3 DEF Filled, TypeOK
<1>13. Filled'
  BY <1>1, <1>2, <1>9, <1>12, Zenon DEF Filled
<1>10. QED
  BY <1>5, <1>6, <1>7, <1>8, <1>11, <1>13

\* The interrupt's copy keeps it: the reserved slot is nobody else's.
LEMMA CopyInInv == ASSUME IInv, CopyIn PROVE IInv'
<1> USE SlotFacts DEF IInv
<1>1. /\ isr = "copy" /\ isr' = "publish" /\ first \in Slots
      /\ UNCHANGED <<length, index, first, captured, pop, ndx, rx>>
  BY DEF CopyIn, bookkeeping, consumer, Filled
<1>2. /\ items' \in [Slots -> Slot] /\ items'[first].used
      /\ \A s \in Slots : s # first => items'[s] = items[s]
  BY <1>1 DEF CopyIn, TypeOK, Slot, Frame
<1>3. TypeOK'
  BY <1>1, <1>2 DEF TypeOK
<1>4. Indexed' /\ Distinct'
  BY <1>1 DEF Indexed, Distinct
<1>5. QueuedUsed' /\ Owned'
  BY <1>1, <1>2 DEF QueuedUsed, Owned, TypeOK
<1>6. Filled' /\ Claimed'
  BY <1>1, <1>2 DEF Filled, Claimed
<1>7. QED
  BY <1>3, <1>4, <1>5, <1>6

\* The interrupt's second critical section keeps it.
LEMMA PublishInv == ASSUME IInv, Publish PROVE IInv'
<1> USE SlotFacts DEF IInv
<1>1. /\ isr = "publish" /\ isr' = "idle" /\ first \in Slots /\ first' = None
      /\ UNCHANGED <<items, captured, pop, ndx, rx>>
      /\ length' = length + 1 /\ length' \in 0 .. MAX_RX_BUFFER /\ length' > 0
  BY DEF Publish, consumer, Filled, TypeOK
<1>2. /\ index' \in [Slots -> Slots \cup {None}] /\ index'[0] = first
      /\ \A i \in Slots : i # 0 => i - 1 \in Slots /\ index'[i] = index[i - 1]
  BY <1>1 DEF Publish, TypeOK, Slots
<1>3. TypeOK'
  BY <1>1, <1>2 DEF TypeOK
<1>4. Indexed'
  <2> SUFFICES ASSUME NEW i \in Slots PROVE index'[i] # None <=> i < length'
    BY DEF Indexed
  <2>1. CASE i = 0
    BY <2>1, <1>1, <1>2
  <2>2. CASE i # 0
    BY <2>2, <1>1, <1>2 DEF Indexed, TypeOK, Slots
  <2>3. QED
    BY <2>1, <2>2
<1>5. Distinct'
  <2> SUFFICES ASSUME NEW i \in Slots, NEW j \in Slots, index'[i] = index'[j], index'[i] # None PROVE i = j
    BY DEF Distinct
  <2>4. \A k \in Slots : index[k] # None => index[k] # first
    BY <1>1 DEF QueuedUsed
  <2>1. \A k \in Slots : k # 0 /\ index'[k] # None => index'[k] # first
    BY <1>2, <2>4
  <2>2. CASE i # 0 /\ j # 0
    BY <2>2, <1>2 DEF Distinct, Slots
  <2>3. QED
    BY <2>1, <2>2, <1>2
<1>6. QueuedUsed'
  BY <1>1, <1>2 DEF QueuedUsed, Filled
<1>7. Owned'
  <2> SUFFICES ASSUME NEW s \in Slots, items'[s].used
               PROVE  \/ \E i \in Slots : index'[i] = s
                      \/ pop' \in {"copy", "clear"} /\ s = ndx'
    BY DEF Owned
  <2>1. CASE s = first
    BY <2>1, <1>2
  <2>2. ASSUME NEW i \in Slots, index[i] = s PROVE \E k \in Slots : index'[k] = s
    <3>1. i + 1 \in Slots /\ i + 1 # 0 /\ (i + 1) - 1 = i
      BY <2>2, <1>1 DEF Indexed, Slots, TypeOK
    <3>2. index'[i + 1] = s
      BY <2>2, <3>1, <1>2
    <3>3. QED
      BY <3>1, <3>2
  <2>3. QED
    BY <2>1, <2>2, <1>1 DEF Owned
<1>8. Filled' /\ Claimed'
  BY <1>1 DEF Filled, Claimed
<1>9. QED
  BY <1>3, <1>4, <1>5, <1>6, <1>7, <1>8

\* clear() keeps it when it hands the slot back.
LEMMA ClearInv == ASSUME IInv, ClearPulses PROVE IInv'
<1> USE SlotFacts DEF IInv
<1>1. /\ pop = "clear" /\ pop' = "cleared" /\ ndx \in Slots
      /\ UNCHANGED <<length, index, isr, first, captured, ndx, rx>>
  BY DEF ClearPulses, bookkeeping, interrupt, Claimed
<1>2. /\ items' \in [Slots -> Slot] /\ ~items'[ndx].used
      /\ \A s \in Slots : s # ndx => items'[s] = items[s]
  <2>1. [items[ndx] EXCEPT !.used = FALSE, !.frame = 0] \in Slot
    <3>1. items[ndx] \in Slot /\ 0 \in 0 .. MaxFrames
      BY <1>1 DEF TypeOK
    <3>2. [items[ndx] EXCEPT !.used = FALSE] \in Slot
      BY <3>1 DEF Slot
    <3>3. QED
      BY <3>1, <3>2 DEF Slot
  <2>2. items' = [items EXCEPT ![ndx] = [items[ndx] EXCEPT !.used = FALSE, !.frame = 0]]
    BY DEF ClearPulses
  <2>3. items'[ndx] = [items[ndx] EXCEPT !.used = FALSE, !.frame = 0] /\ items' \in [Slots -> Slot]
        /\ \A s \in Slots : s # ndx => items'[s] = items[s]
    BY <1>1, <2>1, <2>2 DEF TypeOK
  <2>4. items[ndx] \in Slot
    BY <1>1 DEF TypeOK
  <2>5. ~items'[ndx].used
    BY <2>3, <2>4 DEF Slot
  <2>6. QED
    BY <2>3, <2>5
<1>3. TypeOK'
  BY <1>1, <1>2 DEF TypeOK
<1>4. Indexed' /\ Distinct'
  BY <1>1 DEF Indexed, Distinct
<1>5. QueuedUsed' /\ Owned'
  BY <1>1, <1>2 DEF QueuedUsed, Owned, TypeOK
<1>6. Filled' /\ Claimed'
  BY <1>1, <1>2 DEF Filled, Claimed
<1>7. QED
  BY <1>3, <1>4, <1>5, <1>6

\* The other steps of receive() keep it, the late RSSI write included.
LEMMA RestInv == ASSUME IInv, CheckLength \/ CopyOut \/ ClearRssi \/ UNCHANGED vars PROVE IInv'
<1> USE SlotFacts DEF IInv, bookkeeping, interrupt, consumer
<1>1. CASE CheckLength
  BY <1>1 DEF CheckLength, TypeOK, Indexed, Distinct, QueuedUsed, Owned, Filled, Claimed
<1>2. CASE CopyOut
  <2>1. rx' \in Frame /\ pop = "copy" /\ pop' = "clear" /\ UNCHANGED <<bookkeeping, items, interrupt, ndx>>
    BY <1>2 DEF CopyOut, Claimed, TypeOK, Content, Slot, Frame
  <2>2. QED
    BY <2>1 DEF TypeOK, Indexed, Distinct, QueuedUsed, Owned, Filled, Claimed
<1>3. CASE ClearRssi
  <2>1. /\ pop = "cleared" /\ pop' = "idle" /\ ndx \in Slots /\ ndx' = None
        /\ UNCHANGED <<bookkeeping, interrupt, rx>>
    BY <1>3 DEF ClearRssi, Claimed
  <2>2. items' \in [Slots -> Slot] /\ \A s \in Slots : items'[s].used = items[s].used
    BY <1>3, <2>1 DEF ClearRssi, TypeOK, Slot
  <2>3. TypeOK'
    BY <2>1, <2>2 DEF TypeOK
  <2>4. Indexed' /\ Distinct' /\ Owned'
    BY <2>1, <2>2 DEF Indexed, Distinct, Owned
  <2>5. QueuedUsed' /\ Filled' /\ Claimed'
    BY <2>1, <2>2 DEF QueuedUsed, Filled, Claimed, TypeOK
  <2>6. QED
    BY <2>3, <2>4, <2>5
<1>4. CASE UNCHANGED vars
  BY <1>4 DEF vars, TypeOK, Indexed, Distinct, QueuedUsed, Owned, Filled, Claimed
<1>5. QED
  BY <1>1, <1>2, <1>3, <1>4

\* The inductive invariant holds throughout every behaviour of the queue.
THEOREM Invariance == Spec => []IInv
<1>1. IInv /\ [Next]_vars => IInv'
  BY ReserveInv, ClaimInv, CopyInInv, PublishInv, ClearInv, RestInv DEF Next, Isr, Receive
<1>2. QED
  BY InitInv, <1>1, PTL DEF Spec

\* The bookkeeping of the receive queue stays well typed, length within its slots.
THEOREM TypeCorrect == Spec => []TypeOK
<1>1. IInv => TypeOK
  BY DEF IInv
<1>2. QED
  BY <1>1, Invariance, PTL

(* A slot is queued, filled or copied, never two of them at once           *)
(* (handleReceive(), pop()); the write of ClearRssi is outside of this.    *)
THEOREM ExclusiveCorrect == Spec => []Exclusive
<1>1. IInv => Exclusive
  <2> SUFFICES ASSUME IInv PROVE Exclusive
    OBVIOUS
  <2>1. \A i \in Slots : index[i] \in Slots =>
          /\ isr # "idle" => index[i] # first
          /\ pop \in {"copy", "clear"} => index[i] # ndx
    BY SlotFacts DEF IInv, QueuedUsed
  <2>2. isr # "idle" /\ pop \in {"copy", "clear"} => first # ndx
    BY DEF IInv, Filled
  <2>3. QED
    BY <2>1, <2>2 DEF IInv, Exclusive, Queued, Filling, Copying, Distinct
<1>2. QED
  BY <1>1, Invariance, PTL

\* No slot is lost or handed out twice, and length counts the queued ones.
THEOREM AccountCorrect == Spec => []SlotsAccountedFor
<1>1. IInv => SlotsAccountedFor
  <2> SUFFICES ASSUME IInv PROVE SlotsAccountedFor
    OBVIOUS
  <2>1. \A s \in Queued : items[s].used
    BY SlotFacts, Zenon DEF IInv, QueuedUsed, Queued
  <2>2. \A s \in Copying : s \in Slots /\ items[s].used
    BY Zenon DEF IInv, Claimed, Copying
  <2>3. \A s \in Slots : items[s].used => s \in Queued \cup Copying \cup Filling
    BY Zenon DEF IInv, Owned, Queued, Copying, Filling
  <2>4. QED
    BY <2>1, <2>2, <2>3 DEF IInv, SlotsAccountedFor, Indexed, Queued
<1>2. QED
  BY <1>1, Invariance, PTL

\* pop() never comes back empty-handed after receive() saw a frame.
THEOREM PopCorrect == Spec => []PopFinds
<1>1. IInv => PopFinds
  <2> SUFFICES ASSUME IInv, pop = "claim" PROVE Queued # {}
    BY DEF PopFinds
  <2>1. index[0] # None
    BY SlotFacts DEF IInv, Claimed, Indexed, TypeOK
  <2>2. index[0] \in Queued
    BY <2>1, SlotFacts DEF IInv, Queued, TypeOK
  <2>3. QED
    BY <2>2
<1>2. QED
  BY <1>1, Invariance, PTL

(* The interrupt never fills a slot that is queued or being copied, no     *)
(* slot is lost, and pop() never finds nothing (handleReceive(),           *)
(* receive(), pop()).                                                      *)
THEOREM HandoverCorrect == Spec => []HandoverSafe
<1>1. TypeOK /\ Exclusive /\ SlotsAccountedFor /\ PopFinds => HandoverSafe
  BY DEF HandoverSafe
<1>2. QED
  BY <1>1, TypeCorrect, ExclusiveCorrect, AccountCorrect, PopCorrect, PTL

\* The frames FrameBuffer holds: the queue read from its oldest index.
held == [k \in 1 .. length |-> Content(items[index[length - k]])]

\* What RxQueue shows of itself to FrameBuffer.
shown == <<captured.frame, InTransit, held, Handed, Taking>>

\* The queued frames are a sequence of length frames.
LEMMA HeldType ==
  ASSUME IInv
  PROVE  /\ held \in Seq(Frame) /\ Len(held) = length /\ DOMAIN held = 1 .. length
         /\ \A k \in 1 .. length : length - k \in Slots /\ index[length - k] \in Slots
                                  /\ held[k] = Content(items[index[length - k]])
<1>1. length \in Nat
  BY SlotFacts DEF IInv, TypeOK
<1>2. ASSUME NEW k \in 1 .. length
      PROVE  length - k \in Slots /\ index[length - k] \in Slots
             /\ Content(items[index[length - k]]) \in Frame
  <2>1. length - k \in Slots /\ length - k < length
    BY SlotFacts DEF IInv, TypeOK, Slots
  <2>2. index[length - k] \in Slots
    BY <2>1 DEF IInv, TypeOK, Indexed
  <2>3. items[index[length - k]] \in Slot
    BY <2>2 DEF IInv, TypeOK
  <2>4. QED
    BY <2>1, <2>2, <2>3 DEF Slot, Content, Frame
<1>3. held \in [1 .. length -> Frame]
  BY <1>2 DEF held
<1>4. QED
  BY <1>1, <1>2, <1>3 DEF held

\* HeldType as a state predicate.
HeldWell == held \in Seq(Frame) /\ Len(held) = length /\ DOMAIN held = 1 .. length

\* HeldType after a step.
LEMMA HeldNext == IInv' => HeldWell'
<1>1. IInv => HeldWell
  BY HeldType DEF HeldWell
<1>2. QED
  BY <1>1, PTL

\* A step that changes no queued frame leaves the buffer as it was.
LEMMA HeldStays ==
  ASSUME IInv, UNCHANGED <<length, index>>,
         \A i \in Slots : index[i] # None => Content(items'[index[i]]) = Content(items[index[i]])
  PROVE  held' = held
<1>1. \A k \in 1 .. length : Content(items'[index[length - k]]) = Content(items[index[length - k]])
  BY HeldType, SlotFacts
<1>2. held' = [k \in 1 .. length |-> Content(items'[index[length - k]])]
  BY DEF held, Content
<1>3. QED
  BY <1>1, <1>2 DEF held

(* The queued slots and the one being copied are as many as there are      *)
(* slots exactly when none is free: the slots of index[] are all different *)
(* and every slot in use is one of them, or the loop's.                    *)
LEMMA NoneFree ==
  ASSUME IInv, isr = "idle", ~Overflow
  PROVE  Free(items) = {} <=> pop \in {"copy", "clear"} /\ length = MAX_RX_BUFFER - 1
<1> DEFINE copying == pop \in {"copy", "clear"}
           n == IF copying THEN length + 1 ELSE length
           f == [k \in 1 .. n |-> IF k <= length THEN index[k - 1] ELSE ndx]
<1> USE SlotFacts
<1>1. length \in Nat /\ length < MAX_RX_BUFFER /\ n \in Nat /\ n <= MAX_RX_BUFFER
      /\ (n = MAX_RX_BUFFER <=> copying /\ length = MAX_RX_BUFFER - 1)
  BY DEF IInv, TypeOK, Overflow
<1>2. \A k \in 1 .. length : k - 1 \in Slots /\ index[k - 1] \in Slots /\ index[k - 1] # None
  <2> SUFFICES ASSUME NEW k \in 1 .. length PROVE k - 1 \in Slots /\ index[k - 1] \in Slots /\ index[k - 1] # None
    OBVIOUS
  <2>1. k - 1 \in Slots /\ k - 1 < length
    BY <1>1 DEF Slots
  <2>2. QED
    BY <2>1 DEF IInv, Indexed, TypeOK
<1>3. copying => ndx \in Slots /\ items[ndx].used /\ \A k \in 1 .. length : index[k - 1] # ndx
  BY <1>2 DEF IInv, Claimed, QueuedUsed
<1>4. f \in [1 .. n -> Slots]
  BY <1>1, <1>2, <1>3
<1>5. ASSUME NEW a \in 1 .. n, NEW b \in 1 .. n, f[a] = f[b] PROVE a = b
  <2>1. CASE a <= length /\ b <= length
    <3>1. a \in 1 .. length /\ b \in 1 .. length /\ index[a - 1] = index[b - 1]
      BY <2>1, <1>5, <1>1
    <3>2. a - 1 = b - 1
      BY <3>1, <1>2 DEF IInv, Distinct
    <3>3. QED
      BY <3>1, <3>2
  <2>2. CASE a <= length /\ ~(b <= length)
    <3>1. copying /\ a \in 1 .. length /\ index[a - 1] = ndx
      BY <2>2, <1>5, <1>1
    <3>2. QED
      BY <3>1, <1>3
  <2>3. CASE ~(a <= length) /\ b <= length
    <3>1. copying /\ b \in 1 .. length /\ index[b - 1] = ndx
      BY <2>3, <1>5, <1>1
    <3>2. QED
      BY <3>1, <1>3
  <2>4. CASE ~(a <= length) /\ ~(b <= length)
    BY <2>4, <1>1
  <2>5. QED
    BY <2>1, <2>2, <2>3, <2>4
<1>6. IsFiniteSet(1 .. n) /\ Cardinality(1 .. n) = n
  <2>1. \A m \in Nat : IsFiniteSet(1 .. m) /\ Cardinality(1 .. m) = m
    BY FS_Interval
  <2>2. QED
    BY <1>1, <2>1
<1>7. IsFiniteSet(Slots) /\ Cardinality(Slots) = MAX_RX_BUFFER
  BY FS_Interval DEF Slots
<1>8. f \in Injection(1 .. n, Slots)
  BY <1>4, <1>5 DEF Injection, IsInjective
<1>9. n = MAX_RX_BUFFER <=> f \in Surjection(1 .. n, Slots)
  BY <1>6, <1>7, <1>8, FS_Injection
<1>10. \A k \in 1 .. n : items[f[k]].used
  <2> SUFFICES ASSUME NEW k \in 1 .. n PROVE items[f[k]].used
    OBVIOUS
  <2>1. CASE k <= length
    <3>1. k \in 1 .. length /\ f[k] = index[k - 1]
      BY <2>1, <1>1
    <3>2. QED
      BY <3>1, <1>2 DEF IInv, QueuedUsed
  <2>2. CASE ~(k <= length)
    BY <2>2, <1>1, <1>3
  <2>3. QED
    BY <2>1, <2>2
<1>11. ASSUME NEW s \in Slots, items[s].used PROVE \E k \in 1 .. n : f[k] = s
  <2>1. CASE \E i \in Slots : index[i] = s
    <3>1. PICK i \in Slots : index[i] = s
      BY <2>1
    <3>2. i + 1 \in 1 .. length /\ (i + 1) - 1 = i
      BY <3>1, <1>1 DEF IInv, Indexed, Slots
    <3>3. i + 1 \in 1 .. n /\ f[i + 1] = s
      BY <3>1, <3>2, <1>1
    <3>4. QED
      BY <3>3
  <2>2. CASE copying /\ s = ndx
    <3>1. n = length + 1 /\ n \in 1 .. n /\ f[n] = s
      BY <2>2, <1>1
    <3>2. QED
      BY <3>1
  <2>3. QED
    BY <2>1, <2>2, <1>11 DEF IInv, Owned
<1>12. Free(items) = {} <=> f \in Surjection(1 .. n, Slots)
  <2>1. ASSUME f \in Surjection(1 .. n, Slots), NEW s \in Slots PROVE items[s].used
    BY <2>1, <1>10 DEF Surjection
  <2>2. ASSUME \A s \in Slots : items[s].used PROVE f \in Surjection(1 .. n, Slots)
    BY <2>2, <1>4, <1>11 DEF Surjection
  <2>3. QED
    BY <2>1, <2>2 DEF Free
<1>13. QED
  BY <1>1, <1>9, <1>12

\* A frame captured arrives in the buffer, or the buffer loses what it may lose.
LEMMA ReserveStep ==
  ASSUME IInv, IInv', NEW sampled \in BOOLEAN, Reserve(sampled) PROVE Buffer!Arrive(sampled)
<1> USE SlotFacts
<1>1. /\ isr = "idle" /\ UNCHANGED <<pop, ndx, rx>> /\ items' = Kept
      /\ captured' = [frame |-> captured.frame + 1, rssi |-> sampled]
      /\ \A s \in Slots : Content(Kept[s]) = Content(items[s])
  BY DEF Reserve, consumer, Kept, IInv, TypeOK, Slot, Content
<1>2. Handed' = Handed /\ Taking' = Taking /\ InTransit = << >>
  <2>1. pop = "copy" => Content(items'[ndx]) = Content(items[ndx])
    BY <1>1 DEF IInv, Claimed
  <2>2. QED
    BY <1>1, <2>1 DEF Handed, Taking, InTransit, Content
<1>3. held' = IF Len(held) = MAX_RX_BUFFER THEN Tail(held) ELSE held
  <2>1. CASE ~Overflow
    <3>1. UNCHANGED <<length, index>> /\ length # MAX_RX_BUFFER
      BY <2>1 DEF Reserve, bookkeeping, Overflow
    <3>2. held' = held
      BY <1>1, <3>1, HeldStays DEF IInv, TypeOK
    <3>3. QED
      BY <3>1, <3>2, HeldType
  <2>2. CASE Overflow
    <3>1. /\ length = MAX_RX_BUFFER /\ length' = MAX_RX_BUFFER - 1
          /\ \A i \in Slots : i < MAX_RX_BUFFER - 1 => index'[i] = index[i]
      BY <2>2 DEF Reserve, Overflow, IInv, TypeOK
    <3>2. held \in Seq(Frame) /\ held # << >> /\ Len(held) = MAX_RX_BUFFER
      BY <3>1, HeldType
    <3>3. held' \in Seq(Frame) /\ Len(held') = MAX_RX_BUFFER - 1
      BY <3>1, HeldNext DEF HeldWell
    <3>4. ASSUME NEW k \in 1 .. (MAX_RX_BUFFER - 1) PROVE held'[k] = held[k + 1]
      <4>1. held[k + 1] = Content(items[index[MAX_RX_BUFFER - (k + 1)]])
            /\ index[MAX_RX_BUFFER - (k + 1)] \in Slots
        BY <3>1, HeldType
      <4>2. held'[k] = Content(items'[index'[(MAX_RX_BUFFER - 1) - k]])
        BY <3>1 DEF held, Content
      <4>3. MAX_RX_BUFFER - (k + 1) = (MAX_RX_BUFFER - 1) - k /\ (MAX_RX_BUFFER - 1) - k \in Slots
            /\ (MAX_RX_BUFFER - 1) - k < MAX_RX_BUFFER - 1
        BY DEF Slots
      <4>4. index'[(MAX_RX_BUFFER - 1) - k] = index[MAX_RX_BUFFER - (k + 1)]
        BY <4>3, <3>1
      <4>5. QED
        BY <4>1, <4>2, <4>4, <1>1
    <3>5. held' = Tail(held)
      BY <3>2, <3>3, <3>4, HeadTailProperties, SeqEqual
    <3>6. QED
      BY <3>2, <3>5
  <2>3. QED
    BY <2>1, <2>2
<1>4. Free(Kept) = {} <=> Taking = "copying" /\ Len(held) = MAX_RX_BUFFER - 1
  <2>1. CASE Overflow
    <3>1. length = MAX_RX_BUFFER /\ index[MAX_RX_BUFFER - 1] \in Slots
      BY <2>1 DEF Overflow, IInv, TypeOK, Indexed
    <3>2. index[MAX_RX_BUFFER - 1] \in Free(Kept)
      BY <2>1, <3>1 DEF Free, Kept, IInv, TypeOK, Slot
    <3>3. QED
      BY <3>1, <3>2, HeldType
  <2>2. CASE ~Overflow
    <3>1. Kept = items
      BY <2>2 DEF Kept
    <3>2. Taking = "copying" <=> pop \in {"copy", "clear"}
      BY DEF Taking
    <3>3. QED
      BY <2>2, <3>1, <3>2, <1>1, NoneFree, HeldType
  <2>3. QED
    BY <2>1, <2>2
<1>5. InTransit' = IF Free(Kept) = {} THEN << >> ELSE << captured' >>
  <2>1. CASE Free(Kept) = {}
    <3>1. isr' = "idle"
      BY <2>1, <1>1 DEF Reserve
    <3>2. QED
      BY <2>1, <3>1 DEF InTransit
  <2>2. CASE Free(Kept) # {}
    <3>1. isr' = "copy"
      BY <2>2 DEF Reserve
    <3>2. QED
      BY <2>2, <3>1 DEF InTransit
  <2>3. QED
    BY <2>1, <2>2
<1>6. captured'.frame = captured.frame + 1
  BY <1>1
<1>7. QED
  BY <1>1, <1>2, <1>3, <1>4, <1>5, <1>6 DEF Buffer!Arrive, held

\* The interrupt's copy shows nothing new: the frame is still on its way.
LEMMA CopyInStep == ASSUME IInv, IInv', CopyIn PROVE UNCHANGED shown
<1>1. /\ isr = "copy" /\ isr' = "publish" /\ first \in Slots
      /\ UNCHANGED <<length, index, first, captured, pop, ndx, rx>>
      /\ \A s \in Slots : s # first => items'[s] = items[s]
  BY DEF CopyIn, bookkeeping, consumer, IInv, Filled, TypeOK
<1>2. held' = held
  BY <1>1, HeldStays DEF IInv, QueuedUsed, TypeOK
<1>3. Handed' = Handed /\ Taking' = Taking
  BY <1>1 DEF Handed, Taking, Content, IInv, Filled, Claimed
<1>4. InTransit' = InTransit
  <2>1. Content(items'[first]) = captured
    BY <1>1 DEF CopyIn, Content, IInv, TypeOK, Frame
  <2>2. QED
    BY <1>1, <2>1 DEF InTransit, Content
<1>5. QED
  BY <1>1, <1>2, <1>3, <1>4 DEF shown

\* Publishing stores the frame behind those that are held.
LEMMA PublishStep == ASSUME IInv, IInv', Publish PROVE Buffer!Store
<1> USE SlotFacts
<1>1. /\ isr = "publish" /\ isr' = "idle" /\ first \in Slots
      /\ UNCHANGED <<items, captured, pop, ndx, rx>>
      /\ length' = length + 1 /\ length \in Nat /\ index'[0] = first
      /\ \A i \in Slots : i # 0 => index'[i] = index[i - 1]
  BY DEF Publish, consumer, IInv, Filled, TypeOK
<1>2. Handed' = Handed /\ Taking' = Taking /\ InTransit' = << >>
      /\ InTransit = << Content(items[first]) >>
  BY <1>1 DEF Handed, Taking, InTransit
<1>3. Content(items[first]) \in Frame
  BY <1>1 DEF IInv, TypeOK, Slot, Frame, Content
<1>4. held \in Seq(Frame) /\ Len(held) = length
  BY HeldType
<1>5. held' \in Seq(Frame) /\ Len(held') = length + 1
  BY <1>1, HeldNext DEF HeldWell
<1>6. ASSUME NEW k \in 1 .. length PROVE held'[k] = held[k]
  <2>1. held[k] = Content(items[index[length - k]]) /\ length - k \in Slots
    BY HeldType
  <2>2. held'[k] = Content(items'[index'[length + 1 - k]])
    BY <1>1 DEF held, Content
  <2>3. length + 1 - k \in Slots /\ length + 1 - k # 0 /\ (length + 1 - k) - 1 = length - k
    BY <1>1 DEF IInv, Filled, Slots
  <2>4. QED
    BY <1>1, <2>1, <2>2, <2>3
<1>7. held'[length + 1] = Content(items[first])
  BY <1>1 DEF held, Content
<1>8. held' = Append(held, Content(items[first]))
  BY <1>1, <1>3, <1>4, <1>5, <1>6, <1>7, AppendProperties, SeqEqual
<1>9. QED
  BY <1>1, <1>2, <1>8 DEF Buffer!Store, held

\* pop()'s critical section takes the oldest frame.
LEMMA ClaimStep == ASSUME IInv, IInv', Claim PROVE Buffer!Take
<1> USE SlotFacts
<1>1. PICK i \in Slots : /\ index[i] # None /\ \A j \in Slots : j > i => index[j] = None
                         /\ ndx' = index[i] /\ index' = [index EXCEPT ![i] = None]
  BY DEF Claim
<1>2. /\ pop = "claim" /\ pop' = "copy" /\ UNCHANGED <<items, isr, first, captured, rx>>
      /\ length' = IF length > 0 THEN length - 1 ELSE length
  BY DEF Claim, interrupt
<1>3. length = i + 1 /\ length' = i
  <2>1. i < length
    BY <1>1 DEF IInv, Indexed
  <2>2. ~(i + 1 < length)
    BY <1>1 DEF IInv, Indexed, TypeOK, Slots
  <2>3. QED
    BY <1>2, <2>1, <2>2 DEF IInv, TypeOK
<1>4. held \in Seq(Frame) /\ Len(held) = i + 1 /\ held # << >>
  BY <1>3, HeldType
<1>5. held' \in Seq(Frame) /\ Len(held') = i
  BY <1>3, HeldNext DEF HeldWell
<1>6. ASSUME NEW k \in 1 .. i PROVE held'[k] = held[k + 1]
  <2>1. held[k + 1] = Content(items[index[(i + 1) - (k + 1)]])
    BY <1>3, HeldType
  <2>2. held'[k] = Content(items'[index'[i - k]])
    BY <1>3 DEF held, Content
  <2>3. (i + 1) - (k + 1) = i - k /\ i - k \in Slots /\ i - k # i
    BY DEF Slots
  <2>4. index'[i - k] = index[i - k]
    BY <1>1, <2>3 DEF IInv, TypeOK
  <2>5. QED
    BY <1>2, <2>1, <2>2, <2>3, <2>4
<1>7. held' = Tail(held)
  BY <1>3, <1>4, <1>5, <1>6, HeadTailProperties, SeqEqual
<1>8. Handed' = Head(held)
  <2>1. Handed' = Content(items[index[i]])
    BY <1>1, <1>2 DEF Handed, Content
  <2>2. held[1] = Content(items[index[(i + 1) - 1]])
    BY <1>3, HeldType
  <2>3. (i + 1) - 1 = i
    OBVIOUS
  <2>4. QED
    BY <1>4, <2>1, <2>2, <2>3
<1>9. Taking = "no" /\ Taking' = "copying" /\ InTransit' = InTransit
  BY <1>2 DEF Taking, InTransit, Content
<1>10. QED
  BY <1>2, <1>4, <1>7, <1>8, <1>9 DEF Buffer!Take, held

\* Looking at length and copying the frame out show nothing.
LEMMA LookStep == ASSUME IInv, CheckLength \/ CopyOut \/ UNCHANGED vars PROVE UNCHANGED shown
<1>1. UNCHANGED <<length, index, items, isr, first, captured>> /\ Handed' = Handed /\ Taking' = Taking
  BY DEF CheckLength, CopyOut, vars, bookkeeping, interrupt, consumer, Handed, Taking, Content
<1>2. QED
  BY <1>1 DEF shown, held, InTransit, Content

\* clear() wipes the loop's own slot and no other.
LEMMA ClearStep == ASSUME IInv, ClearPulses PROVE Buffer!Release
<1>1. /\ pop = "clear" /\ pop' = "cleared" /\ ndx \in Slots
      /\ UNCHANGED <<length, index, isr, first, captured, ndx, rx>>
      /\ \A s \in Slots : s # ndx => items'[s] = items[s]
  BY DEF ClearPulses, bookkeeping, interrupt, IInv, Claimed, TypeOK
<1>2. held' = held
  BY <1>1, HeldStays DEF IInv, QueuedUsed, TypeOK
<1>3. InTransit' = InTransit
  BY <1>1 DEF InTransit, Content, IInv, Filled
<1>4. Handed' = Handed /\ Taking = "copying" /\ Taking' = "clearing"
  BY <1>1 DEF Handed, Taking
<1>5. QED
  BY <1>1, <1>2, <1>3, <1>4 DEF Buffer!Release, held

\* The late write of clear() reaches the RSSI of one frame at most.
LEMMA RssiStep == ASSUME IInv, IInv', ClearRssi PROVE Buffer!Finish
<1> USE SlotFacts
<1>1. /\ pop = "cleared" /\ pop' = "idle" /\ ndx \in Slots
      /\ UNCHANGED <<length, index, isr, first, captured, rx>>
      /\ items' = [items EXCEPT ![ndx] = [items[ndx] EXCEPT !.rssi = FALSE]]
      /\ items[ndx] \in Slot
  BY DEF ClearRssi, bookkeeping, interrupt, IInv, Claimed, TypeOK
<1>6. /\ \A s \in Slots : s # ndx => items'[s] = items[s]
      /\ items'[ndx] = [items[ndx] EXCEPT !.rssi = FALSE]
  BY <1>1 DEF IInv, TypeOK
<1>7. Content(items'[ndx]) = [Content(items[ndx]) EXCEPT !.rssi = FALSE]
  <2>1. items'[ndx].frame = items[ndx].frame /\ items'[ndx].rssi = FALSE
    BY <1>1, <1>6 DEF Slot
  <2>2. Content(items[ndx]) \in Frame /\ Content(items'[ndx]) \in Frame
    BY <1>1, <2>1 DEF Content, Slot, Frame
  <2>3. \A a, b \in Frame : b.frame = a.frame /\ b.rssi = FALSE => b = [a EXCEPT !.rssi = FALSE]
    BY DEF Frame
  <2>4. QED
    BY <2>1, <2>2, <2>3 DEF Content
<1>2. Handed' = Handed /\ Taking = "clearing" /\ Taking' = "no"
  BY <1>1 DEF Handed, Taking
<1>3. CASE \E i \in Slots : index[i] = ndx
  <2>1. PICK i \in Slots : index[i] = ndx
    BY <1>3
  <2>2. isr # "idle" => first # ndx
    BY <2>1, <1>1 DEF IInv, QueuedUsed
  <2>3. InTransit' = InTransit
    BY <2>2, <1>1, <1>6 DEF InTransit, Content, IInv, Filled
  <2>4. i < length /\ length \in Nat
    BY <2>1, <1>1 DEF IInv, Indexed, TypeOK
  <2>5. length - i \in 1 .. length /\ length - (length - i) = i
    BY <2>4 DEF Slots
  <2>6. held' = [held EXCEPT ![length - i].rssi = FALSE]
    <3>1. ASSUME NEW k \in 1 .. length PROVE held'[k] = [held EXCEPT ![length - i].rssi = FALSE][k]
      <4>1. held[k] = Content(items[index[length - k]]) /\ length - k \in Slots /\ index[length - k] \in Slots
        BY HeldType
      <4>2. held'[k] = Content(items'[index[length - k]])
        BY <1>1 DEF held, Content
      <4>3. CASE k = length - i
        BY <4>1, <4>2, <4>3, <2>1, <2>5, <1>6, <1>7, HeldType
      <4>4. CASE k # length - i
        <5>1. length - k # i
          BY <4>4, <2>4 DEF Slots
        <5>2. index[length - k] # ndx
          BY <5>1, <4>1, <2>1, <1>1 DEF IInv, Distinct
        <5>3. QED
          BY <4>1, <4>2, <4>4, <5>2, <1>6, HeldType
      <4>5. QED
        BY <4>3, <4>4
    <3>2. held' \in Seq(Frame) /\ DOMAIN held' = 1 .. length
      BY <1>1, HeldNext DEF HeldWell
    <3>3. held \in Seq(Frame) /\ DOMAIN held = 1 .. length
      BY HeldType
    <3>4. held' = [k \in 1 .. length |-> held'[k]]
      BY <3>2
    <3>5. [held EXCEPT ![length - i].rssi = FALSE]
            = [k \in 1 .. length |-> [held EXCEPT ![length - i].rssi = FALSE][k]]
      BY <3>3
    <3>6. QED
      BY <3>1, <3>4, <3>5
  <2>7. length - i \in DOMAIN held
    BY <2>5, HeldType
  <2>8. QED
    BY <1>1, <1>2, <2>3, <2>6, <2>7 DEF Buffer!Finish, held
<1>4. CASE ~(\E i \in Slots : index[i] = ndx)
  <2>1. held' = held
    BY <1>1, <1>6, <1>4, HeldStays DEF IInv, TypeOK
  <2>2. CASE isr = "publish" /\ first = ndx
    <3>1. InTransit = << Content(items[ndx]) >> /\ InTransit' = << Content(items'[ndx]) >>
      BY <2>2, <1>1 DEF InTransit, Content
    <3>2. InTransit # << >> /\ InTransit' = [InTransit EXCEPT ![1].rssi = FALSE]
      <4>1. << Content(items[ndx]) >> # << >>
        OBVIOUS
      <4>2. [<< Content(items[ndx]) >> EXCEPT ![1].rssi = FALSE]
              = << [Content(items[ndx]) EXCEPT !.rssi = FALSE] >>
        <5>1. \A f, g : [<< f >> EXCEPT ![1] = g] = << g >>
          OBVIOUS
        <5>2. << Content(items[ndx]) >>[1] = Content(items[ndx])
          OBVIOUS
        <5>3. QED
          BY <5>1, <5>2
      <4>3. QED
        BY <3>1, <4>1, <4>2, <1>7
    <3>3. QED
      BY <1>1, <1>2, <2>1, <3>2 DEF Buffer!Finish, held
  <2>3. CASE ~(isr = "publish" /\ first = ndx)
    <3>1. InTransit' = InTransit
      BY <2>3, <1>1, <1>6 DEF InTransit, Content, IInv, Filled
    <3>2. QED
      BY <1>1, <1>2, <2>1, <3>1 DEF Buffer!Finish, held
  <2>4. QED
    BY <2>2, <2>3
<1>5. QED
  BY <1>3, <1>4

(* Every captured frame reaches the loop whole, in order and once, unless  *)
(* the buffer is full, with its RSSI unless the late write of clear() hits *)
(* it: the receive queue implements FrameBuffer.                           *)
THEOREM Implementation == Spec => ImplementsFrameBuffer
<1>1. Init => Buffer!Init
  <2>1. ASSUME Init PROVE [k \in 1 .. length |-> Content(items[index[length - k]])] = << >>
    BY <2>1 DEF Init
  <2>2. QED
    BY <2>1 DEF Init, Buffer!Init, Handed, Taking, InTransit, NoFrame
<1>2. IInv /\ IInv' /\ [Next]_vars
        => [Buffer!Next]_<<captured.frame, InTransit,
                           [k \in 1 .. length |-> Content(items[index[length - k]])], Handed, Taking>>
  <2> SUFFICES ASSUME IInv, IInv', [Next]_vars PROVE Buffer!Next \/ UNCHANGED shown
    BY DEF shown, held
  <2>1. ASSUME NEW sampled \in BOOLEAN, Reserve(sampled) PROVE Buffer!Next
    BY <2>1, ReserveStep DEF Buffer!Next
  <2>2. QED
    BY <2>1, CopyInStep, PublishStep, ClaimStep, LookStep, ClearStep, RssiStep
       DEF Next, Isr, Receive, Buffer!Next
<1>3. QED
  BY <1>1, <1>2, Invariance, PTL DEF Spec, ImplementsFrameBuffer, Buffer!Spec

=============================================================================
