----------------------------- MODULE FrameBuffer -----------------------------
(***************************************************************************)
(* What the receive queue promises to the loop.  Every frame captured has  *)
(* a number, one more than the frame before it had.  A frame captured is   *)
(* handed over whole, after those captured before it and once, unless it   *)
(* is lost: the oldest one held goes when the buffer is full, the new one  *)
(* when the place that is missing is being copied out.  After a copy the   *)
(* clean-up may take the RSSI of one frame that is in the buffer by then.  *)
(***************************************************************************)
EXTENDS Naturals, Sequences

CONSTANT Capacity

VARIABLES
  captures,  \* how many frames were captured
  arriving,  \* the frame on its way into the buffer, if any
  held,      \* the frames waiting, the oldest first
  given,     \* the frame the loop got last
  taking     \* what the loop does: "no", "copying", "clearing"

Init ==
  /\ captures = 0 /\ arriving = << >> /\ held = << >>
  /\ given = [frame |-> 0, rssi |-> FALSE] /\ taking = "no"

Arrive(sampled) ==
  LET crowded == taking = "copying" /\ Len(held) = Capacity - 1
  IN  /\ arriving = << >>
      /\ captures' = captures + 1
      /\ held' = IF Len(held) = Capacity THEN Tail(held) ELSE held
      /\ arriving' = IF crowded THEN << >> ELSE << [frame |-> captures', rssi |-> sampled] >>
      /\ UNCHANGED <<given, taking>>

Store ==
  /\ arriving # << >>
  /\ held' = Append(held, arriving[1]) /\ arriving' = << >>
  /\ UNCHANGED <<captures, given, taking>>

Take ==
  /\ taking = "no" /\ held # << >>
  /\ given' = Head(held) /\ held' = Tail(held) /\ taking' = "copying"
  /\ UNCHANGED <<captures, arriving>>

Release ==
  /\ taking = "copying" /\ taking' = "clearing"
  /\ UNCHANGED <<captures, arriving, held, given>>

Finish ==
  /\ taking = "clearing" /\ taking' = "no"
  /\ \/ UNCHANGED <<arriving, held>>
     \/ arriving # << >> /\ arriving' = [arriving EXCEPT ![1].rssi = FALSE] /\ UNCHANGED held
     \/ \E k \in DOMAIN held : held' = [held EXCEPT ![k].rssi = FALSE] /\ UNCHANGED arriving
  /\ UNCHANGED <<captures, given>>

Next == (\E sampled \in BOOLEAN : Arrive(sampled)) \/ Store \/ Take \/ Release \/ Finish

Spec == Init /\ [][Next]_<<captures, arriving, held, given, taking>>

=============================================================================
