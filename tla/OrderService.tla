---------------------------- MODULE OrderService ----------------------------
(***************************************************************************)
(* What the transmit queue promises to the handlers and to the motors:     *)
(* an order accepted for a remote is either heard, after every older order *)
(* of that remote and once, or dropped with all the others.                *)
(***************************************************************************)
EXTENDS Naturals

CONSTANT Remotes

VARIABLES
  waiting,   \* the orders accepted and not heard yet, with their remote
  issued     \* the highest order number given so far

Init == waiting = [i \in {} |-> 0] /\ issued = 0

\* An order gets a number above every earlier one.
Accept(r) ==
  /\ issued' = issued + 1
  /\ waiting' = [i \in DOMAIN waiting \cup {issued'} |-> IF i = issued' THEN r ELSE waiting[i]]

\* Numbers also go to frames that no order stands for (a repeated frame).
Skip == issued' = issued + 1 /\ UNCHANGED waiting

\* The motors of an order's remote hear it: never before an older one.
Hear(i) ==
  /\ \A o \in DOMAIN waiting : waiting[o] = waiting[i] => i <= o
  /\ waiting' = [o \in DOMAIN waiting \ {i} |-> waiting[o]]
  /\ UNCHANGED issued

\* The radio is switched off.
DropAll == waiting' = [i \in {} |-> 0] /\ UNCHANGED issued

Next ==
  \/ \E r \in Remotes : Accept(r)
  \/ Skip
  \/ \E i \in DOMAIN waiting : Hear(i)
  \/ DropAll

Spec == Init /\ [][Next]_<<waiting, issued>>

=============================================================================
