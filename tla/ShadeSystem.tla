----------------------------- MODULE ShadeSystem -----------------------------
(***************************************************************************)
(* A shade (Shade) beside what it is about: the motor, which moves by      *)
(* itself and hears frames; the radio, which sends the queued frames a     *)
(* little later and reports each; a physical remote, which the motor hears *)
(* at once and the loop afterwards; and time.                              *)
(*                                                                         *)
(* Handlers and the loop run one at a time under SomfyGuard, so each is    *)
(* one step.  The motor is external: it does what the code assumes of it,  *)
(* a lift and a tilt at one unit a tick, a favourite it goes to on a My it *)
(* hears at rest, and stores on a long one.  It is modelled for lifts      *)
(* without tilt, integrated tilts and tilts alone.                         *)
(***************************************************************************)
EXTENDS Shade

CONSTANTS
  Kinds,        \* the shades of a run, each with what is done to it
  Prompt,       \* the channel is clear and the loop fast: both are done within a tick
  MaxOrders, MaxPresses, MaxLost  \* bounds: orders, presses, events lost in one run

Orders == Commands \cup {"target", "tilt target", "set my", "tilt Up", "tilt Down",
                         "group Up", "group Down", "group My"}
Presses == Commands \cup {"set my", "long Up", "long Down"}

ASSUME SystemAssumption ==
  /\ Kinds \subseteq [tiltType : TiltTypes, simMy : BOOLEAN, favorites : SUBSET (Positions \cup {NoPos}),
                     orders : SUBSET Orders, presses : SUBSET Presses]
  /\ \A k, l \in Kinds : k.tiltType = l.tiltType /\ k.simMy = l.simMy => k = l
  /\ Prompt \in BOOLEAN
  /\ MaxOrders \in Nat /\ MaxPresses \in Nat /\ MaxLost \in Nat

VARIABLES
  shade,       \* what the controller knows, and its frames in the radio queue
  motor,       \* where it is and where it goes
  received,    \* frames of the remote in the receive queue
  orders, presses, lost  \* bounds: how many so far

vars == <<shade, motor, received, orders, presses, lost>>
bounds == <<orders, presses, lost>>

Init ==
  /\ \E k \in Kinds, p \in {0, Full} : \E my \in k.favorites :
       shade = Resting(k.tiltType, k.simMy, IF k.tiltType = "tiltonly" THEN Full ELSE p, my, NoPos)
  /\ motor = [pos |-> shade.currentPos, goal |-> shade.currentPos, tilt |-> 0, tiltGoal |-> 0,
              my |-> IF shade.simMy THEN NoPos ELSE shade.myPos]
  /\ received = <<>>
  /\ orders = 0 /\ presses = 0 /\ lost = 0

-----------------------------------------------------------------------------
(* The motor.                                                              *)

MotorStopped == motor.goal = motor.pos /\ motor.tiltGoal = motor.tilt

Stopped(m) == [m EXCEPT !.goal = m.pos, !.tiltGoal = m.tilt]

\* A held Up or Down turns a tilt motor, and lifts a blind in euromode.
Lifts(length) ==
  shade.tiltType \in {"none", "integrated"} \/ (shade.tiltType = "tiltmotor" /\ length # "tilt")
    \/ (shade.tiltType = "euromode" /\ length = "tilt")
Turns(length) == shade.tiltType # "none" /\ (shade.tiltType = "integrated" \/ ~Lifts(length))

Driven(m, dir, length) ==
  [m EXCEPT !.goal = IF ~Lifts(length) THEN @ ELSE IF dir < 0 THEN 0 ELSE Full,
            !.tiltGoal = IF ~Turns(length) THEN @ ELSE IF dir < 0 THEN 0 ELSE TiltFull]

Stepped(m, dir) ==
  LET end == IF dir < 0 THEN 0 ELSE TiltFull
      tilts == shade.tiltType = "tiltonly" \/ (shade.tiltType = "integrated" /\ m.tilt # end)
  IN [Stopped(m) EXCEPT
        !.goal = IF tilts THEN @ ELSE AtLeast(0, AtMost(Full, m.pos + dir)),
        !.tiltGoal = IF tilts THEN AtLeast(0, AtMost(TiltFull, m.tilt + dir)) ELSE @]

Hears(m, cmd, length) ==
  CASE cmd = "Up" -> Driven(m, -1, length)
    [] cmd = "Down" -> Driven(m, 1, length)
    [] cmd = "StepUp" -> Stepped(m, -1)
    [] cmd = "StepDown" -> Stepped(m, 1)
    [] cmd = "My" /\ ~MotorStopped -> Stopped(m)
    [] cmd = "My" /\ MotorStopped /\ length = "set" ->
         [m EXCEPT !.my = IF m.my = m.pos THEN NoPos ELSE m.pos]
    [] OTHER -> IF m.my = NoPos THEN m ELSE [m EXCEPT !.goal = m.my]

\* An integrated tilt turns before the lift moves.
Moved(m) ==
  IF m.tilt # m.tiltGoal
  THEN [m EXCEPT !.tilt = @ + Toward(m.tilt, m.tiltGoal)]
  ELSE [m EXCEPT !.pos = @ + Toward(m.pos, m.goal)]

\* Every event is handed to the shade; one that is not its own leaves it alone.
Anchored(s) ==
  LET own == {e \in s.heard : e.job = s.txWaitJob}
      event == CHOOSE e \in (IF own = {} THEN s.heard ELSE own) : TRUE
  IN [(IF s.heard = {} THEN s ELSE TxAnchor(s, event)) EXCEPT !.heard = {}]

Pass(s, frames) ==
  CheckMovement(TxHold(Anchored(IF frames = <<>> THEN ProcessWaitingFrame(s)
                                ELSE ProcessRemoteFrame(s, Head(frames)))))

\* Nothing is on its way between the shade, the motor and the remote.
Settled == shade.queue = <<>> /\ received = <<>> /\ Pass(shade, received) = shade

\* A remote's frame waits for its repeats.
FrameWaits == ~shade.lastFrame.processed /\ shade.lastFrame.await # Unset
Undisturbed == Settled /\ ~FrameWaits /\ shade.pendingCmd = "none"

\* What these do to a motor that is moving depends on the motor.
NeedsStandstill(o) ==
  \/ o \in {"StepUp", "StepDown", "tilt target", "tilt Up", "tilt Down"}
  \/ o \notin {"My", "set my"} /\ LongPressTells(shade)

-----------------------------------------------------------------------------
(* Orders, from the web, MQTT or a group, under SomfyGuard.                *)

Kind == CHOOSE k \in Kinds : k.tiltType = shade.tiltType /\ k.simMy = shade.simMy

Ordered(s, o) ==
  CASE o \in Commands -> {SendCommand(s, o)}
    [] o = "target" -> {MoveToTarget(s, p, NoPos) : p \in Positions}
    [] o = "tilt target" -> {MoveToTiltTarget(s, t) : t \in Tilts}
    [] o = "set my" -> {SetMyPosition(s, g.pos, g.tilt) :
                          g \in [pos : Positions, tilt : IF s.tiltType = "none" THEN {NoPos} ELSE Tilts]}
    [] o = "tilt Up" -> {SendTiltCommand(s, "Up")}
    [] o = "tilt Down" -> {SendTiltCommand(s, "Down")}
    [] o = "group Up" -> {GroupCommand(s, "Up")}
    [] o = "group Down" -> {GroupCommand(s, "Down")}
    [] o = "group My" -> {GroupCommand(s, "My")}

Order(o) ==
  /\ orders < MaxOrders /\ Len(shade.queue) + Cardinality(shade.heard) < MaxQueued
  /\ Prompt => Undisturbed /\ (NeedsStandstill(o) => MotorStopped)
  /\ shade' \in Ordered(shade, o)
  /\ orders' = orders + 1
  /\ UNCHANGED <<motor, received, presses, lost>>

\* Somebody presses the remote, which sends the same frame as long as it is held:
\* the motor hears it, then the receive queue has it.
Pressed(p) ==
  CASE p = "set my" -> [cmd |-> "My", length |-> "set", repeats |-> SetMyRepeats]
    [] p = "long Up" -> [cmd |-> "Up", length |-> "tilt", repeats |-> TiltRepeats]
    [] p = "long Down" -> [cmd |-> "Down", length |-> "tilt", repeats |-> TiltRepeats]
    [] OTHER -> [cmd |-> p, length |-> "short", repeats |-> 0]

Press(p) ==
  /\ presses < MaxPresses /\ received = <<>>
  /\ Prompt => Undisturbed /\ (NeedsStandstill(p) => MotorStopped)
  /\ presses' = presses + 1
  /\ motor' = Hears(motor, Pressed(p).cmd, Pressed(p).length)
  /\ received' = [i \in 1 .. Pressed(p).repeats + 1 |-> [cmd |-> Pressed(p).cmd, code |-> presses']]
  /\ UNCHANGED <<shade, orders, lost>>

-----------------------------------------------------------------------------
(* The radio sends a queued frame: the frames of one remote in their order *)
(* (OrderService).  Its event may find the event queue full.               *)

NextOfRemote(i) ==
  \A k \in 1 .. i - 1 : shade.queue[k].remote # shade.queue[i].remote

Heard(i, reported) ==
  LET f == shade.queue[i] IN
  /\ NextOfRemote(i)
  /\ motor' = Hears(motor, f.cmd, f.length)
  /\ shade' = [shade EXCEPT
                 !.queue = [k \in 1 .. Len(@) - 1 |-> IF k < i THEN @[k] ELSE @[k + 1]],
                 !.heard = IF reported THEN @ \cup {[job |-> f.job, age |-> 0]} ELSE @]
  /\ UNCHANGED <<received, orders, presses>>

Transmit ==
  \E i \in DOMAIN shade.queue :
    \/ Heard(i, TRUE) /\ UNCHANGED lost
    \/ lost < MaxLost /\ lost' = lost + 1 /\ Heard(i, FALSE)

-----------------------------------------------------------------------------
(* SomfyShadeController::loop(): a received frame or the waiting one, the  *)
(* transmit events, then the movement.                                     *)

LoopPass ==
  /\ shade' = Pass(shade, received)
  /\ received' = IF received = <<>> THEN <<>> ELSE Tail(received)
  /\ UNCHANGED <<motor, bounds>>

Tick ==
  /\ Prompt => Settled
  /\ motor' = Moved(motor)
  /\ shade' = Aged(shade)
  /\ UNCHANGED <<received, bounds>>

Next ==
  \/ \E o \in Kind.orders : Order(o)
  \/ \E p \in Kind.presses : Press(p)
  \/ Transmit \/ LoopPass \/ Tick

Spec == Init /\ [][Next]_vars

\* The radio task, the loop and time go on; nobody has to order or press anything.
\* (The second conjunct is WF_vars(LoopPass), with its ENABLED spelled out for TLC.)
LoopHasWork == Pass(shade, received) # shade \/ received # <<>>
FairSpec ==
  /\ Spec
  /\ []<>~LoopHasWork \/ []<><<LoopPass>>_vars
  /\ WF_vars(Transmit) /\ WF_vars(Tick)

-----------------------------------------------------------------------------
(* Properties.                                                             *)

\* Positions, targets and clocks stay in range whatever the orders and presses:
\* the step targets and the travel math of SomfyMovement.cpp clamp.
TypeOK ==
  /\ {shade.currentPos, shade.target, shade.startPos, shade.moved} \subseteq Positions
  /\ {shade.currentTiltPos, shade.tiltTarget, shade.startTiltPos, shade.tilted} \subseteq Tilts
  /\ {shade.direction, shade.tiltDirection} \subseteq -1 .. 1
  /\ {shade.myPos} \subseteq Positions \cup {NoPos} /\ {shade.myTiltPos} \subseteq Tilts \cup {NoPos}
  /\ shade.txWaitJob \in JobIds \cup {0}
  /\ motor.pos \in Positions /\ motor.tilt \in Tilts

\* With nothing on its way, the estimate is where the motor is, moving or not:
\* what txHold(), txAnchor() and the checkMovement() math are for.
Tracks == Undisturbed => shade.currentPos = motor.pos /\ shade.currentTiltPos = motor.tilt

\* A shade at rest knows the favourite its motor would go to, whoever set it:
\* setMyPosition(), or a held My of the remote.
FavoriteKnown ==
  Undisturbed /\ MotorStopped /\ IsIdle(shade) /\ ~shade.simMy => shade.myPos = motor.my

\* What the device believes of its motor is so.
EstimatesExact == TypeOK /\ Tracks /\ FavoriteKnown

\* The estimate stands still while its command waits in the radio queue, until
\* txHold() gives up on it: no event of another command lets it go.
HeldStill ==
  [][/\ \E i \in DOMAIN shade.queue : shade.queue[i].job = shade.txWaitJob
     /\ shade.waited <= HoldLimit /\ orders' = orders /\ received = <<>>
     => shade'.currentPos = shade.currentPos /\ shade'.currentTiltPos = shade.currentTiltPos]_vars

\* A frame of a remote ends every positioning for good: after it the loop sends
\* nothing, no stop on an arrival and no held-back command, until an order.
RemoteHasTheLastWord ==
  [][(shade.lastFrame.code # 0 \/ received # <<>>) /\ orders' = orders
       => Len(shade'.queue) <= Len(shade.queue)]_vars

\* Orders of a place to go to: moveToTarget(), moveToTiltTarget(), sendTiltCommand().
PositionOrdered ==
  /\ orders' # orders
  /\ \E o \in Kind.orders \cap {"target", "tilt target", "tilt Up", "tilt Down"} : shade' \in Ordered(shade, o)

\* "An external command supersedes a positioning or a My recording in progress; left
\* set, the arrival would ... record the wrong favorite" (SomfyMovement.cpp:669):
\* while a recording goes on, its place stays what was asked for, and where it ends that
\* place becomes the favourite, or none if it was; whatever else is ordered, pressed or
\* lost ends it or leaves it alone.  PositionOrdered is left out, against that comment:
\* these orders (SomfyMovement.cpp:768, 782, 807) give a recording another place.
RecordsAsOrdered ==
  [][shade.settingMyPos /\ ~PositionOrdered =>
       /\ shade'.settingMyPos => shade'.target = shade.target /\ shade'.tiltTarget = shade.tiltTarget
       /\ shade'.myPos # shade.myPos => ~shade'.settingMyPos /\ shade'.myPos \in {NoPos, shade.target}]_vars

\* Once nobody orders or presses, the shade comes to rest and stays so, even if
\* the events of its commands are lost or a remote's frame crosses them.
ComesToRest == <>[]IsIdle(shade)

=============================================================================
