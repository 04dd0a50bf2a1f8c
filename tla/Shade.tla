-------------------------------- MODULE Shade --------------------------------
(***************************************************************************)
(* SomfyShade of SomfyMovement.cpp and Somfy.cpp: what a shade's handlers, *)
(* the frames it processes and checkMovement() do to it, as functions from *)
(* a shade to a shade.  ShadeSystem runs them beside a radio and a motor.  *)
(*                                                                         *)
(* What is abstracted:                                                     *)
(*  - positions are travel times in ticks: 0 is open, Full closed (100%),  *)
(*    TiltFull the tilt's end.  upTime = downTime = Full, tiltTime =       *)
(*    TiltFull, no winding curve and no lift time (both default to 0);     *)
(*  - a millis() instant is the ticks since it (moved for moveStart, ...), *)
(*    counted no further than what it is compared with;                    *)
(*  - a job id only matters while the shade, the queue or an event holds   *)
(*    it: a new one is any id nobody holds;                                *)
(*  - the radio is on and takes every order (RadioQueue has the others);   *)
(*  - the shade is a shutter driven by RTS with no flipped commands or     *)
(*    positions and no sun or wind sensor; toggles and dry contacts have   *)
(*    no position to seek.                                                 *)
(***************************************************************************)
EXTENDS Integers, Sequences, FiniteSets

CONSTANTS
  Full, TiltFull,        \* travel times, in ticks
  CmdGap,                \* the 100 and 200 ms gaps of startCmdGap()
  AwaitTime,             \* the 500 ms a remote's frame may wait for its repeats
  HoldLimit,             \* the 30 s of txHold()
  TiltRepeats, SetMyRepeats,   \* TILT_REPEATS, SETMY_REPEATS
  MaxQueued              \* bound: this shade's frames waiting in the radio queue

ASSUME ShadeAssumption ==
  {Full, TiltFull, CmdGap, AwaitTime, HoldLimit, TiltRepeats, SetMyRepeats, MaxQueued} \subseteq Nat \ {0}

TiltTypes == {"none", "tiltmotor", "integrated", "tiltonly", "euromode"}
NoPos == -1
Unset == -1
Positions == 0 .. Full
Tilts == 0 .. TiltFull
JobIds == Nat \ {0}
Commands == {"Up", "Down", "My", "StepUp", "StepDown"}
Lengths == {"short", "tilt", "set"}     \* how long the remote's button seems held

AtLeast(a, b) == IF a > b THEN a ELSE b
AtMost(a, b) == IF a < b THEN a ELSE b
Toward(from, to) == IF from = to THEN 0 ELSE IF from > to THEN -1 ELSE 1

\* SomfyShade, at rest with a favourite or none, which SimMy simulates; the frames
\* it has in the radio queue, and the events about them that the loop has not read.
Resting(tiltType, simMy, pos, my, myTilt) ==
  [tiltType |-> tiltType, simMy |-> simMy,
   currentPos |-> pos, target |-> pos, direction |-> 0, startPos |-> pos, moved |-> 0,
   currentTiltPos |-> 0, tiltTarget |-> 0, tiltDirection |-> 0, startTiltPos |-> 0, tilted |-> 0,
   myPos |-> my, myTiltPos |-> myTilt,
   settingPos |-> FALSE, settingTiltPos |-> FALSE, settingMyPos |-> FALSE,
   pendingCmd |-> "none", gap |-> 0,
   txWaitJob |-> 0, waited |-> 0,
   lastFrame |-> [cmd |-> "My", code |-> 0, processed |-> TRUE, repeats |-> 0, await |-> Unset],
   queue |-> <<>>, heard |-> {}]

IsAtTarget(s) ==
  /\ s.tiltType # "tiltonly" => s.currentPos = s.target
  /\ s.tiltType # "none" => s.currentTiltPos = s.tiltTarget

IsIdle(s) ==
  /\ s.pendingCmd = "none" /\ s.txWaitJob = 0
  /\ IsAtTarget(s) /\ s.direction = 0 /\ s.tiltDirection = 0

\* Every command and frame starts the position math again from where the shade is.
Rebase(s) ==
  [s EXCEPT !.moved = 0, !.tilted = 0, !.startPos = s.currentPos, !.startTiltPos = s.currentTiltPos]

-----------------------------------------------------------------------------
(* Frames.                                                                 *)

\* StepUp and StepDown of one step: an integrated tilt turns before the lift moves.
Step(s, dir) ==
  LET tiltEnd == IF dir < 0 THEN 0 ELSE TiltFull
      end == IF dir < 0 THEN 0 ELSE Full
  IN CASE s.tiltType = "integrated" /\ s.currentTiltPos # tiltEnd ->
            [s EXCEPT !.target = s.currentPos, !.tiltTarget = s.currentTiltPos + dir]
       [] s.tiltType = "integrated" /\ s.currentTiltPos = tiltEnd /\ s.currentPos # end ->
            [s EXCEPT !.tiltTarget = s.currentTiltPos, !.target = s.currentPos + dir]
       [] s.tiltType = "tiltonly" ->
            [s EXCEPT !.tiltTarget = AtLeast(0, AtMost(TiltFull, s.currentTiltPos + dir))]
       [] s.tiltType \notin {"integrated", "tiltonly"} /\ s.currentPos # end ->
            [s EXCEPT !.target = s.currentPos + dir]
       [] OTHER -> s

ToFavorite(s) ==
  [s EXCEPT !.tiltTarget = IF s.myTiltPos # NoPos THEN s.myTiltPos ELSE @,
            !.target = IF s.myPos # NoPos /\ s.tiltType # "tiltonly" THEN s.myPos ELSE @]

\* A remote's frame ends every positioning, and the wait for a job of our own.
\* RemoteLeavesSettings is a mutant.
RemoteLeavesSettings(s) == [s EXCEPT !.txWaitJob = 0, !.waited = 0, !.pendingCmd = "none"]
Aborted(s) ==
  [s EXCEPT !.txWaitJob = 0, !.waited = 0, !.pendingCmd = "none",
            !.settingMyPos = FALSE, !.settingPos = FALSE, !.settingTiltPos = FALSE]

\* An order from outside ends a positioning or a recording; not the tilt's.
\* SupersedesPositioning is a mutant.
SupersedesPositioning(s) == [s EXCEPT !.settingPos = FALSE]
Superseding(s) == [s EXCEPT !.settingPos = FALSE, !.settingMyPos = FALSE]

Processed(s) == [s EXCEPT !.lastFrame.processed = TRUE]
Await(s) == [s EXCEPT !.lastFrame.await = AwaitTime]
LongPressTells(s) == s.tiltType \in {"tiltmotor", "euromode"}   \* a held Up tilts, or lifts

\* SomfyShade::processFrame() of a frame of our own, already in lastFrame: the
\* movement waits for its job.
ProcessOwnFrame(s, job) ==
  LET held == [Rebase(s) EXCEPT !.txWaitJob = job, !.waited = 0]
      cmd == s.lastFrame.cmd
  IN CASE cmd = "My" /\ IsIdle(held) -> ToFavorite(Processed(held))
       [] cmd = "My" /\ ~IsIdle(held) -> Processed(held)
       [] cmd \in {"Up", "Down"} -> Processed(held)
       [] cmd = "StepUp" -> Step(Processed(held), -1)
       [] cmd = "StepDown" -> Step(Processed(held), 1)

\* SomfyShade::processFrame() of a remote's frame, which the motor has heard.
ProcessRemoteFrame(s0, f) ==
  LET repeat == s0.lastFrame.code = f.code /\ s0.lastFrame.cmd = f.cmd
      copied == IF repeat
                THEN [s0 EXCEPT !.lastFrame.repeats = @ + 1]
                ELSE [s0 EXCEPT !.lastFrame.cmd = f.cmd, !.lastFrame.code = f.code,
                                !.lastFrame.processed = FALSE, !.lastFrame.repeats = 0]
      s == Aborted(Rebase(copied))
      done == s.lastFrame.processed
  IN CASE f.cmd \in {"Up", "Down"} /\ LongPressTells(s) -> Await(s)
       [] f.cmd = "Up" /\ ~LongPressTells(s) ->
            [Processed(s) EXCEPT !.tiltTarget = 0, !.target = IF s.tiltType = "tiltonly" THEN @ ELSE 0]
       [] f.cmd = "Down" /\ ~LongPressTells(s) ->
            [Processed(s) EXCEPT !.target = IF s.tiltType = "tiltonly" THEN @ ELSE Full,
                                 !.tiltTarget = IF s.tiltType = "none" THEN @ ELSE TiltFull]
       [] f.cmd = "My" /\ IsIdle(s) -> Await(s)
       [] f.cmd = "My" /\ ~IsIdle(s) /\ ~done ->
            [Processed(s) EXCEPT !.target = IF s.tiltType = "tiltonly" THEN @ ELSE s.currentPos,
                                 !.tiltTarget = s.currentTiltPos]
       [] f.cmd = "StepUp" /\ ~done -> Step(Processed(s), -1)
       [] f.cmd = "StepDown" /\ ~done -> Step(Processed(s), 1)
       [] OTHER -> s

NewJob(s) ==
  CHOOSE j \in 1 .. Len(s.queue) + Cardinality(s.heard) + 2 :
    /\ j # s.txWaitJob
    /\ \A i \in DOMAIN s.queue : s.queue[i].job # j
    /\ \A e \in s.heard : e.job # j

Queue(s, job, remote, cmd, length) ==
  [s EXCEPT !.queue = Append(@, [job |-> job, remote |-> remote, cmd |-> cmd, length |-> length])]

\* SomfyRemote::sendCommand(): a frame in the radio queue, processed at once.
SendFrame(s, cmd, length) ==
  LET job == NewJob(s)
  IN ProcessOwnFrame([Queue(s, job, "shade", cmd, length) EXCEPT
                        !.lastFrame = [@ EXCEPT !.cmd = cmd, !.code = 0, !.processed = FALSE, !.repeats = 0]],
                      job)

-----------------------------------------------------------------------------
(* Orders.                                                                 *)

MoveToTiltTarget(s, t) ==
  LET cmd == IF t < s.currentTiltPos THEN "Up" ELSE "Down"
      needed == t # s.currentTiltPos
      sends == needed /\ (s.currentPos = s.target \/ s.tiltType = "tiltmotor")
      sent == IF sends THEN SendFrame(s, cmd, IF s.tiltType = "tiltmotor" THEN "tilt" ELSE "short") ELSE s
  IN [sent EXCEPT !.tiltTarget = t, !.settingTiltPos = @ \/ needed]

\* t is NoPos when the order names no tilt.
MoveToTarget(s0, p0, t) ==
  LET tiltOnly == s0.tiltType = "tiltonly"
      s == IF tiltOnly THEN [s0 EXCEPT !.target = Full, !.myPos = NoPos, !.currentPos = Full] ELSE s0
      p == IF tiltOnly THEN Full ELSE p0
      dir == CASE ~tiltOnly /\ p # s.currentPos -> Toward(s.currentPos, p)
               [] tiltOnly \/ (p = s.currentPos /\ t # NoPos) -> Toward(s.currentTiltPos, t)
               [] OTHER -> 0
      sent == SendFrame(s, IF dir < 0 THEN "Up" ELSE "Down",
                        IF s.tiltType = "euromode" THEN "tilt" ELSE "short")
  IN IF dir = 0 THEN s
     ELSE [sent EXCEPT !.settingPos = TRUE, !.target = p,
                       !.tiltTarget = IF t = NoPos THEN @ ELSE t,
                       !.settingTiltPos = @ \/ t # NoPos]

MoveToMyPosition(s0) ==
  LET tiltOnly == s0.tiltType = "tiltonly"
      s == IF tiltOnly THEN [s0 EXCEPT !.currentPos = Full, !.myPos = NoPos] ELSE s0
      there == s.currentPos = s.myPos /\ (s.tiltType # "none" => s.currentTiltPos = s.myTiltPos)
      unknown == s.myPos = NoPos /\ (s.tiltType = "none" \/ s.myTiltPos = NoPos)
      aimed == [ToFavorite(s) EXCEPT !.settingPos = FALSE]
  IN CASE ~IsIdle(s0) -> s0
       [] IsIdle(s0) /\ (there \/ unknown) -> s
       [] OTHER -> IF s.simMy THEN MoveToTarget(aimed, s.myPos, s.myTiltPos)
                   ELSE SendFrame(aimed, "My", "short")

\* SomfyShade::sendCommand()
SendCommand(s0, cmd) ==
  LET s == Superseding(s0)
      up == cmd = "Up"
      sent == SendFrame(s, cmd, IF s.tiltType = "euromode" /\ cmd \in {"Up", "Down"} THEN "tilt" ELSE "short")
  IN CASE cmd \in {"Up", "Down"} ->
            [sent EXCEPT !.target = IF s.tiltType = "tiltonly" \/ ~up THEN Full ELSE 0,
                         !.currentPos = IF s.tiltType = "tiltonly" THEN Full ELSE @,
                         !.tiltTarget = IF s.tiltType \in {"tiltonly", "integrated"}
                                        THEN (IF up THEN 0 ELSE TiltFull) ELSE @]
       [] cmd = "My" /\ IsIdle(s) -> MoveToMyPosition(s)
       [] cmd = "My" /\ ~IsIdle(s) ->
            [sent EXCEPT !.target = IF s.tiltType = "tiltonly" THEN @ ELSE sent.currentPos,
                         !.tiltTarget = sent.currentTiltPos]
       [] OTHER -> sent

SendTiltCommand(s, cmd) ==
  LET sent == SendFrame(s, cmd, IF s.tiltType = "tiltmotor" THEN "tilt" ELSE "short")
  IN [sent EXCEPT !.tiltTarget = CASE cmd = "Up" -> 0 [] cmd = "Down" -> TiltFull
                                   [] cmd = "My" -> sent.currentTiltPos]

\* setMyPosition(): go there first, then checkMovement() records it; at once if
\* the shade is there and has another favourite.
SetMyPosition(s0, p, t0) ==
  LET tiltOnly == s0.tiltType = "tiltonly"
      lift == ~tiltOnly
      tilts == s0.tiltType # "none"
      t == CASE ~tilts -> NoPos [] tiltOnly -> t0 [] OTHER -> AtLeast(0, t0)
      s == IF tiltOnly THEN [s0 EXCEPT !.myPos = NoPos] ELSE s0
      here == (lift => p = s.currentPos) /\ (tilts => t = s.currentTiltPos)
      favorite == (lift => p = s.myPos) /\ (tilts => t = s.myTiltPos)
      setting == [s EXCEPT !.settingMyPos = TRUE]
  IN CASE ~IsIdle(s0) -> s0
       [] IsIdle(s0) /\ ~here /\ favorite -> MoveToMyPosition(setting)
       [] IsIdle(s0) /\ ~here /\ ~favorite -> MoveToTarget(setting, IF lift THEN p ELSE Full, t)
       [] IsIdle(s0) /\ here /\ favorite ->
            [SendFrame(s, "My", "short") EXCEPT !.settingPos = FALSE, !.settingMyPos = TRUE]
       [] OTHER ->
            [SendFrame(s, "My", "set") EXCEPT !.myPos = IF lift THEN p ELSE @, !.myTiltPos = t]

\* A group of this shade sends a frame of its own remote; this is the shade's part,
\* processInternalCommand().  Up, Down and My, not held.
GroupCommand(s0, cmd) ==
  LET job == NewJob(s0)
      s == [Rebase(Queue(Superseding(s0), job, "group", cmd, "short")) EXCEPT
              !.txWaitJob = job, !.waited = 0]
      tiltOnly == s.tiltType = "tiltonly"
  IN CASE cmd \in {"Up", "Down"} /\ s.tiltType = "tiltmotor" ->
            [s EXCEPT !.target = IF cmd = "Up" THEN 0 ELSE Full]
       [] cmd = "Up" /\ s.tiltType # "tiltmotor" ->
            [s EXCEPT !.target = IF tiltOnly THEN Full ELSE 0, !.tiltTarget = 0,
                      !.currentPos = IF tiltOnly THEN Full ELSE @]
       [] cmd = "Down" /\ s.tiltType # "tiltmotor" ->
            [s EXCEPT !.target = Full, !.currentPos = IF tiltOnly THEN Full ELSE @,
                      !.tiltTarget = IF s.tiltType = "none" THEN @ ELSE TiltFull]
       [] cmd = "My" /\ IsIdle(s) -> IF s.simMy THEN MoveToMyPosition(s) ELSE ToFavorite(s)
       [] cmd = "My" /\ ~IsIdle(s) ->
            [s EXCEPT !.target = IF tiltOnly THEN Full ELSE s.currentPos,
                      !.tiltTarget = s.currentTiltPos]

-----------------------------------------------------------------------------
(* The loop.                                                               *)

\* processWaitingFrame(): a remote's frame whose repeats have had their time.
ProcessWaitingFrame(s) ==
  LET f == s.lastFrame
      dir == IF f.cmd = "Up" THEN -1 ELSE 1
      held == f.repeats >= TiltRepeats
      turn == [Processed(s) EXCEPT
                 !.tiltTarget = IF dir < 0 THEN 0 ELSE TiltFull, !.tiltDirection = dir,
                 !.tilted = IF s.tiltDirection # dir THEN 0 ELSE @,
                 !.startTiltPos = IF s.tiltDirection # dir THEN s.currentTiltPos ELSE @]
      travel == [Processed(Rebase(s)) EXCEPT !.target = IF dir < 0 THEN 0 ELSE Full]
      same == s.myPos = s.currentPos
  IN CASE f.processed \/ f.await # 0 -> s
       [] ~f.processed /\ f.await = 0 /\ f.cmd \in {"Up", "Down"} /\ LongPressTells(s) ->
            IF held <=> s.tiltType = "tiltmotor" THEN turn ELSE travel
       [] ~f.processed /\ f.await = 0 /\ f.cmd = "My" /\ f.repeats >= SetMyRepeats /\ IsIdle(s) ->
            [Processed(s) EXCEPT !.myPos = IF same THEN NoPos ELSE s.currentPos,
                                 !.myTiltPos = IF same THEN NoPos ELSE s.currentTiltPos]
       [] ~f.processed /\ f.await = 0 /\ f.cmd = "My" /\ f.repeats < SetMyRepeats /\ IsIdle(s) ->
            Processed(IF s.simMy THEN MoveToMyPosition(s) ELSE ToFavorite(s))
       [] ~f.processed /\ f.await = 0 /\ f.cmd = "My" /\ ~IsIdle(s) ->
            [s EXCEPT !.target = s.currentPos, !.tiltTarget = s.currentTiltPos,
                      !.lastFrame.processed = f.repeats > SetMyRepeats + 2]
       [] OTHER -> s

\* A transmit event: the job it is about has gone out, e.age ago.  TxAnchorAny, and
\* TxHoldForever below, are mutants.
TxAnchorAny(s, e) ==
  [s EXCEPT !.txWaitJob = 0, !.waited = 0, !.moved = AtMost(Full, e.age), !.tilted = AtMost(TiltFull, e.age)]
TxAnchor(s, e) ==
  IF s.txWaitJob = e.job
  THEN [s EXCEPT !.txWaitJob = 0, !.waited = 0, !.moved = AtMost(Full, e.age),
                 !.tilted = AtMost(TiltFull, e.age)]
  ELSE s

\* No movement until the job has gone out, or HoldLimit has passed.
TxHoldForever(s) == IF s.txWaitJob = 0 THEN s ELSE [s EXCEPT !.moved = 0, !.tilted = 0]
TxHold(s) ==
  CASE s.txWaitJob = 0 -> s
    [] s.txWaitJob # 0 /\ s.waited > HoldLimit -> [s EXCEPT !.txWaitJob = 0, !.waited = 0]
    [] OTHER -> [s EXCEPT !.moved = 0, !.tilted = 0]

StartCmdGap(s, cmd) == [s EXCEPT !.pendingCmd = cmd, !.gap = CmdGap]

FavoriteIsHere(s) ==
  s.myPos = s.currentPos /\ (s.tiltType # "none" => s.myTiltPos = s.currentTiltPos)

\* finishSetMyPosition(): the favourite is where the shade is, or none if it was
\* there already, then the long press.
FinishSetMyPosition(s) ==
  LET recorded == [s EXCEPT
                     !.myPos = IF FavoriteIsHere(s) THEN NoPos ELSE s.currentPos,
                     !.myTiltPos = IF FavoriteIsHere(s) \/ s.tiltType = "none" THEN NoPos ELSE s.currentTiltPos]
  IN [SendFrame(recorded, "My", "set") EXCEPT !.settingMyPos = FALSE]

\* The command a gap held back.
RunPending(s) ==
  LET cleared == [s EXCEPT !.pendingCmd = "none"]
  IN IF s.pendingCmd = "tiltTarget" /\ s.settingPos /\ ~IsAtTarget(s)
     THEN MoveToTiltTarget(cleared, s.tiltTarget)
     ELSE cleared

\* An integrated tilt turns before the lift moves.
TurnsFirst(s, dir) ==
  s.tiltType = "integrated" /\ dir # 0 /\ s.currentTiltPos # (IF dir < 0 THEN 0 ELSE TiltFull)

\* Where the lift and the tilt are going; both only when the tilt turns first.
Directed(s) ==
  LET dir == Toward(s.currentPos, s.target)
  IN [s EXCEPT !.direction = dir,
               !.tiltDirection = IF TurnsFirst(s, dir) THEN dir ELSE IF dir # 0 THEN 0
                                 ELSE Toward(s.currentTiltPos, s.tiltTarget)]

\* A positioning sends a My where it ends, unless the motor stops there by itself.
\* NoStop is a mutant of both.
NoStop(s, end) == FALSE
StopsLift(s, end) == s.settingPos /\ s.target # end
StopsTilt(s, end) ==
  /\ s.settingTiltPos
  /\ s.tiltTarget # end \/ (s.tiltType = "integrated" /\ s.currentPos # IF end = 0 THEN 0 ELSE Full)

\* The lift where its travel time says, and stopped if that is where it was sent.
Lifted(s0) ==
  LET d == s0.direction
      end == IF d < 0 THEN 0 ELSE Full
      s == [s0 EXCEPT !.currentPos = AtLeast(0, AtMost(Full, s0.startPos + d * s0.moved))]
      reached == [s EXCEPT !.currentPos = s.target]
      stopped == IF StopsLift(s, end) THEN SendFrame(reached, "My", "short") ELSE reached
      gapped == IF s.settingPos /\ ~IsAtTarget(reached) THEN StartCmdGap(stopped, "tiltTarget") ELSE stopped
  IN IF d * (s.currentPos - s.target) >= 0
     THEN [gapped EXCEPT !.settingPos = FALSE, !.direction = 0, !.tilted = 0,
                         !.startTiltPos = s.currentTiltPos]
     ELSE s

\* The tilt likewise; when it turns first, the lift starts where it ends.
Tilted(s0, first) ==
  LET d == s0.tiltDirection
      end == IF d < 0 THEN 0 ELSE TiltFull
      s == [s0 EXCEPT !.currentTiltPos = AtLeast(0, AtMost(TiltFull, s0.startTiltPos + d * s0.tilted)),
                      !.moved = IF first THEN 0 ELSE @]
      reached == [s EXCEPT !.currentTiltPos = s.tiltTarget]
      stopped == IF StopsTilt(s, end) THEN SendFrame(reached, "My", "short") ELSE reached
  IN CASE first -> IF s.currentTiltPos = end THEN [s EXCEPT !.startPos = s.currentPos] ELSE s
       [] ~first /\ d * (s.currentTiltPos - s.tiltTarget) >= 0 ->
            [stopped EXCEPT !.tiltDirection = 0, !.settingTiltPos = FALSE]
       [] OTHER -> s

\* checkMovement(): one pass over the shade.
CheckMovement(s0) ==
  LET s == Directed(RunPending(s0))
      first == s.direction # 0 /\ s.tiltDirection # 0
      lifted == IF s.direction # 0 /\ ~first THEN Lifted(s) ELSE s
      tilted == IF lifted.tiltDirection # 0 THEN Tilted(lifted, first) ELSE lifted
  IN CASE s0.pendingCmd # "none" /\ s0.gap > 0 -> s0
       [] s0.pendingCmd = "setMyPos" /\ s0.gap = 0 /\ s0.settingMyPos /\ IsAtTarget(s0) ->
            FinishSetMyPosition([s0 EXCEPT !.pendingCmd = "none"])
       [] OTHER -> IF tilted.settingMyPos /\ IsAtTarget(tilted)
                   THEN StartCmdGap(tilted, "setMyPos") ELSE tilted

\* Time: one tick more since every instant, one less until every deadline.
Aged(s) ==
  [s EXCEPT !.moved = AtMost(Full, @ + 1), !.tilted = AtMost(TiltFull, @ + 1),
            !.gap = AtLeast(0, @ - 1),
            !.waited = IF s.txWaitJob = 0 THEN 0 ELSE AtMost(HoldLimit + 1, @ + 1),
            !.lastFrame.await = IF @ = Unset THEN Unset ELSE AtLeast(0, @ - 1),
            !.heard = {[e EXCEPT !.age = AtMost(AtLeast(Full, TiltFull), @ + 1)] : e \in s.heard}]

=============================================================================
