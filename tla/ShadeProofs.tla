----------------------------- MODULE ShadeProofs -----------------------------
(***************************************************************************)
(* Proofs about ShadeSystem, for every set of shades, prompt or not: its   *)
(* types, and what a shade does while a command of its own waits, after a  *)
(* remote's frame and while it records; and, prompt and with no event      *)
(* lost, the estimate of a lift.                                           *)
(***************************************************************************)
EXTENDS ShadeSystem, FiniteSetTheorems, TLAPS

(* A shade.                                                                *)

Fields == {"tiltType", "simMy", "currentPos", "target", "direction", "startPos", "moved",
           "currentTiltPos", "tiltTarget", "tiltDirection", "startTiltPos", "tilted",
           "myPos", "myTiltPos", "settingPos", "settingTiltPos", "settingMyPos",
           "pendingCmd", "gap", "txWaitJob", "waited", "lastFrame", "queue", "heard"}
LastFrames == [cmd : Commands, code : Nat, processed : BOOLEAN, repeats : Nat, await : Nat \cup {Unset}]
Frames == [job : JobIds, remote : {"shade", "group"}, cmd : Commands, length : Lengths]
Events == [job : JobIds, age : Nat]

Typed(s) ==
  /\ DOMAIN s = Fields
  /\ s.tiltType \in TiltTypes /\ s.simMy \in BOOLEAN
  /\ s.currentPos \in Positions /\ s.target \in Positions /\ s.startPos \in Positions /\ s.moved \in Positions
  /\ s.currentTiltPos \in Tilts /\ s.tiltTarget \in Tilts /\ s.startTiltPos \in Tilts /\ s.tilted \in Tilts
  /\ s.direction \in -1 .. 1 /\ s.tiltDirection \in -1 .. 1
  /\ s.myPos \in Positions \cup {NoPos} /\ s.myTiltPos \in Tilts \cup {NoPos}
  /\ s.settingPos \in BOOLEAN /\ s.settingTiltPos \in BOOLEAN /\ s.settingMyPos \in BOOLEAN
  /\ s.pendingCmd \in {"none", "tiltTarget", "setMyPos"}
  /\ s.gap \in Nat /\ s.txWaitJob \in Nat /\ s.waited \in Nat
  /\ s.lastFrame \in LastFrames
  /\ s.queue \in Seq(Frames) /\ s.heard \in SUBSET Events /\ IsFiniteSet(s.heard)

\* r is s but for some fields.
Only(changed, s, r) == DOMAIN r = Fields /\ \A f \in Fields \ changed : r[f] = s[f]
Sendings == {"txWaitJob", "waited", "moved", "tilted", "startPos", "startTiltPos", "lastFrame", "queue"}
Aims == {"target", "tiltTarget"}

\* A favourite of the tilt comes with one of the lift, if there is a lift.
FavoriteWhole(s) == s.tiltType # "tiltonly" /\ s.myTiltPos # NoPos => s.myPos # NoPos

\* What only tilts is down.
Down(s) == s.tiltType = "tiltonly" => s.currentPos = Full /\ s.target = Full

\* A shade that waits for its command has moved nowhere since.
Still(s) == s.txWaitJob # 0 => s.startPos = s.currentPos /\ s.startTiltPos = s.currentTiltPos

\* A job is of one frame, which waits or has been heard.
OneFrameEach(s) ==
  /\ \A i, j \in 1 .. Len(s.queue) : s.queue[i].job = s.queue[j].job => i = j
  /\ \A i \in 1 .. Len(s.queue) : \A e \in s.heard : e.job # s.queue[i].job

Sound(s) == Typed(s) /\ FavoriteWhole(s) /\ Down(s) /\ Still(s) /\ OneFrameEach(s)

\* Nothing of a positioning or a recording is left.
Calm(s) == ~s.settingPos /\ ~s.settingTiltPos /\ ~s.settingMyPos /\ s.pendingCmd = "none"
Own(s) == s.lastFrame.code = 0 /\ s.lastFrame.processed   \* the last frame it knows of
Ended(s) == ~Own(s) => Calm(s)

Busy(s) == s.settingMyPos => ~IsIdle(s)

\* The same shade, with the favourite of its lift, or none.
KeepsFavorite(s, r) ==
  /\ r.tiltType = s.tiltType /\ r.simMy = s.simMy
  /\ r.myPos = s.myPos \/ r.myPos = NoPos

-----------------------------------------------------------------------------
(* Frames.                                                                 *)

LEMMA Ranges ==
  /\ Full \in Nat \ {0} /\ TiltFull \in Nat \ {0} /\ CmdGap \in Nat /\ AwaitTime \in Nat /\ HoldLimit \in Nat
  /\ 0 \in Positions /\ Full \in Positions /\ 0 \in Tilts /\ TiltFull \in Tilts
BY ShadeAssumption DEF Positions, Tilts

LEMMA FreshJob ==
  ASSUME NEW s, Typed(s)
  PROVE  /\ NewJob(s) \in JobIds /\ NewJob(s) # s.txWaitJob
         /\ \A i \in 1 .. Len(s.queue) : s.queue[i].job # NewJob(s)
         /\ \A e \in s.heard : e.job # NewJob(s)
<1> DEFINE n == Len(s.queue)
           h == Cardinality(s.heard)
           queued == {s.queue[i].job : i \in 1 .. n}
           heard == {e.job : e \in s.heard}
<1>1. n \in Nat /\ DOMAIN s.queue = 1 .. n /\ IsFiniteSet(s.heard) /\ h \in Nat
  BY FS_CardinalityType DEF Typed
<1>2. IsFiniteSet(1 .. n) /\ Cardinality(1 .. n) = n
  BY <1>1, FS_Interval, SMTT(30)
<1>3. IsFiniteSet(queued) /\ Cardinality(queued) <= n
  <2> DEFINE f == [i \in 1 .. n |-> s.queue[i].job]
  <2>1. f \in Surjection(1 .. n, queued)
    BY DEF Surjection
  <2>2. QED
    BY <1>2, <2>1, FS_Surjection
<1>4. IsFiniteSet(heard) /\ Cardinality(heard) <= h
  <2> DEFINE f == [e \in s.heard |-> e.job]
  <2>1. f \in Surjection(s.heard, heard)
    BY DEF Surjection
  <2>2. QED
    BY <1>1, <2>1, FS_Surjection
<1> HIDE DEF n, h, queued, heard
<1>5. IsFiniteSet(queued \cup heard) /\ Cardinality(queued \cup heard) <= n + h
  <2>1. IsFiniteSet(queued \cap heard)
    BY <1>3, FS_Intersection
  <2>2. /\ Cardinality(queued) \in Nat /\ Cardinality(heard) \in Nat
        /\ Cardinality(queued \cap heard) \in Nat
    BY <1>3, <1>4, <2>1, FS_CardinalityType
  <2>3. /\ IsFiniteSet(queued \cup heard)
        /\ Cardinality(queued \cup heard)
             = Cardinality(queued) + Cardinality(heard) - Cardinality(queued \cap heard)
    BY <1>3, <1>4, FS_Union
  <2>4. QED
    BY <1>1, <1>3, <1>4, <2>2, <2>3
<1>6. /\ IsFiniteSet(queued \cup heard \cup {s.txWaitJob})
      /\ Cardinality(queued \cup heard \cup {s.txWaitJob}) <= n + h + 1
  <2> DEFINE both == queued \cup heard
  <2>1. Cardinality(both) \in Nat
    BY <1>5, FS_CardinalityType
  <2>2. /\ IsFiniteSet(both \cup {s.txWaitJob})
        /\ Cardinality(both \cup {s.txWaitJob})
             = IF s.txWaitJob \in both THEN Cardinality(both) ELSE Cardinality(both) + 1
    BY <1>5, FS_AddElement
  <2> HIDE DEF both
  <2>3. Cardinality(both) <= n + h
    BY <1>5 DEF both
  <2>4. Cardinality(both \cup {s.txWaitJob}) <= n + h + 1
    BY <1>1, <2>1, <2>2, <2>3
  <2>5. QED
    BY <2>2, <2>4 DEF both
<1>7. \E j \in 1 .. n + h + 2 : j \notin queued \cup heard \cup {s.txWaitJob}
  <2> SUFFICES ASSUME 1 .. n + h + 2 \subseteq queued \cup heard \cup {s.txWaitJob} PROVE FALSE
    OBVIOUS
  <2>1. Cardinality(1 .. n + h + 2) = n + h + 2
    BY <1>1, FS_Interval
  <2>2. Cardinality(1 .. n + h + 2) <= Cardinality(queued \cup heard \cup {s.txWaitJob})
    BY <1>6, FS_Subset
  <2>3. QED
    BY <1>1, <1>6, <2>1, <2>2, FS_CardinalityType
<1>8. \E j \in 1 .. n + h + 2 :
        /\ j # s.txWaitJob
        /\ \A i \in DOMAIN s.queue : s.queue[i].job # j
        /\ \A e \in s.heard : e.job # j
  BY <1>1, <1>7 DEF queued, heard
<1>9. /\ NewJob(s) \in 1 .. n + h + 2 /\ NewJob(s) # s.txWaitJob
      /\ \A i \in DOMAIN s.queue : s.queue[i].job # NewJob(s)
      /\ \A e \in s.heard : e.job # NewJob(s)
  BY <1>8 DEF NewJob, n, h
<1>10. QED
  <2>1. NewJob(s) \in JobIds
    BY <1>1, <1>9 DEF JobIds
  <2>2. DOMAIN s.queue = 1 .. Len(s.queue)
    BY <1>1 DEF n
  <2>3. QED
    BY <1>9, <2>1, <2>2

\* Where a step of a lift without tilt goes to.
StepTo(s, cmd) ==
  LET dir == IF cmd = "StepUp" THEN -1 ELSE 1
  IN IF s.currentPos = (IF dir < 0 THEN 0 ELSE Full) THEN s.target ELSE s.currentPos + dir

\* A step aims one step further, never beyond the ends.
LEMMA StepIs ==
  ASSUME NEW s, Typed(s), NEW dir \in {-1, 1}
  PROVE  LET r == Step(s, dir)
             end == IF dir < 0 THEN 0 ELSE Full
         IN  /\ Typed(r) /\ Only(Aims, s, r) /\ (s.tiltType = "tiltonly" => r.target = s.target)
             /\ s.tiltType = "none" =>
                  /\ r.target = (IF s.currentPos = end THEN s.target ELSE s.currentPos + dir)
                  /\ r.tiltTarget = s.tiltTarget
<1> DEFINE r == Step(s, dir)
           tiltEnd == IF dir < 0 THEN 0 ELSE TiltFull
           end == IF dir < 0 THEN 0 ELSE Full
           tilt == s.currentTiltPos + dir
           pos == s.currentPos + dir
           kept == AtLeast(0, AtMost(TiltFull, tilt))
<1>1. /\ Full \in Nat /\ TiltFull \in Nat
      /\ s.currentPos \in 0 .. Full /\ s.currentTiltPos \in 0 .. TiltFull
      /\ s.target \in 0 .. Full /\ s.tiltTarget \in 0 .. TiltFull
  BY Ranges DEF Typed, Positions, Tilts
<1>2. /\ s.currentTiltPos # tiltEnd => tilt \in Tilts
      /\ s.currentPos # end => pos \in Positions
      /\ kept \in Tilts
  BY <1>1 DEF Tilts, Positions, AtLeast, AtMost
<1>3. s.currentPos \in Positions /\ s.currentTiltPos \in Tilts
  BY DEF Typed
<1> HIDE DEF tilt, pos, kept, tiltEnd, end
<1>4. r = CASE s.tiltType = "integrated" /\ s.currentTiltPos # tiltEnd -> [s EXCEPT !.target = s.currentPos, !.tiltTarget = tilt]
            [] s.tiltType = "integrated" /\ s.currentTiltPos = tiltEnd /\ s.currentPos # end ->
                 [s EXCEPT !.tiltTarget = s.currentTiltPos, !.target = pos]
            [] s.tiltType = "tiltonly" -> [s EXCEPT !.tiltTarget = kept]
            [] s.tiltType \notin {"integrated", "tiltonly"} /\ s.currentPos # end -> [s EXCEPT !.target = pos]
            [] OTHER -> s
  BY DEF Step, tilt, pos, kept, tiltEnd, end
<1> HIDE DEF r
<1>5. Typed(r) 
  BY <1>2, <1>3, <1>4 DEF Typed, Fields
<1>6. Only(Aims, s, r) /\ (s.tiltType = "tiltonly" => r.target = s.target)
  BY <1>4 DEF Typed, Fields, Only, Aims
<1>7. s.tiltType = "none" =>
        /\ r.target = (IF s.currentPos = end THEN s.target ELSE s.currentPos + dir)
        /\ r.tiltTarget = s.tiltTarget
  BY <1>4 DEF Typed, Fields, pos
<1>8. QED
  BY <1>5, <1>6, <1>7 DEF r, end

LEMMA SendFrameIs ==
  ASSUME NEW s, Typed(s), NEW cmd \in Commands, NEW length \in Lengths
  PROVE  LET r == SendFrame(s, cmd, length)
             job == NewJob(s)
         IN  /\ Typed(r) /\ r.txWaitJob = job /\ r.waited = 0 /\ Own(r)
             /\ r.queue = Append(s.queue, [job |-> job, remote |-> "shade", cmd |-> cmd, length |-> length])
             /\ r.moved = 0 /\ r.tilted = 0 /\ r.startPos = s.currentPos /\ r.startTiltPos = s.currentTiltPos
             /\ Only(Aims \cup Sendings, s, r)
             /\ s.tiltType = "tiltonly" => r.target = s.target
             /\ cmd \in {"Up", "Down", "My"} => r.target = s.target /\ r.tiltTarget = s.tiltTarget
             /\ s.tiltType = "none" => r.tiltTarget = s.tiltTarget
             /\ s.tiltType = "none" /\ cmd \in {"StepUp", "StepDown"} => r.target = StepTo(s, cmd)
<1> DEFINE job == NewJob(s)
           waiting == Append(s.queue, [job |-> job, remote |-> "shade", cmd |-> cmd, length |-> length])
           frame == [s.lastFrame EXCEPT !.cmd = cmd, !.code = 0, !.processed = FALSE, !.repeats = 0]
           q == [[s EXCEPT !.queue = waiting] EXCEPT !.lastFrame = frame]
           held == [Rebase(q) EXCEPT !.txWaitJob = job, !.waited = 0]
           p == Processed(held)
<1>1. job \in JobIds
  BY FreshJob
<1> HIDE DEF job
<1>2. waiting \in Seq(Frames) /\ frame \in LastFrames /\ frame.cmd = cmd /\ frame.code = 0
  <2>1. waiting \in Seq(Frames)
    BY <1>1 DEF Typed, Frames
  <2>2. frame \in LastFrames /\ frame.cmd = cmd /\ frame.code = 0
    BY DEF Typed, LastFrames
  <2>3. QED
    BY <2>1, <2>2
<1>3. SendFrame(s, cmd, length) = ProcessOwnFrame(q, job)
  <2>1. Queue(s, job, "shade", cmd, length) = [s EXCEPT !.queue = waiting]
    BY DEF Queue
  <2>2. [s EXCEPT !.queue = waiting].lastFrame = s.lastFrame
    BY DEF Typed, Fields
  <2> HIDE DEF waiting
  <2>3. QED
    BY <2>1, <2>2 DEF SendFrame, job
<1> HIDE DEF waiting, frame
<1>4. Typed(held)
  BY <1>1, <1>2, Ranges DEF Typed, Fields, Rebase, JobIds
<1>5. /\ held.queue = waiting /\ held.lastFrame = frame /\ held.txWaitJob = job /\ held.waited = 0
      /\ held.moved = 0 /\ held.tilted = 0 /\ held.startPos = s.currentPos /\ held.startTiltPos = s.currentTiltPos
      /\ Only(Sendings, s, held)
  BY DEF Typed, Fields, Rebase, Only, Sendings
<1> HIDE DEF held
<1>6. ~IsIdle(held)
  BY <1>1, <1>5 DEF IsIdle, JobIds
<1>7. Typed(p) /\ Own(p) /\ Only({"lastFrame"}, held, p)
  <2>1. /\ [frame EXCEPT !.processed = TRUE] \in LastFrames /\ [frame EXCEPT !.processed = TRUE].code = 0
        /\ [frame EXCEPT !.processed = TRUE].processed
    BY <1>2 DEF LastFrames
  <2>2. p = [held EXCEPT !.lastFrame = [frame EXCEPT !.processed = TRUE]]
    BY <1>5 DEF Processed
  <2> HIDE DEF p
  <2>3. p.lastFrame = [frame EXCEPT !.processed = TRUE]
    BY <1>4, <2>2 DEF Typed, Fields
  <2>4. Typed(p)
    BY <1>4, <2>1, <2>2 DEF Typed, Fields
  <2>5. Only({"lastFrame"}, held, p)
    BY <1>4, <2>2 DEF Typed, Fields, Only
  <2>6. QED
    BY <2>1, <2>3, <2>4, <2>5 DEF Own
<1> HIDE DEF p
<1>8. CASE cmd \in {"Up", "Down", "My"}
  <2>1. ProcessOwnFrame(q, job) = p
    <3>1. q.lastFrame.cmd = cmd
      BY <1>2 DEF Typed, Fields
    <3>2. QED
      BY <1>6, <1>8, <3>1 DEF ProcessOwnFrame, p, held
  <2>2. SendFrame(s, cmd, length) = p
    BY <1>3, <2>1
  <2>3. /\ p.txWaitJob = held.txWaitJob /\ p.waited = held.waited /\ p.queue = held.queue
        /\ p.moved = held.moved /\ p.tilted = held.tilted
        /\ p.startPos = held.startPos /\ p.startTiltPos = held.startTiltPos
        /\ p.target = held.target /\ p.tiltTarget = held.tiltTarget
    BY <1>7 DEF Only, Fields
  <2>4. held.target = s.target /\ held.tiltTarget = s.tiltTarget
    BY <1>5 DEF Only, Fields, Sendings
  <2>5. Only(Aims \cup Sendings, s, p)
    BY <1>5, <1>7 DEF Only, Fields, Sendings
  <2>6. QED
    BY <1>5, <1>7, <1>8, <2>2, <2>3, <2>4, <2>5 DEF waiting, job
<1>9. CASE cmd \in {"StepUp", "StepDown"}
  <2>1. PICK dir \in {-1, 1} : ProcessOwnFrame(q, job) = Step(p, dir) /\ dir = (IF cmd = "StepUp" THEN -1 ELSE 1)
    <3>1. q.lastFrame.cmd = cmd
      BY <1>2 DEF Typed, Fields
    <3>2. QED
      BY <1>9, <3>1 DEF ProcessOwnFrame, p, held
  <2> DEFINE r == Step(p, dir)
  <2>2. /\ Typed(r) /\ Only(Aims, p, r) /\ (p.tiltType = "tiltonly" => r.target = p.target)
        /\ p.tiltType = "none" =>
             /\ r.target = (IF p.currentPos = (IF dir < 0 THEN 0 ELSE Full) THEN p.target ELSE p.currentPos + dir)
             /\ r.tiltTarget = p.tiltTarget
    BY <1>7, StepIs
  <2>3. SendFrame(s, cmd, length) = r
    BY <1>3, <2>1
  <2> HIDE DEF r
  <2>4. Only(Aims \cup Sendings, s, r)
    BY <1>5, <1>7, <2>2 DEF Only, Fields, Aims, Sendings
  <2>5. /\ p.tiltType = s.tiltType /\ p.currentPos = s.currentPos /\ p.target = s.target
        /\ p.tiltTarget = s.tiltTarget
    BY <1>5, <1>7 DEF Only, Fields, Sendings
  <2>6. s.tiltType = "none" => r.target = StepTo(s, cmd) /\ r.tiltTarget = s.tiltTarget
    BY <1>9, <2>1, <2>2, <2>5 DEF StepTo
  <2>7. /\ r.txWaitJob = p.txWaitJob /\ r.waited = p.waited /\ r.lastFrame = p.lastFrame /\ r.queue = p.queue
        /\ r.moved = p.moved /\ r.tilted = p.tilted /\ r.startPos = p.startPos /\ r.startTiltPos = p.startTiltPos
    BY <2>2 DEF Only, Fields, Aims
  <2>8. /\ p.txWaitJob = held.txWaitJob /\ p.waited = held.waited /\ p.queue = held.queue
        /\ p.moved = held.moved /\ p.tilted = held.tilted
        /\ p.startPos = held.startPos /\ p.startTiltPos = held.startTiltPos
    BY <1>7 DEF Only, Fields
  <2>9. QED
    BY <1>5, <1>7, <1>9, <2>2, <2>3, <2>4, <2>5, <2>6, <2>7, <2>8 DEF waiting, job, Own
<1>10. QED
  BY <1>8, <1>9 DEF Commands, job

-----------------------------------------------------------------------------
(* What preserves what is sound.                                           *)

Kept == {"tiltType", "simMy", "currentPos", "startPos", "currentTiltPos", "startTiltPos",
         "myPos", "myTiltPos", "txWaitJob", "queue", "heard"}

LEMMA StaysSound ==
  ASSUME NEW s, Sound(s), NEW r, Typed(r), NEW changed, Only(changed, s, r), changed \cap Kept = {},
         s.tiltType = "tiltonly" => r.target = Full
  PROVE  Sound(r) /\ KeepsFavorite(s, r)
<1>1. \A f \in Kept : r[f] = s[f]
  BY DEF Only, Kept, Fields
<1>2. /\ r.tiltType = s.tiltType /\ r.simMy = s.simMy
      /\ r.currentPos = s.currentPos /\ r.startPos = s.startPos
      /\ r.currentTiltPos = s.currentTiltPos /\ r.startTiltPos = s.startTiltPos
      /\ r.myPos = s.myPos /\ r.myTiltPos = s.myTiltPos
      /\ r.txWaitJob = s.txWaitJob /\ r.queue = s.queue /\ r.heard = s.heard
  BY <1>1 DEF Kept
<1>3. QED
  BY <1>2 DEF Sound, FavoriteWhole, Down, Still, OneFrameEach, KeepsFavorite

\* A frame of a new job waits, and the shade for it, where it is.
LEMMA QueuedSound ==
  ASSUME NEW s, Sound(s), NEW r, Typed(r), NEW job \in JobIds, NEW f,
         \A i \in 1 .. Len(s.queue) : s.queue[i].job # job,
         \A e \in s.heard : e.job # job,
         f.job = job, r.queue = Append(s.queue, f), r.txWaitJob = job,
         r.startPos = s.currentPos, r.startTiltPos = s.currentTiltPos,
         NEW changed, Only(changed, s, r), changed \cap (Kept \ Sendings) = {},
         s.tiltType = "tiltonly" => r.target = s.target
  PROVE  /\ Sound(r) /\ Len(r.queue) = Len(s.queue) + 1 /\ r.queue[Len(r.queue)] = f
         /\ KeepsFavorite(s, r)
<1>1. /\ s.queue \in Seq(Frames) /\ Len(s.queue) \in Nat
      /\ Len(r.queue) = Len(s.queue) + 1 /\ r.queue[Len(r.queue)] = f
      /\ \A i \in 1 .. Len(s.queue) : r.queue[i] = s.queue[i]
  BY DEF Sound, Typed
<1>2. /\ r.tiltType = s.tiltType /\ r.simMy = s.simMy /\ r.heard = s.heard
      /\ r.currentPos = s.currentPos /\ r.currentTiltPos = s.currentTiltPos
      /\ r.myPos = s.myPos /\ r.myTiltPos = s.myTiltPos
  <2>1. \A x \in Kept \ Sendings : r[x] = s[x]
    BY DEF Only, Kept, Sendings, Fields
  <2>2. QED
    BY <2>1 DEF Kept, Sendings
<1>3. OneFrameEach(r)
  <2>1. ASSUME NEW i \in 1 .. Len(r.queue), NEW j \in 1 .. Len(r.queue), r.queue[i].job = r.queue[j].job
        PROVE  i = j
    <3>1. CASE i \in 1 .. Len(s.queue) /\ j \in 1 .. Len(s.queue)
      BY <1>1, <2>1, <3>1 DEF Sound, OneFrameEach
    <3>2. CASE i \in 1 .. Len(s.queue) /\ j = Len(r.queue)
      BY <1>1, <2>1, <3>2
    <3>3. CASE i = Len(r.queue) /\ j \in 1 .. Len(s.queue)
      BY <1>1, <2>1, <3>3
    <3>4. QED
      BY <1>1, <3>1, <3>2, <3>3
  <2>2. ASSUME NEW i \in 1 .. Len(r.queue), NEW e \in r.heard PROVE e.job # r.queue[i].job
    BY <1>1, <1>2 DEF Sound, OneFrameEach
  <2>3. QED
    BY <2>1, <2>2 DEF OneFrameEach
<1>4. Sound(r)
  BY <1>2, <1>3 DEF Sound, FavoriteWhole, Down, Still
<1>5. QED
  BY <1>1, <1>2, <1>4 DEF KeepsFavorite

\* A frame is sent from where the shade is.
LEMMA SendFrameGives ==
  ASSUME NEW s, Sound(s), NEW cmd \in Commands, NEW length \in Lengths
  PROVE  LET r == SendFrame(s, cmd, length)
             f == [job |-> r.txWaitJob, remote |-> "shade", cmd |-> cmd, length |-> length]
         IN  /\ Sound(r) /\ r.txWaitJob # 0 /\ r.waited = 0 /\ Own(r)
             /\ r.moved = 0 /\ r.tilted = 0 /\ r.startPos = s.currentPos /\ r.startTiltPos = s.currentTiltPos
             /\ r.queue = Append(s.queue, f)
             /\ Len(r.queue) = Len(s.queue) + 1 /\ r.queue[Len(r.queue)].length = length
             /\ Only(Aims \cup Sendings, s, r)
             /\ s.tiltType = "tiltonly" => r.target = s.target
             /\ cmd \in {"Up", "Down", "My"} => r.target = s.target /\ r.tiltTarget = s.tiltTarget
             /\ s.tiltType = "none" => r.tiltTarget = s.tiltTarget
             /\ s.tiltType = "none" /\ cmd \in {"StepUp", "StepDown"} => r.target = StepTo(s, cmd)
             /\ KeepsFavorite(s, r)
<1> DEFINE r == SendFrame(s, cmd, length)
           job == NewJob(s)
           f == [job |-> job, remote |-> "shade", cmd |-> cmd, length |-> length]
<1>1. /\ job \in JobIds
      /\ \A i \in 1 .. Len(s.queue) : s.queue[i].job # job
      /\ \A e \in s.heard : e.job # job
  BY FreshJob DEF Sound
<1>2. /\ Typed(r) /\ r.txWaitJob = job /\ r.waited = 0 /\ Own(r)
      /\ r.queue = Append(s.queue, f)
      /\ r.moved = 0 /\ r.tilted = 0 /\ r.startPos = s.currentPos /\ r.startTiltPos = s.currentTiltPos
      /\ Only(Aims \cup Sendings, s, r)
      /\ s.tiltType = "tiltonly" => r.target = s.target
      /\ cmd \in {"Up", "Down", "My"} => r.target = s.target /\ r.tiltTarget = s.tiltTarget
      /\ s.tiltType = "none" => r.tiltTarget = s.tiltTarget
      /\ s.tiltType = "none" /\ cmd \in {"StepUp", "StepDown"} => r.target = StepTo(s, cmd)
  BY SendFrameIs DEF Sound
<1>3. job # 0 /\ f.job = job /\ f.length = length /\ (Aims \cup Sendings) \cap (Kept \ Sendings) = {}
  BY <1>1 DEF JobIds, Aims, Sendings, Kept
<1>4. r.queue = Append(s.queue, [job |-> r.txWaitJob, remote |-> "shade", cmd |-> cmd, length |-> length])
  BY <1>2 DEF f
<1> HIDE DEF r, job, f
<1>5. /\ Sound(r) /\ Len(r.queue) = Len(s.queue) + 1 /\ r.queue[Len(r.queue)] = f
      /\ KeepsFavorite(s, r)
  BY <1>1, <1>2, <1>3, QueuedSound
<1>6. QED
  BY <1>2, <1>3, <1>4, <1>5 DEF r

LEMMA SendFrameSound ==
  ASSUME NEW s, Sound(s), NEW cmd \in Commands, NEW length \in Lengths
  PROVE  LET r == SendFrame(s, cmd, length)
         IN  /\ Sound(r) /\ r.txWaitJob # 0 /\ Own(r) /\ r.moved = 0 /\ r.tilted = 0
             /\ Len(r.queue) = Len(s.queue) + 1 /\ r.queue[Len(r.queue)].length = length
             /\ Only(Aims \cup Sendings, s, r)
             /\ s.tiltType = "tiltonly" => r.target = s.target
             /\ cmd \in {"Up", "Down", "My"} => r.target = s.target /\ r.tiltTarget = s.tiltTarget
             /\ KeepsFavorite(s, r)
<1> DEFINE r == SendFrame(s, cmd, length)
<1>1. Sound(r) /\ r.txWaitJob # 0 /\ Own(r) /\ r.moved = 0 /\ r.tilted = 0
  BY SendFrameGives, ZenonT(60)
<1>2. Len(r.queue) = Len(s.queue) + 1 /\ r.queue[Len(r.queue)].length = length
  BY SendFrameGives, ZenonT(60)
<1>3. Only(Aims \cup Sendings, s, r)
  BY SendFrameGives, ZenonT(60)
<1>4. s.tiltType = "tiltonly" => r.target = s.target
  BY SendFrameGives, ZenonT(60)
<1>5. cmd \in {"Up", "Down", "My"} => r.target = s.target /\ r.tiltTarget = s.tiltTarget
  BY SendFrameGives, ZenonT(60)
<1>6. KeepsFavorite(s, r)
  BY SendFrameGives, ZenonT(60)
<1> HIDE DEF r
<1>7. QED
  BY <1>1, <1>2, <1>3, <1>4, <1>5, <1>6 DEF r

-----------------------------------------------------------------------------
(* Orders.                                                                 *)

\* A tilt order to where the tilt is, or under way with a lift, sends nothing.
LEMMA MoveToTiltTargetIs ==
  ASSUME NEW s, Sound(s), NEW t \in Tilts
  PROVE  LET r == MoveToTiltTarget(s, t)
             moves == t # s.currentTiltPos /\ (s.currentPos = s.target \/ s.tiltType = "tiltmotor")
         IN  /\ Sound(r) /\ KeepsFavorite(s, r)
             /\ Only({"tiltTarget", "settingTiltPos"} \cup Aims \cup Sendings, s, r)
             /\ moves => r.txWaitJob # 0 /\ Own(r) /\ r.moved = 0 /\ r.tilted = 0
             /\ ~moves => Only({"tiltTarget", "settingTiltPos"}, s, r)
             /\ t = s.currentTiltPos => r.settingTiltPos = s.settingTiltPos
             /\ r.target = s.target /\ r.tiltTarget = t
<1> DEFINE cmd == IF t < s.currentTiltPos THEN "Up" ELSE "Down"
           length == IF s.tiltType = "tiltmotor" THEN "tilt" ELSE "short"
           needed == t # s.currentTiltPos
           moves == needed /\ (s.currentPos = s.target \/ s.tiltType = "tiltmotor")
           sent == IF moves THEN SendFrame(s, cmd, length) ELSE s
           r == [sent EXCEPT !.tiltTarget = t, !.settingTiltPos = @ \/ needed]
<1>1. MoveToTiltTarget(s, t) = r
  BY DEF MoveToTiltTarget
<1>2. cmd \in {"Up", "Down", "My"} /\ cmd \in Commands /\ length \in Lengths
  BY DEF Commands, Lengths
<1>3. /\ Sound(sent) /\ KeepsFavorite(s, sent) /\ sent.target = s.target
      /\ Only(Aims \cup Sendings, s, sent)
      /\ moves => sent.txWaitJob # 0 /\ Own(sent) /\ sent.moved = 0 /\ sent.tilted = 0
      /\ ~moves => sent = s
  <2>1. CASE moves
    <3> HIDE DEF cmd, length
    <3>1. QED
      BY <1>2, <2>1, SendFrameSound, ZenonT(60)
  <2>2. CASE ~moves
    BY <2>2 DEF KeepsFavorite, Only, Sound, Typed
  <2>3. QED
    BY <2>1, <2>2
<1> HIDE DEF sent, cmd, length
<1>4. /\ Typed(r) /\ Only({"tiltTarget", "settingTiltPos"}, sent, r) /\ r.tiltTarget = t
      /\ r.settingTiltPos = (sent.settingTiltPos \/ needed)
  BY <1>3 DEF Sound, Typed, Only, Fields
<1> HIDE DEF r, needed
<1>5. r.target = sent.target /\ r.tiltType = sent.tiltType
  BY <1>4 DEF Only, Fields
<1>6. Sound(r) /\ KeepsFavorite(sent, r)
  <2>1. {"tiltTarget", "settingTiltPos"} \cap Kept = {}
    BY DEF Kept
  <2>2. sent.tiltType = "tiltonly" => r.target = Full
    BY <1>3, <1>5 DEF Sound, Down
  <2>3. QED
    BY <1>3, <1>4, <2>1, <2>2, StaysSound
<1>7. KeepsFavorite(s, r)
  BY <1>3, <1>6 DEF KeepsFavorite
<1>8. Only({"tiltTarget", "settingTiltPos"} \cup Aims \cup Sendings, s, r)
  BY <1>3, <1>4 DEF Only
<1>9. moves => r.txWaitJob # 0 /\ Own(r) /\ r.moved = 0 /\ r.tilted = 0
  BY <1>3, <1>4 DEF Only, Fields, Own
<1>10. ~moves => Only({"tiltTarget", "settingTiltPos"}, s, r)
  BY <1>3, <1>4
<1>11. t = s.currentTiltPos => r.settingTiltPos = s.settingTiltPos
  BY <1>3, <1>4 DEF needed, Sound, Typed
<1>12. QED
  BY <1>1, <1>3, <1>4, <1>5, <1>6, <1>7, <1>8, <1>9, <1>10, <1>11 DEF needed


\* An order to where the shade is sends nothing.
LEMMA MoveToTargetIs ==
  ASSUME NEW s0, Sound(s0), NEW p0, s0.tiltType = "tiltonly" \/ p0 \in Positions, NEW t \in Tilts \cup {NoPos}
  PROVE  LET r == MoveToTarget(s0, p0, t)
             moves == IF s0.tiltType = "tiltonly" THEN t # s0.currentTiltPos
                      ELSE p0 # s0.currentPos \/ (t # NoPos /\ t # s0.currentTiltPos)
         IN  /\ Sound(r) /\ KeepsFavorite(s0, r) /\ r.settingMyPos = s0.settingMyPos /\ r.pendingCmd = s0.pendingCmd
             /\ moves => r.txWaitJob # 0 /\ Own(r)
             /\ ~moves => Only({"myPos"}, s0, r)
<1> DEFINE tiltOnly == s0.tiltType = "tiltonly"
           s == IF tiltOnly THEN [s0 EXCEPT !.target = Full, !.myPos = NoPos, !.currentPos = Full] ELSE s0
           p == IF tiltOnly THEN Full ELSE p0
           dir == CASE ~tiltOnly /\ p # s.currentPos -> Toward(s.currentPos, p)
                    [] tiltOnly \/ (p = s.currentPos /\ t # NoPos) -> Toward(s.currentTiltPos, t)
                    [] OTHER -> 0
           cmd == IF dir < 0 THEN "Up" ELSE "Down"
           length == IF s.tiltType = "euromode" THEN "tilt" ELSE "short"
           sent == SendFrame(s, cmd, length)
           aimed == [sent EXCEPT !.settingPos = TRUE, !.target = p,
                                 !.tiltTarget = IF t = NoPos THEN @ ELSE t,
                                 !.settingTiltPos = @ \/ t # NoPos]
           moves == IF tiltOnly THEN t # s0.currentTiltPos
                    ELSE p0 # s0.currentPos \/ (t # NoPos /\ t # s0.currentTiltPos)
<1>1. MoveToTarget(s0, p0, t) = IF dir = 0 THEN s ELSE aimed
  BY DEF MoveToTarget
<1>2. p \in Positions /\ (tiltOnly => p = Full)
  BY Ranges
<1>3. /\ Typed(s) /\ Only({"myPos"}, s0, s) /\ (tiltOnly => s.myPos = NoPos)
      /\ s.tiltType = s0.tiltType /\ s.currentPos = s0.currentPos /\ s.currentTiltPos = s0.currentTiltPos
      /\ s.settingMyPos = s0.settingMyPos /\ s.pendingCmd = s0.pendingCmd
  <2>1. CASE tiltOnly
    BY <2>1, Ranges DEF Sound, Down, Typed, Only, Fields
  <2>2. CASE ~tiltOnly
    BY <2>2 DEF Sound, Typed, Only
  <2>3. QED
    BY <2>1, <2>2
<1>4. dir = 0 <=> ~moves
  <2>1. /\ s0.currentPos \in Nat /\ s0.currentTiltPos \in Nat /\ p \in Nat /\ t \in Int /\ NoPos = -1
    <3>1. Positions \subseteq Nat /\ Tilts \subseteq Nat /\ NoPos = -1
      BY Ranges DEF Positions, Tilts, NoPos
    <3> HIDE DEF p
    <3>2. s0.currentPos \in Positions /\ s0.currentTiltPos \in Tilts /\ p \in Positions
      BY <1>2 DEF Sound, Typed
    <3>3. s0.currentPos \in Nat /\ s0.currentTiltPos \in Nat /\ p \in Nat
      BY <3>1, <3>2
    <3>4. t \in Tilts \/ t = NoPos
      OBVIOUS
    <3>5. t \in Int
      BY <3>1, <3>4 DEF NoPos
    <3>6. QED
      BY <3>1, <3>3, <3>5
  <2>2. \A x, y \in Int : Toward(x, y) \in Int /\ (Toward(x, y) = 0 <=> x = y)
    BY DEF Toward
  <2> HIDE DEF s
  <2>3. CASE tiltOnly
    <3>1. dir = Toward(s.currentTiltPos, t)
      BY <2>3
    <3>2. QED
      BY <1>3, <2>1, <2>2, <2>3, <3>1
  <2>4. CASE ~tiltOnly /\ p # s.currentPos
    <3>1. dir = Toward(s.currentPos, p)
      BY <2>4
    <3>2. QED
      BY <1>3, <2>1, <2>2, <2>4, <3>1
  <2>5. CASE ~tiltOnly /\ p = s.currentPos /\ t # NoPos
    <3>1. dir = Toward(s.currentTiltPos, t)
      BY <2>5
    <3>2. QED
      BY <1>3, <2>1, <2>2, <2>5, <3>1
  <2>6. CASE ~tiltOnly /\ p = s.currentPos /\ t = NoPos
    <3>1. dir = 0
      BY <2>6
    <3>2. QED
      BY <1>3, <2>1, <2>6, <3>1
  <2>7. QED
    BY <2>3, <2>4, <2>5, <2>6
<1>5. Sound(s) /\ KeepsFavorite(s0, s)
  <2>1. s.startPos = s0.startPos /\ s.startTiltPos = s0.startTiltPos /\ s.txWaitJob = s0.txWaitJob
        /\ s.queue = s0.queue /\ s.heard = s0.heard /\ s.simMy = s0.simMy /\ s.target = s0.target
        /\ s.myTiltPos = s0.myTiltPos
    BY <1>3 DEF Only, Fields
  <2>2. ~tiltOnly => s.myPos = s0.myPos
    OBVIOUS
  <2> HIDE DEF s
  <2>3. QED
    BY <1>3, <2>1, <2>2 DEF Sound, FavoriteWhole, Down, Still, OneFrameEach, KeepsFavorite
<1> HIDE DEF s
<1>6. /\ cmd \in Commands /\ cmd \in {"Up", "Down", "My"} /\ length \in Lengths
  BY DEF Commands, Lengths
<1> HIDE DEF dir, cmd, length
<1>7. /\ Sound(sent) /\ KeepsFavorite(s, sent) /\ sent.txWaitJob # 0 /\ Own(sent)
      /\ sent.settingMyPos = s.settingMyPos /\ sent.pendingCmd = s.pendingCmd /\ sent.tiltType = s.tiltType
  BY <1>5, <1>6, SendFrameSound DEF Only, Fields, Aims, Sendings, KeepsFavorite
<1> HIDE DEF sent
<1>8. /\ Typed(aimed) /\ Only(Aims \cup {"settingPos", "settingTiltPos"}, sent, aimed)
      /\ aimed.target = p
  BY <1>2, <1>7, ZenonT(60) DEF Sound, Typed, Only, Fields, Aims
<1> HIDE DEF aimed, p
<1>9. Sound(aimed) /\ KeepsFavorite(sent, aimed)
  <2>1. (Aims \cup {"settingPos", "settingTiltPos"}) \cap Kept = {}
    BY DEF Kept, Aims
  <2>2. sent.tiltType = "tiltonly" => aimed.target = Full
    BY <1>2, <1>3, <1>7, <1>8
  <2>3. QED
    BY <1>7, <1>8, <2>1, <2>2, StaysSound
<1>10. /\ KeepsFavorite(s0, aimed) /\ aimed.settingMyPos = s0.settingMyPos /\ aimed.pendingCmd = s0.pendingCmd
       /\ aimed.txWaitJob # 0 /\ Own(aimed)
  BY <1>3, <1>5, <1>7, <1>8, <1>9 DEF KeepsFavorite, Only, Fields, Aims, Own
<1>11. QED
  BY <1>1, <1>3, <1>4, <1>5, <1>9, <1>10


LEMMA ToFavoriteIs ==
  ASSUME NEW s, Sound(s)
  PROVE  LET r == ToFavorite(s) IN Sound(r) /\ KeepsFavorite(s, r) /\ Only(Aims, s, r)
<1> DEFINE r == ToFavorite(s)
<1>1. /\ s.myTiltPos # NoPos => s.myTiltPos \in Tilts
      /\ s.myPos # NoPos => s.myPos \in Positions
  BY DEF Sound, Typed
<1>2. Typed(r) /\ Only(Aims, s, r) /\ (s.tiltType = "tiltonly" => r.target = s.target)
  BY <1>1 DEF Sound, Typed, ToFavorite, Only, Fields, Aims
<1>3. Aims \cap Kept = {} /\ (s.tiltType = "tiltonly" => s.target = Full)
  BY DEF Aims, Kept, Sound, Down
<1> HIDE DEF r
<1>4. Sound(r) /\ KeepsFavorite(s, r)
  BY <1>2, <1>3, StaysSound
<1>5. QED
  BY <1>2, <1>4 DEF r

\* An idle shade goes to its favourite by a frame, unless it is there or has none.
LEMMA MoveToMyPositionIs ==
  ASSUME NEW s0, Sound(s0)
  PROVE  LET r == MoveToMyPosition(s0)
             tiltOnly == s0.tiltType = "tiltonly"
             elsewhere == \/ ~tiltOnly /\ s0.myPos # NoPos /\ s0.currentPos # s0.myPos
                          \/ /\ s0.tiltType # "none" /\ s0.myTiltPos # NoPos
                             /\ s0.currentTiltPos # s0.myTiltPos
         IN  /\ Sound(r) /\ KeepsFavorite(s0, r) /\ r.settingMyPos = s0.settingMyPos /\ r.pendingCmd = s0.pendingCmd
             /\ ~IsIdle(s0) => r = s0
             /\ \/ r.txWaitJob # 0 /\ Own(r)
                \/ /\ Only({"myPos", "settingPos"} \cup Aims, s0, r) /\ (r.settingPos => s0.settingPos)
                   /\ ~(IsIdle(s0) /\ elsewhere)
<1> DEFINE tiltOnly == s0.tiltType = "tiltonly"
           s == IF tiltOnly THEN [s0 EXCEPT !.currentPos = Full, !.myPos = NoPos] ELSE s0
           there == s.currentPos = s.myPos /\ (s.tiltType # "none" => s.currentTiltPos = s.myTiltPos)
           unknown == s.myPos = NoPos /\ (s.tiltType = "none" \/ s.myTiltPos = NoPos)
           aimed == [ToFavorite(s) EXCEPT !.settingPos = FALSE]
           sim == MoveToTarget(aimed, s.myPos, s.myTiltPos)
           sent == SendFrame(aimed, "My", "short")
           r == MoveToMyPosition(s0)
           elsewhere == \/ ~tiltOnly /\ s0.myPos # NoPos /\ s0.currentPos # s0.myPos
                        \/ /\ s0.tiltType # "none" /\ s0.myTiltPos # NoPos
                           /\ s0.currentTiltPos # s0.myTiltPos
           rests(q) == Only({"myPos", "settingPos"} \cup Aims, s0, q) /\ (q.settingPos => s0.settingPos)
<1>1. \/ ~IsIdle(s0) /\ r = s0
      \/ IsIdle(s0) /\ (there \/ unknown) /\ r = s
      \/ IsIdle(s0) /\ ~there /\ ~unknown /\ s.simMy /\ r = sim
      \/ IsIdle(s0) /\ ~there /\ ~unknown /\ ~s.simMy /\ r = sent
  BY DEF MoveToMyPosition
<1> HIDE DEF r
<1>2. /\ Typed(s) /\ Only({"myPos"}, s0, s) /\ s.tiltType = s0.tiltType
      /\ (tiltOnly => s.myPos = NoPos) /\ (~tiltOnly => s.myPos = s0.myPos)
      /\ s.currentPos = s0.currentPos
  <2>1. CASE tiltOnly
    BY <2>1, Ranges DEF Sound, Down, Typed, Only, Fields
  <2>2. CASE ~tiltOnly
    BY <2>2 DEF Sound, Typed, Only
  <2>3. QED
    BY <2>1, <2>2
<1> HIDE DEF s
<1>3. /\ s.startPos = s0.startPos /\ s.startTiltPos = s0.startTiltPos /\ s.txWaitJob = s0.txWaitJob
      /\ s.queue = s0.queue /\ s.heard = s0.heard /\ s.simMy = s0.simMy /\ s.target = s0.target
      /\ s.myTiltPos = s0.myTiltPos /\ s.currentTiltPos = s0.currentTiltPos
      /\ s.settingPos = s0.settingPos /\ s.settingMyPos = s0.settingMyPos /\ s.pendingCmd = s0.pendingCmd
  BY <1>2 DEF Only, Fields
<1>4. Sound(s) /\ KeepsFavorite(s0, s) /\ rests(s)
  <2>1. Sound(s) /\ KeepsFavorite(s0, s)
    BY <1>2, <1>3 DEF Sound, FavoriteWhole, Down, Still, OneFrameEach, KeepsFavorite
  <2>2. rests(s)
    BY <1>2, <1>3 DEF Only
  <2>3. QED
    BY <2>1, <2>2
<1>5. /\ Sound(aimed) /\ KeepsFavorite(s, aimed) /\ Only({"settingPos"} \cup Aims, s, aimed)
      /\ ~aimed.settingPos
  <2> DEFINE goal == ToFavorite(s)
  <2>1. Sound(goal) /\ KeepsFavorite(s, goal) /\ Only(Aims, s, goal)
    BY <1>4, ToFavoriteIs
  <2> HIDE DEF goal
  <2>2. aimed = [goal EXCEPT !.settingPos = FALSE]
    BY DEF goal
  <2> HIDE DEF aimed
  <2>3. Typed(aimed) /\ Only({"settingPos"}, goal, aimed) /\ ~aimed.settingPos /\ aimed.target = goal.target
    BY <2>1, <2>2 DEF Sound, Typed, Only, Fields
  <2>4. {"settingPos"} \cap Kept = {} /\ (goal.tiltType = "tiltonly" => goal.target = Full)
    BY <2>1 DEF Kept, Sound, Down
  <2>5. Sound(aimed) /\ KeepsFavorite(goal, aimed)
    BY <2>1, <2>3, <2>4, StaysSound
  <2>6. QED
    BY <2>1, <2>3, <2>5 DEF KeepsFavorite, Only
<1> HIDE DEF aimed
<1>6. /\ aimed.tiltType = s0.tiltType /\ aimed.myPos = s.myPos /\ aimed.myTiltPos = s.myTiltPos
      /\ aimed.currentPos = s.currentPos /\ aimed.currentTiltPos = s.currentTiltPos
      /\ aimed.settingMyPos = s.settingMyPos /\ aimed.pendingCmd = s.pendingCmd
  BY <1>2, <1>5 DEF Only, Fields, Aims
<1>7. elsewhere => ~there /\ ~unknown
  <2>1. s0.currentPos # NoPos
    BY Ranges DEF Sound, Typed, Positions, NoPos
  <2>2. QED
    BY <1>2, <1>3, <2>1 DEF Sound, FavoriteWhole
<1>8. ASSUME r = sent, ~unknown PROVE Sound(r) /\ KeepsFavorite(s0, r) /\ r.settingMyPos = s0.settingMyPos /\ r.pendingCmd = s0.pendingCmd
                            /\ r.txWaitJob # 0 /\ Own(r)
  <2>1. "My" \in Commands /\ "short" \in Lengths
    BY DEF Commands, Lengths
  <2>2. /\ Sound(sent) /\ KeepsFavorite(aimed, sent) /\ sent.txWaitJob # 0 /\ Own(sent)
        /\ Only(Aims \cup Sendings, aimed, sent)
    BY <1>5, <2>1, SendFrameSound
  <2> HIDE DEF sent
  <2>3. sent.settingMyPos = s0.settingMyPos /\ sent.pendingCmd = s0.pendingCmd
    BY <1>3, <1>6, <2>2 DEF Only, Fields, Aims, Sendings
  <2>4. QED
    BY <1>4, <1>5, <1>8, <2>2, <2>3 DEF KeepsFavorite
<1>9. ASSUME r = sim, ~there, ~unknown
      PROVE  /\ Sound(r) /\ KeepsFavorite(s0, r) /\ r.settingMyPos = s0.settingMyPos /\ r.pendingCmd = s0.pendingCmd
             /\ \/ r.txWaitJob # 0 /\ Own(r)
                \/ rests(r) /\ ~elsewhere
  <2> DEFINE moves == IF aimed.tiltType = "tiltonly" THEN s.myTiltPos # aimed.currentTiltPos
                      ELSE s.myPos # aimed.currentPos \/ (s.myTiltPos # NoPos /\ s.myTiltPos # aimed.currentTiltPos)
  <2>1. s.myTiltPos \in Tilts \cup {NoPos}
    BY <1>4 DEF Sound, Typed
  <2>2. aimed.tiltType = "tiltonly" \/ s.myPos \in Positions
    BY <1>2, <1>4, <1>6, <1>9 DEF Sound, Typed, FavoriteWhole
  <2>3. /\ Sound(sim) /\ KeepsFavorite(aimed, sim) /\ sim.settingMyPos = aimed.settingMyPos /\ sim.pendingCmd = aimed.pendingCmd
        /\ moves => sim.txWaitJob # 0 /\ Own(sim)
        /\ ~moves => Only({"myPos"}, aimed, sim)
    BY <1>5, <2>1, <2>2, MoveToTargetIs
  <2> HIDE DEF sim
  <2>4. elsewhere => moves
    BY <1>2, <1>3, <1>6
  <2> HIDE DEF moves
  <2>5. ~moves => rests(sim)
    BY <1>2, <1>5, <2>3 DEF Only, Fields, Aims
  <2>6. Sound(r) /\ KeepsFavorite(s0, r) /\ r.settingMyPos = s0.settingMyPos /\ r.pendingCmd = s0.pendingCmd
    BY <1>3, <1>4, <1>5, <1>6, <1>9, <2>3 DEF KeepsFavorite
  <2>7. QED
    BY <1>9, <2>3, <2>4, <2>5, <2>6
<1>10. KeepsFavorite(s0, s0) /\ rests(s0)
  BY DEF KeepsFavorite, Only, Sound, Typed
<1> HIDE DEF sim, sent, rests, there, unknown, elsewhere
<1>11. ~IsIdle(s0) => r = s0
  BY <1>1
<1>12. Sound(r) /\ KeepsFavorite(s0, r) /\ r.settingMyPos = s0.settingMyPos /\ r.pendingCmd = s0.pendingCmd
  BY <1>1, <1>3, <1>4, <1>8, <1>9, <1>10
<1>13. (r.txWaitJob # 0 /\ Own(r)) \/ (rests(r) /\ ~(IsIdle(s0) /\ elsewhere))
  BY <1>1, <1>4, <1>7, <1>8, <1>9, <1>10
<1>14. QED
  BY <1>11, <1>12, <1>13 DEF r, rests, elsewhere


LEMMA SupersedingIs ==
  ASSUME NEW s0, Sound(s0)
  PROVE  LET s == Superseding(s0)
         IN  /\ Sound(s) /\ KeepsFavorite(s0, s) /\ Only({"settingPos", "settingMyPos"}, s0, s)
             /\ ~s.settingMyPos /\ ~s.settingPos /\ (Ended(s0) => Ended(s))
<1> DEFINE s == Superseding(s0)
<1>1. /\ Typed(s) /\ Only({"settingPos", "settingMyPos"}, s0, s)
      /\ ~s.settingMyPos /\ ~s.settingPos /\ s.target = s0.target
  BY DEF Superseding, Sound, Typed, Only, Fields
<1>2. {"settingPos", "settingMyPos"} \cap Kept = {} /\ (s0.tiltType = "tiltonly" => s0.target = Full)
  BY DEF Kept, Sound, Down
<1> HIDE DEF s
<1>3. Sound(s) /\ KeepsFavorite(s0, s)
  BY <1>1, <1>2, StaysSound
<1>4. Ended(s0) => Ended(s)
  BY <1>1 DEF Ended, Calm, Only, Fields, Own
<1>5. QED
  BY <1>1, <1>3, <1>4 DEF s

\* An order of which a frame is sent, then aimed at.
LEMMA AimedAfter ==
  ASSUME NEW s, Sound(s), NEW sent, Sound(sent), KeepsFavorite(s, sent), NEW r, Typed(r), Only(Aims, sent, r),
         s.tiltType = "tiltonly" => r.target = Full
  PROVE  Sound(r) /\ KeepsFavorite(s, r)
<1>1. Aims \cap Kept = {} /\ sent.tiltType = s.tiltType
  BY DEF Kept, Aims, KeepsFavorite
<1>2. Sound(r) /\ KeepsFavorite(sent, r)
  BY <1>1, StaysSound
<1>3. QED
  BY <1>2 DEF KeepsFavorite

LEMMA SendCommandIs ==
  ASSUME NEW s0, Sound(s0), NEW cmd \in Commands
  PROVE  LET r == SendCommand(s0, cmd)
         IN  Sound(r) /\ KeepsFavorite(s0, r) /\ ~r.settingMyPos /\ (Ended(s0) => Ended(r))
<1> DEFINE s == Superseding(s0)
           up == cmd = "Up"
           length == IF s.tiltType = "euromode" /\ cmd \in {"Up", "Down"} THEN "tilt" ELSE "short"
           sent == SendFrame(s, cmd, length)
           r == SendCommand(s0, cmd)
           driven == [sent EXCEPT !.target = IF s.tiltType = "tiltonly" \/ ~up THEN Full ELSE 0,
                                  !.currentPos = IF s.tiltType = "tiltonly" THEN Full ELSE @,
                                  !.tiltTarget = IF s.tiltType \in {"tiltonly", "integrated"}
                                                 THEN (IF up THEN 0 ELSE TiltFull) ELSE @]
           stopped == [sent EXCEPT !.target = IF s.tiltType = "tiltonly" THEN @ ELSE sent.currentPos,
                                   !.tiltTarget = sent.currentTiltPos]
<1>1. \/ r = driven
      \/ r = MoveToMyPosition(s)
      \/ r = stopped
      \/ r = sent
  BY DEF SendCommand
<1>2. Sound(s) /\ KeepsFavorite(s0, s) /\ ~s.settingMyPos /\ (Ended(s0) => Ended(s))
  BY SupersedingIs
<1> HIDE DEF s, r
<1>3. length \in Lengths
  BY DEF Lengths
<1> HIDE DEF length
<1>4. /\ Sound(sent) /\ KeepsFavorite(s, sent) /\ Own(sent) /\ ~sent.settingMyPos
      /\ sent.tiltType = s.tiltType
  BY <1>2, <1>3, SendFrameSound DEF Only, Fields, Aims, Sendings, KeepsFavorite
<1> HIDE DEF sent
<1>5. /\ Typed(driven) /\ Only(Aims, sent, driven)
      /\ s.tiltType = "tiltonly" => driven.target = Full
  BY <1>4, Ranges, ZenonT(60) DEF Sound, Down, Typed, Only, Fields, Aims
<1>6. /\ Typed(stopped) /\ Only(Aims, sent, stopped)
      /\ s.tiltType = "tiltonly" => stopped.target = Full
  BY <1>4 DEF Sound, Down, Typed, Only, Fields, Aims
<1> HIDE DEF driven, stopped
<1>7. CASE r = driven \/ r = stopped
  <2>1. Typed(r) /\ Only(Aims, sent, r) /\ (s.tiltType = "tiltonly" => r.target = Full)
    BY <1>5, <1>6, <1>7
  <2>2. Sound(r) /\ KeepsFavorite(s, r)
    BY <1>2, <1>4, <2>1, AimedAfter
  <2>3. ~r.settingMyPos /\ Own(r)
    BY <1>4, <2>1 DEF Only, Fields, Aims, Own
  <2>4. QED
    BY <1>2, <2>2, <2>3 DEF KeepsFavorite, Ended, r
<1>8. CASE r = sent
  BY <1>2, <1>4, <1>8 DEF KeepsFavorite, Ended, r
<1>9. CASE r = MoveToMyPosition(s)
  <2>1. /\ Sound(r) /\ KeepsFavorite(s, r) /\ r.settingMyPos = s.settingMyPos
        /\ \/ Own(r)
           \/ Only({"myPos", "settingPos"} \cup Aims, s, r) /\ (r.settingPos => s.settingPos)
    BY <1>2, <1>9, MoveToMyPositionIs
  <2>2. Ended(s) => Ended(r)
    BY <2>1 DEF Ended, Calm, Only, Fields, Aims, Own
  <2>3. QED
    BY <1>2, <2>1, <2>2 DEF KeepsFavorite, r
<1>10. QED
  BY <1>1, <1>7, <1>8, <1>9

LEMMA SendTiltCommandIs ==
  ASSUME NEW s, Sound(s), NEW cmd \in {"Up", "Down"}
  PROVE  LET r == SendTiltCommand(s, cmd)
         IN  /\ Sound(r) /\ KeepsFavorite(s, r) /\ Own(r) /\ r.txWaitJob # 0
             /\ r.settingMyPos = s.settingMyPos
<1> DEFINE length == IF s.tiltType = "tiltmotor" THEN "tilt" ELSE "short"
           sent == SendFrame(s, cmd, length)
           end == IF cmd = "Up" THEN 0 ELSE TiltFull
           r == SendTiltCommand(s, cmd)
<1>1. r = [sent EXCEPT !.tiltTarget = end]
  BY DEF SendTiltCommand
<1> HIDE DEF r
<1>2. cmd \in Commands /\ length \in Lengths /\ end \in Tilts
  BY Ranges DEF Commands, Lengths
<1> HIDE DEF length, end
<1>3. /\ Sound(sent) /\ KeepsFavorite(s, sent) /\ Own(sent) /\ sent.txWaitJob # 0
      /\ sent.tiltType = s.tiltType /\ sent.settingMyPos = s.settingMyPos
  BY <1>2, SendFrameSound DEF KeepsFavorite, Only, Fields, Aims, Sendings
<1> HIDE DEF sent
<1>4. /\ Typed(r) /\ Only(Aims, sent, r) /\ r.target = sent.target
  BY <1>1, <1>2, <1>3 DEF Sound, Typed, Only, Fields, Aims
<1>5. Sound(r) /\ KeepsFavorite(s, r)
  BY <1>3, <1>4, AimedAfter DEF Sound, Down
<1>6. QED
  BY <1>3, <1>4, <1>5 DEF Only, Fields, Aims, r, Own


\* The shade's part of a group's order: it waits for the group's frame, so that
\* it is not idle when a My is looked at.
LEMMA GroupCommandIs ==
  ASSUME NEW s0, Sound(s0), NEW cmd \in {"Up", "Down", "My"}
  PROVE  LET r == GroupCommand(s0, cmd)
         IN  /\ Sound(r) /\ KeepsFavorite(s0, r) /\ ~r.settingMyPos /\ r.txWaitJob # 0
             /\ Ended(s0) => Ended(r)
<1> DEFINE job == NewJob(s0)
           sup == Superseding(s0)
           f == [job |-> job, remote |-> "group", cmd |-> cmd, length |-> "short"]
           waiting == Append(sup.queue, f)
           s == [Rebase([sup EXCEPT !.queue = waiting]) EXCEPT !.txWaitJob = job, !.waited = 0]
           tiltOnly == s.tiltType = "tiltonly"
           r == GroupCommand(s0, cmd)
           lift == [s EXCEPT !.target = IF cmd = "Up" THEN 0 ELSE Full]
           up == [s EXCEPT !.target = IF tiltOnly THEN Full ELSE 0, !.tiltTarget = 0,
                           !.currentPos = IF tiltOnly THEN Full ELSE @]
           down == [s EXCEPT !.target = Full, !.currentPos = IF tiltOnly THEN Full ELSE @,
                             !.tiltTarget = IF s.tiltType = "none" THEN @ ELSE TiltFull]
           stopped == [s EXCEPT !.target = IF tiltOnly THEN Full ELSE s.currentPos,
                                !.tiltTarget = s.currentTiltPos]
<1>1. /\ job \in JobIds
      /\ \A i \in 1 .. Len(s0.queue) : s0.queue[i].job # job
      /\ \A e \in s0.heard : e.job # job
  BY FreshJob DEF Sound
<1>2. /\ Sound(sup) /\ KeepsFavorite(s0, sup) /\ ~sup.settingMyPos /\ (Ended(s0) => Ended(sup))
      /\ sup.queue = s0.queue /\ sup.heard = s0.heard
  BY SupersedingIs DEF Only, Fields
<1>3. /\ \/ s.tiltType = "tiltmotor" /\ r = lift
         \/ r = up
         \/ r = down
         \/ IsIdle(s)
         \/ r = stopped
      /\ job \in JobIds
  BY <1>1 DEF GroupCommand, Queue
<1> HIDE DEF r, job, sup
<1>4. f \in Frames /\ f.job = job
  BY <1>3 DEF Frames, Commands, Lengths
<1> HIDE DEF f
<1>5. waiting \in Seq(Frames)
  BY <1>2, <1>4 DEF Sound, Typed
<1> HIDE DEF waiting
<1>6. /\ Typed(s) /\ Only(Sendings, sup, s) /\ s.queue = waiting /\ s.txWaitJob = job
      /\ s.startPos = sup.currentPos /\ s.startTiltPos = sup.currentTiltPos /\ s.lastFrame = sup.lastFrame
  <2>1. Typed(s)
    BY <1>1, <1>2, <1>5, Ranges DEF Sound, Typed, Fields, Rebase, JobIds
  <2>2. /\ Only(Sendings, sup, s) /\ s.queue = waiting /\ s.txWaitJob = job
        /\ s.startPos = sup.currentPos /\ s.startTiltPos = sup.currentTiltPos /\ s.lastFrame = sup.lastFrame
    BY <1>2 DEF Sound, Typed, Fields, Rebase, Only, Sendings
  <2>3. QED
    BY <2>1, <2>2
<1> HIDE DEF s
<1>7. s.target = sup.target /\ s.settingMyPos = sup.settingMyPos
  BY <1>6 DEF Only, Fields, Sendings
<1>8. Sound(s) /\ KeepsFavorite(sup, s)
  <2>1. Sendings \cap (Kept \ Sendings) = {}
    OBVIOUS
  <2>2. s.queue = Append(sup.queue, f)
    BY <1>6 DEF waiting
  <2>3. QED
    BY <1>1, <1>2, <1>4, <1>6, <1>7, <2>1, <2>2, QueuedSound
<1>9. ~IsIdle(s) /\ s.txWaitJob # 0
  BY <1>1, <1>6 DEF IsIdle, JobIds
<1>10. /\ s.tiltType = "tiltmotor" => Typed(lift) /\ Only(Aims, s, lift)
       /\ Typed(up) /\ Only(Aims, s, up) /\ (tiltOnly => up.target = Full)
  BY <1>8, Ranges, ZenonT(60) DEF Sound, Down, Typed, Only, Fields, Aims
<1>11. /\ Typed(down) /\ Only(Aims, s, down) /\ (tiltOnly => down.target = Full)
       /\ Typed(stopped) /\ Only(Aims, s, stopped) /\ (tiltOnly => stopped.target = Full)
  BY <1>8, Ranges, ZenonT(60) DEF Sound, Down, Typed, Only, Fields, Aims
<1> HIDE DEF lift, up, down, stopped
<1>12. Typed(r) /\ Only(Aims, s, r) /\ (tiltOnly => r.target = Full)
  BY <1>3, <1>9, <1>10, <1>11
<1>13. KeepsFavorite(s, s)
  BY DEF KeepsFavorite
<1>14. Sound(r) /\ KeepsFavorite(s, r)
  BY <1>8, <1>12, <1>13, AimedAfter
<1>15. ~r.settingMyPos /\ r.txWaitJob # 0
  BY <1>2, <1>7, <1>9, <1>12 DEF Only, Fields, Aims
<1>16. Ended(sup) => Ended(r)
  BY <1>6, <1>12 DEF Ended, Calm, Only, Fields, Aims, Sendings, Own
<1>17. QED
  BY <1>2, <1>8, <1>14, <1>15, <1>16 DEF r, KeepsFavorite


\* A favourite is recorded of an idle shade only, to which a frame is sent.
LEMMA SetMyPositionIs ==
  ASSUME NEW s0, Sound(s0), NEW p \in Positions,
         NEW t0 \in IF s0.tiltType = "none" THEN {NoPos} ELSE Tilts
  PROVE  LET r == SetMyPosition(s0, p, t0)
         IN  /\ Sound(r) /\ r.tiltType = s0.tiltType /\ r.simMy = s0.simMy
             /\ \/ ~IsIdle(s0) /\ r = s0
                \/ IsIdle(s0) /\ r.txWaitJob # 0 /\ Own(r)
<1> DEFINE tiltOnly == s0.tiltType = "tiltonly"
           lift == ~tiltOnly
           tilts == s0.tiltType # "none"
           t == CASE ~tilts -> NoPos [] tiltOnly -> t0 [] OTHER -> AtLeast(0, t0)
           s == IF tiltOnly THEN [s0 EXCEPT !.myPos = NoPos] ELSE s0
           here == (lift => p = s.currentPos) /\ (tilts => t = s.currentTiltPos)
           favorite == (lift => p = s.myPos) /\ (tilts => t = s.myTiltPos)
           setting == [s EXCEPT !.settingMyPos = TRUE]
           goal == IF lift THEN p ELSE Full
           short == SendFrame(s, "My", "short")
           long == SendFrame(s, "My", "set")
           cleared == [short EXCEPT !.settingPos = FALSE, !.settingMyPos = TRUE]
           recorded == [long EXCEPT !.myPos = IF lift THEN p ELSE @, !.myTiltPos = t]
           r == SetMyPosition(s0, p, t0)
<1>1. \/ ~IsIdle(s0) /\ r = s0
      \/ IsIdle(s0) /\ ~here /\ favorite /\ r = MoveToMyPosition(setting)
      \/ IsIdle(s0) /\ ~here /\ ~favorite /\ r = MoveToTarget(setting, goal, t)
      \/ IsIdle(s0) /\ here /\ favorite /\ r = cleared
      \/ IsIdle(s0) /\ here /\ ~favorite /\ r = recorded
  BY DEF SetMyPosition
<1> HIDE DEF r
<1>2. t \in Tilts \cup {NoPos} /\ (tilts => t \in Tilts) /\ (t \in Tilts => t # NoPos) /\ p # NoPos
  <2>1. Tilts = 0 .. TiltFull /\ Positions = 0 .. Full /\ NoPos = -1 /\ TiltFull \in Nat /\ Full \in Nat
    BY Ranges DEF Tilts, Positions, NoPos
  <2>2. t \in Tilts \cup {NoPos} /\ (tilts => t \in Tilts)
    BY <2>1 DEF AtLeast
  <2> HIDE DEF t
  <2>3. QED
    BY <2>1, <2>2
<1> HIDE DEF t
<1>3. /\ Typed(s) /\ Only({"myPos"}, s0, s) /\ (tiltOnly => s.myPos = NoPos) /\ (lift => s.myPos = s0.myPos)
  BY DEF Sound, Typed, Only, Fields
<1> HIDE DEF s
<1>4. /\ s.tiltType = s0.tiltType /\ s.simMy = s0.simMy /\ s.currentPos = s0.currentPos
      /\ s.currentTiltPos = s0.currentTiltPos /\ s.startPos = s0.startPos /\ s.startTiltPos = s0.startTiltPos
      /\ s.txWaitJob = s0.txWaitJob /\ s.queue = s0.queue /\ s.heard = s0.heard /\ s.target = s0.target
      /\ s.myTiltPos = s0.myTiltPos
      /\ IsIdle(s) <=> IsIdle(s0)
  BY <1>3 DEF Only, Fields, IsIdle, IsAtTarget
<1>5. Sound(s) /\ KeepsFavorite(s0, s)
  BY <1>3, <1>4 DEF Sound, FavoriteWhole, Down, Still, OneFrameEach, KeepsFavorite
<1>6. /\ Sound(setting) /\ KeepsFavorite(s, setting) /\ Only({"settingMyPos"}, s, setting)
  <2>1. Typed(setting) /\ Only({"settingMyPos"}, s, setting) /\ setting.target = s.target
    BY <1>5 DEF Sound, Typed, Only, Fields
  <2>2. {"settingMyPos"} \cap Kept = {}
    BY DEF Kept
  <2>3. s.tiltType = "tiltonly" => setting.target = Full
    BY <1>5, <2>1 DEF Sound, Down
  <2> HIDE DEF setting
  <2>4. QED
    BY <1>5, <2>1, <2>2, <2>3, StaysSound
<1> HIDE DEF setting
<1>7. /\ setting.tiltType = s0.tiltType /\ setting.currentPos = s.currentPos
      /\ setting.currentTiltPos = s.currentTiltPos
      /\ setting.myPos = s.myPos /\ setting.myTiltPos = s.myTiltPos
      /\ IsIdle(setting) <=> IsIdle(s0)
  BY <1>4, <1>6 DEF Only, Fields, IsIdle, IsAtTarget
<1>8. CASE ~IsIdle(s0) /\ r = s0
  BY <1>8 DEF KeepsFavorite, r
<1>9. CASE IsIdle(s0) /\ ~here /\ favorite /\ r = MoveToMyPosition(setting)
  <2>1. \/ setting.tiltType # "tiltonly" /\ setting.myPos # NoPos /\ setting.currentPos # setting.myPos
        \/ /\ setting.tiltType # "none" /\ setting.myTiltPos # NoPos
           /\ setting.currentTiltPos # setting.myTiltPos
    BY <1>2, <1>7, <1>9
  <2>2. Sound(r) /\ KeepsFavorite(setting, r) /\ r.txWaitJob # 0 /\ Own(r)
    BY <1>6, <1>7, <1>9, <2>1, MoveToMyPositionIs
  <2>3. QED
    BY <1>5, <1>6, <1>9, <2>2 DEF KeepsFavorite, r
<1>10. CASE IsIdle(s0) /\ ~here /\ ~favorite /\ r = MoveToTarget(setting, goal, t)
  <2>1. /\ setting.tiltType = "tiltonly" => t # setting.currentTiltPos
        /\ setting.tiltType # "tiltonly" =>
             goal # setting.currentPos \/ (t # NoPos /\ t # setting.currentTiltPos)
        /\ goal \in Positions
    BY <1>2, <1>7, <1>10, Ranges
  <2> HIDE DEF goal
  <2>2. Sound(r) /\ KeepsFavorite(setting, r) /\ r.txWaitJob # 0 /\ Own(r)
    BY <1>2, <1>6, <1>10, <2>1, MoveToTargetIs
  <2>3. QED
    BY <1>5, <1>6, <1>10, <2>2 DEF KeepsFavorite, r
<1>11. CASE IsIdle(s0) /\ here /\ favorite /\ r = cleared
  <2>1. "My" \in Commands /\ "short" \in Lengths
    BY DEF Commands, Lengths
  <2>2. /\ Sound(short) /\ KeepsFavorite(s, short) /\ short.txWaitJob # 0 /\ Own(short)
        /\ short.tiltType = s.tiltType
    BY <1>5, <2>1, SendFrameSound DEF KeepsFavorite
  <2> HIDE DEF short
  <2>3. /\ Typed(r) /\ Only({"settingPos", "settingMyPos"}, short, r) /\ r.target = short.target
    BY <1>11, <2>2 DEF Sound, Typed, Only, Fields
  <2>4. {"settingPos", "settingMyPos"} \cap Kept = {} /\ (short.tiltType = "tiltonly" => r.target = Full)
    BY <2>2, <2>3 DEF Kept, Sound, Down
  <2>5. Sound(r) /\ KeepsFavorite(short, r)
    BY <2>2, <2>3, <2>4, StaysSound
  <2>6. QED
    BY <1>5, <1>11, <2>2, <2>3, <2>5 DEF KeepsFavorite, Only, Fields, r, Own
<1>12. CASE IsIdle(s0) /\ here /\ ~favorite /\ r = recorded
  <2>1. "My" \in Commands /\ "set" \in Lengths
    BY DEF Commands, Lengths
  <2>2. /\ Sound(long) /\ long.txWaitJob # 0 /\ Own(long)
        /\ Only(Aims \cup Sendings, s, long)
    BY <1>5, <2>1, SendFrameSound
  <2> HIDE DEF long
  <2>3. /\ Typed(r) /\ Only({"myPos", "myTiltPos"}, long, r) /\ (lift => r.myPos = p)
    BY <1>2, <1>12, <2>2 DEF Sound, Typed, Only, Fields
  <2>4. /\ r.tiltType = s0.tiltType /\ r.simMy = s0.simMy /\ r.txWaitJob = long.txWaitJob
        /\ r.lastFrame = long.lastFrame
        /\ r.tiltType = long.tiltType /\ r.currentPos = long.currentPos /\ r.currentTiltPos = long.currentTiltPos
        /\ r.startPos = long.startPos /\ r.startTiltPos = long.startTiltPos /\ r.target = long.target
        /\ r.queue = long.queue /\ r.heard = long.heard
    BY <1>4, <2>2, <2>3 DEF Only, Fields, Aims, Sendings
  <2>5. Sound(r)
    BY <1>2, <2>2, <2>3, <2>4 DEF Sound, FavoriteWhole, Down, Still, OneFrameEach
  <2>6. QED
    BY <1>12, <2>2, <2>4, <2>5 DEF r, Own
<1>13. QED
  BY <1>1, <1>8, <1>9, <1>10, <1>11, <1>12


-----------------------------------------------------------------------------
(* The loop's pass.                                                        *)

\* A shade may be elsewhere, if it is where its wait for a command began.
LEMMA PlacedSound ==
  ASSUME NEW s, Sound(s), NEW r, Typed(r), Still(r), NEW changed, Only(changed, s, r),
         changed \cap {"tiltType", "simMy", "myPos", "myTiltPos", "queue", "heard"} = {},
         s.tiltType = "tiltonly" => r.currentPos = Full /\ r.target = Full
  PROVE  Sound(r) /\ KeepsFavorite(s, r)
<1>1. /\ r.tiltType = s.tiltType /\ r.simMy = s.simMy
      /\ r.myPos = s.myPos /\ r.myTiltPos = s.myTiltPos
      /\ r.queue = s.queue /\ r.heard = s.heard
  <2>1. \A f \in {"tiltType", "simMy", "myPos", "myTiltPos", "queue", "heard"} : r[f] = s[f]
    BY DEF Only, Fields
  <2>2. QED
    BY <2>1
<1>2. QED
  BY <1>1 DEF Sound, FavoriteWhole, Down, OneFrameEach, KeepsFavorite

LEMMA LastFrameIs ==
  ASSUME NEW s, Typed(s)
  PROVE  \A r \in {Processed(s), Await(s)} :
           /\ Typed(r) /\ Only({"lastFrame"}, s, r) /\ r.lastFrame.code = s.lastFrame.code
           /\ Own(s) => Own(r)
<1>1. ASSUME NEW f \in LastFrames, f.code = s.lastFrame.code, s.lastFrame.processed => f.processed
      PROVE  LET r == [s EXCEPT !.lastFrame = f]
             IN  /\ Typed(r) /\ Only({"lastFrame"}, s, r) /\ r.lastFrame.code = s.lastFrame.code
                 /\ Own(s) => Own(r)
  BY <1>1 DEF Typed, Only, Fields, Own
<1>2. s.lastFrame \in LastFrames /\ AwaitTime \in Nat
  BY Ranges DEF Typed
<1> DEFINE p == [s.lastFrame EXCEPT !.processed = TRUE]
           a == [s.lastFrame EXCEPT !.await = AwaitTime]
<1>3. /\ p \in LastFrames /\ p.code = s.lastFrame.code /\ p.processed
      /\ a \in LastFrames /\ a.code = s.lastFrame.code /\ a.processed = s.lastFrame.processed
  BY <1>2 DEF LastFrames
<1>4. Processed(s) = [s EXCEPT !.lastFrame = p] /\ Await(s) = [s EXCEPT !.lastFrame = a]
  BY DEF Processed, Await
<1> HIDE DEF p, a
<1>5. QED
  BY <1>1, <1>3, <1>4, ZenonT(60)

\* A remote's frame leaves nothing of what the shade was about.
LEMMA RemoteFrameIs ==
  ASSUME NEW s0, Sound(s0), NEW f, f.cmd \in Commands, f.code \in Nat
  PROVE  LET r == ProcessRemoteFrame(s0, f)
         IN  /\ Sound(r) /\ Calm(r) /\ r.txWaitJob = 0 /\ r.lastFrame.code = f.code
             /\ r.tiltType = s0.tiltType /\ r.simMy = s0.simMy
             /\ r.queue = s0.queue /\ r.heard = s0.heard /\ r.myPos = s0.myPos
<1> DEFINE repeat == s0.lastFrame.code = f.code /\ s0.lastFrame.cmd = f.cmd
           again == [s0.lastFrame EXCEPT !.repeats = @ + 1]
           fresh == [s0.lastFrame EXCEPT !.cmd = f.cmd, !.code = f.code, !.processed = FALSE, !.repeats = 0]
           frame == IF repeat THEN again ELSE fresh
           copied == IF repeat
                     THEN [s0 EXCEPT !.lastFrame.repeats = @ + 1]
                     ELSE [s0 EXCEPT !.lastFrame.cmd = f.cmd, !.lastFrame.code = f.code,
                                     !.lastFrame.processed = FALSE, !.lastFrame.repeats = 0]
           s == Aborted(Rebase(copied))
           p == Processed(s)
           r == ProcessRemoteFrame(s0, f)
<1>1. frame \in LastFrames /\ frame.code = f.code
  <2>1. s0.lastFrame \in LastFrames
    BY DEF Sound, Typed
  <2>2. again \in LastFrames /\ again.code = s0.lastFrame.code
    BY <2>1 DEF LastFrames
  <2>3. fresh \in LastFrames /\ fresh.code = f.code
    BY <2>1 DEF LastFrames
  <2>4. QED
    BY <2>2, <2>3
<1>2. copied = [s0 EXCEPT !.lastFrame = frame]
  OBVIOUS
<1> DEFINE up == [p EXCEPT !.tiltTarget = 0, !.target = IF s.tiltType = "tiltonly" THEN @ ELSE 0]
           down == [p EXCEPT !.target = IF s.tiltType = "tiltonly" THEN @ ELSE Full,
                             !.tiltTarget = IF s.tiltType = "none" THEN @ ELSE TiltFull]
           stop == [p EXCEPT !.target = IF s.tiltType = "tiltonly" THEN @ ELSE s.currentPos,
                             !.tiltTarget = s.currentTiltPos]
<1>3. r \in {Await(s), up, down, stop, Step(p, -1), Step(p, 1), s}
  BY DEF ProcessRemoteFrame
<1> HIDE DEF r, frame
<1>4. Typed(copied) /\ Only({"lastFrame"}, s0, copied) /\ copied.lastFrame.code = f.code
  <2> HIDE DEF copied
  <2>1. QED
    BY <1>1, <1>2 DEF Sound, Typed, Only, Fields
<1> HIDE DEF copied
<1> DEFINE cleared == {"moved", "tilted", "startPos", "startTiltPos", "txWaitJob", "waited", "pendingCmd",
                       "settingMyPos", "settingPos", "settingTiltPos"}
<1>5. /\ Typed(s) /\ Only(cleared, copied, s) /\ Calm(s) /\ s.txWaitJob = 0 /\ s.lastFrame = copied.lastFrame
  <2>1. Typed(s)
    BY <1>4, Ranges DEF Aborted, Rebase, Typed, Fields
  <2>2. Only(cleared, copied, s) /\ Calm(s) /\ s.txWaitJob = 0 /\ s.lastFrame = copied.lastFrame
    BY <1>4 DEF Aborted, Rebase, Typed, Fields, Only, Calm
  <2>3. QED
    BY <2>1, <2>2
<1> HIDE DEF s
<1>6. Only(cleared \cup {"lastFrame"}, s0, s) /\ s.lastFrame.code = f.code
  BY <1>4, <1>5 DEF Only
<1>7. /\ Sound(s) /\ s.tiltType = s0.tiltType /\ s.simMy = s0.simMy /\ s.queue = s0.queue /\ s.heard = s0.heard
      /\ s.myPos = s0.myPos
  <2>1. /\ s.tiltType = s0.tiltType /\ s.simMy = s0.simMy /\ s.queue = s0.queue /\ s.heard = s0.heard
        /\ s.currentPos = s0.currentPos /\ s.target = s0.target /\ s.myPos = s0.myPos
    BY <1>6 DEF Only, Fields
  <2>2. QED
    BY <1>5, <1>6, <2>1, PlacedSound DEF Sound, Down, Still
<1> HIDE DEF cleared
<1>8. /\ Typed(p) /\ Only({"lastFrame"}, s, p) /\ p.lastFrame.code = f.code
      /\ Typed(Await(s)) /\ Only({"lastFrame"}, s, Await(s)) /\ Await(s).lastFrame.code = f.code
  BY <1>5, <1>6, LastFrameIs
<1> HIDE DEF p
<1>9. \A q \in {up, down, stop, Step(p, -1), Step(p, 1)} :
        Typed(q) /\ Only(Aims, p, q) /\ (p.tiltType = "tiltonly" => q.target = p.target)
  <2>1. Typed(up) /\ Only(Aims, p, up) /\ (p.tiltType = "tiltonly" => up.target = p.target)
    BY <1>5, <1>8, Ranges DEF Typed, Only, Fields, Aims
  <2>2. Typed(down) /\ Only(Aims, p, down) /\ (p.tiltType = "tiltonly" => down.target = p.target)
    BY <1>5, <1>8, Ranges DEF Typed, Only, Fields, Aims
  <2>3. Typed(stop) /\ Only(Aims, p, stop) /\ (p.tiltType = "tiltonly" => stop.target = p.target)
    BY <1>5, <1>8, Ranges DEF Typed, Only, Fields, Aims
  <2>4. \A dir \in {-1, 1} : LET q == Step(p, dir) IN
           Typed(q) /\ Only(Aims, p, q) /\ (p.tiltType = "tiltonly" => q.target = p.target)
    BY <1>8, StepIs
  <2>5. QED
    BY <2>1, <2>2, <2>3, <2>4
<1> HIDE DEF up, down, stop
<1>10. /\ Typed(r) /\ Only(Aims \cup {"lastFrame"}, s, r) /\ r.lastFrame.code = f.code
       /\ s.tiltType = "tiltonly" => r.target = s.target
  <2>1. CASE r \in {Await(s), s}
    BY <1>5, <1>6, <1>8, <2>1 DEF Only, Fields, Typed, Aims
  <2>2. CASE r \in {up, down, stop, Step(p, -1), Step(p, 1)}
    <3>1. Typed(r) /\ Only(Aims, p, r) /\ (p.tiltType = "tiltonly" => r.target = p.target)
      BY <1>9, <2>2
    <3>2. QED
      BY <1>8, <3>1 DEF Only, Fields, Aims
  <2>3. QED
    BY <1>3, <2>1, <2>2
<1>11. Sound(r)
  <2>1. (Aims \cup {"lastFrame"}) \cap Kept = {}
    BY DEF Aims, Kept
  <2>2. QED
    BY <1>7, <1>10, <2>1, StaysSound DEF Sound, Down
<1>12. /\ Calm(r) /\ r.txWaitJob = 0 /\ r.tiltType = s.tiltType /\ r.simMy = s.simMy
       /\ r.queue = s.queue /\ r.heard = s.heard /\ r.myPos = s.myPos
  BY <1>5, <1>10 DEF Only, Fields, Aims, Calm
<1>13. QED
  BY <1>7, <1>10, <1>11, <1>12 DEF r


\* A remote's frame that has waited for its repeats: a favourite or a My that the
\* device simulates, if the shade is idle; else it only aims elsewhere.  No frame of
\* its own is waited for.
Turning == Aims \cup {"lastFrame", "tiltDirection", "moved", "tilted", "startPos", "startTiltPos"}

LEMMA WaitingFrameIs ==
  ASSUME NEW s, Sound(s)
  PROVE  LET r == ProcessWaitingFrame(s)
         IN  /\ Sound(r) /\ (Ended(s) => Ended(r)) /\ (Own(s) => r = s)
             /\ r.tiltType = s.tiltType /\ r.simMy = s.simMy
             /\ r.settingMyPos = s.settingMyPos /\ r.pendingCmd = s.pendingCmd
             /\ ~IsIdle(s) => Only(Turning, s, r) /\ r.lastFrame.code = s.lastFrame.code
             /\ ~s.simMy => /\ r.queue = s.queue /\ r.lastFrame.code = s.lastFrame.code
                            /\ Calm(s) => Calm(r)
<1> DEFINE f == s.lastFrame
           dir == IF f.cmd = "Up" THEN -1 ELSE 1
           p == Processed(s)
           turn == [p EXCEPT
                      !.tiltTarget = IF dir < 0 THEN 0 ELSE TiltFull, !.tiltDirection = dir,
                      !.tilted = IF s.tiltDirection # dir THEN 0 ELSE @,
                      !.startTiltPos = IF s.tiltDirection # dir THEN s.currentTiltPos ELSE @]
           travel == [Processed(Rebase(s)) EXCEPT !.target = IF dir < 0 THEN 0 ELSE Full]
           same == s.myPos = s.currentPos
           recorded == [p EXCEPT !.myPos = IF same THEN NoPos ELSE s.currentPos,
                                 !.myTiltPos = IF same THEN NoPos ELSE s.currentTiltPos]
           gone == Processed(MoveToMyPosition(s))
           aimed == Processed(ToFavorite(s))
           stop == [s EXCEPT !.target = s.currentPos, !.tiltTarget = s.currentTiltPos,
                             !.lastFrame.processed = f.repeats > SetMyRepeats + 2]
           r == ProcessWaitingFrame(s)
<1>1. /\ \/ r = s
         \/ LongPressTells(s) /\ r \in {turn, travel}
         \/ IsIdle(s) /\ r = recorded
         \/ IsIdle(s) /\ s.simMy /\ r = gone
         \/ IsIdle(s) /\ ~s.simMy /\ r = aimed
         \/ ~IsIdle(s) /\ r = stop
      /\ Own(s) => r = s
  BY DEF ProcessWaitingFrame, Own
<1> HIDE DEF r, gone, aimed, recorded, turn, travel
<1>2. dir \in {-1, 1} /\ s.tiltType \in TiltTypes
  BY DEF Sound, Typed
<1> HIDE DEF dir
<1>3. Typed(p) /\ Only({"lastFrame"}, s, p) /\ p.lastFrame.code = s.lastFrame.code
  BY LastFrameIs DEF Sound
<1> HIDE DEF p
<1>4. /\ p.tiltType = s.tiltType /\ p.simMy = s.simMy /\ p.txWaitJob = s.txWaitJob
      /\ p.currentPos = s.currentPos /\ p.currentTiltPos = s.currentTiltPos /\ p.target = s.target
      /\ p.startPos = s.startPos /\ p.startTiltPos = s.startTiltPos
      /\ p.queue = s.queue /\ p.heard = s.heard
      /\ Calm(p) <=> Calm(s)
  BY <1>3 DEF Only, Fields, Calm
<1> DEFINE Aimed(q) == /\ Typed(q) /\ Still(q) /\ Only(Turning, s, q) /\ q.lastFrame.code = s.lastFrame.code
                       /\ s.tiltType = "tiltonly" => q.target = s.target
<1>5. ASSUME NEW q, Aimed(q)
      PROVE  /\ Sound(q) /\ KeepsFavorite(s, q) /\ (Ended(s) /\ ~Own(s) => Ended(q))
             /\ q.settingMyPos = s.settingMyPos /\ q.pendingCmd = s.pendingCmd
             /\ q.queue = s.queue /\ (Calm(s) => Calm(q))
  <2>1. /\ q.currentPos = s.currentPos /\ q.queue = s.queue
        /\ q.settingMyPos = s.settingMyPos /\ q.pendingCmd = s.pendingCmd
        /\ Calm(q) <=> Calm(s)
    BY <1>5 DEF Only, Fields, Turning, Aims, Calm
  <2>2. Turning \cap {"tiltType", "simMy", "myPos", "myTiltPos", "queue", "heard"} = {}
    BY DEF Turning, Aims
  <2>3. Sound(q) /\ KeepsFavorite(s, q)
    BY <1>5, <2>1, <2>2, PlacedSound DEF Sound, Down
  <2>4. QED
    BY <1>5, <2>1, <2>3 DEF Ended
<1>6. (Ended(s) /\ ~Own(s) => Ended(r)) => (Ended(s) => Ended(r)) /\ (Own(s) => r = s)
  BY <1>1
<1>7. CASE r = s
  <2>1. Aimed(s)
    BY DEF Sound, Typed, Only
  <2>2. QED
    BY <1>1, <1>6, <1>5, <1>7, <2>1 DEF r, KeepsFavorite
<1>8. CASE LongPressTells(s) /\ r = turn
  <2>1. s.tiltType # "tiltonly"
    BY <1>8 DEF LongPressTells
  <2>2. Typed(r) /\ Only(Turning, p, r) /\ r.lastFrame = p.lastFrame
    <3>1. Typed(r)
      <4> DEFINE goal == IF dir < 0 THEN 0 ELSE TiltFull
                 tilted == IF s.tiltDirection # dir THEN 0 ELSE p.tilted
                 start == IF s.tiltDirection # dir THEN s.currentTiltPos ELSE p.startTiltPos
      <4>1. goal \in Tilts /\ tilted \in Tilts /\ start \in Tilts /\ dir \in -1 .. 1
        BY <1>2, <1>3, Ranges DEF Typed, Sound
      <4>2. r = [p EXCEPT !.tiltTarget = goal, !.tiltDirection = dir, !.tilted = tilted, !.startTiltPos = start]
        BY <1>8 DEF turn
      <4> HIDE DEF goal, tilted, start
      <4>3. QED
        BY <1>3, <4>1, <4>2 DEF Typed, Fields
    <3>2. Only(Turning, p, r) /\ r.lastFrame = p.lastFrame
      BY <1>3, <1>8 DEF turn, Typed, Fields, Only, Turning, Aims
    <3>3. QED
      BY <3>1, <3>2
  <2>3. Still(r)
    BY <1>3, <1>4, <1>8 DEF turn, Typed, Fields, Still, Sound
  <2>4. Aimed(r)
    BY <1>3, <2>1, <2>2, <2>3 DEF Only, Turning
  <2>5. QED
    BY <1>6, <1>5, <2>4 DEF r, KeepsFavorite
<1>9. CASE LongPressTells(s) /\ r = travel
  <2> DEFINE b == Rebase(s)
             pb == Processed(b)
  <2>1. s.tiltType # "tiltonly"
    BY <1>9 DEF LongPressTells
  <2>2. /\ Typed(b) /\ Only({"moved", "tilted", "startPos", "startTiltPos"}, s, b)
        /\ b.startPos = b.currentPos /\ b.startTiltPos = b.currentTiltPos
    BY Ranges DEF Rebase, Sound, Typed, Only, Fields
  <2> HIDE DEF b
  <2>3. Typed(pb) /\ Only({"lastFrame"}, b, pb) /\ pb.lastFrame.code = b.lastFrame.code
    BY <2>2, LastFrameIs
  <2>4. r = [pb EXCEPT !.target = IF dir < 0 THEN 0 ELSE Full]
    BY <1>9 DEF travel, b
  <2> HIDE DEF pb
  <2>5. Typed(r) /\ Only({"target"}, pb, r)
    BY <2>3, <2>4, Ranges DEF Typed, Only, Fields
  <2>6. Still(r)
    BY <2>2, <2>3, <2>5 DEF Still, Only, Fields
  <2>7. r.lastFrame.code = s.lastFrame.code
    BY <2>2, <2>3, <2>5 DEF Only, Fields
  <2>8. Only(Turning, s, r)
    BY <2>2, <2>3, <2>5 DEF Only, Turning, Aims
  <2>9. Aimed(r)
    BY <2>1, <2>5, <2>6, <2>7, <2>8
  <2>10. QED
    BY <1>6, <1>5, <2>9 DEF r, KeepsFavorite
<1>10. CASE ~IsIdle(s) /\ r = stop
  <2> DEFINE enough == f.repeats > SetMyRepeats + 2
             frame == [s.lastFrame EXCEPT !.processed = enough]
  <2>1. frame \in LastFrames /\ frame.code = s.lastFrame.code
    <3>1. s.lastFrame \in LastFrames
      BY DEF Sound, Typed
    <3>2. enough \in BOOLEAN
      OBVIOUS
    <3> HIDE DEF enough
    <3>3. QED
      BY <3>1, <3>2 DEF LastFrames
  <2>2. r = [s EXCEPT !.target = s.currentPos, !.tiltTarget = s.currentTiltPos, !.lastFrame = frame]
    BY <1>10
  <2> HIDE DEF frame
  <2>3. /\ Typed(r) /\ Only(Aims \cup {"lastFrame"}, s, r) /\ r.lastFrame = frame
        /\ r.target = s.currentPos
    BY <2>1, <2>2 DEF Sound, Typed, Only, Fields, Aims
  <2>4. Still(r)
    BY <2>3 DEF Still, Sound, Only, Fields, Aims
  <2>5. Aimed(r)
    BY <2>1, <2>3, <2>4 DEF Only, Turning, Sound, Down
  <2>6. QED
    BY <1>6, <1>5, <2>5 DEF r, KeepsFavorite
<1>11. CASE IsIdle(s) /\ r = aimed
  <2> DEFINE t == ToFavorite(s)
  <2>1. Sound(t) /\ KeepsFavorite(s, t) /\ Only(Aims, s, t)
    BY ToFavoriteIs
  <2>2. r = Processed(t)
    BY <1>11 DEF aimed
  <2> HIDE DEF t
  <2>3. Typed(r) /\ Only({"lastFrame"}, t, r) /\ r.lastFrame.code = t.lastFrame.code
    BY <2>1, <2>2, LastFrameIs DEF Sound
  <2>4. Only(Turning, s, r) /\ r.lastFrame.code = s.lastFrame.code /\ r.target = t.target /\ t.tiltType = s.tiltType
    BY <2>1, <2>3 DEF Only, Turning, Aims, Fields
  <2>5. Still(r)
    BY <2>1, <2>3 DEF Still, Sound, Only, Fields
  <2>6. Aimed(r)
    BY <2>1, <2>3, <2>4, <2>5 DEF Sound, Down
  <2>7. QED
    BY <1>6, <1>5, <2>6 DEF r, KeepsFavorite
<1>12. CASE IsIdle(s) /\ r = recorded
  <2>1. /\ Typed(r) /\ Only({"myPos", "myTiltPos"}, p, r)
        /\ r.myPos = IF same THEN NoPos ELSE s.currentPos
        /\ r.myTiltPos = IF same THEN NoPos ELSE s.currentTiltPos
    BY <1>3, <1>4, <1>12 DEF recorded, Typed, Only, Fields
  <2>2. s.currentPos # NoPos
    BY Ranges DEF Sound, Typed, Positions, NoPos
  <2>3. /\ r.tiltType = s.tiltType /\ r.simMy = s.simMy /\ r.txWaitJob = s.txWaitJob
        /\ r.currentPos = s.currentPos /\ r.currentTiltPos = s.currentTiltPos /\ r.target = s.target
        /\ r.startPos = s.startPos /\ r.startTiltPos = s.startTiltPos
        /\ r.queue = s.queue /\ r.heard = s.heard /\ r.lastFrame.code = s.lastFrame.code
        /\ r.settingMyPos = s.settingMyPos /\ r.pendingCmd = s.pendingCmd
        /\ Calm(r) <=> Calm(s)
    BY <1>3, <1>4, <2>1 DEF Only, Fields, Calm
  <2>4. Sound(r)
    BY <2>1, <2>2, <2>3 DEF Sound, FavoriteWhole, Down, Still, OneFrameEach
  <2>5. Ended(s) /\ ~Own(s) => Ended(r)
    BY <2>3 DEF Ended
  <2>6. QED
    BY <1>6, <1>12, <2>3, <2>4, <2>5 DEF r
<1>13. CASE IsIdle(s) /\ s.simMy /\ r = gone
  <2> DEFINE m == MoveToMyPosition(s)
  <2>1. /\ Sound(m) /\ KeepsFavorite(s, m)
        /\ m.settingMyPos = s.settingMyPos /\ m.pendingCmd = s.pendingCmd
        /\ \/ Own(m)
           \/ Only({"myPos", "settingPos"} \cup Aims, s, m) /\ (m.settingPos => s.settingPos)
    BY MoveToMyPositionIs
  <2>2. r = Processed(m)
    BY <1>13 DEF gone
  <2> HIDE DEF m
  <2>3. Typed(r) /\ Only({"lastFrame"}, m, r) /\ r.lastFrame.code = m.lastFrame.code /\ (Own(m) => Own(r))
    BY <2>1, <2>2, LastFrameIs DEF Sound
  <2>4. {"lastFrame"} \cap Kept = {} /\ r.target = m.target /\ r.settingMyPos = m.settingMyPos
        /\ r.pendingCmd = m.pendingCmd /\ r.queue = m.queue
    BY <2>3 DEF Kept, Only, Fields
  <2>5. Sound(r) /\ KeepsFavorite(m, r)
    BY <2>1, <2>3, <2>4, StaysSound DEF Sound, Down
  <2>6. Ended(s) /\ ~Own(s) => Ended(r)
    <3>1. CASE Own(m)
      BY <2>3, <3>1 DEF Ended
    <3>2. CASE Only({"myPos", "settingPos"} \cup Aims, s, m) /\ (m.settingPos => s.settingPos)
      BY <2>3, <3>2 DEF Ended, Calm, Only, Fields, Aims
    <3>3. QED
      BY <2>1, <3>1, <3>2
  <2>7. QED
    BY <1>6, <1>13, <2>1, <2>4, <2>5, <2>6 DEF r, KeepsFavorite
<1>14. QED
  BY <1>1, <1>7, <1>8, <1>9, <1>10, <1>11, <1>12, <1>13


\* A shade that waits for its command is not timed.
Quiet(s) == s.txWaitJob # 0 => s.moved = 0 /\ s.tilted = 0

\* The events of other commands, and less than HoldLimit, do not end the wait.
LEMMA HeldIs ==
  ASSUME NEW s, Sound(s)
  PROVE  LET r == TxHold(Anchored(s))
         IN  /\ Sound(r) /\ Quiet(r) /\ Only({"txWaitJob", "waited", "moved", "tilted", "heard"}, s, r)
             /\ (\E i \in 1 .. Len(s.queue) : s.queue[i].job = s.txWaitJob) /\ s.waited <= HoldLimit
                  => r.txWaitJob = s.txWaitJob /\ r.txWaitJob # 0
<1> DEFINE own == {e \in s.heard : e.job = s.txWaitJob}
           event == CHOOSE e \in (IF own = {} THEN s.heard ELSE own) : TRUE
           anchored == [s EXCEPT !.txWaitJob = 0, !.waited = 0, !.moved = AtMost(Full, event.age),
                                 !.tilted = AtMost(TiltFull, event.age)]
           a0 == IF s.heard = {} THEN s ELSE TxAnchor(s, event)
           a == [a0 EXCEPT !.heard = {}]
           r == TxHold(a)
           changed == {"txWaitJob", "waited", "moved", "tilted", "heard"}
           queued == \E i \in 1 .. Len(s.queue) : s.queue[i].job = s.txWaitJob
<1>1. s.heard # {} => event \in s.heard
  OBVIOUS
<1>2. s.heard # {} => /\ AtMost(Full, event.age) \in Positions
                      /\ AtMost(TiltFull, event.age) \in Tilts
  <2>1. ASSUME s.heard # {} PROVE event.age \in Nat
    BY <1>1, <2>1 DEF Sound, Typed, Events
  <2> HIDE DEF event
  <2>2. QED
    BY <2>1, Ranges DEF AtMost, Positions, Tilts
<1>3. queued /\ s.heard # {} => event.job # s.txWaitJob
  BY <1>1 DEF Sound, OneFrameEach
<1>4. a0 = s \/ (s.heard # {} /\ event.job = s.txWaitJob /\ a0 = anchored)
  BY DEF TxAnchor
<1>5. Anchored(s) = a
  BY DEF Anchored
<1> HIDE DEF a0
<1>6. /\ Typed(a0) /\ Only(changed, s, a0) /\ (queued => a0 = s)
      /\ a0.txWaitJob \in {0, s.txWaitJob}
  <2>1. CASE a0 = s
    BY <2>1 DEF Sound, Typed, Only
  <2>2. CASE s.heard # {} /\ event.job = s.txWaitJob /\ a0 = anchored
    <3> HIDE DEF event
    <3>1. QED
      BY <1>2, <1>3, <2>2 DEF Sound, Typed, Only, Fields
  <2>3. QED
    BY <1>4, <2>1, <2>2
<1>7. /\ Typed(a) /\ Only(changed, s, a) /\ a.heard = {} /\ a.txWaitJob = a0.txWaitJob
      /\ a.waited = a0.waited
  <2>1. IsFiniteSet({}) /\ {} \in SUBSET Events
    BY FS_EmptySet
  <2>2. QED
    BY <1>6, <2>1 DEF Typed, Only, Fields
<1> HIDE DEF a
<1>8. \/ r = a /\ a.txWaitJob = 0
      \/ r = [a EXCEPT !.txWaitJob = 0, !.waited = 0] /\ a.waited > HoldLimit
      \/ r = [a EXCEPT !.moved = 0, !.tilted = 0]
  BY DEF TxHold
<1> HIDE DEF r
<1>9. Typed(r) /\ Only(changed, a, r) /\ Quiet(r) /\ r.heard = {}
  <2>1. Typed(r)
    <3>1. CASE r = a
      BY <1>7, <3>1
    <3>2. CASE r = [a EXCEPT !.txWaitJob = 0, !.waited = 0]
      BY <1>7, <3>2 DEF Typed, Fields
    <3>3. CASE r = [a EXCEPT !.moved = 0, !.tilted = 0]
      BY <1>7, <3>3, Ranges DEF Typed, Fields
    <3>4. QED
      BY <1>8, <3>1, <3>2, <3>3
  <2>2. Only(changed, a, r) /\ Quiet(r) /\ r.heard = {}
    BY <1>7, <1>8 DEF Typed, Fields, Only, Quiet
  <2>3. QED
    BY <2>1, <2>2
<1>10. r.txWaitJob \in {0, s.txWaitJob} /\ (queued /\ s.waited <= HoldLimit => r.txWaitJob = s.txWaitJob)
  <2>1. r.txWaitJob \in {0, a.txWaitJob} /\ (a.waited <= HoldLimit => r.txWaitJob = a.txWaitJob)
    <3>1. a.waited \in Nat /\ HoldLimit \in Nat
      BY <1>7, Ranges DEF Typed
    <3>2. ~(a.waited <= HoldLimit /\ a.waited > HoldLimit)
      BY <3>1
    <3>3. QED
      BY <1>7, <1>8, <3>2 DEF Typed, Fields
  <2>2. QED
    BY <1>6, <1>7, <2>1
<1>11. queued => s.txWaitJob # 0
  <2>1. \A i \in 1 .. Len(s.queue) : s.queue[i] \in Frames
    BY DEF Sound, Typed
  <2>2. QED
    BY <2>1 DEF Frames, JobIds
<1>12. Only(changed, s, r)
  BY <1>7, <1>9 DEF Only
<1> HIDE DEF queued
<1>13. Sound(r)
  <2>1. /\ r.tiltType = s.tiltType /\ r.simMy = s.simMy
        /\ r.currentPos = s.currentPos /\ r.currentTiltPos = s.currentTiltPos /\ r.target = s.target
        /\ r.startPos = s.startPos /\ r.startTiltPos = s.startTiltPos
        /\ r.myPos = s.myPos /\ r.myTiltPos = s.myTiltPos /\ r.queue = s.queue
    BY <1>12 DEF Only, Fields
  <2>2. QED
    BY <1>9, <1>10, <2>1 DEF Sound, FavoriteWhole, Down, Still, OneFrameEach
<1>14. QED
  BY <1>5, <1>9, <1>10, <1>11, <1>12, <1>13 DEF r, queued


\* What every part of checkMovement() but its end of a recording does: it moves no
\* shade that waits, sends nothing for one that is calm, and aims nowhere else.
Passes(s, r) ==
  /\ Sound(r) /\ Quiet(r) /\ r.tiltType = s.tiltType /\ r.simMy = s.simMy /\ (Ended(s) => Ended(r))
  /\ r.myPos = s.myPos /\ r.target = s.target /\ r.tiltTarget = s.tiltTarget
  /\ r.settingMyPos = s.settingMyPos
  /\ s.txWaitJob # 0 => /\ r.txWaitJob # 0
                        /\ r.currentPos = s.currentPos /\ r.currentTiltPos = s.currentTiltPos
  /\ Calm(s) => Calm(r) /\ r.queue = s.queue

LEMMA PassesOn ==
  ASSUME NEW s, NEW r, NEW q, Passes(s, r), Passes(r, q)
  PROVE  Passes(s, q)
BY DEF Passes

LEMMA RunPendingIs ==
  ASSUME NEW s, Sound(s), Quiet(s)
  PROVE  Passes(s, RunPending(s)) /\ RunPending(s).pendingCmd = "none"
<1> DEFINE c == [s EXCEPT !.pendingCmd = "none"]
           m == MoveToTiltTarget(c, s.tiltTarget)
<1>1. RunPending(s) = c \/ (s.settingPos /\ RunPending(s) = m)
  BY DEF RunPending
<1>2. Typed(c) /\ Only({"pendingCmd"}, s, c) /\ c.pendingCmd = "none" /\ c.target = s.target
  BY DEF Sound, Typed, Only, Fields
<1> HIDE DEF c
<1>3. Sound(c) /\ KeepsFavorite(s, c)
  <2>1. {"pendingCmd"} \cap Kept = {} /\ (s.tiltType = "tiltonly" => c.target = Full)
    BY <1>2 DEF Kept, Sound, Down
  <2>2. QED
    BY <1>2, <2>1, StaysSound
<1>4. Passes(s, c)
  <2>1. /\ Quiet(c) /\ c.settingMyPos = s.settingMyPos /\ c.txWaitJob = s.txWaitJob
        /\ c.currentPos = s.currentPos /\ c.currentTiltPos = s.currentTiltPos
        /\ c.queue = s.queue /\ c.lastFrame = s.lastFrame /\ (Calm(s) => Calm(c))
        /\ c.myPos = s.myPos /\ c.target = s.target /\ c.tiltTarget = s.tiltTarget
    BY <1>2 DEF Only, Fields, Quiet, Calm
  <2>2. QED
    BY <1>3, <2>1 DEF Passes, Ended, Own, KeepsFavorite
<1>5. ASSUME s.settingPos PROVE Passes(s, m) /\ m.pendingCmd = "none"
  <2> DEFINE moves == s.tiltTarget # c.currentTiltPos /\ (c.currentPos = c.target \/ c.tiltType = "tiltmotor")
  <2>1. s.tiltTarget \in Tilts
    BY DEF Sound, Typed
  <2>2. /\ Sound(m) /\ KeepsFavorite(c, m)
        /\ Only({"tiltTarget", "settingTiltPos"} \cup Aims \cup Sendings, c, m)
        /\ moves => m.txWaitJob # 0 /\ Own(m) /\ m.moved = 0 /\ m.tilted = 0
        /\ ~moves => Only({"tiltTarget", "settingTiltPos"}, c, m)
        /\ m.target = c.target /\ m.tiltTarget = s.tiltTarget
    BY <1>3, <2>1, MoveToTiltTargetIs
  <2> HIDE DEF m, moves
  <2>3. /\ m.pendingCmd = "none" /\ m.settingMyPos = c.settingMyPos /\ c.settingPos = s.settingPos
        /\ m.currentPos = c.currentPos /\ m.currentTiltPos = c.currentTiltPos
        /\ m.myPos = c.myPos /\ c.tiltTarget = s.tiltTarget
        /\ ~moves => m.txWaitJob = c.txWaitJob /\ m.moved = c.moved /\ m.tilted = c.tilted /\ m.lastFrame = c.lastFrame
    BY <1>2, <2>2 DEF Only, Fields, Aims, Sendings
  <2>4. ~Calm(c) /\ (c.txWaitJob # 0 => m.txWaitJob # 0) /\ Quiet(m) /\ (Ended(c) => Ended(m))
    BY <1>4, <1>5, <2>2, <2>3 DEF Calm, Quiet, Ended, Passes, Own
  <2>5. Passes(c, m)
    BY <2>2, <2>3, <2>4 DEF Passes, KeepsFavorite
  <2>6. QED
    BY <1>4, <2>3, <2>5, PassesOn
<1>6. QED
  BY <1>1, <1>2, <1>4, <1>5

LEMMA DirectedIs ==
  ASSUME NEW s, Sound(s), Quiet(s)
  PROVE  LET r == Directed(s)
         IN  /\ Passes(s, r) /\ Only({"direction", "tiltDirection"}, s, r)
             /\ r.direction = Toward(r.currentPos, r.target)
             /\ r.tiltDirection # 0 =>
                  IF r.direction # 0 THEN r.currentTiltPos # (IF r.direction < 0 THEN 0 ELSE TiltFull)
                                          /\ r.tiltDirection = r.direction
                  ELSE r.tiltDirection = Toward(r.currentTiltPos, r.tiltTarget)
<1> DEFINE dir == Toward(s.currentPos, s.target)
           turn == IF TurnsFirst(s, dir) THEN dir ELSE IF dir # 0 THEN 0
                   ELSE Toward(s.currentTiltPos, s.tiltTarget)
           r == Directed(s)
<1>1. dir \in -1 .. 1 /\ turn \in -1 .. 1
  BY DEF Toward
<1>2. r = [s EXCEPT !.direction = dir, !.tiltDirection = turn]
  BY DEF Directed
<1>3. turn # 0 => IF dir # 0 THEN s.currentTiltPos # (IF dir < 0 THEN 0 ELSE TiltFull) /\ turn = dir
                  ELSE turn = Toward(s.currentTiltPos, s.tiltTarget)
  BY DEF TurnsFirst
<1> HIDE DEF turn, r
<1>4. /\ Typed(r) /\ Only({"direction", "tiltDirection"}, s, r) /\ r.direction = dir /\ r.tiltDirection = turn
  <2> HIDE DEF dir
  <2>1. QED
    BY <1>1, <1>2 DEF Sound, Typed, Only, Fields
<1>5. /\ r.currentPos = s.currentPos /\ r.target = s.target /\ r.currentTiltPos = s.currentTiltPos
      /\ r.tiltTarget = s.tiltTarget /\ r.settingMyPos = s.settingMyPos /\ r.txWaitJob = s.txWaitJob
      /\ r.queue = s.queue /\ r.lastFrame = s.lastFrame /\ Quiet(r) /\ (Calm(s) => Calm(r))
      /\ r.myPos = s.myPos
  BY <1>4 DEF Only, Fields, Quiet, Calm
<1>6. Sound(r) /\ KeepsFavorite(s, r)
  <2>1. {"direction", "tiltDirection"} \cap Kept = {} /\ (s.tiltType = "tiltonly" => r.target = Full)
    BY <1>5 DEF Kept, Sound, Down
  <2>2. QED
    BY <1>4, <2>1, StaysSound
<1>7. Passes(s, r)
  BY <1>5, <1>6 DEF Passes, Ended, Own, KeepsFavorite
<1> HIDE DEF dir
<1>8. QED
  BY <1>3, <1>4, <1>5, <1>7 DEF r, dir


LEMMA Clamps ==
  ASSUME NEW n \in Nat, NEW x \in Int
  PROVE  AtLeast(0, AtMost(n, x)) \in 0 .. n /\ (x \in 0 .. n => AtLeast(0, AtMost(n, x)) = x)
BY DEF AtLeast, AtMost

\* Which way something that is not where it is to be goes.
LEMMA Directions ==
  ASSUME NEW from \in Int, NEW to \in Int
  PROVE  LET d == Toward(from, to)
         IN  /\ d \in -1 .. 1 /\ (d = 0 <=> from = to)
             /\ d # 0 => ~(d * (from - to) >= 0)
<1>1. CASE from = to
  BY <1>1 DEF Toward
<1>2. CASE from > to
  <2>1. Toward(from, to) = -1
    BY <1>2 DEF Toward
  <2>2. QED
    BY <1>2, <2>1
<1>3. CASE from < to
  <2>1. Toward(from, to) = 1
    BY <1>3 DEF Toward
  <2>2. QED
    BY <1>3, <2>1
<1>4. QED
  BY <1>1, <1>2, <1>3

\* A stop on the way sends a My where the shade is.
LEMMA StoppedIs ==
  ASSUME NEW s, Sound(s), Quiet(s), NEW stops \in BOOLEAN
  PROVE  LET r == IF stops THEN SendFrame(s, "My", "short") ELSE s
         IN  /\ Sound(r) /\ Quiet(r) /\ KeepsFavorite(s, r) /\ Only(Sendings, s, r)
             /\ s.txWaitJob # 0 => r.txWaitJob # 0
             /\ IF stops THEN Own(r) ELSE r = s
<1> DEFINE sent == SendFrame(s, "My", "short")
<1>1. CASE ~stops
  BY <1>1 DEF KeepsFavorite, Only, Sound, Typed
<1>2. CASE stops
  <2>1. "My" \in Commands /\ "short" \in Lengths
    BY DEF Commands, Lengths
  <2>2. /\ Sound(sent) /\ KeepsFavorite(s, sent) /\ sent.txWaitJob # 0 /\ Own(sent)
        /\ sent.moved = 0 /\ sent.tilted = 0
        /\ Only(Aims \cup Sendings, s, sent)
        /\ sent.target = s.target /\ sent.tiltTarget = s.tiltTarget
    BY <2>1, SendFrameSound
  <2> HIDE DEF sent
  <2>3. Only(Sendings, s, sent)
    BY <2>2 DEF Only, Aims
  <2>4. QED
    BY <1>2, <2>2, <2>3 DEF Quiet, sent
<1>3. QED
  BY <1>1, <1>2

LEMMA LiftedIs ==
  ASSUME NEW s0, Sound(s0), Quiet(s0), s0.direction # 0, s0.direction = Toward(s0.currentPos, s0.target)
  PROVE  Passes(s0, Lifted(s0)) /\ Lifted(s0).tiltDirection = s0.tiltDirection
<1> DEFINE d == s0.direction
           end == IF d < 0 THEN 0 ELSE Full
           pos == AtLeast(0, AtMost(Full, s0.startPos + d * s0.moved))
           s == [s0 EXCEPT !.currentPos = pos]
           reached == [s EXCEPT !.currentPos = s.target]
           stops == StopsLift(s, end)
           stopped == IF stops THEN SendFrame(reached, "My", "short") ELSE reached
           gaps == s.settingPos /\ ~IsAtTarget(reached)
           gapped == IF gaps THEN StartCmdGap(stopped, "tiltTarget") ELSE stopped
           done == [gapped EXCEPT !.settingPos = FALSE, !.direction = 0, !.tilted = 0,
                                  !.startTiltPos = s.currentTiltPos]
           r == Lifted(s0)
           there == d * (s.currentPos - s.target) >= 0
<1>1. r = IF there THEN done ELSE s
  BY DEF Lifted
<1> HIDE DEF r
<1>2. /\ s0.currentPos \in 0 .. Full /\ s0.target \in 0 .. Full /\ s0.startPos \in 0 .. Full /\ s0.moved \in Nat
      /\ Full \in Nat /\ d \in {-1, 1}
  BY Ranges DEF Sound, Typed, Positions
<1>3. pos \in Positions /\ (s0.txWaitJob # 0 => pos = s0.currentPos)
  <2> DEFINE x == s0.startPos + d * s0.moved
  <2>1. x \in Int /\ (s0.moved = 0 => x = s0.startPos)
    BY <1>2
  <2> HIDE DEF x
  <2>2. AtLeast(0, AtMost(Full, x)) \in 0 .. Full /\ (x \in 0 .. Full => AtLeast(0, AtMost(Full, x)) = x)
    BY <1>2, <2>1, Clamps
  <2>3. s0.txWaitJob # 0 => s0.moved = 0 /\ s0.startPos = s0.currentPos
    BY DEF Quiet, Sound, Still
  <2>4. QED
    BY <1>2, <2>1, <2>2, <2>3 DEF x, Positions
<1> HIDE DEF pos
<1>4. /\ Typed(s) /\ Only({"currentPos"}, s0, s) /\ s.currentPos = pos
  BY <1>3 DEF Sound, Typed, Only, Fields
<1>5. ~there \/ s0.txWaitJob = 0
  <2>1. s.target = s0.target
    BY <1>4 DEF Only, Fields
  <2> HIDE DEF s
  <2>2. ~(d * (s0.currentPos - s0.target) >= 0)
    <3> DEFINE from == s0.currentPos
               to == s0.target
    <3>1. from \in Int /\ to \in Int /\ d = Toward(from, to) /\ d # 0
      BY <1>2
    <3> HIDE DEF from, to, d
    <3>2. ~(d * (from - to) >= 0)
      BY <3>1, Directions
    <3>3. QED
      BY <3>2 DEF from, to
  <2>3. CASE s0.txWaitJob # 0
    BY <1>3, <1>4, <2>1, <2>2, <2>3
  <2>4. QED
    BY <2>3
<1>6. s0.tiltType # "tiltonly"
  <2>1. s0.currentPos \in Int /\ s0.target \in Int
    BY <1>2
  <2>2. s0.currentPos # s0.target
    BY <2>1, Directions
  <2>3. QED
    BY <2>2 DEF Sound, Down
<1>7. /\ Typed(reached) /\ Only({"currentPos"}, s, reached)
  <2>1. s.target \in Positions
    BY <1>4 DEF Typed
  <2> HIDE DEF s
  <2>2. QED
    BY <1>4, <2>1 DEF Typed, Only, Fields
<1> HIDE DEF s, reached
<1>8. /\ s.txWaitJob = s0.txWaitJob /\ s.settingPos = s0.settingPos /\ s.lastFrame = s0.lastFrame
      /\ s.settingMyPos = s0.settingMyPos /\ s.queue = s0.queue /\ s.currentTiltPos = s0.currentTiltPos
      /\ s.startPos = s0.startPos /\ s.startTiltPos = s0.startTiltPos /\ s.tiltDirection = s0.tiltDirection
      /\ s.myPos = s0.myPos /\ s.target = s0.target /\ s.tiltTarget = s0.tiltTarget
      /\ Quiet(s) /\ (Calm(s0) => Calm(s))
  BY <1>4 DEF Only, Fields, Quiet, Calm
<1>9. Sound(s) /\ KeepsFavorite(s0, s)
  <2>1. Still(s)
    BY <1>3, <1>4, <1>8 DEF Still, Sound
  <2>2. {"currentPos"} \cap {"tiltType", "simMy", "myPos", "myTiltPos", "queue", "heard"} = {}
    OBVIOUS
  <2>3. QED
    BY <1>4, <1>6, <2>1, <2>2, PlacedSound
<1>10. Passes(s0, s)
  BY <1>3, <1>4, <1>8, <1>9 DEF Passes, Ended, Own, KeepsFavorite
<1>11. ASSUME there PROVE Passes(s0, done) /\ done.tiltDirection = s0.tiltDirection
  <2>1. s0.txWaitJob = 0
    BY <1>5, <1>11
  <2> HIDE DEF there
  <2>2. /\ reached.txWaitJob = 0 /\ reached.settingPos = s0.settingPos /\ reached.lastFrame = s0.lastFrame
        /\ reached.settingMyPos = s0.settingMyPos /\ reached.queue = s0.queue
        /\ reached.currentTiltPos = s.currentTiltPos /\ reached.tiltType = s0.tiltType
        /\ reached.tiltDirection = s0.tiltDirection
        /\ reached.myPos = s0.myPos /\ reached.target = s0.target /\ reached.tiltTarget = s0.tiltTarget
        /\ Quiet(reached) /\ (Calm(s0) => Calm(reached))
    BY <1>7, <1>8, <1>9, <2>1 DEF Only, Fields, Quiet, Calm, KeepsFavorite
  <2>3. Sound(reached) /\ KeepsFavorite(s, reached)
    <3>1. {"currentPos"} \cap {"tiltType", "simMy", "myPos", "myTiltPos", "queue", "heard"} = {}
      OBVIOUS
    <3>2. Still(reached)
      BY <2>2 DEF Still
    <3>3. s.tiltType # "tiltonly"
      BY <1>6, <1>9 DEF KeepsFavorite
    <3>4. QED
      BY <1>7, <1>9, <3>1, <3>2, <3>3, PlacedSound
  <2>4. stops \in BOOLEAN /\ (stops => s.settingPos)
    <3>1. s.settingPos \in BOOLEAN
      BY <1>4 DEF Typed
    <3>2. QED
      BY <3>1 DEF StopsLift
  <2> HIDE DEF stops
  <2>5. /\ Sound(stopped) /\ Quiet(stopped) /\ KeepsFavorite(reached, stopped) /\ Only(Sendings, reached, stopped)
        /\ IF stops THEN Own(stopped) ELSE stopped = reached
    BY <2>2, <2>3, <2>4, StoppedIs
  <2> HIDE DEF stopped
  <2>6. /\ Typed(gapped) /\ Only({"pendingCmd", "gap"}, stopped, gapped)
        /\ ~gaps => gapped = stopped
    <3> HIDE DEF gaps
    <3>1. CASE ~gaps
      BY <2>5, <3>1 DEF Sound, Typed, Only
    <3>2. CASE gaps
      <4>1. gapped = [stopped EXCEPT !.pendingCmd = "tiltTarget", !.gap = CmdGap]
        BY <3>2 DEF StartCmdGap
      <4> HIDE DEF gapped
      <4>2. QED
        BY <2>5, <3>2, <4>1, Ranges DEF Sound, Typed, Only, Fields
    <3>3. QED
      BY <3>1, <3>2
  <2>7. gaps => s.settingPos
    OBVIOUS
  <2> HIDE DEF gapped, gaps
  <2>8. /\ Typed(done) /\ Only({"settingPos", "direction", "tilted", "startTiltPos"}, gapped, done)
        /\ done.tilted = 0 /\ done.startTiltPos = s.currentTiltPos /\ ~done.settingPos
    <3> DEFINE tilt == s.currentTiltPos
    <3>1. tilt \in Tilts /\ 0 \in Tilts
      BY <1>4, Ranges DEF Typed
    <3> HIDE DEF tilt
    <3>2. done = [gapped EXCEPT !.settingPos = FALSE, !.direction = 0, !.tilted = 0, !.startTiltPos = tilt]
      BY DEF tilt
    <3> HIDE DEF done
    <3>3. Typed(done)
      BY <2>6, <3>1, <3>2 DEF Typed, Fields
    <3>4. /\ Only({"settingPos", "direction", "tilted", "startTiltPos"}, gapped, done)
          /\ done.tilted = 0 /\ done.startTiltPos = tilt /\ ~done.settingPos
      BY <2>6, <3>2 DEF Typed, Only, Fields
    <3>5. QED
      BY <3>3, <3>4 DEF tilt
  <2> HIDE DEF done
  <2>9. /\ done.currentPos = stopped.currentPos /\ done.currentTiltPos = stopped.currentTiltPos
        /\ done.startPos = stopped.startPos /\ done.txWaitJob = stopped.txWaitJob
        /\ done.moved = stopped.moved /\ done.target = stopped.target
        /\ done.tiltTarget = stopped.tiltTarget /\ done.myPos = stopped.myPos
        /\ done.tiltDirection = stopped.tiltDirection
        /\ done.settingMyPos = stopped.settingMyPos /\ done.settingTiltPos = stopped.settingTiltPos
        /\ done.queue = stopped.queue /\ done.lastFrame = stopped.lastFrame
        /\ ~gaps => done.pendingCmd = stopped.pendingCmd
    BY <2>6, <2>8 DEF Only, Fields
  <2>10. /\ stopped.currentPos = reached.currentPos /\ stopped.currentTiltPos = reached.currentTiltPos
         /\ stopped.settingMyPos = reached.settingMyPos /\ stopped.settingTiltPos = reached.settingTiltPos
         /\ stopped.pendingCmd = reached.pendingCmd /\ stopped.tiltDirection = reached.tiltDirection
         /\ stopped.myPos = reached.myPos /\ stopped.target = reached.target
         /\ stopped.tiltTarget = reached.tiltTarget
    BY <2>5 DEF Only, Fields, Sendings
  <2>11. Quiet(done) /\ Still(done)
    <3>1. Quiet(done)
      BY <2>5, <2>8, <2>9 DEF Quiet
    <3>2. Still(done)
      BY <2>2, <2>5, <2>8, <2>9, <2>10 DEF Still, Sound
    <3>3. QED
      BY <3>1, <3>2
  <2>12. Sound(done) /\ KeepsFavorite(stopped, done)
    <3> DEFINE changed == {"pendingCmd", "gap", "settingPos", "direction", "tilted", "startTiltPos"}
    <3>1. changed \cap {"tiltType", "simMy", "myPos", "myTiltPos", "queue", "heard"} = {}
      OBVIOUS
    <3>2. Only(changed, stopped, done)
      BY <2>6, <2>8 DEF Only
    <3>3. stopped.tiltType # "tiltonly"
      BY <1>6, <2>2, <2>5 DEF KeepsFavorite
    <3> HIDE DEF changed
    <3>4. QED
      BY <2>5, <2>8, <2>11, <3>1, <3>2, <3>3, PlacedSound
  <2>13. KeepsFavorite(s0, done)
    BY <1>9, <2>3, <2>5, <2>12 DEF KeepsFavorite
  <2>14. Calm(s0) => Calm(done) /\ done.queue = s0.queue
    BY <1>8, <2>2, <2>4, <2>5, <2>7, <2>8, <2>9, <2>10 DEF Calm
  <2>15. Ended(s0) => Ended(done)
    BY <2>2, <2>5, <2>9, <2>14 DEF Ended, Own
  <2>16. QED
    BY <2>1, <2>2, <2>9, <2>10, <2>11, <2>12, <2>13, <2>14, <2>15 DEF Passes, KeepsFavorite
<1>12. QED
  BY <1>1, <1>8, <1>10, <1>11 DEF r


LEMMA TiltedIs ==
  ASSUME NEW s0, Sound(s0), Quiet(s0), s0.tiltDirection # 0, NEW first \in BOOLEAN,
         ~first => s0.tiltDirection = Toward(s0.currentTiltPos, s0.tiltTarget)
  PROVE  Passes(s0, Tilted(s0, first))
<1> DEFINE d == s0.tiltDirection
           end == IF d < 0 THEN 0 ELSE TiltFull
           tilt == AtLeast(0, AtMost(TiltFull, s0.startTiltPos + d * s0.tilted))
           s == [s0 EXCEPT !.currentTiltPos = tilt, !.moved = IF first THEN 0 ELSE @]
           onward == [s EXCEPT !.startPos = s.currentPos]
           reached == [s EXCEPT !.currentTiltPos = s.tiltTarget]
           stops == StopsTilt(s, end)
           stopped == IF stops THEN SendFrame(reached, "My", "short") ELSE reached
           done == [stopped EXCEPT !.tiltDirection = 0, !.settingTiltPos = FALSE]
           r == Tilted(s0, first)
           there == ~first /\ d * (s.currentTiltPos - s.tiltTarget) >= 0
<1>1. r = s \/ (r = onward) \/ (there /\ r = done)
  BY DEF Tilted
<1> HIDE DEF r
<1>2. /\ s0.currentTiltPos \in 0 .. TiltFull /\ s0.tiltTarget \in 0 .. TiltFull
      /\ s0.startTiltPos \in 0 .. TiltFull /\ s0.tilted \in Nat
      /\ TiltFull \in Nat /\ d \in {-1, 1}
  BY Ranges DEF Sound, Typed, Tilts
<1>3. tilt \in Tilts /\ (s0.txWaitJob # 0 => tilt = s0.currentTiltPos)
  <2> DEFINE x == s0.startTiltPos + d * s0.tilted
  <2>1. x \in Int /\ (s0.tilted = 0 => x = s0.startTiltPos)
    BY <1>2
  <2> HIDE DEF x
  <2>2. /\ AtLeast(0, AtMost(TiltFull, x)) \in 0 .. TiltFull
        /\ x \in 0 .. TiltFull => AtLeast(0, AtMost(TiltFull, x)) = x
    BY <1>2, <2>1, Clamps
  <2>3. s0.txWaitJob # 0 => s0.tilted = 0 /\ s0.startTiltPos = s0.currentTiltPos
    BY DEF Quiet, Sound, Still
  <2>4. QED
    BY <1>2, <2>1, <2>2, <2>3 DEF x, Tilts
<1> HIDE DEF tilt
<1>4. /\ Typed(s) /\ Only({"currentTiltPos", "moved"}, s0, s) /\ s.currentTiltPos = tilt
      /\ s.moved \in {0, s0.moved}
  <2>1. CASE first
    BY <1>3, <2>1, Ranges DEF Sound, Typed, Only, Fields
  <2>2. CASE ~first
    BY <1>3, <2>2, Ranges DEF Sound, Typed, Only, Fields
  <2>3. QED
    BY <2>1, <2>2
<1>5. ~there \/ s0.txWaitJob = 0
  <2>1. s.tiltTarget = s0.tiltTarget
    BY <1>4 DEF Only, Fields
  <2> HIDE DEF s
  <2>2. ~first => ~(d * (s0.currentTiltPos - s0.tiltTarget) >= 0)
    <3> DEFINE from == s0.currentTiltPos
               to == s0.tiltTarget
    <3>1. from \in Int /\ to \in Int /\ (~first => d = Toward(from, to)) /\ d # 0
      BY <1>2
    <3> HIDE DEF from, to, d
    <3>2. ~first => ~(d * (from - to) >= 0)
      BY <3>1, Directions
    <3>3. QED
      BY <3>2 DEF from, to
  <2>3. CASE s0.txWaitJob # 0
    BY <1>3, <1>4, <2>1, <2>2, <2>3
  <2>4. QED
    BY <2>3
<1>6. /\ Typed(onward) /\ Only({"startPos"}, s, onward) /\ onward.startPos = s.currentPos
      /\ Typed(reached) /\ Only({"currentTiltPos"}, s, reached)
  <2>1. s.tiltTarget \in Tilts /\ s.currentPos \in Positions
    BY <1>4 DEF Typed
  <2> HIDE DEF s
  <2>2. QED
    BY <1>4, <2>1 DEF Typed, Only, Fields
<1> HIDE DEF s, reached, onward
<1>7. /\ s.txWaitJob = s0.txWaitJob /\ s.settingTiltPos = s0.settingTiltPos /\ s.lastFrame = s0.lastFrame
      /\ s.settingMyPos = s0.settingMyPos /\ s.queue = s0.queue /\ s.currentPos = s0.currentPos
      /\ s.startPos = s0.startPos /\ s.startTiltPos = s0.startTiltPos /\ s.target = s0.target
      /\ s.tiltTarget = s0.tiltTarget /\ s.myPos = s0.myPos
      /\ Quiet(s) /\ (Calm(s0) => Calm(s))
  BY <1>4 DEF Only, Fields, Quiet, Calm
<1>8. Sound(s) /\ KeepsFavorite(s0, s)
  <2>1. Still(s)
    BY <1>3, <1>4, <1>7 DEF Still, Sound
  <2>2. {"currentTiltPos", "moved"} \cap {"tiltType", "simMy", "myPos", "myTiltPos", "queue", "heard"} = {}
    OBVIOUS
  <2>3. s0.tiltType = "tiltonly" => s.currentPos = Full /\ s.target = Full
    BY <1>7 DEF Sound, Down
  <2>4. QED
    BY <1>4, <2>1, <2>2, <2>3, PlacedSound
<1>9. Passes(s0, s)
  BY <1>3, <1>4, <1>7, <1>8 DEF Passes, Ended, Own, KeepsFavorite
<1>10. Passes(s0, onward)
  <2>1. /\ onward.txWaitJob = s.txWaitJob /\ onward.lastFrame = s.lastFrame
        /\ onward.settingMyPos = s.settingMyPos /\ onward.queue = s.queue
        /\ onward.currentPos = s.currentPos /\ onward.currentTiltPos = s.currentTiltPos
        /\ onward.startTiltPos = s.startTiltPos /\ onward.target = s.target
        /\ onward.tiltTarget = s.tiltTarget /\ onward.myPos = s.myPos
        /\ Quiet(onward) /\ (Calm(s) => Calm(onward))
    BY <1>6, <1>7 DEF Only, Fields, Quiet, Calm
  <2>2. Still(onward)
    BY <1>6, <1>8, <2>1 DEF Still, Sound
  <2>3. {"startPos"} \cap {"tiltType", "simMy", "myPos", "myTiltPos", "queue", "heard"} = {}
    OBVIOUS
  <2>4. Sound(onward) /\ KeepsFavorite(s, onward)
    BY <1>6, <1>8, <2>1, <2>2, <2>3, PlacedSound DEF Sound, Down
  <2>5. Passes(s, onward)
    BY <2>1, <2>4 DEF Passes, Ended, Own, KeepsFavorite
  <2>6. QED
    BY <1>9, <2>5, PassesOn
<1>11. ASSUME there PROVE Passes(s0, done)
  <2>1. s0.txWaitJob = 0
    BY <1>5, <1>11
  <2> HIDE DEF there
  <2>2. /\ reached.txWaitJob = 0 /\ reached.settingTiltPos = s0.settingTiltPos /\ reached.lastFrame = s0.lastFrame
        /\ reached.settingMyPos = s0.settingMyPos /\ reached.queue = s0.queue
        /\ reached.currentPos = s.currentPos /\ reached.target = s.target /\ reached.tiltType = s.tiltType
        /\ reached.tiltTarget = s0.tiltTarget /\ reached.myPos = s0.myPos
        /\ Quiet(reached) /\ (Calm(s0) => Calm(reached))
    BY <1>6, <1>7, <2>1 DEF Only, Fields, Quiet, Calm
  <2>3. Sound(reached) /\ KeepsFavorite(s, reached)
    <3>1. {"currentTiltPos"} \cap {"tiltType", "simMy", "myPos", "myTiltPos", "queue", "heard"} = {}
      OBVIOUS
    <3>2. Still(reached)
      BY <2>2 DEF Still
    <3>3. QED
      BY <1>6, <1>8, <2>2, <3>1, <3>2, PlacedSound DEF Sound, Down
  <2>4. stops \in BOOLEAN /\ (stops => s.settingTiltPos)
    <3>1. s.settingTiltPos \in BOOLEAN
      BY <1>4 DEF Typed
    <3>2. QED
      BY <3>1 DEF StopsTilt
  <2> HIDE DEF stops
  <2>5. /\ Sound(stopped) /\ Quiet(stopped) /\ KeepsFavorite(reached, stopped) /\ Only(Sendings, reached, stopped)
        /\ IF stops THEN Own(stopped) ELSE stopped = reached
    BY <2>2, <2>3, <2>4, StoppedIs
  <2> HIDE DEF stopped
  <2>6. /\ Typed(done) /\ Only({"tiltDirection", "settingTiltPos"}, stopped, done) /\ ~done.settingTiltPos
    <3>1. Typed(stopped)
      BY <2>5 DEF Sound
    <3>2. Typed(done)
      BY <3>1 DEF Typed, Fields
    <3>3. Only({"tiltDirection", "settingTiltPos"}, stopped, done) /\ ~done.settingTiltPos
      BY <3>1 DEF Typed, Only, Fields
    <3>4. QED
      BY <3>2, <3>3
  <2> HIDE DEF done
  <2>7. /\ done.target = stopped.target /\ done.tiltTarget = stopped.tiltTarget /\ done.myPos = stopped.myPos
        /\ done.settingMyPos = stopped.settingMyPos
        /\ done.settingPos = stopped.settingPos /\ done.pendingCmd = stopped.pendingCmd
        /\ done.lastFrame = stopped.lastFrame /\ Quiet(done)
    BY <2>5, <2>6 DEF Only, Fields, Quiet
  <2>8. /\ stopped.settingMyPos = reached.settingMyPos /\ stopped.settingPos = reached.settingPos
        /\ stopped.pendingCmd = reached.pendingCmd
        /\ stopped.target = reached.target /\ stopped.tiltTarget = reached.tiltTarget
        /\ stopped.myPos = reached.myPos
    BY <2>5 DEF Only, Fields, Sendings
  <2>9. Sound(done) /\ KeepsFavorite(stopped, done) /\ done.queue = stopped.queue
    <3>1. {"tiltDirection", "settingTiltPos"} \cap Kept = {} /\ done.queue = stopped.queue
      BY <2>6 DEF Kept, Only, Fields
    <3>2. QED
      BY <2>5, <2>6, <2>7, <3>1, StaysSound DEF Sound, Down
  <2>10. KeepsFavorite(s0, done)
    BY <1>8, <2>3, <2>5, <2>9 DEF KeepsFavorite
  <2>11. Calm(s0) => Calm(done) /\ done.queue = s0.queue
    BY <1>7, <2>2, <2>4, <2>5, <2>6, <2>7, <2>8, <2>9 DEF Calm
  <2>12. Ended(s0) => Ended(done)
    BY <2>2, <2>5, <2>7, <2>11 DEF Ended, Own
  <2>13. /\ done.target = s0.target /\ done.tiltTarget = s0.tiltTarget /\ done.myPos = s0.myPos
         /\ done.settingMyPos = s0.settingMyPos
    BY <1>7, <2>2, <2>7, <2>8
  <2>14. QED
    BY <2>1, <2>7, <2>9, <2>10, <2>11, <2>12, <2>13 DEF Passes, KeepsFavorite
<1>12. QED
  BY <1>1, <1>9, <1>10, <1>11 DEF r

\* finishSetMyPosition(): the favourite becomes where the shade is, or none.
LEMMA FinishIs ==
  ASSUME NEW s, Sound(s), Quiet(s)
  PROVE  LET r == FinishSetMyPosition(s)
         IN  /\ Sound(r) /\ Quiet(r) /\ ~r.settingMyPos /\ r.txWaitJob # 0 /\ Own(r)
             /\ r.tiltType = s.tiltType /\ r.simMy = s.simMy
             /\ r.currentPos = s.currentPos /\ r.currentTiltPos = s.currentTiltPos
             /\ r.myPos \in {NoPos, s.currentPos}
<1> DEFINE pos == IF FavoriteIsHere(s) THEN NoPos ELSE s.currentPos
           tilt == IF FavoriteIsHere(s) \/ s.tiltType = "none" THEN NoPos ELSE s.currentTiltPos
           recorded == [s EXCEPT !.myPos = pos, !.myTiltPos = tilt]
           sent == SendFrame(recorded, "My", "set")
           r == FinishSetMyPosition(s)
<1>1. r = [sent EXCEPT !.settingMyPos = FALSE]
  BY DEF FinishSetMyPosition
<1>2. /\ pos \in Positions \cup {NoPos} /\ tilt \in Tilts \cup {NoPos}
      /\ pos = NoPos => tilt = NoPos
      /\ pos \in {NoPos, s.currentPos}
  <2>1. s.currentPos # NoPos /\ s.currentPos \in Positions /\ s.currentTiltPos \in Tilts
    BY Ranges DEF Sound, Typed, Positions, NoPos
  <2>2. QED
    BY <2>1
<1> HIDE DEF pos, tilt, r
<1>3. /\ Typed(recorded) /\ Only({"myPos", "myTiltPos"}, s, recorded)
      /\ recorded.myPos = pos /\ recorded.myTiltPos = tilt
  BY <1>2 DEF Sound, Typed, Only, Fields
<1> HIDE DEF recorded
<1>4. Sound(recorded) /\ recorded.tiltType = s.tiltType /\ recorded.simMy = s.simMy
      /\ recorded.currentPos = s.currentPos /\ recorded.currentTiltPos = s.currentTiltPos
  <2>1. /\ recorded.tiltType = s.tiltType /\ recorded.simMy = s.simMy
        /\ recorded.currentPos = s.currentPos /\ recorded.currentTiltPos = s.currentTiltPos
        /\ recorded.target = s.target /\ recorded.startPos = s.startPos /\ recorded.startTiltPos = s.startTiltPos
        /\ recorded.txWaitJob = s.txWaitJob /\ recorded.queue = s.queue /\ recorded.heard = s.heard
    BY <1>3 DEF Only, Fields
  <2>2. QED
    BY <1>2, <1>3, <2>1 DEF Sound, FavoriteWhole, Down, Still, OneFrameEach
<1>5. "My" \in Commands /\ "set" \in Lengths
  BY DEF Commands, Lengths
<1>6. /\ Sound(sent) /\ sent.txWaitJob # 0 /\ Own(sent) /\ sent.moved = 0 /\ sent.tilted = 0
      /\ Only(Aims \cup Sendings, recorded, sent)
  BY <1>4, <1>5, SendFrameSound
<1> HIDE DEF sent
<1>7. Typed(r) /\ Only({"settingMyPos"}, sent, r) /\ ~r.settingMyPos
  BY <1>1, <1>6 DEF Sound, Typed, Only, Fields
<1>8. /\ r.tiltType = sent.tiltType /\ r.simMy = sent.simMy /\ r.target = sent.target
      /\ r.currentPos = sent.currentPos /\ r.currentTiltPos = sent.currentTiltPos
      /\ r.myPos = sent.myPos /\ r.myTiltPos = sent.myTiltPos
      /\ r.txWaitJob = sent.txWaitJob /\ r.lastFrame = sent.lastFrame /\ Quiet(r)
  BY <1>6, <1>7 DEF Only, Fields, Quiet
<1>9. /\ sent.tiltType = s.tiltType /\ sent.simMy = s.simMy
      /\ sent.currentPos = s.currentPos /\ sent.currentTiltPos = s.currentTiltPos
      /\ sent.myPos = pos /\ sent.myTiltPos = tilt
  BY <1>3, <1>4, <1>6 DEF Only, Fields, Aims, Sendings
<1>10. Sound(r)
  <2>1. {"settingMyPos"} \cap Kept = {}
    BY DEF Kept
  <2>2. QED
    BY <1>6, <1>7, <1>8, <2>1, StaysSound DEF Sound, Down
<1>11. QED
  BY <1>2, <1>6, <1>7, <1>8, <1>9, <1>10 DEF r, Own


\* One pass over the shade.  It leaves none recording that is idle, aims nowhere else,
\* and changes the favourite only to finish a recording where it was sent.
LEMMA CheckMovementIs ==
  ASSUME NEW s0, Sound(s0), Quiet(s0)
  PROVE  LET r == CheckMovement(s0)
             finishes == s0.pendingCmd = "setMyPos" /\ s0.settingMyPos
         IN  /\ Sound(r) /\ Busy(r) /\ (Ended(s0) => Ended(r)) /\ (r.settingMyPos => s0.settingMyPos)
             /\ r.tiltType = s0.tiltType /\ r.simMy = s0.simMy
             /\ s0.txWaitJob # 0 => r.currentPos = s0.currentPos /\ r.currentTiltPos = s0.currentTiltPos
             /\ Calm(s0) => Calm(r) /\ r.queue = s0.queue
             /\ \/ r.myPos = s0.myPos /\ r.target = s0.target /\ r.tiltTarget = s0.tiltTarget
                \/ finishes /\ ~r.settingMyPos /\ r.myPos \in {NoPos, s0.target}
<1> DEFINE p == RunPending(s0)
           s == Directed(p)
           first == s.direction # 0 /\ s.tiltDirection # 0
           lifted == IF s.direction # 0 /\ ~first THEN Lifted(s) ELSE s
           tilted == IF lifted.tiltDirection # 0 THEN Tilted(lifted, first) ELSE lifted
           gapped == StartCmdGap(tilted, "setMyPos")
           cleared == [s0 EXCEPT !.pendingCmd = "none"]
           finished == FinishSetMyPosition(cleared)
           r == CheckMovement(s0)
<1>1. \/ s0.pendingCmd # "none" /\ r = s0
      \/ s0.pendingCmd = "setMyPos" /\ s0.settingMyPos /\ IsAtTarget(s0) /\ r = finished
      \/ tilted.settingMyPos /\ IsAtTarget(tilted) /\ r = gapped
      \/ ~(tilted.settingMyPos /\ IsAtTarget(tilted)) /\ r = tilted
  BY DEF CheckMovement
<1> HIDE DEF r
<1>2. Passes(s0, p)
  BY RunPendingIs
<1> HIDE DEF p
<1>3. /\ Passes(s0, s) /\ s.direction = Toward(s.currentPos, s.target)
      /\ s.tiltDirection # 0 /\ s.direction = 0 => s.tiltDirection = Toward(s.currentTiltPos, s.tiltTarget)
  <2>1. Sound(p) /\ Quiet(p)
    BY <1>2 DEF Passes
  <2>2. /\ Passes(p, s) /\ s.direction = Toward(s.currentPos, s.target)
        /\ s.tiltDirection # 0 /\ s.direction = 0 => s.tiltDirection = Toward(s.currentTiltPos, s.tiltTarget)
    BY <2>1, DirectedIs
  <2>3. QED
    BY <1>2, <2>2, PassesOn
<1> HIDE DEF s
<1>4. Sound(s) /\ Quiet(s)
  BY <1>3 DEF Passes
<1>5. Passes(s0, tilted)
  <2>1. CASE s.direction # 0 /\ ~first
    <3>1. s.tiltDirection = 0 /\ lifted = Lifted(s)
      BY <2>1
    <3> HIDE DEF first
    <3>2. Passes(s, Lifted(s)) /\ Lifted(s).tiltDirection = s.tiltDirection
      BY <1>3, <1>4, <2>1, LiftedIs
    <3>3. lifted.tiltDirection = 0
      BY <3>1, <3>2
    <3>4. tilted = Lifted(s)
      BY <3>1, <3>3
    <3>5. QED
      BY <1>3, <3>2, <3>4, PassesOn
  <2>2. CASE ~(s.direction # 0 /\ ~first)
    <3>1. lifted = s
      BY <2>2
    <3>2. first \in BOOLEAN /\ (~first => s.direction = 0)
      BY <2>2
    <3> HIDE DEF first, lifted
    <3>3. CASE s.tiltDirection # 0
      <4>1. Passes(s, Tilted(s, first))
        BY <1>3, <1>4, <3>2, <3>3, TiltedIs
      <4>2. QED
        BY <1>3, <3>1, <3>3, <4>1, PassesOn
    <3>4. CASE s.tiltDirection = 0
      BY <1>3, <3>1, <3>4
    <3>5. QED
      BY <3>3, <3>4
  <2>3. QED
    BY <2>1, <2>2
<1> HIDE DEF first, lifted, tilted
<1>6. CASE s0.pendingCmd # "none" /\ r = s0
  BY <1>6 DEF Busy, IsIdle, r
<1>7. CASE s0.pendingCmd = "setMyPos" /\ s0.settingMyPos /\ IsAtTarget(s0) /\ r = finished
  <2>1. /\ Typed(cleared) /\ Only({"pendingCmd"}, s0, cleared) /\ cleared.target = s0.target
    BY DEF Sound, Typed, Only, Fields
  <2> HIDE DEF cleared
  <2>2. Sound(cleared) /\ KeepsFavorite(s0, cleared)
    <3>1. {"pendingCmd"} \cap Kept = {}
      BY DEF Kept
    <3>2. QED
      BY <2>1, <3>1, StaysSound DEF Sound, Down
  <2>3. /\ Quiet(cleared) /\ cleared.tiltType = s0.tiltType /\ cleared.simMy = s0.simMy
        /\ cleared.currentPos = s0.currentPos /\ cleared.currentTiltPos = s0.currentTiltPos
    BY <2>1 DEF Only, Fields, Quiet
  <2>4. /\ Sound(r) /\ ~r.settingMyPos /\ Own(r)
        /\ r.tiltType = s0.tiltType /\ r.simMy = s0.simMy
        /\ r.currentPos = s0.currentPos /\ r.currentTiltPos = s0.currentTiltPos
        /\ r.myPos \in {NoPos, s0.currentPos}
    BY <1>7, <2>2, <2>3, FinishIs
  <2>5. s0.currentPos = s0.target
    BY <1>7 DEF IsAtTarget, Sound, Down
  <2>6. QED
    BY <1>7, <2>4, <2>5 DEF Busy, Ended, Calm, r
<1>8. CASE tilted.settingMyPos /\ IsAtTarget(tilted) /\ r = gapped
  <2>1. gapped = [tilted EXCEPT !.pendingCmd = "setMyPos", !.gap = CmdGap]
    BY DEF StartCmdGap
  <2>2. Sound(tilted)
    BY <1>5 DEF Passes
  <2>3. Typed(r) /\ Only({"pendingCmd", "gap"}, tilted, r) /\ r.pendingCmd = "setMyPos"
    <3>1. Typed(tilted) /\ r = [tilted EXCEPT !.pendingCmd = "setMyPos", !.gap = CmdGap]
      BY <1>8, <2>1, <2>2 DEF Sound
    <3>2. Typed(r)
      BY <3>1, Ranges DEF Typed, Fields
    <3>3. Only({"pendingCmd", "gap"}, tilted, r) /\ r.pendingCmd = "setMyPos"
      BY <3>1 DEF Typed, Only, Fields
    <3>4. QED
      BY <3>2, <3>3
  <2>4. /\ r.currentPos = tilted.currentPos /\ r.currentTiltPos = tilted.currentTiltPos
        /\ r.target = tilted.target /\ r.tiltTarget = tilted.tiltTarget /\ r.myPos = tilted.myPos
        /\ r.settingMyPos = tilted.settingMyPos /\ r.lastFrame = tilted.lastFrame
    BY <2>3 DEF Only, Fields
  <2>5. Sound(r) /\ KeepsFavorite(tilted, r)
    <3>1. {"pendingCmd", "gap"} \cap Kept = {}
      BY DEF Kept
    <3>2. QED
      BY <2>2, <2>3, <2>4, <3>1, StaysSound DEF Sound, Down
  <2>6. ~Calm(s0) /\ Busy(r) /\ (Ended(s0) => Ended(r))
    BY <1>5, <1>8, <2>3, <2>4 DEF Calm, Busy, IsIdle, Ended, Passes, Own
  <2>7. QED
    BY <1>5, <2>4, <2>5, <2>6 DEF Passes, KeepsFavorite, r
<1>9. CASE ~(tilted.settingMyPos /\ IsAtTarget(tilted)) /\ r = tilted
  <2>1. Busy(r)
    BY <1>9 DEF Busy, IsIdle
  <2>2. QED
    BY <1>5, <1>9, <2>1 DEF Passes, KeepsFavorite, r
<1>10. QED
  BY <1>1, <1>6, <1>7, <1>8, <1>9


RemoteFrames == [cmd : Commands, code : Nat \ {0}]

\* The loop's pass over the shade.
LEMMA PassIs ==
  ASSUME NEW s, Sound(s), NEW frames \in Seq(RemoteFrames)
  PROVE  LET r == Pass(s, frames)
         IN  /\ Sound(r) /\ Busy(r) /\ (Ended(s) => Ended(r)) /\ (r.settingMyPos => s.settingMyPos)
             /\ r.tiltType = s.tiltType /\ r.simMy = s.simMy
             /\ frames = <<>> /\ (\E i \in 1 .. Len(s.queue) : s.queue[i].job = s.txWaitJob) /\ s.waited <= HoldLimit
                  => r.currentPos = s.currentPos /\ r.currentTiltPos = s.currentTiltPos
             /\ ~s.simMy /\ Ended(s) /\ (s.lastFrame.code # 0 \/ frames # <<>>) => r.queue = s.queue
             /\ frames # <<>> => ~r.settingMyPos /\ r.myPos = s.myPos
             /\ frames = <<>> /\ Own(s) =>
                  \/ r.myPos = s.myPos /\ r.target = s.target /\ r.tiltTarget = s.tiltTarget
                  \/ ~r.settingMyPos /\ r.myPos \in {NoPos, s.target}
<1> DEFINE p == IF frames = <<>> THEN ProcessWaitingFrame(s) ELSE ProcessRemoteFrame(s, Head(frames))
           h == TxHold(Anchored(p))
           r == Pass(s, frames)
           queued(x) == \E i \in 1 .. Len(x.queue) : x.queue[i].job = x.txWaitJob
           held == {"txWaitJob", "waited", "moved", "tilted", "heard"}
<1>1. r = CheckMovement(h)
  BY DEF Pass
<1> HIDE DEF r
<1>2. /\ Sound(p) /\ p.tiltType = s.tiltType /\ p.simMy = s.simMy /\ (Ended(s) => Ended(p))
      /\ p.settingMyPos => s.settingMyPos
      /\ frames = <<>> /\ Own(s) => p = s
      /\ frames = <<>> => /\ p.pendingCmd = s.pendingCmd
                          /\ ~IsIdle(s) => Only(Turning, s, p)
                          /\ ~s.simMy => /\ p.queue = s.queue
                                         /\ Calm(s) => Calm(p)
      /\ frames # <<>> => Calm(p) /\ p.queue = s.queue /\ p.myPos = s.myPos
  <2>1. CASE frames = <<>>
    BY <2>1, WaitingFrameIs
  <2>2. CASE frames # <<>>
    <3>1. Head(frames) \in RemoteFrames
      BY <2>2
    <3>2. Head(frames).cmd \in Commands /\ Head(frames).code \in Nat
      BY <3>1 DEF RemoteFrames
    <3>3. /\ Sound(p) /\ Calm(p) /\ p.tiltType = s.tiltType /\ p.simMy = s.simMy /\ p.queue = s.queue
          /\ p.myPos = s.myPos
      BY <2>2, <3>2, RemoteFrameIs
    <3>4. QED
      BY <2>2, <3>3 DEF Ended, Calm
  <2>3. QED
    BY <2>1, <2>2
<1> HIDE DEF p
<1>3. /\ Sound(h) /\ Quiet(h) /\ Only(held, p, h)
      /\ queued(p) /\ p.waited <= HoldLimit => h.txWaitJob # 0
  BY <1>2, HeldIs
<1> HIDE DEF h
<1>4. /\ h.tiltType = p.tiltType /\ h.simMy = p.simMy /\ h.queue = p.queue
      /\ h.settingMyPos = p.settingMyPos /\ h.pendingCmd = p.pendingCmd /\ h.lastFrame = p.lastFrame
      /\ h.currentPos = p.currentPos /\ h.currentTiltPos = p.currentTiltPos
      /\ h.myPos = p.myPos /\ h.target = p.target /\ h.tiltTarget = p.tiltTarget
      /\ Calm(h) <=> Calm(p)
      /\ Own(h) <=> Own(p)
  BY <1>3 DEF Only, Fields, Calm, Own
<1>5. /\ Sound(r) /\ Busy(r) /\ (Ended(h) => Ended(r)) /\ (r.settingMyPos => h.settingMyPos)
      /\ r.tiltType = h.tiltType /\ r.simMy = h.simMy
      /\ h.txWaitJob # 0 => r.currentPos = h.currentPos /\ r.currentTiltPos = h.currentTiltPos
      /\ Calm(h) => r.queue = h.queue
      /\ \/ r.myPos = h.myPos /\ r.target = h.target /\ r.tiltTarget = h.tiltTarget
         \/ h.settingMyPos /\ ~r.settingMyPos /\ r.myPos \in {NoPos, h.target}
  BY <1>1, <1>3, CheckMovementIs
<1>6. /\ Sound(r) /\ Busy(r) /\ (Ended(s) => Ended(r)) /\ (r.settingMyPos => s.settingMyPos)
      /\ r.tiltType = s.tiltType /\ r.simMy = s.simMy
  BY <1>2, <1>4, <1>5 DEF Ended
<1>7. frames = <<>> /\ ~IsIdle(s) => /\ p.txWaitJob = s.txWaitJob /\ p.waited = s.waited /\ p.queue = s.queue
                                     /\ p.currentPos = s.currentPos /\ p.currentTiltPos = s.currentTiltPos
  BY <1>2 DEF Only, Fields, Turning, Aims
<1>8. ASSUME frames = <<>>, queued(s), s.waited <= HoldLimit
      PROVE  r.currentPos = s.currentPos /\ r.currentTiltPos = s.currentTiltPos
  <2>1. s.txWaitJob # 0
    <3>1. \A i \in 1 .. Len(s.queue) : s.queue[i] \in Frames
      BY DEF Sound, Typed
    <3>2. QED
      BY <1>8, <3>1 DEF Frames, JobIds
  <2>2. ~IsIdle(s)
    BY <2>1 DEF IsIdle
  <2>3. queued(p) /\ p.waited <= HoldLimit
    BY <1>7, <1>8, <2>2
  <2>4. QED
    BY <1>3, <1>4, <1>5, <1>7, <1>8, <2>2, <2>3
<1>9. ASSUME ~s.simMy, Ended(s), s.lastFrame.code # 0 \/ frames # <<>> PROVE r.queue = s.queue
  <2>1. Calm(p) /\ p.queue = s.queue
    BY <1>2, <1>9 DEF Ended, Own
  <2>2. QED
    BY <1>4, <1>5, <2>1
<1>10. frames # <<>> => ~r.settingMyPos /\ r.myPos = s.myPos
  BY <1>2, <1>4, <1>5 DEF Calm
<1>11. frames = <<>> /\ Own(s) =>
         \/ r.myPos = s.myPos /\ r.target = s.target /\ r.tiltTarget = s.tiltTarget
         \/ ~r.settingMyPos /\ r.myPos \in {NoPos, s.target}
  BY <1>2, <1>4, <1>5
<1>12. QED
  BY <1>6, <1>8, <1>9, <1>10, <1>11 DEF r, queued

\* Time moves nothing.
LEMMA AgedIs ==
  ASSUME NEW s, Sound(s)
  PROVE  LET r == Aged(s)
         IN  /\ Sound(r) /\ Only({"moved", "tilted", "gap", "waited", "lastFrame", "heard"}, s, r)
             /\ Ended(s) <=> Ended(r)
             /\ Busy(s) <=> Busy(r)
<1> DEFINE moved == AtMost(Full, s.moved + 1)
           tilted == AtMost(TiltFull, s.tilted + 1)
           gap == AtLeast(0, s.gap - 1)
           waited == IF s.txWaitJob = 0 THEN 0 ELSE AtMost(HoldLimit + 1, s.waited + 1)
           await == IF s.lastFrame.await = Unset THEN Unset ELSE AtLeast(0, s.lastFrame.await - 1)
           frame == [s.lastFrame EXCEPT !.await = await]
           heard == {[e EXCEPT !.age = AtMost(AtLeast(Full, TiltFull), @ + 1)] : e \in s.heard}
           r == Aged(s)
<1>1. r = [s EXCEPT !.moved = moved, !.tilted = tilted, !.gap = gap, !.waited = waited,
                    !.lastFrame = frame, !.heard = heard]
  BY DEF Aged
<1> HIDE DEF r
<1>2. moved \in Positions /\ tilted \in Tilts /\ gap \in Nat /\ waited \in Nat
  <2>1. /\ s.moved \in 0 .. Full /\ s.tilted \in 0 .. TiltFull /\ s.gap \in Nat /\ s.waited \in Nat
        /\ Full \in Nat /\ TiltFull \in Nat /\ HoldLimit \in Nat
    BY Ranges DEF Sound, Typed, Positions, Tilts
  <2>2. QED
    BY <2>1 DEF AtMost, AtLeast, Positions, Tilts
<1>3. frame \in LastFrames /\ frame.code = s.lastFrame.code /\ frame.processed = s.lastFrame.processed
  <2>1. s.lastFrame \in LastFrames
    BY DEF Sound, Typed
  <2>2. await \in Nat \cup {Unset}
    <3>1. s.lastFrame.await \in Nat \cup {Unset}
      BY <2>1 DEF LastFrames
    <3>2. QED
      BY <3>1 DEF AtLeast, Unset
  <2> HIDE DEF await
  <2>3. QED
    BY <2>1, <2>2 DEF LastFrames
<1>4. heard \in SUBSET Events /\ IsFiniteSet(heard) /\ (\A e \in heard : \E x \in s.heard : e.job = x.job)
  <2> DEFINE older(e) == [e EXCEPT !.age = AtMost(AtLeast(Full, TiltFull), @ + 1)]
             f == [e \in s.heard |-> older(e)]
  <2>1. \A e \in s.heard : older(e) \in Events /\ older(e).job = e.job
    <3>1. \A x \in Nat : AtMost(AtLeast(Full, TiltFull), x + 1) \in Nat
      BY Ranges DEF AtMost, AtLeast
    <3>2. \A e \in s.heard : e \in Events
      BY DEF Sound, Typed
    <3>3. QED
      BY <3>1, <3>2 DEF Events
  <2>2. f \in Surjection(s.heard, heard)
    BY DEF Surjection
  <2>3. IsFiniteSet(heard)
    BY <2>2, FS_Surjection DEF Sound, Typed
  <2>4. QED
    BY <2>1, <2>3
<1> HIDE DEF moved, tilted, gap, waited, frame, heard
<1>5. Typed(r)
  BY <1>1, <1>2, <1>3, <1>4 DEF Sound, Typed, Fields
<1>6. /\ Only({"moved", "tilted", "gap", "waited", "lastFrame", "heard"}, s, r)
      /\ r.lastFrame = frame /\ r.heard = heard
  BY <1>1 DEF Sound, Typed, Fields, Only
<1>7. /\ r.tiltType = s.tiltType /\ r.simMy = s.simMy /\ r.queue = s.queue /\ r.txWaitJob = s.txWaitJob
      /\ r.currentPos = s.currentPos /\ r.currentTiltPos = s.currentTiltPos /\ r.target = s.target
      /\ r.startPos = s.startPos /\ r.startTiltPos = s.startTiltPos
      /\ r.myPos = s.myPos /\ r.myTiltPos = s.myTiltPos /\ r.settingMyPos = s.settingMyPos
      /\ Calm(r) <=> Calm(s)
      /\ IsIdle(r) <=> IsIdle(s)
  BY <1>6 DEF Only, Fields, Calm, IsIdle, IsAtTarget
<1>8. Sound(r)
  BY <1>4, <1>5, <1>6, <1>7 DEF Sound, FavoriteWhole, Down, Still, OneFrameEach
<1>9. (Ended(s) <=> Ended(r)) /\ (Busy(s) <=> Busy(r))
  BY <1>3, <1>6, <1>7 DEF Ended, Busy, Own
<1>10. QED
  BY <1>6, <1>8, <1>9 DEF r


-----------------------------------------------------------------------------
(* The system.                                                             *)

\* Orders of a place to go to: none ends a recording, and the last may leave the shade
\* without anything to do before the recording is finished.
Positionings == {"target", "tilt Up", "tilt Down", "tilt target"}

LEMMA OrderedIs ==
  ASSUME NEW s, Sound(s), NEW o \in Orders, NEW r \in Ordered(s, o)
  PROVE  /\ Sound(r) /\ r.tiltType = s.tiltType /\ r.simMy = s.simMy
         /\ (o = "tilt target" => s.tiltType = "tiltmotor") /\ Ended(s) => Ended(r)
         /\ r.settingMyPos => s.settingMyPos \/ o = "set my"
         /\ o # "tilt target" /\ Busy(s) => Busy(r)
         /\ o \notin Positionings /\ Busy(s) /\ s.settingMyPos =>
              r = s \/ (~r.settingMyPos /\ r.myPos \in {s.myPos, NoPos})
<1> DEFINE commanded == {SendCommand(s, o)}
           moved == {MoveToTarget(s, p, NoPos) : p \in Positions}
           turned == {MoveToTiltTarget(s, t) : t \in Tilts}
           set == {SetMyPosition(s, g.pos, g.tilt) :
                     g \in [pos : Positions, tilt : IF s.tiltType = "none" THEN {NoPos} ELSE Tilts]}
           tiltUp == {SendTiltCommand(s, "Up")}
           tiltDown == {SendTiltCommand(s, "Down")}
           groupUp == {GroupCommand(s, "Up")}
           groupDown == {GroupCommand(s, "Down")}
           groupMy == {GroupCommand(s, "My")}
<1>0. /\ o \in Commands => Ordered(s, o) = commanded
      /\ o = "target" => Ordered(s, o) = moved
      /\ o = "tilt target" => Ordered(s, o) = turned
      /\ o = "set my" => Ordered(s, o) = set
      /\ o = "tilt Up" => Ordered(s, o) = tiltUp
      /\ o = "tilt Down" => Ordered(s, o) = tiltDown
      /\ o = "group Up" => Ordered(s, o) = groupUp
      /\ o = "group Down" => Ordered(s, o) = groupDown
      /\ o = "group My" => Ordered(s, o) = groupMy
  <2>1. Ordered(s, o) = CASE o \in Commands -> commanded
                          [] o = "target" -> moved
                          [] o = "tilt target" -> turned
                          [] o = "set my" -> set
                          [] o = "tilt Up" -> tiltUp
                          [] o = "tilt Down" -> tiltDown
                          [] o = "group Up" -> groupUp
                          [] o = "group Down" -> groupDown
                          [] o = "group My" -> groupMy
    BY DEF Ordered
  <2> HIDE DEF commanded, moved, turned, set, tiltUp, tiltDown, groupUp, groupDown, groupMy
  <2>2. QED
    BY <2>1 DEF Commands
<1> HIDE DEF commanded, moved, turned, set, tiltUp, tiltDown, groupUp, groupDown, groupMy
<1>1. CASE o \in Commands
  <2>1. r = SendCommand(s, o)
    BY <1>0, <1>1 DEF commanded
  <2>2. Sound(r) /\ KeepsFavorite(s, r) /\ ~r.settingMyPos /\ (Ended(s) => Ended(r))
    BY <1>1, <2>1, SendCommandIs
  <2>3. QED
    BY <2>2 DEF KeepsFavorite, Busy
<1>2. CASE o = "target"
  <2>1. PICK p \in Positions : r = MoveToTarget(s, p, NoPos)
    BY <1>0, <1>2 DEF moved
  <2> DEFINE moves == IF s.tiltType = "tiltonly" THEN NoPos # s.currentTiltPos
                      ELSE p # s.currentPos \/ (NoPos # NoPos /\ NoPos # s.currentTiltPos)
  <2>2. /\ Sound(r) /\ KeepsFavorite(s, r) /\ r.settingMyPos = s.settingMyPos
        /\ moves => r.txWaitJob # 0 /\ Own(r)
        /\ ~moves => Only({"myPos"}, s, r)
    BY <2>1, MoveToTargetIs
  <2> HIDE DEF moves
  <2>3. Ended(s) => Ended(r)
    BY <2>2 DEF Ended, Calm, Only, Fields, Own
  <2>4. Busy(s) => Busy(r)
    BY <2>2 DEF Busy, IsIdle, IsAtTarget, Only, Fields
  <2>5. QED
    BY <1>2, <2>2, <2>3, <2>4 DEF KeepsFavorite, Positionings
<1>3. CASE o = "tilt target"
  <2>1. PICK t \in Tilts : r = MoveToTiltTarget(s, t)
    BY <1>0, <1>3 DEF turned
  <2> DEFINE moves == t # s.currentTiltPos /\ (s.currentPos = s.target \/ s.tiltType = "tiltmotor")
  <2>2. /\ Sound(r) /\ KeepsFavorite(s, r)
        /\ Only({"tiltTarget", "settingTiltPos"} \cup Aims \cup Sendings, s, r)
        /\ moves => r.txWaitJob # 0 /\ Own(r)
        /\ ~moves => Only({"tiltTarget", "settingTiltPos"}, s, r)
        /\ t = s.currentTiltPos => r.settingTiltPos = s.settingTiltPos
    BY <2>1, MoveToTiltTargetIs
  <2>3. s.tiltType = "tiltmotor" => moves \/ t = s.currentTiltPos
    OBVIOUS
  <2> HIDE DEF moves
  <2>4. s.tiltType = "tiltmotor" /\ Ended(s) => Ended(r)
    BY <2>2, <2>3 DEF Ended, Calm, Only, Fields, Own
  <2>5. r.settingMyPos = s.settingMyPos
    BY <2>2 DEF Only, Fields, Aims, Sendings
  <2>6. QED
    BY <1>3, <2>2, <2>4, <2>5 DEF KeepsFavorite, Positionings
<1>4. CASE o = "set my"
  <2>1. PICK p \in Positions, t \in IF s.tiltType = "none" THEN {NoPos} ELSE Tilts : r = SetMyPosition(s, p, t)
    BY <1>0, <1>4 DEF set
  <2>2. /\ Sound(r) /\ r.tiltType = s.tiltType /\ r.simMy = s.simMy
        /\ \/ ~IsIdle(s) /\ r = s
           \/ IsIdle(s) /\ r.txWaitJob # 0 /\ Own(r)
    BY <2>1, SetMyPositionIs
  <2>3. QED
    BY <1>4, <2>2 DEF Ended, Busy, IsIdle
<1>5. CASE o \in {"tilt Up", "tilt Down"}
  <2>1. PICK cmd \in {"Up", "Down"} : r = SendTiltCommand(s, cmd)
    BY <1>0, <1>5 DEF tiltUp, tiltDown
  <2>2. /\ Sound(r) /\ KeepsFavorite(s, r) /\ Own(r) /\ r.settingMyPos = s.settingMyPos
        /\ r.txWaitJob # 0
    BY <2>1, SendTiltCommandIs
  <2>3. QED
    BY <1>5, <2>2 DEF KeepsFavorite, Positionings, Ended, Busy, IsIdle
<1>6. CASE o \in {"group Up", "group Down", "group My"}
  <2>1. PICK cmd \in {"Up", "Down", "My"} : r = GroupCommand(s, cmd)
    BY <1>0, <1>6 DEF groupUp, groupDown, groupMy
  <2>2. Sound(r) /\ KeepsFavorite(s, r) /\ ~r.settingMyPos /\ (Ended(s) => Ended(r))
    BY <2>1, GroupCommandIs
  <2>3. QED
    BY <2>2 DEF KeepsFavorite, Busy
<1>7. QED
  BY <1>1, <1>2, <1>3, <1>4, <1>5, <1>6 DEF Orders

\* The radio has sent a frame, and may report it.
Sent(s, i, reported) ==
  [s EXCEPT !.queue = [k \in 1 .. Len(@) - 1 |-> IF k < i THEN @[k] ELSE @[k + 1]],
            !.heard = IF reported THEN @ \cup {[job |-> s.queue[i].job, age |-> 0]} ELSE @]

LEMMA SentIs ==
  ASSUME NEW s, Sound(s), NEW i \in DOMAIN s.queue, NEW reported \in BOOLEAN
  PROVE  LET r == Sent(s, i, reported)
         IN  Sound(r) /\ Only({"queue", "heard"}, s, r) /\ Len(r.queue) = Len(s.queue) - 1
<1> DEFINE n == Len(s.queue)
           at(k) == IF k < i THEN k ELSE k + 1
           left == [k \in 1 .. n - 1 |-> IF k < i THEN s.queue[k] ELSE s.queue[k + 1]]
           event == [job |-> s.queue[i].job, age |-> 0]
           heard == IF reported THEN s.heard \cup {event} ELSE s.heard
           r == [s EXCEPT !.queue = left, !.heard = heard]
<1>1. /\ n \in Nat /\ i \in 1 .. n /\ \A k \in 1 .. n : s.queue[k] \in Frames
      /\ s.heard \in SUBSET Events /\ IsFiniteSet(s.heard)
  BY DEF Sound, Typed
<1> HIDE DEF n
<1>2. /\ \A k \in 1 .. n - 1 : at(k) \in 1 .. n /\ at(k) # i /\ left[k] = s.queue[at(k)]
      /\ \A j, k \in 1 .. n - 1 : at(j) = at(k) => j = k
  BY <1>1
<1> HIDE DEF at
<1>3. left \in Seq(Frames) /\ Len(left) = n - 1
  <2>1. n - 1 \in Nat /\ DOMAIN left = 1 .. n - 1
    BY <1>1
  <2>2. \A k \in 1 .. n - 1 : left[k] \in Frames
    BY <1>1, <1>2
  <2>3. left \in [1 .. n - 1 -> Frames]
    BY <2>2
  <2> HIDE DEF left
  <2>4. QED
    BY <2>1, <2>3
<1>4. /\ heard \in SUBSET Events /\ IsFiniteSet(heard)
      /\ \A e \in heard : e \in s.heard \/ e.job = s.queue[i].job
  <2>1. s.queue[i].job \in JobIds
    BY <1>1 DEF Frames
  <2>2. event \in Events /\ event.job = s.queue[i].job
    BY <2>1 DEF Events
  <2>3. IsFiniteSet(s.heard \cup {event})
    BY <1>1, FS_AddElement
  <2>4. QED
    BY <1>1, <2>2, <2>3
<1> HIDE DEF left, heard
<1>5. /\ Typed(r) /\ Only({"queue", "heard"}, s, r) /\ r.queue = left /\ r.heard = heard
  BY <1>3, <1>4 DEF Sound, Typed, Only, Fields
<1>6. OneFrameEach(r)
  <2>1. ASSUME NEW j \in 1 .. n - 1, NEW k \in 1 .. n - 1, left[j].job = left[k].job PROVE j = k
    BY <1>2, <2>1, ZenonT(60) DEF Sound, OneFrameEach, n
  <2>2. ASSUME NEW k \in 1 .. n - 1, NEW e \in heard PROVE e.job # left[k].job
    <3>1. at(k) \in 1 .. n /\ at(k) # i /\ left[k] = s.queue[at(k)]
      BY <1>2
    <3>2. CASE e \in s.heard
      BY <3>1, <3>2 DEF Sound, OneFrameEach, n
    <3>3. CASE e.job = s.queue[i].job
      BY <1>1, <3>1, <3>3 DEF Sound, OneFrameEach, n
    <3>4. QED
      BY <1>4, <3>2, <3>3
  <2>3. QED
    BY <1>3, <1>5, <2>1, <2>2 DEF OneFrameEach
<1>7. Sound(r)
  <2>1. /\ r.tiltType = s.tiltType /\ r.currentPos = s.currentPos /\ r.currentTiltPos = s.currentTiltPos
        /\ r.target = s.target /\ r.startPos = s.startPos /\ r.startTiltPos = s.startTiltPos
        /\ r.myPos = s.myPos /\ r.myTiltPos = s.myTiltPos /\ r.txWaitJob = s.txWaitJob
    BY <1>5 DEF Only, Fields
  <2>2. QED
    BY <1>5, <1>6, <2>1 DEF Sound, FavoriteWhole, Down, Still
<1>8. Sent(s, i, reported) = r
  BY DEF Sent, n, left, heard
<1> HIDE DEF r
<1>9. QED
  BY <1>3, <1>5, <1>7, <1>8 DEF n


Motors == [pos : Positions, goal : Positions, tilt : Tilts, tiltGoal : Tilts, my : Positions \cup {NoPos}]

\* The motor stays between its ends, and goes nowhere else.
LEMMA HearsIs ==
  ASSUME Sound(shade), NEW m \in Motors, NEW cmd \in Commands, NEW length \in Lengths
  PROVE  Hears(m, cmd, length) \in Motors
<1>1. /\ m.pos \in Positions /\ m.goal \in Positions /\ m.tilt \in Tilts /\ m.tiltGoal \in Tilts
      /\ m.my \in Positions \cup {NoPos}
  BY DEF Motors
<1>2. Stopped(m) \in Motors
  BY DEF Stopped, Motors
<1>3. Driven(m, -1, length) \in Motors /\ Driven(m, 1, length) \in Motors
  <2>1. ASSUME NEW dir \in {-1, 1} PROVE Driven(m, dir, length) \in Motors
    <3> DEFINE goal == IF ~Lifts(length) THEN m.goal ELSE IF dir < 0 THEN 0 ELSE Full
               tiltGoal == IF ~Turns(length) THEN m.tiltGoal ELSE IF dir < 0 THEN 0 ELSE TiltFull
    <3>1. goal \in Positions /\ tiltGoal \in Tilts
      BY <1>1, Ranges
    <3>2. Driven(m, dir, length) = [m EXCEPT !.goal = goal, !.tiltGoal = tiltGoal]
      BY DEF Driven
    <3> HIDE DEF goal, tiltGoal
    <3>3. QED
      BY <3>1, <3>2 DEF Motors
  <2>2. QED
    BY <2>1
<1>4. Stepped(m, -1) \in Motors /\ Stepped(m, 1) \in Motors
  <2>1. ASSUME NEW dir \in {-1, 1} PROVE Stepped(m, dir) \in Motors
    <3> DEFINE end == IF dir < 0 THEN 0 ELSE TiltFull
               tilts == shade.tiltType = "tiltonly" \/ (shade.tiltType = "integrated" /\ m.tilt # end)
               pos == AtLeast(0, AtMost(Full, m.pos + dir))
               tilt == AtLeast(0, AtMost(TiltFull, m.tilt + dir))
               stopped == Stopped(m)
               goal == IF tilts THEN stopped.goal ELSE pos
               tiltGoal == IF tilts THEN tilt ELSE stopped.tiltGoal
    <3>1. m.pos + dir \in Int /\ m.tilt + dir \in Int /\ Full \in Nat /\ TiltFull \in Nat
      BY <1>1, Ranges DEF Positions, Tilts
    <3>2. pos \in Positions /\ tilt \in Tilts
      BY <3>1, Clamps DEF Positions, Tilts
    <3>3. Stepped(m, dir) = [stopped EXCEPT !.goal = goal, !.tiltGoal = tiltGoal]
      BY DEF Stepped
    <3> HIDE DEF pos, tilt, tilts, stopped
    <3>4. stopped \in Motors
      BY <1>2 DEF stopped
    <3>5. goal \in Positions /\ tiltGoal \in Tilts
      BY <3>2, <3>4 DEF Motors
    <3> HIDE DEF goal, tiltGoal
    <3>6. QED
      BY <3>3, <3>4, <3>5 DEF Motors
  <2>2. QED
    BY <2>1
<1>5. [m EXCEPT !.my = IF m.my = m.pos THEN NoPos ELSE m.pos] \in Motors
  <2> DEFINE my == IF m.my = m.pos THEN NoPos ELSE m.pos
  <2>1. my \in Positions \cup {NoPos}
    BY <1>1
  <2> HIDE DEF my
  <2>2. [m EXCEPT !.my = my] \in Motors
    BY <2>1 DEF Motors
  <2>3. QED
    BY <2>2 DEF my
<1>6. m.my # NoPos => [m EXCEPT !.goal = m.my] \in Motors
  BY <1>1 DEF Motors
<1>7. QED
  BY <1>2, <1>3, <1>4, <1>5, <1>6 DEF Hears, Commands

LEMMA MovedIs ==
  ASSUME NEW m \in Motors
  PROVE  Moved(m) \in Motors
<1>1. /\ m.pos \in 0 .. Full /\ m.goal \in 0 .. Full /\ m.tilt \in 0 .. TiltFull /\ m.tiltGoal \in 0 .. TiltFull
      /\ Full \in Nat /\ TiltFull \in Nat
  BY Ranges DEF Motors, Positions, Tilts
<1> DEFINE tilt == m.tilt + Toward(m.tilt, m.tiltGoal)
           pos == m.pos + Toward(m.pos, m.goal)
<1>2. tilt \in Tilts /\ pos \in Positions
  BY <1>1 DEF Toward, Tilts, Positions
<1>3. Moved(m) = IF m.tilt # m.tiltGoal THEN [m EXCEPT !.tilt = tilt] ELSE [m EXCEPT !.pos = pos]
  BY DEF Moved
<1> HIDE DEF tilt, pos
<1>4. QED
  BY <1>2, <1>3 DEF Motors

\* The kind of the shade.
Known == \E k \in Kinds : k.tiltType = shade.tiltType /\ k.simMy = shade.simMy

LEMMA KindIs ==
  ASSUME Known
  PROVE  /\ Kind \in Kinds /\ Kind.tiltType = shade.tiltType /\ Kind.simMy = shade.simMy
         /\ Kind.orders \subseteq Orders /\ Kind.presses \subseteq Presses
<1>1. Kind \in Kinds /\ Kind.tiltType = shade.tiltType /\ Kind.simMy = shade.simMy
  BY DEF Known, Kind
<1>2. QED
  BY <1>1, SystemAssumption

\* What every state is.
SystemSound ==
  /\ Sound(shade) /\ Known
  /\ motor \in Motors
  /\ received \in Seq(RemoteFrames)
  /\ orders \in Nat /\ presses \in Nat /\ lost \in Nat
  /\ shade.settingMyPos => "set my" \in Kind.orders

LEMMA InitSound == Init => SystemSound /\ Ended(shade) /\ Busy(shade)
<1> SUFFICES ASSUME Init PROVE SystemSound /\ Ended(shade) /\ Busy(shade)
  OBVIOUS
<1>1. PICK k \in Kinds, p \in {0, Full} : \E my \in k.favorites :
        shade = Resting(k.tiltType, k.simMy, IF k.tiltType = "tiltonly" THEN Full ELSE p, my, NoPos)
  BY DEF Init
<1> DEFINE pos == IF k.tiltType = "tiltonly" THEN Full ELSE p
<1>2. PICK my \in k.favorites : shade = Resting(k.tiltType, k.simMy, pos, my, NoPos)
  BY <1>1
<1>3. /\ k.tiltType \in TiltTypes /\ k.simMy \in BOOLEAN /\ my \in Positions \cup {NoPos}
      /\ pos \in Positions /\ (k.tiltType = "tiltonly" => pos = Full)
  BY SystemAssumption, Ranges
<1> HIDE DEF pos
<1> DEFINE frame == [cmd |-> "My", code |-> 0, processed |-> TRUE, repeats |-> 0, await |-> Unset]
<1>4. frame \in LastFrames /\ frame.code = 0 /\ frame.processed
  BY DEF LastFrames, Commands
<1>5. shade.lastFrame = frame
  BY <1>2 DEF Resting
<1>6. <<>> \in Seq(Frames) /\ {} \in SUBSET Events /\ IsFiniteSet({})
  BY FS_EmptySet
<1>7. DOMAIN shade = Fields
  BY <1>2 DEF Resting, Fields
<1> HIDE DEF frame
<1>8. Typed(shade)
  <2>1. /\ shade.tiltType = k.tiltType /\ shade.simMy = k.simMy
        /\ shade.currentPos = pos /\ shade.target = pos /\ shade.startPos = pos /\ shade.moved = 0
        /\ shade.currentTiltPos = 0 /\ shade.tiltTarget = 0 /\ shade.startTiltPos = 0 /\ shade.tilted = 0
        /\ shade.direction = 0 /\ shade.tiltDirection = 0
        /\ shade.myPos = my /\ shade.myTiltPos = NoPos
    BY <1>2 DEF Resting
  <2>2. /\ shade.settingPos = FALSE /\ shade.settingTiltPos = FALSE /\ shade.settingMyPos = FALSE
        /\ shade.pendingCmd = "none" /\ shade.gap = 0 /\ shade.txWaitJob = 0 /\ shade.waited = 0
        /\ shade.queue = <<>> /\ shade.heard = {}
    BY <1>2 DEF Resting
  <2>3. /\ shade.direction \in -1 .. 1 /\ shade.tiltDirection \in -1 .. 1
        /\ shade.gap \in Nat /\ shade.txWaitJob \in Nat /\ shade.waited \in Nat
    BY <2>1, <2>2
  <2>4. /\ shade.queue \in Seq(Frames) /\ shade.heard \in SUBSET Events /\ IsFiniteSet(shade.heard)
    BY <1>6, <2>2
  <2>5. /\ shade.currentPos \in Positions /\ shade.target \in Positions /\ shade.startPos \in Positions
        /\ shade.moved \in Positions
        /\ shade.currentTiltPos \in Tilts /\ shade.tiltTarget \in Tilts /\ shade.startTiltPos \in Tilts
        /\ shade.tilted \in Tilts
        /\ shade.myPos \in Positions \cup {NoPos} /\ shade.myTiltPos \in Tilts \cup {NoPos}
    BY <1>3, <2>1, Ranges
  <2>6. /\ shade.settingPos \in BOOLEAN /\ shade.settingTiltPos \in BOOLEAN /\ shade.settingMyPos \in BOOLEAN
    BY <2>2
  <2>7. QED
    BY <1>3, <1>4, <1>5, <1>7, <2>1, <2>2, <2>3, <2>4, <2>5, <2>6 DEF Typed
<1>9. /\ shade.txWaitJob = 0 /\ shade.queue = <<>> /\ shade.heard = {}
      /\ shade.tiltType = k.tiltType /\ shade.simMy = k.simMy
      /\ shade.currentPos = pos /\ shade.target = pos /\ shade.myTiltPos = NoPos
      /\ ~shade.settingMyPos /\ shade.myPos = my
  BY <1>2 DEF Resting
<1>10. Sound(shade)
  BY <1>3, <1>8, <1>9 DEF Sound, FavoriteWhole, Down, Still, OneFrameEach
<1>11. Known
  BY <1>9 DEF Known
<1>12. motor \in Motors
  BY <1>3, <1>9, Ranges DEF Init, Motors
<1>13. QED
  <2>1. received = <<>> /\ orders = 0 /\ presses = 0 /\ lost = 0
    BY DEF Init
  <2>2. received \in Seq(RemoteFrames)
    BY <2>1
  <2>3. QED
    BY <1>4, <1>5, <1>9, <1>10, <1>11, <1>12, <2>1, <2>2 DEF SystemSound, Ended, Own, Busy


\* What the steps do to a shade.
LEMMA Steps ==
  ASSUME SystemSound, [Next]_vars
  PROVE  /\ motor' \in Motors /\ received' \in Seq(RemoteFrames)
         /\ orders' \in Nat /\ presses' \in Nat /\ lost' \in Nat
         /\ \/ \E o \in Kind.orders : shade' \in Ordered(shade, o) /\ orders' = orders + 1
            \/ /\ orders' = orders
               /\ \/ shade' = shade
                  \/ \E i \in DOMAIN shade.queue, reported \in BOOLEAN : shade' = Sent(shade, i, reported)
                  \/ shade' = Pass(shade, received)
                  \/ shade' = Aged(shade)
<1>1. /\ Sound(shade) /\ motor \in Motors /\ received \in Seq(RemoteFrames)
      /\ orders \in Nat /\ presses \in Nat /\ lost \in Nat
      /\ Kind.presses \subseteq Presses
  BY KindIs DEF SystemSound
<1>2. CASE UNCHANGED vars
  BY <1>1, <1>2 DEF vars
<1>3. ASSUME NEW o \in Kind.orders, Order(o)
      PROVE  /\ shade' \in Ordered(shade, o) /\ orders' = orders + 1
             /\ UNCHANGED <<motor, received, presses, lost>>
  BY <1>3 DEF Order
<1>4. ASSUME NEW p \in Kind.presses, Press(p)
      PROVE  /\ motor' \in Motors /\ received' \in Seq(RemoteFrames) /\ presses' \in Nat
             /\ UNCHANGED <<shade, orders, lost>>
  <2> DEFINE f == Pressed(p)
             frame == [cmd |-> f.cmd, code |-> presses + 1]
  <2>1. /\ presses' = presses + 1 /\ motor' = Hears(motor, f.cmd, f.length)
        /\ received' = [i \in 1 .. f.repeats + 1 |-> [cmd |-> f.cmd, code |-> presses']]
        /\ UNCHANGED <<shade, orders, lost>>
    BY <1>4 DEF Press
  <2>2. f.cmd \in Commands /\ f.length \in Lengths /\ f.repeats \in Nat
    <3>1. p \in Commands \cup {"set my", "long Up", "long Down"} /\ SetMyRepeats \in Nat /\ TiltRepeats \in Nat
      BY <1>1, ShadeAssumption DEF Presses
    <3>2. QED
      BY <3>1 DEF Pressed, Commands, Lengths
  <2> HIDE DEF f
  <2>3. motor' \in Motors
    BY <1>1, <2>1, <2>2, HearsIs
  <2>4. frame \in RemoteFrames
    BY <1>1, <2>2 DEF RemoteFrames
  <2>5. received' = [i \in 1 .. f.repeats + 1 |-> frame]
    BY <2>1
  <2> HIDE DEF frame
  <2>6. received' \in Seq(RemoteFrames)
    <3>1. f.repeats + 1 \in Nat
      BY <2>2
    <3>2. received' \in [1 .. f.repeats + 1 -> RemoteFrames]
      BY <2>4, <2>5
    <3>3. QED
      BY <3>1, <3>2
  <2>7. QED
    BY <1>1, <2>1, <2>3, <2>6
<1>5. ASSUME NEW i \in DOMAIN shade.queue, NEW reported \in BOOLEAN, Heard(i, reported)
      PROVE  /\ shade' = Sent(shade, i, reported) /\ motor' \in Motors
             /\ UNCHANGED <<received, orders, presses>>
  <2>1. shade.queue[i] \in Frames
    BY <1>1 DEF Sound, Typed
  <2>2. shade.queue[i].cmd \in Commands /\ shade.queue[i].length \in Lengths
    BY <2>1 DEF Frames
  <2>3. motor' = Hears(motor, shade.queue[i].cmd, shade.queue[i].length)
    BY <1>5 DEF Heard
  <2>4. motor' \in Motors
    BY <1>1, <2>2, <2>3, HearsIs
  <2>5. shade' = Sent(shade, i, reported) /\ UNCHANGED <<received, orders, presses>>
    BY <1>5 DEF Heard, Sent
  <2>6. QED
    BY <2>4, <2>5
<1>6. CASE Transmit
  <2>1. PICK i \in DOMAIN shade.queue :
          \/ Heard(i, TRUE) /\ UNCHANGED lost
          \/ lost < MaxLost /\ lost' = lost + 1 /\ Heard(i, FALSE)
    BY <1>6 DEF Transmit
  <2>2. PICK reported \in BOOLEAN : Heard(i, reported)
    BY <2>1
  <2>3. lost' \in Nat
    <3>1. lost' = lost \/ lost' = lost + 1
      BY <2>1
    <3>2. QED
      BY <1>1, <3>1
  <2>4. /\ shade' = Sent(shade, i, reported) /\ motor' \in Motors
        /\ UNCHANGED <<received, orders, presses>>
    BY <1>5, <2>2
  <2>5. QED
    BY <1>1, <2>3, <2>4
<1>7. CASE LoopPass
  <2>1. received' \in Seq(RemoteFrames)
    BY <1>1, <1>7 DEF LoopPass
  <2>2. shade' = Pass(shade, received) /\ UNCHANGED <<motor, orders, presses, lost>>
    BY <1>7 DEF LoopPass, bounds
  <2>3. QED
    BY <1>1, <2>1, <2>2
<1>8. CASE Tick
  <2>1. motor' = Moved(motor) /\ shade' = Aged(shade) /\ UNCHANGED <<received, orders, presses, lost>>
    BY <1>8 DEF Tick, bounds
  <2>2. QED
    BY <1>1, <2>1, MovedIs
<1>9. CASE \E o \in Kind.orders : Order(o)
  <2>1. PICK o \in Kind.orders : Order(o)
    BY <1>9
  <2>2. /\ shade' \in Ordered(shade, o) /\ orders' = orders + 1
        /\ UNCHANGED <<motor, received, presses, lost>>
    BY <1>3, <2>1
  <2>3. QED
    BY <1>1, <2>2
<1>10. CASE \E p \in Kind.presses : Press(p)
  <2>1. PICK p \in Kind.presses : Press(p)
    BY <1>10
  <2>2. /\ motor' \in Motors /\ received' \in Seq(RemoteFrames) /\ presses' \in Nat
        /\ UNCHANGED <<shade, orders, lost>>
    BY <1>4, <2>1
  <2>3. QED
    BY <1>1, <2>2
<1>11. QED
  BY <1>2, <1>6, <1>7, <1>8, <1>9, <1>10 DEF Next

LEMMA StaysSystemSound ==
  SystemSound /\ [Next]_vars => SystemSound' /\ Kind' = Kind /\ shade'.tiltType = shade.tiltType
<1> SUFFICES ASSUME SystemSound, [Next]_vars PROVE SystemSound' /\ Kind' = Kind /\ shade'.tiltType = shade.tiltType
  OBVIOUS
<1>1. /\ Sound(shade) /\ Known /\ received \in Seq(RemoteFrames)
      /\ Kind.orders \subseteq Orders /\ (shade.settingMyPos => "set my" \in Kind.orders)
  BY KindIs DEF SystemSound
<1>2. /\ Sound(shade') /\ shade'.tiltType = shade.tiltType /\ shade'.simMy = shade.simMy
      /\ shade'.settingMyPos => "set my" \in Kind.orders
  <2>1. CASE \E o \in Kind.orders : shade' \in Ordered(shade, o) /\ orders' = orders + 1
    <3>1. PICK o \in Kind.orders : shade' \in Ordered(shade, o)
      BY <2>1
    <3>2. o \in Orders
      BY <1>1
    <3>3. /\ Sound(shade') /\ shade'.tiltType = shade.tiltType /\ shade'.simMy = shade.simMy
          /\ shade'.settingMyPos => shade.settingMyPos \/ o = "set my"
      BY <1>1, <3>1, <3>2, OrderedIs
    <3>4. QED
      BY <1>1, <3>3
  <2>2. CASE shade' = shade
    BY <1>1, <2>2
  <2>3. CASE \E i \in DOMAIN shade.queue, reported \in BOOLEAN : shade' = Sent(shade, i, reported)
    <3>1. PICK i \in DOMAIN shade.queue, reported \in BOOLEAN : shade' = Sent(shade, i, reported)
      BY <2>3
    <3>2. Sound(shade') /\ Only({"queue", "heard"}, shade, shade')
      BY <1>1, <3>1, SentIs
    <3>3. QED
      BY <1>1, <3>2 DEF Only, Fields
  <2>4. CASE shade' = Pass(shade, received)
    BY <1>1, <2>4, PassIs
  <2>5. CASE shade' = Aged(shade)
    BY <1>1, <2>5, AgedIs DEF Only, Fields
  <2>6. QED
    BY <2>1, <2>2, <2>3, <2>4, <2>5, Steps
<1>3. Kind' = Kind /\ Known'
  BY <1>1, <1>2 DEF Kind, Known
<1>4. QED
  BY <1>2, <1>3, Steps DEF SystemSound


-----------------------------------------------------------------------------
(* The theorems.                                                           *)

\* Every state of the shade, the motor and the receive queue is sound.
THEOREM SystemIsSound == Spec => []SystemSound
<1>1. Init => SystemSound
  BY InitSound
<1>2. SystemSound /\ [Next]_vars => SystemSound'
  BY StaysSystemSound
<1>3. QED
  BY <1>1, <1>2, PTL DEF Spec

\* Positions, targets and clocks stay in range, and the motor between its ends.
THEOREM TypesCorrect == Spec => []TypeOK
<1>1. SystemSound => TypeOK
  <2> SUFFICES ASSUME SystemSound PROVE TypeOK
    OBVIOUS
  <2>1. Typed(shade) /\ motor \in Motors
    BY DEF SystemSound, Sound
  <2>2. shade.txWaitJob \in JobIds \cup {0}
    BY <2>1 DEF Typed, JobIds
  <2>3. QED
    BY <2>1, <2>2 DEF TypeOK, Typed, Motors
<1>2. QED
  BY <1>1, SystemIsSound, PTL

\* While a shade's command waits in the radio queue, no event of another command
\* and no pass of checkMovement() moves it, whatever the radio reports or loses.
THEOREM StaysHeld == Spec => HeldStill
<1> DEFINE queued == \E i \in DOMAIN shade.queue : shade.queue[i].job = shade.txWaitJob
           held == queued /\ shade.waited <= HoldLimit /\ orders' = orders /\ received = <<>>
           still == shade'.currentPos = shade.currentPos /\ shade'.currentTiltPos = shade.currentTiltPos
<1>1. SystemSound /\ [Next]_vars => [held => still]_vars
  <2> SUFFICES ASSUME SystemSound, [Next]_vars, held PROVE still
    OBVIOUS
  <2>1. /\ Sound(shade) /\ received \in Seq(RemoteFrames) /\ orders \in Nat
        /\ shade.waited <= HoldLimit /\ orders' = orders /\ received = <<>>
    BY DEF SystemSound
  <2>2. \E i \in 1 .. Len(shade.queue) : shade.queue[i].job = shade.txWaitJob
    BY <2>1 DEF Sound, Typed
  <2>3. CASE shade' = shade
    BY <2>3
  <2>4. CASE \E i \in DOMAIN shade.queue, reported \in BOOLEAN : shade' = Sent(shade, i, reported)
    <3>1. PICK i \in DOMAIN shade.queue, reported \in BOOLEAN : shade' = Sent(shade, i, reported)
      BY <2>4
    <3>2. Only({"queue", "heard"}, shade, shade')
      BY <2>1, <3>1, SentIs
    <3>3. QED
      BY <3>2 DEF Only, Fields
  <2>5. CASE shade' = Pass(shade, received)
    BY <2>1, <2>2, <2>5, PassIs
  <2>6. CASE shade' = Aged(shade)
    <3>1. Only({"moved", "tilted", "gap", "waited", "lastFrame", "heard"}, shade, shade')
      BY <2>1, <2>6, AgedIs
    <3>2. QED
      BY <3>1 DEF Only, Fields
  <2>7. ~ \E o \in Kind.orders : shade' \in Ordered(shade, o) /\ orders' = orders + 1
    BY <2>1
  <2>8. QED
    BY <2>3, <2>4, <2>5, <2>6, <2>7, Steps
<1>2. QED
  BY <1>1, SystemIsSound, PTL DEF Spec, HeldStill

\* A My of the remote is not simulated, and a tilt is ordered only of a tilt motor of
\* its own: a simulated My sends what the remote asked for, and an integrated tilt
\* that is ordered while the lift moves waits for it, so that both send later.
LeavesTheWord ==
  \A k \in Kinds : ~k.simMy /\ ("tilt target" \in k.orders => k.tiltType = "tiltmotor")

LEMMA StaysEnded ==
  ASSUME SystemSound, Ended(shade), [Next]_vars,
         "tilt target" \in Kind.orders => shade.tiltType = "tiltmotor"
  PROVE  Ended(shade')
<1>1. Sound(shade) /\ received \in Seq(RemoteFrames) /\ Kind.orders \subseteq Orders
  BY KindIs DEF SystemSound
<1>2. CASE \E o \in Kind.orders : shade' \in Ordered(shade, o) /\ orders' = orders + 1
  <2>1. PICK o \in Kind.orders : shade' \in Ordered(shade, o)
    BY <1>2
  <2>2. o \in Orders /\ (o = "tilt target" => shade.tiltType = "tiltmotor")
    BY <1>1
  <2>3. QED
    BY <1>1, <2>1, <2>2, OrderedIs
<1>3. CASE shade' = shade
  BY <1>3
<1>4. CASE \E i \in DOMAIN shade.queue, reported \in BOOLEAN : shade' = Sent(shade, i, reported)
  <2>1. PICK i \in DOMAIN shade.queue, reported \in BOOLEAN : shade' = Sent(shade, i, reported)
    BY <1>4
  <2>2. Only({"queue", "heard"}, shade, shade')
    BY <1>1, <2>1, SentIs
  <2>3. QED
    BY <2>2 DEF Only, Fields, Ended, Calm, Own
<1>5. CASE shade' = Pass(shade, received)
  BY <1>1, <1>5, PassIs
<1>6. CASE shade' = Aged(shade)
  BY <1>1, <1>6, AgedIs
<1>7. QED
  BY <1>2, <1>3, <1>4, <1>5, <1>6, Steps

\* Once the loop has a frame of the remote, it sends nothing for the shade until an
\* order: no My where a positioning would end, and no command that a gap held back.
THEOREM RemoteHasTheLastWordCorrect ==
  ASSUME LeavesTheWord
  PROVE  Spec => RemoteHasTheLastWord
<1> DEFINE heard == (shade.lastFrame.code # 0 \/ received # <<>>) /\ orders' = orders
           silent == Len(shade'.queue) <= Len(shade.queue)
           IInv == SystemSound /\ Ended(shade)
<1>1. Init => IInv
  BY InitSound
<1>2. IInv /\ [Next]_vars => IInv'
  <2> SUFFICES ASSUME SystemSound, Ended(shade), [Next]_vars PROVE IInv'
    OBVIOUS
  <2>1. "tilt target" \in Kind.orders => shade.tiltType = "tiltmotor"
    BY KindIs DEF SystemSound, LeavesTheWord
  <2>2. QED
    BY <2>1, StaysSystemSound, StaysEnded
<1>3. IInv /\ [Next]_vars => [heard => silent]_vars
  <2> SUFFICES ASSUME SystemSound, Ended(shade), [Next]_vars, heard PROVE silent
    OBVIOUS
  <2>1. /\ Sound(shade) /\ received \in Seq(RemoteFrames) /\ orders \in Nat /\ orders' = orders
        /\ shade.lastFrame.code # 0 \/ received # <<>>
        /\ ~shade.simMy
    BY KindIs DEF SystemSound, LeavesTheWord
  <2>2. Len(shade.queue) \in Nat
    BY <2>1 DEF Sound, Typed
  <2>3. CASE shade' = shade
    BY <2>2, <2>3
  <2>4. CASE \E i \in DOMAIN shade.queue, reported \in BOOLEAN : shade' = Sent(shade, i, reported)
    <3>1. PICK i \in DOMAIN shade.queue, reported \in BOOLEAN : shade' = Sent(shade, i, reported)
      BY <2>4
    <3>2. Len(shade'.queue) = Len(shade.queue) - 1
      BY <2>1, <3>1, SentIs
    <3>3. QED
      BY <2>2, <3>2
  <2>5. CASE shade' = Pass(shade, received)
    <3>1. shade'.queue = shade.queue
      BY <2>1, <2>5, PassIs
    <3>2. QED
      BY <2>2, <3>1
  <2>6. CASE shade' = Aged(shade)
    <3>1. Only({"moved", "tilted", "gap", "waited", "lastFrame", "heard"}, shade, shade')
      BY <2>1, <2>6, AgedIs
    <3>2. shade'.queue = shade.queue
      BY <3>1 DEF Only, Fields
    <3>3. QED
      BY <2>2, <3>2
  <2>7. ~ \E o \in Kind.orders : shade' \in Ordered(shade, o) /\ orders' = orders + 1
    BY <2>1
  <2>8. QED
    BY <2>3, <2>4, <2>5, <2>6, <2>7, Steps
<1>4. QED
  BY <1>1, <1>2, <1>3, PTL DEF Spec, RemoteHasTheLastWord


\* Something is left to do for every recording, until a tilt is ordered to where it is.
LEMMA StaysBusy ==
  ASSUME SystemSound, Busy(shade), [Next]_vars, "tilt target" \notin Kind.orders
  PROVE  Busy(shade')
<1>1. Sound(shade) /\ received \in Seq(RemoteFrames) /\ Kind.orders \subseteq Orders
  BY KindIs DEF SystemSound
<1>2. CASE \E o \in Kind.orders : shade' \in Ordered(shade, o) /\ orders' = orders + 1
  <2>1. PICK o \in Kind.orders : shade' \in Ordered(shade, o)
    BY <1>2
  <2>2. o \in Orders
    BY <1>1
  <2>3. QED
    BY <1>1, <2>1, <2>2, OrderedIs
<1>3. CASE shade' = shade
  BY <1>3
<1>4. CASE \E i \in DOMAIN shade.queue, reported \in BOOLEAN : shade' = Sent(shade, i, reported)
  <2>1. PICK i \in DOMAIN shade.queue, reported \in BOOLEAN : shade' = Sent(shade, i, reported)
    BY <1>4
  <2>2. Only({"queue", "heard"}, shade, shade')
    BY <1>1, <2>1, SentIs
  <2>3. QED
    BY <2>2 DEF Only, Fields, Busy, IsIdle, IsAtTarget
<1>5. CASE shade' = Pass(shade, received)
  BY <1>1, <1>5, PassIs
<1>6. CASE shade' = Aged(shade)
  BY <1>1, <1>6, AgedIs
<1>7. QED
  BY <1>2, <1>3, <1>4, <1>5, <1>6, Steps

\* Who records a favourite orders no tilt to go to alone: where the tilt is already,
\* moveToTiltTarget() sends nothing and takes the way to the favourite's tilt away.
RecordsUntilted == \A k \in Kinds : "set my" \in k.orders => "tilt target" \notin k.orders

\* Every order is counted: PositionOrdered tells its steps from the loop's by that.
LEMMA Counts == \A n \in Nat : n + 1 # n
OBVIOUS

\* A recording keeps the place it was asked for, whatever the remote, the radio and other
\* orders do meanwhile, positions and tilts that end it nowhere else included, and where
\* it ends that place, or none, becomes the favourite.
THEOREM RecordsAsOrderedCorrect ==
  ASSUME RecordsUntilted
  PROVE  Spec => RecordsAsOrdered
<1> DEFINE recording == shade.settingMyPos /\ ~PositionOrdered
           asOrdered ==
             /\ shade'.settingMyPos => shade'.target = shade.target /\ shade'.tiltTarget = shade.tiltTarget
             /\ shade'.myPos # shade.myPos => ~shade'.settingMyPos /\ shade'.myPos \in {NoPos, shade.target}
           IInv == SystemSound /\ ("set my" \in Kind.orders => Ended(shade) /\ Busy(shade))
<1>1. Init => IInv
  BY InitSound
<1>2. IInv /\ [Next]_vars => IInv'
  <2> SUFFICES ASSUME IInv, [Next]_vars PROVE IInv'
    OBVIOUS
  <2>1. SystemSound' /\ Kind' = Kind
    BY StaysSystemSound
  <2>2. CASE "set my" \in Kind.orders
    <3>1. "tilt target" \notin Kind.orders
      BY <2>2, KindIs DEF SystemSound, RecordsUntilted
    <3>2. Ended(shade') /\ Busy(shade')
      BY <2>2, <3>1, StaysEnded, StaysBusy
    <3>3. QED
      BY <2>1, <3>2
  <2>3. QED
    BY <2>1, <2>2
<1>3. IInv /\ [Next]_vars => [recording => asOrdered]_vars
  <2> SUFFICES ASSUME IInv, [Next]_vars, recording PROVE asOrdered
    OBVIOUS
  <2>1. /\ Sound(shade) /\ received \in Seq(RemoteFrames) /\ orders \in Nat
        /\ Kind.orders \subseteq Orders /\ shade.settingMyPos
        /\ Busy(shade) /\ Own(shade)
    BY KindIs DEF SystemSound, Ended, Calm
  <2>2. CASE \E o \in Kind.orders : shade' \in Ordered(shade, o) /\ orders' = orders + 1
    <3>1. PICK o \in Kind.orders : shade' \in Ordered(shade, o) /\ orders' = orders + 1
      BY <2>2
    <3>2. o \notin Positionings /\ o \in Orders
      <4>1. orders' # orders
        BY <2>1, <3>1, Counts, Zenon
      <4>2. o \in Kind.orders \cap Positionings => PositionOrdered
        BY <3>1, <4>1 DEF PositionOrdered, Positionings
      <4>3. o \in Kind.orders /\ o \in Orders
        BY <2>1, <3>1
      <4>4. QED
        BY <4>2, <4>3
    <3>3. shade' = shade \/ (~shade'.settingMyPos /\ shade'.myPos \in {shade.myPos, NoPos})
      BY <2>1, <3>1, <3>2, OrderedIs
    <3>4. QED
      BY <3>3
  <2>3. CASE shade' = shade
    BY <2>3
  <2>4. CASE \E i \in DOMAIN shade.queue, reported \in BOOLEAN : shade' = Sent(shade, i, reported)
    <3>1. PICK i \in DOMAIN shade.queue, reported \in BOOLEAN : shade' = Sent(shade, i, reported)
      BY <2>4
    <3>2. Only({"queue", "heard"}, shade, shade')
      BY <2>1, <3>1, SentIs
    <3>3. QED
      BY <3>2 DEF Only, Fields
  <2>5. CASE shade' = Pass(shade, received)
    BY <2>1, <2>5, PassIs
  <2>6. CASE shade' = Aged(shade)
    <3>1. Only({"moved", "tilted", "gap", "waited", "lastFrame", "heard"}, shade, shade')
      BY <2>1, <2>6, AgedIs
    <3>2. QED
      BY <3>1 DEF Only, Fields
  <2>7. QED
    BY <2>2, <2>3, <2>4, <2>5, <2>6, Steps
<1>4. QED
  BY <1>1, <1>2, <1>3, PTL DEF Spec, RecordsAsOrdered

-----------------------------------------------------------------------------
(* A lift that does not tilt: its estimate is where the motor is.          *)

\* The end in direction d.
LiftEnd(d) == IF d < 0 THEN 0 ELSE Full

\* A lift that does not tilt; a favourite that the device simulates is not recorded.
Lift(s) ==
  /\ s.tiltType = "none" /\ s.currentTiltPos = 0 /\ s.tiltTarget = 0 /\ s.tiltDirection = 0
  /\ ~s.settingTiltPos /\ s.myTiltPos \in {0, NoPos}
  /\ s.simMy => s.myTiltPos = NoPos /\ ~s.settingMyPos
  /\ s.pendingCmd \in {"none", "setMyPos"}
  /\ s.pendingCmd = "setMyPos" => s.settingMyPos /\ s.target = s.currentPos /\ s.direction = 0

\* Nothing of it waits in the radio queue or to be anchored.
Free(s) == s.txWaitJob = 0 /\ s.queue = <<>> /\ s.heard = {}

\* A frame has left a free shade, and the time it moves for starts again.
Posts(r, cmd, length) ==
  /\ r.txWaitJob # 0 /\ r.waited = 0
  /\ r.startPos = r.currentPos /\ r.startTiltPos = r.currentTiltPos /\ r.moved = 0 /\ r.tilted = 0
  /\ r.heard = {} /\ r.lastFrame.processed /\ r.lastFrame.code = 0
  /\ Len(r.queue) = 1 /\ r.queue[1].job = r.txWaitJob /\ r.queue[1].cmd = cmd /\ r.queue[1].length = length

LEMMA LiftSends ==
  ASSUME NEW s, Sound(s), Lift(s), Free(s), NEW cmd \in Commands, NEW length \in Lengths
  PROVE  LET r == SendFrame(s, cmd, length)
         IN  /\ Sound(r) /\ Posts(r, cmd, length) /\ Only({"target"} \cup Sendings, s, r)
             /\ cmd \in {"Up", "Down", "My"} => r.target = s.target
             /\ cmd \in {"StepUp", "StepDown"} => r.target = StepTo(s, cmd)
<1> DEFINE r == SendFrame(s, cmd, length)
           f == [job |-> r.txWaitJob, remote |-> "shade", cmd |-> cmd, length |-> length]
<1>1. s.tiltType = "none" /\ s.queue = <<>> /\ s.heard = {}
  BY DEF Lift, Free
<1>2. /\ Sound(r) /\ r.txWaitJob # 0 /\ r.waited = 0 /\ r.lastFrame.code = 0 /\ r.lastFrame.processed
      /\ r.moved = 0 /\ r.tilted = 0 /\ r.startPos = s.currentPos /\ r.startTiltPos = s.currentTiltPos
      /\ r.queue = Append(s.queue, f)
  BY SendFrameGives, ZenonT(60) DEF Own
<1>3. Only(Aims \cup Sendings, s, r)
  BY SendFrameGives, ZenonT(60)
<1>4. cmd \in {"Up", "Down", "My"} => r.target = s.target
  BY SendFrameGives, ZenonT(60)
<1>5. s.tiltType = "none" => r.tiltTarget = s.tiltTarget
  BY SendFrameGives, ZenonT(60)
<1>6. s.tiltType = "none" /\ cmd \in {"StepUp", "StepDown"} => r.target = StepTo(s, cmd)
  BY SendFrameGives, ZenonT(60)
<1> HIDE DEF r
<1>7. Len(r.queue) = 1 /\ r.queue[1] = f
  BY <1>1, <1>2
<1>8. r.currentPos = s.currentPos /\ r.currentTiltPos = s.currentTiltPos /\ r.heard = s.heard
  BY <1>3 DEF Only, Fields, Aims, Sendings
<1>9. Posts(r, cmd, length)
  BY <1>1, <1>2, <1>7, <1>8 DEF Posts
<1>10. Only({"target"} \cup Sendings, s, r)
  BY <1>1, <1>3, <1>5 DEF Only, Fields, Aims, Sendings
<1>11. QED
  BY <1>1, <1>2, <1>4, <1>6, <1>9, <1>10 DEF r


-----------------------------------------------------------------------------
(* checkMovement() of a lift that does not tilt.                           *)

\* Where its travel time has it, and whether that is where it goes.
Where(s, d) == AtLeast(0, AtMost(Full, s.startPos + d * s.moved))
Arrives(s, d) == d * (Where(s, d) - s.target) >= 0
Arrivals == {"currentPos", "settingPos", "direction", "tilted", "startTiltPos"}

LEMMA LiftDirected ==
  ASSUME NEW s, Sound(s), Quiet(s), Lift(s), s.pendingCmd = "none"
  PROVE  LET r == Directed(RunPending(s))
         IN  /\ Sound(r) /\ Quiet(r) /\ Only({"direction"}, s, r)
             /\ r.direction = Toward(s.currentPos, s.target)
<1> DEFINE p == RunPending(s)
           r == Directed(p)
<1>1. p = [s EXCEPT !.pendingCmd = "none"]
  BY DEF RunPending
<1>2. Passes(s, p)
  BY RunPendingIs
<1>3. Only({}, s, p)
  BY <1>1 DEF Sound, Typed, Only, Fields
<1> HIDE DEF p
<1>4. Sound(p) /\ Quiet(p)
  BY <1>2 DEF Passes
<1>5. /\ Passes(p, r) /\ Only({"direction", "tiltDirection"}, p, r)
      /\ r.direction = Toward(r.currentPos, r.target)
  BY <1>4, DirectedIs
<1>6. r.tiltDirection = 0
  <2>1. p.tiltType = "none" /\ p.currentTiltPos = p.tiltTarget
    BY <1>3 DEF Only, Fields, Lift
  <2>2. ~TurnsFirst(p, Toward(p.currentPos, p.target)) /\ Toward(p.currentTiltPos, p.tiltTarget) = 0
    BY <2>1 DEF TurnsFirst, Toward
  <2>3. DOMAIN p = Fields
    BY <1>4 DEF Sound, Typed
  <2>4. QED
    BY <2>2, <2>3 DEF Directed, Fields
<1> HIDE DEF r
<1>7. Only({"direction"}, s, r)
  BY <1>3, <1>5, <1>6 DEF Only, Fields, Lift
<1>8. r.currentPos = s.currentPos /\ r.target = s.target
  BY <1>7 DEF Only, Fields
<1>9. QED
  BY <1>5, <1>7, <1>8 DEF Passes, r, p

LEMMA LiftLifted ==
  ASSUME NEW s0, Sound(s0), Quiet(s0), Lift(s0), s0.txWaitJob = 0 => Free(s0),
         NEW d \in {-1, 1}, s0.direction = d, d = Toward(s0.currentPos, s0.target)
  PROVE  LET r == Lifted(s0)
             stops == s0.settingPos /\ s0.target # LiftEnd(d)
         IN  /\ Sound(r) /\ r.tiltDirection = 0
             /\ ~Arrives(s0, d) => Only({"currentPos"}, s0, r) /\ r.currentPos = Where(s0, d)
             /\ Arrives(s0, d) => /\ Free(s0) /\ r.currentPos = s0.target /\ r.direction = 0 /\ ~r.settingPos
                                  /\ ~stops => Only(Arrivals, s0, r)
                                  /\ stops => Only(Arrivals \cup Sendings, s0, r) /\ Posts(r, "My", "short")
<1> DEFINE at == AtLeast(0, AtMost(Full, s0.startPos + s0.direction * s0.moved))
           s == [s0 EXCEPT !.currentPos = at]
           reached == [s EXCEPT !.currentPos = s.target]
           sends == StopsLift(s, IF s0.direction < 0 THEN 0 ELSE Full)
           stops == s0.settingPos /\ s0.target # LiftEnd(d)
           sent == SendFrame(reached, "My", "short")
           stopped == IF sends THEN sent ELSE reached
           gaps == s.settingPos /\ ~IsAtTarget(reached)
           gapped == IF gaps THEN StartCmdGap(stopped, "tiltTarget") ELSE stopped
           done(q) == [q EXCEPT !.settingPos = FALSE, !.direction = 0, !.tilted = 0, !.startTiltPos = s.currentTiltPos]
           there == s0.direction * (s.currentPos - s.target) >= 0
           r == Lifted(s0)
<1>1. Passes(s0, r) /\ r.tiltDirection = s0.tiltDirection
  BY LiftedIs
<1>2. r = IF there THEN done(gapped) ELSE s
  BY DEF Lifted
<1>3. /\ DOMAIN s0 = Fields /\ s0.target \in Positions /\ Full \in Nat
      /\ s0.startPos \in Positions /\ s0.moved \in Positions /\ at = Where(s0, d)
  BY Ranges DEF Sound, Typed, Positions, Where
<1>4. at \in Positions
  <2> DEFINE x == s0.startPos + s0.direction * s0.moved
  <2>1. x \in Int
    BY <1>3 DEF Positions
  <2> HIDE DEF x
  <2>2. AtLeast(0, AtMost(Full, x)) \in 0 .. Full
    BY <1>3, <2>1, Clamps
  <2>3. QED
    BY <2>2 DEF Positions, x
<1> HIDE DEF at
<1>5. /\ s.target = s0.target /\ s.settingPos = s0.settingPos /\ s.tiltType = "none" /\ s.currentPos = at
      /\ s.currentTiltPos = 0 /\ Only({"currentPos"}, s0, s) /\ Typed(s)
  BY <1>3, <1>4 DEF Fields, Only, Lift, Sound, Typed
<1> HIDE DEF s
<1>6. /\ Only({"currentPos"}, s0, reached) /\ Typed(reached) /\ reached.currentPos = s0.target
      /\ reached.target = s0.target /\ reached.tiltType = "none"
      /\ reached.txWaitJob = s0.txWaitJob
  BY <1>3, <1>5 DEF Fields, Only, Typed, Lift
<1> HIDE DEF reached
<1>7. sends = stops /\ ~gaps /\ (there <=> Arrives(s0, d))
  BY <1>3, <1>5, <1>6 DEF StopsLift, LiftEnd, IsAtTarget, Arrives
<1> HIDE DEF sends, gaps, there, r
<1>8. CASE ~Arrives(s0, d)
  BY <1>1, <1>2, <1>3, <1>5, <1>7, <1>8 DEF Passes, Lift, r
<1>9. ASSUME Arrives(s0, d) PROVE Free(s0)
  <2>1. s0.currentPos \in 0 .. Full /\ s0.target \in Int
    BY <1>3 DEF Sound, Typed, Positions
  <2>2. ~(d * (s0.currentPos - s0.target) >= 0)
    BY <2>1 DEF Toward
  <2>3. ASSUME s0.txWaitJob # 0 PROVE Where(s0, d) = s0.currentPos
    <3>1. s0.moved = 0 /\ s0.startPos = s0.currentPos
      BY <2>3 DEF Quiet, Sound, Still
    <3>2. s0.startPos + d * s0.moved = s0.currentPos
      BY <2>1, <3>1
    <3>3. QED
      BY <1>3, <2>1, <3>2, Clamps DEF Where
  <2>4. QED
    BY <1>9, <2>2, <2>3 DEF Arrives
<1>10. ASSUME Arrives(s0, d)
       PROVE  /\ r.currentPos = s0.target /\ r.direction = 0 /\ ~r.settingPos
              /\ ~stops => Only(Arrivals, s0, r)
              /\ stops => Only(Arrivals \cup Sendings, s0, r) /\ Posts(r, "My", "short")
  <2>1. r = done(IF stops THEN sent ELSE reached)
    BY <1>2, <1>7, <1>10
  <2>2. CASE ~stops
    <3>1. r = done(reached)
      BY <2>1, <2>2
    <3>2. QED
      BY <1>6, <2>2, <3>1 DEF Typed, Only, Fields, Arrivals
  <2>3. CASE stops
    <3>1. Free(reached) /\ Lift(reached) /\ Sound(reached)
      <4>1. Free(s0)
        BY <1>9, <1>10
      <4>2. /\ reached.queue = s0.queue /\ reached.heard = s0.heard
            /\ reached.currentTiltPos = s0.currentTiltPos /\ reached.tiltTarget = s0.tiltTarget
            /\ reached.tiltDirection = s0.tiltDirection /\ reached.settingTiltPos = s0.settingTiltPos
            /\ reached.myTiltPos = s0.myTiltPos /\ reached.simMy = s0.simMy
            /\ reached.settingMyPos = s0.settingMyPos /\ reached.pendingCmd = s0.pendingCmd
            /\ reached.direction = s0.direction
        BY <1>6 DEF Only, Fields
      <4>3. Free(reached) /\ Lift(reached) /\ Still(reached)
        BY <1>6, <4>1, <4>2 DEF Free, Lift, Still
      <4>4. {"currentPos"} \cap {"tiltType", "simMy", "myPos", "myTiltPos", "queue", "heard"} = {}
        OBVIOUS
      <4>5. Sound(reached)
        BY <1>6, <4>3, <4>4, PlacedSound DEF Lift
      <4>6. QED
        BY <4>3, <4>5
    <3>2. "My" \in Commands /\ "short" \in Lengths
      BY DEF Commands, Lengths
    <3>3. Sound(sent) /\ Posts(sent, "My", "short") /\ Only({"target"} \cup Sendings, reached, sent)
          /\ sent.target = reached.target
      BY <3>1, <3>2, LiftSends
    <3>4. r = done(sent)
      BY <2>1, <2>3
    <3>5. s.currentTiltPos = sent.currentTiltPos /\ sent.currentPos = s0.target
      BY <1>5, <1>6, <3>1, <3>3 DEF Only, Fields, Sendings, Lift
    <3> HIDE DEF sent
    <3>6. /\ Only(Arrivals, sent, r) /\ r.direction = 0 /\ ~r.settingPos /\ r.tilted = 0
          /\ r.startTiltPos = sent.currentTiltPos /\ r.currentPos = sent.currentPos
          /\ r.currentTiltPos = sent.currentTiltPos
      BY <3>3, <3>4, <3>5 DEF Sound, Typed, Only, Fields, Arrivals
    <3>7. Posts(r, "My", "short")
      <4>1. /\ r.txWaitJob = sent.txWaitJob /\ r.waited = sent.waited /\ r.startPos = sent.startPos
            /\ r.moved = sent.moved /\ r.heard = sent.heard /\ r.lastFrame = sent.lastFrame
            /\ r.queue = sent.queue
        BY <3>6 DEF Only, Fields, Arrivals
      <4>2. QED
        BY <3>3, <3>6, <4>1 DEF Posts
    <3>8. Only(Arrivals \cup Sendings, s0, r)
      BY <1>6, <3>3, <3>6 DEF Only, Fields, Arrivals, Sendings
    <3>9. QED
      BY <2>3, <3>5, <3>6, <3>7, <3>8
  <2>4. QED
    BY <2>2, <2>3
<1>11. QED
  BY <1>1, <1>8, <1>9, <1>10 DEF Passes, Lift, r

\* What a pass is to a lift: it waits for a gap, records a favourite, rests, travels
\* on, or comes to its target, where it stops a motor that would not stop by itself.
Gapped(s, r) == /\ r.pendingCmd = IF s.settingMyPos THEN "setMyPos" ELSE "none"
                /\ s.settingMyPos => r.gap > 0
Pauses(s, r) == s.pendingCmd # "none" /\ s.gap > 0 /\ r = s
Records(s, r) ==
  /\ s.pendingCmd # "none" /\ Free(s) /\ Posts(r, "My", "set")
  /\ Only({"myPos", "myTiltPos", "settingMyPos", "pendingCmd"} \cup Sendings, s, r)
  /\ r.pendingCmd = "none" /\ ~r.settingMyPos
  /\ r.myPos = (IF s.myPos = s.currentPos THEN NoPos ELSE s.currentPos) /\ r.myTiltPos = NoPos
Stays(s, r) ==
  /\ s.pendingCmd = "none" /\ s.currentPos = s.target
  /\ Only({"direction", "pendingCmd", "gap"}, s, r) /\ r.direction = 0 /\ Gapped(s, r)
Advances(s, r, d) ==
  /\ s.pendingCmd = "none" /\ d = Toward(s.currentPos, s.target) /\ ~Arrives(s, d)
  /\ Only({"direction", "currentPos"}, s, r) /\ r.direction = d /\ r.currentPos = Where(s, d)
Arrived == Arrivals \cup {"pendingCmd", "gap"}
Stops(s, r, d) ==
  /\ s.pendingCmd = "none" /\ d = Toward(s.currentPos, s.target) /\ Arrives(s, d) /\ Free(s)
  /\ r.currentPos = s.target /\ r.direction = 0 /\ ~r.settingPos /\ Gapped(s, r)
  /\ IF s.settingPos /\ s.target # LiftEnd(d)
     THEN Only(Arrived \cup Sendings, s, r) /\ Posts(r, "My", "short")
     ELSE Only(Arrived, s, r)

LEMMA LiftRecords ==
  ASSUME NEW s0, Sound(s0), Lift(s0), Free(s0), s0.pendingCmd # "none"
  PROVE  Records(s0, FinishSetMyPosition([s0 EXCEPT !.pendingCmd = "none"]))
<1> DEFINE s == [s0 EXCEPT !.pendingCmd = "none"]
           pos == IF FavoriteIsHere(s) THEN NoPos ELSE s.currentPos
           tilt == IF FavoriteIsHere(s) \/ s.tiltType = "none" THEN NoPos ELSE s.currentTiltPos
           q == [s EXCEPT !.myPos = pos, !.myTiltPos = tilt]
           sent == SendFrame(q, "My", "set")
           r == FinishSetMyPosition(s)
<1>1. r = [sent EXCEPT !.settingMyPos = FALSE]
  BY DEF FinishSetMyPosition
<1>2. /\ Typed(s) /\ Only({"pendingCmd"}, s0, s) /\ s.pendingCmd = "none"
  BY DEF Sound, Typed, Only, Fields
<1>3. /\ s.tiltType = "none" /\ s.myPos = s0.myPos /\ s.currentPos = s0.currentPos
      /\ s.currentTiltPos = 0 /\ s.currentPos \in Positions
  BY <1>2 DEF Only, Fields, Lift, Typed
<1> HIDE DEF s, r
<1>4. pos = (IF s0.myPos = s0.currentPos THEN NoPos ELSE s0.currentPos) /\ tilt = NoPos
  BY <1>3 DEF FavoriteIsHere
<1>5. pos \in Positions \cup {NoPos} /\ tilt \in Tilts \cup {NoPos}
  BY <1>3, <1>4
<1> HIDE DEF pos, tilt
<1>6. Typed(q) /\ Only({"myPos", "myTiltPos"}, s, q) /\ q.myPos = pos /\ q.myTiltPos = tilt
  BY <1>2, <1>5 DEF Typed, Only, Fields
<1> HIDE DEF q
<1>7. /\ q.tiltType = s0.tiltType /\ q.simMy = s0.simMy /\ q.currentPos = s0.currentPos
      /\ q.target = s0.target /\ q.startPos = s0.startPos /\ q.startTiltPos = s0.startTiltPos
      /\ q.currentTiltPos = s0.currentTiltPos /\ q.tiltTarget = s0.tiltTarget
      /\ q.tiltDirection = s0.tiltDirection /\ q.settingTiltPos = s0.settingTiltPos
      /\ q.settingMyPos = s0.settingMyPos /\ q.pendingCmd = "none"
      /\ q.txWaitJob = s0.txWaitJob /\ q.queue = s0.queue /\ q.heard = s0.heard
  BY <1>2, <1>6 DEF Only, Fields
<1>8. Sound(q)
  BY <1>4, <1>6, <1>7 DEF Sound, FavoriteWhole, Down, Still, OneFrameEach
<1>9. Lift(q) /\ Free(q)
  BY <1>4, <1>6, <1>7 DEF Lift, Free
<1>10. "My" \in Commands /\ "set" \in Lengths
  BY DEF Commands, Lengths
<1>11. Sound(sent) /\ Posts(sent, "My", "set") /\ Only({"target"} \cup Sendings, q, sent) /\ sent.target = q.target
  BY <1>8, <1>9, <1>10, LiftSends
<1> HIDE DEF sent
<1>12. Only({"settingMyPos"}, sent, r) /\ ~r.settingMyPos
  BY <1>1, <1>11 DEF Sound, Typed, Only, Fields
<1>13. /\ r.txWaitJob = sent.txWaitJob /\ r.waited = sent.waited /\ r.startPos = sent.startPos
       /\ r.moved = sent.moved /\ r.heard = sent.heard /\ r.lastFrame = sent.lastFrame
       /\ r.queue = sent.queue /\ r.tilted = sent.tilted /\ r.startTiltPos = sent.startTiltPos
       /\ r.currentPos = sent.currentPos /\ r.currentTiltPos = sent.currentTiltPos
       /\ r.target = sent.target /\ r.myPos = sent.myPos /\ r.myTiltPos = sent.myTiltPos
       /\ r.pendingCmd = sent.pendingCmd
  BY <1>12 DEF Only, Fields
<1>14. Posts(r, "My", "set")
  BY <1>11, <1>13 DEF Posts
<1>15. sent.myPos = pos /\ sent.myTiltPos = NoPos /\ sent.pendingCmd = "none"
  BY <1>4, <1>6, <1>7, <1>11 DEF Only, Fields, Sendings
<1>16. Only({"myPos", "myTiltPos", "settingMyPos", "pendingCmd"} \cup Sendings, s0, r)
  BY <1>2, <1>6, <1>11, <1>12, <1>13 DEF Only, Fields, Sendings
<1>17. QED
  BY <1>4, <1>12, <1>13, <1>14, <1>15, <1>16 DEF Records, r, s

LEMMA LiftPasses ==
  ASSUME NEW s0, Sound(s0), Quiet(s0), Lift(s0), s0.txWaitJob = 0 => Free(s0),
         s0.pendingCmd # "none" /\ s0.gap = 0 => Free(s0)
  PROVE  LET r == CheckMovement(s0)
         IN  /\ Sound(r)
             /\ Pauses(s0, r) \/ Records(s0, r) \/ Stays(s0, r) \/ \E d \in {-1, 1} : Advances(s0, r, d) \/ Stops(s0, r, d)
<1> DEFINE s == Directed(RunPending(s0))
           d == Toward(s0.currentPos, s0.target)
           first == s.direction # 0 /\ s.tiltDirection # 0
           lifted == IF s.direction # 0 /\ ~first THEN Lifted(s) ELSE s
           tilted == IF lifted.tiltDirection # 0 THEN Tilted(lifted, first) ELSE lifted
           records == tilted.settingMyPos /\ IsAtTarget(tilted)
           gapped == StartCmdGap(tilted, "setMyPos")
           r == CheckMovement(s0)
<1>1. Sound(r)
  BY CheckMovementIs
<1>2. /\ s0.gap \in Nat /\ s0.pendingCmd \in {"none", "setMyPos"} /\ CmdGap > 0
      /\ s0.pendingCmd = "setMyPos" => s0.settingMyPos /\ IsAtTarget(s0)
  BY ShadeAssumption, SMTT(30) DEF Sound, Typed, Lift, IsAtTarget
<1>3. CASE s0.pendingCmd # "none" /\ s0.gap > 0
  BY <1>1, <1>3 DEF CheckMovement, Pauses
<1>4. CASE s0.pendingCmd = "setMyPos" /\ s0.gap = 0
  <2>1. Free(s0)
    BY <1>4
  <2>2. r = FinishSetMyPosition([s0 EXCEPT !.pendingCmd = "none"])
    BY <1>2, <1>4 DEF CheckMovement
  <2>3. Records(s0, r)
    BY <1>4, <2>1, <2>2, LiftRecords
  <2>4. QED
    BY <1>1, <2>3
<1>5. CASE s0.pendingCmd = "none"
  <2>1. Sound(s) /\ Quiet(s) /\ Only({"direction"}, s0, s) /\ s.direction = d
    BY <1>5, LiftDirected
  <2>2. r = IF records THEN gapped ELSE tilted
    BY <1>5 DEF CheckMovement
  <2> HIDE DEF s, r
  <2>3. /\ s.currentPos = s0.currentPos /\ s.target = s0.target /\ s.startPos = s0.startPos /\ s.moved = s0.moved
        /\ s.txWaitJob = s0.txWaitJob /\ s.settingPos = s0.settingPos /\ s.settingMyPos = s0.settingMyPos
        /\ s.tiltDirection = 0 /\ s.tiltType = "none" /\ s.pendingCmd = "none"
        /\ s.currentPos \in Int /\ s.target \in Int
    BY <1>5, <2>1, Ranges DEF Only, Fields, Lift, Sound, Typed, Positions
  <2>4. Lift(s) /\ (s.txWaitJob = 0 => Free(s)) /\ (Free(s) => Free(s0))
    <3>1. /\ s.currentTiltPos = s0.currentTiltPos /\ s.tiltTarget = s0.tiltTarget
          /\ s.settingTiltPos = s0.settingTiltPos /\ s.myTiltPos = s0.myTiltPos /\ s.simMy = s0.simMy
          /\ s.queue = s0.queue /\ s.heard = s0.heard
      BY <2>1 DEF Only, Fields
    <3>2. QED
      BY <2>3, <3>1 DEF Lift, Free
  <2>5. ~first /\ lifted = IF d # 0 THEN Lifted(s) ELSE s
    BY <2>1, <2>3
  <2> DEFINE q == IF d # 0 THEN Lifted(s) ELSE s
  <2>6. ASSUME q.tiltDirection = 0, q.tiltType = "none", q.currentTiltPos = q.tiltTarget
        PROVE  r = IF q.settingMyPos /\ q.currentPos = q.target THEN [q EXCEPT !.pendingCmd = "setMyPos", !.gap = CmdGap] ELSE q
    <3>1. tilted = q
      BY <2>5, <2>6
    <3> HIDE DEF tilted, q
    <3>2. records <=> q.settingMyPos /\ q.currentPos = q.target
      BY <2>6, <3>1 DEF IsAtTarget
    <3>3. QED
      BY <2>2, <3>1, <3>2 DEF StartCmdGap
  <2> HIDE DEF first, lifted, tilted, records, gapped
  <2>7. CASE d = 0
    <3>1. q = s /\ s.currentPos = s.target
      BY <2>3, <2>7 DEF Toward
    <3>2. q.currentTiltPos = q.tiltTarget
      BY <2>4, <3>1 DEF Lift
    <3>3. r = IF s.settingMyPos THEN [s EXCEPT !.pendingCmd = "setMyPos", !.gap = CmdGap] ELSE s
      BY <2>3, <2>6, <3>1, <3>2
    <3>4. Stays(s0, r)
      BY <1>2, <1>5, <2>1, <2>3, <2>7, <3>1, <3>3 DEF Stays, Gapped, Only, Fields, Sound, Typed
    <3>5. QED
      BY <1>1, <3>4 DEF r
  <2>8. CASE d # 0
    <3>1. d \in {-1, 1} /\ q = Lifted(s) /\ s.currentPos # s.target
      BY <2>3, <2>8 DEF Toward
    <3> DEFINE stops == s.settingPos /\ s.target # LiftEnd(d)
    <3>2. /\ Sound(q) /\ q.tiltDirection = 0
          /\ ~Arrives(s, d) => Only({"currentPos"}, s, q) /\ q.currentPos = Where(s, d)
          /\ Arrives(s, d) => /\ Free(s) /\ q.currentPos = s.target /\ q.direction = 0 /\ ~q.settingPos
                              /\ ~stops => Only(Arrivals, s, q)
                              /\ stops => Only(Arrivals \cup Sendings, s, q) /\ Posts(q, "My", "short")
      BY <2>1, <2>3, <2>4, <3>1, LiftLifted, ZenonT(60)
    <3>3. Where(s, d) = Where(s0, d) /\ (Arrives(s, d) <=> Arrives(s0, d))
      BY <2>3 DEF Where, Arrives
    <3> HIDE DEF q, d
    <3>4. Only(Arrivals \cup Sendings, s, q)
      BY <3>2 DEF Only, Arrivals
    <3>5. q.tiltType = "none" /\ q.currentTiltPos = q.tiltTarget /\ q.target = s.target /\ q.settingMyPos = s.settingMyPos
          /\ q.pendingCmd = "none"
      BY <2>3, <2>4, <3>4 DEF Only, Fields, Arrivals, Sendings, Lift
    <3>6. r = IF s.settingMyPos /\ q.currentPos = s.target THEN [q EXCEPT !.pendingCmd = "setMyPos", !.gap = CmdGap] ELSE q
      BY <2>6, <3>2, <3>5
    <3>7. CASE ~Arrives(s, d)
      <4>1. q.currentPos # s.target
        BY <2>3, <3>1, <3>2, <3>7 DEF Arrives
      <4>2. r = q
        BY <3>6, <4>1
      <4>3. Only({"direction", "currentPos"}, s0, q) /\ q.direction = d
        BY <2>1, <3>2, <3>7 DEF Only, Fields
      <4>4. Advances(s0, r, d)
        BY <1>5, <3>2, <3>3, <3>7, <4>2, <4>3 DEF Advances, d
      <4>5. QED
        BY <1>1, <3>1, <4>4 DEF r
    <3>8. CASE Arrives(s, d)
      <4>1. r = IF s.settingMyPos THEN [q EXCEPT !.pendingCmd = "setMyPos", !.gap = CmdGap] ELSE q
        BY <3>2, <3>6, <3>8
      <4>2. DOMAIN q = Fields
        BY <3>2 DEF Sound, Typed
      <4>3. /\ Only({"pendingCmd", "gap"}, q, r) /\ Gapped(s0, r)
        BY <1>2, <2>3, <3>5, <4>1, <4>2 DEF Gapped, Only, Fields
      <4>4. /\ r.currentPos = q.currentPos /\ r.direction = q.direction /\ r.settingPos = q.settingPos
            /\ r.txWaitJob = q.txWaitJob /\ r.waited = q.waited /\ r.startPos = q.startPos
            /\ r.startTiltPos = q.startTiltPos /\ r.currentTiltPos = q.currentTiltPos
            /\ r.moved = q.moved /\ r.tilted = q.tilted /\ r.heard = q.heard /\ r.lastFrame = q.lastFrame
            /\ r.queue = q.queue
        BY <4>3 DEF Only, Fields
      <4>5. Posts(q, "My", "short") => Posts(r, "My", "short")
        BY <4>4 DEF Posts
      <4>6. /\ Only(Arrivals, s, q) => Only(Arrived, s0, r)
            /\ Only(Arrivals \cup Sendings, s, q) => Only(Arrived \cup Sendings, s0, r)
        BY <2>1, <4>3 DEF Only, Arrived, Arrivals
      <4>7. Stops(s0, r, d)
        BY <1>5, <2>3, <2>4, <3>2, <3>3, <3>8, <4>3, <4>4, <4>5, <4>6 DEF Stops, d
      <4>8. QED
        BY <1>1, <3>1, <4>7 DEF r
    <3>9. QED
      BY <3>7, <3>8
  <2>9. QED
    BY <2>7, <2>8
<1>6. QED
  BY <1>2, <1>3, <1>4, <1>5

-----------------------------------------------------------------------------
(* A lift and its motor.                                                   *)

\* A lift's motor tilts nothing, and knows no favourite that the device simulates.
LiftMotor(s, m) == m.tilt = 0 /\ m.tiltGoal = 0 /\ (s.simMy => m.my = NoPos)

\* Where a frame sends the motor of a lift, and the favourite it leaves it.
GoalAfter(m, cmd, length) ==
  CASE cmd = "Up" -> 0
    [] cmd = "Down" -> Full
    [] cmd = "StepUp" -> AtLeast(0, AtMost(Full, m.pos - 1))
    [] cmd = "StepDown" -> AtLeast(0, AtMost(Full, m.pos + 1))
    [] cmd = "My" -> IF m.goal # m.pos THEN m.pos ELSE IF length = "set" \/ m.my = NoPos THEN m.goal ELSE m.my
\* A long My at rest sets the favourite, or clears the one it is at.
MyAfter(m, cmd, length) ==
  IF cmd = "My" /\ m.goal = m.pos /\ length = "set" THEN (IF m.my = m.pos THEN NoPos ELSE m.pos) ELSE m.my

\* The shade believes the lift to rest where it does; or it knows since when it
\* travels, has not missed its target, and knows where it stops by itself.
Rests(s, pos, goal) == s.currentPos = s.target /\ pos = s.target /\ goal = s.target
Travels(s, pos, goal, d) ==
  /\ d * (s.target - s.currentPos) > 0 /\ d * (s.currentPos - s.startPos) >= 0
  /\ d * (pos - s.currentPos) >= 0 /\ d * (s.target - pos) >= 0
  /\ goal = IF s.settingPos THEN LiftEnd(d) ELSE s.target
  /\ pos = s.startPos + d * AtMost(s.moved, d * (goal - s.startPos))
Follows(s, pos, goal) == Rests(s, pos, goal) \/ \E d \in {-1, 1} : Travels(s, pos, goal, d)
\* The motor's favourite is the one the device knows, unless it simulates it.
Favors(s, my) == my = IF s.simMy THEN NoPos ELSE s.myPos

\* One frame of it waits in the radio queue, or has gone out and is not anchored yet.
OnItsWay(s) ==
  /\ s.txWaitJob # 0 /\ s.waited = 0
  /\ s.startPos = s.currentPos /\ s.startTiltPos = s.currentTiltPos /\ s.moved = 0 /\ s.tilted = 0
  /\ s.pendingCmd # "none" => s.gap > 0
  /\ \/ Len(s.queue) = 1 /\ s.queue[1].job = s.txWaitJob /\ s.heard = {}
     \/ s.queue = <<>> /\ s.heard = {[job |-> s.txWaitJob, age |-> 0]}

\* What the motor does once it has heard that frame is what the shade believes.
GoalToBe(s, m) == IF s.queue = <<>> THEN m.goal ELSE GoalAfter(m, s.queue[1].cmd, s.queue[1].length)
MyToBe(s, m) == IF s.queue = <<>> THEN m.my ELSE MyAfter(m, s.queue[1].cmd, s.queue[1].length)
\* The shade follows its motor, the frame on its way included.
Drives(s, m) ==
  /\ s.lastFrame.processed /\ (Free(s) \/ OnItsWay(s))
  /\ Follows(s, m.pos, GoalToBe(s, m)) /\ Favors(s, MyToBe(s, m))

\* Nothing is on its way, and the shade is where the motor is.
There(s, m) ==
  Free(s) => s.currentPos = m.pos /\ (s.currentPos = s.target /\ s.pendingCmd = "none" => s.direction = 0)

\* The travel of a lift is what its motor does: where they are alike.
LEMMA TravelsOn ==
  ASSUME NEW s, NEW pos \in Positions, NEW goal \in Positions, NEW d \in {-1, 1}, Travels(s, pos, goal, d),
         s.currentPos \in Positions, s.target \in Positions, s.startPos \in Positions, s.moved \in Positions,
         s.settingPos \in BOOLEAN
  PROVE  /\ d = Toward(s.currentPos, s.target) /\ s.currentPos # s.target
         /\ ~Arrives(s, d) => pos = Where(s, d)
         /\ Arrives(s, d) => pos = s.target
         /\ s.settingPos => goal = LiftEnd(d)
         /\ ~s.settingPos => goal = s.target
<1>1. /\ Full \in Nat /\ pos \in 0 .. Full /\ goal \in 0 .. Full /\ s.currentPos \in 0 .. Full
      /\ s.target \in 0 .. Full /\ s.startPos \in 0 .. Full /\ s.moved \in 0 .. Full
  BY Ranges DEF Positions
<1> DEFINE at == s.currentPos
           to == s.target
           from == s.startPos
           moved == s.moved
<1>2. /\ d * (to - at) > 0 /\ d * (at - from) >= 0 /\ d * (pos - at) >= 0 /\ d * (to - pos) >= 0
      /\ pos = from + d * AtMost(moved, d * (goal - from))
      /\ s.settingPos => goal = LiftEnd(d)
      /\ ~s.settingPos => goal = to
  BY DEF Travels
<1>3. Where(s, d) = AtLeast(0, AtMost(Full, from + d * moved)) /\ (Arrives(s, d) <=> d * (Where(s, d) - to) >= 0)
  BY DEF Where, Arrives
<1>4. /\ Full \in Nat /\ at \in 0 .. Full /\ to \in 0 .. Full /\ from \in 0 .. Full /\ moved \in 0 .. Full
  BY <1>1
<1> HIDE DEF at, to, from, moved
<1>5. CASE d = 1
  <2>1. pos = from + AtMost(moved, goal - from) /\ to > at /\ pos <= to /\ goal \in {Full, to}
    BY <1>1, <1>2, <1>4, <1>5 DEF LiftEnd, AtMost
  <2>2. Where(s, d) = AtMost(Full, from + moved)
    BY <1>3, <1>4, <1>5 DEF AtLeast, AtMost
  <2>3. /\ ~(Where(s, d) >= to) => pos = Where(s, d)
        /\ Where(s, d) >= to => pos = to
    BY <1>1, <1>4, <2>1, <2>2 DEF AtMost
  <2>4. (Arrives(s, d) <=> Where(s, d) >= to) /\ d = Toward(at, to) /\ at # to
    BY <1>3, <1>4, <1>5, <2>1, <2>2 DEF Toward, AtMost
  <2>5. QED
    BY <1>2, <2>3, <2>4 DEF at, to
<1>6. CASE d = -1
  <2>1. pos = from - AtMost(moved, from - goal) /\ to < at /\ pos >= to /\ goal \in {0, to}
    BY <1>1, <1>2, <1>4, <1>6 DEF LiftEnd, AtMost
  <2>2. Where(s, d) = AtLeast(0, from - moved)
    BY <1>3, <1>4, <1>6 DEF AtLeast, AtMost
  <2>3. /\ ~(Where(s, d) <= to) => pos = Where(s, d)
        /\ Where(s, d) <= to => pos = to
    BY <1>1, <1>4, <2>1, <2>2 DEF AtMost, AtLeast
  <2>4. (Arrives(s, d) <=> Where(s, d) <= to) /\ d = Toward(at, to) /\ at # to
    BY <1>3, <1>4, <1>6, <2>1, <2>2 DEF Toward, AtLeast
  <2>5. QED
    BY <1>2, <2>3, <2>4 DEF at, to
<1>7. QED
  BY <1>5, <1>6

LEMMA PostsDrive ==
  ASSUME NEW r, NEW m, NEW cmd, NEW length, Posts(r, cmd, length), r.pendingCmd # "none" => r.gap > 0,
         Follows(r, m.pos, GoalAfter(m, cmd, length)), Favors(r, MyAfter(m, cmd, length))
  PROVE  Drives(r, m) /\ There(r, m) /\ r.heard = {} /\ r.lastFrame.code = 0
<1>1. r.txWaitJob # 0 /\ r.queue # <<>> /\ r.queue[1].cmd = cmd /\ r.queue[1].length = length
  BY DEF Posts
<1>2. OnItsWay(r)
  BY DEF Posts, OnItsWay
<1>3. GoalToBe(r, m) = GoalAfter(m, cmd, length) /\ MyToBe(r, m) = MyAfter(m, cmd, length)
  BY <1>1 DEF GoalToBe, MyToBe
<1>4. QED
  BY <1>1, <1>2, <1>3 DEF Drives, There, Posts, Free

\* Who rests goes nowhere, and a lift that travels is not where it goes.
LEMMA FollowsIs ==
  ASSUME NEW s, Sound(s), NEW pos \in Positions, NEW goal \in Positions, Follows(s, pos, goal)
  PROVE  /\ s.currentPos = s.target => Rests(s, pos, goal)
         /\ s.currentPos # s.target => LET d == Toward(s.currentPos, s.target)
                                       IN  /\ d \in {-1, 1} /\ Travels(s, pos, goal, d)
                                           /\ ~Arrives(s, d) => pos = Where(s, d)
                                           /\ Arrives(s, d) => pos = s.target
                                           /\ goal = IF s.settingPos THEN LiftEnd(d) ELSE s.target
<1>1. /\ s.currentPos \in Positions /\ s.target \in Positions /\ s.startPos \in Positions /\ s.moved \in Positions
      /\ s.settingPos \in BOOLEAN
  BY DEF Sound, Typed
<1>2. CASE Rests(s, pos, goal)
  BY <1>2 DEF Rests
<1>3. ASSUME NEW d \in {-1, 1}, Travels(s, pos, goal, d)
      PROVE  /\ d = Toward(s.currentPos, s.target) /\ s.currentPos # s.target
             /\ ~Arrives(s, d) => pos = Where(s, d)
             /\ Arrives(s, d) => pos = s.target
             /\ goal = IF s.settingPos THEN LiftEnd(d) ELSE s.target
  BY <1>1, <1>3, TravelsOn
<1>4. QED
  BY <1>2, <1>3 DEF Follows

\* What a pass is to a lift that follows its motor.
Carries(s, r, m) ==
  /\ Lift(r) /\ Drives(r, m) /\ There(r, m) /\ r.heard = {}
  /\ r.simMy = s.simMy /\ r.lastFrame.code \in {s.lastFrame.code, 0}

LEMMA RecordsDrives ==
  ASSUME NEW s, Sound(s), Lift(s), NEW m \in Motors, LiftMotor(s, m), Drives(s, m),
         NEW r, Sound(r), Records(s, r)
  PROVE  Carries(s, r, m)
<1>1. /\ r.tiltType = s.tiltType /\ r.currentTiltPos = s.currentTiltPos /\ r.tiltTarget = s.tiltTarget
      /\ r.tiltDirection = s.tiltDirection /\ r.settingTiltPos = s.settingTiltPos /\ r.simMy = s.simMy
      /\ r.currentPos = s.currentPos /\ r.target = s.target /\ r.settingPos = s.settingPos
      /\ r.pendingCmd = "none" /\ ~r.settingMyPos /\ r.myTiltPos = NoPos
      /\ r.myPos = (IF s.myPos = s.currentPos THEN NoPos ELSE s.currentPos)
  BY DEF Records, Only, Fields, Sendings
<1>2. Lift(r)
  BY <1>1 DEF Lift
<1>3. ~s.simMy /\ s.currentPos = s.target
  BY DEF Records, Lift
<1>4. Rests(s, m.pos, m.goal) /\ s.myPos = m.my
  <2>1. Free(s)
    BY DEF Records
  <2>2. GoalToBe(s, m) = m.goal /\ MyToBe(s, m) = m.my
    BY <2>1 DEF Free, GoalToBe, MyToBe
  <2>3. m.pos \in Positions /\ m.goal \in Positions
    BY DEF Motors
  <2>4. QED
    BY <1>3, <2>2, <2>3, FollowsIs DEF Drives, Favors
<1>5. GoalAfter(m, "My", "set") = m.goal /\ MyAfter(m, "My", "set") = IF m.my = m.pos THEN NoPos ELSE m.pos
  BY <1>4 DEF Rests, GoalAfter, MyAfter
<1>6. Follows(r, m.pos, GoalAfter(m, "My", "set")) /\ Favors(r, MyAfter(m, "My", "set"))
  BY <1>1, <1>3, <1>4, <1>5 DEF Rests, Follows, Favors
<1>7. Drives(r, m) /\ There(r, m) /\ r.heard = {} /\ r.lastFrame.code = 0
  BY <1>1, <1>6, PostsDrive DEF Records
<1>8. QED
  BY <1>1, <1>2, <1>7 DEF Carries

LEMMA StaysDrives ==
  ASSUME NEW s, Sound(s), Lift(s), NEW m \in Motors, LiftMotor(s, m), Drives(s, m), s.heard = {},
         NEW r, Sound(r), Stays(s, r)
  PROVE  Carries(s, r, m)
<1>1. /\ r.tiltType = s.tiltType /\ r.currentTiltPos = s.currentTiltPos /\ r.tiltTarget = s.tiltTarget
      /\ r.tiltDirection = s.tiltDirection /\ r.settingTiltPos = s.settingTiltPos /\ r.simMy = s.simMy
      /\ r.currentPos = s.currentPos /\ r.target = s.target /\ r.settingPos = s.settingPos
      /\ r.settingMyPos = s.settingMyPos /\ r.myTiltPos = s.myTiltPos /\ r.myPos = s.myPos
      /\ r.lastFrame = s.lastFrame /\ r.queue = s.queue /\ r.heard = s.heard
      /\ r.txWaitJob = s.txWaitJob /\ r.waited = s.waited /\ r.startPos = s.startPos /\ r.moved = s.moved
      /\ r.startTiltPos = s.startTiltPos /\ r.tilted = s.tilted
      /\ r.direction = 0 /\ s.currentPos = s.target /\ s.pendingCmd = "none" /\ Gapped(s, r)
  BY DEF Stays, Only, Fields
<1>2. Lift(r)
  BY <1>1 DEF Lift, Gapped
<1>3. (Free(r) <=> Free(s)) /\ (OnItsWay(s) => OnItsWay(r))
  BY <1>1 DEF Free, OnItsWay, Gapped
<1>4. GoalToBe(r, m) = GoalToBe(s, m) /\ MyToBe(r, m) = MyToBe(s, m)
  BY <1>1 DEF GoalToBe, MyToBe
<1>5. \A goal : Follows(s, m.pos, goal) => Follows(r, m.pos, goal)
  BY <1>1 DEF Follows, Rests, Travels
<1>6. \A my : Favors(s, my) => Favors(r, my)
  BY <1>1 DEF Favors
<1>7. Drives(r, m)
  BY <1>1, <1>3, <1>4, <1>5, <1>6 DEF Drives
<1>8. There(r, m)
  <2>1. ASSUME Free(s) PROVE s.currentPos = m.pos
    <3>1. GoalToBe(s, m) = m.goal /\ m.pos \in Positions /\ m.goal \in Positions
      BY <2>1 DEF Free, GoalToBe, Motors
    <3>2. Rests(s, m.pos, m.goal)
      BY <1>1, <3>1, FollowsIs DEF Drives
    <3>3. QED
      BY <1>1, <3>2 DEF Rests
  <2>2. QED
    BY <1>1, <1>3, <2>1 DEF There
<1>9. QED
  BY <1>1, <1>2, <1>7, <1>8 DEF Carries

LEMMA AdvancesDrives ==
  ASSUME NEW s, Sound(s), Lift(s), NEW m \in Motors, LiftMotor(s, m), Drives(s, m), s.heard = {},
         NEW r, Sound(r), NEW d \in {-1, 1}, Advances(s, r, d)
  PROVE  Carries(s, r, m)
<1>1. /\ r.tiltType = s.tiltType /\ r.currentTiltPos = s.currentTiltPos /\ r.tiltTarget = s.tiltTarget
      /\ r.tiltDirection = s.tiltDirection /\ r.settingTiltPos = s.settingTiltPos /\ r.simMy = s.simMy
      /\ r.target = s.target /\ r.settingPos = s.settingPos /\ r.pendingCmd = s.pendingCmd
      /\ r.settingMyPos = s.settingMyPos /\ r.myTiltPos = s.myTiltPos /\ r.myPos = s.myPos
      /\ r.lastFrame = s.lastFrame /\ r.queue = s.queue /\ r.heard = s.heard
      /\ r.txWaitJob = s.txWaitJob /\ r.waited = s.waited /\ r.startPos = s.startPos /\ r.moved = s.moved
      /\ r.startTiltPos = s.startTiltPos /\ r.tilted = s.tilted
      /\ r.currentPos = Where(s, d) /\ s.pendingCmd = "none"
  BY DEF Advances, Only, Fields
<1>2. d = Toward(s.currentPos, s.target) /\ ~Arrives(s, d) /\ s.currentPos # s.target
  BY DEF Advances, Toward
<1>3. /\ s.currentPos \in 0 .. Full /\ s.target \in 0 .. Full /\ s.startPos \in 0 .. Full /\ s.moved \in 0 .. Full
      /\ Full \in Nat /\ m.pos \in Positions
  BY Ranges DEF Sound, Typed, Positions, Motors
<1>4. Lift(r)
  BY <1>1 DEF Lift
<1>5. ASSUME NEW goal \in Positions, Follows(s, m.pos, goal)
      PROVE  r.currentPos = m.pos /\ Follows(r, m.pos, goal)
  <2>1. Travels(s, m.pos, goal, d) /\ m.pos = Where(s, d)
    BY <1>2, <1>3, <1>5, FollowsIs
  <2>2. /\ d * (s.target - s.currentPos) > 0 /\ d * (s.currentPos - s.startPos) >= 0
        /\ d * (m.pos - s.currentPos) >= 0 /\ d * (s.target - m.pos) >= 0
    BY <2>1 DEF Travels
  <2>3. m.pos # s.target
    BY <1>2, <1>3, <2>1 DEF Arrives
  <2>4. m.pos \in Int
    BY <1>3 DEF Positions
  <2>5. d * (s.target - m.pos) > 0 /\ d * (m.pos - s.startPos) >= 0 /\ d * (m.pos - m.pos) >= 0
    <3>1. CASE d = 1
      BY <1>3, <2>2, <2>3, <2>4, <3>1
    <3>2. CASE d = -1
      BY <1>3, <2>2, <2>3, <2>4, <3>2
    <3>3. QED
      BY <3>1, <3>2
  <2>6. Travels(r, m.pos, goal, d)
    BY <1>1, <2>1, <2>5 DEF Travels
  <2>7. QED
    BY <1>1, <2>1, <2>6 DEF Follows
<1>6. /\ GoalToBe(r, m) = GoalToBe(s, m) /\ MyToBe(r, m) = MyToBe(s, m)
      /\ Free(s) => GoalToBe(s, m) = m.goal
  BY <1>1 DEF GoalToBe, MyToBe, Free
<1>7. GoalToBe(s, m) \in Positions
  <2>1. CASE s.queue = <<>>
    BY <2>1 DEF GoalToBe, Motors
  <2>2. CASE s.queue # <<>>
    <3>1. s.queue \in Seq(Frames)
      BY DEF Sound, Typed
    <3>2. s.queue[1] \in Frames
      BY <2>2, <3>1
    <3>3. s.queue[1].cmd \in Commands
      BY <3>2 DEF Frames
    <3>4. \A x \in Int : AtLeast(0, AtMost(Full, x)) \in Positions
      BY Clamps, <1>3 DEF Positions
    <3>5. m.pos \in Int /\ m.goal \in Positions /\ m.my \in Positions \cup {NoPos} /\ 0 \in Positions /\ Full \in Positions
      BY Ranges DEF Motors, Positions
    <3>6. AtLeast(0, AtMost(Full, m.pos - 1)) \in Positions /\ AtLeast(0, AtMost(Full, m.pos + 1)) \in Positions
      BY <3>4, <3>5
    <3>7. QED
      BY <1>3, <2>2, <3>3, <3>5, <3>6 DEF GoalToBe, GoalAfter, Commands
  <2>3. QED
    BY <2>1, <2>2
<1>8. Follows(r, m.pos, GoalToBe(r, m)) /\ r.currentPos = m.pos
  BY <1>5, <1>6, <1>7 DEF Drives
<1>9. (Free(r) <=> Free(s)) /\ (OnItsWay(s) => OnItsWay(r))
  <2>1. ASSUME OnItsWay(s) PROVE Where(s, d) = s.currentPos
    <3>1. s.startPos + d * s.moved = s.currentPos
      BY <1>3, <2>1 DEF OnItsWay
    <3>2. QED
      BY <1>3, <3>1, Clamps DEF Where
  <2>2. QED
    BY <1>1, <2>1 DEF Free, OnItsWay
<1>10. Favors(r, MyToBe(r, m))
  BY <1>1, <1>6 DEF Favors, Drives
<1>11. Drives(r, m)
  BY <1>1, <1>8, <1>9, <1>10 DEF Drives
<1>12. There(r, m)
  <2>1. r.currentPos # r.target
    BY <1>1, <1>2, <1>3 DEF Arrives
  <2>2. QED
    BY <1>8, <2>1 DEF There
<1>13. QED
  BY <1>1, <1>4, <1>11, <1>12 DEF Carries

LEMMA StopsDrives ==
  ASSUME NEW s, Sound(s), Lift(s), NEW m \in Motors, LiftMotor(s, m), Drives(s, m), s.heard = {},
         NEW r, Sound(r), NEW d \in {-1, 1}, Stops(s, r, d)
  PROVE  Carries(s, r, m)
<1> DEFINE stops == s.settingPos /\ s.target # LiftEnd(d)
<1>1. Only(Arrived \cup Sendings, s, r)
  BY DEF Stops, Only, Arrived, Arrivals
<1>2. /\ r.tiltType = s.tiltType /\ r.currentTiltPos = s.currentTiltPos /\ r.tiltTarget = s.tiltTarget
      /\ r.tiltDirection = s.tiltDirection /\ r.settingTiltPos = s.settingTiltPos /\ r.simMy = s.simMy
      /\ r.target = s.target /\ r.settingMyPos = s.settingMyPos /\ r.myTiltPos = s.myTiltPos
      /\ r.myPos = s.myPos /\ r.heard = s.heard
      /\ r.currentPos = s.target /\ r.direction = 0 /\ ~r.settingPos /\ Gapped(s, r) /\ s.pendingCmd = "none"
  BY <1>1 DEF Stops, Only, Fields, Arrived, Arrivals, Sendings
<1>3. Lift(r)
  BY <1>2 DEF Lift, Gapped
<1>4. d = Toward(s.currentPos, s.target) /\ Arrives(s, d) /\ s.currentPos # s.target /\ Free(s)
  BY DEF Stops, Toward
<1>5. GoalToBe(s, m) = m.goal /\ MyToBe(s, m) = m.my /\ m.pos \in Positions /\ m.goal \in Positions
  BY <1>4 DEF Free, GoalToBe, MyToBe, Motors
<1>6. m.pos = s.target /\ m.goal = IF s.settingPos THEN LiftEnd(d) ELSE s.target
  BY <1>4, <1>5, FollowsIs DEF Drives
<1>7. Favors(r, m.my)
  BY <1>2, <1>5 DEF Drives, Favors
<1>8. CASE stops
  <2>1. Posts(r, "My", "short") /\ (r.pendingCmd # "none" => r.gap > 0)
    BY <1>2, <1>8 DEF Stops, Gapped
  <2>2. GoalAfter(m, "My", "short") = m.pos /\ MyAfter(m, "My", "short") = m.my
    BY <1>6, <1>8 DEF GoalAfter, MyAfter
  <2>3. Follows(r, m.pos, m.pos)
    BY <1>2, <1>6 DEF Follows, Rests
  <2>4. Drives(r, m) /\ There(r, m) /\ r.lastFrame.code = 0
    BY <1>7, <2>1, <2>2, <2>3, PostsDrive
  <2>5. QED
    BY <1>2, <1>3, <2>4 DEF Carries
<1>9. CASE ~stops
  <2>1. Only(Arrived, s, r)
    BY <1>9 DEF Stops
  <2>2. /\ r.lastFrame = s.lastFrame /\ r.queue = s.queue /\ r.txWaitJob = s.txWaitJob
    BY <2>1 DEF Only, Fields, Arrived, Arrivals
  <2>3. Free(r) /\ r.queue = <<>>
    BY <1>2, <1>4, <2>2 DEF Free
  <2>4. GoalToBe(r, m) = m.goal /\ MyToBe(r, m) = m.my
    BY <2>3 DEF GoalToBe, MyToBe
  <2>5. Follows(r, m.pos, m.goal)
    BY <1>2, <1>6, <1>9 DEF Follows, Rests
  <2>6. Drives(r, m) /\ There(r, m)
    BY <1>2, <1>6, <1>7, <2>2, <2>3, <2>4, <2>5 DEF Drives, There
  <2>7. QED
    BY <1>2, <1>3, <2>2, <2>6 DEF Carries
<1>10. QED
  BY <1>8, <1>9

\* A pass of checkMovement() over a lift that follows its motor.
LEMMA DrivesOn ==
  ASSUME NEW s, Sound(s), Lift(s), NEW m \in Motors, LiftMotor(s, m), Drives(s, m), s.heard = {}
  PROVE  Sound(CheckMovement(s)) /\ Carries(s, CheckMovement(s), m)
<1> DEFINE r == CheckMovement(s)
<1>1. /\ Quiet(s) /\ (s.txWaitJob = 0 => Free(s))
      /\ s.pendingCmd # "none" /\ s.gap = 0 => Free(s)
  BY DEF Drives, OnItsWay, Free, Quiet
<1>2. /\ Sound(r)
      /\ Pauses(s, r) \/ Records(s, r) \/ Stays(s, r) \/ \E d \in {-1, 1} : Advances(s, r, d) \/ Stops(s, r, d)
  BY <1>1, LiftPasses
<1> HIDE DEF r
<1>3. ASSUME Pauses(s, r) PROVE Carries(s, r, m)
  <2>1. r = s /\ s.pendingCmd # "none" /\ s.currentPos = s.target
    BY <1>3 DEF Pauses, Lift
  <2>2. ASSUME Free(s) PROVE s.currentPos = m.pos
    <3>1. GoalToBe(s, m) = m.goal /\ m.pos \in Positions /\ m.goal \in Positions
      BY <2>2 DEF Free, GoalToBe, Motors
    <3>2. Rests(s, m.pos, m.goal)
      BY <2>1, <3>1, FollowsIs DEF Drives
    <3>3. QED
      BY <2>1, <3>2 DEF Rests
  <2>3. QED
    BY <2>1, <2>2 DEF Carries, There
<1>4. QED
  BY <1>2, <1>3, RecordsDrives, StaysDrives, AdvancesDrives, StopsDrives DEF r

-----------------------------------------------------------------------------
(* Orders to a lift.                                                       *)

\* A lift with nothing on its way, where its motor is; and at rest if the motor is.
Placed(s, m) ==
  /\ Sound(s) /\ Lift(s) /\ LiftMotor(s, m) /\ Free(s) /\ s.pendingCmd = "none"
  /\ s.currentPos = m.pos /\ Favors(s, m.my)
Poised(s, m) == Placed(s, m) /\ s.lastFrame.processed /\ (IsIdle(s) => m.goal = m.pos) /\ (~IsIdle(s) => m.goal # m.pos)

LEMMA DrivesPoised ==
  ASSUME NEW s, Sound(s), Lift(s), NEW m \in Motors, LiftMotor(s, m), Drives(s, m), There(s, m), Free(s),
         s.pendingCmd = "none"
  PROVE  Poised(s, m)
<1>1. GoalToBe(s, m) = m.goal /\ MyToBe(s, m) = m.my /\ m.pos \in Positions /\ m.goal \in Positions
  BY DEF Free, GoalToBe, MyToBe, Motors
<1>2. Placed(s, m)
  BY <1>1 DEF Placed, There, Drives
<1>3. IsIdle(s) <=> s.currentPos = s.target
  BY <1>2 DEF IsIdle, IsAtTarget, There, Lift, Free
<1>4. CASE s.currentPos = s.target
  <2>1. Rests(s, m.pos, m.goal)
    BY <1>1, <1>4, FollowsIs DEF Drives
  <2>2. QED
    BY <1>2, <1>3, <1>4, <2>1 DEF Poised, Rests, Drives
<1>5. CASE s.currentPos # s.target
  <2> DEFINE d == Toward(s.currentPos, s.target)
  <2>1. /\ d \in {-1, 1} /\ Travels(s, m.pos, m.goal, d)
        /\ m.goal = IF s.settingPos THEN LiftEnd(d) ELSE s.target
    BY <1>1, <1>5, FollowsIs DEF Drives
  <2>2. s.currentPos \in 0 .. Full /\ s.target \in 0 .. Full /\ Full \in Nat
    BY Ranges DEF Sound, Typed, Positions
  <2>3. m.goal # s.currentPos
    BY <1>5, <2>1, <2>2 DEF LiftEnd, Toward
  <2>4. QED
    BY <1>2, <1>3, <1>5, <2>3 DEF Poised, Placed, Drives
<1>6. QED
  BY <1>4, <1>5

\* A lift that starts from where its motor is follows it, if both go the same way.
LEMMA StartsOn ==
  ASSUME NEW r, NEW pos \in Positions, NEW goal \in Positions, r.target \in Positions,
         r.currentPos = pos, r.startPos = pos, r.moved = 0,
         r.target = pos => goal = pos,
         r.target # pos => goal = IF r.settingPos THEN LiftEnd(Toward(pos, r.target)) ELSE r.target
  PROVE  Follows(r, pos, goal)
<1>1. pos \in 0 .. Full /\ goal \in 0 .. Full /\ r.target \in 0 .. Full /\ Full \in Nat
  BY Ranges DEF Positions
<1>2. CASE r.target = pos
  BY <1>2 DEF Follows, Rests
<1>3. CASE r.target > pos
  <2>1. Toward(pos, r.target) = 1 /\ goal >= r.target /\ (goal = IF r.settingPos THEN LiftEnd(1) ELSE r.target)
    BY <1>1, <1>3 DEF Toward, LiftEnd
  <2>2. pos + 1 * AtMost(0, 1 * (goal - pos)) = pos
    BY <1>1, <1>3, <2>1 DEF AtMost
  <2>3. /\ 1 * (r.target - pos) > 0 /\ 1 * (pos - pos) >= 0
        /\ pos = pos + 1 * AtMost(0, 1 * (goal - pos))
    BY <1>1, <1>3, <2>2
  <2>4. 1 * (r.target - pos) >= 0
    BY <1>1, <1>3
  <2>5. Travels(r, pos, goal, 1)
    BY <2>1, <2>3, <2>4 DEF Travels
  <2>6. QED
    BY <2>5 DEF Follows
<1>4. CASE r.target < pos
  <2>1. Toward(pos, r.target) = -1 /\ goal <= r.target /\ (goal = IF r.settingPos THEN LiftEnd(-1) ELSE r.target)
    BY <1>1, <1>4 DEF Toward, LiftEnd
  <2>2. pos + (-1) * AtMost(0, (-1) * (goal - pos)) = pos
    BY <1>1, <1>4, <2>1 DEF AtMost
  <2>3. /\ (-1) * (r.target - pos) > 0 /\ (-1) * (pos - pos) >= 0
        /\ pos = pos + (-1) * AtMost(0, (-1) * (goal - pos))
    BY <1>1, <1>4, <2>2
  <2>4. (-1) * (r.target - pos) >= 0
    BY <1>1, <1>4
  <2>5. Travels(r, pos, goal, -1)
    BY <2>1, <2>3, <2>4 DEF Travels
  <2>6. QED
    BY <2>5 DEF Follows
<1>5. QED
  BY <1>1, <1>2, <1>3, <1>4

\* An order that changes no aim.
LEMMA PoisedCarries ==
  ASSUME NEW s, NEW m \in Motors, Poised(s, m), IsIdle(s)
  PROVE  Carries(s, s, m)
<1>1. s.currentPos = s.target /\ s.direction = 0
  BY DEF IsIdle, IsAtTarget, Poised, Placed, Lift
<1>2. GoalToBe(s, m) = m.goal /\ MyToBe(s, m) = m.my
  BY DEF Poised, Placed, Free, GoalToBe, MyToBe
<1>3. Follows(s, m.pos, m.goal)
  BY <1>1 DEF Follows, Rests, Poised, Placed
<1>4. QED
  BY <1>1, <1>2, <1>3 DEF Carries, Drives, There, Poised, Placed, Free

\* A frame that a lift sends, with what the order then aims at and remembers.
Aftermath == {"target", "settingPos", "settingMyPos", "myPos", "myTiltPos"}

LEMMA SendsCarries ==
  ASSUME NEW s, NEW m \in Motors, Placed(s, m), NEW cmd \in Commands, NEW length \in Lengths,
         NEW r, Sound(r), Only(Aftermath, SendFrame(s, cmd, length), r),
         r.myTiltPos \in {0, NoPos}, r.settingMyPos => ~s.simMy, s.simMy => r.myTiltPos = NoPos,
         Favors(r, MyAfter(m, cmd, length)),
         GoalAfter(m, cmd, length) \in Positions,
         r.target = m.pos => GoalAfter(m, cmd, length) = m.pos,
         r.target # m.pos => GoalAfter(m, cmd, length) =
                               IF r.settingPos THEN LiftEnd(Toward(m.pos, r.target)) ELSE r.target
  PROVE  Carries(s, r, m)
<1> DEFINE sent == SendFrame(s, cmd, length)
<1>1. /\ Sound(s) /\ Lift(s) /\ Free(s) /\ s.pendingCmd = "none" /\ s.currentPos = m.pos /\ m.pos \in Positions
  BY DEF Placed, Motors
<1>2. Sound(sent) /\ Posts(sent, cmd, length) /\ Only({"target"} \cup Sendings, s, sent)
  BY <1>1, LiftSends
<1>3. Only(Aftermath, sent, r)
  OBVIOUS
<1> HIDE DEF sent
<1>4. /\ r.txWaitJob = sent.txWaitJob /\ r.waited = sent.waited /\ r.startPos = sent.startPos
      /\ r.moved = sent.moved /\ r.heard = sent.heard /\ r.lastFrame = sent.lastFrame
      /\ r.queue = sent.queue /\ r.tilted = sent.tilted /\ r.startTiltPos = sent.startTiltPos
      /\ r.currentPos = sent.currentPos /\ r.currentTiltPos = sent.currentTiltPos
      /\ r.tiltType = sent.tiltType /\ r.tiltTarget = sent.tiltTarget /\ r.tiltDirection = sent.tiltDirection
      /\ r.settingTiltPos = sent.settingTiltPos /\ r.simMy = sent.simMy /\ r.pendingCmd = sent.pendingCmd
  BY <1>3 DEF Only, Fields, Aftermath
<1>5. /\ sent.currentPos = s.currentPos /\ sent.currentTiltPos = s.currentTiltPos
      /\ sent.tiltType = s.tiltType /\ sent.tiltTarget = s.tiltTarget /\ sent.tiltDirection = s.tiltDirection
      /\ sent.settingTiltPos = s.settingTiltPos /\ sent.simMy = s.simMy /\ sent.pendingCmd = s.pendingCmd
  BY <1>2 DEF Only, Fields, Sendings
<1>6. Posts(r, cmd, length)
  BY <1>2, <1>4 DEF Posts
<1>7. Lift(r)
  BY <1>1, <1>4, <1>5 DEF Lift
<1>8. r.startPos = m.pos /\ r.currentPos = m.pos /\ r.moved = 0 /\ r.target \in Positions
  BY <1>1, <1>4, <1>5, <1>6 DEF Posts, Sound, Typed
<1>9. Follows(r, m.pos, GoalAfter(m, cmd, length))
  BY <1>1, <1>8, StartsOn
<1>10. Drives(r, m) /\ There(r, m) /\ r.heard = {} /\ r.lastFrame.code = 0
  BY <1>1, <1>4, <1>5, <1>6, <1>9, PostsDrive
<1>11. QED
  BY <1>4, <1>5, <1>7, <1>10 DEF Carries

LEMMA MoveToTargetCarries ==
  ASSUME NEW s, NEW m \in Motors, Placed(s, m), NEW p \in Positions, p # s.currentPos
  PROVE  Carries(s, MoveToTarget(s, p, NoPos), m)
<1> DEFINE dir == Toward(s.currentPos, p)
           cmd == IF dir < 0 THEN "Up" ELSE "Down"
           sent == SendFrame(s, cmd, "short")
           r == MoveToTarget(s, p, NoPos)
<1>1. /\ Sound(s) /\ Lift(s) /\ Free(s) /\ s.tiltType = "none" /\ s.currentPos = m.pos
      /\ s.currentPos \in 0 .. Full /\ p \in 0 .. Full /\ Full \in Nat
  BY Ranges DEF Placed, Lift, Sound, Typed, Positions
<1>2. dir \in {-1, 1} /\ dir # 0
  BY <1>1 DEF Toward
<1>3. r = [sent EXCEPT !.settingPos = TRUE, !.target = p,
                       !.tiltTarget = IF NoPos = NoPos THEN @ ELSE NoPos,
                       !.settingTiltPos = @ \/ NoPos # NoPos]
  <2>1. ~(s.tiltType = "tiltonly") /\ ~(s.tiltType = "euromode")
    BY <1>1
  <2>2. QED
    BY <1>2, <2>1 DEF MoveToTarget
<1>4. "short" \in Lengths /\ cmd \in Commands /\ cmd \in {"Up", "Down"}
  BY DEF Lengths, Commands
<1>5. Sound(r)
  BY <1>1, MoveToTargetIs
<1>6. Sound(sent) /\ Only({"target"} \cup Sendings, s, sent)
  BY <1>1, <1>4, LiftSends
<1> HIDE DEF sent, r
<1>7. Only(Aftermath, sent, r) /\ r.settingPos /\ r.target = p /\ Only({"target", "settingPos"}, sent, r)
  BY <1>3, <1>6 DEF Only, Fields, Aftermath, Sound, Typed
<1>8. /\ r.myTiltPos = s.myTiltPos /\ r.settingMyPos = s.settingMyPos /\ r.simMy = s.simMy /\ r.myPos = s.myPos
  BY <1>6, <1>7 DEF Only, Fields, Sendings
<1>9. r.myTiltPos \in {0, NoPos} /\ (r.settingMyPos => ~s.simMy) /\ (s.simMy => r.myTiltPos = NoPos)
  BY <1>1, <1>8 DEF Lift
<1>10. GoalAfter(m, cmd, "short") = LiftEnd(dir) /\ MyAfter(m, cmd, "short") = m.my
  BY <1>4 DEF GoalAfter, MyAfter, LiftEnd
<1>11. LiftEnd(dir) \in Positions
  BY Ranges DEF LiftEnd
<1>12. Favors(r, MyAfter(m, cmd, "short"))
  BY <1>8, <1>10 DEF Favors, Placed
<1>13. /\ r.target # m.pos /\ r.settingPos
       /\ GoalAfter(m, cmd, "short") = IF r.settingPos THEN LiftEnd(Toward(m.pos, r.target)) ELSE r.target
  BY <1>1, <1>7, <1>10 DEF dir
<1> HIDE DEF cmd, dir
<1>14. Carries(s, r, m)
  BY <1>4, <1>5, <1>7, <1>9, <1>10, <1>11, <1>12, <1>13, SendsCarries DEF sent
<1>15. QED
  BY <1>14 DEF r

LEMMA MoveToMyPositionCarries ==
  ASSUME NEW s, NEW m \in Motors, Placed(s, m), IsIdle(s), m.goal = m.pos
  PROVE  MoveToMyPosition(s) = s \/ Carries(s, MoveToMyPosition(s), m)
<1> DEFINE there == s.currentPos = s.myPos
           unknown == s.myPos = NoPos
           favorite == ToFavorite(s)
           aimed == [favorite EXCEPT !.settingPos = FALSE]
           r == MoveToMyPosition(s)
<1>1. /\ Sound(s) /\ Lift(s) /\ Free(s) /\ s.tiltType = "none" /\ s.currentPos = m.pos /\ Placed(s, m)
      /\ s.pendingCmd = "none" /\ LiftMotor(s, m) /\ m.goal = m.pos /\ Favors(s, m.my)
  BY DEF Placed, Lift
<1>2. r = IF there \/ unknown THEN s
          ELSE IF s.simMy THEN MoveToTarget(aimed, s.myPos, s.myTiltPos) ELSE SendFrame(aimed, "My", "short")
  <2>1. ~(s.tiltType = "tiltonly") /\ (s.tiltType # "none" <=> FALSE)
    BY <1>1
  <2>2. QED
    BY <2>1 DEF MoveToMyPosition
<1>3. CASE there \/ unknown
  BY <1>2, <1>3
<1>4. CASE ~there /\ ~unknown
  <2>1. s.myPos \in Positions /\ s.myPos # m.pos
    BY <1>1, <1>4 DEF Sound, Typed
  <2>2. /\ Sound(aimed) /\ Only(Aims \cup {"settingPos"}, s, aimed) /\ ~aimed.settingPos
        /\ aimed.target = s.myPos /\ aimed.tiltTarget = 0
    <3>1. favorite = [s EXCEPT !.tiltTarget = IF s.myTiltPos # NoPos THEN s.myTiltPos ELSE @, !.target = s.myPos]
      BY <1>1, <1>4 DEF ToFavorite
    <3> HIDE DEF favorite
    <3>2. /\ Only(Aims, s, favorite) /\ favorite.target = s.myPos /\ favorite.tiltTarget = 0
          /\ favorite.settingPos = s.settingPos
      BY <1>1, <2>1, <3>1 DEF Sound, Typed, Only, Fields, Aims, Lift
    <3>3. /\ DOMAIN favorite = Fields
      BY <3>2 DEF Only
    <3>4. Only(Aims \cup {"settingPos"}, s, aimed) /\ ~aimed.settingPos /\ aimed.target = s.myPos /\ aimed.tiltTarget = 0
          /\ aimed.settingPos \in BOOLEAN
      BY <3>2, <3>3 DEF Only, Fields, Aims
    <3> HIDE DEF aimed
    <3>5. Typed(aimed)
      BY <1>1, <2>1, <3>4, Ranges DEF Sound, Typed, Only, Fields, Aims
    <3>6. (Aims \cup {"settingPos"}) \cap Kept = {}
      BY DEF Aims, Kept
    <3>7. Sound(aimed)
      BY <1>1, <3>4, <3>5, <3>6, StaysSound
    <3>8. QED
      BY <3>4, <3>7
  <2> HIDE DEF aimed
  <2>3. /\ aimed.tiltType = s.tiltType /\ aimed.currentTiltPos = s.currentTiltPos
        /\ aimed.tiltDirection = s.tiltDirection /\ aimed.settingTiltPos = s.settingTiltPos
        /\ aimed.myTiltPos = s.myTiltPos /\ aimed.simMy = s.simMy /\ aimed.settingMyPos = s.settingMyPos
        /\ aimed.pendingCmd = s.pendingCmd /\ aimed.currentPos = s.currentPos /\ aimed.myPos = s.myPos
        /\ aimed.txWaitJob = s.txWaitJob /\ aimed.queue = s.queue /\ aimed.heard = s.heard
        /\ aimed.lastFrame = s.lastFrame
    BY <2>2 DEF Only, Fields, Aims
  <2>4. Lift(aimed) /\ Free(aimed) /\ LiftMotor(aimed, m) /\ Favors(aimed, m.my)
    BY <1>1, <2>2, <2>3 DEF Lift, Free, LiftMotor, Favors
  <2>5. Placed(aimed, m)
    BY <1>1, <2>2, <2>3, <2>4 DEF Placed
  <2>6. Carries(aimed, r, m)
    <3>1. CASE s.simMy
      <4>1. s.myTiltPos = NoPos
        BY <1>1, <3>1 DEF Lift
      <4>2. r = MoveToTarget(aimed, s.myPos, NoPos)
        BY <1>2, <1>4, <3>1, <4>1
      <4>3. s.myPos # aimed.currentPos
        BY <1>1, <2>1, <2>3
      <4>4. QED
        BY <2>1, <2>5, <4>2, <4>3, MoveToTargetCarries
    <3>2. CASE ~s.simMy
      <4>1. r = SendFrame(aimed, "My", "short")
        BY <1>2, <1>4, <3>2
      <4>2. "My" \in Commands /\ "short" \in Lengths
        BY DEF Commands, Lengths
      <4>3. Sound(r) /\ Only({"target"} \cup Sendings, aimed, r) /\ r.target = aimed.target
        BY <2>2, <2>4, <4>1, <4>2, LiftSends
      <4>4. /\ r.myPos = s.myPos /\ r.myTiltPos = s.myTiltPos /\ r.settingMyPos = s.settingMyPos
            /\ ~r.settingPos /\ r.target = s.myPos /\ r.simMy = s.simMy
        BY <2>2, <2>3, <4>3 DEF Only, Fields, Sendings
      <4>5. m.my = s.myPos
        BY <1>1, <3>2 DEF Favors
      <4>6. GoalAfter(m, "My", "short") = s.myPos /\ MyAfter(m, "My", "short") = m.my
        BY <1>1, <1>4, <4>5 DEF GoalAfter, MyAfter
      <4>7. Only(Aftermath, SendFrame(aimed, "My", "short"), r)
        BY <4>1, <4>3 DEF Only
      <4>8. r.myTiltPos \in {0, NoPos} /\ (r.settingMyPos => ~aimed.simMy) /\ (aimed.simMy => r.myTiltPos = NoPos)
        BY <1>1, <2>3, <3>2, <4>4 DEF Lift
      <4>9. Favors(r, MyAfter(m, "My", "short"))
        BY <3>2, <4>4, <4>5, <4>6 DEF Favors
      <4> HIDE DEF r
      <4>10. QED
        BY <2>1, <2>5, <4>2, <4>3, <4>4, <4>6, <4>7, <4>8, <4>9, SendsCarries
    <3>3. QED
      BY <3>1, <3>2
  <2>7. QED
    BY <2>3, <2>6 DEF Carries
<1>5. QED
  BY <1>3, <1>4

\* Neither what ends a positioning nor what starts a recording moves a lift.
LEMMA StaysPoised ==
  ASSUME NEW s0, NEW m \in Motors, Poised(s0, m), NEW s, Sound(s), Only({"settingPos", "settingMyPos"}, s0, s),
         s.settingMyPos => ~s0.simMy
  PROVE  Poised(s, m) /\ (IsIdle(s) <=> IsIdle(s0)) /\ s.lastFrame = s0.lastFrame /\ s.simMy = s0.simMy
<1>1. /\ s.tiltType = s0.tiltType /\ s.currentTiltPos = s0.currentTiltPos /\ s.tiltTarget = s0.tiltTarget
      /\ s.tiltDirection = s0.tiltDirection /\ s.settingTiltPos = s0.settingTiltPos
      /\ s.myTiltPos = s0.myTiltPos /\ s.simMy = s0.simMy /\ s.pendingCmd = s0.pendingCmd
      /\ s.txWaitJob = s0.txWaitJob /\ s.queue = s0.queue /\ s.heard = s0.heard
      /\ s.lastFrame = s0.lastFrame /\ s.currentPos = s0.currentPos /\ s.target = s0.target
      /\ s.myPos = s0.myPos /\ s.direction = s0.direction
  BY DEF Only, Fields
<1>2. Lift(s) /\ Free(s) /\ LiftMotor(s, m) /\ Favors(s, m.my)
  BY <1>1 DEF Poised, Placed, Lift, Free, LiftMotor, Favors
<1>3. IsIdle(s) <=> IsIdle(s0)
  BY <1>1 DEF IsIdle, IsAtTarget
<1>4. QED
  BY <1>1, <1>2, <1>3 DEF Poised, Placed

LEMMA SendCommandCarries ==
  ASSUME NEW s0, NEW m \in Motors, Poised(s0, m), NEW cmd \in Commands,
         cmd \in {"StepUp", "StepDown"} => m.goal = m.pos
  PROVE  Carries(s0, SendCommand(s0, cmd), m)
<1> DEFINE s == Superseding(s0)
           up == cmd = "Up"
           sent == SendFrame(s, cmd, "short")
           r == SendCommand(s0, cmd)
<1>1. Sound(s) /\ Only({"settingPos", "settingMyPos"}, s0, s) /\ ~s.settingMyPos /\ ~s.settingPos
  BY SupersedingIs DEF Poised, Placed
<1> HIDE DEF s
<1>2. Poised(s, m) /\ s.lastFrame = s0.lastFrame /\ s.simMy = s0.simMy
  BY <1>1, StaysPoised
<1>3. /\ Placed(s, m) /\ Sound(s) /\ Lift(s) /\ Free(s) /\ s.tiltType = "none" /\ s.currentPos = m.pos
      /\ s.tiltTarget = 0 /\ s.currentTiltPos = 0 /\ Favors(s, m.my)
      /\ s.currentPos \in 0 .. Full /\ Full \in Nat /\ m.pos \in Positions /\ m.goal \in Positions
  BY <1>2, Ranges DEF Poised, Placed, Lift, Sound, Typed, Positions, Motors
<1>4. "short" \in Lengths
  BY DEF Lengths
<1>5. /\ Sound(sent) /\ Only({"target"} \cup Sendings, s, sent)
      /\ cmd \in {"Up", "Down", "My"} => sent.target = s.target
      /\ cmd \in {"StepUp", "StepDown"} => sent.target = StepTo(s, cmd)
  BY <1>3, <1>4, LiftSends
<1>6. r = CASE cmd \in {"Up", "Down"} ->
                 [sent EXCEPT !.target = IF ~up THEN Full ELSE 0, !.currentPos = @, !.tiltTarget = @]
            [] cmd = "My" /\ IsIdle(s) -> MoveToMyPosition(s)
            [] cmd = "My" /\ ~IsIdle(s) -> [sent EXCEPT !.target = sent.currentPos, !.tiltTarget = sent.currentTiltPos]
            [] OTHER -> sent
  <2>1. ~(s.tiltType = "tiltonly") /\ ~(s.tiltType = "euromode") /\ ~(s.tiltType \in {"tiltonly", "integrated"})
    BY <1>3
  <2>2. QED
    BY <2>1 DEF SendCommand, s
<1>7. Sound(r)
  BY SendCommandIs DEF Poised, Placed
<1> HIDE DEF r
<1>8. ASSUME Only({"target"}, sent, r),
             GoalAfter(m, cmd, "short") \in Positions,
             r.target = m.pos => GoalAfter(m, cmd, "short") = m.pos,
             r.target # m.pos => GoalAfter(m, cmd, "short") = r.target
      PROVE  Carries(s, r, m)
  <2>1. Only(Aftermath, sent, r) /\ Only({"target"} \cup Sendings, s, r)
    BY <1>5, <1>8 DEF Only, Aftermath
  <2>2. /\ r.myTiltPos = s.myTiltPos /\ r.settingMyPos = s.settingMyPos /\ r.simMy = s.simMy
        /\ r.myPos = s.myPos /\ ~r.settingPos
    BY <1>1, <2>1 DEF Only, Fields, Sendings
  <2>3. r.myTiltPos \in {0, NoPos} /\ (r.settingMyPos => ~s.simMy) /\ (s.simMy => r.myTiltPos = NoPos)
    BY <1>1, <1>3, <2>2 DEF Lift
  <2>4. MyAfter(m, cmd, "short") = m.my
    BY DEF MyAfter
  <2>5. Favors(r, MyAfter(m, cmd, "short"))
    BY <1>3, <2>2, <2>4 DEF Favors
  <2>6. r.target # m.pos => GoalAfter(m, cmd, "short") =
                              IF r.settingPos THEN LiftEnd(Toward(m.pos, r.target)) ELSE r.target
    BY <1>8, <2>2
  <2> HIDE DEF sent
  <2>7. QED
    BY <1>3, <1>4, <1>7, <1>8, <2>1, <2>3, <2>5, <2>6, SendsCarries DEF sent
<1> HIDE DEF sent
<1>9. /\ DOMAIN sent = Fields /\ sent.currentPos = m.pos /\ sent.currentTiltPos = 0 /\ sent.tiltTarget = 0
  BY <1>3, <1>5 DEF Only, Fields, Sendings
<1>10. ASSUME cmd \in {"Up", "Down"} PROVE Carries(s, r, m)
  <2>1. r = [sent EXCEPT !.target = IF ~up THEN Full ELSE 0, !.currentPos = @, !.tiltTarget = @]
    BY <1>6, <1>10
  <2>2. Only({"target"}, sent, r) /\ r.target = IF ~up THEN Full ELSE 0
    BY <1>9, <2>1 DEF Only, Fields
  <2>3. GoalAfter(m, cmd, "short") = (IF ~up THEN Full ELSE 0) /\ GoalAfter(m, cmd, "short") \in Positions
    BY <1>10, Ranges DEF GoalAfter
  <2>4. QED
    BY <1>8, <2>2, <2>3
<1>11. ASSUME cmd = "My" /\ IsIdle(s) PROVE Carries(s, r, m)
  <2>1. r = MoveToMyPosition(s)
    BY <1>6, <1>11
  <2>2. QED
    <3>1. Placed(s, m) /\ IsIdle(s) /\ m.goal = m.pos /\ Carries(s, s, m)
      BY <1>2, <1>11, PoisedCarries DEF Poised
    <3>2. r = s \/ Carries(s, r, m)
      BY <2>1, <3>1, MoveToMyPositionCarries
    <3>3. QED
      BY <3>1, <3>2
<1>12. ASSUME cmd = "My" /\ ~IsIdle(s) PROVE Carries(s, r, m)
  <2>1. r = [sent EXCEPT !.target = sent.currentPos, !.tiltTarget = sent.currentTiltPos]
    BY <1>6, <1>12
  <2>2. Only({"target"}, sent, r) /\ r.target = m.pos
    BY <1>9, <2>1 DEF Only, Fields
  <2>3. GoalAfter(m, cmd, "short") = m.pos
    BY <1>2, <1>12 DEF GoalAfter, Poised
  <2>4. QED
    BY <1>3, <1>8, <2>2, <2>3
<1>13. ASSUME cmd \in {"StepUp", "StepDown"} PROVE Carries(s, r, m)
  <2>1. r = sent /\ IsIdle(s)
    BY <1>2, <1>6, <1>13 DEF Poised
  <2>2. s.currentPos = s.target
    BY <1>3, <2>1 DEF IsIdle, IsAtTarget
  <2>3. r.target = StepTo(s, cmd) /\ Only({"target"}, sent, r)
    BY <1>5, <1>13, <2>1 DEF Only
  <2>4. GoalAfter(m, cmd, "short") = StepTo(s, cmd) /\ StepTo(s, cmd) \in Positions
    <3>1. CASE cmd = "StepUp"
      BY <1>3, <2>2, <3>1 DEF GoalAfter, StepTo, AtLeast, AtMost, Positions
    <3>2. CASE cmd = "StepDown"
      BY <1>3, <2>2, <3>2 DEF GoalAfter, StepTo, AtLeast, AtMost, Positions
    <3>3. QED
      BY <1>13, <3>1, <3>2
  <2>5. QED
    BY <1>8, <2>3, <2>4
<1>14. Carries(s, r, m)
  BY <1>10, <1>11, <1>12, <1>13 DEF Commands
<1>15. QED
  BY <1>2, <1>14 DEF Carries, r

LEMMA SetMyPositionCarries ==
  ASSUME NEW s, NEW m \in Motors, Poised(s, m), IsIdle(s), ~s.simMy, NEW p \in Positions
  PROVE  Carries(s, SetMyPosition(s, p, NoPos), m)
<1> DEFINE here == p = s.currentPos
           favorite == p = s.myPos
           setting == [s EXCEPT !.settingMyPos = TRUE]
           short == SendFrame(s, "My", "short")
           long == SendFrame(s, "My", "set")
           r == SetMyPosition(s, p, NoPos)
<1>1. /\ Placed(s, m) /\ Sound(s) /\ Lift(s) /\ Free(s) /\ s.tiltType = "none" /\ s.currentPos = m.pos
      /\ m.goal = m.pos /\ m.pos \in Positions /\ s.myPos = m.my /\ s.currentPos = s.target
  BY DEF Poised, Placed, Lift, Favors, Motors, IsIdle, IsAtTarget
<1>2. r = CASE ~here /\ favorite -> MoveToMyPosition(setting)
            [] ~here /\ ~favorite -> MoveToTarget(setting, p, NoPos)
            [] here /\ favorite -> [short EXCEPT !.settingPos = FALSE, !.settingMyPos = TRUE]
            [] OTHER -> [long EXCEPT !.myPos = p, !.myTiltPos = NoPos]
  <2>1. ~(s.tiltType = "tiltonly") /\ (s.tiltType # "none" <=> FALSE)
    BY <1>1
  <2>2. QED
    BY <2>1 DEF SetMyPosition
<1>3. Sound(r)
  BY <1>1, SetMyPositionIs
<1> HIDE DEF r
<1>4. Poised(setting, m) /\ IsIdle(setting) /\ setting.lastFrame = s.lastFrame /\ setting.simMy = s.simMy
      /\ setting.currentPos = s.currentPos
  <2>1. Only({"settingPos", "settingMyPos"}, s, setting) /\ Only({"settingMyPos"}, s, setting) /\ Typed(setting)
    BY <1>1 DEF Sound, Typed, Only, Fields
  <2>2. {"settingMyPos"} \cap Kept = {}
    BY DEF Kept
  <2> HIDE DEF setting
  <2>3. Sound(setting)
    BY <1>1, <2>1, <2>2, StaysSound
  <2>4. Poised(setting, m) /\ (IsIdle(setting) <=> IsIdle(s)) /\ setting.lastFrame = s.lastFrame /\ setting.simMy = s.simMy
    BY <2>1, <2>3, StaysPoised
  <2>5. QED
    BY <1>1, <2>4 DEF Poised, Placed
<1> HIDE DEF setting
<1>5. "My" \in Commands /\ "short" \in Lengths /\ "set" \in Lengths
  BY DEF Commands, Lengths
<1>6. CASE ~here /\ favorite
  <2>1. Carries(setting, r, m)
    <3>1. Placed(setting, m) /\ IsIdle(setting) /\ m.goal = m.pos /\ Carries(setting, setting, m)
      BY <1>4, PoisedCarries DEF Poised
    <3>2. r = MoveToMyPosition(setting)
      BY <1>2, <1>6
    <3>3. r = setting \/ Carries(setting, r, m)
      BY <3>1, <3>2, MoveToMyPositionCarries
    <3>4. QED
      BY <3>1, <3>3
  <2>2. QED
    BY <1>4, <2>1 DEF Carries, r
<1>7. CASE ~here /\ ~favorite
  <2>1. r = MoveToTarget(setting, p, NoPos) /\ p # setting.currentPos /\ Placed(setting, m)
    BY <1>2, <1>4, <1>7 DEF Poised
  <2>2. Carries(setting, r, m)
    BY <2>1, MoveToTargetCarries
  <2>3. QED
    BY <1>4, <2>2 DEF Carries, r
<1>8. CASE here /\ favorite
  <2>1. r = [short EXCEPT !.settingPos = FALSE, !.settingMyPos = TRUE]
    BY <1>2, <1>8
  <2>2. Sound(short) /\ Only({"target"} \cup Sendings, s, short) /\ short.target = s.target
    BY <1>1, <1>5, LiftSends
  <2> HIDE DEF short
  <2>3. Only(Aftermath, short, r) /\ Only({"settingPos", "settingMyPos"}, short, r)
    BY <2>1, <2>2 DEF Only, Fields, Aftermath
  <2>4. r.myTiltPos = s.myTiltPos /\ r.myPos = s.myPos /\ r.target = m.pos /\ r.simMy = s.simMy
    BY <1>1, <2>2, <2>3 DEF Only, Fields, Sendings
  <2>5. GoalAfter(m, "My", "short") = m.pos /\ MyAfter(m, "My", "short") = m.my
    BY <1>1, <1>8 DEF GoalAfter, MyAfter
  <2>6. r.myTiltPos \in {0, NoPos} /\ Favors(r, MyAfter(m, "My", "short"))
    BY <1>1, <2>4, <2>5 DEF Lift, Favors
  <2>7. Carries(s, r, m)
    BY <1>1, <1>3, <1>5, <2>3, <2>4, <2>5, <2>6, SendsCarries DEF short
  <2>8. QED
    BY <2>7 DEF r
<1>9. CASE here /\ ~favorite
  <2>1. r = [long EXCEPT !.myPos = p, !.myTiltPos = NoPos]
    BY <1>2, <1>9
  <2>2. Sound(long) /\ Only({"target"} \cup Sendings, s, long) /\ long.target = s.target
    BY <1>1, <1>5, LiftSends
  <2> HIDE DEF long
  <2>3. Only(Aftermath, long, r) /\ Only({"myPos", "myTiltPos"}, long, r) /\ r.myPos = p /\ r.myTiltPos = NoPos
    BY <2>1, <2>2 DEF Only, Fields, Aftermath
  <2>4. r.settingMyPos = s.settingMyPos /\ r.target = m.pos /\ r.simMy = s.simMy
    BY <1>1, <2>2, <2>3 DEF Only, Fields, Sendings
  <2>5. GoalAfter(m, "My", "set") = m.pos /\ MyAfter(m, "My", "set") = m.pos
    BY <1>1, <1>9 DEF GoalAfter, MyAfter
  <2>6. Favors(r, MyAfter(m, "My", "set"))
    BY <1>1, <1>9, <2>3, <2>4, <2>5 DEF Favors
  <2>7. Carries(s, r, m)
    BY <1>1, <1>3, <1>5, <2>3, <2>4, <2>5, <2>6, SendsCarries DEF long
  <2>8. QED
    BY <2>7 DEF r
<1>10. QED
  BY <1>6, <1>7, <1>8, <1>9

LEMMA GroupCommandCarries ==
  ASSUME NEW s0, NEW m \in Motors, Poised(s0, m), NEW cmd \in {"Up", "Down"}
  PROVE  Carries(s0, GroupCommand(s0, cmd), m)
<1> DEFINE job == NewJob(s0)
           sup == Superseding(s0)
           f == [job |-> job, remote |-> "group", cmd |-> cmd, length |-> "short"]
           waiting == Append(sup.queue, f)
           s == [Rebase([sup EXCEPT !.queue = waiting]) EXCEPT !.txWaitJob = job, !.waited = 0]
           r == GroupCommand(s0, cmd)
           end == IF cmd = "Up" THEN 0 ELSE Full
<1>1. Sound(sup) /\ Only({"settingPos", "settingMyPos"}, s0, sup) /\ ~sup.settingMyPos /\ ~sup.settingPos
  BY SupersedingIs DEF Poised, Placed
<1>2. s = [Rebase(Queue(sup, job, "group", cmd, "short")) EXCEPT !.txWaitJob = job, !.waited = 0]
  BY DEF Queue
<1> HIDE DEF sup
<1>3. Poised(sup, m) /\ sup.lastFrame = s0.lastFrame /\ sup.simMy = s0.simMy
  BY <1>1, StaysPoised
<1>4. /\ Lift(sup) /\ Free(sup) /\ sup.tiltType = "none" /\ sup.currentPos = m.pos /\ DOMAIN sup = Fields
      /\ sup.tiltTarget = 0 /\ sup.currentTiltPos = 0 /\ Favors(sup, m.my) /\ sup.lastFrame.processed
      /\ sup.queue = <<>> /\ sup.heard = {} /\ sup.pendingCmd = "none" /\ m.pos \in Positions
  BY <1>3 DEF Poised, Placed, Lift, Free, Sound, Typed, Motors
<1>5. waiting = <<f>>
  BY <1>4
<1> HIDE DEF waiting, f
<1>6. /\ s.queue = waiting /\ s.txWaitJob = job /\ s.waited = 0 /\ s.moved = 0 /\ s.tilted = 0
      /\ s.startPos = sup.currentPos /\ s.startTiltPos = sup.currentTiltPos
      /\ Only(Sendings, sup, s) /\ s.tiltType = "none" /\ s.lastFrame = sup.lastFrame
      /\ s.tiltTarget = 0 /\ s.currentPos = sup.currentPos
  BY <1>4 DEF Rebase, Fields, Only, Sendings
<1>7. r = IF cmd = "Up" THEN [s EXCEPT !.target = 0, !.tiltTarget = 0, !.currentPos = @]
          ELSE [s EXCEPT !.target = Full, !.currentPos = @, !.tiltTarget = @]
  <2>1. ~(s.tiltType = "tiltonly") /\ s.tiltType # "tiltmotor"
    BY <1>6
  <2> HIDE DEF s
  <2>2. QED
    BY <1>2, <1>6, <2>1 DEF GroupCommand, sup, job
<1>8. Sound(r) /\ r.txWaitJob # 0
  BY GroupCommandIs DEF Poised, Placed
<1> HIDE DEF r, s, job
<1>9. Only({"target"}, s, r) /\ r.target = end
  BY <1>6, <1>7 DEF Only, Fields
<1>10. /\ r.queue = waiting /\ r.txWaitJob = job /\ r.waited = 0 /\ r.moved = 0 /\ r.tilted = 0
       /\ r.startPos = m.pos /\ r.startTiltPos = 0 /\ r.lastFrame = s0.lastFrame
       /\ r.tiltType = "none" /\ r.currentTiltPos = 0 /\ r.tiltTarget = 0 /\ r.currentPos = m.pos
       /\ r.tiltDirection = sup.tiltDirection /\ r.settingTiltPos = sup.settingTiltPos /\ r.myTiltPos = sup.myTiltPos
       /\ r.simMy = sup.simMy /\ ~r.settingMyPos /\ ~r.settingPos /\ r.pendingCmd = "none"
       /\ r.heard = {} /\ r.myPos = sup.myPos
  BY <1>1, <1>3, <1>4, <1>6, <1>9 DEF Only, Fields, Sendings
<1>11. Lift(r) /\ Favors(r, m.my)
  BY <1>4, <1>10 DEF Lift, Favors
<1>12. OnItsWay(r)
  <2>1. Len(waiting) = 1 /\ waiting[1].job = job
    BY <1>5 DEF f
  <2>2. QED
    BY <1>8, <1>10, <2>1 DEF OnItsWay
<1>13. GoalToBe(r, m) = end /\ MyToBe(r, m) = m.my
  BY <1>5, <1>10 DEF GoalToBe, MyToBe, GoalAfter, MyAfter, f
<1>14. Follows(r, m.pos, end)
  <2>1. end \in Positions
    BY Ranges
  <2>2. QED
    BY <1>4, <1>9, <1>10, <2>1, StartsOn
<1>15. Drives(r, m) /\ There(r, m)
  BY <1>4, <1>8, <1>10, <1>11, <1>12, <1>13, <1>14, <1>3 DEF Drives, There, Free
<1>16. Carries(s0, r, m)
  BY <1>3, <1>10, <1>11, <1>15 DEF Carries
<1>17. QED
  BY <1>16 DEF r

-----------------------------------------------------------------------------
(* The orders of a lift whose goal is known.                               *)

\* What a lift is ordered here: not a tilt, and not a My of a group, after which the
\* shade never thinks it idle; a favourite is not set where the device simulates it.
LiftOrders(simMy) ==
  Orders \ ({"tilt target", "tilt Up", "tilt Down", "group My"} \cup IF simMy THEN {"set my"} ELSE {})

LEMMA OrderedCarries ==
  ASSUME NEW s, NEW m \in Motors, Poised(s, m), Carries(s, s, m), NEW o \in LiftOrders(s.simMy),
         o \in {"StepUp", "StepDown"} => m.goal = m.pos, NEW r \in Ordered(s, o)
  PROVE  Carries(s, r, m)
<1> DEFINE moved == {MoveToTarget(s, p, NoPos) : p \in Positions}
           set == {SetMyPosition(s, g.pos, g.tilt) : g \in [pos : Positions, tilt : {NoPos}]}
<1>1. /\ s.tiltType = "none" /\ o \in Commands \cup {"target", "set my", "group Up", "group Down"} /\ Placed(s, m)
      /\ o = "set my" => ~s.simMy
  BY DEF Poised, Placed, Lift, LiftOrders, Orders
<1>2. /\ o \in Commands => r = SendCommand(s, o)
      /\ o = "target" => r \in moved
      /\ o = "set my" => r \in set
      /\ o = "group Up" => r = GroupCommand(s, "Up")
      /\ o = "group Down" => r = GroupCommand(s, "Down")
  <2>1. /\ o \in Commands => Ordered(s, o) = {SendCommand(s, o)}
        /\ o = "target" => Ordered(s, o) = moved
        /\ o = "set my" => Ordered(s, o) = {SetMyPosition(s, g.pos, g.tilt) :
                             g \in [pos : Positions, tilt : IF s.tiltType = "none" THEN {NoPos} ELSE Tilts]}
        /\ o = "group Up" => Ordered(s, o) = {GroupCommand(s, "Up")}
        /\ o = "group Down" => Ordered(s, o) = {GroupCommand(s, "Down")}
    BY <1>1 DEF Ordered, Commands
  <2>2. QED
    BY <1>1, <2>1
<1>3. CASE o \in Commands
  BY <1>2, <1>3, SendCommandCarries
<1>4. CASE o = "target"
  <2>1. PICK p \in Positions : r = MoveToTarget(s, p, NoPos)
    BY <1>2, <1>4
  <2>2. CASE p # s.currentPos
    BY <1>1, <2>1, <2>2, MoveToTargetCarries
  <2>3. CASE p = s.currentPos
    <3>1. r = s
      BY <1>1, <2>1, <2>3 DEF MoveToTarget
    <3>2. QED
      BY <3>1
  <2>4. QED
    BY <2>2, <2>3
<1>5. CASE o = "set my"
  <2>1. PICK g \in [pos : Positions, tilt : {NoPos}] : r = SetMyPosition(s, g.pos, g.tilt)
    BY <1>2, <1>5
  <2>2. g.pos \in Positions /\ r = SetMyPosition(s, g.pos, NoPos)
    BY <2>1
  <2>3. CASE IsIdle(s)
    BY <1>1, <1>5, <2>2, <2>3, SetMyPositionCarries
  <2>4. CASE ~IsIdle(s)
    <3>1. r = s
      BY <2>2, <2>4 DEF SetMyPosition
    <3>2. QED
      BY <3>1
  <2>5. QED
    BY <2>3, <2>4
<1>6. CASE o \in {"group Up", "group Down"}
  BY <1>2, <1>6, GroupCommandCarries
<1>7. QED
  BY <1>1, <1>3, <1>4, <1>5, <1>6

-----------------------------------------------------------------------------
(* The loop over a lift.                                                   *)

\* A shade with nothing on its way is not held.
LEMMA FreeHeld ==
  ASSUME NEW s, Sound(s), Free(s)
  PROVE  Sound(TxHold(Anchored(s))) /\ Only({}, s, TxHold(Anchored(s)))
<1> DEFINE a == Anchored(s)
<1>1. a = [s EXCEPT !.heard = {}]
  BY DEF Anchored, Free
<1>2. Only({}, s, a) /\ a.txWaitJob = 0
  BY <1>1 DEF Sound, Typed, Only, Fields, Free
<1> HIDE DEF a
<1>3. TxHold(a) = a
  BY <1>2 DEF TxHold
<1>4. Sound(TxHold(a))
  BY HeldIs DEF a
<1>5. QED
  BY <1>2, <1>3, <1>4 DEF a

\* A frame that has not gone out holds a shade; one that has lets it go.
LEMMA SentHeld ==
  ASSUME NEW s, Sound(s), OnItsWay(s)
  PROVE  LET r == TxHold(Anchored(s))
         IN  /\ Sound(r) /\ Only({"txWaitJob", "waited", "heard"}, s, r) /\ r.heard = {}
             /\ s.queue = <<>> => Free(r)
             /\ s.queue # <<>> => OnItsWay(r)
<1> DEFINE a == Anchored(s)
           r == TxHold(a)
<1>1. Sound(r)
  BY HeldIs
<1>2. DOMAIN s = Fields /\ s.txWaitJob # 0 /\ s.waited = 0 /\ s.moved = 0 /\ s.tilted = 0 /\ 0 <= HoldLimit
      /\ HoldLimit \in Nat
  BY ShadeAssumption DEF Sound, Typed, OnItsWay
<1>3. CASE s.queue # <<>>
  <2>1. s.heard = {}
    BY <1>3 DEF OnItsWay
  <2>2. a = [s EXCEPT !.heard = {}]
    BY <2>1 DEF Anchored
  <2>3. Only({}, s, a)
    BY <1>2, <2>1, <2>2 DEF Only, Fields
  <2> HIDE DEF a
  <2>4. /\ a.txWaitJob = s.txWaitJob /\ a.waited = 0 /\ DOMAIN a = Fields
    BY <1>2, <2>3 DEF Only, Fields
  <2>5. r = [a EXCEPT !.moved = 0, !.tilted = 0]
    BY <1>2, <2>4 DEF TxHold
  <2>6. Only({}, s, r)
    BY <1>2, <2>3, <2>5 DEF Only, Fields
  <2> HIDE DEF r
  <2>7. OnItsWay(r) /\ r.heard = {}
    BY <2>1, <2>6 DEF OnItsWay, Only, Fields
  <2>8. QED
    BY <1>1, <1>3, <2>6, <2>7 DEF Only, r, a
<1>4. CASE s.queue = <<>>
  <2> DEFINE e == [job |-> s.txWaitJob, age |-> 0]
             own == {x \in s.heard : x.job = s.txWaitJob}
             event == CHOOSE x \in (IF own = {} THEN s.heard ELSE own) : TRUE
  <2>1. s.heard = {e} /\ e.job = s.txWaitJob
    BY <1>4 DEF OnItsWay
  <2> HIDE DEF e
  <2>2. own = {e}
    BY <2>1
  <2> HIDE DEF own
  <2>3. event = e /\ s.heard # {}
    BY <2>1, <2>2
  <2>4. a = [TxAnchor(s, event) EXCEPT !.heard = {}]
    BY <2>3 DEF Anchored, own
  <2> HIDE DEF event
  <2>5. AtMost(Full, e.age) = 0 /\ AtMost(TiltFull, e.age) = 0
    BY Ranges DEF e, AtMost
  <2>6. a = [[s EXCEPT !.txWaitJob = 0, !.waited = 0, !.moved = 0, !.tilted = 0] EXCEPT !.heard = {}]
    BY <2>1, <2>3, <2>4, <2>5 DEF TxAnchor
  <2>7. Only({"txWaitJob", "waited", "heard"}, s, a) /\ a.txWaitJob = 0 /\ a.heard = {} /\ a.queue = <<>>
    BY <1>2, <1>4, <2>6 DEF Only, Fields
  <2> HIDE DEF a
  <2>8. r = a
    BY <2>7 DEF TxHold
  <2>9. QED
    BY <1>1, <1>4, <2>7, <2>8 DEF Free, a
<1>5. QED
  BY <1>3, <1>4

\* A pass over a lift that follows its motor.
LEMMA LoopDrives ==
  ASSUME NEW s, Sound(s), Lift(s), NEW m \in Motors, LiftMotor(s, m), Drives(s, m)
  PROVE  LET r == CheckMovement(TxHold(Anchored(s)))
         IN  /\ Sound(r) /\ Carries(s, r, m)
             /\ Free(s) /\ Calm(s) => /\ Free(r) /\ Calm(r) /\ r.lastFrame = s.lastFrame
                                      /\ r.target = s.target /\ r.simMy = s.simMy
<1> DEFINE h == TxHold(Anchored(s))
           r == CheckMovement(h)
<1>1. /\ Sound(h) /\ Only({"txWaitJob", "waited", "heard"}, s, h) /\ h.heard = {}
      /\ Free(h) \/ OnItsWay(h)
      /\ Free(s) => Free(h)
  <2>1. CASE Free(s)
    <3>1. Sound(h) /\ Only({}, s, h)
      BY <2>1, FreeHeld
    <3> HIDE DEF h
    <3>2. Free(h)
      BY <2>1, <3>1 DEF Free, Only, Fields
    <3>3. QED
      BY <3>1, <3>2 DEF Only, Free
  <2>2. CASE OnItsWay(s)
    <3>1. s.txWaitJob # 0
      BY <2>2 DEF OnItsWay
    <3>2. QED
      BY <2>2, <3>1, SentHeld DEF Free
  <2>3. QED
    BY <2>1, <2>2 DEF Drives
<1> HIDE DEF h
<1>2. /\ h.tiltType = s.tiltType /\ h.currentTiltPos = s.currentTiltPos /\ h.tiltTarget = s.tiltTarget
      /\ h.tiltDirection = s.tiltDirection /\ h.settingTiltPos = s.settingTiltPos /\ h.simMy = s.simMy
      /\ h.currentPos = s.currentPos /\ h.target = s.target /\ h.settingPos = s.settingPos
      /\ h.settingMyPos = s.settingMyPos /\ h.myTiltPos = s.myTiltPos /\ h.myPos = s.myPos
      /\ h.lastFrame = s.lastFrame /\ h.queue = s.queue /\ h.pendingCmd = s.pendingCmd
      /\ h.startPos = s.startPos /\ h.moved = s.moved /\ h.direction = s.direction
  BY <1>1 DEF Only, Fields
<1>3. Lift(h) /\ LiftMotor(h, m)
  BY <1>2 DEF Lift, LiftMotor
<1>4. GoalToBe(h, m) = GoalToBe(s, m) /\ MyToBe(h, m) = MyToBe(s, m)
  BY <1>2 DEF GoalToBe, MyToBe
<1>5. \A goal : Follows(s, m.pos, goal) => Follows(h, m.pos, goal)
  BY <1>2 DEF Follows, Rests, Travels
<1>6. Drives(h, m)
  BY <1>1, <1>2, <1>4, <1>5 DEF Drives, Favors
<1>7. Sound(r) /\ Carries(h, r, m)
  BY <1>1, <1>3, <1>6, DrivesOn
<1>8. ASSUME Free(s), Calm(s)
      PROVE  Free(r) /\ Calm(r) /\ r.lastFrame = s.lastFrame /\ r.target = s.target
  <2>1. Free(h) /\ Calm(h)
    BY <1>1, <1>2, <1>8 DEF Calm
  <2>2. Quiet(h)
    BY <2>1 DEF Free, Quiet
  <2>3. Pauses(h, r) \/ Records(h, r) \/ Stays(h, r) \/ \E d \in {-1, 1} : Advances(h, r, d) \/ Stops(h, r, d)
    BY <1>1, <1>3, <2>1, <2>2, LiftPasses
  <2> HIDE DEF r
  <2>4. Only(Arrived, h, r) /\ ~r.settingPos /\ r.pendingCmd = "none"
    <3>1. CASE Pauses(h, r) \/ Records(h, r)
      BY <2>1, <3>1 DEF Pauses, Records, Calm
    <3>2. CASE Stays(h, r)
      <4>1. Only(Arrived, h, r) /\ r.settingPos = h.settingPos
        BY <3>2 DEF Stays, Only, Fields, Arrived, Arrivals
      <4>2. QED
        BY <2>1, <3>2, <4>1 DEF Stays, Gapped, Calm
    <3>3. ASSUME NEW d \in {-1, 1}, Advances(h, r, d) PROVE Only(Arrived, h, r) /\ ~r.settingPos /\ r.pendingCmd = "none"
      <4>1. Only(Arrived, h, r) /\ r.settingPos = h.settingPos /\ r.pendingCmd = h.pendingCmd
        BY <3>3 DEF Advances, Only, Fields, Arrived, Arrivals
      <4>2. QED
        BY <2>1, <4>1 DEF Calm
    <3>4. ASSUME NEW d \in {-1, 1}, Stops(h, r, d) PROVE Only(Arrived, h, r) /\ ~r.settingPos /\ r.pendingCmd = "none"
      BY <2>1, <3>4 DEF Stops, Gapped, Calm
    <3>5. QED
      BY <2>3, <3>1, <3>2, <3>3, <3>4
  <2>5. /\ r.txWaitJob = h.txWaitJob /\ r.queue = h.queue /\ r.heard = h.heard /\ r.lastFrame = h.lastFrame
        /\ r.target = h.target /\ r.settingTiltPos = h.settingTiltPos /\ r.settingMyPos = h.settingMyPos
    BY <2>4 DEF Only, Fields, Arrived, Arrivals
  <2>6. QED
    BY <1>2, <2>1, <2>4, <2>5 DEF Free, Calm
<1> HIDE DEF r
<1>9. Carries(s, r, m)
  BY <1>2, <1>7 DEF Carries
<1>10. QED
  BY <1>7, <1>8, <1>9 DEF r, h, Carries

\* A pass over an idle lift whose frame waits.
LEMMA LoopWaits ==
  ASSUME NEW s, Sound(s), Lift(s), Free(s), Calm(s), IsIdle(s)
  PROVE  LET r == CheckMovement(TxHold(Anchored(s)))
         IN  Sound(r) /\ Lift(r) /\ Free(r) /\ Calm(r) /\ IsIdle(r) /\ Only({"gap"}, s, r)
<1> DEFINE h == TxHold(Anchored(s))
           r == CheckMovement(h)
<1>1. Sound(h) /\ Only({}, s, h)
  BY FreeHeld
<1> HIDE DEF h
<1>2. /\ h.tiltType = s.tiltType /\ h.currentTiltPos = s.currentTiltPos /\ h.tiltTarget = s.tiltTarget
      /\ h.tiltDirection = s.tiltDirection /\ h.settingTiltPos = s.settingTiltPos /\ h.simMy = s.simMy
      /\ h.currentPos = s.currentPos /\ h.target = s.target /\ h.settingPos = s.settingPos
      /\ h.settingMyPos = s.settingMyPos /\ h.myTiltPos = s.myTiltPos
      /\ h.queue = s.queue /\ h.pendingCmd = s.pendingCmd /\ h.txWaitJob = s.txWaitJob
      /\ h.direction = s.direction /\ h.heard = s.heard
  BY <1>1 DEF Only, Fields
<1>3. Lift(h) /\ Free(h) /\ Quiet(h) /\ Calm(h)
  BY <1>2 DEF Lift, Free, Quiet, Calm
<1>4. s.tiltType = "none" /\ s.currentPos = s.target /\ s.direction = 0 /\ s.tiltDirection = 0
  BY DEF IsIdle, IsAtTarget, Lift
<1>5. /\ Sound(r)
      /\ Pauses(h, r) \/ Records(h, r) \/ Stays(h, r) \/ \E d \in {-1, 1} : Advances(h, r, d) \/ Stops(h, r, d)
  BY <1>1, <1>3, LiftPasses
<1> HIDE DEF r
<1>6. Stays(h, r)
  <2>1. ~Pauses(h, r) /\ ~Records(h, r)
    BY <1>3 DEF Pauses, Records, Calm
  <2>2. Toward(h.currentPos, h.target) = 0
    BY <1>2, <1>4 DEF Toward
  <2>3. QED
    BY <1>5, <2>1, <2>2 DEF Advances, Stops
<1>7. Only({"gap"}, s, r)
  BY <1>1, <1>2, <1>3, <1>4, <1>6 DEF Stays, Gapped, Calm, Only, Fields
<1>8. /\ r.tiltType = s.tiltType /\ r.currentTiltPos = s.currentTiltPos /\ r.tiltTarget = s.tiltTarget
      /\ r.tiltDirection = s.tiltDirection /\ r.settingTiltPos = s.settingTiltPos /\ r.simMy = s.simMy
      /\ r.currentPos = s.currentPos /\ r.target = s.target /\ r.settingPos = s.settingPos
      /\ r.settingMyPos = s.settingMyPos /\ r.myTiltPos = s.myTiltPos
      /\ r.queue = s.queue /\ r.pendingCmd = s.pendingCmd /\ r.txWaitJob = s.txWaitJob
      /\ r.direction = s.direction /\ r.heard = s.heard
  BY <1>7 DEF Only, Fields
<1>9. Lift(r) /\ Free(r) /\ Calm(r) /\ IsIdle(r)
  BY <1>8 DEF Lift, Free, Calm, IsIdle, IsAtTarget
<1>10. QED
  BY <1>5, <1>7, <1>9 DEF r, h

\* What a remote's frame does to a free lift: it aims, or waits if it is a My at rest.
Again(s, f) == s.lastFrame.code = f.code /\ s.lastFrame.cmd = f.cmd
Answers(s, f, p) ==
  LET done == Again(s, f) /\ s.lastFrame.processed
  IN  /\ Sound(p) /\ Lift(p) /\ Free(p) /\ Calm(p)
      /\ p.simMy = s.simMy /\ p.myPos = s.myPos /\ p.direction = s.direction
      /\ p.currentPos = s.currentPos /\ p.startPos = s.currentPos /\ p.moved = 0
      /\ p.lastFrame.cmd = f.cmd /\ p.lastFrame.code = f.code
      /\ p.lastFrame.repeats = IF Again(s, f) THEN s.lastFrame.repeats + 1 ELSE 0
      /\ f.cmd = "My" /\ IsIdle(s) => /\ p.target = s.target /\ p.lastFrame.await = AwaitTime
                                      /\ p.lastFrame.processed <=> done
      /\ ~(f.cmd = "My" /\ IsIdle(s)) => p.lastFrame.processed
      /\ f.cmd = "Up" => p.target = 0
      /\ f.cmd = "Down" => p.target = Full
      /\ f.cmd = "My" /\ ~IsIdle(s) /\ ~done => p.target = s.currentPos
      /\ f.cmd \in {"StepUp", "StepDown"} /\ ~done => p.target = StepTo(s, f.cmd)

LEMMA RemoteLift ==
  ASSUME NEW s0, Sound(s0), Lift(s0), Free(s0), s0.pendingCmd = "none", NEW f, f.cmd \in Commands, f.code \in Nat
  PROVE  Answers(s0, f, ProcessRemoteFrame(s0, f))
<1> DEFINE repeat == Again(s0, f)
           done == repeat /\ s0.lastFrame.processed
           again == [s0.lastFrame EXCEPT !.repeats = @ + 1]
           fresh == [s0.lastFrame EXCEPT !.cmd = f.cmd, !.code = f.code, !.processed = FALSE, !.repeats = 0]
           frame == IF repeat THEN again ELSE fresh
           copied == IF repeat
                     THEN [s0 EXCEPT !.lastFrame.repeats = @ + 1]
                     ELSE [s0 EXCEPT !.lastFrame.cmd = f.cmd, !.lastFrame.code = f.code,
                                     !.lastFrame.processed = FALSE, !.lastFrame.repeats = 0]
           s == Aborted(Rebase(copied))
           p == Processed(s)
           r == ProcessRemoteFrame(s0, f)
<1>1. /\ frame \in LastFrames /\ frame.code = f.code /\ frame.cmd = f.cmd
      /\ frame.repeats = (IF repeat THEN s0.lastFrame.repeats + 1 ELSE 0)
      /\ frame.processed <=> done
  <2>1. s0.lastFrame \in LastFrames
    BY DEF Sound, Typed
  <2>2. CASE repeat
    BY <2>1, <2>2 DEF LastFrames, Again
  <2>3. CASE ~repeat
    BY <2>1, <2>3 DEF LastFrames
  <2>4. QED
    BY <2>2, <2>3
<1>2. copied = [s0 EXCEPT !.lastFrame = frame]
  OBVIOUS
<1>3. Sound(r) /\ Calm(r) /\ r.txWaitJob = 0 /\ r.tiltType = s0.tiltType /\ r.simMy = s0.simMy
      /\ r.queue = s0.queue /\ r.heard = s0.heard
  BY RemoteFrameIs
<1> DEFINE up == [p EXCEPT !.tiltTarget = 0, !.target = 0]
           down == [p EXCEPT !.target = Full, !.tiltTarget = @]
           stop == [p EXCEPT !.target = s.currentPos, !.tiltTarget = s.currentTiltPos]
<1> HIDE DEF frame
<1>4. Typed(copied) /\ Only({"lastFrame"}, s0, copied) /\ copied.lastFrame = frame
  <2> HIDE DEF copied
  <2>1. QED
    BY <1>1, <1>2 DEF Sound, Typed, Only, Fields
<1>5. r = CASE f.cmd \in {"Up", "Down"} /\ LongPressTells(s) -> Await(s)
            [] f.cmd = "Up" /\ ~LongPressTells(s) ->
                 [Processed(s) EXCEPT !.tiltTarget = 0, !.target = IF s.tiltType = "tiltonly" THEN @ ELSE 0]
            [] f.cmd = "Down" /\ ~LongPressTells(s) ->
                 [Processed(s) EXCEPT !.target = IF s.tiltType = "tiltonly" THEN @ ELSE Full,
                                      !.tiltTarget = IF s.tiltType = "none" THEN @ ELSE TiltFull]
            [] f.cmd = "My" /\ IsIdle(s) -> Await(s)
            [] f.cmd = "My" /\ ~IsIdle(s) /\ ~s.lastFrame.processed ->
                 [Processed(s) EXCEPT !.target = IF s.tiltType = "tiltonly" THEN @ ELSE s.currentPos,
                                      !.tiltTarget = s.currentTiltPos]
            [] f.cmd = "StepUp" /\ ~s.lastFrame.processed -> Step(Processed(s), -1)
            [] f.cmd = "StepDown" /\ ~s.lastFrame.processed -> Step(Processed(s), 1)
            [] OTHER -> s
  BY DEF ProcessRemoteFrame, Again
<1> HIDE DEF copied, r
<1> DEFINE cleared == {"moved", "tilted", "startPos", "startTiltPos", "txWaitJob", "waited", "pendingCmd",
                       "settingMyPos", "settingPos", "settingTiltPos"}
<1>6. /\ Only(cleared, copied, s) /\ s.lastFrame = frame /\ s.txWaitJob = 0 /\ s.pendingCmd = "none"
      /\ s.startPos = copied.currentPos /\ s.moved = 0
  BY <1>4 DEF Aborted, Rebase, Typed, Fields, Only
<1>7. Typed(s)
  BY <1>4, Ranges DEF Aborted, Rebase, Typed, Fields
<1> HIDE DEF s
<1>8. /\ s.currentPos = s0.currentPos /\ s.target = s0.target /\ s.direction = s0.direction
      /\ s.tiltType = "none" /\ s.currentTiltPos = 0 /\ s.tiltTarget = 0 /\ s.tiltDirection = 0
      /\ s.myPos = s0.myPos /\ s.myTiltPos = s0.myTiltPos /\ s.simMy = s0.simMy
  BY <1>4, <1>6 DEF Only, Fields, Lift
<1>9. IsIdle(s) <=> IsIdle(s0)
  BY <1>6, <1>8 DEF IsIdle, IsAtTarget, Lift, Free
<1>10. /\ Typed(p) /\ Only({"lastFrame"}, s, p) /\ p.lastFrame = [frame EXCEPT !.processed = TRUE]
       /\ Only({"lastFrame"}, s, Await(s)) /\ Await(s).lastFrame = [frame EXCEPT !.await = AwaitTime]
  <2>1. Typed(p) /\ Only({"lastFrame"}, s, p) /\ Only({"lastFrame"}, s, Await(s))
    BY <1>7, LastFrameIs
  <2>2. DOMAIN s = Fields
    BY <1>7 DEF Typed
  <2>3. p.lastFrame = [frame EXCEPT !.processed = TRUE] /\ Await(s).lastFrame = [frame EXCEPT !.await = AwaitTime]
    BY <1>6, <2>2 DEF Processed, Await, Fields
  <2>4. QED
    BY <2>1, <2>3
<1> DEFINE Of(q, x) == q.cmd = f.cmd /\ q.code = f.code /\ q.repeats = frame.repeats /\ (q.processed <=> x)
<1>11. /\ Of(p.lastFrame, TRUE) /\ Of(Await(s).lastFrame, done) /\ Of(s.lastFrame, done)
       /\ Await(s).lastFrame.await = AwaitTime
  BY <1>1, <1>6, <1>10 DEF LastFrames
<1>12. /\ p.currentPos = s.currentPos /\ p.target = s.target /\ p.tiltType = "none" /\ p.tiltTarget = 0
       /\ DOMAIN p = Fields /\ DOMAIN s = Fields
  BY <1>7, <1>8, <1>10 DEF Only, Fields, Typed
<1> HIDE DEF p, Of
<1>13. r = CASE f.cmd = "Up" -> up
             [] f.cmd = "Down" -> down
             [] f.cmd = "My" /\ IsIdle(s) -> Await(s)
             [] f.cmd = "My" /\ ~IsIdle(s) /\ ~done -> stop
             [] f.cmd = "StepUp" /\ ~done -> Step(p, -1)
             [] f.cmd = "StepDown" /\ ~done -> Step(p, 1)
             [] OTHER -> s
  <2>1. ~LongPressTells(s) /\ ~(s.tiltType = "tiltonly") /\ (s.tiltType = "none" <=> TRUE)
        /\ (s.lastFrame.processed <=> done)
    BY <1>1, <1>6, <1>8 DEF LongPressTells
  <2>2. QED
    BY <1>5, <2>1 DEF p
<1> DEFINE Is(x) ==
      /\ Only({"target", "tiltTarget", "lastFrame"}, s, r) /\ r.tiltTarget = 0 /\ Of(r.lastFrame, x)
<1>14. f.cmd = "Up" => Is(TRUE) /\ r.target = 0
  BY <1>10, <1>11, <1>12, <1>13 DEF Only, Fields, Of
<1>15. f.cmd = "Down" => Is(TRUE) /\ r.target = Full
  BY <1>10, <1>11, <1>12, <1>13 DEF Only, Fields, Of
<1>16. f.cmd = "My" /\ IsIdle(s) => Is(done) /\ r.target = s.target /\ r.lastFrame.await = AwaitTime
  <2>1. SUFFICES ASSUME f.cmd = "My", IsIdle(s)
                 PROVE  Is(done) /\ r.target = s.target /\ r.lastFrame.await = AwaitTime
    OBVIOUS
  <2>2. r = Await(s)
    BY <1>13, <2>1
  <2>3. Of(r.lastFrame, done) /\ r.lastFrame.await = AwaitTime
    BY <1>11, <2>2
  <2>4. Only({"lastFrame"}, s, r)
    BY <1>10, <2>2
  <2>5. Only({"target", "tiltTarget", "lastFrame"}, s, r) /\ r.tiltTarget = 0 /\ r.target = s.target
    BY <1>8, <2>4 DEF Only, Fields
  <2>6. QED
    BY <2>3, <2>5
<1>17. f.cmd = "My" /\ ~IsIdle(s) =>
         Is(TRUE) /\ (~done => r.target = s.currentPos)
  <2>1. CASE f.cmd = "My" /\ ~IsIdle(s) /\ ~done
    <3>1. r = stop
      BY <1>13, <2>1
    <3>2. QED
      BY <1>8, <1>10, <1>11, <1>12, <2>1, <3>1 DEF Only, Fields, Of
  <2>2. CASE f.cmd = "My" /\ ~IsIdle(s) /\ done
    <3>1. r = s
      BY <1>13, <2>2
    <3>2. QED
      BY <1>8, <1>11, <1>12, <2>2, <3>1 DEF Only, Of
  <2>3. QED
    BY <2>1, <2>2
<1>18. f.cmd \in {"StepUp", "StepDown"} =>
         Is(TRUE) /\ (~done => r.target = StepTo(s, f.cmd))
  <2>1. CASE f.cmd \in {"StepUp", "StepDown"} /\ ~done
    <3>1. PICK dir \in {-1, 1} : r = Step(p, dir) /\ dir = (IF f.cmd = "StepUp" THEN -1 ELSE 1)
      BY <1>13, <2>1
    <3>2. /\ Only(Aims, p, r)
          /\ r.target = (IF p.currentPos = (IF dir < 0 THEN 0 ELSE Full) THEN p.target ELSE p.currentPos + dir)
          /\ r.tiltTarget = p.tiltTarget
      BY <1>10, <1>12, <3>1, StepIs
    <3>3. r.lastFrame = p.lastFrame /\ Only({"target", "tiltTarget", "lastFrame"}, s, r)
      BY <1>10, <3>2 DEF Only, Fields, Aims
    <3>4. r.target = StepTo(s, f.cmd)
      BY <1>12, <2>1, <3>1, <3>2 DEF StepTo
    <3>5. QED
      BY <1>11, <1>12, <3>2, <3>3, <3>4
  <2>2. CASE f.cmd \in {"StepUp", "StepDown"} /\ done
    <3>1. r = s
      BY <1>13, <2>2
    <3>2. QED
      BY <1>8, <1>11, <1>12, <2>2, <3>1 DEF Only, Of
  <2>3. QED
    BY <2>1, <2>2
<1>19. PICK x \in BOOLEAN : Is(x) /\ (~(f.cmd = "My" /\ IsIdle(s)) => x) /\ (f.cmd = "My" /\ IsIdle(s) => (x <=> done))
  <2> HIDE DEF Is, done
  <2>1. CASE f.cmd = "My" /\ IsIdle(s)
    BY <1>16, <2>1 DEF done
  <2>2. CASE ~(f.cmd = "My" /\ IsIdle(s))
    <3>1. Is(TRUE)
      BY <1>14, <1>15, <1>17, <1>18, <2>2 DEF Commands
    <3>2. QED
      BY <2>2, <3>1
  <2>3. QED
    BY <2>1, <2>2
<1>20. /\ r.direction = s.direction /\ r.currentPos = s.currentPos /\ r.startPos = s.startPos /\ r.moved = s.moved
       /\ r.myPos = s.myPos /\ r.myTiltPos = s.myTiltPos /\ r.currentTiltPos = s.currentTiltPos
       /\ r.tiltDirection = s.tiltDirection /\ r.tiltTarget = 0
  BY <1>19 DEF Only, Fields
<1>21. /\ r.lastFrame.cmd = f.cmd /\ r.lastFrame.code = f.code
       /\ r.lastFrame.repeats = IF repeat THEN s0.lastFrame.repeats + 1 ELSE 0
       /\ f.cmd = "My" /\ IsIdle(s) => (r.lastFrame.processed <=> done)
       /\ ~(f.cmd = "My" /\ IsIdle(s)) => r.lastFrame.processed
  BY <1>1, <1>19 DEF Of
<1> HIDE DEF Is, done, repeat
<1>22. Lift(r) /\ Free(r)
  BY <1>3, <1>8, <1>20 DEF Lift, Free, Calm
<1>23. r.startPos = s0.currentPos /\ r.moved = 0
  BY <1>4, <1>6, <1>20 DEF Only, Fields
<1>24. /\ f.cmd = "My" /\ IsIdle(s0) => r.target = s0.target /\ r.lastFrame.await = AwaitTime
       /\ f.cmd = "Up" => r.target = 0
       /\ f.cmd = "Down" => r.target = Full
       /\ f.cmd = "My" /\ ~IsIdle(s0) /\ ~done => r.target = s0.currentPos
  BY <1>8, <1>9, <1>14, <1>15, <1>16, <1>17
<1>25. f.cmd \in {"StepUp", "StepDown"} /\ ~done => r.target = StepTo(s0, f.cmd)
  BY <1>8, <1>18 DEF StepTo
<1> HIDE DEF p, up, down, stop
<1>26. Answers(s0, f, r)
  BY <1>3, <1>8, <1>9, <1>20, <1>21, <1>22, <1>23, <1>24, <1>25 DEF Answers, done, repeat
<1>27. QED
  BY <1>26 DEF r

-----------------------------------------------------------------------------
(* A lift, its motor, and the n-th press of its remote: what the invariant *)
(* says of the frames that the motor has heard and the loop has not read.  *)

\* The frames of a press are alike.
SameFrames(frames, cmd, n) == \A i \in 1 .. Len(frames) : frames[i] = [cmd |-> cmd, code |-> n]

\* The loop has seen none of them: the shade is what it was when m heard them.
Hearing(s, motor0, frames, n) ==
  \E cmd \in Commands, m \in Motors :
    LET length == IF cmd = "My" /\ Len(frames) > 1 THEN "set" ELSE "short" IN
    /\ frames # <<>> /\ SameFrames(frames, cmd, n)
    /\ cmd = "My" => Len(frames) \in {1, SetMyRepeats + 1} /\ (Len(frames) > 1 => ~s.simMy)
    /\ cmd \in {"StepUp", "StepDown"} => Len(frames) = 1 /\ m.goal = m.pos
    /\ s.lastFrame.code # n /\ Carries(s, s, m) /\ Poised(s, m) /\ LiftMotor(s, m)
    /\ motor0.pos = m.pos /\ motor0.goal = GoalAfter(m, cmd, length) /\ motor0.my = MyAfter(m, cmd, length)

\* It has done what they say, and hears the rest of them.
Repeating(s, m, frames, n) ==
  LET f == s.lastFrame IN
  /\ frames # <<>> /\ SameFrames(frames, f.cmd, n) /\ f.code = n
  /\ Calm(s) /\ Free(s) /\ Drives(s, m) /\ s.currentPos = m.pos
  /\ f.cmd \in {"Up", "Down", "My"}
  /\ f.cmd = "My" => IsIdle(s)
  /\ f.cmd = "Up" => s.target = 0
  /\ f.cmd = "Down" => s.target = Full

\* A My at rest waits for its repeats, while the motor already goes to its favourite.
Waiting(s, m, frames, n) ==
  LET f == s.lastFrame
      total == f.repeats + Len(frames)
      d == Toward(s.currentPos, m.goal)
  IN
  /\ f.cmd = "My" /\ ~f.processed /\ f.await # Unset /\ f.code = n /\ SameFrames(frames, "My", n)
  /\ Calm(s) /\ IsIdle(s) /\ Free(s) /\ s.startPos = s.currentPos
  /\ frames # <<>> => s.moved = 0
  /\ total \in {0, SetMyRepeats}
  /\ total = 0 => m.goal = (IF m.my = NoPos THEN s.currentPos ELSE m.my) /\ Favors(s, m.my)
  /\ total # 0 => /\ ~s.simMy /\ m.goal = s.currentPos
                  /\ m.my = IF s.myPos = s.currentPos THEN NoPos ELSE s.currentPos
  /\ m.pos = s.currentPos + d * AtMost(s.moved, d * (m.goal - s.currentPos))

\* No frame is left to read, and the shade follows its motor.
Driving(s, m, frames) == frames = <<>> /\ Drives(s, m)
\* The invariant: the four things that a frame of the remote can be to a lift.
LiftFollows(s, m, frames, n) ==
  /\ Lift(s) /\ LiftMotor(s, m) /\ s.lastFrame.code <= n
  /\ Driving(s, m, frames) \/ Hearing(s, m, frames, n) \/ Repeating(s, m, frames, n) \/ Waiting(s, m, frames, n)

\* A lift that has aimed where its motor goes.
LEMMA AnsweredDrives ==
  ASSUME NEW s, NEW f, NEW p, Answers(s, f, p), p.lastFrame.processed, s.currentPos \in Positions,
         NEW m \in Motors, LiftMotor(s, m), p.target = m.goal, s.currentPos = m.pos, Favors(s, m.my)
  PROVE  LET r == CheckMovement(TxHold(Anchored(p)))
         IN  /\ Sound(r) /\ Lift(r) /\ LiftMotor(r, m) /\ Drives(r, m) /\ Free(r) /\ Calm(r)
             /\ r.currentPos = m.pos /\ r.lastFrame = p.lastFrame /\ r.target = m.goal
             /\ m.goal = m.pos => IsIdle(r)
<1> DEFINE r == CheckMovement(TxHold(Anchored(p)))
<1>1. /\ Sound(p) /\ Lift(p) /\ Free(p) /\ Calm(p) /\ LiftMotor(p, m) /\ Favors(p, m.my)
      /\ p.currentPos = m.pos /\ p.startPos = m.pos /\ p.moved = 0 /\ ~p.settingPos
      /\ m.pos \in Positions /\ m.goal \in Positions
  BY DEF Answers, LiftMotor, Favors, Calm, Motors
<1>2. Follows(p, m.pos, m.goal)
  BY <1>1, StartsOn
<1>3. GoalToBe(p, m) = m.goal /\ MyToBe(p, m) = m.my
  BY <1>1 DEF Free, GoalToBe, MyToBe
<1>4. Drives(p, m)
  BY <1>1, <1>2, <1>3 DEF Drives
<1>5. /\ Sound(r) /\ Carries(p, r, m)
      /\ Free(r) /\ Calm(r) /\ r.lastFrame = p.lastFrame /\ r.target = p.target /\ r.simMy = p.simMy
  BY <1>1, <1>4, LoopDrives
<1> HIDE DEF r
<1>6. /\ Lift(r) /\ LiftMotor(r, m) /\ Drives(r, m) /\ r.currentPos = m.pos /\ r.target = m.goal
  BY <1>1, <1>5 DEF Carries, There, LiftMotor
<1>7. m.goal = m.pos => IsIdle(r)
  BY <1>5, <1>6 DEF IsIdle, IsAtTarget, Carries, There, Lift, Free, Calm
<1>8. QED
  BY <1>5, <1>6, <1>7 DEF r

\* Then the rest of the frames may follow.
LEMMA AnsweredLift ==
  ASSUME NEW s, NEW f, NEW p, Answers(s, f, p), p.lastFrame.processed, s.currentPos \in Positions,
         NEW m \in Motors, LiftMotor(s, m), p.target = m.goal, s.currentPos = m.pos, Favors(s, m.my),
         NEW n \in Nat, f.code = n, f.cmd \in Commands, NEW frames, SameFrames(frames, f.cmd, n),
         f.cmd \in {"StepUp", "StepDown"} => frames = <<>>,
         f.cmd = "My" /\ frames # <<>> => m.goal = m.pos
  PROVE  LiftFollows(CheckMovement(TxHold(Anchored(p))), m, frames, n)
<1> DEFINE r == CheckMovement(TxHold(Anchored(p)))
<1>1. /\ p.lastFrame.cmd = f.cmd /\ p.lastFrame.code = n
      /\ f.cmd = "Up" => p.target = 0
      /\ f.cmd = "Down" => p.target = Full
  BY DEF Answers
<1>2. /\ Sound(r) /\ Lift(r) /\ LiftMotor(r, m) /\ Drives(r, m) /\ Free(r) /\ Calm(r)
      /\ r.currentPos = m.pos /\ r.lastFrame = p.lastFrame /\ r.target = m.goal
      /\ m.goal = m.pos => IsIdle(r)
  BY AnsweredDrives
<1> HIDE DEF r
<1>3. r.lastFrame.code <= n
  BY <1>1, <1>2
<1>4. CASE frames = <<>>
  BY <1>2, <1>3, <1>4 DEF LiftFollows, Driving, r
<1>5. CASE frames # <<>>
  <2>1. f.cmd \in {"Up", "Down", "My"}
    BY <1>5 DEF Commands
  <2>2. Repeating(r, m, frames, n)
    BY <1>1, <1>2, <1>5, <2>1 DEF Repeating
  <2>3. QED
    BY <1>2, <1>3, <2>2 DEF LiftFollows, r
<1>6. QED
  BY <1>4, <1>5

LEMMA RestOfFrames ==
  ASSUME NEW frames \in Seq(RemoteFrames), frames # <<>>, NEW cmd, NEW n, SameFrames(frames, cmd, n)
  PROVE  /\ Head(frames) = [cmd |-> cmd, code |-> n] /\ SameFrames(Tail(frames), cmd, n)
         /\ Tail(frames) \in Seq(RemoteFrames) /\ Len(frames) = Len(Tail(frames)) + 1 /\ Len(Tail(frames)) \in Nat
         /\ Tail(frames) = <<>> <=> Len(frames) = 1
<1>1. Len(frames) \in Nat /\ Len(frames) > 0
  OBVIOUS
<1>2. Head(frames) = frames[1] /\ 1 \in 1 .. Len(frames)
  BY <1>1
<1>3. /\ Tail(frames) \in Seq(RemoteFrames) /\ Len(Tail(frames)) = Len(frames) - 1
      /\ \A i \in 1 .. Len(Tail(frames)) : Tail(frames)[i] = frames[i + 1]
  BY <1>1
<1>4. \A i \in 1 .. Len(Tail(frames)) : i + 1 \in 1 .. Len(frames)
  BY <1>1, <1>3
<1>5. SameFrames(Tail(frames), cmd, n)
  BY <1>3, <1>4 DEF SameFrames
<1>6. Tail(frames) = <<>> <=> Len(Tail(frames)) = 0
  <2> DEFINE rest == Tail(frames)
  <2>1. rest \in Seq(RemoteFrames)
    BY <1>3
  <2> HIDE DEF rest
  <2>2. rest = <<>> <=> Len(rest) = 0
    BY <2>1
  <2>3. QED
    BY <2>2 DEF rest
<1>7. QED
  BY <1>1, <1>2, <1>3, <1>5, <1>6 DEF SameFrames

\* The pass leaves a frame that waits as it is.
LEMMA StillWaits ==
  ASSUME NEW p, Sound(p), Lift(p), NEW m, NEW frames, NEW n, Waiting(p, m, frames, n), LiftMotor(p, m), p.lastFrame.code <= n
  PROVE  LiftFollows(CheckMovement(TxHold(Anchored(p))), m, frames, n)
<1> DEFINE r == CheckMovement(TxHold(Anchored(p)))
<1>1. Free(p) /\ Calm(p) /\ IsIdle(p)
  BY DEF Waiting
<1>2. Sound(r) /\ Lift(r) /\ Free(r) /\ Calm(r) /\ IsIdle(r) /\ Only({"gap"}, p, r)
  BY <1>1, LoopWaits
<1> HIDE DEF r
<1>3. /\ r.lastFrame = p.lastFrame /\ r.currentPos = p.currentPos /\ r.startPos = p.startPos /\ r.moved = p.moved
      /\ r.simMy = p.simMy /\ r.myPos = p.myPos
  BY <1>2 DEF Only, Fields
<1>4. Waiting(r, m, frames, n)
  BY <1>2, <1>3 DEF Waiting, Favors
<1>5. QED
  BY <1>2, <1>3, <1>4 DEF LiftFollows, LiftMotor, r

LEMMA HearingOn ==
  ASSUME NEW s, NEW m0 \in Motors, LiftMotor(s, m0), NEW frames \in Seq(RemoteFrames), NEW n \in Nat,
         Hearing(s, m0, frames, n)
  PROVE  LiftFollows(Pass(s, frames), m0, Tail(frames), n)
<1>1. PICK cmd \in Commands, m \in Motors :
        LET length == IF cmd = "My" /\ Len(frames) > 1 THEN "set" ELSE "short" IN
        /\ frames # <<>> /\ SameFrames(frames, cmd, n)
        /\ cmd = "My" => Len(frames) \in {1, SetMyRepeats + 1} /\ (Len(frames) > 1 => ~s.simMy)
        /\ cmd \in {"StepUp", "StepDown"} => Len(frames) = 1 /\ m.goal = m.pos
        /\ s.lastFrame.code # n /\ Carries(s, s, m) /\ Poised(s, m) /\ LiftMotor(s, m)
        /\ m0.pos = m.pos /\ m0.goal = GoalAfter(m, cmd, length) /\ m0.my = MyAfter(m, cmd, length)
  BY DEF Hearing
<1> DEFINE length == IF cmd = "My" /\ Len(frames) > 1 THEN "set" ELSE "short"
           f == Head(frames)
           rest == Tail(frames)
           p == ProcessRemoteFrame(s, f)
<1>2. /\ f = [cmd |-> cmd, code |-> n] /\ SameFrames(rest, cmd, n) /\ rest \in Seq(RemoteFrames)
      /\ Len(frames) = Len(rest) + 1 /\ Len(rest) \in Nat /\ (rest = <<>> <=> Len(frames) = 1)
  BY <1>1, RestOfFrames
<1>3. Pass(s, frames) = CheckMovement(TxHold(Anchored(p)))
  BY <1>1 DEF Pass
<1> HIDE DEF f, rest
<1>4. f.cmd = cmd /\ f.code = n
  BY <1>2
<1>5. /\ Sound(s) /\ Lift(s) /\ Free(s) /\ s.pendingCmd = "none" /\ s.currentPos = m.pos /\ m.pos \in Positions
      /\ s.tiltType = "none" /\ Favors(s, m.my) /\ (IsIdle(s) => m.goal = m.pos) /\ (~IsIdle(s) => m.goal # m.pos)
  BY <1>1 DEF Poised, Placed, Lift, Motors
<1>6. Answers(s, f, p) /\ ~Again(s, f)
  BY <1>1, <1>4, <1>5, RemoteLift DEF Again
<1> HIDE DEF p
<1>7. CASE cmd = "My" /\ IsIdle(s)
  <2>1. s.currentPos = s.target /\ s.direction = 0 /\ s.tiltDirection = 0
    BY <1>5, <1>7 DEF IsIdle, IsAtTarget
  <2>2. /\ Sound(p) /\ Lift(p) /\ Free(p) /\ Calm(p) /\ p.simMy = s.simMy /\ p.myPos = s.myPos
        /\ p.direction = 0 /\ p.target = p.currentPos /\ p.currentPos = m.pos /\ p.startPos = m.pos /\ p.moved = 0
        /\ p.lastFrame.cmd = "My" /\ p.lastFrame.code = n /\ p.lastFrame.repeats = 0 /\ ~p.lastFrame.processed
        /\ p.lastFrame.await = AwaitTime
    BY <1>4, <1>5, <1>6, <1>7, <2>1 DEF Answers
  <2>3. IsIdle(p)
    BY <2>2 DEF IsIdle, IsAtTarget, Lift, Free, Calm
  <2>4. AwaitTime # Unset
    BY Ranges DEF Unset
  <2>5. Len(rest) \in {0, SetMyRepeats} /\ (Len(rest) # 0 => ~s.simMy) /\ (Len(frames) > 1 <=> Len(rest) # 0)
    <3>1. SetMyRepeats \in Nat
      BY ShadeAssumption
    <3>2. QED
      BY <1>1, <1>2, <1>7, <3>1
  <2>6. /\ Len(rest) = 0 => m0.goal = (IF m0.my = NoPos THEN m.pos ELSE m0.my) /\ m0.my = m.my
        /\ Len(rest) # 0 => m0.goal = m.pos /\ m0.my = IF m.my = m.pos THEN NoPos ELSE m.pos
    <3>1. m.goal = m.pos
      BY <1>5, <1>7
    <3>2. CASE Len(rest) = 0
      BY <1>1, <1>7, <2>5, <3>1, <3>2 DEF GoalAfter, MyAfter
    <3>3. CASE Len(rest) # 0
      BY <1>1, <1>7, <2>5, <3>1, <3>3 DEF GoalAfter, MyAfter
    <3>4. QED
      BY <3>2, <3>3
  <2>7. m.pos = m.pos + Toward(m.pos, m0.goal) * AtMost(0, Toward(m.pos, m0.goal) * (m0.goal - m.pos))
    <3>1. m.pos \in Int /\ m0.goal \in Int
      BY <1>5, Ranges DEF Positions, Motors
    <3>2. CASE m0.goal = m.pos
      <4> DEFINE way == AtMost(0, 0 * (m0.goal - m.pos))
      <4>1. Toward(m.pos, m0.goal) = 0 /\ way \in Int
        BY <3>1, <3>2 DEF Toward, AtMost
      <4>2. m.pos = m.pos + 0 * way
        <5> HIDE DEF way
        <5>1. QED
          BY <3>1, <4>1
      <4>3. QED
        BY <4>1, <4>2
    <3>3. CASE m0.goal > m.pos
      BY <3>1, <3>3 DEF Toward, AtMost
    <3>4. CASE m0.goal < m.pos
      BY <3>1, <3>4 DEF Toward, AtMost
    <3>5. QED
      BY <3>1, <3>2, <3>3, <3>4
  <2>8. Len(rest) # 0 => m.my = s.myPos
    BY <1>5, <2>5 DEF Favors
  <2>9. rest # <<>> => p.moved = 0
    BY <2>2
  <2>10. p.lastFrame.repeats + Len(rest) = Len(rest)
    BY <1>2, <2>2
  <2>11. /\ p.lastFrame.cmd = "My" /\ ~p.lastFrame.processed /\ p.lastFrame.await # Unset /\ p.lastFrame.code = n
         /\ SameFrames(rest, "My", n) /\ p.startPos = p.currentPos
    BY <1>2, <1>7, <2>2, <2>4
  <2>12. /\ Len(rest) = 0 => m0.goal = (IF m0.my = NoPos THEN p.currentPos ELSE m0.my) /\ Favors(p, m0.my)
         /\ Len(rest) # 0 => /\ ~p.simMy /\ m0.goal = p.currentPos
                             /\ m0.my = IF p.myPos = p.currentPos THEN NoPos ELSE p.currentPos
    BY <1>5, <2>2, <2>5, <2>6, <2>8 DEF Favors
  <2>13. m0.pos = p.currentPos + Toward(p.currentPos, m0.goal) * AtMost(p.moved, Toward(p.currentPos, m0.goal) * (m0.goal - p.currentPos))
    BY <1>1, <2>2, <2>7
  <2>14. Waiting(p, m0, rest, n)
    BY <2>2, <2>3, <2>5, <2>9, <2>10, <2>11, <2>12, <2>13 DEF Waiting
  <2>15. LiftMotor(p, m0) /\ p.lastFrame.code <= n
    BY <2>2 DEF LiftMotor
  <2>16. QED
    BY <1>3, <2>2, <2>14, <2>15, StillWaits DEF rest
<1>8. CASE ~(cmd = "My" /\ IsIdle(s))
  <2>1. p.lastFrame.processed
    BY <1>4, <1>6, <1>8 DEF Answers
  <2>2. cmd = "My" => m.goal # m.pos
    BY <1>5, <1>8
  <2>3. Favors(s, m0.my)
    <3>1. m0.my = m.my
      BY <1>1, <2>2 DEF MyAfter
    <3>2. QED
      BY <1>5, <3>1
  <2>4. p.target = m0.goal
    <3>1. CASE cmd = "Up"
      BY <1>1, <1>4, <1>6, <3>1 DEF Answers, GoalAfter
    <3>2. CASE cmd = "Down"
      BY <1>1, <1>4, <1>6, <3>2 DEF Answers, GoalAfter
    <3>3. CASE cmd = "My"
      BY <1>1, <1>4, <1>5, <1>6, <1>8, <2>2, <3>3 DEF Answers, GoalAfter
    <3>4. CASE cmd \in {"StepUp", "StepDown"}
      <4>1. p.target = StepTo(s, cmd) /\ IsIdle(s)
        BY <1>1, <1>4, <1>5, <1>6, <3>4 DEF Answers
      <4>2. s.currentPos = s.target /\ s.currentPos \in 0 .. Full /\ Full \in Nat
        BY <1>5, <4>1, Ranges DEF IsIdle, IsAtTarget, Positions
      <4>3. CASE cmd = "StepUp"
        BY <1>1, <1>5, <4>1, <4>2, <4>3 DEF GoalAfter, StepTo, AtLeast, AtMost
      <4>4. CASE cmd = "StepDown"
        BY <1>1, <1>5, <4>1, <4>2, <4>4 DEF GoalAfter, StepTo, AtLeast, AtMost
      <4>5. QED
        BY <3>4, <4>3, <4>4
    <3>5. QED
      BY <3>1, <3>2, <3>3, <3>4 DEF Commands
  <2>5. cmd = "My" => m0.goal = m0.pos
    BY <1>1, <2>2 DEF GoalAfter
  <2>6. cmd \in {"StepUp", "StepDown"} => rest = <<>>
    BY <1>1, <1>2
  <2>7. s.currentPos \in Positions /\ s.currentPos = m0.pos
    BY <1>1, <1>5
  <2>8. LiftFollows(CheckMovement(TxHold(Anchored(p))), m0, rest, n)
    BY <1>2, <1>4, <1>6, <2>1, <2>3, <2>4, <2>5, <2>6, <2>7, AnsweredLift
  <2>9. QED
    BY <1>3, <2>8 DEF rest
<1>9. QED
  BY <1>7, <1>8

\* A pass over a lift that follows its motor, with no frame to read.
LEMMA LoopLift ==
  ASSUME NEW p, Sound(p), Lift(p), NEW m \in Motors, LiftMotor(p, m), Drives(p, m), NEW n \in Nat, p.lastFrame.code <= n
  PROVE  LiftFollows(CheckMovement(TxHold(Anchored(p))), m, <<>>, n)
<1> DEFINE r == CheckMovement(TxHold(Anchored(p)))
<1>1. Carries(p, r, m)
  BY LoopDrives
<1> HIDE DEF r
<1>2. LiftMotor(r, m) /\ r.lastFrame.code <= n
  BY <1>1 DEF Carries, LiftMotor
<1>3. QED
  BY <1>1, <1>2 DEF LiftFollows, Driving, Carries, r

LEMMA RepeatingOn ==
  ASSUME NEW s, Sound(s), Lift(s), NEW m \in Motors, LiftMotor(s, m), NEW frames \in Seq(RemoteFrames), NEW n \in Nat,
         Repeating(s, m, frames, n)
  PROVE  LiftFollows(Pass(s, frames), m, Tail(frames), n)
<1> DEFINE f == Head(frames)
           rest == Tail(frames)
           cmd == s.lastFrame.cmd
           p == ProcessRemoteFrame(s, f)
<1>1. /\ frames # <<>> /\ SameFrames(frames, cmd, n) /\ s.lastFrame.code = n /\ Calm(s) /\ Free(s) /\ Drives(s, m)
      /\ s.currentPos = m.pos /\ cmd \in {"Up", "Down", "My"} /\ (cmd = "My" => IsIdle(s))
      /\ (cmd = "Up" => s.target = 0) /\ (cmd = "Down" => s.target = Full)
  BY DEF Repeating
<1>2. f = [cmd |-> cmd, code |-> n] /\ SameFrames(rest, cmd, n)
  BY <1>1, RestOfFrames
<1>3. Pass(s, frames) = CheckMovement(TxHold(Anchored(p)))
  BY <1>1 DEF Pass
<1> HIDE DEF f, rest
<1>4. f.cmd = cmd /\ f.code = n /\ cmd \in Commands
  BY <1>1, <1>2 DEF Commands
<1>5. s.lastFrame.processed /\ ~s.settingPos /\ s.pendingCmd = "none" /\ s.queue = <<>> /\ s.tiltType = "none"
  BY <1>1 DEF Drives, Calm, Free, Lift
<1>6. m.goal = s.target /\ Favors(s, m.my) /\ m.pos \in Positions
  <2>1. Follows(s, m.pos, m.goal) /\ Favors(s, m.my) /\ m.pos \in Positions /\ m.goal \in Positions
    BY <1>1, <1>5 DEF Drives, GoalToBe, MyToBe, Motors
  <2>2. QED
    BY <1>5, <2>1, FollowsIs DEF Rests
<1>7. Answers(s, f, p)
  BY <1>1, <1>4, <1>5, RemoteLift
<1> HIDE DEF p
<1>8. p.lastFrame.processed /\ p.target = s.target
  BY <1>1, <1>4, <1>5, <1>7 DEF Answers, Again
<1>9. cmd = "My" => m.goal = m.pos
  BY <1>1, <1>5, <1>6 DEF IsIdle, IsAtTarget
<1>10. LiftFollows(CheckMovement(TxHold(Anchored(p))), m, rest, n)
  BY <1>1, <1>2, <1>4, <1>6, <1>7, <1>8, <1>9, AnsweredLift
<1>11. QED
  BY <1>3, <1>10 DEF rest

\* One more frame of a My that waits for its repeats.
LEMMA WaitingHears ==
  ASSUME NEW s, Sound(s), Lift(s), NEW m \in Motors, LiftMotor(s, m), NEW frames \in Seq(RemoteFrames), NEW n \in Nat,
         Waiting(s, m, frames, n), frames # <<>>
  PROVE  LiftFollows(Pass(s, frames), m, Tail(frames), n)
<1> DEFINE f == Head(frames)
           rest == Tail(frames)
           p == ProcessRemoteFrame(s, f)
<1>1. /\ s.lastFrame.cmd = "My" /\ ~s.lastFrame.processed /\ s.lastFrame.code = n /\ SameFrames(frames, "My", n)
      /\ Calm(s) /\ IsIdle(s) /\ Free(s) /\ s.moved = 0 /\ s.pendingCmd = "none" /\ s.tiltType = "none"
      /\ s.currentPos = s.target /\ s.direction = 0
  BY DEF Waiting, Calm, IsIdle, IsAtTarget, Lift
<1>2. /\ f = [cmd |-> "My", code |-> n] /\ SameFrames(rest, "My", n)
      /\ Len(frames) = Len(rest) + 1 /\ Len(rest) \in Nat
  BY <1>1, RestOfFrames
<1>3. Pass(s, frames) = CheckMovement(TxHold(Anchored(p)))
  BY DEF Pass
<1> HIDE DEF f, rest
<1>4. f.cmd = "My" /\ f.code = n /\ f.cmd \in Commands
  BY <1>2 DEF Commands
<1>5. Answers(s, f, p) /\ Again(s, f)
  BY <1>1, <1>4, RemoteLift DEF Again
<1> HIDE DEF p
<1>6. /\ Sound(p) /\ Lift(p) /\ Free(p) /\ Calm(p) /\ p.simMy = s.simMy /\ p.myPos = s.myPos
      /\ p.direction = 0 /\ p.currentPos = s.currentPos /\ p.startPos = s.currentPos /\ p.moved = 0
      /\ p.target = s.currentPos
      /\ p.lastFrame.cmd = "My" /\ p.lastFrame.code = n /\ p.lastFrame.repeats = s.lastFrame.repeats + 1
      /\ p.lastFrame.await = AwaitTime /\ ~p.lastFrame.processed
  BY <1>1, <1>4, <1>5 DEF Answers
<1>7. IsIdle(p)
  BY <1>6 DEF IsIdle, IsAtTarget, Lift, Free, Calm
<1>8. AwaitTime # Unset
  BY Ranges DEF Unset
<1>9. p.lastFrame.repeats + Len(rest) = s.lastFrame.repeats + Len(frames)
  <2>1. s.lastFrame.repeats \in Nat
    BY DEF Sound, Typed, LastFrames
  <2>2. QED
    BY <1>2, <1>6, <2>1, SMTT(30)
<1>10. Waiting(p, m, rest, n)
  BY <1>1, <1>2, <1>6, <1>7, <1>8, <1>9 DEF Waiting, Favors
<1>11. LiftMotor(p, m) /\ p.lastFrame.code <= n
  BY <1>6 DEF LiftMotor
<1>12. QED
  BY <1>3, <1>6, <1>10, <1>11, StillWaits DEF rest

\* A lift that aims where its motor has been going for a while follows it.
LEMMA TravelsSince ==
  ASSUME NEW r, NEW pos, NEW goal \in Positions, r.target = goal, r.currentPos \in Positions, r.startPos = r.currentPos,
         r.moved \in Positions, ~r.settingPos,
         pos = r.currentPos + Toward(r.currentPos, goal) * AtMost(r.moved, Toward(r.currentPos, goal) * (goal - r.currentPos))
  PROVE  Follows(r, pos, goal)
<1> DEFINE at == r.currentPos
           moved == r.moved
           way(d) == AtMost(moved, d * (goal - at))
<1>1. at \in 0 .. Full /\ goal \in 0 .. Full /\ moved \in 0 .. Full /\ Full \in Nat
  BY Ranges DEF Positions
<1>2. pos = at + Toward(at, goal) * way(Toward(at, goal)) /\ r.startPos = at
  OBVIOUS
<1> HIDE DEF at, moved
<1>3. CASE goal = at
  <2>1. Toward(at, goal) = 0 /\ way(0) \in Int
    BY <1>1, <1>3 DEF Toward, AtMost
  <2>2. pos = at + 0 * way(0)
    BY <1>2, <2>1
  <2> HIDE DEF way
  <2>3. pos = at
    BY <1>1, <2>1, <2>2
  <2>4. QED
    BY <1>3, <2>3 DEF Follows, Rests, at
<1>4. CASE goal > at
  <2>1. Toward(at, goal) = 1
    BY <1>1, <1>4 DEF Toward
  <2>2. pos = at + 1 * way(1)
    BY <1>2, <2>1
  <2>3. way(1) \in 0 .. goal - at
    BY <1>1, <1>4 DEF AtMost
  <2>4. 1 * (goal - at) > 0 /\ 1 * (at - at) >= 0
    BY <1>1, <1>4
  <2>5. 1 * (pos - at) >= 0 /\ 1 * (goal - pos) >= 0
    <3> HIDE DEF way
    <3>1. QED
      BY <1>1, <2>2, <2>3
  <2>6. Travels(r, pos, goal, 1)
    BY <1>2, <2>2, <2>4, <2>5 DEF Travels, at, moved
  <2>7. QED
    BY <2>6 DEF Follows
<1>5. CASE goal < at
  <2>1. Toward(at, goal) = -1
    BY <1>1, <1>5 DEF Toward
  <2>2. pos = at + (-1) * way(-1)
    BY <1>2, <2>1
  <2>3. way(-1) \in 0 .. at - goal
    BY <1>1, <1>5 DEF AtMost
  <2>4. (-1) * (goal - at) > 0 /\ (-1) * (at - at) >= 0
    BY <1>1, <1>5
  <2>5. (-1) * (pos - at) >= 0 /\ (-1) * (goal - pos) >= 0
    <3> HIDE DEF way
    <3>1. QED
      BY <1>1, <2>2, <2>3
  <2>6. Travels(r, pos, goal, -1)
    BY <1>2, <2>2, <2>4, <2>5 DEF Travels, at, moved
  <2>7. QED
    BY <2>6 DEF Follows
<1>6. QED
  BY <1>1, <1>3, <1>4, <1>5

\* A frame of it processed, a shade is otherwise as it was.
LEMMA ProcessedIs ==
  ASSUME NEW s, Sound(s)
  PROVE  LET r == Processed(s)
         IN  Only({"lastFrame"}, s, r) /\ r.lastFrame.processed /\ r.lastFrame.code = s.lastFrame.code
<1>1. Only({"lastFrame"}, s, Processed(s)) /\ Processed(s).lastFrame.code = s.lastFrame.code
  BY LastFrameIs DEF Sound
<1>2. s.lastFrame \in LastFrames /\ DOMAIN s = Fields
  BY DEF Sound, Typed
<1>3. Processed(s).lastFrame.processed
  BY <1>2 DEF Processed, LastFrames, Fields
<1>4. QED
  BY <1>1, <1>3

\* The favourite that a held My of the remote makes of where the lift is.
LEMMA WaitingRecords ==
  ASSUME NEW s, Sound(s), Lift(s), NEW m \in Motors, LiftMotor(s, m), NEW n \in Nat, Waiting(s, m, <<>>, n),
         s.lastFrame.await = 0, s.lastFrame.repeats # 0
  PROVE  LiftFollows(Pass(s, <<>>), m, <<>>, n)
<1> DEFINE p == ProcessWaitingFrame(s)
           q == Processed(s)
           here == s.myPos = s.currentPos
<1>1. /\ s.lastFrame.cmd = "My" /\ ~s.lastFrame.processed /\ s.lastFrame.code = n
      /\ Calm(s) /\ IsIdle(s) /\ Free(s) /\ s.currentPos = s.target
      /\ ~s.simMy /\ m.goal = s.currentPos /\ m.my = (IF here THEN NoPos ELSE s.currentPos)
      /\ m.pos = s.currentPos + Toward(s.currentPos, m.goal) * AtMost(s.moved, Toward(s.currentPos, m.goal) * (m.goal - s.currentPos))
      /\ s.lastFrame.repeats = SetMyRepeats
  <2>1. s.lastFrame.repeats \in Nat /\ Len(<<>>) = 0
    BY DEF Sound, Typed, LastFrames
  <2>2. s.lastFrame.repeats + Len(<<>>) = s.lastFrame.repeats
    BY <2>1
  <2>3. QED
    BY <2>2 DEF Waiting, IsIdle, IsAtTarget, Lift
<1>2. s.lastFrame.repeats >= SetMyRepeats /\ ~(s.lastFrame.repeats < SetMyRepeats) /\ ~LongPressTells(s)
  BY <1>1, ShadeAssumption DEF LongPressTells, Lift
<1>3. Only({"lastFrame"}, s, q) /\ q.lastFrame.processed /\ q.lastFrame.code = n
  BY <1>1, ProcessedIs
<1>4. p = [q EXCEPT !.myPos = IF here THEN NoPos ELSE s.currentPos,
                    !.myTiltPos = IF here THEN NoPos ELSE s.currentTiltPos]
  BY <1>1, <1>2 DEF ProcessWaitingFrame
<1>5. Sound(p)
  BY WaitingFrameIs
<1>6. Pass(s, <<>>) = CheckMovement(TxHold(Anchored(p)))
  BY DEF Pass
<1> HIDE DEF p, q
<1>7. /\ Only({"myPos", "myTiltPos", "lastFrame"}, s, p) /\ p.lastFrame = q.lastFrame
      /\ p.myPos = (IF here THEN NoPos ELSE s.currentPos) /\ p.myTiltPos = (IF here THEN NoPos ELSE s.currentTiltPos)
  BY <1>3, <1>4 DEF Only, Fields
<1>8. /\ p.tiltType = s.tiltType /\ p.currentTiltPos = s.currentTiltPos /\ p.tiltTarget = s.tiltTarget
      /\ p.tiltDirection = s.tiltDirection /\ p.settingTiltPos = s.settingTiltPos /\ p.simMy = s.simMy
      /\ p.currentPos = s.currentPos /\ p.target = s.target
      /\ p.settingMyPos = s.settingMyPos /\ p.pendingCmd = s.pendingCmd
      /\ p.txWaitJob = s.txWaitJob /\ p.queue = s.queue /\ p.heard = s.heard
  BY <1>7 DEF Only, Fields
<1>9. Lift(p) /\ Free(p) /\ LiftMotor(p, m) /\ Favors(p, m.my)
  BY <1>1, <1>7, <1>8 DEF Lift, Free, LiftMotor, Favors, Calm
<1>10. m.pos = s.currentPos
  <2>1. s.currentPos \in Positions /\ m.goal = s.currentPos /\ s.moved \in Positions /\ s.startPos = s.currentPos
    BY <1>1 DEF Sound, Typed, Waiting
  <2>2. Follows(s, m.pos, m.goal)
    BY <1>1, <2>1, TravelsSince DEF Calm
  <2>3. m.pos \in Positions /\ m.goal \in Positions
    BY DEF Motors
  <2>4. QED
    BY <1>1, <2>2, <2>3, FollowsIs DEF Rests
<1>11. Drives(p, m)
  <2>1. Follows(p, m.pos, m.goal)
    BY <1>1, <1>8, <1>10 DEF Follows, Rests
  <2>2. QED
    BY <1>3, <1>7, <1>9, <2>1 DEF Drives, GoalToBe, MyToBe, Free
<1>12. p.lastFrame.code <= n
  BY <1>3, <1>7
<1>13. QED
  BY <1>5, <1>6, <1>9, <1>11, <1>12, LoopLift

\* A short My of the remote: the shade aims where its motor has been going since.
LEMMA WaitingLeaves ==
  ASSUME NEW s, Sound(s), Lift(s), NEW m \in Motors, LiftMotor(s, m), NEW n \in Nat, Waiting(s, m, <<>>, n),
         s.lastFrame.await = 0, s.lastFrame.repeats = 0
  PROVE  LiftFollows(Pass(s, <<>>), m, <<>>, n)
<1> DEFINE p == ProcessWaitingFrame(s)
           went == IF s.simMy THEN MoveToMyPosition(s) ELSE ToFavorite(s)
<1>1. /\ s.lastFrame.cmd = "My" /\ ~s.lastFrame.processed /\ s.lastFrame.code = n
      /\ Calm(s) /\ IsIdle(s) /\ Free(s) /\ s.currentPos = s.target /\ s.startPos = s.currentPos
      /\ m.goal = (IF m.my = NoPos THEN s.currentPos ELSE m.my) /\ Favors(s, m.my)
      /\ m.pos = s.currentPos + Toward(s.currentPos, m.goal) * AtMost(s.moved, Toward(s.currentPos, m.goal) * (m.goal - s.currentPos))
      /\ s.tiltType = "none" /\ ~s.settingPos /\ s.pendingCmd = "none"
  <2>1. s.lastFrame.repeats + Len(<<>>) = 0
    OBVIOUS
  <2>2. QED
    BY <2>1 DEF Waiting, IsIdle, IsAtTarget, Lift, Calm
<1>2. /\ s.currentPos \in Positions /\ s.moved \in Positions /\ m.goal \in Positions /\ m.pos \in Positions
      /\ DOMAIN s = Fields
  BY DEF Sound, Typed, Motors
<1>3. 0 < SetMyRepeats /\ ~(0 >= SetMyRepeats) /\ ~LongPressTells(s)
  BY <1>1, ShadeAssumption DEF LongPressTells
<1>4. p = Processed(went)
  BY <1>1, <1>3 DEF ProcessWaitingFrame
<1>5. Sound(p)
  BY WaitingFrameIs
<1>6. Pass(s, <<>>) = CheckMovement(TxHold(Anchored(p)))
  BY DEF Pass
<1> HIDE DEF p, went
<1>7. ASSUME Sound(went), Lift(went), Free(went) \/ OnItsWay(went), went.simMy = s.simMy, went.lastFrame.code <= n,
             Follows(went, m.pos, GoalToBe(went, m)), Favors(went, MyToBe(went, m))
      PROVE  LiftFollows(Pass(s, <<>>), m, <<>>, n)
  <2>1. Only({"lastFrame"}, went, p) /\ p.lastFrame.processed /\ p.lastFrame.code = went.lastFrame.code
    BY <1>4, <1>7, ProcessedIs
  <2>2. \A f \in Fields \ {"lastFrame"} : p[f] = went[f]
    BY <2>1 DEF Only
  <2>3. /\ p.tiltType = went.tiltType /\ p.currentTiltPos = went.currentTiltPos /\ p.tiltTarget = went.tiltTarget
        /\ p.tiltDirection = went.tiltDirection /\ p.settingTiltPos = went.settingTiltPos /\ p.simMy = went.simMy
        /\ p.currentPos = went.currentPos /\ p.target = went.target /\ p.settingPos = went.settingPos
        /\ p.settingMyPos = went.settingMyPos /\ p.pendingCmd = went.pendingCmd /\ p.direction = went.direction
        /\ p.txWaitJob = went.txWaitJob /\ p.queue = went.queue /\ p.heard = went.heard /\ p.gap = went.gap
        /\ p.myPos = went.myPos /\ p.myTiltPos = went.myTiltPos /\ p.waited = went.waited /\ p.moved = went.moved
        /\ p.tilted = went.tilted /\ p.startPos = went.startPos /\ p.startTiltPos = went.startTiltPos
    BY <2>2 DEF Fields
  <2>4. Lift(p) /\ LiftMotor(p, m) /\ (Free(went) => Free(p)) /\ (OnItsWay(went) => OnItsWay(p))
    BY <1>7, <2>3 DEF Lift, LiftMotor, Free, OnItsWay
  <2>5. GoalToBe(p, m) = GoalToBe(went, m) /\ MyToBe(p, m) = MyToBe(went, m)
    BY <2>3 DEF GoalToBe, MyToBe
  <2>6. \A goal : Follows(went, m.pos, goal) => Follows(p, m.pos, goal)
    BY <2>3 DEF Follows, Rests, Travels
  <2>7. Drives(p, m)
    BY <1>7, <2>1, <2>3, <2>4, <2>5, <2>6 DEF Drives, Favors
  <2>8. p.lastFrame.code <= n
    BY <1>7, <2>1
  <2>9. QED
    BY <1>5, <1>6, <2>4, <2>7, <2>8, LoopLift
<1>8. CASE s.simMy
  <2>1. m.my = NoPos /\ m.goal = s.currentPos
    BY <1>1, <1>8 DEF LiftMotor
  <2>2. Follows(s, m.pos, m.goal)
    BY <1>1, <1>2, <2>1, TravelsSince
  <2>3. m.pos = s.currentPos
    BY <1>1, <1>2, <2>2, FollowsIs DEF Rests
  <2>4. Placed(s, m) /\ m.goal = m.pos
    BY <1>1, <2>1, <2>3 DEF Placed
  <2>5. went = s \/ Carries(s, went, m)
    BY <1>1, <1>8, <2>4, MoveToMyPositionCarries DEF went
  <2>6. CASE went = s
    <3>1. GoalToBe(s, m) = m.goal /\ MyToBe(s, m) = m.my /\ n <= n
      BY <1>1 DEF Free, GoalToBe, MyToBe
    <3>2. QED
      BY <1>1, <1>7, <2>2, <2>6, <3>1
  <2>7. CASE Carries(s, went, m)
    <3>1. Sound(went)
      BY <1>8, MoveToMyPositionIs DEF went
    <3>2. QED
      BY <1>1, <1>7, <2>7, <3>1 DEF Carries, Drives
  <2>8. QED
    BY <2>5, <2>6, <2>7
<1>9. CASE ~s.simMy
  <2>1. s.myPos = m.my
    BY <1>1, <1>9 DEF Favors
  <2>2. /\ went = ToFavorite(s) /\ Sound(went) /\ Only(Aims, s, went)
    BY <1>9, ToFavoriteIs DEF went
  <2>3. went.target = m.goal /\ went.tiltTarget = 0
    <3>1. s.tiltTarget = 0 /\ s.myTiltPos \in {0, NoPos}
      BY DEF Lift
    <3>2. QED
      BY <1>1, <1>2, <2>1, <2>2, <3>1 DEF ToFavorite, Fields
  <2>4. /\ went.tiltType = s.tiltType /\ went.currentTiltPos = s.currentTiltPos
        /\ went.tiltDirection = s.tiltDirection /\ went.settingTiltPos = s.settingTiltPos /\ went.simMy = s.simMy
        /\ went.currentPos = s.currentPos /\ went.settingPos = s.settingPos
        /\ went.settingMyPos = s.settingMyPos /\ went.pendingCmd = s.pendingCmd
        /\ went.txWaitJob = s.txWaitJob /\ went.queue = s.queue /\ went.heard = s.heard
        /\ went.myPos = s.myPos /\ went.myTiltPos = s.myTiltPos /\ went.moved = s.moved
        /\ went.startPos = s.startPos /\ went.lastFrame = s.lastFrame
    BY <2>2 DEF Only, Fields, Aims
  <2>5. Lift(went) /\ Free(went) /\ Favors(went, m.my)
    BY <1>1, <2>1, <2>3, <2>4 DEF Lift, Free, Favors
  <2>6. Follows(went, m.pos, m.goal)
    BY <1>1, <1>2, <2>3, <2>4, TravelsSince
  <2>7. GoalToBe(went, m) = m.goal /\ MyToBe(went, m) = m.my /\ went.lastFrame.code <= n
    BY <1>1, <2>4, <2>5 DEF Free, GoalToBe, MyToBe
  <2>8. QED
    BY <1>7, <2>2, <2>4, <2>5, <2>6, <2>7
<1>10. QED
  BY <1>8, <1>9

\* A pass over a lift, whatever it knows of what its motor has heard.
LEMMA PassLift ==
  ASSUME NEW s, Sound(s), NEW m \in Motors, NEW frames \in Seq(RemoteFrames), NEW n \in Nat, LiftFollows(s, m, frames, n)
  PROVE  LiftFollows(Pass(s, frames), m, IF frames = <<>> THEN <<>> ELSE Tail(frames), n)
<1>1. Lift(s) /\ LiftMotor(s, m) /\ s.lastFrame.code <= n
  BY DEF LiftFollows
<1>2. CASE frames # <<>>
  <2>1. Hearing(s, m, frames, n) \/ Repeating(s, m, frames, n) \/ Waiting(s, m, frames, n)
    BY <1>2 DEF LiftFollows, Driving
  <2>2. LiftFollows(Pass(s, frames), m, Tail(frames), n)
    BY <1>1, <1>2, <2>1, HearingOn, RepeatingOn, WaitingHears
  <2>3. QED
    BY <1>2, <2>2
<1>3. CASE frames = <<>>
  <2>1. Driving(s, m, <<>>) \/ Waiting(s, m, <<>>, n)
    BY <1>3 DEF LiftFollows, Hearing, Repeating
  <2>2. Pass(s, <<>>) = CheckMovement(TxHold(Anchored(ProcessWaitingFrame(s))))
    BY DEF Pass
  <2>3. CASE Driving(s, m, <<>>)
    <3>1. ProcessWaitingFrame(s) = s /\ Drives(s, m)
      BY <2>3 DEF Driving, Drives, ProcessWaitingFrame
    <3>2. QED
      BY <1>1, <1>3, <2>2, <3>1, LoopLift
  <2>4. CASE Waiting(s, m, <<>>, n) /\ s.lastFrame.await # 0
    <3>1. ProcessWaitingFrame(s) = s
      BY <2>4 DEF ProcessWaitingFrame
    <3>2. QED
      BY <1>1, <1>3, <2>2, <2>4, <3>1, StillWaits
  <2>5. CASE Waiting(s, m, <<>>, n) /\ s.lastFrame.await = 0
    BY <1>1, <1>3, <2>5, WaitingRecords, WaitingLeaves
  <2>6. QED
    BY <2>1, <2>3, <2>4, <2>5
<1>4. QED
  BY <1>2, <1>3

\* When there is nothing to do: the lift is where its motor is, or a My waits.
LEMMA SettledLift ==
  ASSUME NEW s, Sound(s), NEW m \in Motors, NEW n, LiftFollows(s, m, <<>>, n), s.queue = <<>>, Pass(s, <<>>) = s
  PROVE  \/ Drives(s, m) /\ Carries(s, s, m) /\ Free(s)
         \/ Waiting(s, m, <<>>, n)
<1>1. Driving(s, m, <<>>) \/ Waiting(s, m, <<>>, n)
  BY DEF LiftFollows, Hearing, Repeating
<1>2. CASE Driving(s, m, <<>>)
  <2>1. ProcessWaitingFrame(s) = s /\ Drives(s, m) /\ Lift(s) /\ LiftMotor(s, m)
    BY <1>2 DEF Driving, Drives, ProcessWaitingFrame, LiftFollows
  <2>2. CheckMovement(TxHold(Anchored(s))) = s
    BY <2>1 DEF Pass
  <2>3. Carries(s, s, m)
    BY <2>1, <2>2, LoopDrives
  <2>4. s.heard = {}
    BY <2>3 DEF Carries
  <2>5. ~OnItsWay(s)
    <3>1. Len(s.queue) # 1
      OBVIOUS
    <3>2. QED
      BY <2>4, <3>1 DEF OnItsWay
  <2>6. QED
    BY <2>1, <2>3, <2>5 DEF Drives
<1>3. QED
  BY <1>1, <1>2

LEMMA UndisturbedLift ==
  ASSUME SystemSound, LiftFollows(shade, motor, received, presses), Undisturbed
  PROVE  Poised(shade, motor) /\ Carries(shade, shade, motor) /\ received = <<>> /\ Driving(shade, motor, received)
<1>1. /\ Sound(shade) /\ motor \in Motors /\ received = <<>> /\ shade.queue = <<>> /\ Pass(shade, <<>>) = shade
      /\ ~FrameWaits /\ shade.pendingCmd = "none"
  BY DEF SystemSound, Undisturbed, Settled
<1>2. Lift(shade) /\ LiftMotor(shade, motor) /\ LiftFollows(shade, motor, <<>>, presses)
  BY <1>1 DEF LiftFollows
<1>3. ~Waiting(shade, motor, <<>>, presses)
  BY <1>1 DEF Waiting, FrameWaits
<1>4. Drives(shade, motor) /\ Carries(shade, shade, motor) /\ Free(shade)
  BY <1>1, <1>2, <1>3, SettledLift
<1>5. Poised(shade, motor)
  BY <1>1, <1>2, <1>4, DrivesPoised DEF Carries
<1>6. QED
  BY <1>1, <1>4, <1>5 DEF Driving

-----------------------------------------------------------------------------
(* The other steps of a lift and its motor.                                *)

LEMMA HearsLift ==
  ASSUME motor \in Motors, shade.tiltType = "none", motor.tilt = 0, motor.tiltGoal = 0,
         NEW cmd \in Commands, NEW length \in Lengths
  PROVE  LET r == Hears(motor, cmd, length)
         IN  /\ r.pos = motor.pos /\ r.goal = GoalAfter(motor, cmd, length) /\ r.my = MyAfter(motor, cmd, length)
             /\ r.tilt = 0 /\ r.tiltGoal = 0
<1> DEFINE r == Hears(motor, cmd, length)
           Is(x, goal, my) == x.pos = motor.pos /\ x.goal = goal /\ x.my = my /\ x.tilt = 0 /\ x.tiltGoal = 0
<1>1. MotorStopped <=> motor.goal = motor.pos
  BY DEF MotorStopped
<1>2. Lifts(length) /\ ~Turns(length)
  BY DEF Lifts, Turns
<1>3. Is(Driven(motor, -1, length), 0, motor.my) /\ Is(Driven(motor, 1, length), Full, motor.my)
  BY <1>2 DEF Driven, Motors
<1>4. /\ Is(Stopped(motor), motor.pos, motor.my)
      /\ Stopped(motor) \in Motors
  BY DEF Stopped, Motors
<1>5. /\ Is(Stepped(motor, -1), AtLeast(0, AtMost(Full, motor.pos - 1)), motor.my)
      /\ Is(Stepped(motor, 1), AtLeast(0, AtMost(Full, motor.pos + 1)), motor.my)
  <2> DEFINE stopped == Stopped(motor)
             to(dir) == AtLeast(0, AtMost(Full, motor.pos + dir))
  <2>1. motor.pos + (-1) = motor.pos - 1
    BY Ranges DEF Motors, Positions
  <2>2. /\ Stepped(motor, -1) = [stopped EXCEPT !.goal = to(-1), !.tiltGoal = @]
        /\ Stepped(motor, 1) = [stopped EXCEPT !.goal = to(1), !.tiltGoal = @]
    BY DEF Stepped
  <2> HIDE DEF stopped, to
  <2>3. stopped \in Motors /\ Is(stopped, motor.pos, motor.my)
    BY <1>4 DEF stopped
  <2>4. Is(Stepped(motor, -1), to(-1), motor.my)
    BY <2>2, <2>3 DEF Motors
  <2>5. Is(Stepped(motor, 1), to(1), motor.my)
    BY <2>2, <2>3 DEF Motors
  <2>6. QED
    BY <2>1, <2>4, <2>5 DEF to
<1>6. CASE cmd = "Up"
  BY <1>3, <1>6 DEF Hears, GoalAfter, MyAfter
<1>7. CASE cmd = "Down"
  BY <1>3, <1>7 DEF Hears, GoalAfter, MyAfter
<1>8. CASE cmd = "StepUp"
  BY <1>5, <1>8 DEF Hears, GoalAfter, MyAfter
<1>9. CASE cmd = "StepDown"
  BY <1>5, <1>9 DEF Hears, GoalAfter, MyAfter
<1>10. CASE cmd = "My" /\ ~MotorStopped
  BY <1>1, <1>4, <1>10 DEF Hears, GoalAfter, MyAfter
<1>11. CASE cmd = "My" /\ MotorStopped /\ length = "set"
  <2> DEFINE my == IF motor.my = motor.pos THEN NoPos ELSE motor.pos
  <2>1. r = [motor EXCEPT !.my = my]
    BY <1>11 DEF Hears
  <2> HIDE DEF my, r
  <2>2. Is(r, motor.goal, my)
    BY <2>1 DEF Motors
  <2>3. GoalAfter(motor, cmd, length) = motor.goal /\ MyAfter(motor, cmd, length) = my
    BY <1>1, <1>11 DEF GoalAfter, MyAfter, my
  <2>4. QED
    BY <2>2, <2>3 DEF r
<1>12. CASE cmd = "My" /\ MotorStopped /\ length # "set"
  <2>1. r = IF motor.my = NoPos THEN motor ELSE [motor EXCEPT !.goal = motor.my]
    BY <1>12 DEF Hears
  <2> HIDE DEF r
  <2>2. Is(r, IF motor.my = NoPos THEN motor.goal ELSE motor.my, motor.my)
    BY <2>1 DEF Motors
  <2>3. /\ GoalAfter(motor, cmd, length) = IF motor.my = NoPos THEN motor.goal ELSE motor.my
        /\ MyAfter(motor, cmd, length) = motor.my
    BY <1>1, <1>12 DEF GoalAfter, MyAfter
  <2>4. QED
    BY <2>2, <2>3 DEF r
<1>13. QED
  BY <1>6, <1>7, <1>8, <1>9, <1>10, <1>11, <1>12 DEF Commands

LEMMA LiftOrdered ==
  ASSUME SystemSound, LiftFollows(shade, motor, received, presses), Prompt,
         NEW o \in LiftOrders(shade.simMy), Order(o)
  PROVE  LiftFollows(shade', motor', received', presses')
<1>1. /\ Undisturbed /\ (NeedsStandstill(o) => MotorStopped) /\ shade' \in Ordered(shade, o)
      /\ UNCHANGED <<motor, received, presses>>
  BY DEF Order
<1>2. Poised(shade, motor) /\ Carries(shade, shade, motor) /\ received = <<>> /\ motor \in Motors
  BY <1>1, UndisturbedLift DEF SystemSound
<1>3. o \in {"StepUp", "StepDown"} => motor.goal = motor.pos
  BY <1>1 DEF NeedsStandstill, MotorStopped
<1>4. Carries(shade, shade', motor)
  BY <1>1, <1>2, <1>3, OrderedCarries
<1>5. shade'.lastFrame.code <= presses
  <2>1. presses \in Nat /\ shade.lastFrame.code <= presses
    BY DEF SystemSound, LiftFollows
  <2>2. shade'.lastFrame.code \in {shade.lastFrame.code, 0}
    BY <1>4 DEF Carries
  <2>3. QED
    BY <2>1, <2>2
<1>6. LiftMotor(shade', motor)
  BY <1>4 DEF LiftFollows, LiftMotor, Carries
<1>7. QED
  BY <1>1, <1>2, <1>4, <1>5, <1>6 DEF LiftFollows, Driving, Carries

\* And a favourite is not set with the remote where the device simulates it.
LiftPresses(simMy) == Presses \ IF simMy THEN {"set my"} ELSE {}

LEMMA LiftPressed ==
  ASSUME SystemSound, LiftFollows(shade, motor, received, presses), Prompt, shade.tiltType = "none",
         NEW p \in LiftPresses(shade.simMy), Press(p)
  PROVE  LiftFollows(shade', motor', received', presses')
<1> DEFINE f == Pressed(p)
           n == f.repeats + 1
           length == IF f.cmd = "My" /\ n > 1 THEN "set" ELSE "short"
<1>1. /\ Undisturbed /\ (NeedsStandstill(p) => MotorStopped) /\ shade' = shade /\ presses' = presses + 1
      /\ motor' = Hears(motor, f.cmd, f.length)
      /\ received' = [i \in 1 .. n |-> [cmd |-> f.cmd, code |-> presses']]
  BY DEF Press
<1>2. /\ Poised(shade, motor) /\ Carries(shade, shade, motor) /\ received = <<>> /\ motor \in Motors
      /\ LiftMotor(shade, motor) /\ Lift(shade)
  BY <1>1, UndisturbedLift DEF SystemSound, LiftFollows
<1>3. SetMyRepeats \in Nat \ {0} /\ TiltRepeats \in Nat \ {0}
  BY ShadeAssumption
<1>4. /\ f.cmd \in Commands /\ f.length \in Lengths /\ n \in Nat \ {0}
      /\ f.cmd = "My" => n \in {1, SetMyRepeats + 1} /\ (n > 1 => p = "set my") /\ f.length = length
      /\ f.cmd \in {"StepUp", "StepDown"} => p = f.cmd /\ n = 1
  <2>1. CASE p = "set my"
    <3>1. f = [cmd |-> "My", length |-> "set", repeats |-> SetMyRepeats]
      BY <2>1 DEF Pressed
    <3>2. f.cmd = "My" /\ f.length = "set" /\ n = SetMyRepeats + 1
      BY <3>1
    <3> HIDE DEF f, n
    <3>3. n \in Nat \ {0} /\ n > 1
      BY <1>3, <3>2
    <3>4. QED
      BY <2>1, <3>2, <3>3 DEF Commands, Lengths
  <2>2. CASE p = "long Up" \/ p = "long Down"
    <3>1. f.cmd \in {"Up", "Down"} /\ f.length = "tilt" /\ n = TiltRepeats + 1
      BY <2>2 DEF Pressed
    <3> HIDE DEF f, n
    <3>2. n \in Nat \ {0}
      BY <1>3, <3>1
    <3>3. QED
      BY <3>1, <3>2 DEF Commands, Lengths
  <2>3. CASE p \in Commands
    <3>1. f = [cmd |-> p, length |-> "short", repeats |-> 0]
      BY <2>3 DEF Pressed, Commands
    <3>2. f.cmd = p /\ f.length = "short" /\ n = 1
      BY <3>1
    <3> HIDE DEF f, n
    <3>3. QED
      BY <2>3, <3>2 DEF Commands, Lengths
  <2>4. QED
    BY <2>1, <2>2, <2>3 DEF Presses, LiftPresses
<1> HIDE DEF f, n
<1>5. GoalAfter(motor, f.cmd, f.length) = GoalAfter(motor, f.cmd, length)
      /\ MyAfter(motor, f.cmd, f.length) = MyAfter(motor, f.cmd, length)
  <2>1. CASE f.cmd = "My"
    BY <1>4, <2>1
  <2>2. CASE f.cmd # "My"
    BY <1>4, <2>2 DEF GoalAfter, MyAfter, Commands
  <2>3. QED
    BY <2>1, <2>2
<1>6. /\ motor'.pos = motor.pos /\ motor'.goal = GoalAfter(motor, f.cmd, length)
      /\ motor'.my = MyAfter(motor, f.cmd, length) /\ motor'.tilt = 0 /\ motor'.tiltGoal = 0
  <2>1. motor.tilt = 0 /\ motor.tiltGoal = 0
    BY <1>2 DEF LiftMotor
  <2>2. QED
    BY <1>1, <1>2, <1>4, <1>5, <2>1, HearsLift
<1>7. Len(received') = n /\ received' # <<>> /\ SameFrames(received', f.cmd, presses')
  <2> DEFINE frame == [cmd |-> f.cmd, code |-> presses']
             frames == [i \in 1 .. n |-> frame]
  <2>1. n \in Nat /\ n # 0
    BY <1>4
  <2> HIDE DEF frame
  <2>2. frames \in Seq({frame}) /\ Len(frames) = n /\ \A i \in 1 .. n : frames[i] = frame
    BY <2>1
  <2>3. received' = frames
    BY <1>1 DEF frame
  <2> HIDE DEF frames
  <2>4. frames # <<>>
    BY <2>1, <2>2
  <2>5. QED
    BY <2>2, <2>3, <2>4 DEF SameFrames, frame
<1>8. shade.simMy /\ f.cmd = "My" => ~(n > 1) /\ length # "set"
  BY <1>4 DEF LiftPresses
<1>9. LiftMotor(shade', motor')
  <2>1. ASSUME shade.simMy PROVE motor'.my = NoPos
    BY <1>2, <1>6, <1>8, <2>1 DEF LiftMotor, MyAfter
  <2>2. QED
    BY <1>1, <1>6, <2>1 DEF LiftMotor
<1>10. f.cmd = "My" => Len(received') \in {1, SetMyRepeats + 1} /\ (Len(received') > 1 => ~shade.simMy)
  BY <1>4, <1>7, <1>8
<1>11. f.cmd \in {"StepUp", "StepDown"} => Len(received') = 1 /\ motor.goal = motor.pos
  <2>1. p \in {"StepUp", "StepDown"} => motor.goal = motor.pos
    BY <1>1 DEF NeedsStandstill, MotorStopped
  <2>2. QED
    BY <1>4, <1>7, <2>1
<1>12. shade.lastFrame.code # presses' /\ shade.lastFrame.code <= presses'
  <2>1. shade.lastFrame.code <= presses /\ presses \in Nat /\ shade.lastFrame.code \in Nat
    BY DEF SystemSound, LiftFollows, Sound, Typed, LastFrames
  <2>2. QED
    BY <1>1, <2>1
<1>13. Hearing(shade', motor', received', presses')
  <2>1. length = IF f.cmd = "My" /\ Len(received') > 1 THEN "set" ELSE "short"
    BY <1>7
  <2> HIDE DEF length
  <2>2. QED
    BY <1>1, <1>2, <1>4, <1>6, <1>7, <1>10, <1>11, <1>12, <2>1 DEF Hearing
<1>14. QED
  BY <1>1, <1>2, <1>9, <1>12, <1>13 DEF LiftFollows

LEMMA LiftTransmits ==
  ASSUME SystemSound, LiftFollows(shade, motor, received, presses), MaxLost = 0, shade.tiltType = "none", Transmit
  PROVE  LiftFollows(shade', motor', received', presses')
<1>1. PICK i \in DOMAIN shade.queue : Heard(i, TRUE)
  <2>1. lost \in Nat
    BY DEF SystemSound
  <2>2. ~(lost < MaxLost)
    BY <2>1
  <2>3. QED
    BY <2>2 DEF Transmit
<1>2. /\ Sound(shade) /\ motor \in Motors /\ Lift(shade) /\ LiftMotor(shade, motor)
      /\ shade.lastFrame.code <= presses
  BY DEF SystemSound, LiftFollows
<1>3. shade.queue # <<>> /\ Len(shade.queue) \in Nat /\ DOMAIN shade.queue = 1 .. Len(shade.queue)
  BY <1>1, <1>2 DEF Sound, Typed
<1>4. Driving(shade, motor, received) /\ OnItsWay(shade)
  BY <1>3 DEF LiftFollows, Driving, Drives, Hearing, Repeating, Waiting, Poised, Placed, Free
<1>5. Len(shade.queue) = 1 /\ shade.queue[1].job = shade.txWaitJob /\ shade.heard = {} /\ i = 1
  <2>1. Len(shade.queue) = 1 /\ shade.queue[1].job = shade.txWaitJob /\ shade.heard = {}
    BY <1>3, <1>4 DEF OnItsWay
  <2>2. i \in 1 .. 1
    BY <1>1, <1>3, <2>1
  <2>3. QED
    BY <2>1, <2>2
<1> DEFINE cmd == shade.queue[1].cmd
           length == shade.queue[1].length
<1>6. cmd \in Commands /\ length \in Lengths
  <2>1. shade.queue[1] \in Frames
    BY <1>2, <1>5 DEF Sound, Typed
  <2>2. QED
    BY <2>1 DEF Frames
<1>7. /\ motor' = Hears(motor, cmd, length) /\ shade' = Sent(shade, 1, TRUE)
      /\ UNCHANGED <<received, presses>>
  BY <1>1, <1>5 DEF Heard, Sent
<1>8. Sound(shade') /\ Only({"queue", "heard"}, shade, shade') /\ Len(shade'.queue) = 0
  <2> DEFINE r == Sent(shade, 1, TRUE)
  <2>1. 1 \in DOMAIN shade.queue /\ TRUE \in BOOLEAN
    BY <1>3, <1>5
  <2>2. Sound(r) /\ Only({"queue", "heard"}, shade, r) /\ Len(r.queue) = Len(shade.queue) - 1
    BY <1>2, <2>1, SentIs
  <2> HIDE DEF r
  <2>3. shade' = r
    BY <1>7 DEF r
  <2>4. QED
    BY <1>5, <2>2, <2>3
<1>9. shade'.queue = <<>>
  BY <1>8 DEF Sound, Typed
<1>10. shade'.heard = {[job |-> shade.txWaitJob, age |-> 0]}
  <2>1. DOMAIN shade = Fields
    BY <1>2 DEF Sound, Typed
  <2>2. QED
    BY <1>5, <1>7, <2>1 DEF Sent, Fields
<1>11. /\ shade'.tiltType = shade.tiltType /\ shade'.currentTiltPos = shade.currentTiltPos
       /\ shade'.tiltTarget = shade.tiltTarget /\ shade'.tiltDirection = shade.tiltDirection
       /\ shade'.settingTiltPos = shade.settingTiltPos /\ shade'.simMy = shade.simMy
       /\ shade'.currentPos = shade.currentPos /\ shade'.target = shade.target /\ shade'.settingPos = shade.settingPos
       /\ shade'.settingMyPos = shade.settingMyPos /\ shade'.pendingCmd = shade.pendingCmd
       /\ shade'.direction = shade.direction /\ shade'.txWaitJob = shade.txWaitJob /\ shade'.gap = shade.gap
       /\ shade'.myPos = shade.myPos /\ shade'.myTiltPos = shade.myTiltPos /\ shade'.waited = shade.waited
       /\ shade'.moved = shade.moved /\ shade'.tilted = shade.tilted /\ shade'.startPos = shade.startPos
       /\ shade'.startTiltPos = shade.startTiltPos /\ shade'.lastFrame = shade.lastFrame
  BY <1>8 DEF Only, Fields
<1>12. /\ motor'.pos = motor.pos /\ motor'.goal = GoalAfter(motor, cmd, length)
       /\ motor'.my = MyAfter(motor, cmd, length) /\ motor'.tilt = 0 /\ motor'.tiltGoal = 0
  <2>1. motor.tilt = 0 /\ motor.tiltGoal = 0
    BY <1>2 DEF LiftMotor
  <2>2. QED
    BY <1>2, <1>6, <1>7, <2>1, HearsLift
<1>13. /\ GoalToBe(shade, motor) = motor'.goal /\ GoalToBe(shade', motor') = motor'.goal
       /\ MyToBe(shade, motor) = motor'.my /\ MyToBe(shade', motor') = motor'.my
  BY <1>3, <1>9, <1>12 DEF GoalToBe, MyToBe
<1>14. Lift(shade') /\ LiftMotor(shade', motor')
  <2>1. shade.simMy => motor'.my = NoPos
    BY <1>4, <1>13 DEF Driving, Drives, Favors
  <2>2. QED
    BY <1>2, <1>11, <1>12, <2>1 DEF Lift, LiftMotor
<1>15. OnItsWay(shade')
  BY <1>4, <1>9, <1>10, <1>11 DEF OnItsWay
<1>16. \A pos, goal : Follows(shade, pos, goal) => Follows(shade', pos, goal)
  BY <1>11 DEF Follows, Rests, Travels
<1>17. Drives(shade', motor')
  BY <1>4, <1>11, <1>12, <1>13, <1>15, <1>16 DEF Driving, Drives, Favors
<1>18. QED
  BY <1>2, <1>4, <1>7, <1>11, <1>14, <1>17 DEF LiftFollows, Driving

\* A tick later.
LEMMA AgedLift ==
  ASSUME NEW s, Sound(s), Free(s)
  PROVE  LET r == Aged(s)
         IN  /\ Only({"moved", "tilted", "gap", "waited", "lastFrame", "heard"}, s, r) /\ Free(r)
             /\ r.moved = AtMost(Full, s.moved + 1)
             /\ r.lastFrame.cmd = s.lastFrame.cmd /\ r.lastFrame.code = s.lastFrame.code
             /\ r.lastFrame.processed = s.lastFrame.processed /\ r.lastFrame.repeats = s.lastFrame.repeats
             /\ s.lastFrame.await # Unset => r.lastFrame.await # Unset
<1> DEFINE moved == AtMost(Full, s.moved + 1)
           await == IF s.lastFrame.await = Unset THEN Unset ELSE AtLeast(0, s.lastFrame.await - 1)
           frame == [s.lastFrame EXCEPT !.await = await]
           heard == {[e EXCEPT !.age = AtMost(AtLeast(Full, TiltFull), @ + 1)] : e \in s.heard}
           r == Aged(s)
<1>1. r = [s EXCEPT !.moved = moved, !.tilted = AtMost(TiltFull, @ + 1),
                    !.gap = AtLeast(0, @ - 1),
                    !.waited = IF s.txWaitJob = 0 THEN 0 ELSE AtMost(HoldLimit + 1, @ + 1),
                    !.lastFrame = frame, !.heard = heard]
  BY DEF Aged
<1>2. Only({"moved", "tilted", "gap", "waited", "lastFrame", "heard"}, s, r)
  BY AgedIs
<1>3. DOMAIN s = Fields /\ s.lastFrame \in LastFrames /\ heard = {}
  BY DEF Sound, Typed, Free
<1>4. s.lastFrame.await # Unset => await # Unset
  <2>1. s.lastFrame.await \in Nat \cup {Unset}
    BY <1>3 DEF LastFrames
  <2>2. QED
    BY <2>1 DEF Unset, AtLeast
<1> HIDE DEF moved, await, heard, r
<1>5. /\ frame.cmd = s.lastFrame.cmd /\ frame.code = s.lastFrame.code /\ frame.processed = s.lastFrame.processed
      /\ frame.repeats = s.lastFrame.repeats /\ frame.await = await
  BY <1>3 DEF LastFrames
<1> HIDE DEF frame
<1>6. r.moved = moved /\ r.lastFrame = frame /\ r.heard = {}
  BY <1>1, <1>3 DEF Fields
<1>7. r.txWaitJob = s.txWaitJob /\ r.queue = s.queue
  BY <1>2 DEF Only, Fields
<1>8. QED
  BY <1>2, <1>4, <1>5, <1>6, <1>7 DEF Free, moved, r

LEMMA MovedLift ==
  ASSUME NEW m \in Motors, m.tilt = 0, m.tiltGoal = 0
  PROVE  LET r == Moved(m)
         IN  r \in Motors /\ r.pos = m.pos + Toward(m.pos, m.goal) /\ r.goal = m.goal /\ r.my = m.my /\ r.tilt = 0 /\ r.tiltGoal = 0
<1> DEFINE pos == m.pos + Toward(m.pos, m.goal)
<1>1. Moved(m) = [m EXCEPT !.pos = pos]
  BY DEF Moved
<1>2. Moved(m) \in Motors
  BY MovedIs
<1> HIDE DEF pos
<1>3. QED
  BY <1>1, <1>2 DEF Motors, pos

\* A travel a tick longer, of a motor with a tick to go.
LEMMA OneMore ==
  ASSUME NEW from \in Positions, NEW to \in Positions, NEW moved \in Positions, NEW d \in {-1, 1},
         d * (to - from) >= 0, NEW pos, pos = from + d * AtMost(moved, d * (to - from))
  PROVE  LET later == pos + Toward(pos, to)
         IN  /\ later = from + d * AtMost(AtMost(Full, moved + 1), d * (to - from))
             /\ pos # to => Toward(pos, to) = d
             /\ pos = to => later = to
<1>1. from \in 0 .. Full /\ to \in 0 .. Full /\ moved \in 0 .. Full /\ Full \in Nat
  BY Ranges DEF Positions
<1> DEFINE far == d * (to - from)
           way(n) == AtMost(n, far)
<1>2. far \in 0 .. Full /\ to = from + d * far
  BY <1>1
<1>3. pos = from + d * way(moved)
  OBVIOUS
<1> HIDE DEF far
<1>4. CASE moved >= far
  <2>1. way(moved) = far /\ way(AtMost(Full, moved + 1)) = far
    BY <1>1, <1>2, <1>4 DEF AtMost
  <2> HIDE DEF way
  <2>2. pos = to /\ from \in Int /\ to \in Int
    BY <1>1, <1>2, <1>3, <2>1
  <2>3. pos + Toward(pos, to) = to
    BY <2>2 DEF Toward
  <2>4. QED
    BY <1>2, <2>1, <2>2, <2>3 DEF way, far
<1>5. CASE moved < far
  <2>1. way(moved) = moved /\ way(AtMost(Full, moved + 1)) = moved + 1
    BY <1>1, <1>2, <1>5 DEF AtMost
  <2> HIDE DEF way
  <2>2. pos = from + d * moved
    BY <1>3, <2>1
  <2>3. pos # to /\ Toward(pos, to) = d
    <3>1. CASE d = 1
      BY <1>1, <1>2, <1>5, <2>2, <3>1 DEF Toward
    <3>2. CASE d = -1
      BY <1>1, <1>2, <1>5, <2>2, <3>2 DEF Toward
    <3>3. QED
      BY <3>1, <3>2
  <2>4. pos + d = from + d * (moved + 1)
    BY <1>1, <2>2
  <2>5. QED
    BY <2>1, <2>3, <2>4 DEF way, far
<1>6. QED
  BY <1>1, <1>2, <1>4, <1>5

LEMMA TicksDrive ==
  ASSUME NEW s, Sound(s), Lift(s), NEW m \in Motors, LiftMotor(s, m), Drives(s, m), There(s, m), Free(s)
  PROVE  Lift(Aged(s)) /\ LiftMotor(Aged(s), Moved(m)) /\ Drives(Aged(s), Moved(m))
<1> DEFINE r == Aged(s)
           m1 == Moved(m)
<1>1. /\ Only({"moved", "tilted", "gap", "waited", "lastFrame", "heard"}, s, r) /\ Free(r)
      /\ r.moved = AtMost(Full, s.moved + 1) /\ r.lastFrame.processed = s.lastFrame.processed
  BY AgedLift
<1>2. m1 \in Motors /\ m1.pos = m.pos + Toward(m.pos, m.goal) /\ m1.goal = m.goal /\ m1.my = m.my /\ m1.tilt = 0 /\ m1.tiltGoal = 0
  BY MovedLift DEF LiftMotor
<1> HIDE DEF r, m1
<1>3. /\ r.tiltType = s.tiltType /\ r.currentTiltPos = s.currentTiltPos /\ r.tiltTarget = s.tiltTarget
      /\ r.tiltDirection = s.tiltDirection /\ r.settingTiltPos = s.settingTiltPos /\ r.simMy = s.simMy
      /\ r.currentPos = s.currentPos /\ r.target = s.target /\ r.settingPos = s.settingPos
      /\ r.settingMyPos = s.settingMyPos /\ r.myTiltPos = s.myTiltPos /\ r.myPos = s.myPos
      /\ r.pendingCmd = s.pendingCmd /\ r.direction = s.direction /\ r.startPos = s.startPos
  BY <1>1 DEF Only, Fields
<1>4. Lift(r) /\ LiftMotor(r, m1)
  BY <1>2, <1>3 DEF Lift, LiftMotor
<1>5. /\ s.currentPos = m.pos /\ Follows(s, m.pos, m.goal) /\ Favors(s, m.my)
      /\ m.pos \in Positions /\ m.goal \in Positions
  BY DEF There, Drives, GoalToBe, MyToBe, Free, Motors
<1>6. Follows(r, m1.pos, m.goal)
  <2>1. CASE s.currentPos = s.target
    <3>1. Rests(s, m.pos, m.goal)
      BY <1>5, <2>1, FollowsIs
    <3>2. m1.pos = m.pos
      BY <1>2, <1>5, <3>1, Ranges DEF Rests, Toward, Positions
    <3>3. QED
      BY <1>3, <3>1, <3>2 DEF Follows, Rests
  <2>2. CASE s.currentPos # s.target
    <3> DEFINE d == Toward(s.currentPos, s.target)
    <3>1. d \in {-1, 1} /\ Travels(s, m.pos, m.goal, d)
      BY <1>5, <2>2, FollowsIs
    <3> HIDE DEF d
    <3>2. /\ d * (s.target - s.currentPos) > 0 /\ d * (s.currentPos - s.startPos) >= 0
          /\ m.goal = (IF s.settingPos THEN LiftEnd(d) ELSE s.target)
          /\ m.pos = s.startPos + d * AtMost(s.moved, d * (m.goal - s.startPos))
      BY <3>1 DEF Travels
    <3>3. /\ s.currentPos \in 0 .. Full /\ s.target \in 0 .. Full /\ s.startPos \in 0 .. Full /\ s.moved \in Positions
          /\ s.startPos \in Positions /\ m.goal \in 0 .. Full /\ Full \in Nat
      BY <1>5, Ranges DEF Sound, Typed, Positions
    <3>4. d * (m.goal - s.target) >= 0
      <4>1. CASE s.settingPos
        BY <3>1, <3>2, <3>3, <4>1 DEF LiftEnd
      <4>2. CASE ~s.settingPos
        BY <3>1, <3>2, <3>3, <4>2
      <4>3. QED
        BY <4>1, <4>2
    <3>5. d * (m.goal - s.startPos) >= 0 /\ m.goal # s.currentPos
      BY <3>1, <3>2, <3>3, <3>4
    <3>6. /\ m1.pos = s.startPos + d * AtMost(r.moved, d * (m.goal - s.startPos))
          /\ m1.pos = s.currentPos + d
      BY <1>1, <1>2, <1>5, <3>1, <3>2, <3>3, <3>5, OneMore
    <3>7. d * (m1.pos - s.currentPos) >= 0 /\ d * (s.target - m1.pos) >= 0
      BY <3>1, <3>2, <3>3, <3>6
    <3>8. Travels(r, m1.pos, m.goal, d)
      BY <1>3, <3>2, <3>6, <3>7 DEF Travels
    <3>9. QED
      BY <3>1, <3>8 DEF Follows
  <2>3. QED
    BY <2>1, <2>2
<1>7. GoalToBe(r, m1) = m.goal /\ MyToBe(r, m1) = m.my
  BY <1>1, <1>2 DEF Free, GoalToBe, MyToBe
<1>8. Drives(r, m1)
  BY <1>1, <1>3, <1>5, <1>6, <1>7 DEF Drives, Favors
<1>9. QED
  BY <1>4, <1>8 DEF r, m1

LEMMA TicksWait ==
  ASSUME NEW s, Sound(s), Lift(s), NEW m \in Motors, LiftMotor(s, m), NEW n, Waiting(s, m, <<>>, n)
  PROVE  Lift(Aged(s)) /\ LiftMotor(Aged(s), Moved(m)) /\ Waiting(Aged(s), Moved(m), <<>>, n)
<1> DEFINE r == Aged(s)
           m1 == Moved(m)
           d == Toward(s.currentPos, m.goal)
<1>1. /\ s.lastFrame.cmd = "My" /\ ~s.lastFrame.processed /\ s.lastFrame.await # Unset /\ s.lastFrame.code = n
      /\ Calm(s) /\ IsIdle(s) /\ Free(s) /\ s.startPos = s.currentPos
      /\ m.pos = s.currentPos + d * AtMost(s.moved, d * (m.goal - s.currentPos))
  BY DEF Waiting
<1>2. /\ Only({"moved", "tilted", "gap", "waited", "lastFrame", "heard"}, s, r) /\ Free(r)
      /\ r.moved = AtMost(Full, s.moved + 1)
      /\ r.lastFrame.cmd = s.lastFrame.cmd /\ r.lastFrame.code = s.lastFrame.code
      /\ r.lastFrame.processed = s.lastFrame.processed /\ r.lastFrame.repeats = s.lastFrame.repeats
      /\ r.lastFrame.await # Unset
  BY <1>1, AgedLift
<1>3. m1.pos = m.pos + Toward(m.pos, m.goal) /\ m1.goal = m.goal /\ m1.my = m.my /\ m1.tilt = 0 /\ m1.tiltGoal = 0
  BY MovedLift DEF LiftMotor
<1> HIDE DEF r, m1, d
<1>4. /\ r.tiltType = s.tiltType /\ r.currentTiltPos = s.currentTiltPos /\ r.tiltTarget = s.tiltTarget
      /\ r.tiltDirection = s.tiltDirection /\ r.settingTiltPos = s.settingTiltPos /\ r.simMy = s.simMy
      /\ r.currentPos = s.currentPos /\ r.target = s.target /\ r.settingPos = s.settingPos
      /\ r.settingMyPos = s.settingMyPos /\ r.myTiltPos = s.myTiltPos /\ r.myPos = s.myPos
      /\ r.pendingCmd = s.pendingCmd /\ r.direction = s.direction /\ r.startPos = s.startPos
      /\ r.txWaitJob = s.txWaitJob
  BY <1>2 DEF Only, Fields
<1>5. Lift(r) /\ LiftMotor(r, m1) /\ Calm(r) /\ IsIdle(r)
  BY <1>1, <1>3, <1>4 DEF Lift, LiftMotor, Calm, IsIdle, IsAtTarget
<1>6. m1.pos = s.currentPos + d * AtMost(r.moved, d * (m.goal - s.currentPos))
  <2>1. /\ s.currentPos \in Positions /\ s.moved \in Positions /\ m.goal \in Positions /\ m.pos \in Positions
        /\ s.currentPos \in 0 .. Full /\ m.goal \in 0 .. Full /\ s.moved \in 0 .. Full /\ Full \in Nat
    BY Ranges DEF Sound, Typed, Motors, Positions
  <2>2. CASE d = 0
    <3> DEFINE way == AtMost(s.moved, 0 * (m.goal - s.currentPos))
               later == AtMost(r.moved, 0 * (m.goal - s.currentPos))
    <3>1. m.goal = s.currentPos
      BY <2>1, <2>2 DEF d, Toward
    <3>2. way \in Int /\ later \in Int
      BY <1>2, <2>1 DEF AtMost
    <3>3. m.pos = s.currentPos + 0 * way
      BY <1>1, <2>2
    <3> HIDE DEF way, later
    <3>4. m.pos = m.goal
      BY <2>1, <3>1, <3>2, <3>3
    <3>5. m1.pos = s.currentPos
      BY <1>3, <2>1, <3>1, <3>4 DEF Toward
    <3>6. m1.pos = s.currentPos + 0 * later
      BY <2>1, <3>2, <3>5
    <3>7. QED
      BY <2>2, <3>6 DEF later
  <2>3. CASE d # 0
    <3>1. d \in {-1, 1} /\ d * (m.goal - s.currentPos) >= 0
      BY <2>1, <2>3 DEF d, Toward
    <3>2. QED
      BY <1>1, <1>2, <1>3, <2>1, <3>1, OneMore
  <2>4. QED
    BY <2>2, <2>3
<1>7. Waiting(r, m1, <<>>, n)
  BY <1>1, <1>2, <1>3, <1>4, <1>5, <1>6 DEF Waiting, Favors, d
<1>8. QED
  BY <1>5, <1>7 DEF r, m1

LEMMA LiftTicks ==
  ASSUME SystemSound, LiftFollows(shade, motor, received, presses), Prompt, Tick
  PROVE  LiftFollows(shade', motor', received', presses')
<1>1. /\ Settled /\ shade' = Aged(shade) /\ motor' = Moved(motor) /\ UNCHANGED <<received, presses>>
  BY DEF Tick, bounds
<1>2. /\ Sound(shade) /\ motor \in Motors /\ received = <<>> /\ shade.queue = <<>> /\ Pass(shade, <<>>) = shade
      /\ Lift(shade) /\ LiftMotor(shade, motor) /\ shade.lastFrame.code <= presses
      /\ LiftFollows(shade, motor, <<>>, presses)
  BY <1>1 DEF SystemSound, Settled, LiftFollows
<1>3. CASE Drives(shade, motor) /\ Carries(shade, shade, motor) /\ Free(shade)
  <2>1. Lift(shade') /\ LiftMotor(shade', motor') /\ Drives(shade', motor')
    BY <1>1, <1>2, <1>3, TicksDrive DEF Carries
  <2>2. shade'.lastFrame.code = shade.lastFrame.code
    BY <1>1, <1>2, <1>3, AgedLift
  <2>3. QED
    BY <1>1, <1>2, <2>1, <2>2 DEF LiftFollows, Driving
<1>4. CASE Waiting(shade, motor, <<>>, presses)
  <2>1. Lift(shade') /\ LiftMotor(shade', motor') /\ Waiting(shade', motor', <<>>, presses)
    BY <1>1, <1>2, <1>4, TicksWait
  <2>2. shade'.lastFrame.code = shade.lastFrame.code
    BY <1>1, <1>2, <1>4, AgedLift DEF Waiting
  <2>3. QED
    BY <1>1, <1>2, <2>1, <2>2 DEF LiftFollows
<1>5. QED
  BY <1>2, <1>3, <1>4, SettledLift

\* No lift of a run is asked anything else.
LiftsAlone ==
  \A k \in Kinds : k.tiltType = "none" => k.orders \subseteq LiftOrders(k.simMy) /\ k.presses \subseteq LiftPresses(k.simMy)

\* The invariant of every lift without a tilt.
LiftExact == shade.tiltType = "none" => LiftFollows(shade, motor, received, presses)

LEMMA StartsExact == Init => LiftExact
<1> SUFFICES ASSUME Init, shade.tiltType = "none" PROVE LiftFollows(shade, motor, received, presses)
  BY DEF LiftExact
<1>1. PICK k \in Kinds, p \in {0, Full} : \E my \in k.favorites :
        shade = Resting(k.tiltType, k.simMy, IF k.tiltType = "tiltonly" THEN Full ELSE p, my, NoPos)
  BY DEF Init
<1>2. PICK my \in k.favorites :
        shade = Resting(k.tiltType, k.simMy, IF k.tiltType = "tiltonly" THEN Full ELSE p, my, NoPos)
  BY <1>1
<1>3. /\ motor = [pos |-> shade.currentPos, goal |-> shade.currentPos, tilt |-> 0, tiltGoal |-> 0,
                  my |-> IF shade.simMy THEN NoPos ELSE shade.myPos]
      /\ received = <<>> /\ presses = 0
  BY DEF Init
<1>4. /\ shade.currentTiltPos = 0 /\ shade.tiltTarget = 0 /\ shade.tiltDirection = 0 /\ shade.direction = 0
      /\ shade.settingTiltPos = FALSE /\ shade.settingMyPos = FALSE /\ shade.myTiltPos = NoPos
      /\ shade.pendingCmd = "none" /\ shade.currentPos = shade.target
      /\ shade.txWaitJob = 0 /\ shade.queue = <<>> /\ shade.heard = {}
      /\ shade.lastFrame.processed /\ shade.lastFrame.code = 0
  BY <1>2 DEF Resting
<1>5. Lift(shade) /\ Free(shade)
  BY <1>4 DEF Lift, Free
<1>6. LiftMotor(shade, motor)
  BY <1>3 DEF LiftMotor
<1>7. GoalToBe(shade, motor) = shade.currentPos /\ MyToBe(shade, motor) = (IF shade.simMy THEN NoPos ELSE shade.myPos)
  BY <1>3, <1>4 DEF GoalToBe, MyToBe
<1>8. Follows(shade, motor.pos, GoalToBe(shade, motor)) /\ Favors(shade, MyToBe(shade, motor))
  BY <1>3, <1>4, <1>7 DEF Follows, Rests, Favors
<1>9. Driving(shade, motor, received)
  BY <1>3, <1>4, <1>5, <1>8 DEF Driving, Drives
<1>10. QED
  BY <1>3, <1>4, <1>5, <1>6, <1>9 DEF LiftFollows

LEMMA StaysExact ==
  ASSUME Prompt, MaxLost = 0, LiftsAlone
  PROVE  SystemSound /\ LiftExact /\ [Next]_vars => LiftExact'
<1> SUFFICES ASSUME SystemSound, LiftExact, [Next]_vars, shade'.tiltType = "none"
             PROVE  LiftFollows(shade', motor', received', presses')
  BY DEF LiftExact
<1>1. SystemSound' /\ Kind' = Kind /\ shade'.tiltType = shade.tiltType
  BY StaysSystemSound
<1>2. /\ Kind \in Kinds /\ Kind.tiltType = shade.tiltType /\ Kind.simMy = shade.simMy
      /\ Kind.orders \subseteq Orders /\ Kind.presses \subseteq Presses
  BY KindIs DEF SystemSound
<1>3. shade.tiltType = "none"
  BY <1>1
<1>4. LiftFollows(shade, motor, received, presses)
  BY <1>3 DEF LiftExact
<1>5. Kind.orders \subseteq LiftOrders(shade.simMy) /\ Kind.presses \subseteq LiftPresses(shade.simMy)
  BY <1>2, <1>3 DEF LiftsAlone
<1>6. CASE UNCHANGED vars
  BY <1>4, <1>6 DEF vars
<1>7. ASSUME NEW o \in Kind.orders, Order(o) PROVE LiftFollows(shade', motor', received', presses')
  BY <1>4, <1>5, <1>7, LiftOrdered
<1>8. ASSUME NEW p \in Kind.presses, Press(p) PROVE LiftFollows(shade', motor', received', presses')
  BY <1>3, <1>4, <1>5, <1>8, LiftPressed
<1>9. CASE Transmit
  BY <1>3, <1>4, <1>9, LiftTransmits
<1>10. CASE LoopPass
  <2>1. /\ Sound(shade) /\ motor \in Motors /\ received \in Seq(RemoteFrames) /\ presses \in Nat
    BY DEF SystemSound
  <2>2. /\ shade' = Pass(shade, received) /\ received' = (IF received = <<>> THEN <<>> ELSE Tail(received))
        /\ UNCHANGED <<motor, presses>>
    BY <1>10 DEF LoopPass, bounds
  <2>3. LiftFollows(Pass(shade, received), motor, IF received = <<>> THEN <<>> ELSE Tail(received), presses)
    BY <1>4, <2>1, PassLift
  <2>4. QED
    BY <2>2, <2>3
<1>11. CASE Tick
  BY <1>4, <1>11, LiftTicks
<1>12. QED
  BY <1>6, <1>7, <1>8, <1>9, <1>10, <1>11 DEF Next

\* Whenever nothing is on its way, a lift that does not tilt is where the device says,
\* moving or not, and at rest the device knows the favourite it goes to on a My: the
\* orders, the remote's frames, their repeats and the time between leave them alike.
THEOREM LiftEstimatesExact ==
  ASSUME Prompt, MaxLost = 0, LiftsAlone
  PROVE  Spec => [](shade.tiltType = "none" => EstimatesExact)
<1> DEFINE IInv == SystemSound /\ LiftExact
<1>1. Init => IInv
  BY InitSound, StartsExact
<1>2. IInv /\ [Next]_vars => IInv'
  BY StaysSystemSound, StaysExact
<1>3. IInv /\ TypeOK => (shade.tiltType = "none" => EstimatesExact)
  <2> SUFFICES ASSUME SystemSound, LiftExact, TypeOK, shade.tiltType = "none" PROVE EstimatesExact
    OBVIOUS
  <2>1. LiftFollows(shade, motor, received, presses)
    BY DEF LiftExact
  <2>2. CASE ~Undisturbed
    BY <2>2 DEF EstimatesExact, Tracks, FavoriteKnown
  <2>3. CASE Undisturbed
    <3>1. Poised(shade, motor)
      BY <2>1, <2>3, UndisturbedLift
    <3>2. /\ shade.currentPos = motor.pos /\ shade.currentTiltPos = 0 /\ motor.tilt = 0
          /\ Favors(shade, motor.my)
      BY <3>1 DEF Poised, Placed, Lift, LiftMotor
    <3>3. QED
      BY <3>2 DEF EstimatesExact, Tracks, FavoriteKnown, Favors
  <2>4. QED
    BY <2>2, <2>3
<1>4. QED
  BY <1>1, <1>2, <1>3, TypesCorrect, PTL DEF Spec

=============================================================================
