-------------------------- MODULE RadioQueueProofs --------------------------
(***************************************************************************)
(* RadioQueue proved for any remotes, table size, delays and bounds: its   *)
(* invariants, the gap between two orders of a remote, and that it         *)
(* implements OrderService.                                                *)
(*                                                                         *)
(* Every step but those of the task and of time either adds one job or     *)
(* leaves the table and the task alone (StepKinds), and no step changes    *)
(* the order a job stands for (KeptJobs); each invariant is then a matter  *)
(* of the few steps that touch what it is about.                           *)
(***************************************************************************)
EXTENDS RadioQueue, TLAPS

-----------------------------------------------------------------------------
(* What the steps do to the table.                                         *)

\* Every order a handler queues (queueCommand(), queueContinuation(), queueRaw()) fits a job.
LEMMA OrdersAreJobs ==
  ASSUME NEW o \in Orders
  PROVE  /\ o.kind \in {"command", "raw"} /\ o.remote \in Remotes \cup {NoRemote}
         /\ o.repeats \in Repeats \cup {0} /\ o.urgent \in BOOLEAN /\ o.gap \in BOOLEAN
         /\ o.kind = "command" => o.remote \in Remotes
         /\ o.kind = "raw" => ~o.gap /\ ~o.urgent
<1>1. CASE o \in Commands
  BY <1>1 DEF Commands
<1>2. CASE o \in Continuations
  BY <1>2 DEF Continuations
<1>3. CASE o = Relay
  BY <1>3 DEF Relay
<1>4. QED
  BY <1>1, <1>2, <1>3 DEF Orders

\* The radio starts with an empty table and well-typed variables (Transceiver::begin()).
LEMMA TypeInit == Init => TypeOK
<1> SUFFICES ASSUME Init PROVE TypeOK
  OBVIOUS
<1>1. Used = {} /\ jobs \in [Used -> Jobs]
  BY DEF Init, Used
<1>2. order \in Orders
  BY DEF Init, Orders
<1>3. /\ SameRemoteGap \in Nat
      /\ MaxDisturb \in Nat
  BY RadioAssumption DEF RadioAssumption
<1>4. /\ sinceFirst \in [Remotes -> 0 .. SameRemoteGap] /\ firstAge \in 0 .. SameRemoteGap
      /\ quiet \in [Remotes -> 0 .. SameRemoteGap] /\ disturb \in Nat
  BY <1>3 DEF Init
<1>5. /\ nextId \in Nat \ {0} /\ Used \subseteq 1 .. (nextId - 1) /\ events \subseteq 1 .. (nextId - 1)
      /\ cur \in Nat /\ train \in Nat /\ busy \in {0, 1, 2} /\ rxmode \in {0,1,3}
  BY <1>1 DEF Init, NoJob
<1>. QED
  BY <1>1, <1>2, <1>4, <1>5 DEF Init, TypeOK, OnAir

\* enqueueJob() keeps the table a table of jobs, with one id more.
LEMMA QueuedType ==
  ASSUME TypeOK, NEW o \in Orders
  PROVE  /\ Queued(o) \in [Used \cup {nextId} -> Jobs]
         /\ DOMAIN Queued(o) = Used \cup {nextId}
         /\ Used \cup {nextId} \subseteq 1 .. ((nextId + 1) - 1)
<1> DEFINE hold == IF o.kind = "raw" THEN RelayDelay ELSE 0
           job == [kind |-> o.kind, remote |-> o.remote, repeats |-> o.repeats,
       urgent |-> o.urgent, gap |-> o.gap, cancelRepeats |-> FALSE,
       hold |-> hold, lbt |-> NoLbt]
           superseded(i) == o.kind = "command" /\ jobs[i].kind = "command" /\ jobs[i].remote = o.remote
           old(i) == IF superseded(i) THEN [jobs[i] EXCEPT !.cancelRepeats = TRUE] ELSE jobs[i]
<1>1. hold \in 0 .. RelayDelay /\ NoLbt \in 0 .. NoLbt
  BY RadioAssumption DEF RadioAssumption, NoLbt
<1>2. job \in Jobs
  BY <1>1, OrdersAreJobs DEF Jobs
<1>3. ASSUME NEW i \in Used
      PROVE  old(i) \in Jobs
  BY <1>3 DEF TypeOK, Jobs
<1>5. Queued(o) = [i \in Used \cup {nextId} |-> IF i = nextId THEN job ELSE old(i)]
  BY DEF Queued
<1>6. Used \cup {nextId} \subseteq 1 .. ((nextId + 1) - 1)
  BY DEF TypeOK
<1> HIDE DEF job, old
<1>7. Queued(o) \in [Used \cup {nextId} -> Jobs]
  BY <1>2, <1>3, <1>5
<1>4. QED
  BY <1>7, <1>6

\* Only a command has a gap, and a command has a remote.
JobsWellFormed ==
  \A i \in Used : /\ jobs[i].kind = "command" => jobs[i].remote \in Remotes
                  /\ jobs[i].gap => jobs[i].kind = "command"

\* Repeats follow a command's first frame; a repeated frame has none.
TrainKind ==
  /\ pc = "train" => jobs[cur].kind = "command"
  /\ pc = "end" => jobs[cur].kind = "raw"

\* The task has picked a job and nothing of it is on the air.
Chosen == pc \in {"listen", "commit", "acquire", "first"}

\* No older job of its remote waits behind the job the task is on.
ChosenIsOldest == Chosen /\ jobs[cur].kind = "command" => ~OlderJobPending(cur)

\* A frame of the remote went out and the gap is not noted yet.
OnAirRemote(r) == pc \in {"train", "complete"} /\ jobs[cur].kind = "command" /\ jobs[cur].remote = r

\* The age the task works with never exceeds the remote's silence on the air.
GapInv ==
  /\ \A r \in Remotes : IF OnAirRemote(r) THEN firstAge <= quiet[r] ELSE sinceFirst[r] <= quiet[r]
  /\ Chosen /\ jobs[cur].gap => quiet[jobs[cur].remote] >= SameRemoteGap

\* Every step of the handlers, the loop and the task keeps the variables well typed.
LEMMA TypeNext == TypeOK /\ PickedJobStays /\ JobsWellFormed /\ [Next]_vars => TypeOK'
<1> SUFFICES ASSUME TypeOK, PickedJobStays, JobsWellFormed, [Next]_vars PROVE TypeOK'
  OBVIOUS
<1> USE DEF TypeOK, Used, OnAir, control, table, task, clock, caller
<1>c. SameRemoteGap \in Nat \ {0} /\ RelayDelay \in Nat /\ LbtRx \in Nat /\ Repeats \subseteq Nat
  BY RadioAssumption DEF RadioAssumption
<1>1. CASE RadioCheck
  BY <1>1, ZenonT(40) DEF RadioCheck
<1>2. CASE RadioDropAll
  <2>1. Used' = {} /\ jobs' \in [Used' -> Jobs]
    BY <1>2 DEF RadioDropAll
  <2>2. events' \subseteq 1 .. (nextId - 1)
    BY <1>2 DEF RadioDropAll, Post
  <2>3. QED
    BY <1>2, <2>1, <2>2 DEF RadioDropAll
<1>3. CASE RadioPick
  BY <1>3 DEF RadioPick, Eligible
<1>4. CASE RadioListen
  BY <1>4 DEF RadioListen
<1>5. CASE RadioDefer
  <2>1. LbtCap(cur) <= LbtRx /\ NoLbt = LbtRx + 1
    BY RadioAssumption DEF RadioAssumption, LbtCap, NoLbt
  <2>2. PICK l \in 0 .. NoLbt : jobs' = [jobs EXCEPT ![cur].lbt = l]
    <3>1. cur \in Used
      BY <1>5 DEF RadioDefer, PickedJobStays
    <3> DEFINE l == IF jobs[cur].lbt = NoLbt THEN 0 ELSE jobs[cur].lbt
    <3>2. jobs[cur].lbt \in 0 .. NoLbt
      BY <3>1 DEF Jobs
    <3>3. l \in 0 .. NoLbt /\ jobs' = [jobs EXCEPT ![cur].lbt = l]
      BY <1>5, <3>2, <2>1 DEF RadioDefer
    <3>4. QED
      BY <3>3
  <2>3. cur \in Used
    BY <1>5 DEF RadioDefer, PickedJobStays
  <2>4. [jobs[cur] EXCEPT !.lbt = l] \in Jobs
    BY <2>3 DEF Jobs
  <2>5. jobs' \in [Used -> Jobs] /\ Used' = Used
    BY <2>2, <2>3, <2>4
  <2>6. QED
    BY <1>5, <2>5 DEF RadioDefer
<1>6. CASE RadioCommit
  <2>1. jobs[cur] \in Jobs
    BY <1>6 DEF RadioCommit, PickedJobStays
  <2>2. jobs[cur].repeats \in Nat
    BY <2>1, <1>c DEF Jobs
  <2>3. QED
    BY <1>6, <2>2 DEF RadioCommit
<1>7. CASE RadioBegin
  BY <1>7 DEF RadioBegin
<1>8. CASE RadioFirst
  <2>1. CASE jobs[cur].kind = "raw"
    BY <1>8, <2>1 DEF RadioFirst
  <2>2. CASE jobs[cur].kind # "raw"
    <3>1. cur \in Used /\ jobs[cur].remote \in Remotes
      BY <1>8, <2>2 DEF RadioFirst, PickedJobStays, InFlight, JobsWellFormed, Jobs
    <3>5. Post({cur})
      BY <1>8, <2>2 DEF RadioFirst
    <3>2. events' \subseteq 1 .. (nextId - 1)
      BY <3>1, <3>5 DEF Post
    <3>3. firstAge' \in 0 .. SameRemoteGap /\ quiet' \in [Remotes -> 0 .. SameRemoteGap]
      BY <1>8, <2>2, <3>1, <1>c DEF RadioFirst
    <3>4. QED
      BY <1>8, <2>2, <3>2, <3>3 DEF RadioFirst
  <2>3. QED
    BY <2>1, <2>2
<1>9. CASE RadioRepeat
  BY <1>9 DEF RadioRepeat
<1>10. CASE RadioEnd
  BY <1>10 DEF RadioEnd
<1>11. CASE RadioComplete
  <2>1. jobs' \in [Used \ {cur} -> Jobs] /\ Used' = Used \ {cur}
    BY <1>11 DEF RadioComplete
  <2>2. sinceFirst' \in [Remotes -> 0 .. SameRemoteGap]
    BY <1>11 DEF RadioComplete, Jobs
  <2>3. overBudget' \in BOOLEAN
    BY <1>11, Zenon DEF RadioComplete
  <2>4. disturb' \in Nat
    BY <1>11 DEF RadioComplete, Disturb
  <2>5. QED
    BY <1>11, <2>1, <2>2, <2>3, <2>4 DEF RadioComplete, NoJob
<1>12. ASSUME NEW o \in Orders, Enqueue(o) PROVE TypeOK'
  <2>1. /\ rxmode' \in {0, 1, 3} /\ tuned' \in {"config", "scan"}
    BY <1>12 DEF Enqueue, EndScan, Apply
  <2>2. scanning' \in BOOLEAN
    BY <1>12, Zenon DEF Enqueue, EndScan, Apply
  <2>3. CASE HasSlot
    <3>1. jobs' = Queued(o) /\ nextId' = nextId + 1 /\ events' = events /\ caller' = caller
      BY <1>12, <2>3 DEF Enqueue
    <3>2. Used' \subseteq 1 .. (nextId' - 1) /\ jobs' \in [Used' -> Jobs]
      BY <3>1, QueuedType
    <3>3. QED
      BY <1>12, <2>1, <2>2, <3>1, <3>2 DEF Enqueue
  <2>4. CASE ~HasSlot
    <3>1. handler' = "full" /\ order' = o /\ UNCHANGED table
      BY <1>12, <2>4 DEF Enqueue
    <3>2. QED
      BY <1>12, <2>1, <2>2, <3>1 DEF Enqueue
  <2>5. QED
    BY <2>3, <2>4
<1>13. CASE RetryEnqueue
  BY <1>13, QueuedType DEF RetryEnqueue
<1>14. CASE DropOrder
  BY <1>14 DEF DropOrder
<1>15. CASE BeginFrequencyScan
  BY <1>15 DEF BeginFrequencyScan, Disturb
<1>16. CASE EndFrequencyScan
  BY <1>16 DEF EndFrequencyScan, EndScan, Apply
<1>17. CASE SaveRadio
  BY <1>17 DEF SaveRadio, Disturb
<1>18. CASE ApplyRadio
  BY <1>18 DEF ApplyRadio, Apply
<1>19. CASE BeginFlash
  BY <1>19 DEF BeginFlash, Disturb
<1>20. CASE SuspendRadio
  BY <1>20 DEF SuspendRadio
<1>21. CASE FailFlash
  BY <1>21 DEF FailFlash
<1>22. CASE LoopAbortScan
  <2>1. /\ rxmode' \in {0, 1, 3} /\ tuned' \in {"config", "scan"}
    BY <1>22 DEF LoopAbortScan, EndScan, Apply
  <2>2. scanning' \in BOOLEAN /\ scanAbort' \in BOOLEAN
    BY <1>22, Zenon DEF LoopAbortScan, EndScan, Apply
  <2>3. QED
    BY <1>22, <2>1, <2>2 DEF LoopAbortScan
<1>23. CASE PopTxEvent
  BY <1>23 DEF PopTxEvent
<1>24. CASE Tick
  <2>2. ASSUME NEW i \in Used PROVE jobs'[i] \in Jobs
    <3>1. jobs[i].hold \in 0 .. RelayDelay /\ jobs[i].lbt \in 0 .. NoLbt
      BY DEF Jobs
    <3>2. jobs[i].lbt # NoLbt => Older(jobs[i].lbt, LbtRx) \in 0 .. NoLbt
      BY <3>1, <1>c DEF Older, NoLbt
    <3> DEFINE h == IF jobs[i].hold > 0 THEN jobs[i].hold - 1 ELSE 0
               l == IF jobs[i].lbt = NoLbt THEN jobs[i].lbt ELSE Older(jobs[i].lbt, LbtRx)
    <3>3. h \in 0 .. RelayDelay /\ l \in 0 .. NoLbt
      BY <3>1, <3>2, <1>c
    <3>4. jobs'[i] = [jobs[i] EXCEPT !.hold = h, !.lbt = l]
      BY <1>24, <2>2 DEF Tick
    <3> HIDE DEF h, l
    <3>5. QED
      BY <2>2, <3>3, <3>4, ZenonT(40) DEF Jobs
  <2>3. jobs' \in [Used -> Jobs] /\ Used' = Used
    BY <1>24, <2>2 DEF Tick
  <2>4. ASSUME NEW age \in 0 .. SameRemoteGap PROVE Older(age, SameRemoteGap) \in 0 .. SameRemoteGap
    BY <1>c DEF Older
  <2>5. sinceFirst' \in [Remotes -> 0 .. SameRemoteGap]
    BY <1>24, <2>4 DEF Tick
  <2>6. quiet' \in [Remotes -> 0 .. SameRemoteGap]
    BY <1>24, <2>4 DEF Tick
  <2>7. firstAge' \in 0 .. SameRemoteGap
    BY <1>24, <2>4 DEF Tick
  <2>8. UNCHANGED <<control, nextId, events, task, overBudget, caller, disturb>>
    BY <1>24 DEF Tick
  <2>9. QED
    BY <2>3, <2>5, <2>6, <2>7, <2>8
<1>25. CASE AirtimeExpires
  <2>1. overBudget' \in BOOLEAN
    BY <1>25, Zenon DEF AirtimeExpires
  <2>2. QED
    BY <1>25, <2>1 DEF AirtimeExpires
<1>26. CASE UNCHANGED vars
  BY <1>26 DEF vars
<1>27. QED
  BY <1>1, <1>2, <1>3, <1>4, <1>5, <1>6, <1>7, <1>8, <1>9, <1>10, <1>11, <1>12, <1>13, <1>14,
     <1>15, <1>16, <1>17, <1>18, <1>19, <1>20, <1>21, <1>22, <1>23, <1>24, <1>25, <1>26
     DEF Next, RadioTask, Handler, Loop

\* Job i stands for the same order after the step.
SameOrder(i) == /\ jobs'[i].kind = jobs[i].kind /\ jobs'[i].remote = jobs[i].remote
                /\ jobs'[i].gap = jobs[i].gap

\* A step that queues o and nothing else.
Added(o) ==
  /\ Used' = Used \cup {nextId} /\ nextId \notin Used /\ nextId \in Nat
  /\ \A i \in Used : SameOrder(i) /\ i < nextId
  /\ jobs'[nextId].kind = o.kind /\ jobs'[nextId].remote = o.remote /\ jobs'[nextId].gap = o.gap
  /\ nextId' = nextId + 1 /\ UNCHANGED <<events, task, clock>>

\* enqueueJob() adds one job, the youngest, and touches no order already there.
LEMMA QueuedAdds ==
  ASSUME TypeOK, NEW o \in Orders, jobs' = Queued(o), nextId' = nextId + 1, UNCHANGED <<events, task, clock>>
  PROVE  Added(o)
<1>1. nextId \notin Used /\ nextId \in Nat /\ \A i \in Used : i < nextId
  BY DEF TypeOK
<1>2. Used' = Used \cup {nextId}
  BY QueuedType DEF Used
<1>3. ASSUME NEW i \in Used PROVE SameOrder(i)
  <2>1. jobs[i] \in Jobs
    BY DEF TypeOK
  <2>2. jobs'[i] \in {jobs[i], [jobs[i] EXCEPT !.cancelRepeats = TRUE]}
    BY <1>1 DEF Queued
  <2>3. QED
    BY <2>1, <2>2 DEF SameOrder, Jobs
<1>4. jobs'[nextId].kind = o.kind /\ jobs'[nextId].remote = o.remote /\ jobs'[nextId].gap = o.gap
  BY DEF Queued
<1>5. QED
  BY <1>1, <1>2, <1>3, <1>4 DEF Added

\* A step that leaves the jobs and the task alone, and posts no event.
Aside == UNCHANGED <<jobs, nextId, task, clock>> /\ events' \subseteq events

\* A step is the task's, a tick, one more job, or none of the queue's business.
LEMMA StepKinds ==
  ASSUME TypeOK, [Next]_vars
  PROVE  RadioTask \/ Tick \/ Aside \/ \E o \in Orders : Added(o)
<1> USE DEF table, task, clock
<1>1. ASSUME NEW o \in Orders, Enqueue(o) PROVE Aside \/ Added(o)
  <2>1. CASE HasSlot
    BY <1>1, <2>1, QueuedAdds DEF Enqueue
  <2>2. CASE ~HasSlot
    BY <1>1, <2>2 DEF Enqueue, Aside
  <2>3. QED
    BY <2>1, <2>2
<1>2. CASE RetryEnqueue
  <2>1. order \in Orders
    BY DEF TypeOK
  <2>2. Added(order)
    BY <1>2, <2>1, QueuedAdds DEF RetryEnqueue
  <2>3. QED
    BY <2>1, <2>2
<1>3. CASE \/ DropOrder \/ BeginFrequencyScan \/ EndFrequencyScan \/ SaveRadio \/ ApplyRadio
           \/ BeginFlash \/ SuspendRadio \/ FailFlash \/ LoopAbortScan \/ PopTxEvent
           \/ AirtimeExpires \/ UNCHANGED vars
  BY <1>3 DEF Aside, DropOrder, BeginFrequencyScan, EndFrequencyScan, SaveRadio, ApplyRadio,
              BeginFlash, SuspendRadio, FailFlash, LoopAbortScan, PopTxEvent, AirtimeExpires, vars
<1>4. QED
  BY <1>1, <1>2, <1>3 DEF Next, Handler, Loop

\* Apart from enqueueJob(), jobs only leave the table, and radioStep() alone removes them.
LEMMA KeptJobs ==
  ASSUME TypeOK, PickedJobStays, RadioTask \/ Tick \/ Aside
  PROVE  /\ \/ RadioComplete /\ Used' = Used \ {cur}
            \/ RadioDropAll /\ Used' = {}
            \/ Used' = Used
         /\ Used' \subseteq Used /\ \A i \in Used' : SameOrder(i)
         /\ nextId' = nextId
<1> USE DEF Used, table, control, task, clock
<1>1. CASE RadioComplete
  BY <1>1 DEF RadioComplete, SameOrder
<1>2. CASE RadioDropAll
  BY <1>2 DEF RadioDropAll
<1>3. CASE RadioDefer
  <2>1. cur \in Used
    BY <1>3 DEF RadioDefer, PickedJobStays
  <2>2. \E l : jobs' = [jobs EXCEPT ![cur].lbt = l]
    BY <1>3 DEF RadioDefer
  <2>3. jobs \in [Used -> Jobs]
    BY DEF TypeOK
  <2>4. Used' = Used /\ \A i \in Used : SameOrder(i)
    BY <2>1, <2>2, <2>3 DEF SameOrder, Jobs
  <2>5. QED
    BY <1>3, <2>4 DEF RadioDefer
<1>4. CASE Tick
  <2>1. jobs \in [Used -> Jobs]
    BY DEF TypeOK
  <2>2. ASSUME NEW i \in Used PROVE SameOrder(i)
    <3>1. PICK h, l : jobs'[i] = [jobs[i] EXCEPT !.hold = h, !.lbt = l]
      BY <1>4 DEF Tick
    <3>2. jobs[i] \in Jobs
      BY <2>1
    <3>3. QED
      BY <3>1, <3>2 DEF SameOrder, Jobs
  <2>3. Used' = Used /\ nextId' = nextId
    BY <1>4 DEF Tick
  <2>4. QED
    BY <2>2, <2>3
<1>5. CASE Aside
  BY <1>5 DEF SameOrder, Aside
<1>6. CASE \/ RadioCheck \/ RadioPick \/ RadioListen \/ RadioCommit \/ RadioBegin \/ RadioFirst
           \/ RadioRepeat \/ RadioEnd
  <2>1. jobs' = jobs /\ nextId' = nextId
    BY <1>6 DEF RadioCheck, RadioPick, RadioListen, RadioCommit, RadioBegin, RadioFirst, RadioRepeat, RadioEnd
  <2>2. QED
    BY <2>1 DEF SameOrder
<1>7. QED
  BY <1>1, <1>2, <1>3, <1>4, <1>5, <1>6 DEF RadioTask

\* No step takes the picked job away from the task (radioStep()).
LEMMA PickedNext == TypeOK /\ PickedJobStays /\ [Next]_vars => PickedJobStays'
<1> SUFFICES ASSUME TypeOK, PickedJobStays, [Next]_vars PROVE PickedJobStays'
  OBVIOUS
<1> USE DEF PickedJobStays, InFlight, OnAir
<1>1. CASE RadioPick
  BY <1>1 DEF RadioPick, Eligible, Used, table
<1>2. CASE RadioDropAll \/ RadioComplete
  BY <1>2 DEF RadioDropAll, RadioComplete
<1>3. CASE Used' = Used /\ RadioTask /\ ~RadioPick
  BY <1>3 DEF RadioTask, RadioCheck, RadioDropAll, RadioListen, RadioDefer, RadioCommit, RadioBegin,
              RadioFirst, RadioRepeat, RadioEnd, RadioComplete
<1>4. CASE (Tick \/ Aside) /\ Used' = Used
  BY <1>4 DEF Tick, Aside, task
<1>5. CASE \E o \in Orders : Added(o)
  BY <1>5 DEF Added, task
<1>6. QED
  BY <1>1, <1>2, <1>3, <1>4, <1>5, StepKinds, KeptJobs

\* Every step keeps the jobs those of orders (enqueueJob()).
LEMMA JobsNext == TypeOK /\ PickedJobStays /\ JobsWellFormed /\ [Next]_vars => JobsWellFormed'
<1> SUFFICES ASSUME TypeOK, PickedJobStays, JobsWellFormed, [Next]_vars PROVE JobsWellFormed'
  OBVIOUS
<1>1. ASSUME NEW o \in Orders, Added(o) PROVE JobsWellFormed'
  BY <1>1, OrdersAreJobs DEF Added, JobsWellFormed, SameOrder
<1>2. CASE Used' \subseteq Used /\ \A i \in Used' : SameOrder(i)
  BY <1>2 DEF JobsWellFormed, SameOrder
<1>3. QED
  BY <1>1, <1>2, StepKinds, KeptJobs

\* Every step keeps the queued events about orders gone from the table, or on the air.
LEMMA HeardNext ==
  TypeOK /\ PickedJobStays /\ TrainKind /\ HeardBeforeReported /\ [Next]_vars => HeardBeforeReported'
<1> SUFFICES ASSUME TypeOK, PickedJobStays, TrainKind, HeardBeforeReported, [Next]_vars
             PROVE  HeardBeforeReported'
  OBVIOUS
<1> USE DEF HeardBeforeReported, table, task
<1>1. CASE \E o \in Orders : Added(o)
  BY <1>1 DEF Added, TypeOK
<1>2. CASE RadioComplete /\ Used' = Used \ {cur}
  BY <1>2 DEF RadioComplete
<1>3. CASE Used' = {}
  BY <1>3
<1>4. CASE RadioFirst /\ Used' = Used
  <2>1. events' \subseteq events \cup {cur} /\ cur' = cur /\ (pc' = "train" \/ events' = events)
    BY <1>4 DEF RadioFirst, Post
  <2>2. pc = "first"
    BY <1>4 DEF RadioFirst
  <2>3. QED
    BY <1>4, <2>1, <2>2
<1>5. CASE Used' = Used /\ RadioTask /\ ~RadioFirst /\ ~RadioDropAll /\ ~RadioComplete
  <2>1. events' = events
    BY <1>5 DEF RadioTask, RadioCheck, RadioPick, RadioListen, RadioDefer, RadioCommit, RadioBegin,
                RadioRepeat, RadioEnd
  <2>2. pc \in {"train", "complete"} => cur' = cur /\ pc' \in {"train", "complete"}
    BY <1>5 DEF RadioTask, RadioCheck, RadioPick, RadioListen, RadioDefer, RadioCommit, RadioBegin,
                RadioRepeat, RadioEnd
  <2>3. QED
    BY <1>5, <2>1, <2>2
<1>6. CASE (Tick \/ Aside) /\ Used' = Used
  <2>1. UNCHANGED <<pc, cur>> /\ events' \subseteq events
    BY <1>6 DEF Tick, Aside
  <2>2. QED
    BY <1>6, <2>1
<1>7. CASE RadioDropAll
  BY <1>7 DEF RadioDropAll, Used
<1>8. CASE RadioComplete
  BY <1>8 DEF RadioComplete, Used
<1>9. QED
  BY <1>1, <1>2, <1>3, <1>4, <1>5, <1>6, <1>7, <1>8, StepKinds, KeptJobs

\* Every step keeps trains for commands and single frames for repeated ones (radioStep()).
LEMMA TrainNext == TypeOK /\ PickedJobStays /\ TrainKind /\ [Next]_vars => TrainKind'
<1> SUFFICES ASSUME TypeOK, PickedJobStays, TrainKind, [Next]_vars PROVE TrainKind'
  OBVIOUS
<1> USE DEF TrainKind
<1>1. CASE RadioFirst
  <2>1. cur \in Used /\ jobs[cur] \in Jobs
    BY <1>1 DEF RadioFirst, TypeOK, PickedJobStays, InFlight, OnAir
  <2>2. QED
    BY <1>1, <2>1 DEF RadioFirst, Jobs
<1>2. CASE RadioTask /\ ~RadioFirst /\ ~RadioRepeat
  BY <1>2 DEF RadioTask, RadioCheck, RadioDropAll, RadioPick, RadioListen, RadioDefer, RadioCommit,
              RadioBegin, RadioEnd, RadioComplete
<1>3. CASE RadioRepeat
  BY <1>3 DEF RadioRepeat, table
<1>4. CASE UNCHANGED <<pc, cur>> /\ \A i \in Used : SameOrder(i)
  BY <1>4 DEF SameOrder, PickedJobStays, InFlight, OnAir
<1>5. CASE \E o \in Orders : Added(o)
  BY <1>4, <1>5 DEF Added, task
<1>6. CASE Tick \/ Aside
  <2>1. Used' = Used
    BY <1>6 DEF Tick, Aside, Used
  <2>2. QED
    BY <1>4, <1>6, <2>1, KeptJobs DEF Tick, Aside, task
<1>7. QED
  BY <1>1, <1>2, <1>3, <1>5, <1>6, StepKinds

\* The picked job stays the oldest of its remote while handlers add jobs (olderJobPending()).
LEMMA OldestNext == TypeOK /\ PickedJobStays /\ ChosenIsOldest /\ [Next]_vars => ChosenIsOldest'
<1> SUFFICES ASSUME TypeOK, PickedJobStays, ChosenIsOldest, [Next]_vars PROVE ChosenIsOldest'
  OBVIOUS
<1> USE DEF ChosenIsOldest, Chosen, OlderJobPending
<1>1. CASE RadioPick
  BY <1>1 DEF RadioPick, Eligible, table, Used
<1>2. CASE RadioTask /\ ~RadioPick
  <2>1. Chosen' => Chosen /\ cur' = cur
    BY <1>2 DEF RadioTask, RadioCheck, RadioDropAll, RadioListen, RadioDefer, RadioCommit,
              RadioBegin, RadioFirst, RadioRepeat, RadioEnd, RadioComplete
  <2>2. QED
    BY <1>2, <2>1, KeptJobs DEF SameOrder, PickedJobStays, InFlight, OnAir, RadioComplete, RadioDropAll
<1>3. CASE Tick \/ Aside
  <2>1. Used' = Used
    BY <1>3 DEF Tick, Aside, Used
  <2>2. QED
    BY <1>3, <2>1, KeptJobs, ZenonT(40) DEF Tick, Aside, task, SameOrder, PickedJobStays, InFlight, OnAir
<1>4. CASE \E o \in Orders : Added(o)
  <2>1. cur \in Used => cur < nextId
    BY <1>4 DEF Added
  <2>2. ASSUME Chosen PROVE cur \in Used /\ cur \in Nat /\ nextId \in Nat
    BY <2>2 DEF PickedJobStays, InFlight, OnAir, TypeOK
  <2>3. QED
    BY <1>4, <2>1, <2>2 DEF Added, SameOrder, task
<1>5. QED
  BY <1>1, <1>2, <1>3, <1>4, StepKinds

\* Every step keeps what the table of gaps knows no younger than what was on the air.
LEMMA GapNext ==
  TypeOK /\ PickedJobStays /\ JobsWellFormed /\ TrainKind /\ GapInv /\ [Next]_vars => GapInv'
<1> SUFFICES ASSUME TypeOK, PickedJobStays, JobsWellFormed, TrainKind, GapInv, [Next]_vars PROVE GapInv'
  OBVIOUS
<1> DEFINE Part1 == \A r \in Remotes : IF OnAirRemote(r) THEN firstAge <= quiet[r] ELSE sinceFirst[r] <= quiet[r]
           Part2 == Chosen /\ jobs[cur].gap => quiet[jobs[cur].remote] >= SameRemoteGap
<1>a. SameRemoteGap \in Nat
  BY RadioAssumption DEF RadioAssumption
<1>b. cur \in Used \/ ~(Chosen \/ pc \in {"train", "complete"})
  BY DEF PickedJobStays, InFlight, OnAir, Chosen
<1>1. CASE Tick
  <2>1. ASSUME NEW a \in 0 .. SameRemoteGap, NEW b \in 0 .. SameRemoteGap, a <= b
        PROVE  Older(a, SameRemoteGap) <= Older(b, SameRemoteGap)
    BY <1>a, <2>1 DEF Older
  <2>2. UNCHANGED <<pc, cur>> /\ Used' = Used
    BY <1>1 DEF Tick, task, Used
  <2>3. \A r \in Remotes : OnAirRemote(r)' <=> OnAirRemote(r)
    BY <1>1, <1>b, <2>2, KeptJobs DEF OnAirRemote, SameOrder
  <2>4. /\ \A r \in Remotes : /\ quiet'[r] = Older(quiet[r], SameRemoteGap)
                             /\ sinceFirst'[r] = Older(sinceFirst[r], SameRemoteGap)
        /\ firstAge' = Older(firstAge, SameRemoteGap)
    BY <1>1 DEF Tick
  <2>5. Part1'
    BY <2>1, <2>3, <2>4 DEF GapInv, TypeOK
  <2>6. Part2'
    <3>1. SUFFICES ASSUME Chosen', jobs'[cur'].gap PROVE quiet'[jobs'[cur'].remote] >= SameRemoteGap
      OBVIOUS
    <3>2. cur' = cur /\ cur \in Used /\ Chosen /\ jobs[cur].gap /\ jobs'[cur].remote = jobs[cur].remote
      BY <1>1, <1>b, <2>2, <3>1, KeptJobs DEF Chosen, SameOrder
    <3>3. jobs[cur].remote \in Remotes
      BY <3>2 DEF JobsWellFormed
    <3>4. quiet[jobs[cur].remote] \in 0 .. SameRemoteGap /\ quiet[jobs[cur].remote] >= SameRemoteGap
      BY <3>2, <3>3 DEF TypeOK, GapInv
    <3>5. Older(quiet[jobs[cur].remote], SameRemoteGap) >= SameRemoteGap
      BY <3>4, <1>a DEF Older
    <3>6. QED
      BY <3>2, <3>3, <3>5, <2>4
  <2>7. QED
    BY <2>5, <2>6 DEF GapInv
<1>2. CASE RadioPick
  <2>1. UNCHANGED <<jobs, sinceFirst, firstAge, quiet>>
    BY <1>2 DEF RadioPick, table, clock
  <2>2. \A r \in Remotes : ~OnAirRemote(r) /\ ~OnAirRemote(r)'
    BY <1>2 DEF RadioPick, OnAirRemote
  <2>3. ASSUME Chosen', jobs'[cur'].gap PROVE quiet'[jobs'[cur'].remote] >= SameRemoteGap
    <3>1. cur' \in Eligible
      BY <1>2, <2>3 DEF RadioPick, Chosen
    <3>2. jobs[cur'].kind = "command" /\ jobs[cur'].remote \in Remotes /\ RemoteGapElapsed(cur')
      BY <2>1, <2>3, <3>1 DEF Eligible, JobsWellFormed, Used
    <3>3. sinceFirst[jobs[cur'].remote] >= SameRemoteGap
      BY <2>1, <2>3, <3>2 DEF RemoteGapElapsed
    <3>4. sinceFirst[jobs[cur'].remote] <= quiet[jobs[cur'].remote]
      BY <2>2, <3>2 DEF GapInv
    <3>5. QED
      BY <1>a, <2>1, <3>2, <3>3, <3>4 DEF TypeOK
  <2>4. QED
    BY <2>1, <2>2, <2>3 DEF GapInv
<1>3. CASE RadioFirst
  <2>1. jobs' = jobs /\ cur' = cur /\ sinceFirst' = sinceFirst /\ cur \in Used /\ ~Chosen'
    BY <1>3, <1>b DEF RadioFirst, Chosen, clock
  <2>2. \A r \in Remotes : ~OnAirRemote(r)
    BY <1>3 DEF RadioFirst, OnAirRemote
  <2>3. CASE jobs[cur].kind = "raw"
    <3>1. \A r \in Remotes : ~OnAirRemote(r)'
      BY <1>3, <2>1, <2>3 DEF RadioFirst, OnAirRemote
    <3>2. UNCHANGED clock
      BY <1>3, <2>3 DEF RadioFirst
    <3>3. QED
      BY <2>1, <2>2, <3>1, <3>2 DEF GapInv, clock
  <2>4. CASE jobs[cur].kind # "raw"
    <3>1. jobs[cur].kind = "command" /\ jobs[cur].remote \in Remotes /\ pc' = "train"
      BY <1>3, <2>1, <2>4 DEF RadioFirst, TypeOK, Jobs, JobsWellFormed
    <3>2. firstAge' <= quiet'[jobs[cur].remote]
      BY <1>3, <1>a, <2>4, <3>1 DEF RadioFirst, TypeOK
    <3>3. \A r \in Remotes : r # jobs[cur].remote => quiet'[r] = quiet[r]
      BY <1>3, <2>4, <3>1 DEF RadioFirst, TypeOK
    <3>4. \A r \in Remotes : OnAirRemote(r)' <=> r = jobs[cur].remote
      BY <2>1, <3>1 DEF OnAirRemote
    <3>5. QED
      BY <2>1, <2>2, <3>2, <3>3, <3>4 DEF GapInv
  <2>5. QED
    BY <2>3, <2>4
<1>4. CASE RadioComplete
  <2>1. cur \in Used /\ UNCHANGED <<firstAge, quiet>> /\ pc = "complete" /\ pc' = "check"
    BY <1>4, <1>b DEF RadioComplete
  <2>2. ~Chosen' /\ \A r \in Remotes : ~OnAirRemote(r)'
    BY <2>1 DEF Chosen, OnAirRemote
  <2>3. CASE jobs[cur].kind = "raw"
    <3>1. sinceFirst' = sinceFirst /\ \A r \in Remotes : ~OnAirRemote(r)
      BY <1>4, <2>3 DEF RadioComplete, OnAirRemote
    <3>2. QED
      BY <2>1, <2>2, <3>1 DEF GapInv
  <2>4. CASE jobs[cur].kind # "raw"
    <3>1. jobs[cur].kind = "command" /\ jobs[cur].remote \in Remotes
      BY <2>1, <2>4 DEF TypeOK, Jobs, JobsWellFormed
    <3>2. sinceFirst' = [sinceFirst EXCEPT ![jobs[cur].remote] = firstAge]
      BY <1>4, <2>4 DEF RadioComplete
    <3>3. firstAge <= quiet[jobs[cur].remote]
      BY <2>1, <3>1 DEF GapInv, OnAirRemote
    <3>4. \A r \in Remotes : r # jobs[cur].remote => sinceFirst[r] <= quiet[r]
      BY <2>1 DEF GapInv, OnAirRemote
    <3>5. \A r \in Remotes : sinceFirst'[r] <= quiet'[r]
      BY <2>1, <3>1, <3>2, <3>3, <3>4 DEF TypeOK
    <3>6. QED
      BY <2>2, <3>5 DEF GapInv
  <2>5. QED
    BY <2>3, <2>4
<1>5. CASE /\ RadioTask /\ ~RadioPick /\ ~RadioFirst /\ ~RadioComplete
  <2>1. UNCHANGED clock
    BY <1>5 DEF RadioTask, RadioCheck, RadioDropAll, RadioListen, RadioDefer, RadioCommit,
                RadioBegin, RadioRepeat, RadioEnd
  <2>2. /\ Chosen' => Chosen /\ cur' = cur
        /\ pc' \in {"train", "complete"} <=> pc \in {"train", "complete"} \/ RadioEnd
        /\ pc \in {"train", "complete"} \/ RadioEnd => cur' = cur
        /\ RadioEnd => pc \in {"end", "train"}
    BY <1>5 DEF RadioTask, RadioCheck, RadioDropAll, RadioListen, RadioDefer, RadioCommit,
              RadioBegin, RadioRepeat, RadioEnd, Chosen, RadioComplete
  <2>3. \A i \in Used' : SameOrder(i)
    BY <1>5, KeptJobs
  <2>4. Used' = Used \/ (RadioDropAll /\ pc = "drop")
    BY <1>5, KeptJobs DEF RadioDropAll
  <2>5. \A r \in Remotes : OnAirRemote(r)' <=> OnAirRemote(r)
    BY <1>b, <2>2, <2>3, <2>4 DEF OnAirRemote, SameOrder, TrainKind, RadioDropAll, PickedJobStays, InFlight, OnAir
  <2>6. Chosen' /\ jobs'[cur'].gap => Chosen /\ jobs[cur].gap /\ jobs'[cur'].remote = jobs[cur].remote
    BY <1>b, <2>2, <2>3, <2>4 DEF SameOrder, Chosen, RadioDropAll
  <2>7. QED
    BY <2>1, <2>5, <2>6 DEF GapInv, clock
<1>6. CASE Aside \/ \E o \in Orders : Added(o)
  <2>1. UNCHANGED <<pc, cur, sinceFirst, firstAge, quiet>> /\ \A i \in Used : SameOrder(i)
    BY <1>6, KeptJobs DEF Aside, Added, task, clock, Used
  <2>2. \A r \in Remotes : OnAirRemote(r)' <=> OnAirRemote(r)
    BY <1>b, <2>1 DEF OnAirRemote, SameOrder
  <2>3. Chosen' /\ jobs'[cur'].gap => Chosen /\ jobs[cur].gap /\ jobs'[cur'].remote = jobs[cur].remote
    BY <1>b, <2>1 DEF SameOrder, Chosen
  <2>4. QED
    BY <2>1, <2>2, <2>3 DEF GapInv
<1>7. QED
  BY <1>1, <1>2, <1>3, <1>4, <1>5, <1>6, StepKinds

\* The inductive invariant.
IInv == /\ TypeOK /\ PickedJobStays /\ JobsWellFormed /\ HeardBeforeReported
        /\ TrainKind /\ ChosenIsOldest /\ GapInv

\* The inductive invariant holds when the radio starts.
LEMMA IInvInit == Init => IInv
<1> SUFFICES ASSUME Init PROVE IInv
  OBVIOUS
<1>1. Used = {} /\ pc = "check" /\ events = {}
  BY DEF Init, Used
<1>2. PickedJobStays /\ JobsWellFormed /\ HeardBeforeReported /\ TrainKind /\ ChosenIsOldest
  BY <1>1 DEF PickedJobStays, InFlight, OnAir, JobsWellFormed, HeardBeforeReported, TrainKind, ChosenIsOldest, Chosen
<1>3. GapInv
  <2>1. SameRemoteGap \in Nat
    BY RadioAssumption DEF RadioAssumption
  <2>2. QED
    BY <1>1, <2>1 DEF Init, GapInv, OnAirRemote, Chosen
<1>4. QED
  BY <1>2, <1>3, TypeInit DEF IInv

\* The inductive invariant is inductive.
LEMMA IInvNext == IInv /\ [Next]_vars => IInv'
BY TypeNext, PickedNext, JobsNext, HeardNext, TrainNext, OldestNext, GapNext DEF IInv

\* The inductive invariant holds throughout every behaviour of the queue.
THEOREM Invariance == Spec => []IInv
BY IInvInit, IInvNext, PTL DEF Spec

\* The variables of the transmit queue stay well typed.
THEOREM TypeCorrect == Spec => []TypeOK
<1>1. IInv => TypeOK
  BY DEF IInv
<1>2. QED
  BY <1>1, Invariance, PTL

(* Two orders of one remote leave at least SameRemoteGap apart, whatever   *)
(* the handlers queue and whatever is switched off (remoteGapElapsed()).   *)
THEOREM GapCorrect == Spec => GapRespected
<1> DEFINE Respected == pc = "first" /\ pc' = "train" /\ enabled /\ jobs[cur].gap
                          => quiet[jobs[cur].remote] >= SameRemoteGap
<1>1. IInv => [Respected]_vars
  BY DEF IInv, GapInv, Chosen
<1>2. QED
  BY <1>1, Invariance, PTL DEF GapRespected

\* The waiting orders OrderService sees.
wait == [i \in Waiting |-> jobs[i].remote]

\* A step that keeps the jobs and what was heard leaves the orders waiting as they were.
LEMMA HeardStays ==
  ASSUME Heard' = Heard, \A i \in Used : i \in Used' /\ SameOrder(i), Used' = Used
  PROVE  wait' = wait
<1>1. Waiting' = Waiting
  BY DEF Waiting, SameOrder
<1>2. \A i \in Waiting : jobs'[i].remote = jobs[i].remote
  BY DEF Waiting, SameOrder
<1>3. QED
  BY <1>1, <1>2 DEF wait

\* A step of the queue is a step of the service or leaves the waiting orders alone.
LEMMA OrderStep == IInv /\ [Next]_vars => [Service!Next]_<<wait, nextId - 1>>
<1> SUFFICES ASSUME IInv, [Next]_vars PROVE [Service!Next]_<<wait, nextId - 1>>
  OBVIOUS
<1> USE DEF IInv
<1>1. ASSUME NEW o \in Orders, Added(o) PROVE Service!Next
  <2>1. nextId \in Nat /\ Heard' = Heard /\ nextId' = nextId + 1 /\ nextId \notin Used /\ nextId \notin Heard
    BY <1>1 DEF Added, Heard, task, PickedJobStays, InFlight, OnAir, TypeOK
  <2>2. nextId' - 1 = (nextId - 1) + 1 /\ nextId' - 1 = nextId
    BY <2>1
  <2>3. \A i \in Waiting : jobs'[i].remote = jobs[i].remote
    BY <1>1 DEF Added, Waiting, SameOrder
  <2>4. CASE o.kind = "command"
    <3>1. Waiting' = Waiting \cup {nextId}
      BY <1>1, <2>1, <2>4 DEF Added, Waiting, SameOrder
    <3>2. wait' = [i \in Waiting \cup {nextId} |-> IF i = nextId THEN o.remote ELSE wait[i]]
      BY <1>1, <2>1, <2>3, <3>1 DEF wait, Added, Waiting
    <3>3. o.remote \in Remotes /\ DOMAIN wait = Waiting
      BY <2>4, OrdersAreJobs DEF wait
    <3>4. Service!Accept(o.remote)
      BY <2>2, <3>2, <3>3 DEF Service!Accept, wait
    <3>5. QED
      BY <3>3, <3>4 DEF Service!Next
  <2>5. CASE o.kind # "command"
    <3>1. Waiting' = Waiting
      BY <1>1, <2>1, <2>5 DEF Added, Waiting, SameOrder
    <3>2. wait' = wait
      BY <2>3, <3>1 DEF wait
    <3>3. QED
      BY <2>2, <3>2 DEF Service!Next, Service!Skip, wait
  <2>6. QED
    BY <2>4, <2>5
<1>2. CASE RadioDropAll
  <2>1. wait' = [i \in {} |-> 0] /\ nextId' = nextId
    BY <1>2 DEF RadioDropAll, wait, Waiting, Used
  <2>2. QED
    BY <2>1 DEF Service!Next, Service!DropAll, wait
<1>3. CASE RadioFirst
  <2>1. jobs' = jobs /\ cur' = cur /\ nextId' = nextId /\ Used' = Used /\ cur \in Used
    BY <1>3 DEF RadioFirst, PickedJobStays, InFlight, OnAir, Used
  <2>2. CASE jobs[cur].kind = "raw"
    <3>1. Heard' = Heard
      BY <1>3, <2>2 DEF RadioFirst, Heard
    <3>2. QED
      BY <2>1, <3>1, HeardStays DEF SameOrder
  <2>3. CASE jobs[cur].kind # "raw"
    <3>1. jobs[cur].kind = "command" /\ cur \in Waiting
      BY <1>3, <2>1, <2>3 DEF RadioFirst, TypeOK, Jobs, Waiting, Heard
    <3>2. Waiting' = Waiting \ {cur}
      BY <1>3, <2>1, <2>3 DEF RadioFirst, Waiting, Heard
    <3>3. DOMAIN wait = Waiting /\ \A o \in Waiting : wait[o] = jobs[o].remote
      BY DEF wait
    <3>4. \A o \in Waiting : wait[o] = wait[cur] => cur <= o
      BY <1>3, <2>1, <3>1, <3>3 DEF RadioFirst, ChosenIsOldest, Chosen, OlderJobPending, Waiting, TypeOK
    <3>5. wait' = [o \in Waiting \ {cur} |-> wait[o]]
      BY <2>1, <3>2 DEF wait
    <3>6. PICK i \in Waiting : i = cur
      BY <3>1
    <3>7. Service!Hear(i)
      BY <2>1, <3>1, <3>3, <3>4, <3>5, <3>6 DEF Service!Hear, wait
    <3>8. QED
      BY <3>7 DEF Service!Next
  <2>4. QED
    BY <2>2, <2>3
<1>4. CASE RadioComplete
  <2>1. cur \in Used /\ Used' = Used \ {cur} /\ Heard = {cur} /\ Heard' = {} /\ nextId' = nextId
    BY <1>4 DEF RadioComplete, Heard, PickedJobStays, InFlight, Used
  <2>2. Waiting' = Waiting /\ \A i \in Waiting : jobs'[i].remote = jobs[i].remote
    BY <1>4, <2>1, KeptJobs DEF Waiting, SameOrder, RadioTask
  <2>3. QED
    BY <2>1, <2>2 DEF wait
<1>5. CASE RadioEnd
  <2>1. jobs' = jobs /\ nextId' = nextId /\ Used' = Used /\ cur' = cur /\ Heard' = {cur} /\ Heard \subseteq {cur}
    BY <1>5 DEF RadioEnd, Heard, table, Used
  <2>2. Heard = {} => jobs[cur].kind = "raw"
    BY <1>5 DEF RadioEnd, Heard, TrainKind
  <2>3. Waiting' = Waiting
    BY <2>1, <2>2 DEF Waiting
  <2>4. QED
    BY <2>1, <2>3 DEF wait
<1>6. CASE /\ RadioTask /\ ~RadioDropAll /\ ~RadioFirst /\ ~RadioEnd /\ ~RadioComplete
  <2>1. Heard' = Heard
    BY <1>6 DEF RadioTask, RadioCheck, RadioPick, RadioListen, RadioDefer, RadioCommit, RadioBegin,
                RadioRepeat, Heard
  <2>2. QED
    BY <1>6, <2>1, KeptJobs, HeardStays
<1>7. CASE Tick \/ Aside
  <2>1. Heard' = Heard /\ Used' = Used
    BY <1>7 DEF Tick, Aside, task, Heard, Used
  <2>2. QED
    BY <1>7, <2>1, KeptJobs, HeardStays
<1>8. QED
  BY <1>1, <1>2, <1>3, <1>4, <1>5, <1>6, <1>7, StepKinds

(* The orders of a remote are heard in order and once: radioStep() and     *)
(* enqueueJob() implement OrderService.                                    *)
THEOREM Implementation == Spec => ImplementsOrderService
<1>1. Init => Service!Init
  BY DEF Init, Service!Init, Waiting, Used
<1>2. IInv /\ [Next]_vars => [Service!Next]_<<[i \in Waiting |-> jobs[i].remote], nextId - 1>>
  BY OrderStep DEF wait
<1>3. QED
  BY <1>1, <1>2, Invariance, PTL DEF Spec, ImplementsOrderService, Service!Spec

\* A handler waits for the radio only after it raised the flag.
SuspendHolds == handler = "suspend" => suspended

\* The part of the invariant about the radio's mode.
RadioInv == TunedBackAfterScan /\ ReceiverComesBack /\ SuspendHolds

\* The steps that change the radio's mode or its lock; the others leave both alone.
LEMMA ControlSteps ==
  ASSUME [Next]_vars
  PROVE  \/ BeginFrequencyScan \/ EndFrequencyScan \/ SaveRadio \/ ApplyRadio \/ BeginFlash
         \/ SuspendRadio \/ FailFlash \/ LoopAbortScan \/ RadioBegin \/ RadioEnd
         \/ \E o \in Orders : Enqueue(o)
         \/ /\ UNCHANGED <<enabled, suspended, rxmode, scanning, tuned>>
            /\ RadioLockFree' = RadioLockFree
            /\ handler' = handler \/ (handler = "full" /\ handler' = "free")
<1> USE DEF control, RadioLockFree, OnAir
<1>1. CASE RadioTask /\ ~RadioBegin /\ ~RadioEnd
  BY <1>1 DEF RadioTask, RadioCheck, RadioDropAll, RadioPick, RadioListen, RadioDefer, RadioCommit,
              RadioFirst, RadioRepeat, RadioComplete, caller
<1>2. CASE RetryEnqueue \/ DropOrder \/ PopTxEvent \/ Tick \/ AirtimeExpires \/ UNCHANGED vars
  BY <1>2 DEF RetryEnqueue, DropOrder, PopTxEvent, Tick, AirtimeExpires, vars, task, caller
<1>3. QED
  BY <1>1, <1>2 DEF Next, Handler, Loop, RadioTask

\* Every step keeps the receiver tuned and on (endFrequencyScan(), enableReceive()).
LEMMA RadioInvNext == TypeOK /\ RadioInv /\ [Next]_vars => RadioInv'
<1> SUFFICES ASSUME TypeOK, RadioInv, [Next]_vars PROVE RadioInv'
  OBVIOUS
<1> USE DEF RadioInv, TunedBackAfterScan, ReceiverComesBack, SuspendHolds, RadioLockFree
<1>1. CASE BeginFrequencyScan \/ SaveRadio \/ BeginFlash \/ SuspendRadio \/ FailFlash \/ ApplyRadio
  BY <1>1 DEF BeginFrequencyScan, SaveRadio, BeginFlash, SuspendRadio, FailFlash, Flashing, task,
              caller, ApplyRadio, Apply
<1>2. CASE EndFrequencyScan \/ LoopAbortScan
  BY <1>2 DEF EndFrequencyScan, LoopAbortScan, EndScan, Apply, task, caller
<1>3. ASSUME NEW o \in Orders, Enqueue(o) PROVE RadioInv'
  <2>1. /\ UNCHANGED <<enabled, suspended, pc>>
        /\ (enabled /\ tuned' = "config" /\ rxmode' = 1) \/ UNCHANGED <<rxmode, tuned, scanning>>
    BY <1>3 DEF Enqueue, EndScan, Apply, task
  <2>2. handler = "free" /\ handler' \in {"free", "full"}
    BY <1>3 DEF Enqueue, caller
  <2>3. QED
    BY <2>1, <2>2
<1>4. CASE RadioBegin \/ RadioEnd
  BY <1>4 DEF RadioBegin, RadioEnd, OnAir, caller
<1>5. CASE /\ UNCHANGED <<enabled, suspended, rxmode, scanning, tuned>>
           /\ RadioLockFree' = RadioLockFree
           /\ handler' = handler \/ (handler = "full" /\ handler' = "free")
  BY <1>5
<1>6. QED
  BY <1>1, <1>2, <1>3, <1>4, <1>5, ControlSteps

(* After any mix of scans, saves, flashes and transmissions the radio is   *)
(* tuned back and its receiver on again.                                   *)
THEOREM RadioControl == Spec => []RadioComesBack
<1>1. Init => RadioInv
  BY DEF Init, RadioInv, TunedBackAfterScan, ReceiverComesBack, SuspendHolds
<1>2. IInv => TypeOK
  BY DEF IInv
<1>3. RadioInv => RadioComesBack
  BY DEF RadioInv, RadioComesBack
<1>4. QED
  BY <1>1, <1>2, <1>3, RadioInvNext, Invariance, PTL DEF Spec

(* The job the task works on stays in the table until the task frees it,   *)
(* although the table is unlocked while it listens (radioStep()).          *)
THEOREM PickedCorrect == Spec => []PickedJobStays
<1>1. IInv => PickedJobStays
  BY DEF IInv
<1>2. QED
  BY <1>1, Invariance, PTL

(* The loop is told of an order only once its first frame has gone, or it  *)
(* was dropped (postTxEvent()).                                            *)
THEOREM HeardCorrect == Spec => []HeardBeforeReported
<1>1. IInv => HeardBeforeReported
  BY DEF IInv
<1>2. QED
  BY <1>1, Invariance, PTL

=============================================================================
