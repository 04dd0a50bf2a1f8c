----------------------------- MODULE RadioQueue -----------------------------
(***************************************************************************)
(* The transmit queue of Transceiver.cpp and the task that drains it.      *)
(*                                                                         *)
(* Handlers (HTTP, MQTT, the loop) run one at a time under SomfyGuard and  *)
(* queue orders; the radio task picks one, listens to the channel with no  *)
(* lock held, transmits it as one train under the radio lock, and reports  *)
(* its first frame to the loop.  The task never takes SomfyGuard.          *)
(*                                                                         *)
(* What is abstracted:                                                     *)
(*  - the table of slots is a function from the ids in use to their jobs   *)
(*    (the code breaks every tie by id, never by slot);                    *)
(*  - every job the code queues is a raw frame or a contiguous train, so   *)
(*    the completion that sets firstSent also frees the job: a job found   *)
(*    in the table is never firstSent, the repeat rank of pickJob() and    *)
(*    the freeing branch of enqueueJob() never apply, and inFlight is the  *)
(*    job the task is on (InFlight);                                       *)
(*  - time is a Tick; the delays are small numbers of ticks.  The 35 ms    *)
(*    floor between two frames only makes the task try again later;        *)
(*  - the CC1101 answers when apply() configures it.                       *)
(***************************************************************************)
EXTENDS Naturals, FiniteSets

CONSTANTS
  Remotes,     \* the remote addresses orders are sent with
  NoRemote,    \* address 0: a repeated raw frame has no remote of ours
  MaxJobs,     \* RADIO_MAX_JOBS, also the length of the event queue
  Repeats,     \* frames that follow the first one in a train
  SameRemoteGap, LbtCarrier, LbtUrgent, LbtRx, RelayDelay, \* delays, in ticks
  MaxOrders,   \* bound: orders queued in one run
  MaxDisturb,  \* bound: scans, flashes, radio saves, budget exhaustions
  MaxEvents    \* bound: both together

ASSUME RadioAssumption ==
  /\ NoRemote \notin Remotes
  /\ MaxJobs \in Nat \ {0}
  /\ Repeats \subseteq Nat
  /\ {SameRemoteGap, LbtCarrier, LbtUrgent, LbtRx, RelayDelay} \subseteq Nat \ {0}
  /\ LbtCarrier <= LbtRx /\ LbtUrgent <= LbtRx
  /\ MaxOrders \in Nat /\ MaxDisturb \in Nat /\ MaxEvents \in Nat

VARIABLES
  enabled, suspended,        \* config.enabled, g_txSuspended
  rxmode, scanning, tuned,   \* rxmode, scanPhase # 0, where the CC1101 is tuned
  scanAbort,                 \* g_scanAbortRequested
  jobs, nextId, events,      \* g_jobs, g_nextJobId, g_txEvents
  pc, cur, busy, train,      \* radioStep(): where it is, the job, the channel, repeats to go
  sinceFirst, firstAge,      \* g_remoteTx[] as an age; the age of firstEnd
  overBudget,                \* airtimeLastHour() >= RADIO_AIRTIME_BUDGET
  handler, order,            \* what holds SomfyGuard while it waits, and its order
  quiet,                     \* history: ticks since a remote's last first frame
  disturb                    \* bound: disturbances left

control == <<enabled, suspended, rxmode, scanning, tuned, scanAbort>>
table   == <<jobs, nextId, events>>
task    == <<pc, cur, busy, train>>
clock   == <<sinceFirst, firstAge, quiet>>
caller  == <<handler, order>>
vars    == <<control, table, task, clock, overBudget, caller, disturb>>

NoJob == 0
NoLbt == LbtRx + 1          \* lbtSince == 0: the channel was not found busy for it

\* What queueCommand(), queueContinuation() and queueRaw() put in a job.
Commands == [kind : {"command"}, remote : Remotes, repeats : Repeats, urgent : BOOLEAN, gap : {TRUE}]
Continuations == [kind : {"command"}, remote : Remotes, repeats : Repeats, urgent : {FALSE}, gap : {FALSE}]
Relay == [kind |-> "raw", remote |-> NoRemote, repeats |-> 0, urgent |-> FALSE, gap |-> FALSE]

Orders == Commands \cup Continuations \cup {Relay}

Jobs == [kind : {"command", "raw"}, remote : Remotes \cup {NoRemote},
         repeats : Repeats \cup {0}, urgent : BOOLEAN, gap : BOOLEAN,
         cancelRepeats : BOOLEAN, hold : 0 .. RelayDelay, lbt : 0 .. NoLbt]

Used == DOMAIN jobs
OnAir == {"first", "train", "end"}       \* the task holds the radio lock
RadioLockFree == pc \notin OnAir
InFlight == pc \in {"acquire", "complete"} \cup OnAir
Flashing == suspended /\ handler # "suspend"

Init ==
  /\ enabled = TRUE /\ suspended = FALSE
  /\ rxmode = 1 /\ scanning = FALSE /\ tuned = "config" /\ scanAbort = FALSE
  /\ jobs = [i \in {} |-> Relay] /\ nextId = 1 /\ events = {}
  /\ pc = "check" /\ cur = NoJob /\ busy = 0 /\ train = 0
  /\ sinceFirst = [r \in Remotes |-> SameRemoteGap] /\ firstAge = SameRemoteGap
  /\ quiet = [r \in Remotes |-> SameRemoteGap]
  /\ overBudget = FALSE
  /\ handler = "free" /\ order = Relay
  /\ disturb = MaxDisturb

-----------------------------------------------------------------------------
(* Radio control: the receive mode, the scan, the configuration.           *)

\* transceiver_config_t::apply(): retune and listen, or put the radio to sleep.
Apply ==
  /\ rxmode' = IF enabled THEN 1 ELSE 0
  /\ tuned' = IF enabled THEN "config" ELSE tuned

\* Bug: only the receive mode is looked at.
EndScanByMode ==
  /\ IF rxmode = 3 THEN Apply ELSE UNCHANGED <<rxmode, tuned>>
  /\ scanning' = FALSE

\* endFrequencyScan(), also after a transmission took the scan's rxmode away.
EndScan ==
  IF rxmode = 3 \/ scanning
  THEN Apply /\ scanning' = FALSE
  ELSE UNCHANGED <<rxmode, tuned, scanning>>

Room == nextId + MaxDisturb <= MaxEvents + disturb

Disturb == Room /\ disturb > 0 /\ disturb' = disturb - 1

BeginFrequencyScan ==
  /\ Disturb /\ handler = "free" /\ RadioLockFree /\ enabled
  /\ rxmode' = 3 /\ scanning' = TRUE /\ tuned' = "scan"
  /\ UNCHANGED <<enabled, suspended, scanAbort, table, task, clock, overBudget, caller>>

EndFrequencyScan ==
  /\ handler = "free" /\ RadioLockFree /\ (rxmode = 3 \/ scanning)
  /\ EndScan
  /\ UNCHANGED <<enabled, suspended, scanAbort, table, task, clock, overBudget, caller, disturb>>

\* /saveRadio: the flag is written at once, the radio lock is only taken by apply().
SaveRadio ==
  /\ Disturb /\ handler = "free"
  /\ enabled' \in BOOLEAN
  /\ handler' = "apply"
  /\ UNCHANGED <<suspended, rxmode, scanning, tuned, scanAbort, table, task, clock, overBudget, order>>

ApplyRadio ==
  /\ handler = "apply" /\ RadioLockFree
  /\ Apply
  /\ handler' = "free"
  /\ UNCHANGED <<enabled, suspended, scanning, scanAbort, table, task, clock, overBudget, order, disturb>>

\* Transceiver::end() before a flash: suspendTx() raises the flag, then waits for the lock.
BeginFlash ==
  /\ Disturb /\ handler = "free" /\ ~suspended
  /\ suspended' = TRUE /\ handler' = "suspend"
  /\ UNCHANGED <<enabled, rxmode, scanning, tuned, scanAbort, table, task, clock, overBudget, order>>

SuspendRadio ==
  /\ handler = "suspend" /\ RadioLockFree
  /\ rxmode' = 0 /\ handler' = "free"
  /\ UNCHANGED <<enabled, suspended, scanning, tuned, scanAbort, table, task, clock, overBudget, order, disturb>>

\* otaFinish(false): resumeTx().  A flash that succeeds ends in a reboot.
FailFlash ==
  /\ Flashing /\ handler = "free" /\ RadioLockFree
  /\ suspended' = FALSE
  /\ rxmode' = IF rxmode = 0 /\ enabled THEN 1 ELSE rxmode
  /\ UNCHANGED <<enabled, scanning, tuned, scanAbort, table, task, clock, overBudget, caller, disturb>>

-----------------------------------------------------------------------------
(* Handlers that queue orders.                                             *)

\* Bug: a superseded job is freed at once.
QueuedFreeing(o) ==
  [i \in {u \in Used : jobs[u].remote # o.remote} \cup {nextId} |->
     IF i = nextId
     THEN [kind |-> o.kind, remote |-> o.remote, repeats |-> o.repeats, urgent |-> o.urgent,
           gap |-> o.gap, cancelRepeats |-> FALSE, hold |-> 0, lbt |-> NoLbt]
     ELSE jobs[i]]

\* The job enqueueJob() writes, and the older jobs of its remote it supersedes.
Queued(o) ==
  LET job == [kind |-> o.kind, remote |-> o.remote, repeats |-> o.repeats,
              urgent |-> o.urgent, gap |-> o.gap, cancelRepeats |-> FALSE,
              hold |-> IF o.kind = "raw" THEN RelayDelay ELSE 0, lbt |-> NoLbt]
      superseded(i) == o.kind = "command" /\ jobs[i].kind = "command" /\ jobs[i].remote = o.remote
  IN [i \in Used \cup {nextId} |->
        IF i = nextId THEN job
        ELSE IF superseded(i) THEN [jobs[i] EXCEPT !.cancelRepeats = TRUE]
        ELSE jobs[i]]

HasSlot == Cardinality(Used) < MaxJobs

\* enqueueJob() with a free slot: at once, and a frequency scan ends first.
Enqueue(o) ==
  /\ handler = "free" /\ enabled /\ nextId <= MaxOrders /\ Room
  /\ rxmode = 3 => RadioLockFree
  /\ IF rxmode = 3 THEN EndScan ELSE UNCHANGED <<rxmode, tuned, scanning>>
  /\ IF HasSlot
     THEN /\ jobs' = Queued(o) /\ nextId' = nextId + 1
          /\ UNCHANGED <<events, caller>>
     ELSE handler' = "full" /\ order' = o /\ UNCHANGED table
  /\ UNCHANGED <<enabled, suspended, scanAbort, task, clock, overBudget, disturb>>

\* enqueueJob() on a full table: it retries every 10 ms, still under SomfyGuard...
RetryEnqueue ==
  /\ handler = "full" /\ HasSlot
  /\ jobs' = Queued(order) /\ nextId' = nextId + 1
  /\ handler' = "free"
  /\ UNCHANGED <<control, events, task, clock, overBudget, order, disturb>>

\* ... and drops the order after 3 s.
DropOrder ==
  /\ handler = "full" /\ ~HasSlot
  /\ handler' = "free"
  /\ UNCHANGED <<control, table, task, clock, overBudget, order, disturb>>

-----------------------------------------------------------------------------
(* The loop, skipped while a flash is in progress.                         *)

LoopRuns == handler = "free" /\ ~suspended

LoopAbortScan ==
  /\ LoopRuns /\ scanAbort
  /\ rxmode = 3 => RadioLockFree
  /\ scanAbort' = FALSE
  /\ IF rxmode = 3 THEN EndScan ELSE UNCHANGED <<rxmode, tuned, scanning>>
  /\ UNCHANGED <<enabled, suspended, table, task, clock, overBudget, caller, disturb>>

PopTxEvent ==
  /\ LoopRuns
  /\ \E i \in events : events' = events \ {i}
  /\ UNCHANGED <<control, jobs, nextId, task, clock, overBudget, caller, disturb>>

-----------------------------------------------------------------------------
(* The radio task: radioStep().                                            *)

\* Bug: a scan holds the orders without being asked to end.
RadioCheckNotAborting ==
  /\ pc = "check"
  /\ \/ ~enabled /\ pc' = "drop"
     \/ enabled /\ ~suspended /\ rxmode # 3 /\ pc' = "pick"
  /\ UNCHANGED <<control, table, cur, busy, train, clock, overBudget, caller, disturb>>

\* The unlocked checks at the head of the step.  A suspended task just returns.
RadioCheck ==
  /\ pc = "check"
  /\ \/ /\ ~enabled
        /\ pc' = "drop" /\ UNCHANGED scanAbort
     \/ /\ enabled /\ ~suspended /\ rxmode = 3
        /\ scanAbort' = TRUE /\ UNCHANGED pc
     \/ /\ enabled /\ ~suspended /\ rxmode # 3
        /\ pc' = "pick" /\ UNCHANGED scanAbort
  /\ UNCHANGED <<enabled, suspended, rxmode, scanning, tuned, table, cur, busy, train, clock,
                 overBudget, caller, disturb>>

\* postTxEvent(): an event that finds the queue full is lost.
Post(ids) ==
  \E kept \in SUBSET ids :
    /\ \/ kept = ids
       \/ Cardinality(events \cup kept) = MaxJobs
    /\ Cardinality(events \cup kept) <= MaxJobs
    /\ events' = events \cup kept

\* dropAllJobs(): no first frame has gone, so every job's event is posted.
RadioDropAll ==
  /\ pc = "drop"
  /\ Post(Used)
  /\ jobs' = [i \in {} |-> Relay]
  /\ pc' = "check"
  /\ UNCHANGED <<control, nextId, cur, busy, train, clock, overBudget, caller, disturb>>

\* Bug: a stop overtakes its own remote's orders.
OlderJobPendingUnlessUrgent(i) ==
  \E o \in Used : /\ o < i /\ ~jobs[i].urgent
                 /\ jobs[o].kind = "command" /\ jobs[o].remote = jobs[i].remote

OlderJobPending(i) ==
  \E o \in Used : o < i /\ jobs[o].kind = "command" /\ jobs[o].remote = jobs[i].remote

\* Bug: a stop does not wait for the gap.
RemoteGapElapsedOrUrgent(i) ==
  jobs[i].gap /\ ~jobs[i].urgent => sinceFirst[jobs[i].remote] >= SameRemoteGap

RemoteGapElapsed(i) == jobs[i].gap => sinceFirst[jobs[i].remote] >= SameRemoteGap

\* Bug: a full budget holds the stops too.
EligibleInBudget ==
  {i \in Used : /\ jobs[i].hold = 0 /\ ~overBudget
                /\ jobs[i].kind = "command" => ~OlderJobPending(i) /\ RemoteGapElapsed(i)}

Eligible ==
  {i \in Used : /\ jobs[i].hold = 0
                /\ jobs[i].kind = "command" => ~OlderJobPending(i) /\ RemoteGapElapsed(i)
                /\ overBudget => jobs[i].urgent}

\* Stops first, then in order of arrival.
Before(i, o) ==
  \/ jobs[i].urgent /\ ~jobs[o].urgent
  \/ jobs[i].urgent = jobs[o].urgent /\ i <= o

RadioPick ==
  /\ pc = "pick"
  /\ \/ /\ Eligible = {}
        /\ pc' = "check" /\ UNCHANGED cur
     \/ \E i \in Eligible :
          /\ \A o \in Eligible : Before(i, o)
          /\ cur' = i /\ pc' = "listen"
  /\ UNCHANGED <<control, table, busy, train, clock, overBudget, caller, disturb>>

\* channelBusy(), no lock held: 1 behind RTS traffic, 2 behind a carrier.
RadioListen ==
  /\ pc = "listen"
  /\ busy' \in IF rxmode = 1 THEN {0, 1, 2} ELSE {0}
  /\ pc' = "commit"
  /\ UNCHANGED <<control, table, cur, train, clock, overBudget, caller, disturb>>

LbtCap(i) ==
  IF busy = 2 THEN LbtCarrier ELSE IF jobs[i].urgent THEN LbtUrgent ELSE LbtRx

\* The channel is busy and the job's wait has not reached its cap: not this time.
RadioDefer ==
  /\ pc = "commit" /\ busy # 0
  /\ LET lbt == IF jobs[cur].lbt = NoLbt THEN 0 ELSE jobs[cur].lbt
     IN /\ lbt < LbtCap(cur)
        /\ jobs' = [jobs EXCEPT ![cur].lbt = lbt]
  /\ pc' = "check"
  /\ UNCHANGED <<control, nextId, events, cur, busy, train, clock, overBudget, caller, disturb>>

\* Bug: the event is posted when the train is built.
RadioCommitReporting ==
  /\ pc = "commit"
  /\ busy = 0 \/ (jobs[cur].lbt # NoLbt /\ jobs[cur].lbt >= LbtCap(cur))
  /\ Post({cur})
  /\ train' = jobs[cur].repeats
  /\ pc' = "acquire"
  /\ UNCHANGED <<control, jobs, nextId, cur, busy, clock, overBudget, caller, disturb>>

\* Clear, or forced: the job is copied with its repeats and marked in flight.
RadioCommit ==
  /\ pc = "commit"
  /\ busy = 0 \/ (jobs[cur].lbt # NoLbt /\ jobs[cur].lbt >= LbtCap(cur))
  /\ train' = jobs[cur].repeats
  /\ pc' = "acquire"
  /\ UNCHANGED <<control, table, cur, busy, clock, overBudget, caller, disturb>>

\* RadioGuard, then beginTransmit(), which does nothing once the radio is disabled.
RadioBegin ==
  /\ pc = "acquire"
  /\ rxmode' = IF enabled THEN 0 ELSE rxmode
  /\ pc' = "first"
  /\ UNCHANGED <<enabled, suspended, scanning, tuned, scanAbort, table, cur, busy, train, clock,
                 overBudget, caller, disturb>>

\* The first frame.  A command reports it; a disabled radio sends nothing and
\* still reports, with lastTxEnd, the end of a frame no older than the remote's.
RadioFirst ==
  /\ pc = "first"
  /\ IF jobs[cur].kind = "raw"
     THEN UNCHANGED <<events, clock>> /\ pc' = "end"
     ELSE /\ Post({cur})
          /\ firstAge' \in IF enabled THEN {0} ELSE 0 .. quiet[jobs[cur].remote]
          /\ quiet' = IF enabled THEN [quiet EXCEPT ![jobs[cur].remote] = 0] ELSE quiet
          /\ UNCHANGED sinceFirst
          /\ pc' = "train"
  /\ UNCHANGED <<control, jobs, nextId, cur, busy, train, overBudget, caller, disturb>>

RadioRepeat ==
  /\ pc = "train" /\ train > 0
  /\ train' = train - 1
  /\ UNCHANGED <<control, table, pc, cur, busy, clock, overBudget, caller, disturb>>

\* Bug: the task takes SomfyGuard while it holds the radio lock.
RadioEndUnderGuard ==
  /\ pc = "end" \/ (pc = "train" /\ train = 0)
  /\ handler = "free"
  /\ rxmode' = IF enabled /\ rxmode = 0 THEN 1 ELSE rxmode
  /\ pc' = "complete"
  /\ UNCHANGED <<enabled, suspended, scanning, tuned, scanAbort, table, cur, busy, train, clock,
                 overBudget, caller, disturb>>

\* endTransmit(): enableReceive(), unless the radio was disabled meanwhile.
RadioEnd ==
  /\ pc = "end" \/ (pc = "train" /\ train = 0)
  /\ rxmode' = IF enabled /\ rxmode = 0 THEN 1 ELSE rxmode
  /\ pc' = "complete"
  /\ UNCHANGED <<enabled, suspended, scanning, tuned, scanAbort, table, cur, busy, train, clock,
                 overBudget, caller, disturb>>

\* The bookkeeping under g_jobLock: the airtime, noteFirstFrame(), the freed job.
RadioComplete ==
  /\ pc = "complete"
  /\ jobs' = [i \in Used \ {cur} |-> jobs[i]]
  /\ sinceFirst' = IF jobs[cur].kind = "raw" THEN sinceFirst
                   ELSE [sinceFirst EXCEPT ![jobs[cur].remote] = firstAge]
  /\ \/ UNCHANGED <<overBudget, disturb>>
     \/ ~overBudget /\ overBudget' = TRUE /\ Disturb
  /\ cur' = NoJob /\ busy' = 0 /\ train' = 0
  /\ pc' = "check"
  /\ UNCHANGED <<control, nextId, events, firstAge, quiet, caller>>

-----------------------------------------------------------------------------
(* Time.                                                                   *)

Older(age, limit) == IF age < limit THEN age + 1 ELSE age

\* Every timer of the table and of the gaps moves by one tick.
Tick ==
  /\ jobs' = [i \in Used |->
               [jobs[i] EXCEPT !.hold = IF @ > 0 THEN @ - 1 ELSE 0,
                               !.lbt = IF @ = NoLbt THEN @ ELSE Older(@, LbtRx)]]
  /\ sinceFirst' = [r \in Remotes |-> Older(sinceFirst[r], SameRemoteGap)]
  /\ quiet' = [r \in Remotes |-> Older(quiet[r], SameRemoteGap)]
  /\ firstAge' = Older(firstAge, SameRemoteGap)
  /\ UNCHANGED <<control, nextId, events, task, overBudget, caller, disturb>>

\* The minutes that filled the budget leave the last hour.
AirtimeExpires ==
  /\ overBudget /\ overBudget' = FALSE
  /\ UNCHANGED <<control, table, task, clock, caller, disturb>>

-----------------------------------------------------------------------------
RadioTask ==
  \/ RadioCheck \/ RadioDropAll \/ RadioPick \/ RadioListen \/ RadioDefer \/ RadioCommit
  \/ RadioBegin \/ RadioFirst \/ RadioRepeat \/ RadioEnd \/ RadioComplete

Handler ==
  \/ \E o \in Orders : Enqueue(o)
  \/ RetryEnqueue \/ DropOrder
  \/ BeginFrequencyScan \/ EndFrequencyScan
  \/ SaveRadio \/ ApplyRadio \/ BeginFlash \/ SuspendRadio \/ FailFlash

Loop == LoopAbortScan \/ PopTxEvent

Next == RadioTask \/ Handler \/ Loop \/ Tick \/ AirtimeExpires

Spec == Init /\ [][Next]_vars

(* The task is the highest priority on its core and needs nothing but the  *)
(* job table; a handler that waits retries or gives up; time passes.  The  *)
(* loop and the end of an upload compete with the handlers for SomfyGuard, *)
(* which each of them gives back: they get it again and again (SF).        *)
Fairness ==
  /\ WF_vars(RadioTask) /\ WF_vars(Tick)
  /\ WF_vars(RetryEnqueue) /\ WF_vars(DropOrder)
  /\ WF_vars(ApplyRadio) /\ WF_vars(SuspendRadio)
  /\ SF_vars(Loop) /\ SF_vars(FailFlash)

\* The airtime budget may stay exhausted for good.
FairSpec == Spec /\ Fairness

-----------------------------------------------------------------------------
(* Properties.                                                             *)

TypeOK ==
  /\ enabled \in BOOLEAN /\ suspended \in BOOLEAN /\ scanAbort \in BOOLEAN
  /\ rxmode \in {0, 1, 3} /\ scanning \in BOOLEAN /\ tuned \in {"config", "scan"}
  /\ nextId \in Nat \ {0}
  /\ Used \subseteq 1 .. (nextId - 1) /\ jobs \in [Used -> Jobs]
  /\ events \subseteq 1 .. (nextId - 1)
  /\ pc \in {"check", "drop", "pick", "listen", "commit", "acquire", "complete"} \cup OnAir
  /\ cur \in Nat /\ busy \in {0, 1, 2} /\ train \in Nat
  /\ sinceFirst \in [Remotes -> 0 .. SameRemoteGap] /\ firstAge \in 0 .. SameRemoteGap
  /\ quiet \in [Remotes -> 0 .. SameRemoteGap]
  /\ overBudget \in BOOLEAN
  /\ handler \in {"free", "full", "apply", "suspend"} /\ order \in Orders
  /\ disturb \in Nat

(* The job the task listens for, or transmits, is in the table until the   *)
(* task itself frees it, although the table is unlocked while it listens   *)
(* (radioStep(): "superseded meanwhile").                                  *)
PickedJobStays == pc \in {"listen", "commit"} \/ InFlight => cur \in Used

(* A queued event is about an order whose first frame has gone, or that    *)
(* was dropped: the loop never anchors a shade on an order still waiting   *)
(* (postTxEvent(), popTxEvent()).                                          *)
HeardBeforeReported ==
  \A i \in events : i \in Used => i = cur /\ pc \in {"train", "complete"}

(* Whatever interleaving of scans, saves, flashes and transmissions led    *)
(* here, a radio that is neither scanning nor being reconfigured is tuned  *)
(* to the configured frequency (endFrequencyScan(), apply()).              *)
TunedBackAfterScan == enabled /\ ~scanning /\ handler # "apply" => tuned = "config"

(* The receiver is never left off once nobody needs it off: every          *)
(* disableReceive() is paired with an enableReceive().                     *)
ReceiverComesBack ==
  enabled /\ ~suspended /\ handler # "apply" /\ RadioLockFree => rxmode # 0

RadioComesBack == TunedBackAfterScan /\ ReceiverComesBack

(* The first frames of two orders of one remote are SameRemoteGap apart on *)
(* the air, although the gap is noted only when the first train completes  *)
(* (noteFirstFrame(), remoteGapElapsed()).                                 *)
GapRespected ==
  [][pc = "first" /\ pc' = "train" /\ enabled /\ jobs[cur].gap
       => quiet[jobs[cur].remote] >= SameRemoteGap]_vars

(* The orders of one remote are heard in the order they were queued, none  *)
(* twice, whatever is picked first: RadioQueue implements OrderService.    *)
Heard == IF pc \in {"train", "complete"} THEN {cur} ELSE {}
Waiting == {i \in Used : jobs[i].kind = "command"} \ Heard

Service == INSTANCE OrderService
             WITH waiting <- [i \in Waiting |-> jobs[i].remote], issued <- nextId - 1

ImplementsOrderService == Service!Spec

(* Every order gets through, or is dropped with the radio switched off: no *)
(* order stays queued forever behind a busy channel, a scan or a failed    *)
(* flash, nor behind a full budget that is granted again and again.        *)
EveryOrderLeaves ==
  []<>~overBudget => \A i \in 1 .. MaxOrders : i \in Used ~> i \notin Used

(* A stop with no older order of its remote before it leaves even if the   *)
(* airtime budget stays exhausted (pickJob(): only rank 0 goes).           *)
StopsIgnoreBudget ==
  \A i \in 1 .. MaxOrders :
    (i \in Used /\ jobs[i].urgent /\ ~OlderJobPending(i)) ~> i \notin Used

(* A handler always gets SomfyGuard back in the end: the radio task needs  *)
(* no lock a waiting handler holds (enqueueJob(), suspendTx(), apply()).   *)
HandlersReturn == handler # "free" ~> handler = "free"

=============================================================================
