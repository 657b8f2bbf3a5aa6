------------------------------ MODULE Scheduler ------------------------------
(***************************************************************************)
(* Scheduled work: OneOffManager (tasks kept in scheduled-jobs.yaml, every *)
(* operation and every check queued one behind the other), CronManager,    *)
(* JobFailureNotifier (which disables a job that keeps failing) and the    *)
(* stop of both managers at a shutdown.                                    *)
(*                                                                         *)
(* A check runs the handlers of due tasks inside the queue and removes the *)
(* tasks it attempted when it is over. A cron job runs outside the queue.  *)
(* A handler is code of an app: it succeeds or fails after some time, and  *)
(* one of a nesting job first awaits scheduleOnce. When tasks are due in   *)
(* the same check, any order stands for the order of the file.             *)
(***************************************************************************)
EXTENDS Naturals, Sequences, FiniteSets

CONSTANTS
    Jobs,       \* appId:jobId
    CronJobs,   \* the jobs with a cron schedule
    Isolated,   \* cron jobs run once per user or household
    Nesting,    \* jobs whose one-off handler awaits scheduleOnce
    Callers,    \* calls of scheduleOnce and cancelOnce under way
    Nobody,
    Threshold,  \* autoDisableAfter
    MaxOverlap, \* runs of one cron job under way
    MaxQueue, MaxTime,
    MaxFaults   \* failed writes, failed resolutions, crashes

ASSUME SchedulerAssumption ==
    /\ CronJobs \cup Isolated \cup Nesting \subseteq Jobs /\ Nobody \notin Callers \cup Jobs
    /\ Threshold \in Nat \ {0} /\ {MaxOverlap, MaxQueue, MaxTime, MaxFaults} \subseteq Nat

VARIABLES
    now,
    tasks,      \* scheduled-jobs.yaml: when each task is due
    queue,      \* OneOffManager.writeQueue; its head is being performed
    check,      \* the check being performed
    callers,    \* the callers that wait for their operation
    disabled, failures,     \* JobFailureNotifier's memory
    savedDisabled,          \* disabled-jobs.yaml
    cronRuns,   \* runs of each cron job under way
    phase,      \* up, stopping, stopped, down
    waitsFor,   \* operations the stop waits for
    timedOut,   \* the stop gave up after 30 seconds
    faults,
    promised,   \* tasks whose scheduleOnce returned (history)
    owed, excused, repeated     \* attempts still due, allowed again, and one
                                \* more than that (history)

oneOff == <<tasks, queue, check, callers>>
notifier == <<disabled, failures, savedDisabled>>
process == <<cronRuns, phase, waitsFor, timedOut>>
history == <<promised, owed, excused, repeated>>
vars == <<now, oneOff, notifier, process, history, faults>>

NoTask == MaxTime + 1

NoCheck == [stage |-> "none", todo |-> {}, loaded |-> [j \in Jobs |-> NoTask],
            attempted |-> {}, running |-> Nobody, nested |-> FALSE]

Alive == phase \in {"up", "stopping", "stopped"}

Enqueued(op) == Append(queue, op)

HeadIs(name) == queue # <<>> /\ Head(queue).op = name

(* The operation at the head settles, however it ends: the next one        *)
(* starts.                                                                 *)
Dequeue ==
    /\ queue' = Tail(queue)
    /\ waitsFor' = IF waitsFor > 0 THEN waitsFor - 1 ELSE 0
    /\ UNCHANGED <<cronRuns, phase, timedOut>>

(* mutation: an operation that throws rejects all after it                 *)
Poisoned == /\ queue' = <<[op |-> "rejected", job |-> Nobody, at |-> 0, by |-> Nobody]>>
            /\ UNCHANGED process

AfterError == Dequeue

Replied(by) == callers \ {by}

Fault == faults < MaxFaults /\ faults' = faults + 1

(* scheduleOnce and cancelOnce                                             *)
Call(c, name, j, at) ==
    /\ Alive /\ c \notin callers /\ Len(queue) < MaxQueue
    /\ queue' = Enqueued([op |-> name, job |-> j, at |-> at, by |-> c])
    /\ callers' = callers \cup {c}
    /\ UNCHANGED <<now, tasks, check, notifier, process, history, faults>>

HandlerGoesOn(by) == IF by = Nobody THEN [check EXCEPT !.nested = FALSE] ELSE check

DoSchedule ==
    /\ Alive /\ HeadIs("schedule")
    /\ LET o == Head(queue)
       IN /\ tasks' = [tasks EXCEPT ![o.job] = o.at]
          /\ promised' = promised \cup {o.job}
          /\ owed' = owed \cup {o.job}
          /\ excused' = excused \ {o.job}
          /\ callers' = Replied(o.by) /\ check' = HandlerGoesOn(o.by)
    /\ Dequeue
    /\ UNCHANGED <<now, notifier, faults, repeated>>

DoCancel ==
    /\ Alive /\ HeadIs("cancel")
    /\ LET o == Head(queue)
       IN /\ tasks' = [tasks EXCEPT ![o.job] = NoTask]
          /\ promised' = promised \ {o.job}
          /\ callers' = Replied(o.by) /\ check' = HandlerGoesOn(o.by)
    /\ Dequeue
    /\ UNCHANGED <<now, notifier, faults, owed, excused, repeated>>

(* The write of the tasks throws: the caller gets the error.               *)
OperationFails ==
    /\ Alive /\ (HeadIs("schedule") \/ HeadIs("cancel")) /\ Fault
    /\ callers' = Replied(Head(queue).by)
    /\ check' = HandlerGoesOn(Head(queue).by)
    /\ AfterError
    /\ UNCHANGED <<now, tasks, notifier, history>>

(* The interval of one minute, and the start                               *)
CheckAndExecute ==
    /\ phase = "up" /\ Len(queue) < MaxQueue
    /\ queue' = Enqueued([op |-> "check", job |-> Nobody, at |-> 0, by |-> Nobody])
    /\ UNCHANGED <<now, tasks, check, callers, notifier, process, history, faults>>

Due(loaded) == {j \in Jobs : loaded[j] <= now}

CheckLoads ==
    /\ Alive /\ HeadIs("check") /\ check.stage = "none" /\ phase = "up"
    /\ check' = [NoCheck EXCEPT !.stage = "loop", !.loaded = tasks, !.todo = Due(tasks)]
    /\ UNCHANGED <<now, tasks, queue, callers, notifier, process, history, faults>>

CheckRefused ==
    /\ HeadIs("check") /\ check.stage = "none" /\ phase \in {"stopping", "stopped"}
    /\ Dequeue /\ UNCHANGED <<now, tasks, check, callers, notifier, history, faults>>

Turn(j) == check.stage = "loop" /\ check.running = Nobody /\ j \in check.todo

(* A task of a disabled job is kept for later, as is one whose app cannot  *)
(* be resolved.                                                            *)
CheckKeeps(j) ==
    /\ Alive /\ Turn(j)
    /\ IF j \in disabled THEN UNCHANGED faults ELSE Fault
    /\ check' = [check EXCEPT !.todo = @ \ {j}]
    /\ UNCHANGED <<now, tasks, queue, callers, notifier, process, history>>

CheckRuns(j) ==
    /\ Alive /\ Turn(j) /\ j \notin disabled
    /\ check' = [check EXCEPT !.todo = @ \ {j}, !.attempted = @ \cup {j}, !.running = j,
                              !.nested = j \in Nesting]
    /\ queue' = IF j \in Nesting
                THEN Enqueued([op |-> "schedule", job |-> j, at |-> now, by |-> Nobody])
                ELSE queue
    /\ promised' = promised \ {j}
    /\ repeated' = IF j \in owed \cup excused THEN repeated ELSE repeated \cup {j}
    /\ owed' = owed \ {j}
    /\ UNCHANGED <<now, tasks, callers, notifier, process, faults, excused>>

Reached(count) == count >= Threshold

(* JobFailureNotifier.onSuccess and onFailure. writeFileSync may fail,     *)
(* which is only logged.                                                   *)
Reported(j, ok) ==
    LET count == IF ok THEN 0 ELSE failures[j] + 1
        nowDisabled == IF Reached(count) THEN disabled \cup {j} ELSE disabled
    IN /\ failures' = [failures EXCEPT ![j] = IF count > Threshold THEN Threshold ELSE count]
       /\ disabled' = nowDisabled
       /\ IF ok \/ ~Reached(count) THEN UNCHANGED <<savedDisabled, faults>>
          ELSE \/ savedDisabled' = nowDisabled /\ UNCHANGED faults
               \/ Fault /\ UNCHANGED savedDisabled

HandlerEnds(ok) ==
    /\ Alive /\ check.running # Nobody /\ ~check.nested
    /\ Reported(check.running, ok)
    /\ check' = [check EXCEPT !.running = Nobody]
    /\ UNCHANGED <<now, tasks, queue, callers, process, history>>

OverSoFar == check.stage = "loop" /\ check.todo = {} /\ check.running = Nobody

(* mutations: every due task is removed, or only those that succeeded      *)
DueRemoved == [j \in Jobs |-> IF check.loaded[j] <= now THEN NoTask ELSE check.loaded[j]]

FailedKept == [j \in Jobs |-> IF j \in check.attempted /\ failures[j] = 0
                              THEN NoTask ELSE check.loaded[j]]

Remaining == [j \in Jobs |-> IF j \in check.attempted THEN NoTask ELSE check.loaded[j]]

CheckSaves ==
    /\ Alive /\ OverSoFar
    /\ tasks' = IF check.attempted = {} THEN tasks ELSE Remaining
    /\ check' = NoCheck /\ Dequeue
    /\ UNCHANGED <<now, callers, notifier, history, faults>>

(* The attempted tasks stay in the file and are run again.                 *)
SaveFails ==
    /\ Alive /\ OverSoFar /\ check.attempted # {} /\ Fault
    /\ check' = NoCheck /\ Dequeue
    /\ excused' = excused \cup check.attempted
    /\ UNCHANGED <<now, tasks, callers, notifier, promised, owed, repeated>>

CronFires(j) ==
    /\ phase = "up" /\ j \in CronJobs \ disabled /\ cronRuns[j] < MaxOverlap
    /\ cronRuns' = [cronRuns EXCEPT ![j] = @ + 1]
    /\ UNCHANGED <<now, oneOff, notifier, phase, waitsFor, timedOut, history, faults>>

(* buildScheduledJobHandler: a run per user or household catches what the  *)
(* handler throws for each of them.                                        *)
Seen(j, ok) == ok \/ j \in Isolated

CronEnds(j, ok) ==
    /\ Alive /\ cronRuns[j] > 0
    /\ cronRuns' = [cronRuns EXCEPT ![j] = @ - 1]
    /\ Reported(j, Seen(j, ok))
    /\ UNCHANGED <<now, oneOff, phase, waitsFor, timedOut, history>>

ReEnableAccepted(j) == j \in CronJobs

(* POST /gui/scheduler/:appId/:jobId/re-enable                             *)
ReEnable(j) ==
    /\ phase = "up" /\ j \in disabled /\ ReEnableAccepted(j)
    /\ disabled' = disabled \ {j}
    /\ failures' = [failures EXCEPT ![j] = 0]
    /\ \/ savedDisabled' = disabled \ {j} /\ UNCHANGED faults
       \/ Fault /\ UNCHANGED savedDisabled
    /\ UNCHANGED <<now, oneOff, process, history>>

WaitsForQueue == Len(queue)

StopBegins ==
    /\ phase = "up" /\ phase' = "stopping" /\ waitsFor' = WaitsForQueue
    /\ UNCHANGED <<now, oneOff, notifier, history, faults, cronRuns, timedOut>>

(* mutation: the stop does not wait for cron runs                          *)
CronForgotten == TRUE

CronDrained == \A j \in Jobs : cronRuns[j] = 0

StopReturns(drained) ==
    /\ phase = "stopping" /\ phase' = "stopped"
    /\ drained = (waitsFor = 0 /\ CronDrained)
    /\ timedOut' = ~drained
    /\ UNCHANGED <<now, oneOff, notifier, history, faults, cronRuns, waitsFor>>

Gone ==
    /\ queue' = <<>> /\ check' = NoCheck /\ callers' = {}
    /\ disabled' = {} /\ failures' = [j \in Jobs |-> 0]
    /\ cronRuns' = [j \in Jobs |-> 0] /\ waitsFor' = 0 /\ timedOut' = FALSE
    /\ phase' = "down" /\ excused' = excused \cup check.attempted
    /\ UNCHANGED <<now, tasks, savedDisabled, promised, owed, repeated>>

Exit == phase = "stopped" /\ Gone /\ UNCHANGED faults

Crash == Alive /\ Fault /\ Gone

Start ==
    /\ phase = "down" /\ phase' = "up" /\ disabled' = savedDisabled
    /\ UNCHANGED <<now, oneOff, failures, savedDisabled, cronRuns, waitsFor, timedOut,
                   history, faults>>

Tick ==
    /\ now < MaxTime /\ now' = now + 1
    /\ UNCHANGED <<oneOff, notifier, process, history, faults>>

Init ==
    /\ now = 0 /\ tasks = [j \in Jobs |-> NoTask] /\ queue = <<>> /\ check = NoCheck
    /\ callers = {} /\ disabled = {} /\ savedDisabled = {}
    /\ failures = [j \in Jobs |-> 0]
    /\ cronRuns = [j \in Jobs |-> 0] /\ phase = "down" /\ waitsFor = 0 /\ timedOut = FALSE
    /\ faults = 0 /\ promised = {} /\ owed = {} /\ excused = {} /\ repeated = {}

CheckStep ==
    \/ CheckLoads \/ CheckRefused \/ CheckSaves \/ SaveFails
    \/ \E j \in Jobs : CheckKeeps(j) \/ CheckRuns(j)
    \/ \E ok \in BOOLEAN : HandlerEnds(ok)

OperationStep == DoSchedule \/ DoCancel \/ OperationFails

CronStep == \E j \in Jobs, ok \in BOOLEAN : CronEnds(j, ok)

Next ==
    \/ \E c \in Callers, j \in Jobs, at \in {now, now + 1} :
           Call(c, "schedule", j, at) /\ at <= MaxTime
    \/ \E c \in Callers, j \in Jobs : Call(c, "cancel", j, 0)
    \/ OperationStep \/ CheckAndExecute \/ CheckStep
    \/ \E j \in Jobs : CronFires(j) \/ ReEnable(j)
    \/ CronStep
    \/ StopBegins \/ \E drained \in BOOLEAN : StopReturns(drained)
    \/ Exit \/ Crash \/ Start \/ Tick

Spec == Init /\ [][Next]_vars

(* The interval ticks, handlers end and the queue goes on.                 *)
FairSpec == Spec /\ WF_vars(CheckAndExecute) /\ WF_vars(CheckStep)
                 /\ WF_vars(OperationStep) /\ WF_vars(Start)

-----------------------------------------------------------------------------

Operations ==
    [op : {"schedule", "cancel"}, job : Jobs, at : 0..MaxTime, by : Callers \cup {Nobody}]
      \cup [op : {"check"}, job : {Nobody}, at : {0}, by : {Nobody}]

Checks == [stage : {"none", "loop"}, todo : SUBSET Jobs, loaded : [Jobs -> 0..NoTask],
           attempted : SUBSET Jobs, running : Jobs \cup {Nobody}, nested : BOOLEAN]

TasksOK ==
    /\ now \in 0..MaxTime /\ tasks \in [Jobs -> 0..NoTask]
    /\ queue \in Seq(Operations) /\ check \in Checks /\ callers \subseteq Callers

NotifierOK ==
    /\ disabled \subseteq Jobs /\ savedDisabled \subseteq Jobs
    /\ failures \in [Jobs -> 0..Threshold]

ProcessOK ==
    /\ cronRuns \in [Jobs -> 0..MaxOverlap]
    /\ phase \in {"up", "stopping", "stopped", "down"}
    /\ waitsFor \in Nat /\ timedOut \in BOOLEAN /\ faults \in 0..MaxFaults

HistoryOK == promised \subseteq Jobs /\ owed \subseteq Jobs /\ excused \subseteq Jobs

(* The state has the shape the managers give it.                           *)
TypeOK == TasksOK /\ NotifierOK /\ ProcessOK /\ HistoryOK

(* A task whose scheduleOnce returned is in the file until it is attempted *)
(* or cancelled: a check never saves an older list over it.                *)
NoLostTask == \A j \in promised : tasks[j] # NoTask

(* A task is attempted once, whatever the handler does and however many    *)
(* checks wait behind it, unless the list could not be saved or the        *)
(* process died.                                                           *)
AttemptedOnce == repeated = {}

(* "By the time this resolves, all in-flight handlers are done": a stop    *)
(* that did not time out leaves no handler running.                        *)
StopDrains ==
    phase = "stopped" /\ ~timedOut =>
        check.running = Nobody /\ \A j \in Jobs : cronRuns[j] = 0

(* Every due task of an enabled job is attempted as long as the process    *)
(* runs.                                                                   *)
DueTask(j) == phase = "up" /\ tasks[j] <= now /\ j \notin disabled
TasksAttempted == \A j \in Jobs : DueTask(j) ~> ~DueTask(j) \/ check.running = j

-----------------------------------------------------------------------------
(* What the proofs need beyond that                                        *)

(* A check under way is the operation at the head of the queue; without    *)
(* one nothing of a check is left.                                         *)
HeadInv ==
    /\ check.stage = "loop" => HeadIs("check")
    /\ check.stage = "none" => check = NoCheck

(* What a check works on is what the file has, and nothing it has          *)
(* attempted is promised again before it is over.                          *)
LoopInv ==
    check.stage = "loop" =>
        /\ check.loaded = tasks
        /\ check.attempted \cap (promised \cup check.todo) = {}
        /\ \A j \in check.todo : tasks[j] # NoTask

(* A task of the file is still to be attempted, may be repeated, or is     *)
(* being attempted by the check under way.                                 *)
OwedInv == \A j \in Jobs : tasks[j] # NoTask => j \in owed \cup excused \cup check.attempted

(* A stop waits for the check under way, and no check begins after it.     *)
StopInv ==
    /\ phase = "stopping" /\ check.stage = "loop" => waitsFor > 0
    /\ phase = "stopped" /\ ~timedOut => check.stage = "none" /\ CronDrained
    /\ phase = "down" => check.stage = "none"

IInv == /\ TypeOK /\ HeadInv /\ LoopInv /\ OwedInv /\ StopInv
        /\ NoLostTask /\ AttemptedOnce /\ StopDrains

=============================================================================
