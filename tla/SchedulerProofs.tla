--------------------------- MODULE SchedulerProofs ---------------------------
(***************************************************************************)
(* The state of the scheduler keeps its shape, no promised task is lost,   *)
(* none is attempted more often than it should be, and a stop in time      *)
(* leaves nothing running: for any jobs, callers and bounds.               *)
(*                                                                         *)
(* The argument is the write queue: while a check is under way it is the   *)
(* head of the queue, so that nothing else changes the file, what the      *)
(* check loaded is what the file has, and a stop that waits for the queue  *)
(* waits for the check.                                                    *)
(***************************************************************************)
EXTENDS Scheduler, TLAPS

(* The constants, as the proofs need them.                                 *)
LEMMA Bounds ==
    /\ MaxTime \in Nat /\ MaxOverlap \in Nat /\ MaxFaults \in Nat
    /\ Threshold \in Nat /\ Threshold > 0 /\ Nobody \notin Callers \cup Jobs
  BY SchedulerAssumption

(* Without a check nothing is attempted or running.                        *)
LEMMA NoCheckFacts ==
    /\ NoCheck \in Checks
    /\ NoCheck.stage = "none" /\ NoCheck.attempted = {} /\ NoCheck.todo = {}
    /\ NoCheck.running = Nobody /\ ~NoCheck.nested
<1>1. [j \in Jobs |-> NoTask] \in [Jobs -> 0..NoTask]
  BY Bounds DEF NoTask
<1>2. NoCheck \in Checks
  <2>1. {} \in SUBSET Jobs
    OBVIOUS
  <2> QED BY <1>1, <2>1 DEF NoCheck, Checks
<1>3. /\ NoCheck.stage = "none" /\ NoCheck.attempted = {} /\ NoCheck.todo = {}
      /\ NoCheck.running = Nobody /\ ~NoCheck.nested
  BY DEF NoCheck
<1> QED BY <1>2, <1>3

(* No handler of a check waits for the queue then.                         *)
LEMMA NoCheckNested == [NoCheck EXCEPT !.nested = FALSE] = NoCheck
  BY NoCheckFacts DEF Checks

(* What is put on the queue leaves its head where it is.                   *)
LEMMA Enqueueing ==
    ASSUME NEW q \in Seq(Operations), NEW x \in Operations
    PROVE /\ Append(q, x) \in Seq(Operations)
          /\ q # <<>> => Append(q, x) # <<>> /\ Head(Append(q, x)) = Head(q)
  OBVIOUS

(* The queue without its head is a queue.                                  *)
LEMMA Dequeueing ==
    ASSUME NEW q \in Seq(Operations), q # <<>>
    PROVE Tail(q) \in Seq(Operations) /\ Head(q) \in Operations
  OBVIOUS

(* A call puts an operation on the queue.                                  *)
LEMMA Requests ==
    ASSUME NEW j \in Jobs, NEW at \in 0..MaxTime, NEW by \in Callers \cup {Nobody},
           NEW name \in {"schedule", "cancel"}
    PROVE [op |-> name, job |-> j, at |-> at, by |-> by] \in Operations
  BY DEF Operations

(* The interval puts a check on it.                                        *)
LEMMA CheckRequest ==
    [op |-> "check", job |-> Nobody, at |-> 0, by |-> Nobody] \in Operations
  BY DEF Operations

(* What an operation names.                                                *)
LEMMA Whose ==
    ASSUME NEW o \in Operations
    PROVE /\ o.by \in Callers \cup {Nobody} /\ o.at \in 0..MaxTime
          /\ o.op \in {"schedule", "cancel"} => o.job \in Jobs
  BY SchedulerAssumption DEF Operations

(* Operations other than a check run while no check is under way.          *)
LEMMA NotDuringACheck ==
    ASSUME IInv, HeadIs("schedule") \/ HeadIs("cancel"), NEW by
    PROVE check = NoCheck /\ HandlerGoesOn(by) = NoCheck /\ queue # <<>>
          /\ queue \in Seq(Operations) /\ Head(queue) \in Operations
          /\ Tail(queue) \in Seq(Operations)
<1>1. check.stage # "loop"
  BY DEF IInv, HeadInv, HeadIs
<1>2. check = NoCheck
  BY <1>1 DEF IInv, TypeOK, TasksOK, Checks, HeadInv
<1>3. queue # <<>> /\ queue \in Seq(Operations)
  BY DEF HeadIs, IInv, TypeOK, TasksOK
<1> QED BY <1>2, <1>3, NoCheckNested, Dequeueing DEF HandlerGoesOn

(* A call is queued behind whatever is there.                              *)
LEMMA CallKeeps == ASSUME IInv, NEW c \in Callers, NEW j \in Jobs, NEW at \in 0..MaxTime,
    NEW name \in {"schedule", "cancel"}, Call(c, name, j, at) PROVE IInv'
<1>1. /\ queue' \in Seq(Operations)
      /\ queue # <<>> => queue' # <<>> /\ Head(queue') = Head(queue)
  BY Enqueueing, Requests, CheckRequest DEF Call, Enqueued, IInv, TypeOK, TasksOK
<1>2. TasksOK'
  BY <1>1, Bounds, NoCheckFacts DEF IInv, Call, Enqueued, oneOff, notifier,
       process, history, Alive, NoTask, TasksOK, TypeOK, Checks
<1>3. HeadInv'
  BY <1>1, Bounds, NoCheckFacts DEF IInv, Call, Enqueued, oneOff, notifier,
       process, history, Alive, NoTask, HeadInv, HeadIs, TypeOK, TasksOK, Checks
<1>4. NotifierOK' /\ ProcessOK' /\ HistoryOK' /\ LoopInv' /\ OwedInv' /\
      StopInv' /\ NoLostTask' /\ AttemptedOnce' /\ StopDrains'
  BY DEF IInv, TypeOK, Call, oneOff, notifier, process, history, NotifierOK,
       ProcessOK, HistoryOK, LoopInv, OwedInv, StopInv, CronDrained, NoLostTask,
       AttemptedOnce, StopDrains
<1> QED BY <1>2, <1>3, <1>4 DEF IInv, TypeOK

(* scheduleOnce, between two checks.                                       *)
LEMMA DoScheduleKeeps == ASSUME IInv, DoSchedule PROVE IInv'
<1>1. /\ check = NoCheck /\ check' = NoCheck
      /\ queue \in Seq(Operations) /\ Head(queue) \in Operations
      /\ queue' \in Seq(Operations)
  BY NotDuringACheck DEF DoSchedule, Dequeue, AfterError
<1>2. tasks' \in [Jobs -> 0..NoTask]
  BY <1>1, Whose, Bounds DEF DoSchedule, HeadIs, IInv, TypeOK, TasksOK, NoTask
<1>3. TasksOK'
  BY <1>1, <1>2, NoCheckFacts DEF IInv, TypeOK, TasksOK, DoSchedule, Replied
<1>4. ProcessOK'
  BY <1>1, Whose, Bounds DEF IInv, DoSchedule, HandlerGoesOn, Replied, HeadIs,
       Dequeue, oneOff, notifier, process, history, Alive, NoTask, ProcessOK,
       TypeOK
<1>5. HistoryOK'
  BY <1>1, Whose, Bounds DEF IInv, DoSchedule, HandlerGoesOn, Replied, HeadIs,
       Dequeue, oneOff, notifier, process, history, Alive, NoTask, HistoryOK,
       TypeOK
<1>6. HeadInv'
  BY <1>1, NoCheckFacts DEF HeadInv, HeadIs
<1>7. LoopInv'
  BY <1>1, NoCheckFacts DEF LoopInv, HeadIs
<1>8. OwedInv'
  BY <1>1, Whose, Bounds, NoCheckFacts DEF IInv, DoSchedule, HandlerGoesOn,
       Replied, HeadIs, Dequeue, oneOff, notifier, process, history, Alive, NoTask,
       OwedInv, TypeOK, TasksOK, Checks, LoopInv, HeadInv
<1>9. StopInv'
  BY <1>1, NoCheckFacts DEF IInv, DoSchedule, HandlerGoesOn, Replied, HeadIs,
       Dequeue, oneOff, notifier, process, history, Alive, NoTask, StopInv, TypeOK,
       TasksOK, ProcessOK, Checks, HeadInv, CronDrained
<1>10. NoLostTask'
  BY <1>1, Whose, Bounds DEF IInv, DoSchedule, HandlerGoesOn, Replied, HeadIs,
       Dequeue, oneOff, notifier, process, history, Alive, NoTask, NoLostTask,
       TypeOK, TasksOK, Checks, LoopInv
<1>11. StopDrains'
  BY <1>1, NoCheckFacts DEF IInv, DoSchedule, HandlerGoesOn, Replied, HeadIs,
       Dequeue, oneOff, notifier, process, history, Alive, NoTask, StopDrains,
       TypeOK, TasksOK, ProcessOK, Checks, HeadInv, StopInv, CronDrained
<1>12. NotifierOK' /\ AttemptedOnce'
  BY DEF IInv, TypeOK, DoSchedule, Dequeue, oneOff, notifier, process, history,
       NotifierOK, AttemptedOnce
<1> QED BY <1>3, <1>4, <1>5, <1>6, <1>7, <1>8, <1>9, <1>10, <1>11, <1>12 DEF IInv, TypeOK

(* cancelOnce, between two checks.                                         *)
LEMMA DoCancelKeeps == ASSUME IInv, DoCancel PROVE IInv'
<1>1. /\ check = NoCheck /\ check' = NoCheck
      /\ queue \in Seq(Operations) /\ Head(queue) \in Operations
      /\ queue' \in Seq(Operations)
  BY NotDuringACheck DEF DoCancel, Dequeue, AfterError
<1>2. tasks' \in [Jobs -> 0..NoTask]
  BY <1>1, Whose, Bounds DEF DoCancel, HeadIs, IInv, TypeOK, TasksOK, NoTask
<1>3. TasksOK'
  BY <1>1, <1>2, NoCheckFacts DEF IInv, TypeOK, TasksOK, DoCancel, Replied
<1>4. ProcessOK'
  BY <1>1, Whose, Bounds DEF IInv, DoCancel, HandlerGoesOn, Replied, HeadIs,
       Dequeue, oneOff, notifier, process, history, Alive, NoTask, ProcessOK,
       TypeOK
<1>5. HistoryOK'
  BY <1>1, Whose, Bounds DEF IInv, DoCancel, HandlerGoesOn, Replied, HeadIs,
       Dequeue, oneOff, notifier, process, history, Alive, NoTask, HistoryOK,
       TypeOK
<1>6. HeadInv'
  BY <1>1, NoCheckFacts DEF HeadInv, HeadIs
<1>7. LoopInv'
  BY <1>1, NoCheckFacts DEF LoopInv, HeadIs
<1>8. OwedInv'
  BY <1>1, Whose, Bounds, NoCheckFacts DEF IInv, DoCancel, HandlerGoesOn, Replied,
       HeadIs, Dequeue, oneOff, notifier, process, history, Alive, NoTask, OwedInv,
       TypeOK, TasksOK, Checks, LoopInv, HeadInv
<1>9. StopInv'
  BY <1>1, NoCheckFacts DEF IInv, DoCancel, HandlerGoesOn, Replied, HeadIs,
       Dequeue, oneOff, notifier, process, history, Alive, NoTask, StopInv, TypeOK,
       TasksOK, ProcessOK, Checks, HeadInv, CronDrained
<1>10. NoLostTask'
  BY <1>1, Whose, Bounds DEF IInv, DoCancel, HandlerGoesOn, Replied, HeadIs,
       Dequeue, oneOff, notifier, process, history, Alive, NoTask, NoLostTask,
       TypeOK, TasksOK, Checks, LoopInv
<1>11. StopDrains'
  BY <1>1, NoCheckFacts DEF IInv, DoCancel, HandlerGoesOn, Replied, HeadIs,
       Dequeue, oneOff, notifier, process, history, Alive, NoTask, StopDrains,
       TypeOK, TasksOK, ProcessOK, Checks, HeadInv, StopInv, CronDrained
<1>12. NotifierOK' /\ AttemptedOnce'
  BY DEF IInv, TypeOK, DoCancel, Dequeue, oneOff, notifier, process, history,
       NotifierOK, AttemptedOnce
<1> QED BY <1>3, <1>4, <1>5, <1>6, <1>7, <1>8, <1>9, <1>10, <1>11, <1>12 DEF IInv, TypeOK

(* Its write throws and nothing is changed.                                *)
LEMMA OperationFailsKeeps == ASSUME IInv, OperationFails PROVE IInv'
<1>1. /\ check = NoCheck /\ check' = NoCheck
      /\ queue \in Seq(Operations) /\ Head(queue) \in Operations
      /\ queue' \in Seq(Operations)
  BY NotDuringACheck DEF OperationFails, Dequeue, AfterError
<1>2. TasksOK'
  BY <1>1, Whose, Bounds, NoCheckFacts, Dequeueing DEF IInv, OperationFails,
       HandlerGoesOn, Replied, HeadIs, AfterError, Fault, Dequeue, oneOff,
       notifier, process, history, Alive, NoTask, TasksOK, TypeOK, Checks
<1>3. ProcessOK'
  BY <1>1, Whose, Bounds DEF IInv, OperationFails, HandlerGoesOn, Replied, HeadIs,
       AfterError, Fault, Dequeue, oneOff, notifier, process, history, Alive,
       NoTask, ProcessOK, TypeOK
<1>4. HeadInv'
  BY <1>1, NoCheckFacts DEF HeadInv, HeadIs
<1>5. LoopInv'
  BY <1>1, NoCheckFacts DEF LoopInv, HeadIs
<1>6. OwedInv'
  BY <1>1, Whose, Bounds, NoCheckFacts DEF IInv, OperationFails, HandlerGoesOn,
       Replied, HeadIs, AfterError, Fault, Dequeue, oneOff, notifier, process,
       history, Alive, NoTask, OwedInv, TypeOK, TasksOK, Checks, LoopInv, HeadInv
<1>7. StopInv'
  BY <1>1, NoCheckFacts DEF IInv, OperationFails, HandlerGoesOn, Replied, HeadIs,
       AfterError, Fault, Dequeue, oneOff, notifier, process, history, Alive,
       NoTask, StopInv, TypeOK, TasksOK, ProcessOK, Checks, HeadInv, CronDrained
<1>8. StopDrains'
  BY <1>1, NoCheckFacts DEF IInv, OperationFails, HandlerGoesOn, Replied, HeadIs,
       AfterError, Fault, Dequeue, oneOff, notifier, process, history, Alive,
       NoTask, StopDrains, TypeOK, TasksOK, ProcessOK, Checks, HeadInv, StopInv,
       CronDrained
<1>9. NotifierOK' /\ HistoryOK' /\ NoLostTask' /\ AttemptedOnce'
  BY DEF IInv, TypeOK, OperationFails, Fault, Dequeue, oneOff, notifier, process,
       history, NotifierOK, HistoryOK, NoLostTask, AttemptedOnce
<1> QED BY <1>2, <1>3, <1>4, <1>5, <1>6, <1>7, <1>8, <1>9 DEF IInv, TypeOK

(* A check is queued.                                                      *)
LEMMA CheckAndExecuteKeeps == ASSUME IInv, CheckAndExecute PROVE IInv'
<1>1. /\ queue' \in Seq(Operations)
      /\ queue # <<>> => queue' # <<>> /\ Head(queue') = Head(queue)
  BY Enqueueing, Requests, CheckRequest DEF CheckAndExecute, Enqueued, IInv, TypeOK, TasksOK
<1>2. TasksOK'
  BY <1>1, Bounds, NoCheckFacts DEF IInv, CheckAndExecute, Enqueued, oneOff,
       notifier, process, history, Alive, NoTask, TasksOK, TypeOK, Checks
<1>3. HeadInv'
  BY <1>1, Bounds, NoCheckFacts DEF IInv, CheckAndExecute, Enqueued, oneOff,
       notifier, process, history, Alive, NoTask, HeadInv, HeadIs, TypeOK, TasksOK,
       Checks
<1>4. NotifierOK' /\ ProcessOK' /\ HistoryOK' /\ LoopInv' /\ OwedInv' /\
      StopInv' /\ NoLostTask' /\ AttemptedOnce' /\ StopDrains'
  BY DEF IInv, TypeOK, CheckAndExecute, oneOff, notifier, process, history,
       NotifierOK, ProcessOK, HistoryOK, LoopInv, OwedInv, StopInv, CronDrained,
       NoLostTask, AttemptedOnce, StopDrains
<1> QED BY <1>2, <1>3, <1>4 DEF IInv, TypeOK

(* A check begins with the list the file has.                              *)
LEMMA CheckLoadsKeeps == ASSUME IInv, CheckLoads PROVE IInv'
<1>1. TasksOK'
  BY Bounds, NoCheckFacts DEF IInv, CheckLoads, HeadIs, Due, oneOff, notifier,
       process, history, Alive, NoTask, TasksOK, TypeOK, Checks
<1>2. HeadInv'
  BY Bounds, NoCheckFacts DEF IInv, CheckLoads, HeadIs, Due, oneOff, notifier,
       process, history, Alive, NoTask, HeadInv, TypeOK, TasksOK, Checks
<1>3. LoopInv'
  BY Bounds, NoCheckFacts DEF IInv, CheckLoads, HeadIs, Due, oneOff, notifier,
       process, history, Alive, NoTask, LoopInv, HeadInv, TypeOK, TasksOK, Checks
<1>4. OwedInv'
  BY Bounds, NoCheckFacts DEF IInv, CheckLoads, HeadIs, Due, oneOff, notifier,
       process, history, Alive, NoTask, OwedInv, TypeOK, TasksOK, Checks, LoopInv,
       HeadInv
<1>5. StopInv'
  BY Bounds, NoCheckFacts DEF IInv, CheckLoads, HeadIs, Due, oneOff, notifier,
       process, history, Alive, NoTask, StopInv, TypeOK, TasksOK, ProcessOK,
       Checks, HeadInv, CronDrained
<1>6. StopDrains'
  BY Bounds, NoCheckFacts DEF IInv, CheckLoads, HeadIs, Due, oneOff, notifier,
       process, history, Alive, NoTask, StopDrains, TypeOK, TasksOK, ProcessOK,
       Checks, HeadInv, StopInv, CronDrained
<1>7. NotifierOK' /\ ProcessOK' /\ HistoryOK' /\ NoLostTask' /\ AttemptedOnce'
  BY DEF IInv, TypeOK, CheckLoads, oneOff, notifier, process, history, NotifierOK,
       ProcessOK, HistoryOK, NoLostTask, AttemptedOnce
<1> QED BY <1>1, <1>2, <1>3, <1>4, <1>5, <1>6, <1>7 DEF IInv, TypeOK

(* A check that comes up after the stop began does nothing.                *)
LEMMA CheckRefusedKeeps == ASSUME IInv, CheckRefused PROVE IInv'
<1>1. TasksOK'
  BY Bounds, NoCheckFacts, Dequeueing DEF IInv, CheckRefused, HeadIs, Dequeue,
       oneOff, notifier, process, history, Alive, NoTask, TasksOK, TypeOK, Checks
<1>2. ProcessOK'
  BY Bounds DEF IInv, CheckRefused, HeadIs, Dequeue, oneOff, notifier, process,
       history, Alive, NoTask, ProcessOK, TypeOK
<1>3. HeadInv'
  BY Bounds, NoCheckFacts DEF IInv, CheckRefused, HeadIs, Dequeue, oneOff,
       notifier, process, history, Alive, NoTask, HeadInv, TypeOK, TasksOK, Checks
<1>4. StopInv'
  BY Bounds, NoCheckFacts DEF IInv, CheckRefused, HeadIs, Dequeue, oneOff,
       notifier, process, history, Alive, NoTask, StopInv, TypeOK, TasksOK,
       ProcessOK, Checks, HeadInv, CronDrained
<1>5. NotifierOK' /\ HistoryOK' /\ LoopInv' /\ OwedInv' /\ NoLostTask' /\
      AttemptedOnce' /\ StopDrains'
  BY DEF IInv, TypeOK, CheckRefused, Dequeue, oneOff, notifier, process, history,
       NotifierOK, HistoryOK, LoopInv, OwedInv, NoLostTask, AttemptedOnce,
       StopDrains
<1> QED BY <1>1, <1>2, <1>3, <1>4, <1>5 DEF IInv, TypeOK

(* A due task is kept for a later check.                                   *)
LEMMA CheckKeepsKeeps == ASSUME IInv, NEW j \in Jobs, CheckKeeps(j) PROVE IInv'
<1>1. TasksOK'
  BY Bounds, NoCheckFacts DEF IInv, CheckKeeps, Turn, Fault, oneOff, notifier,
       process, history, Alive, NoTask, TasksOK, TypeOK, Checks
<1>2. ProcessOK'
  BY Bounds DEF IInv, CheckKeeps, Turn, Fault, oneOff, notifier, process, history,
       Alive, NoTask, ProcessOK, TypeOK
<1>3. HeadInv'
  BY Bounds, NoCheckFacts DEF IInv, CheckKeeps, Turn, Fault, oneOff, notifier,
       process, history, Alive, NoTask, HeadInv, HeadIs, TypeOK, TasksOK, Checks
<1>4. LoopInv'
  BY Bounds, NoCheckFacts DEF IInv, CheckKeeps, Turn, Fault, oneOff, notifier,
       process, history, Alive, NoTask, LoopInv, HeadInv, HeadIs, TypeOK, TasksOK,
       Checks
<1>5. OwedInv'
  BY Bounds, NoCheckFacts DEF IInv, CheckKeeps, Turn, Fault, oneOff, notifier,
       process, history, Alive, NoTask, OwedInv, TypeOK, TasksOK, Checks, LoopInv,
       HeadInv, HeadIs
<1>6. StopInv'
  BY Bounds, NoCheckFacts DEF IInv, CheckKeeps, Turn, Fault, oneOff, notifier,
       process, history, Alive, NoTask, StopInv, TypeOK, TasksOK, ProcessOK,
       Checks, HeadInv, HeadIs, CronDrained
<1>7. StopDrains'
  BY Bounds, NoCheckFacts DEF IInv, CheckKeeps, Turn, Fault, oneOff, notifier,
       process, history, Alive, NoTask, StopDrains, TypeOK, TasksOK, ProcessOK,
       Checks, HeadInv, StopInv, CronDrained
<1>8. NotifierOK' /\ HistoryOK' /\ NoLostTask' /\ AttemptedOnce'
  BY DEF IInv, TypeOK, CheckKeeps, Fault, oneOff, notifier, process, history,
       NotifierOK, HistoryOK, NoLostTask, AttemptedOnce
<1> QED BY <1>1, <1>2, <1>3, <1>4, <1>5, <1>6, <1>7, <1>8 DEF IInv, TypeOK

(* A due task is attempted; it was owed or excused, as the file has it.    *)
LEMMA CheckRunsKeeps == ASSUME IInv, NEW j \in Jobs, CheckRuns(j) PROVE IInv'
<1>1. /\ queue' \in Seq(Operations)
      /\ queue # <<>> => queue' # <<>> /\ Head(queue') = Head(queue)
  BY Enqueueing, Requests DEF CheckRuns, Enqueued, IInv, TypeOK, TasksOK
<1>2. check \in Checks /\ (j \in Nesting) \in BOOLEAN
  BY DEF IInv, TypeOK, TasksOK
<1>3. check' \in Checks
  BY <1>2 DEF CheckRuns, Checks
<1>4. TasksOK'
  BY <1>1, <1>3 DEF IInv, TypeOK, TasksOK, CheckRuns
<1>5. HistoryOK'
  BY Bounds DEF IInv, CheckRuns, Turn, Enqueued, oneOff, notifier, process,
       history, Alive, NoTask, HistoryOK, TypeOK
<1>6. HeadInv'
  BY <1>1, Bounds, NoCheckFacts DEF IInv, CheckRuns, Turn, Enqueued, oneOff,
       notifier, process, history, Alive, NoTask, HeadInv, HeadIs, TypeOK, TasksOK,
       Checks
<1>7. LoopInv'
  BY Bounds, NoCheckFacts DEF IInv, CheckRuns, Turn, Enqueued, oneOff, notifier,
       process, history, Alive, NoTask, LoopInv, HeadInv, HeadIs, TypeOK, TasksOK,
       Checks
<1>8. OwedInv'
  BY Bounds, NoCheckFacts DEF IInv, CheckRuns, Turn, Enqueued, oneOff, notifier,
       process, history, Alive, NoTask, OwedInv, TypeOK, TasksOK, Checks, LoopInv,
       HeadInv, HeadIs
<1>9. StopInv'
  BY Bounds, NoCheckFacts DEF IInv, CheckRuns, Turn, Enqueued, oneOff, notifier,
       process, history, Alive, NoTask, StopInv, TypeOK, TasksOK, ProcessOK,
       Checks, HeadInv, HeadIs, CronDrained
<1>10. NoLostTask'
  BY Bounds DEF IInv, CheckRuns, Turn, Enqueued, oneOff, notifier, process,
       history, Alive, NoTask, NoLostTask, TypeOK, TasksOK, Checks, LoopInv
<1>11. AttemptedOnce'
  BY Bounds, NoCheckFacts DEF IInv, CheckRuns, Turn, Enqueued, oneOff, notifier,
       process, history, Alive, NoTask, AttemptedOnce, TypeOK, TasksOK, Checks,
       OwedInv, LoopInv, HeadInv
<1>12. StopDrains'
  BY Bounds, NoCheckFacts DEF IInv, CheckRuns, Turn, Enqueued, oneOff, notifier,
       process, history, Alive, NoTask, StopDrains, TypeOK, TasksOK, ProcessOK,
       Checks, HeadInv, StopInv, CronDrained
<1>13. NotifierOK' /\ ProcessOK'
  BY DEF IInv, TypeOK, CheckRuns, oneOff, notifier, process, history, NotifierOK,
       ProcessOK
<1> QED BY <1>4, <1>5, <1>6, <1>7, <1>8, <1>9, <1>10, <1>11, <1>12, <1>13 DEF IInv, TypeOK

(* Its handler ends.                                                       *)
LEMMA HandlerEndsKeeps ==
    ASSUME IInv, NEW ok \in BOOLEAN, HandlerEnds(ok)
    PROVE IInv'
<1>1. check.running \in Jobs
  BY DEF HandlerEnds, IInv, TypeOK, TasksOK, Checks
<1>2. TasksOK'
  BY Bounds, NoCheckFacts DEF IInv, HandlerEnds, Reported, Reached, Fault, oneOff,
       notifier, process, history, Alive, NoTask, TasksOK, TypeOK, Checks
<1>3. NotifierOK'
  BY <1>1, Bounds DEF IInv, HandlerEnds, Reported, Reached, Fault, oneOff,
       notifier, process, history, Alive, NoTask, NotifierOK, TypeOK
<1>4. ProcessOK'
  BY Bounds DEF IInv, HandlerEnds, Reported, Reached, Fault, oneOff, notifier,
       process, history, Alive, NoTask, ProcessOK, TypeOK
<1>5. HeadInv'
  BY Bounds, NoCheckFacts DEF IInv, HandlerEnds, Reported, Reached, Fault, oneOff,
       notifier, process, history, Alive, NoTask, HeadInv, HeadIs, TypeOK, TasksOK,
       Checks
<1>6. LoopInv'
  BY Bounds, NoCheckFacts DEF IInv, HandlerEnds, Reported, Reached, Fault, oneOff,
       notifier, process, history, Alive, NoTask, LoopInv, HeadInv, HeadIs, TypeOK,
       TasksOK, Checks
<1>7. OwedInv'
  BY Bounds, NoCheckFacts DEF IInv, HandlerEnds, Reported, Reached, Fault, oneOff,
       notifier, process, history, Alive, NoTask, OwedInv, TypeOK, TasksOK, Checks,
       LoopInv, HeadInv, HeadIs
<1>8. StopInv'
  BY Bounds, NoCheckFacts DEF IInv, HandlerEnds, Reported, Reached, Fault, oneOff,
       notifier, process, history, Alive, NoTask, StopInv, TypeOK, TasksOK,
       ProcessOK, Checks, HeadInv, HeadIs, CronDrained
<1>9. StopDrains'
  BY Bounds, NoCheckFacts DEF IInv, HandlerEnds, Reported, Reached, Fault, oneOff,
       notifier, process, history, Alive, NoTask, StopDrains, TypeOK, TasksOK,
       ProcessOK, Checks, HeadInv, StopInv, CronDrained
<1>10. HistoryOK' /\ NoLostTask' /\ AttemptedOnce'
  BY DEF IInv, TypeOK, HandlerEnds, Reported, Fault, oneOff, notifier, process,
       history, HistoryOK, NoLostTask, AttemptedOnce
<1> QED BY <1>2, <1>3, <1>4, <1>5, <1>6, <1>7, <1>8, <1>9, <1>10 DEF IInv, TypeOK

(* The list is saved without what was attempted: nothing else has changed  *)
(* it.                                                                     *)
LEMMA CheckSavesKeeps == ASSUME IInv, CheckSaves PROVE IInv'
<1>1. check' = NoCheck
  BY DEF CheckSaves
<1>2. tasks' \in [Jobs -> 0..NoTask]
  BY Bounds DEF CheckSaves, Remaining, IInv, TypeOK, TasksOK, Checks, NoTask
<1>3. queue' \in Seq(Operations)
  BY Dequeueing DEF CheckSaves, OverSoFar, Dequeue, IInv, TypeOK, TasksOK, HeadInv, HeadIs
<1>4. TasksOK'
  BY <1>1, <1>2, <1>3, NoCheckFacts DEF IInv, TypeOK, TasksOK, CheckSaves
<1>5. ProcessOK'
  BY <1>1, Bounds DEF IInv, CheckSaves, OverSoFar, Remaining, Dequeue, oneOff,
       notifier, process, history, Alive, NoTask, ProcessOK, TypeOK
<1>6. HeadInv'
  BY <1>1, NoCheckFacts DEF HeadInv, HeadIs
<1>7. LoopInv'
  BY <1>1, NoCheckFacts DEF LoopInv
<1>8. OwedInv'
  BY <1>1, Bounds, NoCheckFacts DEF IInv, CheckSaves, OverSoFar, Remaining,
       Dequeue, oneOff, notifier, process, history, Alive, NoTask, OwedInv, TypeOK,
       TasksOK, Checks, LoopInv, HeadInv, HeadIs
<1>9. StopInv'
  BY <1>1, Bounds, NoCheckFacts DEF IInv, CheckSaves, OverSoFar, Remaining,
       Dequeue, oneOff, notifier, process, history, Alive, NoTask, StopInv, TypeOK,
       TasksOK, ProcessOK, Checks, HeadInv, HeadIs, CronDrained
<1>10. NoLostTask'
  <2>1. CASE check.attempted = {}
    BY <2>1 DEF IInv, CheckSaves, NoLostTask, history
  <2>2. CASE check.attempted # {}
    BY <2>2 DEF IInv, CheckSaves, OverSoFar, Remaining, NoLostTask, LoopInv, TypeOK,
       HistoryOK, history
  <2> QED BY <2>1, <2>2
<1>11. StopDrains'
  BY <1>1, Bounds, NoCheckFacts DEF IInv, CheckSaves, OverSoFar, Remaining,
       Dequeue, oneOff, notifier, process, history, Alive, NoTask, StopDrains,
       TypeOK, TasksOK, ProcessOK, Checks, HeadInv, StopInv, CronDrained
<1>12. NotifierOK' /\ HistoryOK' /\ AttemptedOnce'
  BY DEF IInv, TypeOK, CheckSaves, Dequeue, oneOff, notifier, process, history,
       NotifierOK, HistoryOK, AttemptedOnce
<1> QED BY <1>4, <1>5, <1>6, <1>7, <1>8, <1>9, <1>10, <1>11, <1>12 DEF IInv, TypeOK

(* The list is not saved: what was attempted may be repeated.              *)
LEMMA SaveFailsKeeps == ASSUME IInv, SaveFails PROVE IInv'
<1>1. check' = NoCheck
  BY DEF SaveFails
<1>2. queue' \in Seq(Operations)
  BY Dequeueing DEF SaveFails, OverSoFar, Dequeue, IInv, TypeOK, TasksOK, HeadInv, HeadIs
<1>3. TasksOK'
  BY <1>1, <1>2, NoCheckFacts DEF IInv, TypeOK, TasksOK, SaveFails
<1>4. ProcessOK'
  BY <1>1, Bounds DEF IInv, SaveFails, OverSoFar, Fault, Dequeue, oneOff, notifier,
       process, history, Alive, NoTask, ProcessOK, TypeOK
<1>5. HistoryOK'
  BY <1>1 DEF IInv, SaveFails, OverSoFar, Fault, Dequeue, oneOff, notifier,
       process, history, Alive, NoTask, HistoryOK, TypeOK, TasksOK, Checks
<1>6. HeadInv'
  BY <1>1, NoCheckFacts DEF HeadInv, HeadIs
<1>7. LoopInv'
  BY <1>1, NoCheckFacts DEF LoopInv
<1>8. OwedInv'
  BY <1>1, Bounds, NoCheckFacts DEF IInv, SaveFails, OverSoFar, Fault, Dequeue,
       oneOff, notifier, process, history, Alive, NoTask, OwedInv, TypeOK, TasksOK,
       Checks, LoopInv, HeadInv, HeadIs
<1>9. StopInv'
  BY <1>1, Bounds, NoCheckFacts DEF IInv, SaveFails, OverSoFar, Fault, Dequeue,
       oneOff, notifier, process, history, Alive, NoTask, StopInv, TypeOK, TasksOK,
       ProcessOK, Checks, HeadInv, HeadIs, CronDrained
<1>10. StopDrains'
  BY <1>1, Bounds, NoCheckFacts DEF IInv, SaveFails, OverSoFar, Fault, Dequeue,
       oneOff, notifier, process, history, Alive, NoTask, StopDrains, TypeOK,
       TasksOK, ProcessOK, Checks, HeadInv, StopInv, CronDrained
<1>11. NotifierOK' /\ NoLostTask' /\ AttemptedOnce'
  BY DEF IInv, TypeOK, SaveFails, Fault, Dequeue, oneOff, notifier, process,
       history, NotifierOK, NoLostTask, AttemptedOnce
<1> QED BY <1>3, <1>4, <1>5, <1>6, <1>7, <1>8, <1>9, <1>10, <1>11 DEF IInv, TypeOK

(* A cron job starts.                                                      *)
LEMMA CronFiresKeeps == ASSUME IInv, NEW j \in Jobs, CronFires(j) PROVE IInv'
<1>1. ProcessOK'
  BY Bounds DEF IInv, CronFires, oneOff, notifier, process, history, Alive, NoTask,
       ProcessOK, TypeOK
<1>2. StopInv'
  BY Bounds, NoCheckFacts DEF IInv, CronFires, oneOff, notifier, process, history,
       Alive, NoTask, StopInv, TypeOK, TasksOK, ProcessOK, Checks, HeadInv, HeadIs,
       CronDrained
<1>3. StopDrains'
  BY Bounds, NoCheckFacts DEF IInv, CronFires, oneOff, notifier, process, history,
       Alive, NoTask, StopDrains, TypeOK, TasksOK, ProcessOK, Checks, HeadInv,
       StopInv, CronDrained
<1>4. TasksOK' /\ NotifierOK' /\ HistoryOK' /\ HeadInv' /\ LoopInv' /\
      OwedInv' /\ NoLostTask' /\ AttemptedOnce'
  BY DEF IInv, TypeOK, CronFires, oneOff, notifier, process, history, TasksOK,
       Operations, NotifierOK, HistoryOK, HeadInv, HeadIs, LoopInv, OwedInv,
       NoLostTask, AttemptedOnce
<1> QED BY <1>1, <1>2, <1>3, <1>4 DEF IInv, TypeOK

(* A run of a cron job ends.                                               *)
LEMMA CronEndsKeeps ==
    ASSUME IInv, NEW j \in Jobs, NEW ok \in BOOLEAN, CronEnds(j, ok)
    PROVE IInv'
<1>1. NotifierOK'
  BY Bounds DEF IInv, CronEnds, Reported, Reached, Fault, Seen, oneOff, notifier,
       process, history, Alive, NoTask, NotifierOK, TypeOK
<1>2. ProcessOK'
  BY Bounds DEF IInv, CronEnds, Reported, Reached, Fault, Seen, oneOff, notifier,
       process, history, Alive, NoTask, ProcessOK, TypeOK
<1>3. StopInv'
  BY Bounds, NoCheckFacts DEF IInv, CronEnds, Reported, Reached, Fault, Seen,
       oneOff, notifier, process, history, Alive, NoTask, StopInv, TypeOK, TasksOK,
       ProcessOK, Checks, HeadInv, HeadIs, CronDrained
<1>4. StopDrains'
  BY Bounds, NoCheckFacts DEF IInv, CronEnds, Reported, Reached, Fault, Seen,
       oneOff, notifier, process, history, Alive, NoTask, StopDrains, TypeOK,
       TasksOK, ProcessOK, Checks, HeadInv, StopInv, CronDrained
<1>5. TasksOK' /\ HistoryOK' /\ HeadInv' /\ LoopInv' /\ OwedInv' /\
      NoLostTask' /\ AttemptedOnce'
  BY DEF IInv, TypeOK, CronEnds, Reported, Fault, oneOff, notifier, process,
       history, TasksOK, Operations, HistoryOK, HeadInv, HeadIs, LoopInv, OwedInv,
       NoLostTask, AttemptedOnce
<1> QED BY <1>1, <1>2, <1>3, <1>4, <1>5 DEF IInv, TypeOK

(* A cron job is enabled again.                                            *)
LEMMA ReEnableKeeps == ASSUME IInv, NEW j \in Jobs, ReEnable(j) PROVE IInv'
<1>1. NotifierOK'
  BY Bounds DEF IInv, ReEnable, Fault, oneOff, notifier, process, history, Alive,
       NoTask, NotifierOK, TypeOK
<1>2. ProcessOK'
  BY Bounds DEF IInv, ReEnable, Fault, oneOff, notifier, process, history, Alive,
       NoTask, ProcessOK, TypeOK
<1>3. TasksOK' /\ HistoryOK' /\ HeadInv' /\ LoopInv' /\ OwedInv' /\
      StopInv' /\ NoLostTask' /\ AttemptedOnce' /\ StopDrains'
  BY DEF IInv, TypeOK, ReEnable, Fault, oneOff, notifier, process, history,
       TasksOK, Operations, HistoryOK, HeadInv, HeadIs, LoopInv, OwedInv, StopInv,
       CronDrained, NoLostTask, AttemptedOnce, StopDrains
<1> QED BY <1>1, <1>2, <1>3 DEF IInv, TypeOK

(* The stop begins to wait for the queue, and so for the check under way.  *)
LEMMA StopBeginsKeeps == ASSUME IInv, StopBegins PROVE IInv'
<1>1. ProcessOK'
  BY Bounds DEF IInv, StopBegins, WaitsForQueue, oneOff, notifier, process,
       history, Alive, NoTask, ProcessOK, TypeOK
<1>2. StopInv'
  BY Bounds, NoCheckFacts DEF IInv, StopBegins, WaitsForQueue, oneOff, notifier,
       process, history, Alive, NoTask, StopInv, TypeOK, TasksOK, ProcessOK,
       Checks, HeadInv, HeadIs, CronDrained
<1>3. StopDrains'
  BY Bounds, NoCheckFacts DEF IInv, StopBegins, WaitsForQueue, oneOff, notifier,
       process, history, Alive, NoTask, StopDrains, TypeOK, TasksOK, ProcessOK,
       Checks, HeadInv, StopInv, CronDrained
<1>4. TasksOK' /\ NotifierOK' /\ HistoryOK' /\ HeadInv' /\ LoopInv' /\
      OwedInv' /\ NoLostTask' /\ AttemptedOnce'
  BY DEF IInv, TypeOK, StopBegins, oneOff, notifier, process, history, TasksOK,
       Operations, NotifierOK, HistoryOK, HeadInv, HeadIs, LoopInv, OwedInv,
       NoLostTask, AttemptedOnce
<1> QED BY <1>1, <1>2, <1>3, <1>4 DEF IInv, TypeOK

(* The stop returns, in time or not.                                       *)
LEMMA StopReturnsKeeps ==
    ASSUME IInv, NEW drained \in BOOLEAN, StopReturns(drained)
    PROVE IInv'
<1>1. ~timedOut' => waitsFor = 0 /\ CronDrained
  BY DEF StopReturns
<1>2. ProcessOK'
  BY Bounds DEF IInv, StopReturns, CronDrained, oneOff, notifier, process, history,
       Alive, NoTask, ProcessOK, TypeOK
<1>3. StopInv'
  BY <1>1, Bounds, NoCheckFacts DEF IInv, StopReturns, CronDrained, oneOff,
       notifier, process, history, Alive, NoTask, StopInv, TypeOK, TasksOK,
       ProcessOK, Checks, HeadInv, HeadIs
<1>4. StopDrains'
  BY <1>1, Bounds, NoCheckFacts DEF IInv, StopReturns, CronDrained, oneOff,
       notifier, process, history, Alive, NoTask, StopDrains, TypeOK, TasksOK,
       ProcessOK, Checks, HeadInv, StopInv
<1>5. TasksOK' /\ NotifierOK' /\ HistoryOK' /\ HeadInv' /\ LoopInv' /\
      OwedInv' /\ NoLostTask' /\ AttemptedOnce'
  BY DEF IInv, TypeOK, StopReturns, oneOff, notifier, process, history, TasksOK,
       Operations, NotifierOK, HistoryOK, HeadInv, HeadIs, LoopInv, OwedInv,
       NoLostTask, AttemptedOnce
<1> QED BY <1>2, <1>3, <1>4, <1>5 DEF IInv, TypeOK

(* The process ends after a stop.                                          *)
LEMMA ExitKeeps == ASSUME IInv, Exit PROVE IInv'
<1>1. check' = NoCheck
  BY DEF Exit, Gone
<1>2. TasksOK'
  BY <1>1, Bounds, NoCheckFacts DEF IInv, Exit, Gone, oneOff, notifier, process,
       history, Alive, NoTask, TasksOK, TypeOK, Checks
<1>3. NotifierOK'
  BY <1>1, Bounds DEF IInv, Exit, Gone, oneOff, notifier, process, history, Alive,
       NoTask, NotifierOK, TypeOK
<1>4. ProcessOK'
  <2>1. [j \in Jobs |-> 0] \in [Jobs -> 0..MaxOverlap]
    BY Bounds
  <2>2. faults' \in 0..MaxFaults
    BY Bounds DEF IInv, TypeOK, ProcessOK, Exit, Fault
  <2> QED BY <2>1, <2>2 DEF Exit, Gone, ProcessOK
<1>5. HistoryOK'
  BY <1>1 DEF IInv, Exit, Gone, oneOff, notifier, process, history, Alive, NoTask,
       HistoryOK, TypeOK, TasksOK, Checks
<1>6. HeadInv'
  BY <1>1, NoCheckFacts DEF HeadInv, HeadIs
<1>7. LoopInv'
  BY <1>1, NoCheckFacts DEF LoopInv
<1>8. OwedInv'
  BY <1>1, Bounds, NoCheckFacts DEF IInv, Exit, Gone, oneOff, notifier, process,
       history, Alive, NoTask, OwedInv, TypeOK, TasksOK, Checks, LoopInv, HeadInv,
       HeadIs
<1>9. StopInv'
  BY <1>1, Bounds, NoCheckFacts DEF IInv, Exit, Gone, oneOff, notifier, process,
       history, Alive, NoTask, StopInv, TypeOK, TasksOK, ProcessOK, Checks,
       HeadInv, HeadIs, CronDrained
<1>10. StopDrains'
  BY <1>1, Bounds, NoCheckFacts DEF IInv, Exit, Gone, oneOff, notifier, process,
       history, Alive, NoTask, StopDrains, TypeOK, TasksOK, ProcessOK, Checks,
       HeadInv, StopInv, CronDrained
<1>11. NoLostTask' /\ AttemptedOnce'
  BY DEF IInv, Exit, Gone, oneOff, notifier, process, history, NoLostTask,
       AttemptedOnce
<1> QED BY <1>2, <1>3, <1>4, <1>5, <1>6, <1>7, <1>8, <1>9, <1>10, <1>11 DEF IInv, TypeOK

(* The process dies.                                                       *)
LEMMA CrashKeeps == ASSUME IInv, Crash PROVE IInv'
<1>1. check' = NoCheck
  BY DEF Crash, Gone
<1>2. TasksOK'
  BY <1>1, Bounds, NoCheckFacts DEF IInv, Crash, Gone, Fault, oneOff, notifier,
       process, history, Alive, NoTask, TasksOK, TypeOK, Checks
<1>3. NotifierOK'
  BY <1>1, Bounds DEF IInv, Crash, Gone, Fault, oneOff, notifier, process, history,
       Alive, NoTask, NotifierOK, TypeOK
<1>4. ProcessOK'
  <2>1. [j \in Jobs |-> 0] \in [Jobs -> 0..MaxOverlap]
    BY Bounds
  <2>2. faults' \in 0..MaxFaults
    BY Bounds DEF IInv, TypeOK, ProcessOK, Crash, Fault
  <2> QED BY <2>1, <2>2 DEF Crash, Gone, ProcessOK
<1>5. HistoryOK'
  BY <1>1 DEF IInv, Crash, Gone, Fault, oneOff, notifier, process, history, Alive,
       NoTask, HistoryOK, TypeOK, TasksOK, Checks
<1>6. HeadInv'
  BY <1>1, NoCheckFacts DEF HeadInv, HeadIs
<1>7. LoopInv'
  BY <1>1, NoCheckFacts DEF LoopInv
<1>8. OwedInv'
  BY <1>1, Bounds, NoCheckFacts DEF IInv, Crash, Gone, Fault, oneOff, notifier,
       process, history, Alive, NoTask, OwedInv, TypeOK, TasksOK, Checks, LoopInv,
       HeadInv, HeadIs
<1>9. StopInv'
  BY <1>1, Bounds, NoCheckFacts DEF IInv, Crash, Gone, Fault, oneOff, notifier,
       process, history, Alive, NoTask, StopInv, TypeOK, TasksOK, ProcessOK,
       Checks, HeadInv, HeadIs, CronDrained
<1>10. StopDrains'
  BY <1>1, Bounds, NoCheckFacts DEF IInv, Crash, Gone, Fault, oneOff, notifier,
       process, history, Alive, NoTask, StopDrains, TypeOK, TasksOK, ProcessOK,
       Checks, HeadInv, StopInv, CronDrained
<1>11. NoLostTask' /\ AttemptedOnce'
  BY DEF IInv, Crash, Gone, Fault, oneOff, notifier, process, history, NoLostTask,
       AttemptedOnce
<1> QED BY <1>2, <1>3, <1>4, <1>5, <1>6, <1>7, <1>8, <1>9, <1>10, <1>11 DEF IInv, TypeOK

(* The process starts.                                                     *)
LEMMA StartKeeps == ASSUME IInv, Start PROVE IInv'
<1>1. NotifierOK'
  BY Bounds DEF IInv, Start, oneOff, notifier, process, history, Alive, NoTask,
       NotifierOK, TypeOK
<1>2. ProcessOK'
  BY Bounds DEF IInv, Start, oneOff, notifier, process, history, Alive, NoTask,
       ProcessOK, TypeOK
<1>3. StopInv'
  BY Bounds, NoCheckFacts DEF IInv, Start, oneOff, notifier, process, history,
       Alive, NoTask, StopInv, TypeOK, TasksOK, ProcessOK, Checks, HeadInv, HeadIs,
       CronDrained
<1>4. StopDrains'
  BY Bounds, NoCheckFacts DEF IInv, Start, oneOff, notifier, process, history,
       Alive, NoTask, StopDrains, TypeOK, TasksOK, ProcessOK, Checks, HeadInv,
       StopInv, CronDrained
<1>5. TasksOK' /\ HistoryOK' /\ HeadInv' /\ LoopInv' /\ OwedInv' /\
      NoLostTask' /\ AttemptedOnce'
  BY DEF IInv, TypeOK, Start, oneOff, notifier, process, history, TasksOK,
       Operations, HistoryOK, HeadInv, HeadIs, LoopInv, OwedInv, NoLostTask,
       AttemptedOnce
<1> QED BY <1>1, <1>2, <1>3, <1>4, <1>5 DEF IInv, TypeOK

(* Time passes.                                                            *)
LEMMA TickKeeps == ASSUME IInv, Tick PROVE IInv'
<1>1. TasksOK'
  BY Bounds, NoCheckFacts DEF IInv, Tick, oneOff, notifier, process, history,
       Alive, NoTask, TasksOK, TypeOK, Checks
<1>2. NotifierOK' /\ ProcessOK' /\ HistoryOK' /\ HeadInv' /\ LoopInv' /\
      OwedInv' /\ StopInv' /\ NoLostTask' /\ AttemptedOnce' /\ StopDrains'
  BY DEF IInv, TypeOK, Tick, oneOff, notifier, process, history, NotifierOK,
       ProcessOK, HistoryOK, HeadInv, HeadIs, LoopInv, OwedInv, StopInv,
       CronDrained, NoLostTask, AttemptedOnce, StopDrains
<1> QED BY <1>1, <1>2 DEF IInv, TypeOK

-----------------------------------------------------------------------------
(* Nothing is scheduled at the first start.                                *)
LEMMA Initially == Init => IInv
<1> SUFFICES ASSUME Init PROVE IInv
  OBVIOUS
<1>1. TasksOK
  BY NoCheckFacts, Bounds DEF Init, TasksOK, NoTask
<1>2. NotifierOK /\ HistoryOK
  <2>1. [j \in Jobs |-> 0] \in [Jobs -> 0..Threshold]
    BY Bounds
  <2> QED BY <2>1 DEF Init, NotifierOK, HistoryOK
<1>5. ProcessOK
  <2>1. [j \in Jobs |-> 0] \in [Jobs -> 0..MaxOverlap]
    BY Bounds
  <2>2. faults \in 0..MaxFaults /\ waitsFor \in Nat
    BY Bounds DEF Init
  <2> QED BY <2>1, <2>2 DEF Init, ProcessOK
<1>3. HeadInv /\ LoopInv /\ OwedInv /\ StopInv
  BY NoCheckFacts DEF Init, HeadInv, LoopInv, OwedInv, StopInv
<1>4. NoLostTask /\ AttemptedOnce /\ StopDrains
  BY DEF Init, NoLostTask, AttemptedOnce, StopDrains
<1> QED BY <1>1, <1>2, <1>3, <1>4, <1>5 DEF IInv, TypeOK

(* Every step keeps the invariant.                                         *)
LEMMA NextKeeps == IInv /\ [Next]_vars => IInv'
<1> SUFFICES ASSUME IInv, [Next]_vars PROVE IInv'
  OBVIOUS
<1>1. ASSUME NEW c \in Callers, NEW j \in Jobs, NEW at \in {now, now + 1},
             Call(c, "schedule", j, at), at <= MaxTime
      PROVE  IInv'
  <2>1. at \in 0..MaxTime
    BY <1>1, Bounds DEF IInv, TypeOK, TasksOK
  <2> QED BY <1>1, <2>1, CallKeeps
<1>2. ASSUME NEW c \in Callers, NEW j \in Jobs, Call(c, "cancel", j, 0) PROVE IInv'
  BY <1>2, CallKeeps, Bounds
<1>3. CASE OperationStep
  BY <1>3, DoScheduleKeeps, DoCancelKeeps, OperationFailsKeeps DEF OperationStep
<1>4. CASE CheckAndExecute
  BY <1>4, CheckAndExecuteKeeps
<1>5. CASE CheckStep
  BY <1>5, CheckLoadsKeeps, CheckRefusedKeeps, CheckSavesKeeps, SaveFailsKeeps,
     CheckKeepsKeeps, CheckRunsKeeps, HandlerEndsKeeps DEF CheckStep
<1>6. ASSUME NEW j \in Jobs, CronFires(j) \/ ReEnable(j) PROVE IInv'
  BY <1>6, CronFiresKeeps, ReEnableKeeps
<1>7. CASE CronStep
  BY <1>7, CronEndsKeeps DEF CronStep
<1>8. CASE StopBegins \/ Exit \/ Crash \/ Start \/ Tick
  BY <1>8, StopBeginsKeeps, ExitKeeps, CrashKeeps, StartKeeps, TickKeeps
<1>9. ASSUME NEW drained \in BOOLEAN, StopReturns(drained) PROVE IInv'
  BY <1>9, StopReturnsKeeps
<1>10. CASE UNCHANGED vars
  <2>1. TypeOK'
    BY <1>10 DEF vars, oneOff, notifier, process, history, IInv, TypeOK, TasksOK,
       NotifierOK, ProcessOK, HistoryOK
  <2>2. HeadInv' /\ LoopInv' /\ OwedInv' /\ StopInv'
    BY <1>10 DEF vars, oneOff, notifier, process, history, IInv, HeadInv, LoopInv, OwedInv,
       StopInv, HeadIs, CronDrained
  <2>3. NoLostTask' /\ AttemptedOnce' /\ StopDrains'
    BY <1>10 DEF vars, oneOff, notifier, process, history, IInv, NoLostTask, AttemptedOnce,
       StopDrains
  <2> QED BY <2>1, <2>2, <2>3 DEF IInv
<1> QED BY <1>1, <1>2, <1>3, <1>4, <1>5, <1>6, <1>7, <1>8, <1>9, <1>10 DEF Next

(* The inductive invariant: a check under way is the head of the queue,    *)
(* and the file holds what it has loaded.                                  *)
THEOREM Invariance == Spec => []IInv
  BY Initially, NextKeeps, PTL DEF Spec

(* For any jobs, callers and bounds: tasks, queue, check, notifier and     *)
(* process keep their shape.                                               *)
THEOREM TypeCorrect == Spec => []TypeOK
<1>1. IInv => TypeOK
  BY DEF IInv
<1> QED BY <1>1, Invariance, PTL

(* A task whose scheduleOnce returned is in the file until it is attempted *)
(* or cancelled, however checks, calls, failures, stops and crashes        *)
(* interleave.                                                             *)
THEOREM TasksKept == Spec => []NoLostTask
<1>1. IInv => NoLostTask
  BY DEF IInv
<1> QED BY <1>1, Invariance, PTL

(* A task is attempted once, but for a list that could not be saved or a   *)
(* process that died before it was.                                        *)
THEOREM OneAttempt == Spec => []AttemptedOnce
<1>1. IInv => AttemptedOnce
  BY DEF IInv
<1> QED BY <1>1, Invariance, PTL

(* A stop that returned in time leaves no handler running, of a task or of *)
(* a cron job.                                                             *)
THEOREM CleanStop == Spec => []StopDrains
<1>1. IInv => StopDrains
  BY DEF IInv
<1> QED BY <1>1, Invariance, PTL
=============================================================================
