----------------------------- MODULE TaskSystem ------------------------------
(***************************************************************************)
(* The scheduler with arbitrary tasks and interrupts: a running task may   *)
(* call every TaskHandler function on every task it is allowed to, and an  *)
(* interrupt may request every task at every moment.                       *)
(***************************************************************************)
EXTENDS TaskHandler

CONSTANTS
    FromInterrupt,    \* tasks that interrupts request
    FromTask,         \* tasks that tasks request
    Timed,            \* tasks whose period or single run a task sets
    Sleepers,         \* tasks for which a task calls DisableTask
    Rates,            \* the periods tasks pass
    MaxElapsed,       \* bound: milliseconds that pass while a task runs
    MaxCalls          \* bound: calls made by one run of a task

ASSUME CallsAssumption ==
    /\ FromInterrupt \cup FromTask \cup Timed \cup Sleepers \subseteq Tasks
    /\ Rates \subseteq 1 .. TickModulus - 1 /\ MaxElapsed \in Nat /\ MaxCalls \in Nat

VARIABLES
    calls,    \* calls made by this run
    owed      \* tasks requested or set to run once that have not started since

allVars == <<vars, calls, owed>>

SystemInit == Init /\ calls = 0 /\ owed = InitRunOnce

\* SysTick_Handler: HAL_IncTick.
SysTick ==
    /\ elapsed < MaxElapsed
    /\ elapsed' = elapsed + 1
    /\ UNCHANGED <<fields, pc, i, source, calls, owed>>

Interrupt(t) ==
    /\ RequestTaskScheduling(t) /\ owed' = owed \cup {t}
    /\ Stays /\ UNCHANGED calls

\* The calls a running task makes.
CallRequest(t) == t \in FromTask /\ RequestTaskScheduling(t) /\ owed' = owed \cup {t}

CallSetPeriodicTime(t) ==
    t \in Timed /\ (\E r \in Rates : SetTaskPeriodicTime(t, r)) /\ UNCHANGED owed

CallSetOnceRun(t) ==
    t \in Timed /\ (\E r \in Rates : SetTaskOnceRun(t, r)) /\ owed' = owed \cup {t}

CallDisable(t) == t \in Sleepers /\ DisableTask(t) /\ UNCHANGED owed

CallClearTimeout(t) == ClearTimeoutTask(t) /\ UNCHANGED owed

TaskCall ==
    /\ pc = "run" /\ calls < MaxCalls
    /\ \E t \in Tasks :
          \/ CallRequest(t) \/ CallSetPeriodicTime(t) \/ CallSetOnceRun(t)
          \/ CallDisable(t) \/ CallClearTimeout(t)
    /\ calls' = calls + 1
    /\ Stays

TaskStart == RunTask_ClearRequest /\ owed' = owed \ {i} /\ UNCHANGED calls

TaskReturn == RunTask_End /\ calls' = 0 /\ UNCHANGED owed

MainLoop ==
    \/ Scheduler /\ UNCHANGED <<calls, owed>>
    \/ TaskStart
    \/ TaskReturn

SystemNext == MainLoop \/ TaskCall \/ SysTick \/ \E t \in FromInterrupt : Interrupt(t)

Spec == SystemInit /\ [][SystemNext]_allVars

\* Time passes, and a task function returns: it cannot be preempted by other
\* tasks, so one that does not return stops the system (SwWatchDog's concern).
FairSpec == Spec /\ WF_allVars(MainLoop) /\ WF_allVars(SysTick)
-----------------------------------------------------------------------------
SystemTypeOK == TypeOK /\ calls \in Nat /\ owed \subseteq Tasks

\* A pending request is never left on a disabled task, whatever interrupts come
\* between the statements that disable a run-once task and clear its request:
\* such a request would wait until somebody requests the task again.
\* The exception is a task that is put to sleep with DisableTask.
NoSleepingRequest ==
    \A t \in isRequestScheduling \cap isDisabled :
        t \in Sleepers \/ (i = t /\ pc = "clearRequest")

\* Every request is followed by a run of the task that starts after it, also one
\* that comes while the task runs.
RequestServed ==
    \A t \in Tasks \ Sleepers : t \in isRequestScheduling ~> Starting(t)

\* No task starves: an enabled periodic task that nobody reschedules runs
\* again and again, whatever the tasks before it in the list do.  Its period and
\* the time until the next pass must together not exceed the range of the tick,
\* which otherwise wraps between two looks at it (TaskHandler.c:203).
PeriodicTaskRuns ==
    \A t \in Tasks \ (PeriodicDisabled \cup InitRunOnce \cup TimeOutTasks
                      \cup InitDisabled \cup Timed \cup Sleepers) : []<>Running(t)

\* The tasks that run only when they are requested or set to run once.
OnceTasks == (PeriodicDisabled \cup (InitRunOnce \ Timed)) \ TimeOutTasks

StartsOnlyOwed(tasks) == \A t \in tasks : Running(t)' /\ ~Running(t) => t \in owed

\* SetTaskOnceRun is "Set Task scheduling 1x": such a task never starts unless it
\* was requested or set to run once since it last started.
OnceMeansOnce == [][StartsOnlyOwed(OnceTasks \ FromInterrupt)]_allVars

\* The same of the tasks that interrupts request, too.
OnceDespiteInterrupt == [][StartsOnlyOwed(OnceTasks)]_allVars

\* What makes OnceMeansOnce inductive for a task t no interrupt requests: while
\* nothing is owed to t there is no request, and a single run is disabled.
OnceInv(t) ==
    /\ t \notin owed => t \notin isRequestScheduling /\ (t \in isRunOnce => t \in isDisabled)
    /\ t \notin PeriodicDisabled => t \in isRunOnce
    /\ i = t /\ pc \in {"clearOnce", "clearRequest"} => t \in owed
    /\ i = t /\ pc = "clearRequest" => (t \in isRunOnce => t \in isDisabled)

OnceInvariant == \A t \in OnceTasks \ FromInterrupt : OnceInv(t)
=============================================================================
