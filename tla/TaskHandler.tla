----------------------------- MODULE TaskHandler -----------------------------
(***************************************************************************)
(* The cooperative scheduler of Src/Common/Handler/TaskHandler.c.          *)
(*                                                                         *)
(* TaskHandler_Scheduler is the main loop: once per elapsed millisecond or *)
(* more it adds the elapsed time to every task's tick and visits the tasks *)
(* in list order, running those that are due.  A running task calls the    *)
(* TaskHandler functions; interrupts call TaskHandler_RequestTaskScheduling *)
(* between any two statements of the main loop.                            *)
(*                                                                         *)
(* Each field of Task_t is a function on the tasks.                        *)
(***************************************************************************)
EXTENDS Integers

CONSTANTS
    TasksNum,             \* length of TaskList
    InitRate,             \* initial .taskScheduleRate of each task
    PeriodicDisabled,     \* tasks with .isPeriodicScheduleDisabled
    InitRunOnce,          \* tasks declared with .isRunOnce
    TimeOutTasks,         \* tasks with .isTimeOutTask
    InitDisabled,         \* tasks declared with .isDisabled
    TickModulus           \* 2^32, the range of TaskTick_t

Tasks == 1 .. TasksNum

ASSUME TasksAssumption == TasksNum \in Nat \ {0} /\ TickModulus \in Nat \ {0}
ASSUME ListAssumption ==
    /\ InitRate \in [Tasks -> 1 .. TickModulus - 1]   \* ASSERT in TaskHandler_Init
    /\ PeriodicDisabled \subseteq Tasks /\ InitRunOnce \subseteq Tasks
    /\ TimeOutTasks \subseteq Tasks /\ InitDisabled \subseteq Tasks

VARIABLES
    tick, taskScheduleRate,             \* numbers per task
    isRequestScheduling, isRunOnce, isDisabled,   \* the tasks whose flag is set
    elapsed,    \* HAL_GetTick() - oldTick
    pc,         \* where the scheduler is
    i,          \* the task it visits
    source      \* why that task runs

fields == <<tick, taskScheduleRate, isRequestScheduling, isRunOnce, isDisabled>>
vars == <<fields, elapsed, pc, i, source>>

Sources == {"Unknown", "EventTriggered", "PeriodicSchedule", "RunOnce", "TimeOut"}

Init ==
    /\ tick = [t \in Tasks |-> 0] /\ taskScheduleRate = InitRate
    /\ isRequestScheduling = {} /\ isRunOnce = InitRunOnce /\ isDisabled = InitDisabled
    /\ elapsed = 0 /\ pc = "loop" /\ i = 1 /\ source = "Unknown"
-----------------------------------------------------------------------------
(* The functions tasks and interrupts call, as their effect on the fields. *)

SetTaskPeriodicTime(t, rate) ==
    /\ isRunOnce' = isRunOnce \ {t} /\ isDisabled' = isDisabled \ {t}
    /\ taskScheduleRate' = [taskScheduleRate EXCEPT ![t] = rate]
    /\ tick' = [tick EXCEPT ![t] = 0]
    /\ UNCHANGED isRequestScheduling

SetTaskOnceRun(t, rate) ==
    /\ isRunOnce' = isRunOnce \cup {t} /\ isDisabled' = isDisabled \ {t}
    /\ taskScheduleRate' = [taskScheduleRate EXCEPT ![t] = rate]
    /\ tick' = [tick EXCEPT ![t] = 0]
    /\ UNCHANGED isRequestScheduling

DisableTask(t) ==
    /\ isDisabled' = isDisabled \cup {t}
    /\ UNCHANGED <<tick, taskScheduleRate, isRequestScheduling, isRunOnce>>

\* Variant: a request does not enable the task.
RequestTaskScheduling_NoEnable(t) ==
    /\ isRequestScheduling' = isRequestScheduling \cup {t}
    /\ UNCHANGED <<tick, taskScheduleRate, isRunOnce, isDisabled>>

RequestTaskScheduling(t) ==
    /\ isRequestScheduling' = isRequestScheduling \cup {t}
    /\ isDisabled' = isDisabled \ {t}
    /\ UNCHANGED <<tick, taskScheduleRate, isRunOnce>>

ClearTimeoutTask(t) ==
    /\ t \in TimeOutTasks
    /\ tick' = [tick EXCEPT ![t] = 0]
    /\ isDisabled' = isDisabled \ {t}
    /\ UNCHANGED <<taskScheduleRate, isRequestScheduling, isRunOnce>>
-----------------------------------------------------------------------------
(* TaskHandler_Scheduler and TaskHandler_RunTask, statement by statement.  *)

\* Variant: the elapsed time replaces the tick.
StartPass_Assigned ==
    /\ pc = "loop" /\ elapsed # 0
    /\ tick' = [t \in Tasks |-> elapsed % TickModulus]
    /\ elapsed' = 0
    /\ pc' = "check" /\ i' = 1
    /\ UNCHANGED <<taskScheduleRate, isRequestScheduling, isRunOnce, isDisabled, source>>

\* One turn of while (1) that finds time elapsed, with TaskHandler_IncrementTicks.
StartPass ==
    /\ pc = "loop" /\ elapsed # 0
    /\ tick' = [t \in Tasks |-> (tick[t] + elapsed) % TickModulus]
    /\ elapsed' = 0
    /\ pc' = "check" /\ i' = 1
    /\ UNCHANGED <<taskScheduleRate, isRequestScheduling, isRunOnce, isDisabled, source>>

Due(t) == tick[t] >= taskScheduleRate[t]

\* The if - else if chain of the scheduler, for an enabled task.
DueSource(t) ==
    IF t \notin PeriodicDisabled /\ Due(t) THEN "PeriodicSchedule"
    ELSE IF t \in isRunOnce /\ Due(t) THEN "RunOnce"
    ELSE IF t \in TimeOutTasks /\ Due(t) THEN "TimeOut"
    ELSE IF t \in isRequestScheduling THEN "EventTriggered"
    ELSE "Unknown"

\* Variant: the loop visits one task more than the list has.
NextTask_OneMore == IF i <= TasksNum THEN i' = i + 1 /\ pc' = "check" ELSE i' = 1 /\ pc' = "loop"

NextTask == IF i < TasksNum THEN i' = i + 1 /\ pc' = "check" ELSE i' = 1 /\ pc' = "loop"

CheckTask ==
    /\ pc = "check"
    /\ IF i \in isDisabled \/ DueSource(i) = "Unknown"
       THEN NextTask /\ UNCHANGED source
       ELSE source' = DueSource(i) /\ pc' = "clearOnce" /\ i' = i
    /\ UNCHANGED <<fields, elapsed>>

\* Variant: a task set to run once is not disabled.
RunTask_ClearOnce_Never ==
    /\ pc = "clearOnce" /\ pc' = "clearRequest"
    /\ UNCHANGED <<fields, elapsed, i, source>>

RunTask_ClearOnce ==
    /\ pc = "clearOnce"
    /\ isDisabled' = IF i \in isRunOnce THEN isDisabled \cup {i} ELSE isDisabled
    /\ pc' = "clearRequest"
    /\ UNCHANGED <<tick, taskScheduleRate, isRequestScheduling, isRunOnce, elapsed, i, source>>

RunTask_ClearRequest ==
    /\ pc = "clearRequest"
    /\ isRequestScheduling' = isRequestScheduling \ {i}
    /\ pc' = "run"
    /\ UNCHANGED <<tick, taskScheduleRate, isRunOnce, isDisabled, elapsed, i, source>>

\* Variant: a request that came while the task ran is taken as served.
RunTask_End_ClearsRequest ==
    /\ pc = "run"
    /\ tick' = [tick EXCEPT ![i] = 0]
    /\ isRequestScheduling' = isRequestScheduling \ {i}
    /\ source' = "Unknown"
    /\ NextTask
    /\ UNCHANGED <<taskScheduleRate, isRunOnce, isDisabled, elapsed>>

\* The task function returns; its tick is cleared only now.
RunTask_End ==
    /\ pc = "run"
    /\ tick' = [tick EXCEPT ![i] = 0]
    /\ source' = "Unknown"
    /\ NextTask
    /\ UNCHANGED <<taskScheduleRate, isRequestScheduling, isRunOnce, isDisabled, elapsed>>

\* The scheduler up to the start of a task (RunTask_ClearRequest); what the
\* task function does until RunTask_End is left to the modules that use this.
Scheduler == StartPass \/ CheckTask \/ RunTask_ClearOnce

\* A call of the above functions by an interrupt or by the running task leaves
\* the scheduler where it is.
Stays == UNCHANGED <<elapsed, pc, i, source>>
-----------------------------------------------------------------------------
Starting(t) == pc = "clearRequest" /\ i = t
Running(t) == pc = "run" /\ i = t

PCs == {"loop", "check", "clearOnce", "clearRequest", "run"}

\* The type invariant: the scheduler indexes TaskList within its length.
TypeOK ==
    /\ tick \in [Tasks -> 0 .. TickModulus - 1]
    /\ taskScheduleRate \in [Tasks -> Nat]
    /\ isRequestScheduling \subseteq Tasks /\ isRunOnce \subseteq Tasks /\ isDisabled \subseteq Tasks
    /\ elapsed \in Nat /\ pc \in PCs /\ i \in Tasks /\ source \in Sources
=============================================================================
