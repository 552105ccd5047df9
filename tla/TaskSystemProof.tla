-------------------------- MODULE TaskSystemProof ---------------------------
(***************************************************************************)
(* For every task list, every set of interrupts and every behaviour of the *)
(* tasks: the scheduler keeps its types, a request is never left on a      *)
(* disabled task, and a task set to run once runs once if no interrupt     *)
(* requests it.                                                            *)
(***************************************************************************)
EXTENDS TaskSystem, TLAPS

\* The scheduler itself keeps its types.
NumbersType ==
    /\ tick \in [Tasks -> 0 .. TickModulus - 1]
    /\ taskScheduleRate \in [Tasks -> Nat]

FlagsType ==
    /\ isRequestScheduling \subseteq Tasks /\ isRunOnce \subseteq Tasks
    /\ isDisabled \subseteq Tasks /\ owed \subseteq Tasks

ControlType ==
    elapsed \in Nat /\ pc \in PCs /\ i \in Tasks /\ source \in Sources /\ calls \in Nat

LEMMA TypeParts == SystemTypeOK <=> NumbersType /\ FlagsType /\ ControlType
  BY DEF SystemTypeOK, TypeOK, NumbersType, FlagsType, ControlType

LEMMA TypePartsPrime == SystemTypeOK' <=> NumbersType' /\ FlagsType' /\ ControlType'
  BY DEF SystemTypeOK, TypeOK, NumbersType, FlagsType, ControlType

\* The initial state has the types.
LEMMA InitTypes == SystemInit => SystemTypeOK
<1>1. SUFFICES ASSUME SystemInit PROVE NumbersType /\ FlagsType /\ ControlType
  BY TypeParts
<1>2. NumbersType
  BY <1>1, TasksAssumption, ListAssumption DEF SystemInit, Init, NumbersType
<1>3. FlagsType
  BY <1>1, ListAssumption DEF SystemInit, Init, FlagsType
<1>4. ControlType
  BY <1>1, TasksAssumption DEF SystemInit, Init, ControlType, PCs, Sources, Tasks
<1> QED  BY <1>2, <1>3, <1>4

\* The scheduler stays within the list when it moves on.
LEMMA NextTaskType ==
  ASSUME i \in Tasks, NextTask PROVE i' \in Tasks /\ pc' \in PCs
  BY TasksAssumption DEF NextTask, Tasks, PCs

\* A call of a TaskHandler function.
Call(t) ==
    \/ RequestTaskScheduling(t) /\ owed' = owed \cup {t}
    \/ (\E r \in Rates : SetTaskPeriodicTime(t, r)) /\ UNCHANGED owed
    \/ (\E r \in Rates : SetTaskOnceRun(t, r)) /\ owed' = owed \cup {t}
    \/ DisableTask(t) /\ UNCHANGED owed
    \/ ClearTimeoutTask(t) /\ UNCHANGED owed

\* Every call keeps the types of the fields.
LEMMA CallTypes ==
  ASSUME NumbersType, FlagsType, NEW t \in Tasks, Call(t)
  PROVE  NumbersType' /\ FlagsType'
<1>1. FlagsType'
  BY DEF Call, FlagsType, RequestTaskScheduling, SetTaskPeriodicTime, SetTaskOnceRun,
         DisableTask, ClearTimeoutTask
<1>2. NumbersType'
  <2>1. 0 \in 0 .. TickModulus - 1
    BY TasksAssumption
  <2>2. \A r \in Rates : r \in Nat
    BY TasksAssumption, CallsAssumption
  <2>3. tick' = tick \/ tick' = [tick EXCEPT ![t] = 0]
    BY DEF Call, RequestTaskScheduling, SetTaskPeriodicTime, SetTaskOnceRun, DisableTask,
           ClearTimeoutTask
  <2>4. \/ taskScheduleRate' = taskScheduleRate
        \/ \E r \in Rates : taskScheduleRate' = [taskScheduleRate EXCEPT ![t] = r]
    BY DEF Call, RequestTaskScheduling, SetTaskPeriodicTime, SetTaskOnceRun, DisableTask,
           ClearTimeoutTask
  <2> QED  BY <2>1, <2>2, <2>3, <2>4 DEF NumbersType
<1> QED  BY <1>1, <1>2

\* A step of the system keeps the types.
LEMMA NextTypes == SystemTypeOK /\ [SystemNext]_allVars => SystemTypeOK'
<1>1. SUFFICES ASSUME NumbersType, FlagsType, ControlType, [SystemNext]_allVars
               PROVE  NumbersType' /\ FlagsType' /\ ControlType'
  BY TypeParts, TypePartsPrime
<1>2. CASE StartPass /\ UNCHANGED <<calls, owed>>
  <2>1. \A t \in Tasks : (tick[t] + elapsed) % TickModulus \in 0 .. TickModulus - 1
    BY <1>1, TasksAssumption DEF NumbersType, ControlType
  <2>2. NumbersType'
    BY <1>1, <1>2, <2>1 DEF StartPass, NumbersType
  <2>3. FlagsType' /\ ControlType'
    BY <1>1, <1>2, TasksAssumption DEF StartPass, FlagsType, ControlType, PCs, Tasks
  <2> QED  BY <2>2, <2>3
<1>3. CASE CheckTask /\ UNCHANGED <<calls, owed>>
  <2>1. NumbersType' /\ FlagsType' /\ elapsed' \in Nat /\ calls' \in Nat
    BY <1>1, <1>3 DEF CheckTask, fields, NumbersType, FlagsType, ControlType
  <2>2. i' \in Tasks /\ pc' \in PCs
    BY <1>1, <1>3, NextTaskType DEF CheckTask, ControlType, PCs
  <2>3. source' \in Sources
    BY <1>1, <1>3 DEF CheckTask, ControlType, DueSource, Sources
  <2> QED  BY <2>1, <2>2, <2>3 DEF ControlType
<1>4. CASE RunTask_ClearOnce /\ UNCHANGED <<calls, owed>>
  BY <1>1, <1>4 DEF RunTask_ClearOnce, NumbersType, FlagsType, ControlType, PCs
<1>5. CASE TaskStart
  BY <1>1, <1>5 DEF TaskStart, RunTask_ClearRequest, NumbersType, FlagsType, ControlType, PCs
<1>6. CASE TaskReturn
  <2>1. i' \in Tasks /\ pc' \in PCs
    BY <1>1, <1>6, NextTaskType DEF TaskReturn, RunTask_End, ControlType
  <2>2. NumbersType'
    BY <1>1, <1>6, TasksAssumption DEF TaskReturn, RunTask_End, NumbersType, ControlType
  <2> QED  BY <1>1, <1>6, <2>1, <2>2 DEF TaskReturn, RunTask_End, FlagsType, ControlType, Sources
<1>7. CASE TaskCall
  <2>1. PICK t \in Tasks : Call(t)
    BY <1>7 DEF TaskCall, Call, CallRequest, CallSetPeriodicTime, CallSetOnceRun, CallDisable,
                CallClearTimeout
  <2>2. ControlType'
    BY <1>1, <1>7 DEF TaskCall, Stays, ControlType
  <2> QED  BY <1>1, <2>1, <2>2, CallTypes
<1>8. CASE SysTick
  BY <1>1, <1>8 DEF SysTick, fields, NumbersType, FlagsType, ControlType
<1>9. CASE \E t \in FromInterrupt : Interrupt(t)
  <2>1. PICK t \in Tasks : Call(t) /\ Interrupt(t)
    BY <1>9, CallsAssumption DEF Interrupt, Call
  <2>2. ControlType'
    BY <1>1, <2>1 DEF Interrupt, Stays, ControlType
  <2> QED  BY <1>1, <2>1, <2>2, CallTypes
<1>10. CASE UNCHANGED allVars
  BY <1>1, <1>10 DEF allVars, vars, fields, NumbersType, FlagsType, ControlType
<1> QED
  BY <1>1, <1>2, <1>3, <1>4, <1>5, <1>6, <1>7, <1>8, <1>9, <1>10
     DEF SystemNext, MainLoop, Scheduler

\* TaskHandler_Scheduler indexes TaskList within TasksNum and every field keeps
\* its range, for every list and whatever tasks and interrupts call.
THEOREM TypeCorrect == Spec => []SystemTypeOK
  BY InitTypes, NextTypes, PTL DEF Spec
-----------------------------------------------------------------------------
\* Only RunTask and DisableTask disable a task, and RunTask clears the request
\* with its next statement.
LEMMA NextKeepsAwake == NoSleepingRequest /\ [SystemNext]_allVars => NoSleepingRequest'
<1>1. SUFFICES ASSUME NoSleepingRequest, [SystemNext]_allVars PROVE NoSleepingRequest'
  OBVIOUS
<1>2. CASE Scheduler
  <2>1. CASE StartPass
    BY <1>1, <2>1 DEF StartPass, NoSleepingRequest
  <2>2. CASE CheckTask
    BY <1>1, <2>2 DEF CheckTask, NextTask, fields, NoSleepingRequest
  <2>3. CASE RunTask_ClearOnce
    BY <1>1, <2>3 DEF RunTask_ClearOnce, NoSleepingRequest
  <2> QED  BY <1>2, <2>1, <2>2, <2>3 DEF Scheduler
<1>3. CASE TaskStart
  BY <1>1, <1>3 DEF TaskStart, RunTask_ClearRequest, NoSleepingRequest
<1>4. CASE TaskReturn
  BY <1>1, <1>4 DEF TaskReturn, RunTask_End, NextTask, NoSleepingRequest
<1>5. CASE TaskCall
  <2>1. PICK t \in Tasks : CallRequest(t) \/ CallSetPeriodicTime(t) \/ CallSetOnceRun(t)
                           \/ CallDisable(t) \/ CallClearTimeout(t)
    BY <1>5 DEF TaskCall
  <2>2. CASE CallDisable(t)
    BY <1>1, <1>5, <2>2 DEF CallDisable, DisableTask, TaskCall, Stays, NoSleepingRequest
  <2>3. CASE ~CallDisable(t)
    BY <1>1, <1>5, <2>1, <2>3
       DEF CallRequest, CallSetPeriodicTime, CallSetOnceRun, CallClearTimeout, TaskCall, Stays,
           RequestTaskScheduling, SetTaskPeriodicTime, SetTaskOnceRun, ClearTimeoutTask,
           NoSleepingRequest
  <2> QED  BY <2>2, <2>3
<1>6. CASE SysTick
  BY <1>1, <1>6 DEF SysTick, fields, NoSleepingRequest
<1>7. CASE \E t \in FromInterrupt : Interrupt(t)
  BY <1>1, <1>7 DEF Interrupt, RequestTaskScheduling, Stays, NoSleepingRequest
<1>8. CASE UNCHANGED allVars
  BY <1>1, <1>8 DEF allVars, vars, fields, NoSleepingRequest
<1> QED  BY <1>1, <1>2, <1>3, <1>4, <1>5, <1>6, <1>7, <1>8 DEF SystemNext, MainLoop

\* However the interrupts fall between the statements of RunTask, no request
\* ends on a disabled task, where the scheduler would not look at it.
THEOREM RequestsStayAwake == Spec => []NoSleepingRequest
<1>1. SystemInit => NoSleepingRequest
  BY DEF SystemInit, Init, NoSleepingRequest
<1> QED  BY <1>1, NextKeepsAwake, PTL DEF Spec
-----------------------------------------------------------------------------
\* Moving on to the next task ends at no point of RunTask.
LEMMA NextTaskPc == ASSUME NextTask PROVE pc' \in {"loop", "check"}
  BY DEF NextTask

\* A step keeps OnceInv for every task that no interrupt requests.
LEMMA NextKeepsOnce == OnceInvariant /\ [SystemNext]_allVars => OnceInvariant'
<1>1. SUFFICES ASSUME OnceInvariant, [SystemNext]_allVars, NEW t \in OnceTasks \ FromInterrupt
               PROVE  OnceInv(t)'
  BY DEF OnceInvariant
<1>2. OnceInv(t) /\ t \notin FromInterrupt /\ t \notin TimeOutTasks
  BY <1>1 DEF OnceInvariant, OnceTasks
<1>3. t \in PeriodicDisabled \/ (t \in InitRunOnce /\ t \notin Timed)
  BY DEF OnceTasks
<1>4. CASE StartPass /\ UNCHANGED <<calls, owed>>
  BY <1>2, <1>4 DEF StartPass, OnceInv
<1>5. CASE CheckTask /\ UNCHANGED <<calls, owed>>
  <2>1. CASE i \in isDisabled \/ DueSource(i) = "Unknown"
    <3>1. pc' \in {"loop", "check"}
      BY <1>5, <2>1, NextTaskPc DEF CheckTask
    <3> QED  BY <1>2, <1>5, <3>1 DEF CheckTask, fields, OnceInv
  <2>2. CASE ~(i \in isDisabled \/ DueSource(i) = "Unknown")
    <3>1. i = t => t \in owed
      BY <1>2, <2>2 DEF DueSource, OnceInv
    <3> QED  BY <1>2, <1>5, <2>2, <3>1 DEF CheckTask, fields, OnceInv
  <2> QED  BY <2>1, <2>2
<1>6. CASE RunTask_ClearOnce /\ UNCHANGED <<calls, owed>>
  BY <1>2, <1>6 DEF RunTask_ClearOnce, OnceInv
<1>7. CASE TaskStart
  BY <1>2, <1>7 DEF TaskStart, RunTask_ClearRequest, OnceInv
<1>8. CASE TaskReturn
  <2>1. pc' \in {"loop", "check"}
    BY <1>8, NextTaskPc DEF TaskReturn, RunTask_End
  <2> QED  BY <1>2, <1>8, <2>1 DEF TaskReturn, RunTask_End, OnceInv
<1>9. CASE TaskCall
  <2>1. PICK u \in Tasks : CallRequest(u) \/ CallSetPeriodicTime(u) \/ CallSetOnceRun(u)
                           \/ CallDisable(u) \/ CallClearTimeout(u)
    BY <1>9 DEF TaskCall
  <2>2. pc' = "run"
    BY <1>9 DEF TaskCall, Stays
  <2>3. CASE CallRequest(u)
    BY <1>2, <2>2, <2>3 DEF CallRequest, RequestTaskScheduling, OnceInv
  <2>4. CASE CallSetPeriodicTime(u)
    BY <1>2, <1>3, <2>2, <2>4 DEF CallSetPeriodicTime, SetTaskPeriodicTime, OnceInv
  <2>5. CASE CallSetOnceRun(u)
    BY <1>2, <2>2, <2>5 DEF CallSetOnceRun, SetTaskOnceRun, OnceInv
  <2>6. CASE CallDisable(u)
    BY <1>2, <2>2, <2>6 DEF CallDisable, DisableTask, OnceInv
  <2>7. CASE CallClearTimeout(u)
    BY <1>2, <2>2, <2>7 DEF CallClearTimeout, ClearTimeoutTask, OnceInv
  <2> QED  BY <2>1, <2>3, <2>4, <2>5, <2>6, <2>7
<1>10. CASE SysTick
  BY <1>2, <1>10 DEF SysTick, fields, OnceInv
<1>11. CASE \E u \in FromInterrupt : Interrupt(u)
  <2>1. PICK u \in FromInterrupt : Interrupt(u)
    BY <1>11
  <2>2. u # t
    BY <1>2
  <2> QED  BY <1>2, <2>1, <2>2 DEF Interrupt, RequestTaskScheduling, Stays, OnceInv
<1>12. CASE UNCHANGED allVars
  BY <1>2, <1>12 DEF allVars, vars, fields, OnceInv
<1> QED
  BY <1>1, <1>4, <1>5, <1>6, <1>7, <1>8, <1>9, <1>10, <1>11, <1>12
     DEF SystemNext, MainLoop, Scheduler

\* A task starts only from RunTask_ClearRequest.
LEMMA StartsFromClearRequest ==
  ASSUME [SystemNext]_allVars, NEW t \in Tasks, Running(t)', ~Running(t)
  PROVE  pc = "clearRequest" /\ i = t
<1>1. CASE Scheduler
  BY <1>1 DEF Scheduler, StartPass, CheckTask, NextTask, RunTask_ClearOnce, Running
<1>2. CASE TaskStart
  BY <1>2 DEF TaskStart, RunTask_ClearRequest, Running
<1>3. CASE TaskReturn
  BY <1>3 DEF TaskReturn, RunTask_End, NextTask, Running
<1>4. CASE UNCHANGED <<pc, i>>
  BY <1>4 DEF Running
<1>5. TaskCall \/ SysTick \/ (\E u \in FromInterrupt : Interrupt(u)) \/ UNCHANGED allVars
      => UNCHANGED <<pc, i>>
  BY DEF TaskCall, SysTick, Interrupt, Stays, allVars, vars
<1> QED  BY <1>1, <1>2, <1>3, <1>4, <1>5 DEF SystemNext, MainLoop

\* Each task that no interrupt requests and that runs only on request or once
\* runs once per request or single run.  The same of a task that an interrupt
\* requests is false: the request may come between the statements of RunTask
\* that disable the task and clear its request.
THEOREM OnceWithoutInterrupt == Spec => OnceMeansOnce
<1>1. SystemInit => OnceInvariant
  BY DEF SystemInit, Init, OnceInvariant, OnceInv, OnceTasks
<1>2. OnceInvariant /\ [SystemNext]_allVars => [StartsOnlyOwed(OnceTasks \ FromInterrupt)]_allVars
  <2>1. SUFFICES ASSUME OnceInvariant, [SystemNext]_allVars,
                        NEW t \in OnceTasks \ FromInterrupt, Running(t)', ~Running(t)
                 PROVE  t \in owed
    BY DEF StartsOnlyOwed
  <2>2. t \in Tasks
    BY ListAssumption DEF OnceTasks
  <2>3. pc = "clearRequest" /\ i = t
    BY <2>1, <2>2, StartsFromClearRequest
  <2>4. OnceInv(t)
    BY <2>1 DEF OnceInvariant
  <2> QED  BY <2>3, <2>4 DEF OnceInv
<1> QED  BY <1>1, <1>2, NextKeepsOnce, PTL DEF Spec, OnceMeansOnce
=============================================================================
