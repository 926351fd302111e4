------------------------------- MODULE Sched -------------------------------
(***************************************************************************)
(* The scheduler (tsk/sched.c): a singly linked list of tasks and round    *)
(* robin.  TskSchedule has no caller yet; here it is called at any time    *)
(* between the calls that create tasks.                                    *)
(***************************************************************************)
EXTENDS Integers, FiniteSets

CONSTANTS
  Tasks,          \* the blocks kmalloc may return, each once
  NoTask,
  KernelMemory    \* the address space in CR3 at boot

ASSUME SchedAssumption == NoTask \notin Tasks /\ KernelMemory # NoTask

VARIABLES
  kTasks, kLastTask, kTask, kNextPid,
  taskNext, pid, taskMemory,    \* the fields next, pid and memory of the tasks
  created,                      \* the blocks that are tasks
  cr3

schedVars == <<kTasks, kLastTask, kTask, kNextPid, taskNext, pid, taskMemory, created, cr3>>

SchedInit ==
  /\ kTasks = NoTask /\ kLastTask = NoTask /\ kTask = NoTask /\ kNextPid = 0
  /\ taskNext = [t \in Tasks |-> NoTask] /\ pid = [t \in Tasks |-> 0] /\ taskMemory = [t \in Tasks |-> NoTask]
  /\ created = {} /\ cr3 = KernelMemory

AppendTask(task) ==
  IF kTasks = NoTask THEN kTasks' = task /\ kLastTask' = task /\ taskNext' = [taskNext EXCEPT ![task] = NoTask]
  ELSE UNCHANGED kTasks /\ kLastTask' = task /\ taskNext' = [taskNext EXCEPT ![kLastTask] = task, ![task] = NoTask]

TskCreateKernelTask(task) ==
  /\ task \notin created /\ created' = created \cup {task}
  /\ AppendTask(task)
  /\ pid' = [pid EXCEPT ![task] = kNextPid] /\ kNextPid' = kNextPid + 1
  /\ taskMemory' = [taskMemory EXCEPT ![task] = cr3]
  /\ UNCHANGED <<kTask, cr3>>

(* The first call only chooses the first task.                             *)
FirstSchedule ==
  /\ kTask = NoTask
  /\ kTask' = kTasks
  /\ UNCHANGED <<kTasks, kLastTask, kNextPid, taskNext, pid, taskMemory, created, cr3>>

(* Mutant: at the end of the list the task stays.                          *)
ScheduleNextAtEnd ==
  /\ kTask # NoTask
  /\ kTask' = IF taskNext[kTask] = NoTask THEN kTask ELSE taskNext[kTask]
  /\ cr3' = taskMemory[kTask']
  /\ UNCHANGED <<kTasks, kLastTask, kNextPid, taskNext, pid, taskMemory, created>>

ScheduleNext ==
  /\ kTask # NoTask
  /\ kTask' = IF taskNext[kTask] = NoTask THEN kTasks ELSE taskNext[kTask]
  /\ cr3' = taskMemory[kTask']
  /\ UNCHANGED <<kTasks, kLastTask, kNextPid, taskNext, pid, taskMemory, created>>

TskSchedule == FirstSchedule \/ ScheduleNext

(* KeMain creates the idle task before anything can schedule.              *)
SchedNext == (\E task \in Tasks : TskCreateKernelTask(task)) \/ (created # {} /\ TskSchedule)

(* A timer would call TskSchedule again and again.                         *)
SchedFairness == WF_schedVars(created # {} /\ TskSchedule)

SchedSpec == SchedInit /\ [][SchedNext]_schedVars /\ SchedFairness

(* The list holds every task once, in the order of the process numbers.    *)
ListInPidOrder ==
  /\ kNextPid = Cardinality(created)
  /\ \A t \in created :
       IF t = kLastTask THEN taskNext[t] = NoTask /\ pid[t] = kNextPid - 1
       ELSE taskNext[t] \in created /\ pid[taskNext[t]] = pid[t] + 1
  /\ created # {} => pid[kTasks] = 0

(* Every task runs again and again, also those created later.              *)
EveryTaskRuns == \A t \in Tasks : (t \in created) ~> (kTask = t)

(* The round robin is fair and complete: TskSchedule runs every task that  *)
(* TskCreateKernelTask put on the list, again and again, and the list      *)
(* holds each of them once, in the order of their numbers.                 *)
RoundRobin == EveryTaskRuns /\ []ListInPidOrder

(***************************************************************************)
(* The inductive invariant: the last task is on the list once there is a   *)
(* task at all.                                                            *)
(***************************************************************************)
SchedIInv ==
  /\ created \subseteq Tasks /\ IsFiniteSet(created) /\ kNextPid \in Nat
  /\ taskNext \in [Tasks -> Tasks \cup {NoTask}] /\ pid \in [Tasks -> Nat]
  /\ IF created = {} THEN kTasks = NoTask ELSE kTasks \in created /\ kLastTask \in created
  /\ ListInPidOrder
=============================================================================
