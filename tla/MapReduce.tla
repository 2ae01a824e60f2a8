----------------------------- MODULE MapReduce -----------------------------
(***************************************************************************)
(* The MapReduce coordinator of src/mr/coordinator.go, the workers of      *)
(* src/mr/worker.go and the files they share.                              *)
(*                                                                         *)
(* The handlers of the coordinator run under its mutex and are atomic; a   *)
(* worker's steps are its RPCs and its operations on files.  Map and       *)
(* Reduce functions are deterministic, so a file is told by whether it has *)
(* all of its contents, and every bucket of a map task has some.           *)
(***************************************************************************)
EXTENDS Integers, FiniteSets

CONSTANTS
    Worker,
    nMap, nReduce

\* Bounds of the instance that is checked.
CONSTANTS
    MaxFaults,      \* crashes of workers and failed file operations
    MaxTimeouts     \* tasks that time out while their worker still runs

ASSUME MapReduceAssumption ==
    /\ nMap \in Nat \ {0} /\ nReduce \in Nat \ {0}
    /\ MaxFaults \in Nat /\ MaxTimeouts \in Nat

VARIABLES
    mapTasks,       \* Coordinator.mapTasks[i].State
    reduceTasks,    \* Coordinator.reduceTasks[i].State
    mapDone, reduceDone, phase, allDone,
    worker,         \* what each worker is doing
    intermediate,   \* the files mr-X-Y
    output,         \* the files mr-out-Y
    ignored,        \* history: the reduce tasks whose completion was reported by a
                    \* worker that had ignored an error
    faults, timeouts

coordinatorVars == <<mapTasks, reduceTasks, mapDone, reduceDone, phase, allDone, ignored>>
files == <<intermediate, output>>
bounds == <<faults, timeouts>>
vars == <<coordinatorVars, worker, files, bounds>>

MapId == 0..(nMap - 1)
ReduceId == 0..(nReduce - 1)
TaskStates == {"TaskIdle", "TaskInProgress", "TaskCompleted"}

Nobody == "nobody"

\* creator: who truncated the file last.  Every writer of a file writes the same
\* bytes at the same places, so the file is whole once its last creator has closed
\* it.  spoilt: a reducer that had missed some of its input, or whose writes failed
\* in part, wrote to it since.
File == [creator : Worker \cup {Nobody}, whole : BOOLEAN, spoilt : BOOLEAN]
NoFile == [creator |-> Nobody, whole |-> FALSE, spoilt |-> FALSE]
Right(f) == f.whole /\ ~f.spoilt

\* at: where in its loop the worker is; next: the index of the loop over files;
\* missed: a reducer did not read all of its input; erred: a reducer ignored an error
\* of a file operation; success: what it will report.
WorkerState ==
    [at : {"idle", "sleeping", "open", "read", "create", "write", "report", "exited"},
     type : {"MapTask", "ReduceTask"}, task : Nat, next : Nat,
     missed : BOOLEAN, erred : BOOLEAN, success : BOOLEAN]

IdleWorker ==
    [at |-> "idle", type |-> "MapTask", task |-> 0, next |-> 0,
     missed |-> FALSE, erred |-> FALSE, success |-> FALSE]

\* MakeCoordinator, and workers that have just been started
Init ==
    /\ mapTasks = [i \in MapId |-> "TaskIdle"]
    /\ reduceTasks = [i \in ReduceId |-> "TaskIdle"]
    /\ mapDone = 0 /\ reduceDone = 0
    /\ phase = "MapTask" /\ allDone = FALSE
    /\ worker = [w \in Worker |-> IdleWorker]
    /\ intermediate = [m \in MapId |-> [r \in ReduceId |-> NoFile]]
    /\ output = [r \in ReduceId |-> NoFile]
    /\ ignored = {}
    /\ faults = 0 /\ timeouts = 0

-----------------------------------------------------------------------------
(* The coordinator *)

\* The first task of a list that is idle.
FirstIdle(tasks, i) ==
    /\ tasks[i] = "TaskIdle"
    /\ \A j \in DOMAIN tasks : j < i => tasks[j] # "TaskIdle"

NoneIdle(tasks) == \A i \in DOMAIN tasks : tasks[i] # "TaskIdle"

\* The worker has been given a task.
Given(w, type, i, at) ==
    worker' = [worker EXCEPT ![w] = [IdleWorker EXCEPT !.at = at, !.type = type, !.task = i]]

Goto(w, at) == worker' = [worker EXCEPT ![w].at = at]

\* The worker is at the top of its loop, and keeps nothing from one turn to the next.
Idle(w) == worker' = [worker EXCEPT ![w] = IdleWorker]

\* A call of Coordinator.GetTask and what the worker makes of the answer.
GetMapTask(w) ==
    /\ worker[w].at = "idle" /\ ~allDone /\ phase = "MapTask"
    /\ \E i \in MapId :
          /\ FirstIdle(mapTasks, i)
          /\ mapTasks' = [mapTasks EXCEPT ![i] = "TaskInProgress"]
          /\ Given(w, "MapTask", i, "open")
    /\ UNCHANGED <<reduceTasks, mapDone, reduceDone, phase, allDone, ignored, files, bounds>>

GetReduceTask(w) ==
    /\ worker[w].at = "idle" /\ ~allDone /\ phase = "ReduceTask"
    /\ \E i \in ReduceId :
          /\ FirstIdle(reduceTasks, i)
          /\ reduceTasks' = [reduceTasks EXCEPT ![i] = "TaskInProgress"]
          /\ Given(w, "ReduceTask", i, "read")
    /\ UNCHANGED <<mapTasks, mapDone, reduceDone, phase, allDone, ignored, files, bounds>>

GetWaitTask(w) ==
    /\ worker[w].at = "idle" /\ ~allDone
    /\ NoneIdle(IF phase = "MapTask" THEN mapTasks ELSE reduceTasks)
    /\ Goto(w, "sleeping")
    /\ UNCHANGED <<coordinatorVars, files, bounds>>

GetExitTask(w) ==
    /\ worker[w].at = "idle" /\ allDone
    /\ Goto(w, "exited")
    /\ UNCHANGED <<coordinatorVars, files, bounds>>

\* A slip for the runs: the coordinator does not look whether the task is completed.
NeverDone(tasks, i) == FALSE

\* ReportTask's check that avoids completing a task twice.
AlreadyDone(tasks, i) == tasks[i] = "TaskCompleted"

\* Coordinator.ReportTask: a task that is completed already is left alone, whoever
\* reports it; any other is completed, or given back when its worker failed.
ReportMapTask(w) ==
    LET i == worker[w].task
    IN  /\ worker[w].at = "report" /\ worker[w].type = "MapTask"
        /\ \/ /\ AlreadyDone(mapTasks, i)
              /\ UNCHANGED <<mapTasks, mapDone, phase>>
           \/ /\ ~AlreadyDone(mapTasks, i) /\ worker[w].success
              /\ mapTasks' = [mapTasks EXCEPT ![i] = "TaskCompleted"]
              /\ mapDone' = mapDone + 1
              /\ phase' = IF mapDone' = nMap THEN "ReduceTask" ELSE phase
           \/ /\ ~AlreadyDone(mapTasks, i) /\ ~worker[w].success
              /\ mapTasks' = [mapTasks EXCEPT ![i] = "TaskIdle"]
              /\ UNCHANGED <<mapDone, phase>>
        /\ Idle(w)
        /\ UNCHANGED <<reduceTasks, reduceDone, allDone, ignored, files, bounds>>

ReportReduceTask(w) ==
    LET i == worker[w].task
    IN  /\ worker[w].at = "report" /\ worker[w].type = "ReduceTask"
        /\ \/ /\ AlreadyDone(reduceTasks, i)
              /\ UNCHANGED <<reduceTasks, reduceDone, allDone, ignored>>
           \/ /\ ~AlreadyDone(reduceTasks, i) /\ worker[w].success
              /\ reduceTasks' = [reduceTasks EXCEPT ![i] = "TaskCompleted"]
              /\ reduceDone' = reduceDone + 1
              /\ allDone' = (allDone \/ reduceDone' = nReduce)
              /\ ignored' = IF worker[w].erred THEN ignored \cup {i} ELSE ignored
           \/ /\ ~AlreadyDone(reduceTasks, i) /\ ~worker[w].success
              /\ reduceTasks' = [reduceTasks EXCEPT ![i] = "TaskIdle"]
              /\ UNCHANGED <<reduceDone, allDone, ignored>>
        /\ Idle(w)
        /\ UNCHANGED <<mapTasks, mapDone, phase, files, bounds>>

\* Some live worker is at the task.
Working(type, i) ==
    \E w \in Worker :
        /\ worker[w].type = type /\ worker[w].task = i
        /\ worker[w].at \in {"open", "read", "create", "write", "report"}

\* Slips for the runs: the start time is compared for every task that was started;
\* the timeout is logged and the task left as it is.
Started(tasks) == {i \in DOMAIN tasks : tasks[i] # "TaskIdle"}
NotReset(tasks, T) == tasks

InProgress(tasks) == {i \in DOMAIN tasks : tasks[i] = "TaskInProgress"}
Reset(tasks, T) == [i \in DOMAIN tasks |-> IF i \in T THEN "TaskIdle" ELSE tasks[i]]

\* One round of checkTimeoutTasks that finds the tasks of M and R older than ten
\* seconds.  The goroutine ends when everything is done.
checkTimeoutTasks ==
    \E M \in SUBSET InProgress(mapTasks), R \in SUBSET InProgress(reduceTasks) :
        LET slow == {i \in M : Working("MapTask", i)} \cup {i \in R : Working("ReduceTask", i)}
        IN  /\ M \cup R # {}
            /\ ~allDone
            /\ slow # {} => timeouts < MaxTimeouts
            /\ timeouts' = IF slow = {} THEN timeouts ELSE timeouts + 1
            /\ mapTasks' = Reset(mapTasks, M)
            /\ reduceTasks' = Reset(reduceTasks, R)
            /\ UNCHANGED <<mapDone, reduceDone, phase, allDone, ignored, worker, files,
                           faults>>

-----------------------------------------------------------------------------
(* The workers *)

Created(w) == [creator |-> w, whole |-> FALSE, spoilt |-> FALSE]

\* A close by another than the last creator adds nothing that is missing.
Closed(f, w, missed) ==
    [f EXCEPT !.whole = @ \/ f.creator = w, !.spoilt = @ \/ missed]

\* performMapTask: the input is read and mapped into buckets.
OpenInput(w) ==
    /\ worker[w].at = "open"
    /\ Goto(w, "create")
    /\ UNCHANGED <<coordinatorVars, files, bounds>>

\* performMapTask: the file of the next bucket is created, that is truncated.
CreateIntermediate(w) ==
    /\ worker[w].at = "create" /\ worker[w].type = "MapTask"
    /\ intermediate' = [intermediate EXCEPT ![worker[w].task][worker[w].next] = Created(w)]
    /\ Goto(w, "write")
    /\ UNCHANGED <<coordinatorVars, output, bounds>>

\* performMapTask: the bucket is written; after the last one success is reported.
CloseIntermediate(w) ==
    LET last == worker[w].next + 1 = nReduce
    IN  /\ worker[w].at = "write" /\ worker[w].type = "MapTask"
        /\ intermediate' = [intermediate EXCEPT ![worker[w].task][worker[w].next] =
                              Closed(@, w, FALSE)]
        /\ worker' = [worker EXCEPT ![w].at = IF last THEN "report" ELSE "create",
                                    ![w].next = IF last THEN 0 ELSE @ + 1,
                                    ![w].success = last]
        /\ UNCHANGED <<coordinatorVars, output, bounds>>

\* performReduceTask: the next intermediate file has been read, or missing is TRUE.
NextIntermediate(w, missing) ==
    LET last == worker[w].next + 1 = nMap
    IN  worker' = [worker EXCEPT ![w].at = IF last THEN "create" ELSE "read",
                                 ![w].next = IF last THEN 0 ELSE @ + 1,
                                 ![w].missed = @ \/ missing,
                                 ![w].erred = @ \/ (missing /\ faults' # faults)]

\* A file that does not exist is skipped, and one that is cut short ends where it ends.
ReadIntermediate(w) ==
    /\ worker[w].at = "read"
    /\ UNCHANGED <<coordinatorVars, files, bounds>>
    /\ NextIntermediate(w, ~Right(intermediate[worker[w].next][worker[w].task]))

\* performReduceTask: the output file is created, filled and closed.
CreateOutput(w) ==
    /\ worker[w].at = "create" /\ worker[w].type = "ReduceTask"
    /\ output' = [output EXCEPT ![worker[w].task] = Created(w)]
    /\ Goto(w, "write")
    /\ UNCHANGED <<coordinatorVars, intermediate, bounds>>

CloseOutput(w) ==
    /\ worker[w].at = "write" /\ worker[w].type = "ReduceTask"
    /\ output' = [output EXCEPT ![worker[w].task] = Closed(@, w, worker[w].missed)]
    /\ worker' = [worker EXCEPT ![w].at = "report", ![w].success = TRUE]
    /\ UNCHANGED <<coordinatorVars, intermediate, bounds>>

\* An operation on a file fails, or a worker dies.
Fault == faults < MaxFaults /\ faults' = faults + 1 /\ UNCHANGED timeouts

\* A slip for the runs: the error is not looked at and success reported.
FileErrorIgnored(w) ==
    /\ \/ worker[w].at \in {"open", "create"}
       \/ worker[w].at = "write" /\ worker[w].type = "MapTask"
    /\ Fault
    /\ worker' = [worker EXCEPT ![w].at = "report", ![w].success = TRUE]
    /\ UNCHANGED <<coordinatorVars, files>>

\* The input cannot be read, a file not created, or a pair of a map task not encoded:
\* failure is reported.
FileError(w) ==
    /\ \/ worker[w].at \in {"open", "create"}
       \/ worker[w].at = "write" /\ worker[w].type = "MapTask"
    /\ Fault
    /\ worker' = [worker EXCEPT ![w].at = "report", ![w].success = FALSE]
    /\ UNCHANGED <<coordinatorVars, files>>

\* performReduceTask: an intermediate file cannot be opened, or its decoding ends in an
\* error; it is skipped, or what was decoded so far is taken for all of it.
ReadError(w) ==
    /\ worker[w].at = "read"
    /\ Fault
    /\ NextIntermediate(w, TRUE)
    /\ UNCHANGED <<coordinatorVars, files>>

\* performReduceTask: writes fail, all of them, or some, so that the lines after them
\* are out of place.  Nobody looks, the file is closed and success reported.
WriteError(w) ==
    /\ worker[w].at = "write" /\ worker[w].type = "ReduceTask"
    /\ Fault
    /\ \E spoilt \in {output[worker[w].task].spoilt, TRUE} :
          output' = [output EXCEPT ![worker[w].task].spoilt = spoilt]
    /\ worker' = [worker EXCEPT ![w].at = "report", ![w].success = TRUE, ![w].erred = TRUE]
    /\ UNCHANGED <<coordinatorVars, intermediate>>

\* WaitTask: the worker sleeps for a second.
Wake(w) ==
    /\ worker[w].at = "sleeping"
    /\ Idle(w)
    /\ UNCHANGED <<coordinatorVars, files, bounds>>

\* A worker dies and a new one is started in its place.
Crash(w) ==
    /\ worker[w].at # "exited"
    /\ Fault
    /\ Idle(w)
    /\ UNCHANGED <<coordinatorVars, files>>

Step(w) ==
    \/ GetMapTask(w) \/ GetReduceTask(w) \/ GetWaitTask(w) \/ GetExitTask(w)
    \/ OpenInput(w) \/ CreateIntermediate(w) \/ CloseIntermediate(w)
    \/ ReadIntermediate(w) \/ CreateOutput(w) \/ CloseOutput(w)
    \/ ReportMapTask(w) \/ ReportReduceTask(w)
    \/ Wake(w)

Next ==
    \/ \E w \in Worker :
          Step(w) \/ FileError(w) \/ ReadError(w) \/ WriteError(w) \/ Crash(w)
    \/ checkTimeoutTasks

\* Workers run on, and the coordinator's timer keeps looking for old tasks.
Fairness == (\A w \in Worker : WF_vars(Step(w))) /\ WF_vars(checkTimeoutTasks)

Spec == Init /\ [][Next]_vars /\ Fairness

-----------------------------------------------------------------------------
(* Properties *)

\* Task states, phases, files and workers are of their types, and no counter passes
\* the number of its tasks.
TypeOK ==
    /\ mapTasks \in [MapId -> TaskStates] /\ reduceTasks \in [ReduceId -> TaskStates]
    /\ mapDone \in 0..nMap /\ reduceDone \in 0..nReduce
    /\ phase \in {"MapTask", "ReduceTask"} /\ allDone \in BOOLEAN
    /\ worker \in [Worker -> WorkerState]
    /\ intermediate \in [MapId -> [ReduceId -> File]]
    /\ output \in [ReduceId -> File]
    /\ ignored \subseteq ReduceId

Completed(tasks) == {i \in DOMAIN tasks : tasks[i] = "TaskCompleted"}

\* The counters count each completed task once, however often tasks time out and are
\* reported twice, and the phase and the end of the job are what the task lists say.
CountersExact ==
    /\ TypeOK
    /\ mapDone = Cardinality(Completed(mapTasks))
    /\ reduceDone = Cardinality(Completed(reduceTasks))
    /\ phase = "ReduceTask" <=> Completed(mapTasks) = MapId
    /\ allDone <=> Completed(reduceTasks) = ReduceId

\* No reduce task is given out, and no output file touched, before every map task
\* is completed.
ReduceAfterMap ==
    (\/ \E w \in Worker : worker[w].at # "idle" /\ worker[w].type = "ReduceTask"
     \/ \E r \in ReduceId : output[r] # NoFile)
        => Completed(mapTasks) = MapId

\* The files of a completed map task are whole, even if earlier attempts at it died
\* half way: the barrier between the phases protects what reducers read.  A worker
\* that runs on after its task has timed out may truncate them (os.Create in
\* performMapTask), so this is said of jobs in which that did not happen.
CompletedMapFilesWhole ==
    timeouts = 0 =>
        \A m \in Completed(mapTasks), r \in ReduceId : Right(intermediate[m][r])

\* When Done tells mrcoordinator.go that the job is finished, every mr-out-Y has all
\* of its contents, under the same condition and unless the very worker that completed
\* the task had skipped an input file it could not read or lost some of its writes:
\* crashes, failures that are reported, and errors ignored in another task or in an
\* attempt that was given up do no harm.
OutputRight ==
    timeouts = 0 /\ allDone => \A r \in ReduceId \ ignored : Right(output[r])

\* The job finishes, whichever workers died or were given up on the way.
JobFinishes == <>allDone
=============================================================================
