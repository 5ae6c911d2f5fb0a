------------------------------ MODULE Scheduler ------------------------------
(***************************************************************************)
(* gluon/scheduler.py: worker processes that share the tables              *)
(* scheduler_task (variables t...), scheduler_task_deps (visited) and      *)
(* scheduler_worker (variables w...).  Every worker process runs two       *)
(* threads: the main loop (pc) that assigns, pops, executes and reports    *)
(* tasks, and the heartbeat thread (hb) that renews the worker's row,      *)
(* obeys the status an administrator wrote there, buries dead workers and  *)
(* elects the ticker.                                                      *)
(*                                                                         *)
(* The steps follow the transactions of the code.  A SELECT and the first  *)
(* UPDATE after it are two steps (nothing in the code locks the rows it    *)
(* has read) unless Serializable; from its first write to its commit a     *)
(* transaction is one step (SQLite's write lock).                          *)
(*                                                                         *)
(* Time is abstract: a task is due or not, past its stop_time or not; a    *)
(* heartbeat is fresh, older than 3 heartbeats or older than 45.           *)
(***************************************************************************)
EXTENDS Integers, FiniteSets

CONSTANTS
  Workers,       \* worker names
  Tasks,         \* ids of scheduler_task
  None,          \* the empty assigned_worker_name; no task
  Late,          \* the tasks queued while the workers are running
  Repeats,       \* scheduler_task.repeats, 0 = unlimited
  RetryFailed,   \* scheduler_task.retry_failed, -1 = unlimited
  StopTimed,     \* the tasks with a stop_time
  Unplannable,   \* the tasks whose next_run_time cannot be computed
                 \* (prevent_drift with period 0, a cronline with no date)
  Deps,          \* scheduler_task_deps: pairs <<task_parent, task_child>>
  PerWorker,     \* tasks assigned per worker and round (50 in the code)
  MaxEmptyRuns,  \* max_empty_runs, 0 = never give up
  MaxTotalRuns,  \* max_total_runs, 0 = no limit
  AdminActions,  \* the statuses an administrator may write
  Serializable,  \* the database runs whole transactions one after another
  LateBeats,     \* a live heartbeat thread may be late
  ReusedNames,   \* a dead worker may restart under the same worker_name
  MaxAdmin,      \* bound: writes by administrators
  MaxCrashes,    \* bound: crashes of worker processes
  MaxDone,       \* bound: completed executions of one task
  MaxFails       \* bound: failed executions of one task

Absent == "absent"   \* no such row

TaskStatus   == {Absent, "QUEUED", "ASSIGNED", "RUNNING", "COMPLETED", "FAILED", "TIMEOUT", "EXPIRED"}
WorkerStatus == {"ACTIVE", "PICK", "DISABLED", "TERMINATE", "KILL", "STOP_TASK"}
Outcome      == {"COMPLETED", "FAILED", "TIMEOUT", "STOPPED"}
PC == {"top", "assign", "select", "write", "pop", "grab", "exec", "report",
       "idle", "due", "empty", "gone"}

ASSUME ConstAssumption ==
  /\ IsFiniteSet(Workers) /\ IsFiniteSet(Tasks)
  /\ None \notin Workers \union Tasks
  /\ Late \subseteq Tasks /\ StopTimed \subseteq Tasks /\ Unplannable \subseteq Tasks
  /\ Repeats \in [Tasks -> Nat]
  /\ RetryFailed \in [Tasks -> Nat \union {-1}]
  /\ Deps \subseteq Tasks \X Tasks
  /\ PerWorker \in Nat \ {0}
  /\ MaxEmptyRuns \in Nat /\ MaxTotalRuns \in Nat
  /\ AdminActions \subseteq WorkerStatus
  /\ Serializable \in BOOLEAN /\ LateBeats \in BOOLEAN /\ ReusedNames \in BOOLEAN
  /\ MaxAdmin \in Nat /\ MaxCrashes \in Nat /\ MaxDone \in Nat /\ MaxFails \in Nat

VARIABLES
  \* scheduler_task and scheduler_task_deps
  tstatus,   \* status
  tworker,   \* assigned_worker_name
  tdue,      \* next_run_time <= now
  tover,     \* stop_time < now
  trun,      \* times_run
  tfail,     \* times_failed
  visited,   \* the dependencies with can_visit
  \* scheduler_worker
  wrow,      \* status, or Absent
  wticker,   \* is_ticker
  wage,      \* last_heartbeat: 0 fresh, 1 older than 3 heartbeats, 2 older than 45
  wbusy,     \* worker_stats.status = RUNNING
  \* the memory of a worker process, its main thread ...
  pc,
  cur,       \* the task popped
  snap,      \* the columns of the popped task that report_task uses
  out,       \* the status of the TaskReport
  team,      \* assign_tasks: the workers that get tasks
  quota,     \* assign_tasks: limit
  batch,     \* assign_tasks: the tasks selected
  greedy,    \* assign_tasks found as many tasks as it may assign
  after,     \* where the main loop goes after assign_tasks
  empty,     \* empty_runs
  total,     \* w_stats.total
  \* ... and what it shares with its heartbeat thread
  wstat,     \* w_stats.status
  beating,   \* have_heartbeat
  isTicker,  \* is_a_ticker
  doAssign,  \* do_assign_tasks
  hb, hbrow, \* the heartbeat thread has read this status and not written yet
  \* counters of the model
  done,      \* completed executions of a task, recorded or not
  admins, crashes

taskVars == <<tstatus, tworker, tdue, tover, trun, tfail, visited>>
rowVars  == <<wrow, wticker, wage, wbusy>>
jobVars  == <<cur, snap, out>>
asgVars  == <<team, quota, batch, greedy, after>>
cntVars  == <<empty, total>>
shrVars  == <<wstat, beating, isTicker, doAssign>>
hbVars   == <<hb, hbrow>>
auxVars  == <<done, admins, crashes>>
vars == <<taskVars, rowVars, pc, jobVars, asgVars, cntVars, shrVars, hbVars, auxVars>>

NoSnap == [run |-> 0, fail |-> 0]

Init ==
  /\ tstatus = [t \in Tasks |-> IF t \in Late THEN Absent ELSE "QUEUED"]
  /\ tworker = [t \in Tasks |-> None]
  /\ tdue = [t \in Tasks |-> FALSE] /\ tover = [t \in Tasks |-> FALSE]
  /\ trun = [t \in Tasks |-> 0] /\ tfail = [t \in Tasks |-> 0]
  /\ visited = {}
  /\ wrow = [w \in Workers |-> Absent] /\ wticker = [w \in Workers |-> FALSE]
  /\ wage = [w \in Workers |-> 0] /\ wbusy = [w \in Workers |-> FALSE]
  /\ pc = [w \in Workers |-> "top"]
  /\ cur = [w \in Workers |-> None] /\ snap = [w \in Workers |-> NoSnap]
  /\ out = [w \in Workers |-> "STOPPED"]
  /\ team = [w \in Workers |-> {}] /\ quota = [w \in Workers |-> 0]
  /\ batch = [w \in Workers |-> {}] /\ greedy = [w \in Workers |-> FALSE]
  /\ after = [w \in Workers |-> "pop"]
  /\ empty = [w \in Workers |-> 0] /\ total = [w \in Workers |-> 0]
  /\ wstat = [w \in Workers |-> "RUNNING"] /\ beating = [w \in Workers |-> TRUE]
  /\ isTicker = [w \in Workers |-> FALSE] /\ doAssign = [w \in Workers |-> FALSE]
  /\ hb = [w \in Workers |-> FALSE] /\ hbrow = [w \in Workers |-> Absent]
  /\ done = [t \in Tasks |-> 0] /\ admins = 0 /\ crashes = 0

-----------------------------------------------------------------------------
(* The main loop: loop(). *)

\* The memory of a process: what __init__ and its first statements make of it, up
\* or not.  It ends with the process.
Memory(w, up) ==
  /\ beating' = [beating EXCEPT ![w] = up] /\ wstat' = [wstat EXCEPT ![w] = "RUNNING"]
  /\ isTicker' = [isTicker EXCEPT ![w] = FALSE] /\ doAssign' = [doAssign EXCEPT ![w] = FALSE]
  /\ greedy' = [greedy EXCEPT ![w] = FALSE] /\ team' = [team EXCEPT ![w] = {}]
  /\ quota' = [quota EXCEPT ![w] = 0] /\ batch' = [batch EXCEPT ![w] = {}]
  /\ after' = [after EXCEPT ![w] = "pop"]
  /\ empty' = [empty EXCEPT ![w] = 0] /\ total' = [total EXCEPT ![w] = 0]
  /\ hb' = [hb EXCEPT ![w] = FALSE] /\ hbrow' = [hbrow EXCEPT ![w] = Absent]

\* have_heartbeat is gone: the process ends.  Otherwise a worker that is not
\* DISABLED goes on, through assign_tasks when its heartbeat thread asked it to.
Top(w) ==
  /\ pc[w] = "top"
  /\ \/ /\ ~beating[w] /\ pc' = [pc EXCEPT ![w] = "gone"]
        /\ Memory(w, FALSE)
     \/ /\ beating[w] /\ wstat[w] # "DISABLED"
        /\ IF isTicker[w] /\ doAssign[w]
           THEN pc' = [pc EXCEPT ![w] = "assign"] /\ after' = [after EXCEPT ![w] = "pop"]
           ELSE pc' = [pc EXCEPT ![w] = "pop"] /\ UNCHANGED after
        /\ UNCHANGED <<team, quota, batch, greedy, cntVars, shrVars, hbVars>>
  /\ UNCHANGED <<taskVars, rowVars, jobVars, auxVars>>

\* A task that may be assigned: waiting, due, and not the parent of a
\* dependency whose child has still to complete.
WaitingUnlessRunning(t) == tstatus[t] \notin {Absent, "RUNNING"}   \* mutant
Waiting(t) == tstatus[t] \in {"QUEUED", "ASSIGNED"}
AvailableAnyway(t) == Waiting(t) /\ tdue[t]   \* mutant
AvailableQueued(t) == tstatus[t] = "QUEUED" /\ tdue[t] /\ ~ \E d \in Deps \ visited : d[1] = t   \* mutant
Available(t) == Waiting(t) /\ tdue[t] /\ ~ \E d \in Deps \ visited : d[1] = t

\* assign_tasks, first transaction: the ACTIVE workers (those that reported
\* themselves RUNNING get no task) and the tasks that expired meanwhile.
AssignStart(w) ==
  LET crew == {v \in Workers : wrow[v] = "ACTIVE"}
      idlers == {v \in crew : ~wbusy[v]}
      limit == Cardinality(crew) * PerWorker
  IN
  /\ pc[w] = "assign"
  /\ tstatus' = [t \in Tasks |-> IF Waiting(t) /\ tover[t] THEN "EXPIRED" ELSE tstatus[t]]
  /\ team' = [team EXCEPT ![w] = idlers]
  /\ IF idlers = {}
     THEN /\ pc' = [pc EXCEPT ![w] = after[w]]
          /\ greedy' = [greedy EXCEPT ![w] = limit = 0] /\ UNCHANGED quota
     ELSE /\ pc' = [pc EXCEPT ![w] = "select"]
          /\ quota' = [quota EXCEPT ![w] = limit] /\ UNCHANGED greedy
  /\ UNCHANGED <<tworker, tdue, tover, trun, tfail, visited, rowVars, jobVars, batch, after,
                 cntVars, shrVars, hbVars, auxVars>>

\* The tasks of a round, as many as the limit allows.
Round(S, w) ==
  /\ \A t \in S : Available(t)
  /\ Cardinality(S) <= quota[w]
  /\ Cardinality(S) < quota[w] => S = {t \in Tasks : Available(t)}

\* The queue is broken up evenly among the workers.
Even(share, S, ws) ==
  \A v, u \in ws : Cardinality({t \in S : share[t] = v})
                     <= Cardinality({t \in S : share[t] = u}) + 1

AssignSelect(w) ==
  /\ pc[w] = "select" /\ ~Serializable
  /\ \E S \in SUBSET Tasks : Round(S, w) /\ batch' = [batch EXCEPT ![w] = S]
  /\ pc' = [pc EXCEPT ![w] = "write"]
  /\ UNCHANGED <<taskVars, rowVars, jobVars, team, quota, greedy, after,
                 cntVars, shrVars, hbVars, auxVars>>

\* The UPDATEs look at the status again, so a task that was popped meanwhile
\* stays with its worker.
AssignRound(w, S) ==
  /\ \E share \in [S -> team[w]] :
       /\ Even(share, S, team[w])
       /\ tworker' = [t \in Tasks |-> IF t \in S /\ Waiting(t) THEN share[t] ELSE tworker[t]]
  /\ tstatus' = [t \in Tasks |-> IF t \in S /\ Waiting(t) THEN "ASSIGNED" ELSE tstatus[t]]
  /\ greedy' = [greedy EXCEPT ![w] = Cardinality(S) >= quota[w]]
  /\ empty' = [empty EXCEPT ![w] = IF S = {} THEN @ ELSE 0]
  /\ batch' = [batch EXCEPT ![w] = {}]
  /\ team' = [team EXCEPT ![w] = {}]
  /\ quota' = [quota EXCEPT ![w] = 0]
  /\ pc' = [pc EXCEPT ![w] = after[w]]
  /\ UNCHANGED <<tdue, tover, trun, tfail, visited, rowVars, jobVars, after, total,
                 shrVars, hbVars, auxVars>>

AssignWrite(w) ==
  \/ pc[w] = "write" /\ AssignRound(w, batch[w])
  \/ pc[w] = "select" /\ Serializable /\ \E S \in SUBSET Tasks : Round(S, w) /\ AssignRound(w, S)

\* pop_task: the SELECT ...
Mine(w) == {t \in Tasks : tworker[t] = w /\ tstatus[t] = "ASSIGNED"}
RowSwapped(t) == [run |-> tfail[t], fail |-> trun[t]]   \* mutant
Row(t) == [run |-> trun[t], fail |-> tfail[t]]

PopSelect(w) ==
  /\ pc[w] = "pop" /\ ~Serializable
  /\ \E t \in Mine(w) :
       /\ cur' = [cur EXCEPT ![w] = t]
       /\ snap' = [snap EXCEPT ![w] = Row(t)]
  /\ pc' = [pc EXCEPT ![w] = "grab"]
  /\ UNCHANGED <<taskVars, rowVars, out, asgVars, cntVars, shrVars, hbVars, auxVars>>

\* ... and the UPDATE by id, which looks neither at the status nor at the
\* worker.  Computing next_run_time comes after the commit: when it raises,
\* wrapped_pop_task pops again and the task stays RUNNING.  A worker that
\* reaches max_total_runs dies first and executes the task then.
PopTask(w, t, r) ==
  /\ tstatus' = [tstatus EXCEPT ![t] = "RUNNING"]
  /\ IF t \in Unplannable
     THEN /\ pc' = [pc EXCEPT ![w] = "pop"]
          /\ cur' = [cur EXCEPT ![w] = None] /\ snap' = [snap EXCEPT ![w] = NoSnap]
          /\ UNCHANGED <<cntVars, wstat, beating>>
     ELSE LET n == IF MaxTotalRuns = 0 THEN 0 ELSE total[w] + 1 IN
          /\ pc' = [pc EXCEPT ![w] = "exec"]
          /\ cur' = [cur EXCEPT ![w] = t] /\ snap' = [snap EXCEPT ![w] = r]
          /\ empty' = [empty EXCEPT ![w] = 0]
          /\ total' = [total EXCEPT ![w] = n]
          /\ wstat' = [wstat EXCEPT ![w] = "RUNNING"]
          /\ beating' = [beating EXCEPT ![w] = @ /\ (MaxTotalRuns = 0 \/ n < MaxTotalRuns)]
  /\ UNCHANGED <<tworker, tdue, tover, trun, tfail, visited, rowVars, out, asgVars,
                 isTicker, doAssign, hbVars, auxVars>>

PopGrab(w) ==
  \/ pc[w] = "grab" /\ PopTask(w, cur[w], snap[w])
  \/ pc[w] = "pop" /\ Serializable /\ \E t \in Mine(w) : PopTask(w, t, Row(t))

PopNothing(w) ==
  /\ pc[w] = "pop" /\ Mine(w) = {}
  /\ pc' = [pc EXCEPT ![w] = "idle"]
  /\ UNCHANGED <<taskVars, rowVars, jobVars, asgVars, cntVars, shrVars, hbVars, auxVars>>

\* has_pending_due_tasks
DueWorkIgnored == FALSE                              \* mutant
DueWorkAnyStatus ==                                 \* mutant: settled tasks counted
  \E t \in Tasks : tdue[t] \/ tstatus[t] \in {"COMPLETED", "FAILED", "TIMEOUT", "EXPIRED"}
DueWork == \E t \in Tasks : Waiting(t) /\ tdue[t]

\* No task popped: is one due already?  The answer is a transaction of its own, and
\* nobody looks at it where no number of empty runs ends the process.
CountDue(w) ==
  /\ pc[w] = "idle"
  /\ pc' = [pc EXCEPT ![w] = IF DueWork \/ MaxEmptyRuns = 0 THEN "due" ELSE "empty"]
  /\ UNCHANGED <<taskVars, rowVars, jobVars, asgVars, cntVars, shrVars, hbVars, auxVars>>

\* What the answer said then decides: an empty run is counted, and at max_empty_runs
\* the worker dies.  A greedy ticker assigns once more; sleep.
Idle(w) ==
  LET n == IF pc[w] = "due" THEN 0 ELSE empty[w] + 1
      again == isTicker[w] /\ greedy[w]
  IN
  /\ pc[w] \in {"due", "empty"}
  /\ empty' = [empty EXCEPT ![w] = n]
  /\ beating' = [beating EXCEPT ![w] = @ /\ (n = 0 \/ n < MaxEmptyRuns)]
  /\ pc' = [pc EXCEPT ![w] = IF again THEN "assign" ELSE "top"]
  /\ after' = [after EXCEPT ![w] = IF again THEN "top" ELSE @]
  /\ UNCHANGED <<taskVars, rowVars, jobVars, team, quota, batch, greedy, total,
                 wstat, isTicker, doAssign, hbVars, auxVars>>

\* execute: the executor process ends, fails, times out or dies.
Finish(w, o) ==
  /\ pc[w] = "exec"
  /\ IF o = "COMPLETED" THEN done[cur[w]] < MaxDone ELSE tfail[cur[w]] < MaxFails
  /\ out' = [out EXCEPT ![w] = o]
  /\ done' = [done EXCEPT ![cur[w]] = IF o = "COMPLETED" THEN @ + 1 ELSE @]
  /\ pc' = [pc EXCEPT ![w] = "report"]
  /\ UNCHANGED <<taskVars, rowVars, cur, snap, asgVars, cntVars, shrVars, hbVars,
                 admins, crashes>>

\* report_task: the status after a run, from the columns read at pop time.
RunAgainOnceMore(t, r) == r.run < Repeats[t] \/ Repeats[t] = 0   \* mutant
RunAgain(t, r) == r.run + 1 < Repeats[t] \/ Repeats[t] = 0
RetryOnceMore(t, r) == r.fail <= RetryFailed[t] \/ RetryFailed[t] = -1   \* mutant
Retry(t, r) == \/ RetryFailed[t] # 0 /\ r.fail < RetryFailed[t]
               \/ RetryFailed[t] = -1

AfterRunUnmapped(t, r, o, expired) ==   \* mutant: st_mapping forgotten
  IF (IF o = "COMPLETED" THEN RunAgain(t, r) ELSE Retry(t, r)) THEN "QUEUED" ELSE o
AfterRun(t, r, o, expired) ==
  IF o = "COMPLETED"
  THEN IF ~RunAgain(t, r) THEN "COMPLETED" ELSE IF expired THEN "EXPIRED" ELSE "QUEUED"
  ELSE IF Retry(t, r) THEN "QUEUED" ELSE IF o = "TIMEOUT" THEN "TIMEOUT" ELSE "FAILED"

\* The UPDATE is by id: whoever has the task now, the report wins.
Report(w) ==
  LET t == cur[w]
      r == snap[w]
      o == out[w]
  IN
  /\ pc[w] = "report"
  /\ \E expired \in (IF t \in StopTimed THEN BOOLEAN ELSE {FALSE}) :
       tstatus' = [tstatus EXCEPT ![t] = AfterRun(t, r, o, expired)]
  /\ tdue' = [tdue EXCEPT ![t] = FALSE]
  /\ trun' = [trun EXCEPT ![t] = IF o = "COMPLETED" THEN r.run + 1 ELSE @]
  /\ tfail' = [tfail EXCEPT ![t] = IF o = "COMPLETED" THEN 0 ELSE @ + 1]
  /\ visited' = IF tstatus'[t] = "COMPLETED" THEN visited \union {d \in Deps : d[2] = t}
                ELSE visited
  /\ wstat' = [wstat EXCEPT ![w] = IF @ = "DISABLED" THEN @ ELSE "ACTIVE"]
  /\ pc' = [pc EXCEPT ![w] = "top"]
  /\ cur' = [cur EXCEPT ![w] = None] /\ snap' = [snap EXCEPT ![w] = NoSnap]
  /\ out' = [out EXCEPT ![w] = "STOPPED"]
  /\ UNCHANGED <<tworker, tover, rowVars, asgVars, cntVars, beating, isTicker, doAssign,
                 hbVars, auxVars>>

-----------------------------------------------------------------------------
(* The heartbeat thread: send_heartbeat(). *)

HeartbeatRead(w) ==
  /\ ~Serializable /\ pc[w] # "gone" /\ beating[w] /\ ~hb[w]
  /\ hb' = [hb EXCEPT ![w] = TRUE]
  /\ hbrow' = [hbrow EXCEPT ![w] = wrow[w]]
  /\ UNCHANGED <<taskVars, rowVars, pc, jobVars, asgVars, cntVars, shrVars, auxVars>>

\* Who is dead, given the rows and ages after the worker's own update.
DeadTooSoon(row, age) == {v \in Workers : row[v] = "ACTIVE"}                \* mutant
Dead(row, age) ==
  {v \in Workers : \/ row[v] = "ACTIVE" /\ age[v] >= 1
                   \/ row[v] \notin {"ACTIVE", Absent} /\ age[v] = 2}

\* The tasks they leave behind.
Freed(dead) == {t \in Tasks : tstatus[t] = "RUNNING" /\ tworker[t] \in dead}

\* The other ACTIVE workers, and whether one of them is the ticker.
Others(w, row, dead) == {v \in Workers \ {w} : row[v] = "ACTIVE" /\ v \notin dead}
RivalUnseen(w, row, dead) == FALSE                                           \* mutant
Rival(w, row, dead) == \E v \in Others(w, row, dead) : wticker[v]

\* being_a_ticker: is_ticker after the election.  An idle worker without a rival
\* takes the role from everyone else, a busy one leaves it to the others.
ElectedBlind(w, row, dead, idler) ==                                         \* mutant
  [v \in Workers |-> v \notin dead /\ (wticker[v] \/ (idler /\ v = w /\ row[w] # Absent))]
Elected(w, row, dead, idler) ==
  [v \in Workers |->
     /\ v \notin dead
     /\ \/ Rival(w, row, dead) /\ wticker[v]
        \/ ~Rival(w, row, dead) /\ idler /\ v = w /\ row[w] # Absent
        \/ /\ ~Rival(w, row, dead) /\ ~idler /\ wticker[v]
           /\ v # w \/ Others(w, row, dead) = {}]

\* Every fifth beat, or when picked: free the RUNNING tasks of the dead, delete
\* their rows, and decide who is the ticker.  row, age and stat are the rows,
\* ages and w_stats.status after the worker's own update.
Coordinate(w, row, age, stat) ==
  LET dead == Dead(row, age)
      idler == stat = "ACTIVE"
  IN
  /\ tstatus' = [t \in Tasks |-> IF t \in Freed(dead) THEN "QUEUED" ELSE tstatus[t]]
  /\ tworker' = [t \in Tasks |-> IF t \in Freed(dead) THEN None ELSE tworker[t]]
  /\ wrow' = [v \in Workers |-> IF v \in dead THEN Absent ELSE row[v]]
  /\ wage' = [v \in Workers |-> IF v \in dead THEN 0 ELSE age[v]]
  /\ wticker' = Elected(w, row, dead, idler)
  /\ isTicker' = [isTicker EXCEPT ![w] = /\ ~Rival(w, row, dead)
                                         /\ idler \/ Others(w, row, dead) = {}]
  /\ doAssign' = [doAssign EXCEPT ![w] = idler]

NoCoordination(w, row, age) ==
  /\ wrow' = row /\ wage' = age
  /\ doAssign' = [doAssign EXCEPT ![w] = FALSE]
  /\ UNCHANGED <<tstatus, tworker, wticker, isTicker>>

\* terminate_process: the executor ends and execute() reports STOPPED, or FAILED, of
\* which report_task makes the same (TaskRun has the details).
Terminate(w) ==
  IF pc[w] = "exec"
  THEN pc' = [pc EXCEPT ![w] = "report"] /\ out' = [out EXCEPT ![w] = "STOPPED"]
  ELSE UNCHANGED <<pc, out>>

QuitsIfKilled(s) == s = "KILL"                                               \* mutant
Quits(s) == s \in {"TERMINATE", "KILL"}

\* The beat once the row was read with status s: insert the row, sleep on,
\* give up, die, or renew the row as ACTIVE (whatever it says by now).
Beat(w, s, fifth) ==
  LET stat == CASE s = Absent -> "ACTIVE"
                [] s = "DISABLED" \/ Quits(s) -> s
                [] OTHER -> IF wstat[w] = "RUNNING" THEN "RUNNING" ELSE "ACTIVE"
      \* the row is written: inserted, or updated if it is still there
      written == ~Quits(s) /\ (s = Absent \/ wrow[w] # Absent)
      row == IF written /\ s # "DISABLED" THEN [wrow EXCEPT ![w] = "ACTIVE"] ELSE wrow
      age == IF written THEN [wage EXCEPT ![w] = 0] ELSE wage
  IN
  /\ wstat' = [wstat EXCEPT ![w] = stat]
  /\ beating' = [beating EXCEPT ![w] = @ /\ ~Quits(s)]
  /\ wbusy' = IF written
              THEN [wbusy EXCEPT ![w] = s # "DISABLED" /\ wstat[w] = "RUNNING"] ELSE wbusy
  /\ IF s \in {"KILL", "STOP_TASK"} THEN Terminate(w) ELSE UNCHANGED <<pc, out>>
  /\ IF s = "KILL"
     THEN UNCHANGED <<tstatus, tworker, wrow, wage, wticker, isTicker, doAssign>>
     ELSE IF fifth \/ s = "PICK" THEN Coordinate(w, row, age, stat)
     ELSE NoCoordination(w, row, age)
  /\ hb' = [hb EXCEPT ![w] = FALSE] /\ hbrow' = [hbrow EXCEPT ![w] = Absent]
  /\ UNCHANGED <<tdue, tover, trun, tfail, visited, cur, snap, asgVars, cntVars, auxVars>>

HeartbeatWrite(w, fifth) ==
  /\ pc[w] # "gone"
  /\ \/ hb[w] /\ Beat(w, hbrow[w], fifth)
     \/ Serializable /\ beating[w] /\ Beat(w, wrow[w], fifth)

-----------------------------------------------------------------------------
(* Applications, administrators and the environment. *)

\* queue_task; with immediate the ticker's row is set to PICK, whatever it says.
QueueTask(t, immediate) ==
  /\ tstatus[t] = Absent
  /\ tstatus' = [tstatus EXCEPT ![t] = "QUEUED"]
  /\ wrow' = [w \in Workers |-> IF immediate /\ wticker[w] THEN "PICK" ELSE wrow[w]]
  /\ UNCHANGED <<tworker, tdue, tover, trun, tfail, visited, wticker, wage, wbusy,
                 pc, jobVars, asgVars, cntVars, shrVars, hbVars, auxVars>>

\* set_worker_status: one named worker, or those of the groups (all of them, or
\* as many as limit) whose status is not the new one already.  The caller's
\* exclude list never reaches the query: list.append returns None.
SetWorkerStatus(action) ==
  /\ action \in AdminActions /\ admins < MaxAdmin
  /\ admins' = admins + 1
  /\ \E S \in SUBSET {w \in Workers : wrow[w] \notin {Absent, action}} :
       /\ S # {}
       /\ wrow' = [w \in Workers |-> IF w \in S THEN action ELSE wrow[w]]
  /\ UNCHANGED <<taskVars, wticker, wage, wbusy, pc, jobVars, asgVars, cntVars, shrVars,
                 hbVars, done, crashes>>

BecomeDue(t) ==
  /\ tstatus[t] \in {"QUEUED", "ASSIGNED"} /\ ~tdue[t]
  /\ tdue' = [tdue EXCEPT ![t] = TRUE]
  /\ UNCHANGED <<tstatus, tworker, tover, trun, tfail, visited, rowVars, pc, jobVars, asgVars,
                 cntVars, shrVars, hbVars, auxVars>>

PassStopTime(t) ==
  /\ t \in StopTimed /\ ~tover[t]
  /\ tover' = [tover EXCEPT ![t] = TRUE]
  /\ UNCHANGED <<tstatus, tworker, tdue, trun, tfail, visited, rowVars, pc, jobVars, asgVars,
                 cntVars, shrVars, hbVars, auxVars>>

\* A heartbeat grows old once its thread has ended: the process is dead, or it
\* executes a last task.  A live thread lets it grow old when LateBeats, and up to
\* 3 heartbeats when adj_hibernation has stretched the sleep of a DISABLED worker.
MayLapse(w) ==
  \/ pc[w] = "gone" \/ LateBeats
  \/ ~beating[w] /\ pc[w] = "exec"
  \/ wstat[w] = "DISABLED" /\ wage[w] = 0

Age(w) ==
  /\ wrow[w] # Absent /\ wage[w] < 2 /\ MayLapse(w)
  /\ wage' = [wage EXCEPT ![w] = @ + 1]
  /\ UNCHANGED <<taskVars, wrow, wticker, wbusy, pc, jobVars, asgVars, cntVars, shrVars,
                 hbVars, auxVars>>

\* The process dies; what it had not committed is rolled back.
Crash(w) ==
  /\ pc[w] # "gone" /\ crashes < MaxCrashes
  /\ crashes' = crashes + 1
  /\ pc' = [pc EXCEPT ![w] = "gone"]
  /\ cur' = [cur EXCEPT ![w] = None] /\ snap' = [snap EXCEPT ![w] = NoSnap]
  /\ out' = [out EXCEPT ![w] = "STOPPED"]
  /\ Memory(w, FALSE)
  /\ UNCHANGED <<taskVars, rowVars, done, admins>>

\* A process with worker_name w starts: Scheduler.__init__.
Restart(w) ==
  /\ ReusedNames /\ pc[w] = "gone"
  /\ pc' = [pc EXCEPT ![w] = "top"]
  /\ Memory(w, TRUE)
  /\ UNCHANGED <<taskVars, rowVars, jobVars, auxVars>>

Loop(w) == Top(w) \/ AssignStart(w) \/ AssignSelect(w) \/ AssignWrite(w) \/ PopSelect(w)
           \/ PopGrab(w) \/ PopNothing(w) \/ CountDue(w) \/ Idle(w) \/ Report(w)

Next ==
  \/ \E w \in Workers :
       \/ Loop(w)
       \/ \E o \in Outcome : Finish(w, o)
       \/ HeartbeatRead(w)
       \/ \E fifth \in BOOLEAN : HeartbeatWrite(w, fifth)
       \/ Age(w) \/ Crash(w) \/ Restart(w)
  \/ \E t \in Tasks : \/ \E immediate \in BOOLEAN : QueueTask(t, immediate)
                      \/ BecomeDue(t) \/ PassStopTime(t)
  \/ \E action \in AdminActions : SetWorkerStatus(action)

Spec == Init /\ [][Next]_vars
-----------------------------------------------------------------------------
(* Properties. *)

TaskTypeOK ==
  /\ tstatus \in [Tasks -> TaskStatus] /\ tworker \in [Tasks -> Workers \union {None}]
  /\ tdue \in [Tasks -> BOOLEAN] /\ tover \in [Tasks -> BOOLEAN]
  /\ trun \in [Tasks -> Nat] /\ tfail \in [Tasks -> Nat]
  /\ visited \subseteq Deps
RowTypeOK ==
  /\ wrow \in [Workers -> WorkerStatus \union {Absent}]
  /\ wticker \in [Workers -> BOOLEAN] /\ wage \in [Workers -> 0..2]
  /\ wbusy \in [Workers -> BOOLEAN]
JobTypeOK ==
  /\ pc \in [Workers -> PC] /\ cur \in [Workers -> Tasks \union {None}]
  /\ snap \in [Workers -> [run : Nat, fail : Nat]] /\ out \in [Workers -> Outcome]
  /\ \A w \in Workers : pc[w] \in {"grab", "exec", "report"} <=> cur[w] # None
AssignTypeOK ==
  /\ team \in [Workers -> SUBSET Workers] /\ quota \in [Workers -> Nat]
  /\ batch \in [Workers -> SUBSET Tasks] /\ greedy \in [Workers -> BOOLEAN]
  /\ after \in [Workers -> {"pop", "top"}]
SharedTypeOK ==
  /\ wstat \in [Workers -> {"RUNNING", "ACTIVE", "DISABLED", "TERMINATE", "KILL"}]
  /\ beating \in [Workers -> BOOLEAN]
  /\ isTicker \in [Workers -> BOOLEAN] /\ doAssign \in [Workers -> BOOLEAN]
  /\ hb \in [Workers -> BOOLEAN] /\ hbrow \in [Workers -> WorkerStatus \union {Absent}]
CountTypeOK ==
  /\ empty \in [Workers -> Nat] /\ total \in [Workers -> Nat]
  /\ done \in [Tasks -> Nat] /\ admins \in Nat /\ crashes \in Nat

\* Every column and variable has its type, and a worker's main loop remembers a
\* task from the pop to the report.
TypeOK == TaskTypeOK /\ RowTypeOK /\ JobTypeOK /\ AssignTypeOK /\ SharedTypeOK /\ CountTypeOK

Settled == {"COMPLETED", "FAILED", "TIMEOUT", "EXPIRED"}
Holds(w, t) == pc[w] \in {"exec", "report"} /\ cur[w] = t
Dispatching(w) == pc[w] \in {"assign", "select", "write"}

\* "none will touch my task!" (pop_task): once a worker has set a task RUNNING
\* no other worker executes it before the first has reported.
ExclusiveRun ==
  \A t \in Tasks, v, w \in Workers : Holds(v, t) /\ Holds(w, t) => v = w

\* A task completes as often as repeats asks for, and once more for every
\* worker process that crashed between an execution and its report.
RepeatsHonoured ==
  \A t \in Tasks : Repeats[t] > 0 => done[t] <= Repeats[t] + crashes

\* times_run counts the completed executions: none is lost, and one that is
\* counted did happen.  The ones that crashed workers did not report are missing.
CountAgrees ==
  \A t \in Tasks :
    LET unreported == Cardinality({w \in Workers : Holds(w, t) /\ pc[w] = "report"
                                                     /\ out[w] = "COMPLETED"})
    IN trun[t] + unreported <= done[t] /\ done[t] <= trun[t] + unreported + crashes

\* A task that failed is retried retry_failed times in a row and no more.
RetriesBounded ==
  \A t \in Tasks : RetryFailed[t] >= 0 => tfail[t] <= RetryFailed[t] + 1

\* A RUNNING task is in the hands of its worker, or its worker is gone and has
\* left a row that will be found dead: it is never RUNNING with nobody to run it
\* and nobody to free it.
RunningAccounted ==
  \A t \in Tasks : tstatus[t] = "RUNNING" =>
    LET w == tworker[t] IN
    w \in Workers /\ (Holds(w, t) \/ (pc[w] = "gone" /\ wrow[w] # Absent))

\* The circumstances in which a task is safe with its worker: transactions do not
\* interleave, live workers beat in time and keep their names for themselves, next
\* runs can be computed, and nobody drains, disables or kills workers.
Calm ==
  /\ Serializable /\ ~LateBeats /\ ~ReusedNames
  /\ MaxTotalRuns = 0 /\ Unplannable = {}
  /\ AdminActions \subseteq {"ACTIVE", "PICK", "STOP_TASK"}

\* What then holds between any two steps: the heartbeat thread is never between a
\* read and a write, only dead workers have old heartbeats, a worker that has given
\* up pops no more, a held task is RUNNING under its holder's name, and a live
\* worker without a row neither has a task nor gets one.
Quiet(w)   == /\ wrow[w] \in {Absent, "ACTIVE", "PICK", "STOP_TASK"}
              /\ wstat[w] \in {"RUNNING", "ACTIVE"} /\ ~hb[w] /\ pc[w] \notin {"grab", "write"}
AgedGone(w) == wage[w] > 0 => pc[w] = "gone"
GivesUp(w) == ~beating[w] => \/ pc[w] \in {"top", "gone"}
                             \/ pc[w] \in {"assign", "select"} /\ after[w] = "top"
Owns(w) == pc[w] \in {"exec", "report"} => tstatus[cur[w]] = "RUNNING" /\ tworker[cur[w]] = w
Enrolled(w) ==
  pc[w] = "gone" \/ wrow[w] # Absent \/
    /\ pc[w] \notin {"exec", "report"}
    /\ \A t \in Tasks : tworker[t] = w => tstatus[t] # "ASSIGNED"
    /\ \A v \in Workers : w \notin team[v]
CalmInv ==
  /\ \A w \in Workers : Quiet(w) /\ AgedGone(w) /\ GivesUp(w) /\ Owns(w) /\ Enrolled(w)
  /\ RunningAccounted

\* A job's task runs only after the tasks it depends on have completed.
ParentWaits ==
  \A t \in Tasks : (\E w \in Workers : Holds(w, t)) =>
    \A d \in Deps : d[1] = t => tstatus[d[2]] = "COMPLETED"

\* being_a_ticker leaves at most one row with is_ticker.
OneTickerRow ==
  \A v, w \in Workers : wticker[v] /\ wticker[w] => v = w

\* A ticker is "the only process that effectively dispatch tasks" (send_heartbeat).  Not so
\* in the greedy loop of a worker that once was one: a busy worker that finds itself alone
\* is a ticker to itself (being_a_ticker) and not in its row, and stays greedy.
OneDispatcher ==
  \A v, w \in Workers : Dispatching(v) /\ Dispatching(w) =>
    v = w \/ "top" \in {after[v], after[w]}

\* Every step of the scheduler is a step of TaskQueue or changes nothing there:
\* only the worker that popped a task ends its run, and only the run of a worker
\* whose process is gone is called off.
Queue == INSTANCE TaskQueue WITH
  state  <- [t \in Tasks |-> CASE tstatus[t] = Absent -> "none"
                               [] tstatus[t] \in {"QUEUED", "ASSIGNED"} -> "waiting"
                               [] tstatus[t] = "RUNNING" -> "running"
                               [] OTHER -> "settled"],
  holder <- [t \in Tasks |-> IF tstatus[t] = "RUNNING" THEN tworker[t] ELSE None],
  alive  <- {w \in Workers : pc[w] # "gone"}
RefinesQueue == Queue!QueueSpec

\* The threads of a live worker go on.  Both sleep one heartbeat between two
\* rounds, the main loop at "top": now and then a fifth beat comes while it
\* sleeps, and now and then it wakes up while do_assign_tasks is still set.  An
\* executor ends (every task has a timeout, and the join() after it does not hang:
\* see TaskRun), time passes for the dead and for the tasks.  Nothing is assumed of
\* administrators, queue_task or crashes.
Fairness ==
  /\ \A w \in Workers :
       /\ WF_vars(Loop(w) \/ \E o \in Outcome : Finish(w, o))
       /\ SF_vars(doAssign[w] /\ isTicker[w] /\ Top(w))
       /\ WF_vars(HeartbeatRead(w) \/ \E fifth \in BOOLEAN : HeartbeatWrite(w, fifth))
       /\ SF_vars(pc[w] = "top" /\ HeartbeatWrite(w, TRUE))
       /\ WF_vars(pc[w] = "gone" /\ Age(w))
  /\ \A t \in Tasks : WF_vars(BecomeDue(t))
FairSpec == Spec /\ Fairness

AllGone == \A w \in Workers : pc[w] = "gone"

\* A queued task ends up settled, whatever crashes, as long as one worker is left.
TasksSettle ==
  \A t \in Tasks : tstatus[t] = "QUEUED" ~> (tstatus[t] \in Settled \/ AllGone)

\* "A worker with pending due work must not self-terminate via max_empty_runs,
\* otherwise retries can be dropped under load" (loop): a task that is due while some
\* worker has still to count the due tasks gets started, unless a process crashes or
\* an administrator acts after that.  (Work that becomes due after the last worker has
\* counted none, and before it dies, stays behind.)
DueWorkStarts ==
  \A t \in Tasks, e \in 0..(MaxCrashes + MaxAdmin) :
    (crashes + admins = e /\ Available(t)
       /\ \E w \in Workers : beating[w] /\ pc[w] # "empty")
      ~> (~Available(t) \/ crashes + admins > e)

\* "how many loops are allowed to pass without processing any tasks before
\* exiting the process" (max_empty_runs): when no task runs and none is pending and
\* due any more, the processes end.  (A job whose dependency failed stays pending and
\* due, and keeps them up for ever: the count does not look at the dependencies.)
IdleWorkersQuit ==
  (MaxEmptyRuns > 0
     /\ <>[](\A t \in Tasks : ~(Waiting(t) /\ tdue[t]) /\ tstatus[t] # "RUNNING")) => <>AllGone

\* A worker told to terminate or to die does, unless it is told something else
\* (an immediate task picks the ticker whatever it was told) or its heartbeat thread
\* had read the row already: that beat writes ACTIVE over what it was told.
WorkersObey ==
  \A w \in Workers :
    (wrow[w] \in {"TERMINATE", "KILL"} /\ ~(hb[w] /\ ~Quits(hbrow[w])))
      ~> (pc[w] = "gone" \/ wrow[w] \in {"PICK", "DISABLED", "STOP_TASK"})

=============================================================================
