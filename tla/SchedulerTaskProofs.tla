------------------------ MODULE SchedulerTaskProofs ------------------------
(* Theorems about the tasks of Scheduler in calm circumstances: what is counted,   *)
(* in which order a job runs, and that TaskQueue is implemented.                   *)
EXTENDS SchedulerProofs

USE ConstAssumption DEF taskVars, rowVars, jobVars, cntVars, shrVars, hbVars, auxVars, asgVars

Busy(w) == pc[w] \in {"exec", "report"}
Unreported(w) == pc[w] = "report" /\ out[w] = "COMPLETED"

\* A step that pops no task, ends no execution and kills no process.
Minor ==
  /\ UNCHANGED <<trun, tfail, visited, done, crashes>>
  /\ \A w \in Workers : /\ Busy(w)' <=> Busy(w)
                        /\ Busy(w) => cur'[w] = cur[w] /\ snap'[w] = snap[w]
                        /\ Unreported(w)' <=> Unreported(w)
  /\ \A t \in Tasks : \/ tstatus'[t] = tstatus[t]
                      \/ tstatus[t] = Absent /\ tstatus'[t] = "QUEUED"
                      \/ Waiting(t) /\ tstatus'[t] = "EXPIRED"
                      \/ Available(t) /\ tstatus'[t] = "ASSIGNED"
                      \/ tstatus[t] = "RUNNING" /\ tstatus'[t] = "QUEUED"
-----------------------------------------------------------------------------
(* Most steps are minor. *)

\* The main loop between two tasks.
LEMMA LoopMinor ==
  ASSUME Calm, TypeOK, CalmInv, NEW w \in Workers,
         Top(w) \/ AssignStart(w) \/ PopNothing(w) \/ CountDue(w) \/ Idle(w)
  PROVE  Minor
<1>1. /\ UNCHANGED <<trun, tfail, visited, done, crashes, cur, snap, out>>
      /\ pc[w] \in {"top", "assign", "pop", "idle", "due", "empty"}
      /\ \E p \in PC \ {"exec", "report"} : pc' = [pc EXCEPT ![w] = p]
      /\ \/ tstatus' = tstatus
         \/ tstatus' = [t \in Tasks |-> IF Waiting(t) /\ tover[t] THEN "EXPIRED" ELSE tstatus[t]]
  BY DEF Top, AssignStart, PopNothing, CountDue, Idle, PC, TypeOK, AssignTypeOK
<1>2. \A v \in Workers : (Busy(v)' <=> Busy(v)) /\ (Unreported(v)' <=> Unreported(v))
  BY <1>1 DEF Busy, Unreported, TypeOK, JobTypeOK
<1> QED BY <1>1, <1>2 DEF Minor

\* assign_tasks: only an available task is assigned.
LEMMA AssignMinor ==
  ASSUME Calm, TypeOK, CalmInv, NEW w \in Workers, AssignWrite(w)
  PROVE  Minor
<1>1. PICK S \in SUBSET Tasks : Round(S, w) /\ AssignRound(w, S) /\ pc[w] = "select"
  BY DEF AssignWrite, CalmInv, Quiet
<1>2. /\ UNCHANGED <<trun, tfail, visited, done, crashes, cur, snap, out>>
      /\ pc' = [pc EXCEPT ![w] = after[w]] /\ after[w] \in {"pop", "top"}
      /\ tstatus' = [t \in Tasks |-> IF t \in S /\ Waiting(t) THEN "ASSIGNED" ELSE tstatus[t]]
      /\ \A t \in S : Available(t)
  BY <1>1 DEF AssignRound, Round, TypeOK, AssignTypeOK
<1>3. \A v \in Workers : (Busy(v)' <=> Busy(v)) /\ (Unreported(v)' <=> Unreported(v))
  BY <1>1, <1>2 DEF Busy, Unreported, TypeOK, JobTypeOK
<1> QED BY <1>2, <1>3 DEF Minor

\* The heartbeat thread: a task it stops is reported as STOPPED.
LEMMA BeatMinor ==
  ASSUME Calm, TypeOK, CalmInv, NEW w \in Workers, NEW fifth \in BOOLEAN, HeartbeatWrite(w, fifth)
  PROVE  Minor
<1>1. Beat(w, wrow[w], fifth)
  BY DEF HeartbeatWrite, CalmInv, Quiet
<1>2. /\ UNCHANGED <<trun, tfail, visited, done, crashes, cur, snap>>
      /\ \/ UNCHANGED <<pc, out>>
         \/ /\ pc[w] = "exec" /\ pc' = [pc EXCEPT ![w] = "report"]
            /\ out' = [out EXCEPT ![w] = "STOPPED"]
  BY <1>1 DEF Beat, Terminate
<1>3. \A v \in Workers : (Busy(v)' <=> Busy(v)) /\ (Unreported(v)' <=> Unreported(v))
  BY <1>2 DEF Busy, Unreported, TypeOK, JobTypeOK
<1> QED BY <1>2, <1>3, BeatSpares DEF Minor

\* Applications, administrators and time.
Outside ==
  \/ \E t \in Tasks : (\E immediate \in BOOLEAN : QueueTask(t, immediate))
                        \/ BecomeDue(t) \/ PassStopTime(t)
  \/ \E action \in AdminActions : SetWorkerStatus(action)
  \/ \E w \in Workers : Age(w)
  \/ UNCHANGED vars

LEMMA OutsideMinor ==
  ASSUME Calm, TypeOK, CalmInv, Outside
  PROVE  Minor
<1>1. /\ UNCHANGED <<trun, tfail, visited, done, crashes, cur, snap, out, pc>>
      /\ \/ tstatus' = tstatus
         \/ \E t \in Tasks : tstatus[t] = Absent /\ tstatus' = [tstatus EXCEPT ![t] = "QUEUED"]
  BY DEF Outside, QueueTask, BecomeDue, PassStopTime, SetWorkerStatus, Age, vars
<1>2. \A t \in Tasks : tstatus'[t] = tstatus[t] \/ (tstatus[t] = Absent /\ tstatus'[t] = "QUEUED")
  <2>1. tstatus \in [Tasks -> TaskStatus]
    BY DEF TypeOK, TaskTypeOK
  <2> QED BY <1>1, <2>1
<1> QED BY <1>1, <1>2 DEF Minor, Busy, Unreported

\* What the other steps are.
LEMMA StepKinds ==
  ASSUME Calm, TypeOK, CalmInv, [Next]_vars
  PROVE  \/ Minor
         \/ \E w \in Workers : \/ PopGrab(w) \/ Report(w) \/ Crash(w)
                               \/ \E o \in Outcome : Finish(w, o)
<1>1. ASSUME NEW w \in Workers, Loop(w) PROVE Minor \/ PopGrab(w) \/ Report(w)
  BY <1>1, LoopMinor, AssignMinor DEF Loop, Calm, AssignSelect, PopSelect
<1>2. ASSUME NEW w \in Workers, HeartbeatRead(w) \/ Restart(w) PROVE FALSE
  BY <1>2 DEF Calm, HeartbeatRead, Restart
<1>3. ASSUME Next PROVE \/ Minor
                        \/ \E w \in Workers : \/ PopGrab(w) \/ Report(w) \/ Crash(w)
                                              \/ \E o \in Outcome : Finish(w, o)
  BY <1>1, <1>2, <1>3, BeatMinor, OutsideMinor DEF Next, Outside
<1> QED BY <1>3, OutsideMinor DEF Outside
-----------------------------------------------------------------------------
(* What is counted.                                                            *)

\* A worker that is busy with a task has its row as it is.
Recorded(w) == Busy(w) => snap[w] = Row(cur[w])
\* Only a task that may still run, or run again, is not settled.
InBounds(t) ==
  /\ Repeats[t] > 0 => /\ trun[t] <= Repeats[t]
                       /\ tstatus[t] \notin Settled => trun[t] < Repeats[t]
  /\ RetryFailed[t] >= 0 => /\ tfail[t] <= RetryFailed[t] + 1
                            /\ tstatus[t] \notin Settled => tfail[t] <= RetryFailed[t]
\* Every completed execution is recorded, about to be, or was lost with its worker.
Pending(t) == IF \E w \in Workers : Unreported(w) /\ cur[w] = t THEN 1 ELSE 0
Counted(t) == trun[t] + Pending(t) <= done[t] /\ done[t] <= trun[t] + Pending(t) + crashes
\* What a dependency waits for has completed, and is over.
Done(d) == d \in visited => tstatus[d[2]] = "COMPLETED"
Ready(t) == tstatus[t] \in {"ASSIGNED", "RUNNING"} => \A d \in Deps : d[1] = t => d \in visited

TaskInv ==
  /\ \A w \in Workers : Recorded(w)
  /\ \A t \in Tasks : InBounds(t) /\ Counted(t) /\ Ready(t)
  /\ \A d \in Deps : Done(d)

LEMMA TaskInit == Init => TaskInv
<1> SUFFICES ASSUME Init PROVE TaskInv
  OBVIOUS
<1>1. ASSUME NEW t \in Tasks PROVE InBounds(t) /\ Counted(t) /\ Ready(t)
  <2>1. Pending(t) = 0
    <3>1. \A w \in Workers : pc[w] = "top"
      BY DEF Init
    <3> QED BY <3>1 DEF Pending, Unreported
  <2>2. trun[t] = 0 /\ tfail[t] = 0 /\ done[t] = 0 /\ crashes = 0 /\ tstatus[t] \notin {"ASSIGNED", "RUNNING"}
    BY DEF Init, Absent
  <2> QED BY <2>1, <2>2 DEF InBounds, Counted, Ready
<1> QED BY <1>1 DEF Init, TaskInv, Recorded, Busy, Done

\* A minor step.
LEMMA TaskMinor ==
  ASSUME Calm, TypeOK, CalmInv, TaskInv, Minor
  PROVE  TaskInv'
<1>1. ASSUME NEW w \in Workers PROVE Recorded(w)'
  BY DEF TaskInv, Recorded, Minor, Busy, Row
<1>2. ASSUME NEW t \in Tasks PROVE InBounds(t)'
  BY DEF TaskInv, InBounds, Minor, Settled, Waiting, Available, Absent
<1>3. ASSUME NEW t \in Tasks PROVE Counted(t)'
  <2>1. Pending(t)' = Pending(t)
    BY DEF Pending, Minor, Unreported, Busy
  <2> QED BY <2>1 DEF TaskInv, Counted, Minor
<1>4. ASSUME NEW t \in Tasks PROVE Ready(t)'
  BY DEF TaskInv, Ready, Minor, Available
<1>5. ASSUME NEW d \in Deps PROVE Done(d)'
  BY DEF TaskInv, Done, Minor, Waiting, Available, Absent
<1> QED BY <1>1, <1>2, <1>3, <1>4, <1>5 DEF TaskInv

\* pop_task.
LEMMA TaskGrab ==
  ASSUME Calm, TypeOK, CalmInv, TaskInv, NEW w \in Workers, PopGrab(w)
  PROVE  TaskInv'
<1>1. PICK t \in Tasks : pc[w] = "pop" /\ tstatus[t] = "ASSIGNED" /\ PopTask(w, t, Row(t))
  BY DEF PopGrab, CalmInv, Quiet, Mine
<1>2. /\ UNCHANGED <<trun, tfail, visited, done, crashes, out>>
      /\ tstatus' = [tstatus EXCEPT ![t] = "RUNNING"] /\ pc' = [pc EXCEPT ![w] = "exec"]
      /\ cur' = [cur EXCEPT ![w] = t] /\ snap' = [snap EXCEPT ![w] = Row(t)]
  BY <1>1 DEF PopTask, Calm
<1>3. ASSUME NEW v \in Workers PROVE Recorded(v)'
  BY <1>1, <1>2 DEF TaskInv, Recorded, Busy, Row, TypeOK, JobTypeOK
<1>4. ASSUME NEW u \in Tasks PROVE InBounds(u)' /\ Ready(u)'
  BY <1>1, <1>2 DEF TaskInv, InBounds, Ready, Settled, TypeOK, TaskTypeOK
<1>5. ASSUME NEW u \in Tasks PROVE Counted(u)'
  <2>1. Pending(u)' = Pending(u)
    BY <1>1, <1>2 DEF Pending, Unreported, TypeOK, JobTypeOK
  <2> QED BY <1>2, <2>1 DEF TaskInv, Counted
<1>6. ASSUME NEW d \in Deps PROVE Done(d)'
  BY <1>1, <1>2 DEF TaskInv, Done, TypeOK, TaskTypeOK
<1> QED BY <1>3, <1>4, <1>5, <1>6 DEF TaskInv

\* The end of an execution: a completed one waits for its report.
LEMMA TaskFinish ==
  ASSUME Calm, TypeOK, CalmInv, TaskInv, NEW w \in Workers, NEW o \in Outcome, Finish(w, o)
  PROVE  TaskInv'
<1>1. /\ UNCHANGED <<taskVars, cur, snap, crashes>>
      /\ pc[w] = "exec" /\ pc' = [pc EXCEPT ![w] = "report"] /\ out' = [out EXCEPT ![w] = o]
      /\ done' = [done EXCEPT ![cur[w]] = IF o = "COMPLETED" THEN @ + 1 ELSE @]
      /\ cur[w] \in Tasks
  BY DEF Finish, TypeOK, JobTypeOK
<1>2. ASSUME NEW v \in Workers PROVE Recorded(v)'
  BY <1>1 DEF TaskInv, Recorded, Busy, Row, TypeOK, JobTypeOK
<1>3. ASSUME NEW t \in Tasks PROVE InBounds(t)' /\ Ready(t)'
  BY <1>1 DEF TaskInv, InBounds, Ready
<1>4. ASSUME NEW t \in Tasks PROVE Counted(t)'
  <2>1. CASE t # cur[w] \/ o # "COMPLETED"
    <3>1. Pending(t)' = Pending(t) /\ done'[t] = done[t]
      BY <1>1, <2>1 DEF Pending, Unreported, TypeOK, JobTypeOK, CountTypeOK
    <3> QED BY <1>1, <3>1 DEF TaskInv, Counted
  <2>2. CASE t = cur[w] /\ o = "COMPLETED"
    <3>1. \A v \in Workers : Unreported(v) /\ cur[v] = t => v = w
      BY <1>1, <2>2 DEF Unreported, CalmInv, Owns
    <3>2. Pending(t) = 0 /\ Pending(t)' = 1 /\ done'[t] = done[t] + 1
      BY <1>1, <2>2, <3>1 DEF Pending, Unreported, TypeOK, JobTypeOK, CountTypeOK
    <3> QED BY <1>1, <3>2 DEF TaskInv, Counted, TypeOK, TaskTypeOK, CountTypeOK
  <2> QED BY <2>1, <2>2
<1>5. ASSUME NEW d \in Deps PROVE Done(d)'
  BY <1>1 DEF TaskInv, Done
<1> QED BY <1>2, <1>3, <1>4, <1>5 DEF TaskInv

\* report_task: what it wrote down at the pop still is what the row says.
LEMMA TaskReport ==
  ASSUME Calm, TypeOK, CalmInv, TaskInv, NEW w \in Workers, Report(w)
  PROVE  TaskInv'
<1> DEFINE t == cur[w]
           o == out[w]
<1>1. /\ pc[w] = "report" /\ t \in Tasks /\ tstatus[t] = "RUNNING" /\ snap[w] = Row(t)
      /\ \A v \in Workers \ {w} : Busy(v) => cur[v] # t
  BY DEF Report, TypeOK, JobTypeOK, CalmInv, Owns, TaskInv, Recorded, Busy
<1>2. /\ pc' = [pc EXCEPT ![w] = "top"] /\ cur' = [cur EXCEPT ![w] = None]
      /\ snap' = [snap EXCEPT ![w] = NoSnap] /\ UNCHANGED <<done, crashes>>
      /\ out' = [out EXCEPT ![w] = "STOPPED"]
  BY DEF Report
<1>3. PICK expired \in BOOLEAN : tstatus' = [tstatus EXCEPT ![t] = AfterRun(t, Row(t), o, expired)]
  BY <1>1 DEF Report
<1>4. /\ trun' = [trun EXCEPT ![t] = IF o = "COMPLETED" THEN trun[t] + 1 ELSE trun[t]]
      /\ tfail' = [tfail EXCEPT ![t] = IF o = "COMPLETED" THEN 0 ELSE tfail[t] + 1]
      /\ visited' = IF tstatus'[t] = "COMPLETED" THEN visited \union {d \in Deps : d[2] = t} ELSE visited
  BY <1>1 DEF Report, Row
<1>5. /\ \A u \in Tasks \ {t} : trun'[u] = trun[u] /\ tfail'[u] = tfail[u] /\ tstatus'[u] = tstatus[u]
      /\ tstatus'[t] = AfterRun(t, Row(t), o, expired)
      /\ trun'[t] = IF o = "COMPLETED" THEN trun[t] + 1 ELSE trun[t]
      /\ tfail'[t] = IF o = "COMPLETED" THEN 0 ELSE tfail[t] + 1
      /\ trun[t] \in Nat /\ tfail[t] \in Nat
  BY <1>1, <1>3, <1>4 DEF TypeOK, TaskTypeOK
<1>6. ASSUME NEW v \in Workers PROVE Recorded(v)'
  <2>1. CASE v = w
    BY <1>2, <2>1 DEF Recorded, Busy, TypeOK, JobTypeOK
  <2>2. CASE v # w /\ Busy(v)
    <3>1. cur[v] \in Tasks \ {t} /\ cur'[v] = cur[v] /\ snap'[v] = snap[v]
      BY <1>1, <1>2, <2>2 DEF Busy, TypeOK, JobTypeOK
    <3> QED BY <1>5, <2>2, <3>1 DEF TaskInv, Recorded, Row
  <2>3. CASE v # w /\ ~Busy(v)
    BY <1>2, <2>3 DEF Recorded, Busy, TypeOK, JobTypeOK
  <2> QED BY <2>1, <2>2, <2>3
<1>7. ASSUME NEW u \in Tasks PROVE InBounds(u)'
  <2>1. CASE u # t
    BY <1>5, <2>1 DEF TaskInv, InBounds
  <2>2. CASE u = t
    <3>1. /\ Repeats[t] > 0 => trun[t] < Repeats[t]
          /\ RetryFailed[t] >= 0 => tfail[t] <= RetryFailed[t]
      BY <1>1 DEF TaskInv, InBounds, Settled
    <3>2. AfterRun(t, Row(t), o, expired) \notin Settled =>
            IF o = "COMPLETED" THEN RunAgain(t, Row(t)) ELSE Retry(t, Row(t))
      BY DEF AfterRun, Settled
    <3>3. Repeats[t] \in Nat /\ RetryFailed[t] \in Nat \union {-1}
      BY <1>1
    <3> QED BY <1>5, <2>2, <3>1, <3>2, <3>3 DEF InBounds, RunAgain, Retry, Row
  <2> QED BY <2>1, <2>2
<1>8. ASSUME NEW u \in Tasks PROVE Counted(u)'
  <2>1. CASE u # t
    <3>1. Pending(u)' = Pending(u)
      BY <1>2, <2>1 DEF Pending, Unreported, TypeOK, JobTypeOK
    <3> QED BY <1>2, <1>5, <2>1, <3>1 DEF TaskInv, Counted
  <2>2. CASE u = t
    <3>1. \A v \in Workers : ~(Unreported(v)' /\ cur'[v] = u)
      BY <1>1, <1>2, <2>2 DEF Unreported, Busy, TypeOK, JobTypeOK
    <3>2. Pending(u)' = 0 /\ Pending(u) = IF o = "COMPLETED" THEN 1 ELSE 0
      BY <1>1, <2>2, <3>1 DEF Pending, Unreported, Busy
    <3> QED BY <1>1, <1>2, <1>5, <2>2, <3>2 DEF TaskInv, Counted
  <2> QED BY <2>1, <2>2
<1>9. ASSUME NEW u \in Tasks PROVE Ready(u)'
  <2>1. visited \subseteq visited'
    BY <1>4
  <2>2. tstatus'[t] \notin {"ASSIGNED", "RUNNING"}
    BY <1>5 DEF AfterRun
  <2> QED BY <1>5, <2>1, <2>2 DEF TaskInv, Ready
<1>10. ASSUME NEW d \in Deps PROVE Done(d)'
  <2>1. d[2] \in Tasks
    OBVIOUS
  <2>2. CASE d[2] = t
    BY <1>1, <1>4, <2>2 DEF TaskInv, Done
  <2>3. CASE d[2] # t
    BY <1>4, <1>5, <2>1, <2>3 DEF TaskInv, Done
  <2> QED BY <2>2, <2>3
<1> QED BY <1>6, <1>7, <1>8, <1>9, <1>10 DEF TaskInv

\* A crash loses at most the execution that was not reported.
LEMMA TaskCrash ==
  ASSUME Calm, TypeOK, CalmInv, TaskInv, NEW w \in Workers, Crash(w)
  PROVE  TaskInv'
<1>1. /\ UNCHANGED <<taskVars, done>> /\ crashes' = crashes + 1
      /\ pc' = [pc EXCEPT ![w] = "gone"] /\ cur' = [cur EXCEPT ![w] = None]
      /\ snap' = [snap EXCEPT ![w] = NoSnap] /\ out' = [out EXCEPT ![w] = "STOPPED"]
  BY DEF Crash
<1>2. ASSUME NEW v \in Workers PROVE Recorded(v)'
  BY <1>1 DEF TaskInv, Recorded, Busy, Row, TypeOK, JobTypeOK
<1>3. ASSUME NEW t \in Tasks PROVE InBounds(t)' /\ Ready(t)'
  BY <1>1 DEF TaskInv, InBounds, Ready
<1>4. ASSUME NEW t \in Tasks PROVE Counted(t)'
  <2>1. Pending(t) \in {0, 1} /\ Pending(t)' \in {0, 1} /\ Pending(t)' <= Pending(t)
    BY <1>1 DEF Pending, Unreported, TypeOK, JobTypeOK
  <2>2. trun[t] \in Nat /\ done[t] \in Nat /\ crashes \in Nat
    BY DEF TypeOK, TaskTypeOK, CountTypeOK
  <2> QED BY <1>1, <2>1, <2>2 DEF TaskInv, Counted
<1>5. ASSUME NEW d \in Deps PROVE Done(d)'
  BY <1>1 DEF TaskInv, Done
<1> QED BY <1>2, <1>3, <1>4, <1>5 DEF TaskInv

LEMMA TaskNext == Calm /\ TypeOK /\ CalmInv /\ TaskInv /\ [Next]_vars => TaskInv'
BY StepKinds, TaskMinor, TaskGrab, TaskFinish, TaskReport, TaskCrash

LEMMA TaskAlways == ASSUME Calm PROVE Spec => []TaskInv
<1>1. TypeOK /\ CalmInv /\ TaskInv /\ [Next]_vars => (TypeOK /\ CalmInv /\ TaskInv)'
  BY CalmNext, TypeNext, TaskNext
<1> QED BY <1>1, TypeInit, CalmInit, TaskInit, PTL DEF Spec

\* Under Calm every completed execution is counted once in times_run, but for those whose
\* worker crashed before its report.
THEOREM CountsAgree == ASSUME Calm PROVE Spec => []CountAgrees
<1>1. TypeOK /\ CalmInv /\ TaskInv => CountAgrees
  <2> SUFFICES ASSUME TypeOK, CalmInv, TaskInv, NEW t \in Tasks
               PROVE  LET unreported == Cardinality({w \in Workers : Holds(w, t) /\ pc[w] = "report"
                                                                      /\ out[w] = "COMPLETED"})
                      IN trun[t] + unreported <= done[t] /\ done[t] <= trun[t] + unreported + crashes
    BY DEF CountAgrees
  <2> DEFINE S == {w \in Workers : Holds(w, t) /\ pc[w] = "report" /\ out[w] = "COMPLETED"}
  <2>1. \A w \in Workers : w \in S <=> Unreported(w) /\ cur[w] = t
    BY DEF Holds, Unreported
  <2>2. CASE S = {}
    <3>1. Pending(t) = 0
      BY <2>1, <2>2 DEF Pending
    <3>2. Cardinality(S) = 0
      BY <2>2, FS_EmptySet
    <3> QED BY <3>1, <3>2 DEF TaskInv, Counted
  <2>3. CASE S # {}
    <3>1. PICK w \in Workers : w \in S
      BY <2>3
    <3>2. S = {w}
      BY <3>1 DEF Holds, CalmInv, Owns
    <3>3. Pending(t) = 1
      BY <2>1, <3>1 DEF Pending
    <3>4. Cardinality(S) = 1
      BY <3>2, FS_Singleton
    <3> QED BY <3>3, <3>4 DEF TaskInv, Counted
  <2> QED BY <2>2, <2>3
<1> QED BY <1>1, Typed, CalmAlways, TaskAlways, PTL

\* Under Calm a task completes at most repeats times, and once more per crash.
THEOREM RepeatsBounded == ASSUME Calm PROVE Spec => []RepeatsHonoured
<1>1. TypeOK /\ CalmInv /\ TaskInv => RepeatsHonoured
  <2> SUFFICES ASSUME TypeOK, CalmInv, TaskInv, NEW t \in Tasks, Repeats[t] > 0
               PROVE  done[t] <= Repeats[t] + crashes
    BY DEF RepeatsHonoured
  <2>1. /\ trun[t] \in Nat /\ done[t] \in Nat /\ crashes \in Nat /\ Repeats[t] \in Nat
        /\ done[t] <= trun[t] + Pending(t) + crashes
    BY DEF TypeOK, TaskTypeOK, CountTypeOK, TaskInv, Counted
  <2>2. CASE Pending(t) = 0
    BY <2>1, <2>2 DEF TaskInv, InBounds
  <2>3. CASE Pending(t) # 0
    <3>1. tstatus[t] = "RUNNING" /\ Pending(t) = 1
      BY <2>3 DEF Pending, Unreported, CalmInv, Owns
    <3> QED BY <2>1, <3>1 DEF TaskInv, InBounds, Settled
  <2> QED BY <2>2, <2>3
<1> QED BY <1>1, Typed, CalmAlways, TaskAlways, PTL

\* Under Calm a task that goes on failing is tried retry_failed times more.
THEOREM RetriesEnd == ASSUME Calm PROVE Spec => []RetriesBounded
<1>1. TaskInv => RetriesBounded
  BY DEF TaskInv, InBounds, RetriesBounded
<1> QED BY <1>1, TaskAlways, PTL

\* Under Calm no task of a job is executed before those it depends on have completed.
THEOREM ParentsWait == ASSUME Calm PROVE Spec => []ParentWaits
<1>1. CalmInv /\ TaskInv => ParentWaits
  BY DEF TaskInv, Ready, Done, CalmInv, Owns, Holds, ParentWaits
<1> QED BY <1>1, CalmAlways, TaskAlways, PTL
-----------------------------------------------------------------------------
(* TaskQueue is implemented. *)

\* The state of TaskQueue.
State  == [t \in Tasks |-> CASE tstatus[t] = Absent -> "none"
                             [] tstatus[t] \in {"QUEUED", "ASSIGNED"} -> "waiting"
                             [] tstatus[t] = "RUNNING" -> "running"
                             [] OTHER -> "settled"]
Holder == [t \in Tasks |-> IF tstatus[t] = "RUNNING" THEN tworker[t] ELSE None]
Alive  == {w \in Workers : pc[w] # "gone"}

\* The main loop between two tasks: the worker leaves, tasks expire, or nothing happens.
LEMMA LoopQueues ==
  ASSUME Calm, TypeOK, CalmInv, NEW w \in Workers,
         Top(w) \/ AssignStart(w) \/ AssignWrite(w) \/ PopNothing(w) \/ CountDue(w) \/ Idle(w)
  PROVE  Queue!Leave(w) \/ (\E S \in SUBSET Tasks : Queue!Expire(S)) \/ UNCHANGED <<State, Holder, Alive>>
<1>1. CASE Top(w)
  <2>1. /\ UNCHANGED <<tstatus, tworker>> /\ pc[w] = "top"
        /\ pc' = [pc EXCEPT ![w] = "gone"] \/ (\E p \in {"assign", "pop"} : pc' = [pc EXCEPT ![w] = p])
    BY <1>1 DEF Top
  <2>2. UNCHANGED <<State, Holder>>
    BY <2>1 DEF State, Holder
  <2>3. Alive' = Alive \ {w} \/ Alive' = Alive
    BY <2>1 DEF Alive, TypeOK, JobTypeOK
  <2> QED BY <2>2, <2>3 DEF Queue!Leave, State, Holder, Alive
<1>2. CASE AssignStart(w)
  <2>1. PICK S \in SUBSET Tasks : S = {t \in Tasks : Waiting(t) /\ tover[t]}
    OBVIOUS
  <2>2. /\ tstatus' = [t \in Tasks |-> IF t \in S THEN "EXPIRED" ELSE tstatus[t]] /\ tworker' = tworker
        /\ pc[w] = "assign" /\ \E p \in {"pop", "top", "select"} : pc' = [pc EXCEPT ![w] = p]
    BY <1>2, <2>1 DEF AssignStart, TypeOK, AssignTypeOK
  <2>3. \A t \in S : State[t] = "waiting"
    BY <2>1 DEF State, Waiting, Absent
  <2>4. State' = [t \in Tasks |-> IF t \in S THEN "settled" ELSE State[t]]
    BY <2>2 DEF State, Absent
  <2>5. Holder' = Holder
    BY <2>1, <2>2 DEF Holder, Waiting
  <2>6. Alive' = Alive
    BY <2>2 DEF Alive, TypeOK, JobTypeOK
  <2>7. Queue!Expire(S)
    BY <2>3, <2>4, <2>5, <2>6 DEF Queue!Expire, State, Holder, Alive
  <2> QED BY <2>7
<1>3. CASE AssignWrite(w)
  <2>1. PICK S \in SUBSET Tasks : AssignRound(w, S) /\ pc[w] = "select"
    BY <1>3 DEF AssignWrite, CalmInv, Quiet
  <2>2. PICK share \in [S -> team[w]] :
          tworker' = [t \in Tasks |-> IF t \in S /\ Waiting(t) THEN share[t] ELSE tworker[t]]
    BY <2>1 DEF AssignRound
  <2>3. /\ tstatus' = [t \in Tasks |-> IF t \in S /\ Waiting(t) THEN "ASSIGNED" ELSE tstatus[t]]
        /\ \E p \in {"pop", "top"} : pc' = [pc EXCEPT ![w] = p]
    BY <2>1 DEF AssignRound, TypeOK, AssignTypeOK
  <2>4. State' = State
    BY <2>3 DEF State, Waiting, Absent
  <2>5. Holder' = Holder
    BY <2>2, <2>3 DEF Holder, Waiting
  <2>6. Alive' = Alive
    BY <2>1, <2>3 DEF Alive, TypeOK, JobTypeOK
  <2> QED BY <2>4, <2>5, <2>6
<1>4. CASE PopNothing(w) \/ CountDue(w) \/ Idle(w)
  <2>1. /\ UNCHANGED <<tstatus, tworker>> /\ pc[w] \in {"pop", "idle", "due", "empty"}
        /\ \E p \in {"idle", "due", "empty", "assign", "top"} : pc' = [pc EXCEPT ![w] = p]
    BY <1>4 DEF PopNothing, CountDue, Idle
  <2>2. UNCHANGED <<State, Holder>>
    BY <2>1 DEF State, Holder
  <2>3. Alive' = Alive
    BY <2>1 DEF Alive, TypeOK, JobTypeOK
  <2> QED BY <2>2, <2>3
<1> QED BY <1>1, <1>2, <1>3, <1>4

\* pop_task: the worker takes the task, and has no other.
LEMMA GrabTakes ==
  ASSUME Calm, TypeOK, CalmInv, NEW w \in Workers, PopGrab(w)
  PROVE  \E t \in Tasks : Queue!Take(w, t)
<1>1. PICK t \in Tasks : /\ pc[w] = "pop" /\ tworker[t] = w /\ tstatus[t] = "ASSIGNED"
                         /\ PopTask(w, t, Row(t))
  BY DEF PopGrab, CalmInv, Quiet, Mine
<1>2. /\ tstatus' = [tstatus EXCEPT ![t] = "RUNNING"] /\ pc' = [pc EXCEPT ![w] = "exec"]
      /\ tworker' = tworker
  BY <1>1 DEF PopTask, Calm
<1>3. w \in Alive /\ State[t] = "waiting"
  BY <1>1 DEF Alive, State, Absent
<1>4. ASSUME NEW u \in Tasks, Holder[u] = w PROVE FALSE
  <2>1. tstatus[u] = "RUNNING" /\ tworker[u] = w
    BY <1>4 DEF Holder
  <2> QED BY <1>1, <2>1 DEF CalmInv, RunningAccounted, Holds
<1>5. State' = [State EXCEPT ![t] = "running"]
  BY <1>2 DEF State, TypeOK, TaskTypeOK, Absent
<1>6. Holder' = [Holder EXCEPT ![t] = w]
  BY <1>1, <1>2 DEF Holder, TypeOK, TaskTypeOK
<1>7. Alive' = Alive
  BY <1>1, <1>2 DEF Alive, TypeOK, JobTypeOK
<1> QED BY <1>3, <1>4, <1>5, <1>6, <1>7 DEF Queue!Take, State, Holder, Alive

\* report_task: the worker that holds the task ends its run.
LEMMA ReportEnds ==
  ASSUME Calm, TypeOK, CalmInv, NEW w \in Workers, Report(w)
  PROVE  \E t \in Tasks : Queue!End(w, t)
<1>1. PICK t \in Tasks : t = cur[w] /\ pc[w] = "report" /\ tstatus[t] = "RUNNING" /\ tworker[t] = w
  BY DEF Report, TypeOK, JobTypeOK, CalmInv, Owns
<1>2. PICK s \in {"QUEUED"} \union Settled : tstatus' = [tstatus EXCEPT ![t] = s]
  BY <1>1 DEF Report, AfterRun, Settled
<1>3. tworker' = tworker /\ pc' = [pc EXCEPT ![w] = "top"]
  BY DEF Report
<1>4. w \in Alive /\ Holder[t] = w
  BY <1>1 DEF Alive, Holder
<1>5. \E x \in {"waiting", "settled"} : State' = [State EXCEPT ![t] = x]
  <2>1. CASE s = "QUEUED"
    <3>1. State' = [State EXCEPT ![t] = "waiting"]
      BY <1>2, <2>1 DEF State, TypeOK, TaskTypeOK, Absent
    <3> QED BY <3>1
  <2>2. CASE s \in Settled
    <3>1. State' = [State EXCEPT ![t] = "settled"]
      BY <1>2, <2>2 DEF State, Settled, TypeOK, TaskTypeOK, Absent
    <3> QED BY <3>1
  <2> QED BY <2>1, <2>2
<1>6. Holder' = [Holder EXCEPT ![t] = None]
  BY <1>2, <1>3 DEF Holder, Settled, TypeOK, TaskTypeOK
<1>7. Alive' = Alive
  BY <1>1, <1>3 DEF Alive, TypeOK, JobTypeOK
<1> QED BY <1>4, <1>5, <1>6, <1>7 DEF Queue!End, State, Holder, Alive

\* send_heartbeat: the tasks that are freed are those of workers that are gone.
LEMMA BeatCallsOff ==
  ASSUME Calm, TypeOK, CalmInv, NEW w \in Workers, NEW fifth \in BOOLEAN, HeartbeatWrite(w, fifth)
  PROVE  \E S \in SUBSET Tasks : Queue!CallOff(S)
<1>1. Beat(w, wrow[w], fifth) /\ pc[w] # "gone"
  BY DEF HeartbeatWrite, CalmInv, Quiet
<1>2. pc' = pc \/ pc' = [pc EXCEPT ![w] = "report"]
  BY <1>1 DEF Beat, Terminate
<1>3. Alive' = Alive
  BY <1>1, <1>2 DEF Alive, TypeOK, JobTypeOK
<1>4. PICK S \in SUBSET Tasks : S = {t \in Tasks : tstatus[t] = "RUNNING" /\ tstatus'[t] = "QUEUED"}
  OBVIOUS
<1>5. ASSUME NEW t \in Tasks
      PROVE  IF t \in S THEN /\ tstatus'[t] = "QUEUED" /\ tstatus[t] = "RUNNING"
                             /\ tworker[t] \in Workers /\ pc[tworker[t]] = "gone"
             ELSE tstatus'[t] = tstatus[t] /\ tworker'[t] = tworker[t]
  BY <1>4, BeatSpares
<1>6. \A t \in S : State[t] = "running" /\ Holder[t] \notin Alive
  BY <1>5 DEF State, Holder, Alive, Absent
<1>7. State' = [t \in Tasks |-> IF t \in S THEN "waiting" ELSE State[t]]
  BY <1>5 DEF State, Absent
<1>8. Holder' = [t \in Tasks |-> IF t \in S THEN None ELSE Holder[t]]
  BY <1>5 DEF Holder
<1>9. Queue!CallOff(S)
  BY <1>3, <1>6, <1>7, <1>8 DEF Queue!CallOff, State, Holder, Alive
<1> QED BY <1>9

\* The other steps: a task is queued, a worker leaves, or nothing happens.
LEMMA OthersQueue ==
  ASSUME Calm, TypeOK, CalmInv, Outside \/ \E w \in Workers : Crash(w) \/ \E o \in Outcome : Finish(w, o)
  PROVE  \/ \E t \in Tasks : Queue!Submit(t)
         \/ \E w \in Workers : Queue!Leave(w)
         \/ UNCHANGED <<State, Holder, Alive>>
<1>1. ASSUME NEW t \in Tasks, NEW immediate \in BOOLEAN, QueueTask(t, immediate) PROVE Queue!Submit(t)
  <2>1. /\ tstatus[t] = Absent /\ tstatus' = [tstatus EXCEPT ![t] = "QUEUED"] /\ UNCHANGED <<tworker, pc>>
    BY <1>1 DEF QueueTask
  <2>2. State[t] = "none" /\ State' = [State EXCEPT ![t] = "waiting"]
    BY <2>1 DEF State, TypeOK, TaskTypeOK, Absent
  <2>3. Holder' = Holder
    BY <2>1 DEF Holder, TypeOK, TaskTypeOK, Absent
  <2>4. Alive' = Alive
    BY <2>1 DEF Alive
  <2> QED BY <2>2, <2>3, <2>4 DEF Queue!Submit, State, Holder, Alive
<1>2. ASSUME NEW w \in Workers, Crash(w) PROVE Queue!Leave(w)
  <2>1. UNCHANGED <<tstatus, tworker>> /\ pc' = [pc EXCEPT ![w] = "gone"]
    BY <1>2 DEF Crash
  <2>2. UNCHANGED <<State, Holder>>
    BY <2>1 DEF State, Holder
  <2>3. Alive' = Alive \ {w}
    BY <2>1 DEF Alive, TypeOK, JobTypeOK
  <2> QED BY <2>2, <2>3 DEF Queue!Leave, State, Holder, Alive
<1>3. ASSUME NEW w \in Workers, NEW o \in Outcome, Finish(w, o) PROVE UNCHANGED <<State, Holder, Alive>>
  <2>1. UNCHANGED <<tstatus, tworker>> /\ pc[w] = "exec" /\ pc' = [pc EXCEPT ![w] = "report"]
    BY <1>3 DEF Finish
  <2>2. UNCHANGED <<State, Holder>>
    BY <2>1 DEF State, Holder
  <2>3. Alive' = Alive
    BY <2>1 DEF Alive, TypeOK, JobTypeOK
  <2> QED BY <2>2, <2>3
<1>4. ASSUME \/ \E t \in Tasks : BecomeDue(t) \/ PassStopTime(t)
             \/ \E action \in AdminActions : SetWorkerStatus(action)
             \/ \E w \in Workers : Age(w)
             \/ UNCHANGED vars
      PROVE  UNCHANGED <<State, Holder, Alive>>
  <2>1. UNCHANGED <<tstatus, tworker, pc>>
    BY <1>4 DEF BecomeDue, PassStopTime, SetWorkerStatus, Age, vars
  <2> QED BY <2>1 DEF State, Holder, Alive
<1> QED BY <1>1, <1>2, <1>3, <1>4 DEF Outside

LEMMA QueueSteps ==
  ASSUME Calm, TypeOK, CalmInv, [Next]_vars
  PROVE  Queue!QueueNext \/ UNCHANGED <<State, Holder, Alive>>
<1>1. ASSUME NEW w \in Workers, Loop(w) PROVE Queue!QueueNext \/ UNCHANGED <<State, Holder, Alive>>
  <2>1. ~AssignSelect(w) /\ ~PopSelect(w)
    BY DEF Calm, AssignSelect, PopSelect
  <2>2. CASE PopGrab(w)
    BY <2>2, GrabTakes DEF Queue!QueueNext
  <2>3. CASE Report(w)
    BY <2>3, ReportEnds DEF Queue!QueueNext
  <2>4. CASE Top(w) \/ AssignStart(w) \/ AssignWrite(w) \/ PopNothing(w) \/ CountDue(w) \/ Idle(w)
    BY <2>4, LoopQueues DEF Queue!QueueNext
  <2> QED BY <1>1, <2>1, <2>2, <2>3, <2>4 DEF Loop
<1>2. ASSUME NEW w \in Workers, NEW fifth \in BOOLEAN, HeartbeatWrite(w, fifth) PROVE Queue!QueueNext
  BY <1>2, BeatCallsOff DEF Queue!QueueNext
<1>3. ASSUME Outside \/ \E w \in Workers : Crash(w) \/ \E o \in Outcome : Finish(w, o)
      PROVE  Queue!QueueNext \/ UNCHANGED <<State, Holder, Alive>>
  BY <1>3, OthersQueue DEF Queue!QueueNext
<1>4. ASSUME NEW w \in Workers, HeartbeatRead(w) \/ Restart(w) PROVE FALSE
  BY <1>4 DEF Calm, HeartbeatRead, Restart
<1> QED BY <1>1, <1>2, <1>3, <1>4 DEF Next, Outside

\* Under Calm every step of the scheduler is one of TaskQueue or changes nothing there: a
\* waiting task is taken by one live worker that has no other, ended by it alone, and called
\* off only when that worker is gone.
THEOREM ImplementsQueue == ASSUME Calm PROVE Spec => RefinesQueue
<1>1. Init => Queue!QueueInit
  <2> SUFFICES ASSUME Init PROVE Queue!QueueInit
    OBVIOUS
  <2>1. State \in [Tasks -> {"none", "waiting"}] /\ Holder = [t \in Tasks |-> None] /\ Alive = Workers
    BY DEF Init, State, Holder, Alive, Absent
  <2> QED BY <2>1 DEF Queue!QueueInit, State, Holder, Alive
<1>2. TypeOK /\ CalmInv /\ [Next]_vars => [Queue!QueueNext]_(Queue!qvars)
  BY QueueSteps DEF Queue!qvars, State, Holder, Alive
<1> QED BY <1>1, <1>2, Typed, CalmAlways, PTL DEF Spec, RefinesQueue, Queue!QueueSpec
=============================================================================
