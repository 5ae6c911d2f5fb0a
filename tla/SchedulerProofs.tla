--------------------------- MODULE SchedulerProofs ---------------------------
(* Theorems about Scheduler: the types, the inductive invariants behind          *)
(* ExclusiveRun, RunningAccounted and the refinement of TaskQueue, and behind    *)
(* OneDispatcher, and the election of the ticker.                                *)
EXTENDS Scheduler, TLAPS, FiniteSetTheorems

USE ConstAssumption DEF taskVars, rowVars, jobVars, cntVars, shrVars, hbVars, auxVars, asgVars

-----------------------------------------------------------------------------
(* Types. *)

\* The state the scheduler starts in is well typed.
LEMMA TypeInit == Init => TypeOK
  BY DEF Init, TypeOK, TaskTypeOK, RowTypeOK, JobTypeOK, AssignTypeOK, SharedTypeOK, CountTypeOK,
         TaskStatus, WorkerStatus, Outcome, PC, NoSnap, Absent

\* The memory of a process that ends, and that of the others.
LEMMA MemoryTyped ==
  ASSUME TypeOK, NEW w \in Workers, Memory(w, FALSE)
  PROVE  AssignTypeOK' /\ SharedTypeOK'
<1>1. AssignTypeOK'
  BY DEF Memory, TypeOK, AssignTypeOK
<1>2. SharedTypeOK'
  BY DEF Memory, TypeOK, SharedTypeOK
<1> QED BY <1>1, <1>2

\* It has nothing left of what it was doing.
LEMMA MemoryLost ==
  ASSUME TypeOK, NEW w \in Workers, Memory(w, FALSE)
  PROVE  beating'[w] = FALSE /\ wstat'[w] = "RUNNING" /\ team'[w] = {} /\ hb'[w] = FALSE
  BY DEF Memory, TypeOK, AssignTypeOK, SharedTypeOK

\* The memory of another process is left alone.
LEMMA MemoryKept ==
  ASSUME TypeOK, NEW w \in Workers, Memory(w, FALSE), NEW v \in Workers, v # w
  PROVE  /\ beating'[v] = beating[v] /\ wstat'[v] = wstat[v]
         /\ after'[v] = after[v] /\ team'[v] = team[v]
         /\ isTicker'[v] = isTicker[v] /\ doAssign'[v] = doAssign[v]
         /\ hb'[v] = hb[v] /\ hbrow'[v] = hbrow[v]
  BY DEF Memory, TypeOK, AssignTypeOK, SharedTypeOK

\* The top of Scheduler.loop keeps the types.
LEMMA TypeTop ==
  ASSUME TypeOK, NEW w \in Workers, Top(w) PROVE TypeOK'
<1> USE DEF Top
<1>1. TaskTypeOK' /\ RowTypeOK' /\ CountTypeOK'
  BY DEF TypeOK, TaskTypeOK, RowTypeOK, CountTypeOK, Memory
<1>2. JobTypeOK'
  <2>1. /\ \E p \in {"gone", "assign", "pop"} : pc' = [pc EXCEPT ![w] = p]
        /\ pc[w] = "top" /\ UNCHANGED jobVars
    OBVIOUS
  <2> HIDE DEF Top
  <2> QED BY <2>1 DEF TypeOK, JobTypeOK, PC
<1>3. AssignTypeOK'
  BY MemoryTyped DEF TypeOK, AssignTypeOK
<1>4. SharedTypeOK'
  BY MemoryTyped DEF TypeOK, SharedTypeOK
<1> QED BY <1>1, <1>2, <1>3, <1>4 DEF TypeOK

\* The first statements of assign_tasks (expiry, idle workers, quota) keep the types.
LEMMA TypeAssignStart ==
  ASSUME TypeOK, NEW w \in Workers, AssignStart(w) PROVE TypeOK'
<1> USE DEF AssignStart, Waiting
<1>1. RowTypeOK' /\ SharedTypeOK' /\ CountTypeOK'
  BY DEF TypeOK, RowTypeOK, SharedTypeOK, CountTypeOK
<1>2. TaskTypeOK'
  BY DEF TypeOK, TaskTypeOK, TaskStatus, Absent
<1>3. JobTypeOK'
  <2>1. /\ pc' = [pc EXCEPT ![w] = after[w]] \/ pc' = [pc EXCEPT ![w] = "select"]
        /\ pc[w] = "assign"
        /\ UNCHANGED jobVars
    OBVIOUS
  <2> HIDE DEF AssignStart
  <2>2. after[w] \in {"pop", "top"} /\ pc \in [Workers -> PC]
    BY DEF TypeOK, JobTypeOK, AssignTypeOK
  <2>3. /\ pc' \in [Workers -> PC] /\ pc'[w] \in {"pop", "top", "select"}
        /\ \A v \in Workers \ {w} : pc'[v] = pc[v]
    BY <2>1, <2>2 DEF PC
  <2> QED BY <2>1, <2>3 DEF TypeOK, JobTypeOK
<1>4. AssignTypeOK'
  <2> DEFINE crew == {v \in Workers : wrow[v] = "ACTIVE"}
  <2>1. Cardinality(crew) \in Nat
    BY FS_Subset, FS_CardinalityType
  <2>2. Cardinality(crew) * PerWorker \in Nat
    BY <2>1
  <2>3. /\ team' = [team EXCEPT ![w] = {v \in crew : ~wbusy[v]}]
        /\ \/ quota' = quota
           \/ quota' = [quota EXCEPT ![w] = Cardinality(crew) * PerWorker]
        /\ greedy' = greedy \/ greedy' = [greedy EXCEPT ![w] = Cardinality(crew) * PerWorker = 0]
        /\ UNCHANGED <<batch, after>>
    OBVIOUS
  <2> HIDE DEF AssignStart
  <2>4. crew \subseteq Workers
    OBVIOUS
  <2> HIDE DEF crew
  <2>5. quota' \in [Workers -> Nat]
    BY <2>2, <2>3 DEF TypeOK, AssignTypeOK
  <2>6. greedy' \in [Workers -> BOOLEAN]
    BY <2>2, <2>3, Zenon DEF TypeOK, AssignTypeOK
  <2> QED BY <2>3, <2>4, <2>5, <2>6 DEF TypeOK, AssignTypeOK
<1> QED BY <1>1, <1>2, <1>3, <1>4 DEF TypeOK

\* The reads of assign_tasks keep the types.
LEMMA TypeAssignSelect ==
  ASSUME TypeOK, NEW w \in Workers, AssignSelect(w) PROVE TypeOK'
<1> USE DEF AssignSelect, Round
<1>1. TaskTypeOK' /\ RowTypeOK' /\ SharedTypeOK' /\ CountTypeOK'
  BY DEF TypeOK, TaskTypeOK, RowTypeOK, SharedTypeOK, CountTypeOK
<1>2. JobTypeOK'
  BY DEF TypeOK, JobTypeOK, PC, Outcome, NoSnap
<1>3. AssignTypeOK'
  BY DEF TypeOK, AssignTypeOK
<1> QED BY <1>1, <1>2, <1>3 DEF TypeOK

\* The writes of assign_tasks, the rows of one round, keep the types.
LEMMA TypeAssignWrite ==
  ASSUME TypeOK, NEW w \in Workers, AssignWrite(w) PROVE TypeOK'
<1> USE DEF AssignWrite, AssignRound, Round
<1> PICK S \in SUBSET Tasks : pc[w] \in {"write", "select"} /\ AssignRound(w, S)
  BY DEF TypeOK, AssignTypeOK
<1>1. RowTypeOK' /\ SharedTypeOK'
  BY DEF TypeOK, RowTypeOK, SharedTypeOK
<1>2. TaskTypeOK'
  <2> PICK share \in [S -> team[w]] :
        tworker' = [t \in Tasks |-> IF t \in S /\ Waiting(t) THEN share[t] ELSE tworker[t]]
    OBVIOUS
  <2> QED BY DEF TypeOK, TaskTypeOK, AssignTypeOK, TaskStatus
<1>3. JobTypeOK'
  BY SMTT(40) DEF TypeOK, JobTypeOK, AssignTypeOK, PC
<1>4. AssignTypeOK'
  BY DEF TypeOK, AssignTypeOK
<1>5. CountTypeOK'
  BY DEF TypeOK, CountTypeOK
<1> QED BY <1>1, <1>2, <1>3, <1>4, <1>5 DEF TypeOK

\* pop_task's select keeps the types.
LEMMA TypePopSelect ==
  ASSUME TypeOK, NEW w \in Workers, PopSelect(w) PROVE TypeOK'
<1> USE DEF PopSelect, Mine, Row
<1>1. TaskTypeOK' /\ RowTypeOK' /\ AssignTypeOK' /\ SharedTypeOK' /\ CountTypeOK'
  BY DEF TypeOK, TaskTypeOK, RowTypeOK, AssignTypeOK, SharedTypeOK, CountTypeOK
<1>2. JobTypeOK'
  BY DEF TypeOK, JobTypeOK, TaskTypeOK, PC
<1> QED BY <1>1, <1>2 DEF TypeOK

\* pop_task's update to RUNNING, with the row it read earlier, keeps the types.
LEMMA TypePopGrab ==
  ASSUME TypeOK, NEW w \in Workers, PopGrab(w) PROVE TypeOK'
<1> USE DEF PopGrab, PopTask, Mine, Row
<1>1. RowTypeOK' /\ AssignTypeOK'
  BY DEF TypeOK, RowTypeOK, AssignTypeOK
<1>2. TaskTypeOK'
  BY DEF TypeOK, TaskTypeOK, TaskStatus, Absent
<1>3. JobTypeOK'
  <2> PICK t \in Tasks, r \in [run : Nat, fail : Nat] : pc[w] \in {"grab", "pop"} /\ PopTask(w, t, r)
    BY DEF TypeOK, JobTypeOK, TaskTypeOK
  <2>1. \/ /\ pc' = [pc EXCEPT ![w] = "pop"]
           /\ cur' = [cur EXCEPT ![w] = None] /\ snap' = [snap EXCEPT ![w] = NoSnap]
        \/ /\ pc' = [pc EXCEPT ![w] = "exec"]
           /\ cur' = [cur EXCEPT ![w] = t] /\ snap' = [snap EXCEPT ![w] = r]
    OBVIOUS
  <2>2. UNCHANGED out
    OBVIOUS
  <2>3. NoSnap \in [run : Nat, fail : Nat] /\ t # None
    BY DEF NoSnap
  <2> HIDE DEF PopGrab, PopTask, Mine, Row
  <2>4. pc' \in [Workers -> PC]
    BY <2>1 DEF TypeOK, JobTypeOK, PC
  <2>a. cur' \in [Workers -> Tasks \union {None}]
    BY <2>1 DEF TypeOK, JobTypeOK
  <2>5. snap' \in [Workers -> [run : Nat, fail : Nat]]
    BY <2>1, <2>3 DEF TypeOK, JobTypeOK
  <2>b. out' \in [Workers -> Outcome]
    BY <2>2 DEF TypeOK, JobTypeOK
  <2>6. \A v \in Workers : pc'[v] \in {"grab", "exec", "report"} <=> cur'[v] # None
    BY <2>1, <2>3 DEF TypeOK, JobTypeOK
  <2> QED BY <2>4, <2>a, <2>5, <2>b, <2>6 DEF JobTypeOK
<1>4. SharedTypeOK'
  BY DEF TypeOK, SharedTypeOK, WorkerStatus, Absent
<1>5. CountTypeOK'
  <2> PICK t \in Tasks, r \in [run : Nat, fail : Nat] : pc[w] \in {"grab", "pop"} /\ PopTask(w, t, r)
    BY DEF TypeOK, JobTypeOK, TaskTypeOK
  <2> HIDE DEF PopGrab, Mine, Row
  <2> QED BY DEF TypeOK, CountTypeOK
<1> QED BY <1>1, <1>2, <1>3, <1>4, <1>5 DEF TypeOK

\* pop_task returning None keeps the types.
LEMMA TypePopNothing ==
  ASSUME TypeOK, NEW w \in Workers, PopNothing(w) PROVE TypeOK'
<1> USE DEF PopNothing
<1>1. TaskTypeOK' /\ RowTypeOK' /\ AssignTypeOK' /\ SharedTypeOK' /\ CountTypeOK'
  BY DEF TypeOK, TaskTypeOK, RowTypeOK, AssignTypeOK, SharedTypeOK, CountTypeOK
<1>2. JobTypeOK'
  BY DEF TypeOK, JobTypeOK, PC, Outcome, NoSnap
<1> QED BY <1>1, <1>2 DEF TypeOK

\* Counting the due tasks keeps the types.
LEMMA TypeCountDue ==
  ASSUME TypeOK, NEW w \in Workers, CountDue(w) PROVE TypeOK'
<1> USE DEF CountDue
<1>1. TaskTypeOK' /\ RowTypeOK' /\ AssignTypeOK' /\ SharedTypeOK' /\ CountTypeOK'
  BY DEF TypeOK, TaskTypeOK, RowTypeOK, AssignTypeOK, SharedTypeOK, CountTypeOK
<1>2. JobTypeOK'
  BY DEF TypeOK, JobTypeOK, PC, Outcome, NoSnap
<1> QED BY <1>1, <1>2 DEF TypeOK

\* The branch of loop that found no task keeps the types.
LEMMA TypeIdle ==
  ASSUME TypeOK, NEW w \in Workers, Idle(w) PROVE TypeOK'
<1> USE DEF Idle
<1>1. TaskTypeOK' /\ RowTypeOK'
  BY DEF TypeOK, TaskTypeOK, RowTypeOK
<1>2. JobTypeOK'
  BY DEF TypeOK, JobTypeOK, PC, Outcome, NoSnap
<1>3. AssignTypeOK'
  BY DEF TypeOK, AssignTypeOK
<1>4. SharedTypeOK'
  BY DEF TypeOK, SharedTypeOK, WorkerStatus, Absent
<1>5. CountTypeOK'
  BY DEF TypeOK, CountTypeOK
<1> QED BY <1>1, <1>2, <1>3, <1>4, <1>5 DEF TypeOK

\* The end of a task's execution keeps the types.
LEMMA TypeFinish ==
  ASSUME TypeOK, NEW w \in Workers, NEW o \in Outcome, Finish(w, o) PROVE TypeOK'
<1> USE DEF Finish
<1>1. TaskTypeOK' /\ RowTypeOK' /\ AssignTypeOK' /\ SharedTypeOK'
  BY DEF TypeOK, TaskTypeOK, RowTypeOK, AssignTypeOK, SharedTypeOK
<1>2. JobTypeOK'
  BY DEF TypeOK, JobTypeOK, PC, Outcome, NoSnap
<1>3. CountTypeOK'
  <2>1. cur[w] \in Tasks
    BY DEF TypeOK, JobTypeOK
  <2> QED BY <2>1 DEF TypeOK, CountTypeOK
<1> QED BY <1>1, <1>2, <1>3 DEF TypeOK

\* report_task, for every outcome, keeps the types.
LEMMA TypeReport ==
  ASSUME TypeOK, NEW w \in Workers, Report(w) PROVE TypeOK'
<1> USE DEF Report, AfterRun
<1>1. RowTypeOK' /\ AssignTypeOK' /\ CountTypeOK'
  BY DEF TypeOK, RowTypeOK, AssignTypeOK, CountTypeOK
<1>2. TaskTypeOK'
  <2>1. cur[w] \in Tasks /\ snap[w] \in [run : Nat, fail : Nat]
    BY DEF TypeOK, JobTypeOK
  <2> QED BY <2>1 DEF TypeOK, TaskTypeOK, TaskStatus
<1>3. JobTypeOK'
  BY DEF TypeOK, JobTypeOK, PC, Outcome, NoSnap
<1>4. SharedTypeOK'
  BY DEF TypeOK, SharedTypeOK, WorkerStatus, Absent
<1> QED BY <1>1, <1>2, <1>3, <1>4 DEF TypeOK

\* The read of send_heartbeat keeps the types.
LEMMA TypeHeartbeatRead ==
  ASSUME TypeOK, NEW w \in Workers, HeartbeatRead(w) PROVE TypeOK'
<1> USE DEF HeartbeatRead
<1>1. TaskTypeOK' /\ RowTypeOK' /\ JobTypeOK' /\ AssignTypeOK' /\ CountTypeOK'
  BY DEF TypeOK, TaskTypeOK, RowTypeOK, JobTypeOK, AssignTypeOK, CountTypeOK
<1>2. SharedTypeOK'
  BY DEF TypeOK, SharedTypeOK, RowTypeOK
<1> QED BY <1>1, <1>2 DEF TypeOK

\* The writes of send_heartbeat (own row, burial of the dead, election) keep the types.
LEMMA TypeHeartbeatWrite ==
  ASSUME TypeOK, NEW w \in Workers, NEW fifth \in BOOLEAN, HeartbeatWrite(w, fifth) PROVE TypeOK'
<1> USE DEF HeartbeatWrite, Beat, Terminate
<1> PICK s \in WorkerStatus \union {Absent} : pc[w] # "gone" /\ Beat(w, s, fifth)
  BY DEF TypeOK, RowTypeOK, SharedTypeOK
<1> HIDE DEF HeartbeatWrite
<1> DEFINE stat == CASE s = Absent -> "ACTIVE"
                     [] s = "DISABLED" \/ Quits(s) -> s
                     [] OTHER -> IF wstat[w] = "RUNNING" THEN "RUNNING" ELSE "ACTIVE"
           written == ~Quits(s) /\ (s = Absent \/ wrow[w] # Absent)
           row == IF written /\ s # "DISABLED" THEN [wrow EXCEPT ![w] = "ACTIVE"] ELSE wrow
           age == IF written THEN [wage EXCEPT ![w] = 0] ELSE wage
<1>a. /\ wstat' = [wstat EXCEPT ![w] = stat]
      /\ beating' = [beating EXCEPT ![w] = @ /\ ~Quits(s)]
      /\ \/ UNCHANGED <<tstatus, tworker, wrow, wage, wticker, isTicker, doAssign>>
         \/ Coordinate(w, row, age, stat)
         \/ NoCoordination(w, row, age)
      /\ hb' = [hb EXCEPT ![w] = FALSE] /\ hbrow' = [hbrow EXCEPT ![w] = Absent]
      /\ wbusy' = wbusy \/ wbusy' = [wbusy EXCEPT ![w] = s # "DISABLED" /\ wstat[w] = "RUNNING"]
      /\ Terminate(w) \/ UNCHANGED <<pc, out>>
      /\ UNCHANGED <<tdue, tover, trun, tfail, visited, cur, snap, asgVars, cntVars, auxVars>>
  BY DEF Coordinate, NoCoordination
<1>b. stat \in {"RUNNING", "ACTIVE", "DISABLED", "TERMINATE", "KILL"}
  BY DEF Quits
<1>c. row \in [Workers -> WorkerStatus \union {Absent}] /\ age \in [Workers -> 0..2]
  BY DEF TypeOK, RowTypeOK, WorkerStatus
<1> HIDE DEF Beat, stat, row, age, written
<1>1. AssignTypeOK' /\ CountTypeOK'
  BY <1>a DEF TypeOK, AssignTypeOK, CountTypeOK
<1>2. TaskTypeOK'
  BY <1>a DEF TypeOK, TaskTypeOK, TaskStatus, Coordinate, NoCoordination
<1>3. RowTypeOK'
  <2>1. wrow' \in [Workers -> WorkerStatus \union {Absent}] /\ wage' \in [Workers -> 0..2]
    BY <1>a, <1>c DEF TypeOK, RowTypeOK, Coordinate, NoCoordination
  <2>2. wbusy' \in [Workers -> BOOLEAN]
    BY <1>a DEF TypeOK, RowTypeOK
  <2>3. \A dead, idler : Elected(w, row, dead, idler) \in [Workers -> BOOLEAN]
    BY Zenon DEF Elected
  <2>4. wticker' \in [Workers -> BOOLEAN]
    BY <1>a, <2>3 DEF TypeOK, RowTypeOK, Coordinate, NoCoordination
  <2> QED BY <2>1, <2>2, <2>4 DEF RowTypeOK
<1>4. JobTypeOK'
  BY <1>a DEF TypeOK, JobTypeOK, PC, Outcome
<1>5. SharedTypeOK'
  BY <1>a, <1>b DEF TypeOK, SharedTypeOK, Coordinate, NoCoordination
<1> QED BY <1>1, <1>2, <1>3, <1>4, <1>5 DEF TypeOK

\* queue_task keeps the types.
LEMMA TypeQueueTask ==
  ASSUME TypeOK, NEW t \in Tasks, NEW immediate \in BOOLEAN, QueueTask(t, immediate) PROVE TypeOK'
<1> USE DEF QueueTask
<1>1. JobTypeOK' /\ AssignTypeOK' /\ SharedTypeOK' /\ CountTypeOK'
  BY DEF TypeOK, JobTypeOK, AssignTypeOK, SharedTypeOK, CountTypeOK
<1>2. TaskTypeOK'
  BY DEF TypeOK, TaskTypeOK, TaskStatus, Absent
<1>3. RowTypeOK'
  BY DEF TypeOK, RowTypeOK, WorkerStatus, Absent
<1> QED BY <1>1, <1>2, <1>3 DEF TypeOK

\* _set_worker_status, by an administrator, keeps the types.
LEMMA TypeSetWorkerStatus ==
  ASSUME TypeOK, NEW action \in AdminActions, SetWorkerStatus(action) PROVE TypeOK'
<1> USE DEF SetWorkerStatus
<1>1. TaskTypeOK' /\ JobTypeOK' /\ AssignTypeOK' /\ SharedTypeOK'
  BY DEF TypeOK, TaskTypeOK, JobTypeOK, AssignTypeOK, SharedTypeOK
<1>2. RowTypeOK'
  BY DEF TypeOK, RowTypeOK, WorkerStatus, Absent
<1>3. CountTypeOK'
  BY DEF TypeOK, CountTypeOK
<1> QED BY <1>1, <1>2, <1>3 DEF TypeOK

\* The clock reaching a task's next_run_time keeps the types.
LEMMA TypeBecomeDue ==
  ASSUME TypeOK, NEW t \in Tasks, BecomeDue(t) PROVE TypeOK'
<1> USE DEF BecomeDue
<1>1. RowTypeOK' /\ JobTypeOK' /\ AssignTypeOK' /\ SharedTypeOK' /\ CountTypeOK'
  BY DEF TypeOK, RowTypeOK, JobTypeOK, AssignTypeOK, SharedTypeOK, CountTypeOK
<1>2. TaskTypeOK'
  BY DEF TypeOK, TaskTypeOK, TaskStatus, Absent
<1> QED BY <1>1, <1>2 DEF TypeOK

\* The clock passing a task's stop_time keeps the types.
LEMMA TypePassStopTime ==
  ASSUME TypeOK, NEW t \in Tasks, PassStopTime(t) PROVE TypeOK'
<1> USE DEF PassStopTime
<1>1. RowTypeOK' /\ JobTypeOK' /\ AssignTypeOK' /\ SharedTypeOK' /\ CountTypeOK'
  BY DEF TypeOK, RowTypeOK, JobTypeOK, AssignTypeOK, SharedTypeOK, CountTypeOK
<1>2. TaskTypeOK'
  BY DEF TypeOK, TaskTypeOK, TaskStatus, Absent
<1> QED BY <1>1, <1>2 DEF TypeOK

\* A heartbeat growing old keeps the types.
LEMMA TypeAge ==
  ASSUME TypeOK, NEW w \in Workers, Age(w) PROVE TypeOK'
<1> USE DEF Age, MayLapse
<1>1. TaskTypeOK' /\ JobTypeOK' /\ AssignTypeOK' /\ SharedTypeOK' /\ CountTypeOK'
  BY DEF TypeOK, TaskTypeOK, JobTypeOK, AssignTypeOK, SharedTypeOK, CountTypeOK
<1>2. RowTypeOK'
  BY DEF TypeOK, RowTypeOK, WorkerStatus, Absent
<1> QED BY <1>1, <1>2 DEF TypeOK

\* The death of a worker process keeps the types.
LEMMA TypeCrash ==
  ASSUME TypeOK, NEW w \in Workers, Crash(w) PROVE TypeOK'
<1> USE DEF Crash, Memory
<1>1. TaskTypeOK' /\ RowTypeOK' /\ AssignTypeOK'
  BY DEF TypeOK, TaskTypeOK, RowTypeOK, AssignTypeOK
<1>2. JobTypeOK'
  BY DEF TypeOK, JobTypeOK, PC, Outcome, NoSnap
<1>3. SharedTypeOK'
  BY DEF TypeOK, SharedTypeOK, WorkerStatus, Absent
<1>4. CountTypeOK'
  BY DEF TypeOK, CountTypeOK
<1> QED BY <1>1, <1>2, <1>3, <1>4 DEF TypeOK

\* Starting a worker under the name of a dead one keeps the types.
LEMMA TypeRestart ==
  ASSUME TypeOK, NEW w \in Workers, Restart(w) PROVE TypeOK'
<1> USE DEF Restart, Memory
<1>1. TaskTypeOK' /\ RowTypeOK'
  BY DEF TypeOK, TaskTypeOK, RowTypeOK
<1>2. JobTypeOK'
  BY DEF TypeOK, JobTypeOK, PC, Outcome, NoSnap
<1>3. AssignTypeOK'
  BY DEF TypeOK, AssignTypeOK
<1>4. SharedTypeOK'
  BY DEF TypeOK, SharedTypeOK, WorkerStatus, Absent
<1>5. CountTypeOK'
  BY DEF TypeOK, CountTypeOK
<1> QED BY <1>1, <1>2, <1>3, <1>4, <1>5 DEF TypeOK

\* Every step of the scheduler keeps the types: the actions put together.
LEMMA TypeNext == TypeOK /\ [Next]_vars => TypeOK'
<1> SUFFICES ASSUME TypeOK, [Next]_vars PROVE TypeOK'
  OBVIOUS
<1>1. CASE UNCHANGED vars
  BY <1>1 DEF vars, TypeOK, TaskTypeOK, RowTypeOK, JobTypeOK, AssignTypeOK, SharedTypeOK, CountTypeOK
<1>2. CASE Next
  <2>1. ASSUME NEW w \in Workers, Loop(w) PROVE TypeOK'
    BY <2>1, TypeTop, TypeAssignStart, TypeAssignSelect, TypeAssignWrite, TypePopSelect,
       TypePopGrab, TypePopNothing, TypeCountDue, TypeIdle, TypeReport DEF Loop
  <2> QED BY <1>2, <2>1, TypeFinish, TypeHeartbeatRead, TypeHeartbeatWrite, TypeAge, TypeCrash,
             TypeRestart, TypeQueueTask, TypeSetWorkerStatus, TypeBecomeDue, TypePassStopTime
          DEF Next
<1> QED BY <1>1, <1>2

\* Every variable keeps its type whatever the workers, the administrators and the
\* crashes do.
THEOREM Typed == Spec => []TypeOK
BY TypeInit, TypeNext, PTL DEF Spec

-----------------------------------------------------------------------------
(* Tasks are safe with their workers in calm circumstances. *)

\* What a beat does to the tables: the worker's own row is fresh, the rows it
\* deletes are those of dead workers, and so are the tasks it frees.
LEMMA BeatSpares ==
  ASSUME Calm, TypeOK, CalmInv, NEW w \in Workers, NEW fifth \in BOOLEAN, HeartbeatWrite(w, fifth)
  PROVE /\ pc[w] # "gone"
        /\ wrow'[w] = "ACTIVE" /\ wage'[w] = 0
        /\ \A v \in Workers \ {w} : \/ wrow'[v] = wrow[v] /\ wage'[v] = wage[v]
                                    \/ pc[v] = "gone" /\ wrow'[v] = Absent /\ wage'[v] = 0
        /\ \A t \in Tasks : \/ tstatus'[t] = tstatus[t] /\ tworker'[t] = tworker[t]
                            \/ /\ tstatus[t] = "RUNNING" /\ tworker[t] \in Workers
                               /\ pc[tworker[t]] = "gone"
                               /\ tstatus'[t] = "QUEUED" /\ tworker'[t] = None
        /\ \A t \in Tasks : tstatus'[t] = "RUNNING" /\ tworker[t] \in Workers
                              => wrow'[tworker[t]] # Absent \/ wrow[tworker[t]] = Absent
<1> USE DEF HeartbeatWrite
<1> DEFINE s == wrow[w]
           row == [wrow EXCEPT ![w] = "ACTIVE"]
           age == [wage EXCEPT ![w] = 0]
<1>a. pc[w] # "gone" /\ Beat(w, s, fifth) /\ s \in {Absent, "ACTIVE", "PICK", "STOP_TASK"}
  BY DEF CalmInv, Quiet
<1>b. \E stat \in {"ACTIVE", "RUNNING"} :
        /\ wstat' = [wstat EXCEPT ![w] = stat]
        /\ Coordinate(w, row, age, stat) \/ NoCoordination(w, row, age)
  BY <1>a DEF Beat, Quits, CalmInv, Quiet, Absent
<1>c. \A v \in Workers : v \in Dead(row, age) => pc[v] = "gone"
  BY DEF Dead, CalmInv, AgedGone, TypeOK, RowTypeOK
<1>d. \/ /\ \A v \in Workers : IF v \in Dead(row, age) THEN wrow'[v] = Absent /\ wage'[v] = 0
                               ELSE wrow'[v] = row[v] /\ wage'[v] = age[v]
         /\ \A t \in Tasks : IF t \in Freed(Dead(row, age))
                             THEN tstatus'[t] = "QUEUED" /\ tworker'[t] = None
                             ELSE tstatus'[t] = tstatus[t] /\ tworker'[t] = tworker[t]
      \/ wrow' = row /\ wage' = age /\ UNCHANGED <<tstatus, tworker>>
  BY <1>b DEF Coordinate, NoCoordination
<1> QED
  BY <1>c, <1>d, <1>a DEF Freed, Dead, TypeOK, RowTypeOK, Absent

\* The top of Scheduler.loop keeps the invariant of calm schedules.
LEMMA CalmTop ==
  ASSUME Calm, TypeOK, CalmInv, NEW w \in Workers, Top(w) PROVE CalmInv'
<1>0. /\ \A v \in Workers \ {w} : /\ pc'[v] = pc[v] /\ after'[v] = after[v] /\ hb'[v] = hb[v]
                                  /\ beating'[v] = beating[v] /\ wstat'[v] = wstat[v]
      /\ pc[w] = "top" /\ (hb'[w] = hb[w] \/ hb'[w] = FALSE)
      /\ \/ pc'[w] = "gone"
         \/ beating[w] /\ beating'[w] /\ pc'[w] \in {"assign", "pop"}
      /\ wstat'[w] \in {wstat[w], "RUNNING"}
      /\ \A v \in Workers : team'[v] \in {team[v], {}}
      /\ UNCHANGED <<taskVars, rowVars, cur>>
  <2>1. CASE Memory(w, FALSE) /\ pc' = [pc EXCEPT ![w] = "gone"]
    <3>1. /\ pc[w] = "top" /\ pc'[w] = "gone" /\ UNCHANGED <<taskVars, rowVars, cur>>
          /\ \A v \in Workers \ {w} : pc'[v] = pc[v]
      BY <2>1 DEF Top, TypeOK, JobTypeOK
    <3>2. hb'[w] = FALSE /\ wstat'[w] = "RUNNING" /\ team'[w] = {}
      BY <2>1, MemoryLost
    <3>3. \A v \in Workers \ {w} : /\ after'[v] = after[v] /\ hb'[v] = hb[v] /\ team'[v] = team[v]
                                  /\ beating'[v] = beating[v] /\ wstat'[v] = wstat[v]
      BY <2>1, MemoryKept
    <3> QED BY <3>1, <3>2, <3>3
  <2>2. CASE beating[w] /\ UNCHANGED <<team, shrVars, hbVars>>
    BY <2>2 DEF Top, TypeOK, JobTypeOK, AssignTypeOK
  <2> QED BY <2>1, <2>2 DEF Top
<1>1. \A v \in Workers : Quiet(v)'
  BY <1>0 DEF CalmInv, Quiet
<1>2. \A v \in Workers : AgedGone(v)'
  BY <1>0 DEF CalmInv, AgedGone
<1>3. \A v \in Workers : GivesUp(v)'
  BY <1>0 DEF CalmInv, GivesUp, Quiet
<1>4. \A v \in Workers : Owns(v)'
  BY <1>0 DEF CalmInv, Owns, TypeOK, JobTypeOK
<1>5. \A v \in Workers : Enrolled(v)'
  BY <1>0 DEF CalmInv, Enrolled
<1>6. RunningAccounted'
  BY <1>0 DEF CalmInv, RunningAccounted, Holds, Owns, TypeOK, JobTypeOK, TaskTypeOK
<1> QED BY <1>1, <1>2, <1>3, <1>4, <1>5, <1>6 DEF CalmInv

\* Starting assign_tasks keeps the invariant of calm schedules.
LEMMA CalmAssignStart ==
  ASSUME Calm, TypeOK, CalmInv, NEW w \in Workers, AssignStart(w) PROVE CalmInv'
<1> USE DEF AssignStart, Waiting
<1>a. /\ pc[w] = "assign"
      /\ pc' = [pc EXCEPT ![w] = after[w]] \/ pc' = [pc EXCEPT ![w] = "select"]
      /\ team' = [team EXCEPT ![w] = {v \in {u \in Workers : wrow[u] = "ACTIVE"} : ~wbusy[v]}]
      /\ tstatus' = [t \in Tasks |-> IF Waiting(t) /\ tover[t] THEN "EXPIRED" ELSE tstatus[t]]
      /\ UNCHANGED <<tworker, rowVars, cur, shrVars, hbVars, after>>
  OBVIOUS
<1> HIDE DEF AssignStart, Waiting
<1>0. /\ \A v \in Workers \ {w} : pc'[v] = pc[v] /\ team'[v] = team[v]
      /\ pc[w] = "assign" /\ pc'[w] \in {after[w], "select"} /\ after[w] \in {"pop", "top"}
      /\ \A t \in Tasks : tstatus'[t] = tstatus[t] \/ (Waiting(t) /\ tstatus'[t] = "EXPIRED")
      /\ \A v \in team'[w] : wrow[v] = "ACTIVE"
      /\ UNCHANGED <<tworker, rowVars, cur, shrVars, hbVars, after>>
  BY <1>a DEF TypeOK, JobTypeOK, AssignTypeOK
<1> USE DEF Waiting
<1>1. \A v \in Workers : Quiet(v)'
  BY <1>0 DEF CalmInv, Quiet
<1>2. \A v \in Workers : AgedGone(v)'
  BY <1>0 DEF CalmInv, AgedGone
<1>3. \A v \in Workers : GivesUp(v)'
  BY <1>0 DEF CalmInv, GivesUp, Quiet
<1>4. \A v \in Workers : Owns(v)'
  BY <1>0 DEF CalmInv, Owns, TypeOK, JobTypeOK
<1>5. \A v \in Workers : Enrolled(v)'
  BY <1>0 DEF CalmInv, Enrolled, Absent
<1>6. RunningAccounted'
  BY <1>0 DEF CalmInv, RunningAccounted, Holds, Owns, TypeOK, JobTypeOK, TaskTypeOK
<1> QED BY <1>1, <1>2, <1>3, <1>4, <1>5, <1>6 DEF CalmInv

\* The reads of assign_tasks keep the invariant of calm schedules.
LEMMA CalmAssignSelect ==
  ASSUME Calm, TypeOK, CalmInv, NEW w \in Workers, AssignSelect(w) PROVE CalmInv'
  BY DEF Calm, AssignSelect

\* The writes of assign_tasks keep the invariant of calm schedules.
LEMMA CalmAssignWrite ==
  ASSUME Calm, TypeOK, CalmInv, NEW w \in Workers, AssignWrite(w) PROVE CalmInv'
<1> USE DEF AssignWrite, AssignRound, Round, Waiting, Available
<1>a. pc[w] = "select" /\ \E S \in SUBSET Tasks : AssignRound(w, S)
  BY DEF CalmInv, Quiet
<1> PICK S \in SUBSET Tasks : AssignRound(w, S)
  BY <1>a
<1> PICK share \in [S -> team[w]] :
      tworker' = [t \in Tasks |-> IF t \in S /\ Waiting(t) THEN share[t] ELSE tworker[t]]
  OBVIOUS
<1>0. /\ \A v \in Workers \ {w} : pc'[v] = pc[v] /\ team'[v] = team[v]
      /\ pc[w] = "select" /\ pc'[w] = after[w] /\ team'[w] = {}
      /\ after[w] \in {"pop", "top"}
      /\ \A t \in Tasks : \/ tworker'[t] = tworker[t] /\ tstatus'[t] = tstatus[t]
                          \/ /\ Waiting(t) /\ tstatus'[t] = "ASSIGNED"
                             /\ tworker'[t] \in team[w]
      /\ UNCHANGED <<rowVars, cur, shrVars, hbVars, after>>
  BY <1>a DEF TypeOK, JobTypeOK, AssignTypeOK
<1> HIDE DEF AssignWrite, AssignRound
<1>1. \A v \in Workers : Quiet(v)'
  BY <1>0 DEF CalmInv, Quiet
<1>2. \A v \in Workers : AgedGone(v)'
  BY <1>0 DEF CalmInv, AgedGone
<1>3. \A v \in Workers : GivesUp(v)'
  BY <1>0 DEF CalmInv, GivesUp, Quiet
<1>4. \A v \in Workers : Owns(v)'
  BY <1>0 DEF CalmInv, Owns, TypeOK, JobTypeOK
<1>5. \A v \in Workers : Enrolled(v)'
  BY <1>0 DEF CalmInv, Enrolled
<1>6. RunningAccounted'
  BY <1>0 DEF CalmInv, RunningAccounted, Holds, Owns, TypeOK, JobTypeOK, TaskTypeOK
<1> QED BY <1>1, <1>2, <1>3, <1>4, <1>5, <1>6 DEF CalmInv

\* pop_task's select keeps the invariant of calm schedules.
LEMMA CalmPopSelect ==
  ASSUME Calm, TypeOK, CalmInv, NEW w \in Workers, PopSelect(w) PROVE CalmInv'
  BY DEF Calm, PopSelect

\* pop_task's update to RUNNING keeps the invariant of calm schedules.
LEMMA CalmPopGrab ==
  ASSUME Calm, TypeOK, CalmInv, NEW w \in Workers, PopGrab(w) PROVE CalmInv'
<1> USE DEF PopGrab, PopTask, Mine, Row
<1>a. pc[w] = "pop" /\ \E t \in Mine(w) : PopTask(w, t, Row(t))
  BY DEF CalmInv, Quiet
<1> PICK t \in Tasks : tworker[t] = w /\ tstatus[t] = "ASSIGNED" /\ PopTask(w, t, Row(t))
  BY <1>a
<1>0. /\ \A v \in Workers \ {w} : pc'[v] = pc[v] /\ cur'[v] = cur[v] /\ wstat'[v] = wstat[v]
      /\ pc[w] = "pop" /\ pc'[w] = "exec" /\ cur'[w] = t /\ wstat'[w] = "RUNNING"
      /\ tworker[t] = w /\ tstatus[t] = "ASSIGNED" /\ tstatus'[t] = "RUNNING"
      /\ \A u \in Tasks \ {t} : tstatus'[u] = tstatus[u]
      /\ \A v \in Workers : beating'[v] = beating[v]
      /\ UNCHANGED <<tworker, rowVars, team, after, hbVars>>
  BY <1>a DEF Calm, TypeOK, JobTypeOK, TaskTypeOK, SharedTypeOK
<1> HIDE DEF PopGrab, PopTask
<1>1. \A v \in Workers : Quiet(v)'
  BY <1>0 DEF CalmInv, Quiet
<1>2. \A v \in Workers : AgedGone(v)'
  BY <1>0 DEF CalmInv, AgedGone
<1>3. \A v \in Workers : GivesUp(v)'
  BY <1>0 DEF CalmInv, GivesUp, Quiet
<1>4. \A v \in Workers : Owns(v)'
  BY <1>0 DEF CalmInv, Owns, TypeOK, JobTypeOK
<1>5. \A v \in Workers : Enrolled(v)'
  BY <1>0 DEF CalmInv, Enrolled
<1>6. RunningAccounted'
  BY <1>0 DEF CalmInv, RunningAccounted, Holds, Owns, TypeOK, JobTypeOK, TaskTypeOK, Enrolled
<1> QED BY <1>1, <1>2, <1>3, <1>4, <1>5, <1>6 DEF CalmInv

\* pop_task returning None keeps the invariant of calm schedules.
LEMMA CalmPopNothing ==
  ASSUME Calm, TypeOK, CalmInv, NEW w \in Workers, PopNothing(w) PROVE CalmInv'
<1> USE DEF PopNothing
<1>1. \A v \in Workers : Quiet(v)'
  BY DEF Calm, CalmInv, Quiet, TypeOK, RowTypeOK, SharedTypeOK, JobTypeOK
<1>2. \A v \in Workers : AgedGone(v)'
  BY DEF Calm, CalmInv, AgedGone, TypeOK, RowTypeOK, JobTypeOK
<1>3. \A v \in Workers : GivesUp(v)'
  BY DEF Calm, CalmInv, GivesUp, TypeOK, JobTypeOK, AssignTypeOK, SharedTypeOK, Quiet
<1>4. \A v \in Workers : Owns(v)'
  BY DEF Calm, CalmInv, Owns, TypeOK, TaskTypeOK, JobTypeOK
<1>5. \A v \in Workers : Enrolled(v)'
  BY DEF Calm, CalmInv, Enrolled, TypeOK, TaskTypeOK, RowTypeOK, JobTypeOK, AssignTypeOK
<1>6. RunningAccounted'
  BY DEF Calm, CalmInv, RunningAccounted, Holds, Owns, TypeOK, TaskTypeOK, RowTypeOK, JobTypeOK
<1> QED BY <1>1, <1>2, <1>3, <1>4, <1>5, <1>6 DEF CalmInv

\* Counting the due tasks keeps the invariant of calm schedules.
LEMMA CalmCountDue ==
  ASSUME Calm, TypeOK, CalmInv, NEW w \in Workers, CountDue(w) PROVE CalmInv'
<1> USE DEF CountDue
<1>1. \A v \in Workers : Quiet(v)'
  BY DEF Calm, CalmInv, Quiet, TypeOK, RowTypeOK, SharedTypeOK, JobTypeOK
<1>2. \A v \in Workers : AgedGone(v)'
  BY DEF Calm, CalmInv, AgedGone, TypeOK, RowTypeOK, JobTypeOK
<1>3. \A v \in Workers : GivesUp(v)'
  BY DEF Calm, CalmInv, GivesUp, TypeOK, JobTypeOK, AssignTypeOK, SharedTypeOK, Quiet
<1>4. \A v \in Workers : Owns(v)'
  BY DEF Calm, CalmInv, Owns, TypeOK, TaskTypeOK, JobTypeOK
<1>5. \A v \in Workers : Enrolled(v)'
  BY DEF Calm, CalmInv, Enrolled, TypeOK, TaskTypeOK, RowTypeOK, JobTypeOK, AssignTypeOK
<1>6. RunningAccounted'
  BY DEF Calm, CalmInv, RunningAccounted, Holds, Owns, TypeOK, TaskTypeOK, RowTypeOK, JobTypeOK
<1> QED BY <1>1, <1>2, <1>3, <1>4, <1>5, <1>6 DEF CalmInv

\* The idle branch of loop keeps the invariant of calm schedules.
LEMMA CalmIdle ==
  ASSUME Calm, TypeOK, CalmInv, NEW w \in Workers, Idle(w) PROVE CalmInv'
<1> USE DEF Idle
<1>1. \A v \in Workers : Quiet(v)'
  BY DEF Calm, CalmInv, Quiet, TypeOK, RowTypeOK, SharedTypeOK, JobTypeOK
<1>2. \A v \in Workers : AgedGone(v)'
  BY DEF Calm, CalmInv, AgedGone, TypeOK, RowTypeOK, JobTypeOK
<1>3. \A v \in Workers : GivesUp(v)'
  BY DEF Calm, CalmInv, GivesUp, TypeOK, JobTypeOK, AssignTypeOK, SharedTypeOK, Quiet
<1>4. \A v \in Workers : Owns(v)'
  BY DEF Calm, CalmInv, Owns, TypeOK, TaskTypeOK, JobTypeOK
<1>5. \A v \in Workers : Enrolled(v)'
  BY DEF Calm, CalmInv, Enrolled, TypeOK, TaskTypeOK, RowTypeOK, JobTypeOK, AssignTypeOK
<1>6. RunningAccounted'
  BY DEF Calm, CalmInv, RunningAccounted, Holds, Owns, TypeOK, TaskTypeOK, RowTypeOK, JobTypeOK
<1> QED BY <1>1, <1>2, <1>3, <1>4, <1>5, <1>6 DEF CalmInv

\* The end of a task's execution keeps the invariant of calm schedules.
LEMMA CalmFinish ==
  ASSUME Calm, TypeOK, CalmInv, NEW w \in Workers, NEW o \in Outcome, Finish(w, o) PROVE CalmInv'
<1> USE DEF Finish
<1>1. \A v \in Workers : Quiet(v)'
  BY DEF Calm, CalmInv, Quiet, TypeOK, RowTypeOK, SharedTypeOK, JobTypeOK
<1>2. \A v \in Workers : AgedGone(v)'
  BY DEF Calm, CalmInv, AgedGone, TypeOK, RowTypeOK, JobTypeOK
<1>3. \A v \in Workers : GivesUp(v)'
  BY DEF Calm, CalmInv, GivesUp, TypeOK, JobTypeOK, AssignTypeOK, SharedTypeOK, Quiet
<1>4. \A v \in Workers : Owns(v)'
  BY DEF Calm, CalmInv, Owns, TypeOK, TaskTypeOK, JobTypeOK
<1>5. \A v \in Workers : Enrolled(v)'
  BY DEF Calm, CalmInv, Enrolled, TypeOK, TaskTypeOK, RowTypeOK, JobTypeOK, AssignTypeOK
<1>6. RunningAccounted'
  BY DEF Calm, CalmInv, RunningAccounted, Holds, Owns, TypeOK, TaskTypeOK, RowTypeOK, JobTypeOK
<1> QED BY <1>1, <1>2, <1>3, <1>4, <1>5, <1>6 DEF CalmInv

\* report_task keeps the invariant of calm schedules.
LEMMA CalmReport ==
  ASSUME Calm, TypeOK, CalmInv, NEW w \in Workers, Report(w) PROVE CalmInv'
<1> USE DEF Report, AfterRun
<1>1. \A v \in Workers : Quiet(v)'
  BY DEF Calm, CalmInv, Quiet, TypeOK, RowTypeOK, SharedTypeOK, JobTypeOK
<1>2. \A v \in Workers : AgedGone(v)'
  BY DEF Calm, CalmInv, AgedGone, TypeOK, RowTypeOK, JobTypeOK
<1>3. \A v \in Workers : GivesUp(v)'
  BY DEF Calm, CalmInv, GivesUp, TypeOK, JobTypeOK, AssignTypeOK, SharedTypeOK, Quiet
<1>4. \A v \in Workers : Owns(v)'
  BY DEF Calm, CalmInv, Owns, TypeOK, TaskTypeOK, JobTypeOK
<1>5. \A v \in Workers : Enrolled(v)'
  BY DEF Calm, CalmInv, Enrolled, TypeOK, TaskTypeOK, RowTypeOK, JobTypeOK, AssignTypeOK
<1>6. RunningAccounted'
  BY DEF Calm, CalmInv, RunningAccounted, Holds, Owns, TypeOK, TaskTypeOK, RowTypeOK, JobTypeOK
<1> QED BY <1>1, <1>2, <1>3, <1>4, <1>5, <1>6 DEF CalmInv

\* The read of send_heartbeat keeps the invariant of calm schedules.
LEMMA CalmHeartbeatRead ==
  ASSUME Calm, TypeOK, CalmInv, NEW w \in Workers, HeartbeatRead(w) PROVE CalmInv'
  BY DEF Calm, HeartbeatRead

\* The writes of send_heartbeat keep the invariant of calm schedules.
LEMMA CalmHeartbeatWrite ==
  ASSUME Calm, TypeOK, CalmInv, NEW w \in Workers, NEW fifth \in BOOLEAN, HeartbeatWrite(w, fifth) PROVE CalmInv'
<1> USE DEF HeartbeatWrite
<1>a. pc[w] # "gone" /\ Beat(w, wrow[w], fifth) /\ wrow[w] \in {Absent, "ACTIVE", "PICK", "STOP_TASK"}
  BY DEF CalmInv, Quiet
<1>b. /\ \A v \in Workers \ {w} : /\ hb'[v] = hb[v] /\ pc'[v] = pc[v] /\ wstat'[v] = wstat[v]
                                  /\ beating'[v] = beating[v]
      /\ hb'[w] = FALSE /\ wstat'[w] \in {"ACTIVE", "RUNNING"} /\ beating'[w] = beating[w]
      /\ pc'[w] = pc[w] \/ (pc[w] = "exec" /\ pc'[w] = "report")
      /\ UNCHANGED <<cur, team, after>>
  BY <1>a DEF Beat, Quits, Terminate, TypeOK, JobTypeOK, SharedTypeOK, Absent
<1> HIDE DEF HeartbeatWrite
<1>1. \A v \in Workers : Quiet(v)'
  BY <1>b, BeatSpares DEF CalmInv, Quiet
<1>2. \A v \in Workers : AgedGone(v)'
  BY <1>b, BeatSpares DEF CalmInv, AgedGone
<1>3. \A v \in Workers : GivesUp(v)'
  BY <1>b, BeatSpares DEF CalmInv, GivesUp, Quiet
<1>4. \A v \in Workers : Owns(v)'
  BY <1>b, BeatSpares DEF CalmInv, Owns, TypeOK, JobTypeOK
<1>5. \A v \in Workers : Enrolled(v)'
  BY <1>b, BeatSpares DEF CalmInv, Enrolled, Absent
<1>6. RunningAccounted'
  BY <1>b, BeatSpares DEF CalmInv, RunningAccounted, Holds, Owns, TypeOK, JobTypeOK, TaskTypeOK
<1> QED BY <1>1, <1>2, <1>3, <1>4, <1>5, <1>6 DEF CalmInv

\* queue_task keeps the invariant of calm schedules.
LEMMA CalmQueueTask ==
  ASSUME Calm, TypeOK, CalmInv, NEW t \in Tasks, NEW immediate \in BOOLEAN, QueueTask(t, immediate) PROVE CalmInv'
<1> USE DEF QueueTask
<1>0. /\ tstatus[t] = Absent /\ tstatus'[t] = "QUEUED"
      /\ \A u \in Tasks \ {t} : tstatus'[u] = tstatus[u]
      /\ \A v \in Workers : wrow'[v] \in {wrow[v], "PICK"}
      /\ UNCHANGED <<tworker, wage, pc, cur, team, after, shrVars, hbVars>>
  BY DEF TypeOK, TaskTypeOK, RowTypeOK
<1> HIDE DEF QueueTask
<1>1. \A v \in Workers : Quiet(v)'
  BY <1>0 DEF CalmInv, Quiet
<1>2. \A v \in Workers : AgedGone(v)'
  BY <1>0 DEF CalmInv, AgedGone
<1>3. \A v \in Workers : GivesUp(v)'
  BY <1>0 DEF CalmInv, GivesUp, Quiet
<1>4. \A v \in Workers : Owns(v)'
  BY <1>0 DEF CalmInv, Owns, TypeOK, JobTypeOK, Absent
<1>5. \A v \in Workers : Enrolled(v)'
  BY <1>0 DEF CalmInv, Enrolled, Absent
<1>6. RunningAccounted'
  BY <1>0 DEF CalmInv, RunningAccounted, Holds, Owns, TypeOK, JobTypeOK, TaskTypeOK, Absent
<1> QED BY <1>1, <1>2, <1>3, <1>4, <1>5, <1>6 DEF CalmInv

\* _set_worker_status keeps the invariant of calm schedules.
LEMMA CalmSetWorkerStatus ==
  ASSUME Calm, TypeOK, CalmInv, NEW action \in AdminActions, SetWorkerStatus(action) PROVE CalmInv'
<1> USE DEF SetWorkerStatus
<1>0. /\ \A v \in Workers : wrow'[v] = wrow[v] \/ wrow'[v] \in {"ACTIVE", "PICK", "STOP_TASK"}
      /\ UNCHANGED <<taskVars, wage, pc, cur, team, after, shrVars, hbVars>>
  BY DEF Calm, TypeOK, RowTypeOK
<1> HIDE DEF SetWorkerStatus
<1>1. \A v \in Workers : Quiet(v)'
  BY <1>0 DEF CalmInv, Quiet
<1>2. \A v \in Workers : AgedGone(v)'
  BY <1>0 DEF CalmInv, AgedGone
<1>3. \A v \in Workers : GivesUp(v)'
  BY <1>0 DEF CalmInv, GivesUp, Quiet
<1>4. \A v \in Workers : Owns(v)'
  BY <1>0 DEF CalmInv, Owns, TypeOK, JobTypeOK
<1>5. \A v \in Workers : Enrolled(v)'
  BY <1>0 DEF CalmInv, Enrolled, Absent
<1>6. RunningAccounted'
  BY <1>0 DEF CalmInv, RunningAccounted, Holds, Owns, TypeOK, JobTypeOK, TaskTypeOK, Absent
<1> QED BY <1>1, <1>2, <1>3, <1>4, <1>5, <1>6 DEF CalmInv

\* The clock reaching a task's next_run_time keeps the invariant of calm schedules.
LEMMA CalmBecomeDue ==
  ASSUME Calm, TypeOK, CalmInv, NEW t \in Tasks, BecomeDue(t) PROVE CalmInv'
<1> USE DEF BecomeDue
<1>1. \A v \in Workers : Quiet(v)'
  BY DEF Calm, CalmInv, Quiet, TypeOK, RowTypeOK, SharedTypeOK, JobTypeOK
<1>2. \A v \in Workers : AgedGone(v)'
  BY DEF Calm, CalmInv, AgedGone, TypeOK, RowTypeOK, JobTypeOK
<1>3. \A v \in Workers : GivesUp(v)'
  BY DEF Calm, CalmInv, GivesUp, TypeOK, JobTypeOK, AssignTypeOK, SharedTypeOK, Quiet
<1>4. \A v \in Workers : Owns(v)'
  BY DEF Calm, CalmInv, Owns, TypeOK, TaskTypeOK, JobTypeOK
<1>5. \A v \in Workers : Enrolled(v)'
  BY DEF Calm, CalmInv, Enrolled, TypeOK, TaskTypeOK, RowTypeOK, JobTypeOK, AssignTypeOK
<1>6. RunningAccounted'
  BY DEF Calm, CalmInv, RunningAccounted, Holds, Owns, TypeOK, TaskTypeOK, RowTypeOK, JobTypeOK
<1> QED BY <1>1, <1>2, <1>3, <1>4, <1>5, <1>6 DEF CalmInv

\* The clock passing a task's stop_time keeps the invariant of calm schedules.
LEMMA CalmPassStopTime ==
  ASSUME Calm, TypeOK, CalmInv, NEW t \in Tasks, PassStopTime(t) PROVE CalmInv'
<1> USE DEF PassStopTime
<1>1. \A v \in Workers : Quiet(v)'
  BY DEF Calm, CalmInv, Quiet, TypeOK, RowTypeOK, SharedTypeOK, JobTypeOK
<1>2. \A v \in Workers : AgedGone(v)'
  BY DEF Calm, CalmInv, AgedGone, TypeOK, RowTypeOK, JobTypeOK
<1>3. \A v \in Workers : GivesUp(v)'
  BY DEF Calm, CalmInv, GivesUp, TypeOK, JobTypeOK, AssignTypeOK, SharedTypeOK, Quiet
<1>4. \A v \in Workers : Owns(v)'
  BY DEF Calm, CalmInv, Owns, TypeOK, TaskTypeOK, JobTypeOK
<1>5. \A v \in Workers : Enrolled(v)'
  BY DEF Calm, CalmInv, Enrolled, TypeOK, TaskTypeOK, RowTypeOK, JobTypeOK, AssignTypeOK
<1>6. RunningAccounted'
  BY DEF Calm, CalmInv, RunningAccounted, Holds, Owns, TypeOK, TaskTypeOK, RowTypeOK, JobTypeOK
<1> QED BY <1>1, <1>2, <1>3, <1>4, <1>5, <1>6 DEF CalmInv

\* A heartbeat growing old keeps the invariant of calm schedules.
LEMMA CalmAge ==
  ASSUME Calm, TypeOK, CalmInv, NEW w \in Workers, Age(w) PROVE CalmInv'
<1> USE DEF Age, MayLapse
<1>0. /\ \A v \in Workers \ {w} : wage'[v] = wage[v]
      /\ pc[w] = "gone"
      /\ UNCHANGED <<taskVars, wrow, pc, cur, team, after, shrVars, hbVars>>
  BY DEF Calm, CalmInv, Quiet, GivesUp, TypeOK, RowTypeOK
<1> HIDE DEF Age, MayLapse
<1>1. \A v \in Workers : Quiet(v)'
  BY <1>0 DEF CalmInv, Quiet
<1>2. \A v \in Workers : AgedGone(v)'
  BY <1>0 DEF CalmInv, AgedGone
<1>3. \A v \in Workers : GivesUp(v)'
  BY <1>0 DEF CalmInv, GivesUp, Quiet
<1>4. \A v \in Workers : Owns(v)'
  BY <1>0 DEF CalmInv, Owns, TypeOK, JobTypeOK
<1>5. \A v \in Workers : Enrolled(v)'
  BY <1>0 DEF CalmInv, Enrolled
<1>6. RunningAccounted'
  BY <1>0 DEF CalmInv, RunningAccounted, Holds, Owns, TypeOK, JobTypeOK, TaskTypeOK
<1> QED BY <1>1, <1>2, <1>3, <1>4, <1>5, <1>6 DEF CalmInv

\* The death of a worker process keeps the invariant of calm schedules.
LEMMA CalmCrash ==
  ASSUME Calm, TypeOK, CalmInv, NEW w \in Workers, Crash(w) PROVE CalmInv'
<1>0. /\ \A v \in Workers \ {w} : /\ pc'[v] = pc[v] /\ cur'[v] = cur[v] /\ beating'[v] = beating[v]
                                  /\ hb'[v] = hb[v] /\ after'[v] = after[v] /\ wstat'[v] = wstat[v]
      /\ pc[w] # "gone" /\ pc'[w] = "gone" /\ hb'[w] = FALSE /\ wstat'[w] = "RUNNING"
      /\ \A v \in Workers : team'[v] \in {team[v], {}}
      /\ UNCHANGED <<taskVars, rowVars>>
  <2>1. /\ Memory(w, FALSE) /\ pc' = [pc EXCEPT ![w] = "gone"] /\ cur' = [cur EXCEPT ![w] = None]
        /\ pc[w] # "gone" /\ UNCHANGED <<taskVars, rowVars>>
    BY DEF Crash
  <2>2. /\ \A v \in Workers \ {w} : pc'[v] = pc[v] /\ cur'[v] = cur[v]
        /\ pc'[w] = "gone"
    BY <2>1 DEF TypeOK, JobTypeOK
  <2>3. /\ hb'[w] = FALSE /\ wstat'[w] = "RUNNING" /\ team'[w] = {}
        /\ \A v \in Workers \ {w} : /\ beating'[v] = beating[v] /\ hb'[v] = hb[v]
                                    /\ after'[v] = after[v] /\ wstat'[v] = wstat[v]
                                    /\ team'[v] = team[v]
    BY <2>1, MemoryLost, MemoryKept
  <2> QED BY <2>1, <2>2, <2>3
<1>1. \A v \in Workers : Quiet(v)'
  BY <1>0 DEF CalmInv, Quiet
<1>2. \A v \in Workers : AgedGone(v)'
  BY <1>0 DEF CalmInv, AgedGone
<1>3. \A v \in Workers : GivesUp(v)'
  BY <1>0 DEF CalmInv, GivesUp, Quiet
<1>4. \A v \in Workers : Owns(v)'
  BY <1>0 DEF CalmInv, Owns, TypeOK, JobTypeOK
<1>5. \A v \in Workers : Enrolled(v)'
  BY <1>0 DEF CalmInv, Enrolled
<1>6. RunningAccounted'
  BY <1>0 DEF CalmInv, RunningAccounted, Holds, Owns, TypeOK, JobTypeOK, TaskTypeOK, Enrolled
<1> QED BY <1>1, <1>2, <1>3, <1>4, <1>5, <1>6 DEF CalmInv

\* Restarting a worker keeps the invariant of calm schedules.
LEMMA CalmRestart ==
  ASSUME Calm, TypeOK, CalmInv, NEW w \in Workers, Restart(w) PROVE CalmInv'
  BY DEF Calm, Restart

\* The scheduler starts with every worker quiet and no RUNNING task.
LEMMA CalmInit == Init => CalmInv
  BY DEF Init, CalmInv, Quiet, AgedGone, GivesUp, Owns, Enrolled, RunningAccounted, Absent

\* Every step keeps the invariant of calm schedules: the actions put together.
LEMMA CalmNext == Calm /\ TypeOK /\ CalmInv /\ [Next]_vars => CalmInv'
<1> SUFFICES ASSUME Calm, TypeOK, CalmInv, [Next]_vars PROVE CalmInv'
  OBVIOUS
<1>1. CASE UNCHANGED vars
  BY <1>1 DEF vars, CalmInv, Quiet, AgedGone, GivesUp, Owns, Enrolled, RunningAccounted, Holds
<1>2. CASE Next
  <2>1. ASSUME NEW w \in Workers, Loop(w) PROVE CalmInv'
    BY <2>1, CalmTop, CalmAssignStart, CalmAssignSelect, CalmAssignWrite, CalmPopSelect,
       CalmPopGrab, CalmPopNothing, CalmCountDue, CalmIdle, CalmReport DEF Loop
  <2> QED BY <1>2, <2>1, CalmFinish, CalmHeartbeatRead, CalmHeartbeatWrite, CalmAge, CalmCrash,
             CalmRestart, CalmQueueTask, CalmSetWorkerStatus, CalmBecomeDue, CalmPassStopTime
          DEF Next
<1> QED BY <1>1, <1>2

\* In calm circumstances the inductive invariant holds of every number of workers,
\* tasks, retries, repeats, crashes and administrators' actions.
THEOREM CalmAlways == ASSUME Calm PROVE Spec => []CalmInv
<1>1. TypeOK /\ CalmInv /\ [Next]_vars => (TypeOK /\ CalmInv)'
  BY CalmNext, TypeNext
<1> QED BY <1>1, TypeInit, CalmInit, PTL DEF Spec

\* "none will touch my task!" (pop_task): no two workers execute one task.
THEOREM Exclusive == ASSUME Calm PROVE Spec => []ExclusiveRun
<1>1. CalmInv => ExclusiveRun
  BY DEF CalmInv, Owns, ExclusiveRun, Holds
<1> QED BY <1>1, CalmAlways, PTL

\* A RUNNING task is executed by its worker or will be freed (send_heartbeat).
THEOREM Accounted == ASSUME Calm PROVE Spec => []RunningAccounted
<1>1. CalmInv => RunningAccounted
  BY DEF CalmInv
<1> QED BY <1>1, CalmAlways, PTL

-----------------------------------------------------------------------------
(* The election of the ticker. *)

\* Every step keeps the ticker flag on one row at most: only an election, which clears
\* it everywhere first, sets it (send_heartbeat).
LEMMA OneTickerNext == TypeOK /\ OneTickerRow /\ [Next]_vars => OneTickerRow'
<1> SUFFICES ASSUME TypeOK, OneTickerRow, [Next]_vars PROVE OneTickerRow'
  OBVIOUS
<1>1. ASSUME NEW w \in Workers, NEW fifth \in BOOLEAN, HeartbeatWrite(w, fifth)
      PROVE OneTickerRow'
  <2>1. wticker' = wticker \/ \E row, dead, idler : wticker' = Elected(w, row, dead, idler)
    BY <1>1 DEF HeartbeatWrite, Beat, Coordinate, NoCoordination
  <2>2. ASSUME NEW row, NEW dead, NEW idler, wticker' = Elected(w, row, dead, idler)
        PROVE OneTickerRow'
    BY <2>2, Zenon DEF Elected, OneTickerRow
  <2> QED BY <2>1, <2>2 DEF OneTickerRow
<1>2. ASSUME NEW w \in Workers, Loop(w) PROVE wticker' = wticker
  BY <1>2 DEF Loop, Top, AssignStart, AssignSelect, AssignWrite, AssignRound, PopSelect, PopGrab,
              PopTask, PopNothing, CountDue, Idle, Report
<1>3. (\E w \in Workers, fifth \in BOOLEAN : HeartbeatWrite(w, fifth)) \/ wticker' = wticker
  BY <1>2 DEF Next, vars, Finish, HeartbeatRead, Age, Crash, Restart, QueueTask, BecomeDue,
              PassStopTime, SetWorkerStatus
<1> QED BY <1>1, <1>3 DEF OneTickerRow

\* being_a_ticker never leaves two rows with is_ticker, even when reads and writes
\* interleave, names are reused and administrators interfere.
THEOREM OneTicker == Spec => []OneTickerRow
<1>1. Init => OneTickerRow
  BY DEF Init, OneTickerRow
<1> QED BY <1>1, TypeInit, TypeNext, OneTickerNext, PTL DEF Spec

-----------------------------------------------------------------------------
(* Who dispatches. *)

\* The circumstances in which only the ticker asks itself to assign tasks: live workers
\* beat in time and keep their names for themselves, and nobody writes the status of a
\* worker from outside (no queue_task with immediate either).
HandsOff ==
  /\ ~LateBeats /\ ~ReusedNames /\ MaxTotalRuns = 0 /\ Late = {}
  /\ AdminActions \subseteq {"ACTIVE"}

\* What then holds between any two steps: every row is ACTIVE, as is the row a heartbeat
\* thread has read, and stays as long as its worker lives; a worker that has given up
\* neither executes nor answers a request to assign ...
Present(w) ==
  /\ wrow[w] \in {Absent, "ACTIVE"} /\ hbrow[w] \in {Absent, "ACTIVE"}
  /\ wstat[w] \in {"RUNNING", "ACTIVE"}
  /\ wticker[w] => wrow[w] = "ACTIVE"
  /\ wage[w] > 0 => pc[w] = "gone"
  /\ pc[w] = "gone" => ~hb[w]
  /\ hb[w] /\ hbrow[w] # Absent => wrow[w] = "ACTIVE"
  /\ ~beating[w] => pc[w] \in {"top", "gone"} \/ (Dispatching(w) /\ after[w] = "top")
\* ... and a worker whose heartbeat thread has asked it to assign, or that does so on
\* that request, is idle and has the ticker's row.
Asked(w) == \/ isTicker[w] /\ doAssign[w]
            \/ Dispatching(w) /\ after[w] = "pop"
Mandate(w) ==
  /\ pc[w] # "gone" /\ Asked(w) => wticker[w]
  /\ doAssign[w] /\ pc[w] \notin {"exec", "report", "gone"} => wstat[w] = "ACTIVE"
  /\ Dispatching(w) /\ after[w] = "pop" => wstat[w] = "ACTIVE"
LeadInv ==
  /\ \A w \in Workers : Present(w) /\ Mandate(w)
  /\ \A t \in Tasks : tstatus[t] # Absent

\* Before the first heartbeat nobody has a row or was asked anything.
LEMMA LeadInit == HandsOff /\ Init => LeadInv
  BY DEF HandsOff, Init, LeadInv, Present, Mandate, Asked, Dispatching, Absent

\* A step of the main loop (loop, assign_tasks, pop_task, report_task) leaves the rows
\* alone; it starts to assign on request only when asked, and works only when beating.
LEMMA LeadLoop ==
  ASSUME HandsOff, TypeOK, LeadInv, NEW w \in Workers, Loop(w) PROVE LeadInv'
<1> DEFINE Rest == Workers \ {w}
<1>1. /\ UNCHANGED rowVars
      /\ \A v \in Rest : /\ isTicker'[v] = isTicker[v] /\ doAssign'[v] = doAssign[v]
                         /\ pc'[v] = pc[v] /\ after'[v] = after[v] /\ wstat'[v] = wstat[v]
                         /\ beating'[v] = beating[v] /\ hb'[v] = hb[v] /\ hbrow'[v] = hbrow[v]
  <2>0. CASE Top(w)
    <3>1. UNCHANGED rowVars /\ \E p \in PC : pc' = [pc EXCEPT ![w] = p]
      BY <2>0 DEF Top, PC
    <3>2. \A v \in Rest : pc'[v] = pc[v]
      BY <3>1 DEF TypeOK, JobTypeOK
    <3>3. CASE Memory(w, FALSE)
      <4>1. \A v \in Rest : /\ isTicker'[v] = isTicker[v] /\ doAssign'[v] = doAssign[v]
                            /\ after'[v] = after[v] /\ wstat'[v] = wstat[v]
                            /\ beating'[v] = beating[v] /\ hb'[v] = hb[v] /\ hbrow'[v] = hbrow[v]
        BY <3>3, MemoryKept
      <4> QED BY <3>1, <3>2, <4>1
    <3>4. CASE /\ UNCHANGED <<shrVars, hbVars>>
               /\ after' = [after EXCEPT ![w] = "pop"] \/ UNCHANGED after
      BY <3>1, <3>2, <3>4 DEF TypeOK, AssignTypeOK
    <3> QED BY <2>0, <3>3, <3>4 DEF Top
  <2> USE DEF TypeOK, JobTypeOK, AssignTypeOK, SharedTypeOK
  <2>1. CASE AssignStart(w) \/ AssignSelect(w)
    BY <2>1 DEF AssignStart, AssignSelect
  <2>2. CASE AssignWrite(w)
    BY <2>2 DEF AssignWrite, AssignRound
  <2>3. CASE PopSelect(w) \/ PopNothing(w) \/ CountDue(w)
    BY <2>3 DEF PopSelect, PopNothing, CountDue
  <2>4. CASE PopGrab(w)
    <3>1. ASSUME NEW t, NEW r, PopTask(w, t, r) PROVE UNCHANGED <<rowVars, isTicker, doAssign, hbVars, after>>
      BY <3>1 DEF PopTask
    <3>2. ASSUME NEW t, NEW r, PopTask(w, t, r), NEW v \in Rest
          PROVE  pc'[v] = pc[v] /\ wstat'[v] = wstat[v] /\ beating'[v] = beating[v]
      BY <3>2 DEF PopTask
    <3> QED BY <2>4, <3>1, <3>2 DEF PopGrab
  <2>5. CASE Idle(w)
    BY <2>5 DEF Idle
  <2>6. CASE Report(w)
    <3>1. UNCHANGED <<rowVars, isTicker, doAssign, hbVars, after, beating>>
      BY <2>6 DEF Report
    <3>2. ASSUME NEW v \in Rest PROVE pc'[v] = pc[v] /\ wstat'[v] = wstat[v]
      BY <2>6 DEF Report
    <3> QED BY <3>1, <3>2
  <2> QED BY <2>0, <2>1, <2>2, <2>3, <2>4, <2>5, <2>6 DEF Loop
<1>2. \A t \in Tasks : tstatus'[t] # Absent
  <2> USE DEF LeadInv, TypeOK, TaskTypeOK, Absent
  <2>1. CASE AssignStart(w)
    BY <2>1 DEF AssignStart
  <2>2. CASE AssignWrite(w)
    BY <2>2 DEF AssignWrite, AssignRound
  <2>3. CASE PopGrab(w)
    BY <2>3 DEF PopGrab, PopTask
  <2>4. CASE Report(w)
    BY <2>4 DEF Report, AfterRun, JobTypeOK
  <2>5. CASE Top(w) \/ AssignSelect(w) \/ PopSelect(w) \/ PopNothing(w) \/ CountDue(w) \/ Idle(w)
    BY <2>5 DEF Top, AssignSelect, PopSelect, PopNothing, CountDue, Idle
  <2> QED BY <2>1, <2>2, <2>3, <2>4, <2>5 DEF Loop
<1>3. \A v \in Rest : Present(v)' /\ Mandate(v)'
  BY <1>1 DEF LeadInv, Present, Mandate, Asked, Dispatching
<1>4. Present(w) /\ Mandate(w)
  BY DEF LeadInv
<1>5. Present(w)' /\ Mandate(w)'
  <2> USE <1>4 DEF Present, Mandate, Asked, Dispatching, TypeOK, JobTypeOK, AssignTypeOK,
                   SharedTypeOK, RowTypeOK
  <2>1. CASE Top(w)
    BY <2>1 DEF Top, Memory
  <2>2. CASE AssignStart(w)
    BY <2>2 DEF AssignStart
  <2>3. CASE AssignSelect(w)
    BY <2>3 DEF AssignSelect
  <2>4. CASE AssignWrite(w)
    BY <2>4 DEF AssignWrite, AssignRound
  <2>5. CASE PopSelect(w)
    BY <2>5 DEF PopSelect
  <2>6. CASE PopGrab(w)
    BY <2>6 DEF PopGrab, PopTask, HandsOff
  <2>7. CASE PopNothing(w) \/ CountDue(w)
    BY <2>7 DEF PopNothing, CountDue
  <2>8. CASE Idle(w)
    BY <2>8 DEF Idle
  <2>9. CASE Report(w)
    BY <2>9 DEF Report
  <2> QED BY <2>1, <2>2, <2>3, <2>4, <2>5, <2>6, <2>7, <2>8, <2>9 DEF Loop
<1> QED BY <1>2, <1>3, <1>5 DEF LeadInv

\* An election keeps the ticker's row to whoever was asked before it: a live ticker has a
\* fresh ACTIVE row, so it is the rival that the electing worker sees.
LEMMA ElectionSpares ==
  ASSUME LeadInv, NEW w \in Workers, NEW row, NEW age, NEW stat,
         pc[w] # "gone", row = [wrow EXCEPT ![w] = "ACTIVE"], age = [wage EXCEPT ![w] = 0],
         wrow \in [Workers -> WorkerStatus \union {Absent}], wage \in [Workers -> 0..2],
         NEW v \in Workers \ {w}, pc[v] # "gone", wticker[v]
  PROVE  Elected(w, row, Dead(row, age), stat)[v]
<1>1. wrow[v] = "ACTIVE" /\ wage[v] = 0
  BY DEF LeadInv, Present
<1>2. v \notin Dead(row, age) /\ row[v] = "ACTIVE"
  BY <1>1 DEF Dead, Absent
<1>3. Rival(w, row, Dead(row, age))
  BY <1>2 DEF Rival, Others
<1> QED BY <1>2, <1>3 DEF Elected

\* A heartbeat (send_heartbeat) renews its own row as ACTIVE, whatever the thread had read,
\* and takes for dead only processes that are gone.
LEMMA BeatRenews ==
  ASSUME HandsOff, TypeOK, LeadInv, NEW w \in Workers, NEW fifth \in BOOLEAN,
         HeartbeatWrite(w, fifth),
         NEW row, row = [wrow EXCEPT ![w] = "ACTIVE"],
         NEW age, age = [wage EXCEPT ![w] = 0]
  PROVE  /\ pc[w] # "gone" /\ UNCHANGED <<pc, cur, after, beating>>
         /\ \A v \in Workers \ {w} : /\ wstat'[v] = wstat[v]
                                     /\ hb'[v] = hb[v] /\ hbrow'[v] = hbrow[v]
         /\ hb'[w] = FALSE /\ hbrow'[w] = Absent
         /\ wstat'[w] \in {"ACTIVE", "RUNNING"} /\ (wstat[w] = "ACTIVE" => wstat'[w] = "ACTIVE")
         /\ Coordinate(w, row, age, wstat'[w]) \/ NoCoordination(w, row, age)
         /\ \A v \in Dead(row, age) : pc[v] = "gone" /\ v # w
<1>1. PICK s \in {Absent, "ACTIVE"} :
        /\ pc[w] # "gone" /\ Beat(w, s, fifth)
        /\ s = "ACTIVE" => wrow[w] = "ACTIVE"
  BY DEF HeartbeatWrite, LeadInv, Present
<1>2. /\ UNCHANGED <<pc, cur, after, beating>>
      /\ \A v \in Workers \ {w} : /\ wstat'[v] = wstat[v]
                                  /\ hb'[v] = hb[v] /\ hbrow'[v] = hbrow[v]
      /\ hb'[w] = FALSE /\ hbrow'[w] = Absent
      /\ wstat'[w] \in {"ACTIVE", "RUNNING"} /\ (wstat[w] = "ACTIVE" => wstat'[w] = "ACTIVE")
      /\ wstat' = [wstat EXCEPT ![w] = wstat'[w]]
  BY <1>1 DEF Beat, Quits, LeadInv, Present, TypeOK, SharedTypeOK, Absent
<1>3. Coordinate(w, row, age, wstat'[w]) \/ NoCoordination(w, row, age)
  BY <1>1 DEF Beat, Quits, LeadInv, Present, TypeOK, SharedTypeOK, RowTypeOK, Absent
<1>4. \A v \in Dead(row, age) : pc[v] = "gone" /\ v # w
  BY DEF Dead, LeadInv, Present, TypeOK, RowTypeOK, Absent
<1> QED BY <1>1, <1>2, <1>3, <1>4

\* A heartbeat asks its worker to assign only when being_a_ticker has just elected it idle.
LEMMA LeadHeartbeatWrite ==
  ASSUME HandsOff, TypeOK, LeadInv, NEW w \in Workers, NEW fifth \in BOOLEAN,
         HeartbeatWrite(w, fifth)
  PROVE  LeadInv'
<1> DEFINE row == [wrow EXCEPT ![w] = "ACTIVE"]
           age == [wage EXCEPT ![w] = 0]
           stat == wstat'[w]
<1>1. pc[w] # "gone"
  BY BeatRenews
<1>2. /\ UNCHANGED <<pc, after, beating>>
      /\ \A v \in Workers \ {w} : /\ wstat'[v] = wstat[v]
                                  /\ hb'[v] = hb[v] /\ hbrow'[v] = hbrow[v]
      /\ hb'[w] = FALSE /\ hbrow'[w] = Absent
      /\ stat \in {"ACTIVE", "RUNNING"} /\ (wstat[w] = "ACTIVE" => stat = "ACTIVE")
  BY BeatRenews
<1>3. Coordinate(w, row, age, stat) \/ NoCoordination(w, row, age)
  BY BeatRenews
<1>4. \A t \in Tasks : tstatus'[t] # Absent
  BY <1>3 DEF LeadInv, Coordinate, NoCoordination, Absent
<1>5. \A v \in Workers : v \in Dead(row, age) => pc[v] = "gone" /\ v # w
  BY BeatRenews
<1>6. /\ \A v \in Workers : /\ wrow'[v] \in {wrow[v], "ACTIVE", Absent}
                            /\ wrow'[v] = Absent => wrow[v] = Absent \/ (pc[v] = "gone" /\ v # w)
                            /\ wage'[v] > 0 => pc[v] = "gone"
      /\ wrow'[w] = "ACTIVE"
  <2>1. \A v \in Workers : /\ row[v] \in {wrow[v], "ACTIVE"} /\ (age[v] > 0 => pc[v] = "gone")
                           /\ row[v] = Absent => wrow[v] = Absent
    BY DEF LeadInv, Present, TypeOK, RowTypeOK, Absent
  <2>2. row[w] = "ACTIVE"
    BY DEF TypeOK, RowTypeOK
  <2> HIDE DEF row, age, stat
  <2>3. CASE NoCoordination(w, row, age)
    BY <2>1, <2>2, <2>3 DEF NoCoordination, Absent
  <2>4. CASE Coordinate(w, row, age, stat)
    BY <1>5, <2>1, <2>2, <2>4 DEF Coordinate, Absent
  <2> QED BY <1>3, <2>3, <2>4
<1>7. ASSUME NEW v \in Workers, wticker'[v] PROVE wrow'[v] = "ACTIVE"
  <2>1. (v \notin Dead(row, age) /\ (v = w \/ wticker[v])) \/ (wticker[v] /\ wrow' = row)
    BY <1>3, <1>7 DEF Coordinate, NoCoordination, Elected
  <2>2. wrow'[v] = row[v]
    BY <1>3, <2>1 DEF Coordinate, NoCoordination
  <2> QED BY <2>1, <2>2 DEF LeadInv, Present, TypeOK, RowTypeOK
<1>8. \A v \in Workers : Present(v)'
  BY <1>1, <1>2, <1>6, <1>7 DEF LeadInv, Present, Dispatching, Absent
<1>9. ASSUME NEW v \in Workers \ {w}, pc[v] # "gone", wticker[v] PROVE wticker'[v]
  <2>1. \A b \in BOOLEAN : Elected(w, row, Dead(row, age), b)[v]
    BY <1>1, <1>9, ElectionSpares DEF TypeOK, RowTypeOK
  <2>2. (stat = "ACTIVE") \in BOOLEAN
    OBVIOUS
  <2> HIDE DEF row, age, stat
  <2> QED BY <1>3, <1>9, <2>1, <2>2 DEF Coordinate, NoCoordination
<1>10. \A v \in Workers \ {w} : Mandate(v)'
  BY <1>1, <1>2, <1>3, <1>9 DEF LeadInv, Mandate, Asked, Dispatching, Coordinate, NoCoordination,
     TypeOK, SharedTypeOK
<1>11. Mandate(w)'
  <2>1. CASE NoCoordination(w, row, age)
    BY <1>1, <1>2, <2>1 DEF LeadInv, Mandate, Asked, Dispatching, NoCoordination, TypeOK, SharedTypeOK
  <2>2. CASE Coordinate(w, row, age, stat)
    <3>1. w \notin Dead(row, age) /\ row[w] # Absent
      BY <1>1, <1>5 DEF TypeOK, RowTypeOK, Absent
    <3>2. stat = "ACTIVE" /\ ~Rival(w, row, Dead(row, age)) => wticker'[w]
      BY <2>2, <3>1 DEF Coordinate, Elected
    <3>3. wticker[w] /\ stat = "ACTIVE" => wticker'[w]
      BY <2>2, <3>1, <3>2 DEF Coordinate, Elected
    <3>4. /\ doAssign'[w] <=> stat = "ACTIVE"
          /\ isTicker'[w] /\ doAssign'[w] => ~Rival(w, row, Dead(row, age))
      BY <2>2 DEF Coordinate, TypeOK, SharedTypeOK
    <3> QED BY <1>1, <1>2, <3>2, <3>3, <3>4 DEF LeadInv, Mandate, Asked, Dispatching
  <2> QED BY <1>3, <2>1, <2>2
<1> QED BY <1>4, <1>8, <1>10, <1>11 DEF LeadInv

\* The other steps: an executor that ends, a heartbeat thread that reads its row, a row
\* that grows old, a process that dies.
LEMMA LeadOthers ==
  ASSUME HandsOff, TypeOK, LeadInv, NEW w \in Workers,
         \/ \E o \in Outcome : Finish(w, o)
         \/ HeartbeatRead(w) \/ Age(w) \/ Crash(w) \/ Restart(w)
  PROVE  LeadInv'
<1> USE DEF LeadInv, Present, Mandate, Asked, Dispatching, TypeOK, JobTypeOK, RowTypeOK,
            SharedTypeOK
<1>1. CASE \E o \in Outcome : Finish(w, o)
  BY <1>1 DEF Finish
<1>2. CASE HeartbeatRead(w)
  BY <1>2 DEF HeartbeatRead
<1>3. CASE Age(w)
  <2>1. pc[w] = "gone" /\ wage' = [wage EXCEPT ![w] = @ + 1]
    BY <1>3 DEF Age, MayLapse, HandsOff
  <2>2. UNCHANGED <<tstatus, wrow, wticker, pc, after, shrVars, hbVars>>
    BY <1>3 DEF Age
  <2> QED BY <2>1, <2>2
<1>4. CASE Crash(w)
  BY <1>4 DEF Crash, Memory, Absent
<1>5. CASE Restart(w)
  BY <1>5 DEF Restart, HandsOff
<1> QED BY <1>1, <1>2, <1>3, <1>4, <1>5

\* Every step keeps the invariant: the actions put together.
LEMMA LeadNext == HandsOff /\ TypeOK /\ LeadInv /\ [Next]_vars => LeadInv'
<1> SUFFICES ASSUME HandsOff, TypeOK, LeadInv, [Next]_vars PROVE LeadInv'
  OBVIOUS
<1>1. CASE UNCHANGED vars
  BY <1>1 DEF vars, LeadInv, Present, Mandate, Asked, Dispatching
<1>2. ASSUME NEW t \in Tasks, NEW immediate \in BOOLEAN, QueueTask(t, immediate) PROVE FALSE
  BY <1>2 DEF QueueTask, LeadInv
<1>3. ASSUME NEW t \in Tasks, BecomeDue(t) \/ PassStopTime(t) PROVE LeadInv'
  BY <1>3 DEF BecomeDue, PassStopTime, LeadInv, Present, Mandate, Asked, Dispatching
<1>4. ASSUME NEW action \in AdminActions, SetWorkerStatus(action) PROVE FALSE
  BY <1>4 DEF SetWorkerStatus, HandsOff, LeadInv, Present
<1> QED
  BY <1>1, <1>2, <1>3, <1>4, LeadLoop, LeadOthers, LeadHeartbeatWrite DEF Next

\* "The only process that effectively dispatch tasks" (send_heartbeat): when live workers
\* beat in time and nobody writes their rows, two workers are never in assign_tasks at
\* once, unless one of them is in the greedy loop - for any number of workers, crashes
\* and interleavings of their reads and writes.
THEOREM OneDispatches == ASSUME HandsOff PROVE Spec => []OneDispatcher
<1>1. TypeOK /\ LeadInv /\ [Next]_vars => (TypeOK /\ LeadInv)'
  BY LeadNext, TypeNext
<1>2. TypeOK /\ LeadInv /\ OneTickerRow => OneDispatcher
  BY DEF TypeOK, AssignTypeOK, LeadInv, Mandate, Asked, Dispatching, OneTickerRow, OneDispatcher
<1> QED BY <1>1, <1>2, TypeInit, LeadInit, OneTicker, PTL DEF Spec

=============================================================================
