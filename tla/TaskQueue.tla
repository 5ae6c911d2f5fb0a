------------------------------ MODULE TaskQueue ------------------------------
(***************************************************************************)
(* What the scheduler promises of a task, whatever its workers do to agree *)
(* on it: a waiting task is taken by one worker that has no other, that    *)
(* worker and no one else ends the run, and the run of a worker that is    *)
(* gone is called off.  A settled task stays settled.  Module Scheduler    *)
(* implements this specification on a serializable database.               *)
(***************************************************************************)
CONSTANTS Workers, Tasks, None

VARIABLES
  state,    \* "none", "waiting", "running" or "settled"
  holder,   \* the worker that runs the task
  alive     \* the workers whose process runs

qvars == <<state, holder, alive>>

QueueInit ==
  /\ state \in [Tasks -> {"none", "waiting"}]
  /\ holder = [t \in Tasks |-> None]
  /\ alive = Workers

Submit(t) ==
  /\ state[t] = "none"
  /\ state' = [state EXCEPT ![t] = "waiting"]
  /\ UNCHANGED <<holder, alive>>

Take(w, t) ==
  /\ w \in alive /\ \A u \in Tasks : holder[u] # w
  /\ state[t] = "waiting"
  /\ state' = [state EXCEPT ![t] = "running"]
  /\ holder' = [holder EXCEPT ![t] = w]
  /\ UNCHANGED alive

\* The run ends: the task waits for its next one, or that was all.
End(w, t) ==
  /\ w \in alive /\ holder[t] = w
  /\ \E s \in {"waiting", "settled"} : state' = [state EXCEPT ![t] = s]
  /\ holder' = [holder EXCEPT ![t] = None]
  /\ UNCHANGED alive

\* stop_time passes while the tasks wait.
Expire(S) ==
  /\ \A t \in S : state[t] = "waiting"
  /\ state' = [t \in Tasks |-> IF t \in S THEN "settled" ELSE state[t]]
  /\ UNCHANGED <<holder, alive>>

\* The tasks of workers that are gone wait again.
CallOff(S) ==
  /\ \A t \in S : state[t] = "running" /\ holder[t] \notin alive
  /\ state' = [t \in Tasks |-> IF t \in S THEN "waiting" ELSE state[t]]
  /\ holder' = [t \in Tasks |-> IF t \in S THEN None ELSE holder[t]]
  /\ UNCHANGED alive

Leave(w) == alive' = alive \ {w} /\ UNCHANGED <<state, holder>>

QueueNext ==
  \/ \E t \in Tasks : Submit(t)
  \/ \E w \in Workers : Leave(w) \/ \E t \in Tasks : Take(w, t) \/ End(w, t)
  \/ \E S \in SUBSET Tasks : Expire(S) \/ CallOff(S)

QueueSpec == QueueInit /\ [][QueueNext]_qvars
=============================================================================
