------------------------------ MODULE CronPool ------------------------------
(***************************************************************************)
(* gluon/newcron.py: crondance hands commands to SimplePool, which passes  *)
(* each to an idle Worker thread or to a new one; the thread runs the      *)
(* command in a subprocess and goes back to the idle list.  stopcron ends  *)
(* the subprocesses that are listed in _subprocs.                          *)
(*                                                                         *)
(* A thread waits on its run_lock, which the pool releases after it has    *)
(* put the payload there.                                                  *)
(***************************************************************************)
EXTENDS Integers, SequencesExt

CONSTANTS
  Dancers,   \* threads that are in crondance
  Threads,   \* Worker objects
  Commands,  \* payloads
  Broken,    \* the commands that Popen cannot start
  Sizes,     \* sizes the pool is made with or grown to
  None

ASSUME PoolAssumption ==
  /\ Broken \subseteq Commands /\ None \notin Commands \union Threads
  /\ Sizes # {} /\ Sizes \subseteq Nat \ {0}

VARIABLES
  size, idle, running,   \* SimplePool
  thread,    \* where a Worker is: "none", "made", "wait", "popen", "list", "talk",
             \* "over", "broken" (it leaves its loop), "dead"
  free,      \* its run_lock is released
  payload,
  dancer,    \* where a dancer is: "away", "call", "hand", "start"
  job,       \* [cmd, to]: the command it launches, the thread it got
  command,   \* "new", "refused", "accepted", "runs", "ended", "failed"
  subprocs,  \* _subprocs
  stopping,  \* _stopping
  stopper    \* where stopcron is: "away", "count", "pop", "done", "raised"

poolVars == <<size, idle, running>>
workVars == <<thread, free, payload>>
danceVars == <<dancer, job>>
stopVars == <<stopping, stopper>>
vars == <<poolVars, workVars, danceVars, command, subprocs, stopVars>>

NoJob == [cmd |-> None, to |-> None]

Init ==
  /\ size \in Sizes /\ idle = <<>> /\ running = {}
  /\ thread = [t \in Threads |-> "none"] /\ free = [t \in Threads |-> FALSE]
  /\ payload = [t \in Threads |-> None]
  /\ dancer = [d \in Dancers |-> "away"] /\ job = [d \in Dancers |-> NoJob]
  /\ command = [c \in Commands |-> "new"]
  /\ subprocs = {} /\ stopping = FALSE /\ stopper = "away"

-----------------------------------------------------------------------------
(* crondance and SimplePool.__call__. *)

\* The next task of a crontab, unless cron is stopping.
Dance(d, c) ==
  /\ dancer[d] = "away" /\ ~stopping
  /\ command[c] = "new" /\ \A e \in Dancers : job[e].cmd # c
  /\ dancer' = [dancer EXCEPT ![d] = "call"]
  /\ job' = [job EXCEPT ![d] = [cmd |-> c, to |-> None]]
  /\ UNCHANGED <<poolVars, workVars, command, subprocs, stopVars>>

FullLate == Cardinality(running) > size        \* mutant
Full == Cardinality(running) = size

Refuse(d) ==
  /\ dancer[d] = "call" /\ Full
  /\ command' = [command EXCEPT ![job[d].cmd] = "refused"]
  /\ dancer' = [dancer EXCEPT ![d] = "away"] /\ job' = [job EXCEPT ![d] = NoJob]
  /\ UNCHANGED <<poolVars, workVars, subprocs, stopVars>>

RestKept == idle                               \* mutant
Rest == Tail(idle)

\* Under the pool's lock: the first idle thread, or a new one, is running.
Call(d) ==
  /\ dancer[d] = "call" /\ ~Full
  /\ \E t \in Threads :
       /\ IF idle # <<>> THEN t = Head(idle) /\ UNCHANGED thread
                         ELSE thread[t] = "none" /\ thread' = [thread EXCEPT ![t] = "made"]
       /\ running' = running \union {t}
       /\ job' = [job EXCEPT ![d].to = t]
  /\ idle' = IF idle = <<>> THEN idle ELSE Rest
  /\ command' = [command EXCEPT ![job[d].cmd] = "accepted"]
  /\ dancer' = [dancer EXCEPT ![d] = "hand"]
  /\ UNCHANGED <<size, free, payload, subprocs, stopVars>>

NewThreadNever(t) == FALSE                     \* mutant
NewThread(t) == thread[t] = "made"

Hand(d) ==
  LET t == job[d].to IN
  /\ dancer[d] = "hand"
  /\ payload' = [payload EXCEPT ![t] = job[d].cmd]
  /\ free' = [free EXCEPT ![t] = TRUE]
  /\ IF NewThread(t)
     THEN dancer' = [dancer EXCEPT ![d] = "start"] /\ UNCHANGED job
     ELSE dancer' = [dancer EXCEPT ![d] = "away"] /\ job' = [job EXCEPT ![d] = NoJob]
  /\ UNCHANGED <<poolVars, thread, command, subprocs, stopVars>>

Start(d) ==
  /\ dancer[d] = "start"
  /\ thread' = [thread EXCEPT ![job[d].to] = "wait"]
  /\ dancer' = [dancer EXCEPT ![d] = "away"] /\ job' = [job EXCEPT ![d] = NoJob]
  /\ UNCHANGED <<poolVars, free, payload, command, subprocs, stopVars>>

Grow(n) ==
  /\ n > size
  /\ size' = n
  /\ UNCHANGED <<idle, running, workVars, danceVars, command, subprocs, stopVars>>

-----------------------------------------------------------------------------
(* Worker.run. *)

Wake(t) ==
  /\ thread[t] = "wait" /\ free[t]
  /\ free' = [free EXCEPT ![t] = FALSE]
  /\ thread' = [thread EXCEPT ![t] = "popen"]
  /\ UNCHANGED <<poolVars, payload, danceVars, command, subprocs, stopVars>>

\* Popen: the process runs, or the exception leaves the loop through finally.
Popen(t) ==
  /\ thread[t] = "popen"
  /\ IF payload[t] \in Broken
     THEN /\ thread' = [thread EXCEPT ![t] = "broken"]
          /\ command' = [command EXCEPT ![payload[t]] = "failed"]
     ELSE /\ thread' = [thread EXCEPT ![t] = "list"]
          /\ command' = [command EXCEPT ![payload[t]] = "runs"]
  /\ UNCHANGED <<poolVars, free, payload, danceVars, subprocs, stopVars>>

List(t) ==
  /\ thread[t] = "list"
  /\ subprocs' = subprocs \union {payload[t]}
  /\ thread' = [thread EXCEPT ![t] = "talk"]
  /\ UNCHANGED <<poolVars, free, payload, danceVars, command, stopVars>>

\* The subprocess ends by itself.
End(c) ==
  /\ command[c] = "runs"
  /\ command' = [command EXCEPT ![c] = "ended"]
  /\ UNCHANGED <<poolVars, workVars, danceVars, subprocs, stopVars>>

\* communicate() returns, the process is unlisted if stopcron has not done so.
Unlisted(t) == subprocs \ {payload[t]}

Unlist(t) ==
  /\ thread[t] = "talk" /\ command[payload[t]] = "ended"
  /\ subprocs' = Unlisted(t)
  /\ thread' = [thread EXCEPT ![t] = "over"]
  /\ UNCHANGED <<poolVars, free, payload, danceVars, command, stopVars>>

\* finally: run_lock is taken again, the pool has the thread back; one that came
\* here by an exception dies.
BackKept(t) == running                        \* mutant
Back(t) == running \ {t}

Stop(t) ==
  /\ thread[t] \in {"over", "broken"}
  /\ idle' = Append(idle, t) /\ running' = Back(t)
  /\ thread' = [thread EXCEPT ![t] = IF @ = "over" THEN "wait" ELSE "dead"]
  /\ UNCHANGED <<size, free, payload, danceVars, command, subprocs, stopVars>>

-----------------------------------------------------------------------------
(* stopcron. *)

StopCron ==
  /\ stopper = "away"
  /\ stopping' = TRUE /\ stopper' = "count"
  /\ UNCHANGED <<poolVars, workVars, danceVars, command, subprocs>>

Count ==
  /\ stopper = "count"
  /\ stopper' = IF subprocs = {} THEN "done" ELSE "pop"
  /\ UNCHANGED <<poolVars, workVars, danceVars, command, subprocs, stopping>>

\* pop() of a list that has become empty meanwhile raises.
Pop ==
  /\ stopper = "pop"
  /\ IF subprocs = {}
     THEN stopper' = "raised" /\ UNCHANGED <<subprocs, command>>
     ELSE \E c \in subprocs :
            /\ subprocs' = subprocs \ {c}
            /\ command' = [command EXCEPT ![c] = "ended"]
            /\ stopper' = "count"
  /\ UNCHANGED <<poolVars, workVars, danceVars, stopping>>

Next ==
  \/ \E d \in Dancers : \/ \E c \in Commands : Dance(d, c)
                        \/ Refuse(d) \/ Call(d) \/ Hand(d) \/ Start(d)
  \/ \E n \in Sizes : Grow(n)
  \/ \E t \in Threads : Wake(t) \/ Popen(t) \/ List(t) \/ Unlist(t) \/ Stop(t)
  \/ \E c \in Commands : End(c)
  \/ StopCron \/ Count \/ Pop

\* Threads that can go on do; nothing is assumed of subprocesses and crontabs.
Fairness ==
  /\ \A d \in Dancers : WF_vars(Call(d)) /\ WF_vars(Hand(d)) /\ WF_vars(Start(d))
  /\ \A t \in Threads : WF_vars(Wake(t) \/ Popen(t) \/ List(t) \/ Unlist(t) \/ Stop(t))
Spec == Init /\ [][Next]_vars /\ Fairness
-----------------------------------------------------------------------------
(* Properties. *)

\* Every variable has its type, and a dancer has a running thread in its hands
\* from the call until the thread is started.
TypeOK ==
  /\ size \in Sizes /\ idle \in Seq(Threads) /\ running \subseteq Threads
  /\ thread \in [Threads -> {"none", "made", "wait", "popen", "list", "talk", "over", "broken", "dead"}]
  /\ free \in [Threads -> BOOLEAN] /\ payload \in [Threads -> Commands \union {None}]
  /\ dancer \in [Dancers -> {"away", "call", "hand", "start"}]
  /\ job \in [Dancers -> [cmd : Commands \union {None}, to : Threads \union {None}]]
  /\ command \in [Commands -> {"new", "refused", "accepted", "runs", "ended", "failed"}]
  /\ subprocs \subseteq Commands /\ stopping \in BOOLEAN
  /\ stopper \in {"away", "count", "pop", "done", "raised"}
  /\ \A d \in Dancers : dancer[d] \in {"hand", "start"} <=> job[d].to \in running

\* "(re)uses a maximum number of threads" (SimplePool): at most size threads exist,
\* each of them either idle or running.
PoolBounded ==
  /\ IsInjective(idle) /\ Range(idle) \intersect running = {}
  /\ Len(idle) + Cardinality(running) <= size
  /\ \A t \in Threads : thread[t] # "none" => t \in Range(idle) \union running

\* Who carries a command that was accepted and has not been started.
Carries(t, c) == payload[t] = c /\ (free[t] \/ thread[t] = "popen")

\* An accepted command is with one dancer on its way to a thread or with one
\* thread, so it is executed at most once, and no thread is handed a second
\* command before it has taken the first.
CarriedOnce ==
  \A c \in Commands : command[c] = "accepted" =>
    Cardinality({d \in Dancers : dancer[d] = "hand" /\ job[d].cmd = c})
      + Cardinality({t \in Threads : Carries(t, c)}) = 1

AtWork(t) == \/ thread[t] \in {"made", "popen", "list", "talk", "over", "broken"}
             \/ thread[t] = "wait" /\ (free[t] \/ \E d \in Dancers : job[d].to = t)

\* "no thread available" (crondance): a command is refused only when as many
\* threads as the pool may have are at work, unless a command could not be started.
RefusedBusy ==
  [][\A c \in Commands : command[c] # "refused" /\ command'[c] = "refused" =>
       \/ Cardinality({t \in Threads : AtWork(t)}) >= size
       \/ \E b \in Commands : command[b] = "failed"]_vars

Started(c) == command[c] \in {"runs", "ended", "failed"}

\* "Pass payload to a thread for immediate execution" (SimplePool.__call__): a
\* command that was accepted is started, as long as every command before could be.
AcceptedStartsIfSound ==
  \A c \in Commands : command[c] = "accepted" ~>
    (Started(c) \/ \E b \in Commands : command[b] = "failed")
=============================================================================
