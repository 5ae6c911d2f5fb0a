------------------------------- MODULE TaskRun -------------------------------
(***************************************************************************)
(* gluon/scheduler.py, one call of Scheduler.execute: the main thread      *)
(* starts a child process (executor), collects what it prints through the  *)
(* queue outq, its result through retq (maxsize 1), and ends it at its     *)
(* timeout or when an exception breaks its loop.  The heartbeat thread may *)
(* call terminate_process at any moment (KILL, STOP_TASK).                 *)
(*                                                                         *)
(* A multiprocessing.Queue is a buffer in the child, emptied by a feeder   *)
(* thread into a pipe of limited capacity; a child does not exit before    *)
(* its buffer is empty.  terminate_process is a SIGTERM, on which a forked *)
(* child raises SystemExit where it is, and a join() without a timeout     *)
(* that holds the lock.                                                    *)
(***************************************************************************)
EXTENDS Integers, SequencesExt

CONSTANTS
  Setups,    \* the tasks tried: timed is timeout > 0; sync is "no" for sync_output = 0,
             \* "long" when it is not below the timeout; chatty may print more than is
             \* recorded; stubborn code may catch SystemExit and go on; spawned is
             \* use_spawn; capacity is the pipe's
  MaxOut,    \* bound: what the function prints and the model records
  MaxStops,  \* bound: calls of terminate_process by the heartbeat thread
  None

Clear == 0   \* CLEAROUT; what is printed otherwise is numbered

ASSUME SetupAssumption ==
  /\ Setups \subseteq [timed : BOOLEAN, sync : {"no", "short", "long"}, chatty : BOOLEAN,
                       stubborn : BOOLEAN, spawned : BOOLEAN, capacity : Nat \ {0}]
  /\ MaxOut \in Nat /\ MaxStops \in Nat
  /\ None \notin {"old", "new", "main", "beat", "COMPLETED", "FAILED", "STOPPED", "TIMEOUT"}

VARIABLES
  task,      \* the setup of this run
  main,      \* where execute() is
  process,   \* self.process: None, the "old" one of the previous task, the "new" one
  child,     \* where executor() is
  buf, pipe, \* outq: the child's buffer, the pipe
  retq,      \* the result in retq, or None
  returned,  \* how the function ended, "STOPPED" by SIGTERM: a history variable
  printed,   \* all that was printed, but for
  noise,     \* TRUE: output in outq whose text is not recorded
  tout, output,  \* tout, task_output
  report,    \* the status of the TaskReport
  late,      \* the timeout has elapsed
  broken,    \* an exception has ended the loop of execute()
  lock,      \* _terminate_process_lock: None, "main" or "beat"
  beat,      \* where the heartbeat thread is in terminate_process
  stops      \* its calls so far

outVars   == <<buf, pipe, printed>>
childVars == <<child, outVars, retq, returned>>
textVars  == <<noise, tout, output>>
endVars   == <<report, late, broken>>
beatVars  == <<beat, stops>>
vars == <<task, main, process, childVars, textVars, endVars, lock, beatVars>>

Init ==
  /\ task \in Setups
  /\ main = "idle" /\ process \in {None, "old"}
  /\ child = "none" /\ buf = <<>> /\ pipe = <<>> /\ retq = None /\ returned = None /\ printed = <<>>
  /\ noise = FALSE /\ tout = <<>> /\ output = <<>> /\ report = None
  /\ late = FALSE /\ broken = FALSE
  /\ lock = None /\ beat = "away" /\ stops = 0

\* What follows the last CLEAROUT of s, all of s if there is none.
AfterClear(s) ==
  LET marks == {i \in DOMAIN s : s[i] = Clear}
  IN  IF marks = {} THEN s ELSE SubSeq(s, Max(marks) + 1, Len(s))

-----------------------------------------------------------------------------
(* The child: executor(). *)

Alive == child \notin {"none", "dead"}

Write(x) ==
  /\ child = "run" /\ Len(printed) < MaxOut
  /\ printed' = Append(printed, x) /\ buf' = Append(buf, x)
  /\ UNCHANGED <<task, main, process, child, pipe, retq, returned, textVars, endVars, lock, beatVars>>

Chat ==
  /\ child = "run" /\ task.chatty /\ ~noise
  /\ noise' = TRUE
  /\ UNCHANGED <<task, main, process, childVars, tout, output, endVars, lock, beatVars>>

Feed ==
  /\ Alive /\ buf # <<>> /\ Len(pipe) < task.capacity
  /\ pipe' = Append(pipe, Head(buf)) /\ buf' = Tail(buf)
  /\ UNCHANGED <<task, main, process, child, retq, returned, printed, textVars, endVars, lock, beatVars>>

\* The function returns or raises: the report is put into retq before the commit.
Return(o) ==
  /\ child = "run"
  /\ retq' = o /\ returned' = o
  /\ child' = IF o = "COMPLETED" THEN "commit" ELSE "exit"
  /\ UNCHANGED <<task, main, process, outVars, textVars, endVars, lock, beatVars>>

\* A commit that fails is caught ...
Commit(ok) ==
  /\ child = "commit"
  /\ child' = IF ok THEN "exit" ELSE "except"
  /\ UNCHANGED <<task, main, process, outVars, retq, returned, textVars, endVars, lock, beatVars>>

\* ... and the report FAILED waits until there is room in retq.
PutFailed ==
  /\ child = "except" /\ retq = None
  /\ retq' = "FAILED" /\ child' = "exit"
  /\ UNCHANGED <<task, main, process, outVars, returned, textVars, endVars, lock, beatVars>>

Exit ==
  /\ child = "exit" /\ buf = <<>>
  /\ child' = "dead"
  /\ UNCHANGED <<task, main, process, outVars, retq, returned, textVars, endVars, lock, beatVars>>

\* The function ends the process without a report.
Die ==
  /\ child = "run"
  /\ child' = "dead" /\ buf' = <<>>
  /\ UNCHANGED <<task, main, process, pipe, retq, returned, printed, textVars, endVars, lock, beatVars>>

\* SIGTERM in a forked child, which has inherited loop()'s handler: SystemExit is
\* raised where the child is.  In the function it is caught there, or by executor(),
\* which reports FAILED; before its try and after its except it ends the child.
Caught ==
  /\ \/ child = "run" /\ task.stubborn /\ UNCHANGED <<child, returned>>
     \/ child = "run" /\ child' = "except" /\ returned' = "STOPPED"
     \/ child = "run" /\ printed = <<>> /\ child' = "exit" /\ returned' = "STOPPED"
     \/ child = "commit" /\ child' = "except" /\ UNCHANGED returned
     \/ child \in {"except", "exit"} /\ child' = "exit" /\ UNCHANGED returned
  /\ UNCHANGED buf

\* A spawned child has no handler, and in one that exits SystemExit breaks off the
\* wait for the feeder threads: what they have not written is lost.
Killed ==
  /\ child' = "dead" /\ buf' = <<>>
  /\ UNCHANGED returned

\* self.process.terminate(), q being what is left in retq.
Signal(q) ==
  \/ ~Alive /\ retq' = q /\ UNCHANGED <<child, returned, buf>>
  \/ Alive /\ ~task.spawned /\ retq' = q /\ Caught
  \/ Alive /\ (task.spawned \/ child = "exit") /\ retq' \in {q, None} /\ Killed

\* while not queue.empty(), which misses what the child has not written yet.
Flushed == {None, retq}

-----------------------------------------------------------------------------
(* The main thread: execute(). *)

Make ==
  /\ main = "idle"
  /\ process' = "new" /\ main' = "made"
  /\ UNCHANGED <<task, childVars, textVars, endVars, lock, beatVars>>

Start ==
  /\ main = "made"
  /\ child' = "run" /\ main' = "loop"
  /\ UNCHANGED <<task, process, outVars, retq, returned, textVars, endVars, lock, beatVars>>

Check ==
  /\ main = "loop"
  /\ main' = IF Alive /\ ~late THEN "drain" ELSE "final"
  /\ UNCHANGED <<task, process, childVars, textVars, endVars, lock, beatVars>>

\* outq.get(timeout=2), again and again until nothing comes; after the loop
\* outq.get_nowait().
Get ==
  /\ main \in {"drain", "final"} /\ pipe # <<>>
  /\ tout' = Append(tout, Head(pipe)) /\ pipe' = Tail(pipe)
  /\ UNCHANGED <<task, main, process, child, buf, retq, returned, printed, noise, output, endVars, lock, beatVars>>

GetNoise ==
  /\ main = "drain" /\ noise
  /\ noise' = FALSE
  /\ UNCHANGED <<task, main, process, childVars, tout, output, endVars, lock, beatVars>>

CollectedCut == IF Clear \in Range(tout) THEN AfterClear(tout) ELSE tout    \* mutant
Collected == IF Clear \in Range(tout) THEN AfterClear(tout) ELSE output \o tout

\* The text that could not be saved is cut from task_output.
CutBackNever == Collected                                                   \* mutant
CutBack == SubSeq(Collected, 1, Len(Collected) - Len(tout))

\* The output so far is saved, or saving fails: tout is kept for the next time.
Save(ok) ==
  /\ main = "drain" /\ pipe = <<>> /\ buf = <<>> /\ ~noise
  /\ output' = IF tout = <<>> THEN output ELSE IF ok THEN Collected ELSE CutBack
  /\ tout' = IF ok THEN <<>> ELSE tout
  /\ main' = "join"
  /\ UNCHANGED <<task, noise, process, childVars, endVars, lock, beatVars>>

\* p.join(timeout): sync_output if there is one, else the whole timeout of the task.
\* Either may last beyond the deadline.
PollsNever == FALSE        \* mutant
Polls == task.sync = "short" \/ ~task.timed
Join ==
  /\ main = "join" /\ (~Alive \/ late \/ Polls)
  /\ main' = "loop"
  /\ UNCHANGED <<task, process, childVars, textVars, endVars, lock, beatVars>>

\* An exception in the loop (SIGTERM, an outq that cannot be read): what was read and
\* not saved is dropped and the child terminated.
Break ==
  /\ main \in {"loop", "drain", "join"}
  /\ broken' = TRUE /\ tout' = <<>>
  /\ IF process = None THEN main' = "done" /\ report' = "STOPPED"
                       ELSE main' = "lock" /\ UNCHANGED report
  /\ UNCHANGED <<task, process, childVars, noise, output, late, lock, beatVars>>

LastOutput == IF tout = <<>> THEN output ELSE Collected

\* The final drain is over ...
Drained ==
  /\ main = "final" /\ pipe = <<>>
  /\ output' = LastOutput /\ tout' = <<>> /\ main' = "decide"
  /\ UNCHANGED <<task, process, childVars, noise, endVars, lock, beatVars>>

VerdictKind == IF retq # None THEN retq ELSE "COMPLETED"        \* mutant
Verdict == IF retq # None THEN retq ELSE "STOPPED"

\* ... and then a child that lives is terminated, from one that is dead the report
\* is taken.
Decide ==
  /\ main = "decide"
  /\ IF Alive
     THEN main' = (IF process # None THEN "lock" ELSE "late") /\ UNCHANGED <<report, retq>>
     ELSE main' = "done" /\ retq' = None /\ report' = Verdict
  /\ UNCHANGED <<task, process, child, outVars, returned, textVars, late, broken, lock, beatVars>>

\* terminate_process by the main thread, with flush_ret only after an exception.  When
\* the heartbeat thread has set self.process to None meanwhile, it raises.
Terminate ==
  /\ main = "lock" /\ lock = None
  /\ pipe' = <<>>
  /\ \E q \in (IF broken THEN Flushed ELSE {retq}) :
       IF process = None
       THEN main' = "raised" /\ retq' = q /\ UNCHANGED <<child, buf, returned, lock>>
       ELSE main' = "term" /\ lock' = "main" /\ Signal(q)
  /\ UNCHANGED <<task, process, printed, textVars, endVars, beatVars>>

\* self.process.join() returns.
JoinLeftOut == TRUE        \* mutant
Ended == ~Alive
Joined ==
  /\ main = "term" /\ Ended
  /\ process' = None /\ lock' = None
  /\ IF broken THEN main' = "done" /\ report' = "STOPPED"
               ELSE main' = "late" /\ UNCHANGED report
  /\ UNCHANGED <<task, childVars, textVars, late, broken, beatVars>>

\* A report that came after all gives its traceback, not its status.
TimedOut ==
  /\ main = "late"
  /\ report' = "TIMEOUT" /\ retq' = None /\ main' = "done"
  /\ UNCHANGED <<task, process, child, outVars, returned, textVars, late, broken, lock, beatVars>>

-----------------------------------------------------------------------------
(* The heartbeat thread in terminate_process(), and the clock. *)

\* self.process is looked at before the lock is taken.
Stop ==
  /\ beat = "away" /\ stops < MaxStops /\ main \notin {"done", "raised"}
  /\ process # None
  /\ stops' = stops + 1 /\ beat' = "lock"
  /\ UNCHANGED <<task, main, process, childVars, textVars, endVars, lock>>

Flush ==
  /\ beat = "lock" /\ lock = None
  /\ lock' = "beat" /\ beat' = "kill"
  /\ IF process = "new" THEN pipe' = <<>> /\ retq' \in Flushed ELSE UNCHANGED <<pipe, retq>>
  /\ UNCHANGED <<task, main, process, child, buf, returned, printed, textVars, endVars, stops>>

\* terminate() raises when self.process is None or not started.
Kill ==
  /\ beat = "kill"
  /\ IF process = "new" /\ child # "none" THEN beat' = "wait" /\ Signal(retq)
     ELSE /\ beat' = IF process = "old" THEN "wait" ELSE "forget"
          /\ UNCHANGED <<child, buf, retq, returned>>
  /\ UNCHANGED <<task, main, process, pipe, printed, textVars, endVars, lock, stops>>

\* join() waits for the process that is there by now, which may be a later one than
\* was terminated; it raises when that one is not started.
Waited ==
  /\ beat = "wait" /\ (process = "new" => ~Alive)
  /\ beat' = "forget"
  /\ UNCHANGED <<task, main, process, childVars, textVars, endVars, lock, stops>>

\* finally: self.process becomes None in any case.
Forget ==
  /\ beat = "forget"
  /\ process' = None /\ lock' = None /\ beat' = "away"
  /\ UNCHANGED <<task, main, childVars, textVars, endVars, stops>>

Deadline ==
  /\ task.timed /\ ~late /\ main \in {"loop", "drain", "join"}
  /\ late' = TRUE
  /\ UNCHANGED <<task, main, process, childVars, textVars, report, broken, lock, beatVars>>

Execute == Make \/ Start \/ Check \/ Get \/ GetNoise \/ (\E ok \in BOOLEAN : Save(ok)) \/ Join
           \/ Drained \/ Decide \/ Terminate \/ Joined \/ TimedOut
Child == Feed \/ (\E ok \in BOOLEAN : Commit(ok)) \/ PutFailed \/ Exit
Beat == Flush \/ Kill \/ Waited \/ Forget

Next ==
  \/ Execute \/ Child \/ Beat \/ Stop \/ Deadline \/ Break \/ Chat
  \/ \E x \in {Clear, Len(printed) + 1} : Write(x)
  \/ \E o \in {"COMPLETED", "FAILED"} : Return(o)
  \/ Die

\* The threads go on and time passes; nothing is assumed of the task's function.
Fairness == WF_vars(Execute) /\ WF_vars(Child) /\ WF_vars(Beat) /\ WF_vars(Deadline)
Spec == Init /\ [][Next]_vars /\ Fairness
-----------------------------------------------------------------------------
(* Properties. *)

\* "try always to empty the out queue" (execute): what a task printed after its
\* last CLEAROUT is what is reported, each piece once and in order, although saving
\* it may have failed on the way; unless somebody stopped the task, it was late or
\* the loop broke.
OutputWhole ==
  main = "done" /\ ~late /\ ~broken /\ stops = 0 /\ returned # None => output = AfterClear(printed)

\* Of a task that was late, or whose loop broke, the end may be missing; what is
\* reported is still what it had printed up to some point, since the last CLEAROUT
\* before that: nothing twice, nothing out of order, no hole (execute, the cut at
\* 765 for output that could not be saved).
OutputInOrder ==
  main = "done" /\ stops = 0 =>
    \E n \in 0..Len(printed) : output = AfterClear(SubSeq(printed, 1, n))

\* The report tells what happened.  Without interference by the heartbeat thread a
\* FAILED task did raise and a STOPPED one ended without a report or was broken off;
\* with it, a task that was stopped may be called FAILED (its executor reports the
\* SystemExit), but COMPLETED is never said of a function that did not return, and
\* TIMEOUT of none whose time was not over.
ReportTrue ==
  main = "done" =>
    CASE report = "COMPLETED" -> returned = "COMPLETED"
      [] report = "FAILED"    -> returned = "FAILED" \/ (returned # None /\ stops > 0)
      [] report = "STOPPED"   -> returned = None \/ stops > 0 \/ broken
      [] OTHER                -> report = "TIMEOUT" /\ late

\* When execute() returns, the child is dead (a task that is retried does not run
\* beside its previous attempt), unless the heartbeat thread interfered.
NoStray == main = "done" /\ stops = 0 => child = "dead"

\* "calling join after a terminate is risky ... this can lead to a deadlock"
\* (terminate_process): somebody has the lock and joins a child that goes on running
\* (its code survived SystemExit, or another process was terminated than is joined),
\* that waits to put a second report into retq, or to write more output than the
\* pipe holds, while the main thread reads neither queue any more.
JoinHangs ==
  /\ main = "term" \/ (main = "lock" /\ lock = "beat")
  /\ \/ child = "run"
     \/ child = "except" /\ retq # None
     \/ child = "exit" /\ buf # <<>> /\ Len(pipe) >= task.capacity

\* execute() ends: at the timeout, or after the function has ended if there is none,
\* when the task is not one that prints for ever; all that can keep it is a join()
\* after terminate() that hangs.
Returns ==
  (main # "idle" /\ ~task.chatty /\ (task.timed \/ child \in {"exit", "dead"}))
    ~> (main \in {"done", "raised"} \/ []JoinHangs)

\* timeout, in "seconds" (define_tables): a task that has one comes to its end or is
\* told to.
TimeoutKept ==
  (main = "loop" /\ task.timed) ~> main \in {"lock", "term", "late", "done", "raised"}
=============================================================================
