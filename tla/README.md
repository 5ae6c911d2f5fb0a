# web2py: a TLA+ verification project

web2py is a Python web framework: a WSGI application (`gluon/`) that runs the
controllers of several applications, and a set of services around it. Most of
`gluon` is sequential code that turns requests into text. What is hard to test in
it is the part where processes and threads share state: the task scheduler, cron,
sessions and the cache. This project models those parts, checks them with TLC and
proves what matters most about most of them with TLAPS. All paths below are
relative to the repository root; line numbers are in `PROJECT.json`, under `map`.

## 1. The system

| component | source | state it keeps | operations | modules |
|---|---|---|---|---|
| scheduler: queue and workers | `gluon/scheduler.py` | tables `scheduler_task`, `scheduler_task_deps`, `scheduler_worker`; per process the loop's and the heartbeat thread's variables | `queue_task`, `assign_tasks`, `pop_task`, `report_task`, `send_heartbeat`, `being_a_ticker`, `set_worker_status`, process start and death | `TaskQueue`, `Scheduler`, `SchedulerProofs`, `SchedulerTaskProofs`, `MCScheduler` |
| scheduler: one execution | `gluon/scheduler.py` | child process, two `multiprocessing` queues, `self.process` | `execute`, `executor`, `terminate_process` | `TaskRun`, `TaskRunProofs`, `MCTaskRun` |
| scheduler: jobs | `gluon/scheduler.py` | rows of `scheduler_task_deps` that a request has not committed | `JobGraph.add_deps`, `validate` | `JobGraph`, `JobGraphProofs`, `MCPlans` |
| scheduler: cron lines | `gluon/scheduler.py` | a parsed line, `self.base` | `CronParser._parse`, `next` | `CronNext`, `CronProofs`, `MCPlans` |
| cron pool | `gluon/newcron.py` | `SimplePool.idle`, `running`, `size`; per thread `run_lock`, `payload`; `_subprocs`, `_stopping` | `SimplePool.__call__`, `start`, `stop`, `grow`, `Worker.run`, `crondance` (its calls), `stopcron` | `CronPool`, `CronPoolProofs`, `MCCronPool` |
| cron token | `gluon/newcron.py` | the file `cron.master` and its lock | `Token()`, `acquire`, `release`, `crondance` (its calls) | `CronToken`, `CronProofs`, `MCPlans` |
| sessions | `gluon/globals.py`, `gluon/main.py` | the client's cookie, the request's `response.session_*` | what both kinds of storage share | `Session`, `MCSessions` |
| sessions in files | the same, `gluon/recfile.py` | one file per session, locks on it | `connect`, `clear`, `renew`, `forget`, `_try_store_in_file`, `_close` | `SessionFile`, `SessionProofs` |
| sessions in the database | the same | one row per session | `connect`, `clear`, `renew`, `forget`, `_try_store_in_db` | `SessionDb`, `SessionProofs` |
| cache in memory | `gluon/cache.py` | a dictionary and a lock per process | `CacheInRam.__call__`, `increment`, `clear`, `remove_oldest_entries` | `CacheAbstract`, `CacheRam`, `CacheProofs`, `MCCache` |
| cache on disk | `gluon/cache.py` | a file per key, one of statistics, locks on them | `CacheOnDisk.__call__`, `increment`, `clear`, `PersistentStorage.safe_apply`, `get` | `CacheAbstract`, `CacheDisk`, `CacheProofs`, `MCCache` |

How they interact. The workers of the scheduler share nothing but the database;
a worker's two threads share four variables and `self.process`. The heartbeat
thread tells the main loop to assign tasks (`do_assign_tasks`) or to end
(`have_heartbeat`), and may kill the process of the task that the main loop
executes. `queue_task`, called in any web request, talks to the workers through the
tables; a web request that builds a job writes the dependencies that `assign_tasks`
follows, and `CronParser` computes the `next_run_time` that `pop_task` writes. Cron's
threads share the pool and the list of subprocesses; the processes of one
installation share the token, which decides whose dance hands commands to its pool.
Requests of one client share the session: a file, whose lock is held from `connect`
to the store, or a row, which is read without a lock. All requests share the cache.

What is hard in each of them, and what makes it correct:

- *Scheduler.* Transactions of several workers interleave, workers crash between
  two steps, heartbeats are late, names are reused, administrators write the same
  rows. Correct means: a task is executed by one worker at a time, as often as
  `repeats` and `retry_failed` ask for, after the tasks it depends on; a crashed
  worker's task is found and run again; there is one ticker, and again one after a
  crash; workers that are told to end do.
- *One execution.* Two threads may end the child; a pipe of limited size lies
  between the child and the drain; a report may be late, missing or double.
  The child is ended by a SIGTERM that it turns into an exception and may survive.
  Correct means: the report and the output tell what happened, no child survives
  its run, and the run ends unless the join after that signal hangs.
- *Cron pool.* A thread is handed a command by writing its payload and releasing
  its lock while it may be on its way back to the idle list; commands fail to
  start; shutdown runs beside all that. Correct means: the bound on threads holds,
  an accepted command is run once.
- *Jobs and cron lines.* Two requests add dependencies to one job at the same time;
  `next` advances the fields of a date one after the other. Correct means: what
  `validate` accepts can be executed in some order and what it rejects cannot; the next
  run is the first minute that the line names.
- *Cron token.* The file is created, locked, loaded and written by processes that do
  not know of each other, that die, and whose dances last longer than a minute. Correct
  means: the crontabs are read once a minute.
- *Sessions in files.* Requests of one client run at the same time, end at any
  point, unlink and recreate the file others wait for. Correct means: no update is
  lost, a stored session is found whole, a cleared one does not come back.
- *Sessions in the database.* A row is found by its key, renewed, cleared and stored
  by requests that read it without a lock. Correct means: the client can find what was
  stored.
- *Cache.* The lock is free while the cached function runs; a file is emptied before
  it is locked; the statistics are written by every call. Correct means: nobody is
  answered with something older than he asked for, increments are not lost, and no
  call waits for another request's function.

The full list of hazards, with the line where each bites and the properties that
watch it, is `hazards` in `PROJECT.json`.

### Not modelled, and why

URL rewriting, templates, HTML helpers, forms, validators and internationalisation
are functions of strings. `main.py`'s request handling is sequential; the one
ordering in it that matters, the session is stored before the commit of the
database or after it, is in `SessionFile` and `SessionDb`. Streaming is input and
output. `pydal` is a submodule that is not in this tree: the models contain what
`gluon` relies on (a transaction is atomic from its first write to its commit;
`portalocker.lock(LOCK_EX)` excludes other open files, in other threads too). The
Redis back ends need a model of the Redis server. Sessions in the cookie are kept by
the client: there is no state to race for. Vendored code in `gluon/contrib`, the
example applications, scripts and Docker files are left aside: they are most of the
repository's lines and hold no shared state.

## 2. Modules

### `TaskQueue`: what the scheduler promises

A task waits, is taken by one live worker that has no other task, is ended by that
worker, or is called off when that worker is gone; a settled task stays settled.
`Scheduler` implements it: `RefinesQueue` maps `QUEUED` and `ASSIGNED` to "waiting",
`RUNNING` to "running" with `assigned_worker_name` as the holder, the rest to
"settled".

### `Scheduler`: the worker processes

| code | actions |
|---|---|
| `loop`, `has_pending_due_tasks` | `Top`, `CountDue`, `Idle` |
| `assign_tasks` | `AssignStart` (ticker's view of the workers, expiry), `AssignSelect`, `AssignWrite` |
| `pop_task` | `PopSelect`, `PopGrab`, `PopNothing` |
| `execute` (seen from the tables) | `Finish` |
| `report_task` | `Report` |
| `send_heartbeat`, `being_a_ticker`, `die`, `give_up` | `HeartbeatRead`, `HeartbeatWrite` |
| `queue_task`, `set_worker_status` | `QueueTask`, `SetWorkerStatus` |
| `Scheduler.__init__`, death of the process | `Restart`, `Crash` |
| the clock | `BecomeDue`, `PassStopTime`, `Age` |

Variables named `t...` are columns of `scheduler_task`, `w...` of
`scheduler_worker`; `visited` is `scheduler_task_deps.can_visit`. Per process, `pc`
is where the main loop is and `hb`, `hbrow` what the heartbeat thread has read and
not yet written. The rest of the process's memory keeps the source's names
(`greedy`, `empty` for `empty_runs`, `wstat` for `w_stats.status`, `beating` for
`have_heartbeat`, `doAssign` for `do_assign_tasks`).

What a process has in its memory ends with it (`Memory`). Between the count of the due
tasks, which is a transaction of its own (`CountDue`), and `die()` (`Idle`) anything may
happen: a task may become due, or be requeued by the heartbeat thread.

A transaction's SELECT and its first UPDATE are two actions, because nothing in the
code locks the rows that were read; from the first write to the commit it is one.
With the constant `Serializable` they are one action. Time is a few flags: a task is
due or not, past its `stop_time` or not; a heartbeat is fresh, older than three
heartbeats (an ACTIVE worker is then dead), or older than 45 (any worker is).

`Finish` is the whole of an execution; `TaskRun` has its inside. What `TaskRun` tells apart
and the tables do not (a task that was stopped is reported STOPPED or FAILED) is one
outcome here, since `report_task` treats both alike, and an execution that never ends is
left to `TaskRun`.

Left out: `scheduler_run` rows, groups (all workers are in one), `update_task`,
the look-up of tasks, the wording of outputs. `stop_task` as written raises
NameError (see below), so an administrator writes `STOP_TASK` into the row.

### `TaskRun`: one execution

`execute` is `Make`, `Start`, `Check`, `Get`, `GetNoise`, `Save`, `Join`, `Drained`,
`Decide`, `TimedOut`, and `Break` for an exception in its loop (the branch that drops what
was read and reports STOPPED); `executor` is `Write`, `Chat`, `Return`, `Commit`,
`PutFailed`, `Exit` (and `Die`, when the function ends its process). `outq` is a buffer in
the child and a pipe of limited capacity, as in `multiprocessing`.

`terminate_process` is `Terminate` and `Joined` in the main thread, `Stop`, `Flush`, `Kill`,
`Waited`, `Forget` in the heartbeat thread: a SIGTERM and then a `join()` without a timeout,
under the lock. The SIGTERM does not end the child. A forked executor has inherited the
handler that `loop` installs, so `SystemExit` is raised wherever it is (`Caught`): the
function may catch it and go on (`stubborn`); else the bare `except` of `executor` puts a
FAILED report, with the traceback that `execute` asks for, and the child ends when it has
written its buffer. A spawned child has no handler and is gone at once, as is one that is
on its way out (`Killed`); what it had in its buffer is lost. The flush before the signal
may miss what the child writes at that moment (`Flushed`). The heartbeat thread joins
whatever `self.process` is by then, which may be a later process than the one it
terminated.

Time: the deadline may come at any moment of the loop. `sync` says whether
`sync_output` is absent, below the timeout or not below it; only in the second case
does the join wake up before the deadline (`Polls`). What the function prints is recorded up to
`MaxOut` pieces; a `chatty` one may print more, unrecorded. Left out: a queue whose pipe
was torn in the middle of a message by the signal, exceptions outside the loop of
`execute`, a SIGTERM to the worker itself while it terminates its child.

### `CronPool`: the thread pool of cron

`crondance` is a dancer: `Dance`, then `SimplePool.__call__` as `Refuse` or `Call`
(under the lock), `Hand` (payload and release, after the lock) and `Start`;
`Worker.run` is `Wake`, `Popen`, `List`, `Unlist`, `Stop`; `stopcron` is `StopCron`,
`Count`, `Pop`. Commands in `Broken` make `Popen` raise.

### `JobGraph`: the dependencies of jobs

`AddDeps` is an insert of `add_deps` in a request's open transaction; `validate` is
`Validate` (the select, the nested dictionary), `Peel` (one layer) and `Answer`
(commit, or rollback with None). With `Serializable`, transactions do not overlap.
What is checked and proved is the relation between the answer and the graph: a plan if
there is one, None only if there is none.

### `CronNext`: the lines of cron

`Create` and `Parse` are the constructor and `_parse`, `Round` is a turn of the loop in
`next`, `Again` another call. A calendar is a sequence of lengths of months, and ends as
that of `datetime` does; hours, days and weeks have the lengths the constants say, so that
every time of a year can be tried. `FirstDate` and `MonthOf` turn dates into months and
days. A loop that adds days, hours or months until a value fits is the least date or time
that fits; one that finds none leaves the calendar, and `next` raises. Names that `_parse` does
not know (`5,foo`) are left out of the lists: the code drops them without a word, and
accepts the line. A line that `_parse`
rejects is `refused`, a `next` that gives up is `raised`. A field is a set of ranges with
steps, names of days and months being numbers. `Matches` and `FieldRight` are the reference
definitions, written from what a cron line means and not from the code.

### `CronToken`: which process runs the crontabs

`crondance` takes the token: `Make` and `Empty` (`Token()`, which looks for the file and
makes it), `Acquire` and `Decide` (`acquire`, under the file lock), `Danced`, `Release`;
`Lose` is the end of the process. Two history variables say which start was granted
last and whether the file was emptied after that. What a dance does with the crontabs
is `CronPool`.

### `Session`, `SessionFile`, `SessionDb`: sessions

`Session` has the variables of a request that both kinds of storage use. A session is
a set of marks: a request can add its own and drop any.

In `SessionFile`, `connect` is `Arrive`, `Open`, `Lock`, `Load`; the application's calls
are `Add`, `Drop` (changes of the session), `Clear`, `Renew`, `Forget`, `Again` (a second
`connect`); the end of the request is `Skip`, or `Store`, `Relock`, `Write`. `Break`
is an exception of the application or the end of the process, at any point. A file
is kept apart from its name, as in Unix: `folder` maps session ids to files, and a
file that was unlinked lives on for those who have it open.

In `SessionDb`, `connect` is `Request` (the request arrives with its cookie) and
`Connect` (the select); the application's calls are `Change`, `Delete` (`clear`),
`RenewRead` and `RenewWrite` (`renew`), `GiveUp` (`forget`); `_try_store_in_db` and the
commit are `Leave` or `Save` (by `Update` or `Insert`); `Answer` is the reply, which sets
the cookie, in any order; `RollBack` is an exception or the end of the process. A row
that a transaction has written is given to no other one until it ends (`writer`,
`draft`); reads see what is committed. The unique key is a number. Left out:
`check_client`, `masterapp`, `separate`.

### `CacheAbstract`, `CacheRam`, `CacheDisk`: the cache

An item is its time stamp, the time at which f read what the value is made of, and how
often the value was incremented since. In `CacheRam`, `__call__` is `Call` (the time is
taken), `Look` (under the lock), `Compute` (without it), `Store`; `increment` is
`Increment` and `Add`, `clear` is `Clear`; with `Evicting`, `Store` may remove any entries.
In `CacheDisk` a call begins with `Begin`; `storage.get` is `Get`, `Load`, `Heal` (a file
that cannot be loaded is removed, once); `safe_apply`, on the statistics or on the
value, is `Update`, `Create`, `Fetch`, `Write`; then `Delete`, `Decide`, `DiskCompute`,
`SetOpen`, `SetDump`, `DiskClear`; `Die` is the end of the process. Files are kept apart
from their names here too, and opening "wb" empties a file without its lock. Left
out: the destroyer, the counters in the statistics, a long file that is read while
it is written.

## 3. Runs

| run | instance | shows |
|---|---|---|
| `SchedSerial` | 2 workers, a parent and a child task, each repeated twice and retried once, one with a stop time; 1 crash; serializable | `TypeOK`, `CalmInv`, `ExclusiveRun`, `RepeatsHonoured`, `CountAgrees`, `RetriesBounded`, `ParentWaits`, and that every step is one of `TaskQueue` (`RefinesQueue`) |
| `SchedRaw` | 2 workers, 1 task, 1 crash, one task per worker and round, so that workers are greedy; reads and writes interleave | `OneTickerRow`, `OneDispatcher` hold even so |
| `SchedLive` | 2 workers, 1 task, `max_empty_runs` 1, 1 crash | `TasksSettle`, `DueWorkStarts`, `IdleWorkersQuit` |
| `SchedEnd` | 1 worker that may be restarted under its name and never quits by itself (`max_empty_runs` 0), one task per round, an immediate task, 2 administrator's actions; reads and writes interleave | `WorkersObey` |
| `TaskRun` | tasks with and without timeout, `sync_output` shorter than it or not, a pipe that holds 1 or 2 pieces, chatty, stubborn and spawned ones; 2 recorded pieces (CLEAROUT among them), 1 stop by the heartbeat thread, an exception in the loop | `OutputWhole`, `OutputInOrder`, `ReportTrue`, `NoStray`, `Returns` |
| `TaskRunChatty` | one task with a timeout that prints as long as it runs | *violation*: its timeout does not end it |
| `CronPool` | 2 dancers, 3 threads, sizes 1 and 2, 4 commands of which one cannot start | `PoolBounded`, `CarriedOnce`, `RefusedBusy`, `AcceptedStartsIfSound` |
| `Plans` | jobs: 3 tasks, 2 jobs, 2 requests, 4 dependencies; lines: 1620 lines from every time of a year and of the last two dates of the calendar; token: 3 dances, one of which dies | `ValidateExact`, `JobsOrdered`; `ParsedAsWritten`, `NextRight`; `Spaced` |
| `CronMonths` | lines with months and days, one call | *violation*: the next run does not fit the line |
| `Sessions` | 3 requests, 2 operations in all, 1 of them breaks; in files, with and without a session at first, or in the database | `UpdatesAtomic`, `SessionKept`, `ClearedStaysCleared`, `RequestsEnd`; `StoredAsTold` |
| `Cache` | 2 threads and 2 keys in memory with eviction; 2 requests, 1 key and the statistics on disk, 3 calls, 1 death | `RamFresh`, `RamAddsToStored`; `DiskFresh`, `DiskAddsToStored`, `DiskCallsEnd` |
| `CacheCold` | the same, nobody dies, no time passes | *violation*: a call fails because of another one |

`Plans`, `CronMonths`, `Sessions`, `Cache` and `CacheCold` each check parts that do not
interact: the MC module composes them so that a behaviour is one of any of the parts,
and each property speaks of one.

Why the bounds are enough. Each race in this code is between two actors (two
workers, a worker and the ticker, main and heartbeat thread, two requests); a third
request is there because one clears, one waits on the unlinked file, one arrives. Two
tasks are needed for a dependency and for "one worker, one task"; two repeats and
one retry reach both sides of each comparison. Two pieces of output reach a pipe of
one that is full, and a CLEAROUT before or after text. Four commands let one fail,
one follow it on its thread, one be refused and one wait. `MaxDone` and `MaxFails`
only keep counters finite: `MaxDone` is 4 in `SchedSerial`, one more than the two repeats
and the crash allow, and is never reached. In `SchedEnd` the executions of a task that is queued
again and again are cut at 3, which `WorkersObey` does not look at. Four
dependencies among three tasks make every cycle, chain and fork, and let two requests
close a cycle between them; two jobs keep the scopes of `validate` apart. Months of one
to three days (leap day included), weeks of three, hours of three minutes have all
the boundaries: a day that a month lacks, a range that ends inside, at and beyond its
period, a minute that is over when the hour is found, a date after which there is no other. Three dances are one that lasts,
one that overlaps it and one that comes after; with `LockTime` 2 the clock passes it
once. Sessions: one operation of each of two requests, while a third arrives or
breaks. Cache: one request that reads, one that writes, removes or dies, and a clock
that makes a value too old. Symmetry is used over workers, tasks, jobs and clients, and
only in runs without liveness.

Every property of a passing run has a mutant in `PROJECT.json`: the definition of
the code that is changed, and the change a bug would make, with which TLC finds the
property violated. They are the definitions marked `mutant` in the modules.

`CHECK_DEADLOCK FALSE` is set everywhere: workers give up, pools are stopped,
runs and requests end.

### Fairness

*Scheduler.* Threads of a live worker go on (weak fairness of the main loop's and
of the heartbeat's steps), an executor ends (none hangs as `JoinHangs` says), time passes for tasks and for rows of
dead workers. Strong fairness is assumed in two places, for the sleeps of the code:
both threads sleep a heartbeat between rounds, so a fifth beat comes now and then
while the main loop sleeps, and the main loop wakes up now and then while
`do_assign_tasks` is set. The code does not enforce the second (the flag is cleared
by the next beat that is not a fifth one); it is stated as a hazard. Nothing is assumed of
administrators, crashes or `queue_task`.
*TaskRun.* The main thread, the child's queue and exit, the heartbeat thread and the
clock go on; the task's function need not return, print, stop printing or obey a SIGTERM.

What the liveness properties say, and what they leave to the code:

- `DueWorkStarts` is about work that is due while some worker has still to count it. Work
  that becomes due after the last worker counted none, and before it dies, is left behind;
  so is work of a process that crashes later (that is `TasksSettle`'s, while a worker is left).
- `IdleWorkersQuit` needs that no task is pending and due any more. The count does not look
  at dependencies: in a job whose child FAILED, the parent stays QUEUED and due for ever
  and keeps all workers up for ever, although nobody will ever run it. The run has a
  single task, so this does not come up in it; the premise of the property excludes it.
- `WorkersObey` has two ways out, both in the code: another command, or `queue_task(immediate=True)`,
  is written over TERMINATE or KILL before the worker reads it; or the worker's own
  heartbeat had read its row before the command was written, and writes ACTIVE over it.
- `Returns` has one: `JoinHangs`, the deadlock of which the comment in `terminate_process`
  warns. It names four cases: the code survived `SystemExit`; the child waits to put a second
  report into `retq`, which holds one; it waits to write more output than the pipe holds, while
  nobody reads; the heartbeat thread joins a process that nobody terminated. The task
  that is stopped then stays RUNNING and its worker executes nothing any more.

*CronPool.* Dancers and threads go on; a subprocess need not end. *Sessions.* A
request that has arrived goes on; of several that wait for a lock one gets it. As
there are finitely many requests, weak fairness suffices. *Cache.* A request on the
disk goes on and gets a lock it waits for; nothing is assumed of f, which may run for
ever. `Plans` has no liveness property.

## 4. Proofs

| theorem | module | says |
|---|---|---|
| `Typed` | `SchedulerProofs` | `Spec => []TypeOK` |
| `OneTicker` | | `Spec => []OneTickerRow`: interleaved transactions, late beats, reused names and administrators included |
| `CalmAlways` | | `Calm` implies `Spec => []CalmInv` |
| `Exclusive` | | `Calm` implies `Spec => []ExclusiveRun` |
| `Accounted` | | `Calm` implies `Spec => []RunningAccounted` |
| `OneDispatches` | | `HandsOff` implies `Spec => []OneDispatcher`, transactions interleaved |
| `ImplementsQueue` | `SchedulerTaskProofs` | `Calm` implies `Spec => RefinesQueue`: every step is one of `TaskQueue` or none |
| `CountsAgree` | | `Calm` implies `Spec => []CountAgrees` |
| `RepeatsBounded` | | `Calm` implies `Spec => []RepeatsHonoured` |
| `RetriesEnd` | | `Calm` implies `Spec => []RetriesBounded` |
| `ParentsWait` | | `Calm` implies `Spec => []ParentWaits` |
| `ReportsTrue` | `TaskRunProofs` | `Spec => []ReportTrue` |
| `NoneLeft` | | `Spec => []NoStray` |
| `NothingLost` | | `Spec => []OutputWhole` |
| `OnlyJoinHangs` | | until `execute` has ended, somebody's step is possible, or a join hangs in one of the ways of `JoinHangs` |
| `Peeled` | `JobGraphProofs` | the layers that `validate` has found are a plan of their members |
| `Answered` | | `JobSpec => ValidateExact`: it accepts with a plan, and rejects only what has none |
| `JobsOrderedAlways` | | `Serializable` implies `JobSpec => []JobsOrdered` |
| `ParsedRight` | `CronProofs` | `LineSpec => []ParsedAsWritten` |
| `NextFinds` | | `LineSpec => NextRight` |
| `TwoRounds` | | a second round of `next` is always the last: its limit of 1000 is never reached |
| `OnlyMovingDays` | | `next` goes to later times of the line's months, hours and minutes, and of its days unless the line gives months and a day that moves |
| `DancesSpaced` | | `TokenSpec => Spaced` |
| `Pooled` | `CronPoolProofs` | `Spec => []PoolBounded` |
| `Carried` | | `Spec => []CarriedOnce` |
| `RefusedIfBusy` | | `Spec => RefusedBusy` |
| `Delivered` | | unless a command failed, no accepted one waits for a wake-up that nobody gives, or is with a dead thread |
| `RunOnce` | | a command that was started is never started again |
| `AddsToStored` | `CacheProofs` | `RamSpec => RamAddsToStored` |
| `FreshInRam` | | `RamSpec => RamFresh` |
| `FreshOnDisk` | | `DiskSpec => DiskFresh` |
| `AddsToStoredOnDisk` | | `DiskSpec => DiskAddsToStored` |
| `NoCircle` | | who waits for a file lock waits for one who is about to write and release |
| `BoundedCalls` | | every step of a call brings it nearer to its end, and none of the others' sends it back |
| `AtomicAlways` | `SessionProofs` | `FileSpec => UpdatesAtomic` |
| `KeptAlways` | | `FileSpec => SessionKept` |
| `ClearedAlways` | | `FileSpec => ClearedStaysCleared` |
| `NoFileCircle` | | who waits for a session file waits for one other request, which does not wait |
| `StoredToldAlways` | | `DbSpec => StoredAsTold` |
| `NoRowCircle` | | a transaction that has written a row never waits for one |

All hold for any number of workers, tasks, requests, dances, threads, keys, for output of any
length and for any calendar and any cron line. They rest
on the named assumptions on the constants (`ConstAssumption`, `SetupAssumption`, `JobAssumption`,
`TokenAssumption`, `PoolAssumption`, `CacheAssumption`, `RamAssumption`,
`DiskAssumption`, `CalendarAssumption`, `LineAssumption`, `SessionAssumption`, `OldAssumption`, `NameAssumption`): types, finite sets of actors,
and that "nobody" is none of them. TLC evaluates these in every run.

*Scheduler.* `Calm` collects what the code needs to keep a task with one worker:
serializable transactions, timely heartbeats, unique worker names, no
`max_total_runs`, next runs that can be computed, no DISABLED, TERMINATE or KILL. Each of
them excludes a behaviour that section 5 lists. `ExclusiveRun` alone is not inductive:
nothing in it says that the holder of a task is the worker its row names. `CalmInv`
adds, per worker, that a held task is RUNNING under its holder's name (`Owns`), that
only dead workers have old heartbeats (`AgedGone`), that a worker that gave up pops no
more (`GivesUp`), that a live worker without a row neither has a task nor gets one
(`Enrolled`), and that its heartbeat thread is never between read and write (`Quiet`).
The argument: a task changes hands only through `PopGrab`, which takes an ASSIGNED one,
and through `Coordinate`, which frees the tasks of dead rows; a dead row is an old one
(`AgedGone`), so its worker holds nothing (lemma `BeatSpares`). There is one lemma per
action for the types (`Type...`) and one for the invariant (`Calm...`). The run
`SchedSerial` checks `CalmInv` on its instance. `RunningAccounted` follows from `CalmInv`
and is no property of a run.

`OneDispatches` needs no serializable transactions but `HandsOff`:
timely heartbeats, unique names, no `max_total_runs`, and nobody who writes a worker's
status from outside (hence `Late = {}`: `queue_task` may pick the ticker). `LeadInv` says that rows are ACTIVE as long as their workers live
(`Present`), and that a worker whose heartbeat asked it to assign, or that assigns on that
request, is idle and has the ticker's row (`Mandate`). Whoever is elected later sees that
row as a rival (`ElectionSpares`), because a live worker's heartbeat is fresh; with
`OneTicker` there is one such worker. `SchedRaw` is an instance.

*Tasks.* `SchedulerTaskProofs` builds on `CalmInv`. Of a task only four steps matter, the
pop, the end of an execution, its report and a crash; all others are `Minor` (`StepKinds`).
`TaskInv` says that the row of a held task still is what the worker noted at the pop
(`Recorded`: nobody else reports it, by `Owns`), that a task which is not settled may run
once more (`InBounds`), that every completed execution is recorded, about to be, or was
lost in a crash (`Counted`), and that an assigned task waits for nothing (`Ready`, with
`Done` for the tasks it waited for). For the refinement each step is mapped to one of
`TaskQueue`: `PopGrab` takes, `Report` ends, the heartbeat calls off (lemma `BeatSpares`
says that the holder is gone), `AssignStart` expires, `Top` and `Crash` leave.

*Execution.* `RunInv` follows the result from the function to the report (`Told`: what is in
`retq` is what became of the function; what a SIGTERM may change of it is `Touched`) and
the child from `Start` to its end (`Course`, `Alone`). A stopped child may report FAILED
without having raised anything of its own: that is why `ReportTrue` lets the heartbeat thread's
stops excuse FAILED, and why only COMPLETED and TIMEOUT are promised whatever it does.
The output is split over four places:
collected, just read, in the pipe, in the child's buffer. `TextInv` says that together, in this
order, they are the end of what was printed, and that what is missing lies before the
last CLEAROUT (`IsTail`). A save that fails cuts the output back by the length of what was
read, which may be more than there is: then what was read holds a CLEAROUT, and the text
that is lost is of no interest (`CutText`, `DroppedTail`). That a text with a CLEAROUT has a last one
is an invariant of the steps that read it (`LastMark`), as no induction over sequences is at hand.
`OnlyJoinHangs` adds who has the lock (`LockHeld`: the heartbeat thread from its flush to its
end, the main thread while it joins). Whoever waits elsewhere waits for somebody that
moves: a join without polling has a deadline, a child that cannot end has its output in a full
pipe, or `retq` full, and outside of the joins after a SIGTERM the main thread
still comes to read both.

*Jobs.* `JobInv` says of a request that validates that its layers are a plan of their
members, that a member of the rest waits for what it waited for at first less what
was peeled, and that nothing is in both. When nothing can be peeled, the rest is a set
in which everybody waits for one of the set: that refutes `Acyclic`. For the other
direction, every layer that is peeled keeps a fact: any set of peeled tasks has a member
that waits for none of the set (`SortedMore`).

*Cron lines.* Induction over the naturals is an operator parameter and out of reach; in its
place is the least number of a non-empty set (`LeastNat`, from the well-foundedness of the
naturals). It gives that `FirstDate` is what its recursive definition says (`FirstDateDef`:
else there is a least month up to which no such function exists), that the months
cover the dates without overlap (`MonthOfDate`), and that dates and months grow together.
`ParsedRight`: a list that is cut short differs from the written one only beyond its period,
and then keeps one value there (`FirstBad` is the least multiple of the step at or above
the limit), so it is rejected for that value as the whole list would be. `NextFinds`: the day
search returns the first date that fits one of the day fields, and if no month is to be
skipped the month search returns it again (`MonthRight`); the time search returns the
first time whose minute fits, and then the first hour with that minute (`NextTime`), so all
that is skipped lies within that hour. `Between` in `LineInv` says what the loop of `next`
carries from one round to the next: the base itself, or a time of the day after it,
no fitting time lying between; from a time that is already on the next date the date search
cannot stay on the base's date, which is why two rounds are enough (`TwoRounds`).
`OnlyMovingDays` delimits the run `CronMonths`, which refutes `NextMatches`: if no month
is to be skipped the month search returns the date that was found, and otherwise one with
the same day of the month (`MonthRight`); so only the days that move from month to month,
the days of the week and the last day, can be wrong.

*Token.* The file tells of the last start unless it was emptied (`KeepsStart`), and so
does what the holder of the lock has loaded (`HolderKnows`).

*Pool.* `PoolBounded` needs that a thread that works or is released is running
(`Working`); `CarriedOnce` that a dancer has its thread and its command alone
(`Apart`), that the thread it hands a command to does not carry one (`Dealing`), and that
two threads never carry the same (`Kept`). `RefusedBusy` needs that a running thread has
something to do unless a command has failed (`BusyInv`). The proofs cover commands that cannot start:
their thread is dead and stays on the lists, and the command after it is carried by it
for ever, which is why `AcceptedStartsIfSound` excludes them. Without them, an
accepted command is with a dance whose thread sleeps or is yet to begin, or with a thread
that has been woken (`Delivered`); a thread that is made is in the hands of the dance that
made it (`HandledInv`), so a command in it is not forgotten.

*Cache.* A value is stamped with the time its call took before f read (`TimeFirst`), so
no item in memory, in a file or in a request's hands is younger than it looks
(`Honest`). Who increments has the lock, and the item he found is still there (`Guards`);
on disk the lock belongs to an open file (`Exclusive`), and other writers may only empty
it. That `open(key, "wb")` finds an unused file in the model is counted
(`UnusedThere`): the bound on files excludes nothing. A request has a file open
exactly where it uses one and its lock where it writes (`Opened`), which gives `NoCircle`;
for `BoundedCalls` every place of a call has a rank (`Left`), in which the second attempt
after a file was removed (`retried`) ranks below the first.

*Sessions in files.* A request that has opened a file and was not disturbed since has
the file of its session (`Opened`), and with the lock what it has is what the file has
and its own change (`Follows`, `Locks`): so what it writes is that. A stored session
has a file that is not empty (`Named`), because an id is new to everybody until its
request has written (`Private`), and a file that has a name is emptied only by a
request whose session was cleared. For `ClearedAlways`: what was cleared was written
by requests that are done (`Past`), and a request that may still write to the name has
none of it (`Clean`); a second `connect` breaks that, hence the premise. A request has
its file locked only from the load to the end of the store (`LockedAtWork`), because
whoever opens one has closed its own (`NoFileCircle`).

*Sessions in the database.* A request knows its row by the name it got, and a session
that has become new, other than by another one's renewal, has lost its row (`Knows`): so
what it stores is either an update of the row it names or an insert that names it anew.
For that a row that is gone must stay gone, in the table and in every open transaction:
only rows that are there are written to (`Alive`), and a transaction writes to the row
of its own session alone (`Owns`), from which `NoRowCircle` follows as well.

Only model-checked: liveness (TLAPS has no ENABLED), and the refuted properties of section 5.
Of four liveness properties the safety part is proved, that nobody waits for what cannot
come: of `Returns` by `OnlyJoinHangs`, of `DiskCallsEnd` by `NoCircle` and `BoundedCalls`, of
`RequestsEnd` by `NoFileCircle`, of `AcceptedStartsIfSound` by `Delivered`. Fairness, and
that a finite number of steps is then taken, stay with TLC.

## 5. What the models say about the code

Three runs end in a violation; `findings` in `PROJECT.json` quotes the statement each
one contradicts.

- `TaskRunChatty`: `execute` drains the output with a timeout of two seconds and looks
  at the clock only when the drain ends; a task that prints often enough has no
  timeout.
- `CronMonths`: `_getnext_date` finds the day first and then replaces the month, and looks
  at the day of the week no more. From 2024-01-10, "0 0 * 6 mon" goes to 2024-06-15, a
  Saturday. `OnlyMovingDays` says that this needs a month together with a day of the week or "l".
- `CacheCold`: `safe_apply` makes a file by opening it "wb" and locks it only then; a
  request that comes in between loads an empty file and its call fails with EOFError.

Other behaviour met while modelling, without a run of its own:

- `pop_task` updates by id what it selected before ("none will touch my task!"); on a
  database that is not serializable two workers execute one task. This and
  the next item are why `Calm` asks for serializable transactions and unique names.
- A process that starts under a dead worker's name finds its row, so `w_stats.status`
  stays RUNNING, and alone it never assigns due work.
- A ticker is "the only process that effectively dispatch tasks" (`send_heartbeat`), but
  `being_a_ticker` makes a busy worker that finds itself alone a ticker in memory and not
  in its row, and `greedy` stays set. With a third worker, which is elected meanwhile,
  two assign at once, one of them in the greedy loop (`OneDispatcher` excludes
  exactly this; the updates look at the status, so a task that was popped stays popped).
- A command that `Popen` cannot start kills its thread, which stays in the idle list;
  the next command given to it is lost (`AcceptedStartsIfSound`).
- Most of what `Calm` excludes may lead to a task that is executed twice: TERMINATE
  and `max_total_runs` stop the heartbeat while the last task runs, a DISABLED worker's sleep is stretched beyond three heartbeats, and the next
  ticker takes the worker for dead. A worker that reuses a name overlaps the orphan of
  its predecessor.
- A task that is stopped is reported FAILED as often as STOPPED: its executor catches the
  `SystemExit` and reports it. If it prints more than the pipe holds while it is
  terminated, or catches `SystemExit` itself, the join in `terminate_process` never
  returns, and with it the worker (`Returns`).
- A job whose child has failed keeps the workers from quitting by `max_empty_runs`; work
  that becomes due between a worker's last count and its end is left to others.
- A task whose next run time cannot be computed is left RUNNING by its worker
  (`pop_task` raises after the commit).
- A KILL that arrives between the pop and the execution ends the process of the
  previous task; the popped one runs to its end. A KILL of the ticker is overwritten
  by `queue_task(immediate=True)`.
- `set_worker_status`'s `exclude` is lost (`exclude.append(action)` is None); `disable`,
  `resume`, `terminate` and `kill` ignore `worker_name`; `stop_task` raises NameError
  (`integer_types`).
- Without `sync_output` a task is joined for its whole timeout: one whose last output
  does not fit the pipe is reported as TIMEOUT, and so is one whose `sync_output` is not
  below its timeout. With a heartbeat thread that stops a task at the wrong moment,
  `execute` may leave by AttributeError, or a child may outlive its run (`NoStray`
  and `Returns` say under which conditions not).
- `stopcron` may raise IndexError, and a subprocess that is listed after it has
  ended is not terminated.
- A session that is cleared while other requests wait for it: those work on a file
  without a name, what they store is lost, and one that clears it too removes what
  was stored since. A request that calls `connect` twice gives up the lock in
  between and adds the second load to the first, so a key removed meanwhile comes
  back, in this request or in the next ones. `UpdatesAtomic` and `ClearedStaysCleared`
  exclude these.
- `CronParser.next` sets the minute before the hour and does not go back: "10,50 5 * * *"
  goes from 03:20 to 05:50 (`NextRight` allows exactly this). `_get_next_mon` keeps the
  day: "0 0 * 2 *" raises ValueError on January 31.
- `validate` ignores a task that depends on itself, which then never runs. Without
  serializable transactions two requests can each add one half of a cycle, and both
  are accepted.
- `Token()` looks for `cron.master` and then makes it by opening "wb": a process that
  comes first in between and has started loses its start, and the crontabs are read
  twice in a minute (`Spaced` excludes exactly this). A dance that begins 10 ms early is
  refused, and its minute is skipped.
- Sessions in the database: of two requests the later store wins; a store after
  another request's renewal writes the old key back, so the renewed cookie finds
  nothing; of two `renew` at the same time the second may write a key that no reply
  carries, and the session is lost for everybody (`StoredAsTold` excludes exactly this
  one); a cleared session comes back under a new id when a concurrent request stores
  it; `forget` after `renew` loses the new cookie.
- Cache on disk: when a process ends between making the file of the statistics and
  writing it, the file stays empty and every later call fails at `safe_apply`. A
  cached function that uses `cache.disk` of its own request waits for the lock its
  caller has (it harms nobody else: `DiskCallsEnd`). `del` of a key that another
  request has removed raises KeyError.

## 6. Plan

Done: everything in section 2. Next, in this order:

1. `CronToken` composed with `CronPool`: `crondance` as a whole, in several processes.
2. The Redis cache with its expiring lock, after a model of what it uses of Redis.

## 7. Running it

`tlc -config <run>.cfg <module>`: `MCScheduler` for the runs `Sched...`, `MCTaskRun` for
`TaskRun...`, `MCCronPool` for `CronPool`, `MCPlans` for `Plans` and `CronMonths`,
`MCSessions` for `Sessions`, `MCCache` for `Cache` and `CacheCold`. `tlapm <module>.tla`
for each module whose name ends in `Proofs`.
