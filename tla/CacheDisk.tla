------------------------------ MODULE CacheDisk ------------------------------
(***************************************************************************)
(* gluon/cache.py, CacheOnDisk: a file for each key and one for the        *)
(* statistics, used by the requests of any number of processes.            *)
(*                                                                         *)
(* A file has no name once it is removed, and lives on for those who have  *)
(* it open.  The file locks (flock) are held between a reading and the     *)
(* writing that depends on it; opening "wb" empties a file without asking. *)
(* The thread locks of PersistentStorage belong to one request's own       *)
(* instance: nobody else ever waits for them.                              *)
(***************************************************************************)
EXTENDS CacheAbstract

CONSTANTS
  Callers,       \* requests
  DiskKeys,
  Stats,         \* the key of the statistics
  MaxDiskCalls,  \* bound: calls, all requests together
  MaxDeaths      \* bound: requests that end anywhere, with their process

ASSUME DiskAssumption ==
  /\ IsFiniteSet(Callers) /\ IsFiniteSet(DiskKeys) /\ Stats \notin DiskKeys
  /\ MaxDiskCalls \in Nat /\ MaxDeaths \in Nat

Keys == DiskKeys \union {Stats}
Files == 1..(Cardinality(Keys) + Cardinality(Callers))
NoFile == 0

VARIABLES
  folder,    \* key -> the file of that name, or NoFile
  data,      \* file -> the item in it, or NoItem: nothing that can be loaded
  at,        \* caller -> where it is
  task,      \* caller -> its call: [kind, key, expire]
  file,      \* caller -> the file it has open
  held,      \* the callers that have the file lock of their file
  found,     \* caller -> the item it loaded
  retried,   \* the callers that have removed a file they could not load
  now,       \* caller -> its time
  read,      \* caller -> the time at which its f read
  stage,     \* caller -> what safe_apply is for: "hit", "miss" or "add"
  todo,      \* caller -> the keys that clear() has still to remove
  calls      \* calls so far

fileVars == <<file, held>>
selfVars == <<found, retried, now, read, stage, todo>>
ownVars == <<folder, data, at, task, fileVars, selfVars, calls>>
diskVars == <<clock, ownVars>>

NoTask == [kind |-> "none", key |-> Stats, expire |-> Never]

\* All that matters of the statistics is whether they can be loaded.
Counts == [time |-> 0, born |-> 0, added |-> 0]

DiskInit ==
  /\ clock = 0 /\ folder = [k \in Keys |-> NoFile] /\ data = [f \in Files |-> NoItem]
  /\ at = [r \in Callers |-> "idle"] /\ task = [r \in Callers |-> NoTask]
  /\ file = [r \in Callers |-> NoFile] /\ held = {}
  /\ found = [r \in Callers |-> NoItem] /\ retried = {}
  /\ now = [r \in Callers |-> 0] /\ read = [r \in Callers |-> 0]
  /\ stage = [r \in Callers |-> "hit"] /\ todo = [r \in Callers |-> {}] /\ calls = 0

Go(r, where) == at' = [at EXCEPT ![r] = where]

-----------------------------------------------------------------------------
(* Files. *)

UnlockedAlways(r) == TRUE                                                  \* mutant
\* Locks go with the open file, not with the process.
Unlocked(r) == \A q \in held : file[q] # file[r]

Unused == {f \in Files : (\A k \in Keys : folder[k] # f) /\ (\A q \in Callers : file[q] # f)}

Open(r, f) == file' = [file EXCEPT ![r] = f] /\ UNCHANGED held
Lock(r) == held' = held \union {r} /\ UNCHANGED file

LeftOpen(r) == UNCHANGED fileVars                                          \* mutant
Close(r) == file' = [file EXCEPT ![r] = NoFile] /\ held' = held \ {r}

\* open(key, "wb"): the file is made, or emptied under whoever uses it.
OpenEmpty(r, k) ==
  LET f == IF folder[k] # NoFile THEN folder[k] ELSE CHOOSE g \in Unused : TRUE IN
  /\ folder' = [folder EXCEPT ![k] = f]
  /\ data' = [data EXCEPT ![f] = NoItem]
  /\ Open(r, f)

Remove(k) == folder' = [folder EXCEPT ![k] = NoFile]

\* A call ends; with an exception the request ends too.
Leave(r, where) ==
  /\ Go(r, where)
  /\ task' = [task EXCEPT ![r] = NoTask] /\ found' = [found EXCEPT ![r] = NoItem]
  /\ retried' = retried \ {r} /\ now' = [now EXCEPT ![r] = 0] /\ read' = [read EXCEPT ![r] = 0]
  /\ stage' = [stage EXCEPT ![r] = "hit"] /\ todo' = [todo EXCEPT ![r] = {}]

Fail(r) == Leave(r, "failed") /\ file' = [file EXCEPT ![r] = NoFile] /\ held' = held \ {r}

Apply(r, s) == Go(r, "update") /\ stage' = [stage EXCEPT ![r] = s]

-----------------------------------------------------------------------------
(* __call__, clear, increment: where they begin. *)

Begin(r) ==
  /\ at[r] = "idle" /\ calls < MaxDiskCalls /\ calls' = calls + 1
  /\ \/ \E k \in DiskKeys, e \in Expires :
          /\ task' = [task EXCEPT ![r] = [kind |-> "call", key |-> k, expire |-> e]]
          /\ Go(r, "get") /\ UNCHANGED <<stage, todo>>
     \/ \E k \in DiskKeys :
          /\ task' = [task EXCEPT ![r] = [kind |-> "delete", key |-> k, expire |-> Never]]
          /\ Go(r, "get") /\ UNCHANGED <<stage, todo>>
     \/ \E k \in DiskKeys :
          /\ folder[k] # NoFile => MayAdd(data[folder[k]])
          /\ task' = [task EXCEPT ![r] = [kind |-> "increment", key |-> k, expire |-> Never]]
          /\ Apply(r, "add") /\ UNCHANGED todo
     \/ \E matched \in (SUBSET Keys) \ {{}} :
          /\ task' = [task EXCEPT ![r] = [NoTask EXCEPT !.kind = "clear"]]
          /\ todo' = [todo EXCEPT ![r] = matched]
          /\ Go(r, "clear") /\ UNCHANGED stage
  /\ UNCHANGED <<clock, folder, data, fileVars, found, retried, now, read>>

-----------------------------------------------------------------------------
(* storage.get(key), tried again once after the file was removed. *)

Get(r) ==
  LET f == folder[task[r].key] IN
  /\ at[r] = "get"
  /\ \/ f = NoFile /\ Apply(r, "hit") /\ UNCHANGED fileVars
     \/ f # NoFile /\ Open(r, f) /\ Go(r, "load") /\ UNCHANGED stage
  /\ UNCHANGED <<clock, folder, data, task, found, retried, now, read, todo, calls>>

Load(r) ==
  LET i == data[file[r]] IN
  /\ at[r] = "load" /\ Unlocked(r)
  /\ \/ /\ i # NoItem /\ Apply(r, "hit")
        /\ found' = [found EXCEPT ![r] = i]
        /\ Close(r) /\ UNCHANGED <<task, retried, now, read, todo>>
     \/ /\ i = NoItem /\ r \notin retried /\ Go(r, "heal")
        /\ Close(r) /\ UNCHANGED <<task, selfVars>>
     \/ i = NoItem /\ r \in retried /\ Fail(r)
  /\ UNCHANGED <<clock, folder, data, calls>>

\* del storage[key] raises KeyError when another request has removed the file.
Heal(r) ==
  LET k == task[r].key IN
  /\ at[r] = "heal"
  /\ \/ /\ folder[k] # NoFile /\ Remove(k)
        /\ retried' = retried \union {r} /\ Go(r, "get")
        /\ UNCHANGED <<task, fileVars, found, now, read, stage, todo>>
     \/ folder[k] = NoFile /\ Fail(r) /\ UNCHANGED folder
  /\ UNCHANGED <<clock, data, calls>>

-----------------------------------------------------------------------------
(* safe_apply: on the statistics after a get and after a computation, and by *)
(* increment.                                                                *)

Applied(r) == IF stage[r] = "add" THEN task[r].key ELSE Stats

\* open(key, "r+b"), and if that fails open(key, "wb").
Update(r) ==
  LET f == folder[Applied(r)] IN
  /\ at[r] = "update"
  /\ \/ f # NoFile /\ Open(r, f) /\ Go(r, "fetch")
     \/ f = NoFile /\ Go(r, "create") /\ UNCHANGED fileVars
  /\ UNCHANGED <<clock, folder, data, task, selfVars, calls>>

Create(r) ==
  /\ at[r] = "create"
  /\ OpenEmpty(r, Applied(r)) /\ Go(r, "wait")
  /\ UNCHANGED <<clock, task, selfVars, calls>>

\* The file that is there is loaded; one that was made starts from the default value.
Fetch(r) ==
  LET i == data[file[r]] IN
  /\ at[r] \in {"fetch", "wait"} /\ Unlocked(r)
  /\ IF at[r] = "fetch" /\ i = NoItem
     THEN Fail(r)
     ELSE /\ found' = [found EXCEPT ![r] = IF stage[r] # "add" THEN @ ELSE IF at[r] = "fetch" THEN i ELSE NoItem]
          /\ Lock(r) /\ Go(r, "write")
          /\ UNCHANGED <<task, retried, now, read, stage, todo>>
  /\ UNCHANGED <<clock, folder, data, calls>>

Write(r) ==
  /\ at[r] = "write"
  /\ data' = [data EXCEPT ![file[r]] = IF stage[r] = "add" THEN Sum(found[r]) ELSE Counts]
  /\ Close(r)
  /\ IF stage[r] = "hit" THEN Go(r, "decide") /\ UNCHANGED <<task, selfVars>> ELSE Leave(r, "idle")
  /\ UNCHANGED <<clock, folder, calls>>

-----------------------------------------------------------------------------
(* The rest of __call__, and clear. *)

\* "if item and f is None: del", where KeyError is not caught.
Delete(r) ==
  LET k == task[r].key IN
  /\ at[r] = "decide" /\ task[r].kind = "delete"
  /\ \/ found[r] = NoItem /\ Leave(r, "idle") /\ UNCHANGED <<folder, fileVars>>
     \/ found[r] # NoItem /\ folder[k] # NoFile /\ Remove(k) /\ Leave(r, "idle") /\ UNCHANGED fileVars
     \/ found[r] # NoItem /\ folder[k] = NoFile /\ Fail(r) /\ UNCHANGED folder
  /\ UNCHANGED <<clock, data, calls>>

Decide(r) ==
  /\ at[r] = "decide" /\ task[r].kind = "call"
  /\ IF Valid(found[r], clock, task[r].expire)
     THEN Leave(r, "idle")
     ELSE /\ now' = [now EXCEPT ![r] = clock] /\ Go(r, "compute")
          /\ UNCHANGED <<task, found, retried, read, stage, todo>>
  /\ UNCHANGED <<clock, folder, data, fileVars, calls>>

\* f reads, or raises.
DiskCompute(r) ==
  /\ at[r] = "compute"
  /\ \/ /\ read' = [read EXCEPT ![r] = clock] /\ Go(r, "set")
        /\ UNCHANGED <<task, found, retried, now, stage, todo>>
     \/ Leave(r, "idle")
  /\ UNCHANGED <<clock, folder, data, fileVars, calls>>

SetOpen(r) ==
  /\ at[r] = "set"
  /\ OpenEmpty(r, task[r].key) /\ Go(r, "dump")
  /\ UNCHANGED <<clock, task, selfVars, calls>>

DiskStampLate(r) == clock                                                      \* mutant
DiskStamp(r) == now[r]

SetDump(r) ==
  /\ at[r] = "dump" /\ Unlocked(r)
  /\ data' = [data EXCEPT ![file[r]] = [time |-> DiskStamp(r), born |-> read[r], added |-> 0]]
  /\ Close(r) /\ Apply(r, "miss")
  /\ UNCHANGED <<clock, folder, task, found, retried, now, read, todo, calls>>

\* Key by key; one that is gone already is passed over.
DiskClear(r) ==
  /\ at[r] = "clear"
  /\ \E k \in todo[r] :
       /\ Remove(k)
       /\ IF todo[r] = {k} THEN Leave(r, "idle")
          ELSE /\ todo' = [todo EXCEPT ![r] = @ \ {k}]
               /\ UNCHANGED <<at, task, found, retried, now, read, stage>>
  /\ UNCHANGED <<clock, data, fileVars, calls>>

\* The process ends, and its files are closed as they are.
Die(r) ==
  /\ at[r] \notin {"idle", "failed", "dead"}
  /\ Cardinality({q \in Callers : at[q] = "dead"}) < MaxDeaths
  /\ Leave(r, "dead") /\ file' = [file EXCEPT ![r] = NoFile] /\ held' = held \ {r}
  /\ UNCHANGED <<clock, folder, data, calls>>

DiskTick ==
  /\ clock < MaxTime /\ clock' = clock + 1
  /\ UNCHANGED ownVars

\* What a request does in a call without waiting for its f.
Proceed(r) ==
  \/ Get(r) \/ Load(r) \/ Heal(r) \/ Update(r) \/ Create(r) \/ Fetch(r) \/ Write(r)
  \/ Delete(r) \/ Decide(r) \/ SetOpen(r) \/ SetDump(r) \/ DiskClear(r)

DiskNext == DiskTick \/ \E r \in Callers : Begin(r) \/ Proceed(r) \/ DiskCompute(r) \/ Die(r)

\* The system runs every process, and gives a lock to those who wait for it.
DiskFairness == \A r \in Callers : WF_diskVars(Proceed(r))

DiskSpec == DiskInit /\ [][DiskNext]_diskVars /\ DiskFairness
-----------------------------------------------------------------------------
(* Properties. *)

\* Whatever other requests do to the files, a call that is answered from the disk gets
\* what f read less than time_expire ago, or since the call began to decide.
DiskFresh ==
  [][\A r \in Callers : Decide(r) /\ Valid(found[r], clock, task[r].expire) =>
       FreshEnough(found[r], clock, task[r].expire)]_diskVars

\* Of safe_apply, "safely apply a function to the value of a key": from its reading to
\* its writing nobody else writes another value (but the file may be emptied).
DiskAddsToStored ==
  [][\A r \in Callers : Write(r) /\ stage[r] = "add" /\ found[r] # NoItem =>
       data[file[r]] \in {found[r], NoItem}]_diskVars

\* f may take for ever, or wait for the thread lock of its own request, and a request may
\* die anywhere: the others' calls go on to their f or to their end.
DiskCallsEnd ==
  \A r \in Callers : at[r] # "idle" ~> at[r] \in {"idle", "compute", "failed", "dead"}

\* "Implements a key based thread/process-safe safe storage in disk": no call fails
\* because of what other requests do at the same time.
CallsAnswered == \A r \in Callers : at[r] # "failed"
=============================================================================
