------------------------------ MODULE CacheRam ------------------------------
(***************************************************************************)
(* gluon/cache.py, CacheInRam: one dictionary for the threads of a process *)
(* and one lock, which is free while the cached function f runs.           *)
(***************************************************************************)
EXTENDS CacheAbstract

CONSTANTS
  Threads,
  RamKeys,
  Evicting     \* max_ram_utilization is set

ASSUME RamAssumption == NoItem \notin Threads /\ Evicting \in BOOLEAN

VARIABLES
  storage,   \* key -> item, or NoItem
  lock,      \* the thread that has the lock, or NoItem
  doing,     \* thread -> "idle", "look", "compute", "store", "add"
  call,      \* thread -> its call: [key, expire, now, delete]
  item,      \* thread -> what it found in the storage
  value      \* thread -> the time at which its f read

threadVars == <<doing, call, item, value>>
memVars == <<storage, lock, threadVars>>
ramVars == <<clock, memVars>>

NoCall == [key |-> NoItem, expire |-> Never, now |-> 0, delete |-> FALSE]

RamInit ==
  /\ clock = 0 /\ storage = [k \in RamKeys |-> NoItem] /\ lock = NoItem
  /\ doing = [t \in Threads |-> "idle"] /\ call = [t \in Threads |-> NoCall]
  /\ item = [t \in Threads |-> NoItem] /\ value = [t \in Threads |-> 0]

FreeAlways == TRUE                        \* mutant
Free == lock = NoItem

\* The call returns; its local variables are gone.
Return(t) ==
  /\ doing' = [doing EXCEPT ![t] = "idle"] /\ call' = [call EXCEPT ![t] = NoCall]
  /\ item' = [item EXCEPT ![t] = NoItem] /\ value' = [value EXCEPT ![t] = 0]

\* __call__ takes the time first; f = None deletes.
Call(t) ==
  /\ doing[t] = "idle"
  /\ \E k \in RamKeys, e \in Expires, d \in BOOLEAN :
       call' = [call EXCEPT ![t] = [key |-> k, expire |-> e, now |-> clock, delete |-> d]]
  /\ doing' = [doing EXCEPT ![t] = "look"]
  /\ UNCHANGED <<clock, storage, lock, item, value>>

Found(t) == Valid(storage[call[t].key], call[t].now, call[t].expire)

Look(t) ==
  LET k == call[t].key IN
  /\ doing[t] = "look" /\ Free
  /\ \/ /\ call[t].delete
        /\ storage' = [storage EXCEPT ![k] = NoItem]
        /\ Return(t)
     \/ /\ ~call[t].delete /\ Found(t)
        /\ Return(t) /\ UNCHANGED storage
     \/ /\ ~call[t].delete /\ ~Found(t)
        /\ doing' = [doing EXCEPT ![t] = "compute"]
        /\ UNCHANGED <<storage, call, item, value>>
  /\ UNCHANGED <<clock, lock>>

\* f reads, or raises.
Compute(t) ==
  /\ doing[t] = "compute"
  /\ \/ /\ value' = [value EXCEPT ![t] = clock]
        /\ doing' = [doing EXCEPT ![t] = "store"]
        /\ UNCHANGED <<call, item>>
     \/ Return(t)
  /\ UNCHANGED <<clock, storage, lock>>

StampLate(t) == clock                                       \* mutant
\* The value is as old as the call.
Stamp(t) == call[t].now

\* remove_oldest_entries may take any of the entries away.
Store(t) ==
  /\ doing[t] = "store" /\ Free
  /\ \E gone \in IF Evicting THEN SUBSET RamKeys ELSE {{}} :
       storage' = [k \in RamKeys |->
                     IF k \in gone THEN NoItem
                     ELSE IF k = call[t].key
                          THEN [time |-> Stamp(t), born |-> value[t], added |-> 0]
                          ELSE storage[k]]
  /\ Return(t)
  /\ UNCHANGED <<clock, lock>>

Increment(t) ==
  /\ doing[t] = "idle" /\ Free
  /\ \E k \in RamKeys :
       /\ MayAdd(storage[k])
       /\ call' = [call EXCEPT ![t] = [NoCall EXCEPT !.key = k]]
       /\ item' = [item EXCEPT ![t] = storage[k]]
  /\ lock' = t
  /\ doing' = [doing EXCEPT ![t] = "add"]
  /\ UNCHANGED <<clock, storage, value>>

Add(t) ==
  /\ doing[t] = "add"
  /\ storage' = [storage EXCEPT ![call[t].key] = Sum(item[t])]
  /\ lock' = NoItem
  /\ Return(t)
  /\ UNCHANGED clock

Clear(t) ==
  /\ doing[t] = "idle" /\ Free
  /\ \E matched \in SUBSET RamKeys :
       storage' = [k \in RamKeys |-> IF k \in matched THEN NoItem ELSE storage[k]]
  /\ UNCHANGED <<clock, lock, threadVars>>

Tick == clock < MaxTime /\ clock' = clock + 1 /\ UNCHANGED memVars

RamNext == Tick \/ \E t \in Threads :
  Call(t) \/ Look(t) \/ Compute(t) \/ Store(t) \/ Increment(t) \/ Add(t) \/ Clear(t)

RamSpec == RamInit /\ [][RamNext]_ramVars
-----------------------------------------------------------------------------
(* Properties. *)

\* Whoever else computes, stores, adds or clears meanwhile, a call that is answered from
\* the cache gets what f read less than time_expire before the call, or during it.
RamFresh ==
  [][\A t \in Threads : Look(t) /\ ~call[t].delete /\ Found(t) =>
       FreshEnough(storage[call[t].key], call[t].now, call[t].expire)]_ramVars

\* "A mutex-lock mechanism avoid conflicts": an increment adds to what is stored.
RamAddsToStored ==
  [][\A t \in Threads : Add(t) => storage[call[t].key] = item[t]]_ramVars
=============================================================================
