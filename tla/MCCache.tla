------------------------------- MODULE MCCache -------------------------------
(* Instances of CacheRam and CacheDisk for TLC: a behaviour is one of either,   *)
(* with the same clock.                                                         *)
EXTENDS CacheRam, CacheDisk

Memoryless == /\ \A k \in RamKeys : storage[k] = NoItem
              /\ \A t \in Threads : doing[t] = "idle"

Init == RamInit /\ DiskInit
Next == \/ calls = 0 /\ RamNext /\ UNCHANGED ownVars
        \/ Memoryless /\ DiskNext /\ UNCHANGED memVars
Spec == Init /\ [][Next]_<<clock, memVars, ownVars>> /\ DiskFairness
=============================================================================
