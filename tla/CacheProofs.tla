----------------------------- MODULE CacheProofs -----------------------------
(* Theorems about CacheRam and CacheDisk, for any threads, requests, keys, times *)
(* of expiry and clock.                                                          *)
EXTENDS CacheRam, CacheDisk, Functions, FiniteSetTheorems, TLAPS

Item == [time : Nat, born : Nat, added : Nat]

\* What f made was read after the time it is stamped with.
Honest(i) == i # NoItem /\ i.added = 0 => i.born >= i.time
-----------------------------------------------------------------------------
(* The cache in memory. *)

RamTypes ==
  /\ clock \in Nat
  /\ storage \in [RamKeys -> Item \union {NoItem}]
  /\ doing \in [Threads -> {"idle", "look", "compute", "store", "add"}]
  /\ call \in [Threads -> [key : RamKeys \union {NoItem}, expire : Expires \union {Never},
                           now : Nat, delete : BOOLEAN]]
  /\ \A t \in Threads : doing[t] # "idle" => call[t].key \in RamKeys
  /\ item \in [Threads -> Item \union {NoItem}]
  /\ value \in [Threads -> Nat]

\* So does a call take its time before f reads.
RamTimeFirst(t) == call[t].now <= clock /\ (doing[t] = "store" => call[t].now <= value[t])
\* A thread that increments has the lock, and nobody has touched the item meanwhile.
RamGuards(t) == doing[t] = "add" => lock = t /\ storage[call[t].key] = item[t]

RamInv ==
  /\ RamTypes
  /\ \A k \in RamKeys : Honest(storage[k])
  /\ \A t \in Threads : RamTimeFirst(t) /\ RamGuards(t)

LEMMA RamInvInit == RamInit => RamInv
BY CacheAssumption DEF RamInit, RamInv, RamTypes, Honest, RamTimeFirst, RamGuards, NoCall

\* The end of a call keeps what is said of the threads, if the others keep their items.
LEMMA ReturnTypes ==
  ASSUME RamTypes, NEW t \in Threads, Return(t), clock' = clock,
         storage' \in [RamKeys -> Item \union {NoItem}]
  PROVE  RamTypes'
BY CacheAssumption DEF RamTypes, Return, NoCall

LEMMA ReturnTimes ==
  ASSUME RamInv, NEW t \in Threads, Return(t), clock' = clock, NEW u \in Threads
  PROVE  RamTimeFirst(u)'
BY DEF RamInv, RamTypes, RamTimeFirst, Return, NoCall

\* While the lock is free nobody increments, so the storage may change.
LEMMA FreeGuards ==
  ASSUME RamInv, NEW t \in Threads, Return(t), Free, lock' = lock, NEW u \in Threads
  PROVE  RamGuards(u)'
BY RamAssumption DEF RamInv, RamTypes, RamGuards, Return, Free

LEMMA LookKeeps ==
  ASSUME RamInv, NEW t \in Threads, Look(t)
  PROVE  RamInv'
<1>1. clock' = clock /\ lock' = lock /\ Free
  BY DEF Look
<1>2. CASE Return(t)
  <2>1. storage' \in [RamKeys -> Item \union {NoItem}] /\ \A k \in RamKeys : Honest(storage[k])'
    BY DEF Look, RamInv, RamTypes, Honest
  <2> QED BY <1>1, <1>2, <2>1, ReturnTypes, ReturnTimes, FreeGuards DEF RamInv
<1>3. CASE doing[t] = "look" /\ doing' = [doing EXCEPT ![t] = "compute"]
           /\ UNCHANGED <<storage, call, item, value>>
  BY <1>1, <1>3 DEF RamInv, RamTypes, Honest, RamTimeFirst, RamGuards
<1> QED BY <1>2, <1>3 DEF Look

LEMMA StoreKeeps ==
  ASSUME RamInv, NEW t \in Threads, Store(t)
  PROVE  RamInv'
<1>1. /\ doing[t] = "store" /\ Free /\ Return(t) /\ clock' = clock /\ lock' = lock
      /\ call[t].now <= value[t]
  BY DEF Store, RamInv, RamTimeFirst
<1> DEFINE made == [time |-> call[t].now, born |-> value[t], added |-> 0]
<1>2. made \in Item /\ Honest(made)
  BY <1>1 DEF RamInv, RamTypes, Item, Honest
<1>3. /\ DOMAIN storage' = RamKeys /\ storage' = [k \in RamKeys |-> storage'[k]]
      /\ \A k \in RamKeys : storage'[k] \in {NoItem, made, storage[k]}
  BY DEF Store, Stamp
<1> HIDE DEF made
<1>4. storage' \in [RamKeys -> Item \union {NoItem}] /\ \A k \in RamKeys : Honest(storage[k])'
  BY <1>2, <1>3 DEF RamInv, RamTypes, Honest
<1> QED BY <1>1, <1>4, ReturnTypes, ReturnTimes, FreeGuards DEF RamInv

\* An increment takes the lock, which no other increment has.
LEMMA IncrementKeeps ==
  ASSUME RamInv, NEW t \in Threads, Increment(t)
  PROVE  RamInv'
<1>1. PICK k \in RamKeys : /\ call' = [call EXCEPT ![t] = [NoCall EXCEPT !.key = k]]
                           /\ item' = [item EXCEPT ![t] = storage[k]]
  BY DEF Increment
<1>2. /\ doing[t] = "idle" /\ Free /\ lock' = t /\ doing' = [doing EXCEPT ![t] = "add"]
      /\ UNCHANGED <<clock, storage, value>>
  BY DEF Increment
<1>3. RamTypes'
  BY <1>1, <1>2, CacheAssumption DEF RamInv, RamTypes, NoCall
<1>4. ASSUME NEW u \in Threads PROVE RamTimeFirst(u)' /\ RamGuards(u)'
  BY <1>1, <1>2, RamAssumption DEF RamInv, RamTypes, RamTimeFirst, RamGuards, NoCall, Free
<1> QED BY <1>2, <1>3, <1>4 DEF RamInv, Honest

LEMMA AddKeeps ==
  ASSUME RamInv, NEW t \in Threads, Add(t)
  PROVE  RamInv'
<1>1. /\ doing[t] = "add" /\ lock = t /\ lock' = NoItem /\ Return(t) /\ clock' = clock
      /\ storage' = [storage EXCEPT ![call[t].key] = Sum(item[t])]
  BY DEF Add, RamInv, RamGuards
<1>2. Sum(item[t]) \in Item /\ Sum(item[t]).added # 0
  BY DEF Sum, RamInv, RamTypes, Item
<1>3. storage' \in [RamKeys -> Item \union {NoItem}] /\ \A k \in RamKeys : Honest(storage[k])'
  BY <1>1, <1>2 DEF RamInv, RamTypes, Honest
<1>4. ASSUME NEW u \in Threads PROVE RamGuards(u)'
  BY <1>1, RamAssumption DEF RamInv, RamTypes, RamGuards, Return
<1> QED BY <1>1, <1>3, <1>4, ReturnTypes, ReturnTimes DEF RamInv

\* Every step keeps the invariant.
LEMMA RamInvNext == RamInv /\ [RamNext]_ramVars => RamInv'
<1> SUFFICES ASSUME RamInv, [RamNext]_ramVars PROVE RamInv'
  OBVIOUS
<1>1. CASE UNCHANGED ramVars \/ Tick
  BY <1>1 DEF ramVars, memVars, threadVars, Tick, RamInv, RamTypes, Honest, RamTimeFirst, RamGuards
<1>2. ASSUME NEW t \in Threads, Call(t) PROVE RamInv'
  <2>1. PICK k \in RamKeys, e \in Expires, d \in BOOLEAN :
          call' = [call EXCEPT ![t] = [key |-> k, expire |-> e, now |-> clock, delete |-> d]]
    BY <1>2 DEF Call
  <2>2. /\ doing[t] = "idle" /\ doing' = [doing EXCEPT ![t] = "look"]
        /\ UNCHANGED <<clock, storage, lock, item, value>>
    BY <1>2 DEF Call
  <2> QED BY <2>1, <2>2 DEF RamInv, RamTypes, Honest, RamTimeFirst, RamGuards
<1>3. ASSUME NEW t \in Threads, Look(t) PROVE RamInv'
  BY <1>3, LookKeeps
<1>4. ASSUME NEW t \in Threads, Compute(t) PROVE RamInv'
  <2>1. /\ doing[t] = "compute" /\ UNCHANGED <<clock, storage, lock>>
    BY <1>4 DEF Compute
  <2>2. CASE Return(t)
    <3>1. ASSUME NEW u \in Threads PROVE RamGuards(u)'
      BY <2>1, <2>2 DEF RamInv, RamTypes, RamGuards, Return
    <3> QED BY <2>1, <2>2, <3>1, ReturnTypes, ReturnTimes DEF RamInv, RamTypes, Honest
  <2>3. CASE value' = [value EXCEPT ![t] = clock] /\ doing' = [doing EXCEPT ![t] = "store"]
             /\ UNCHANGED <<call, item>>
    BY <2>1, <2>3 DEF RamInv, RamTypes, Honest, RamTimeFirst, RamGuards
  <2> QED BY <1>4, <2>2, <2>3 DEF Compute
<1>5. ASSUME NEW t \in Threads, Store(t) PROVE RamInv'
  BY <1>5, StoreKeeps
<1>6. ASSUME NEW t \in Threads, Increment(t) PROVE RamInv'
  BY <1>6, IncrementKeeps
<1>7. ASSUME NEW t \in Threads, Add(t) PROVE RamInv'
  BY <1>7, AddKeeps
<1>8. ASSUME NEW t \in Threads, Clear(t) PROVE RamInv'
  <2>1. /\ doing[t] = "idle" /\ Free /\ UNCHANGED <<clock, lock, threadVars>>
        /\ \A k \in RamKeys : storage'[k] \in {NoItem, storage[k]}
        /\ storage' = [k \in RamKeys |-> storage'[k]]
    BY <1>8 DEF Clear
  <2> QED BY <2>1, RamAssumption
          DEF RamInv, RamTypes, Honest, RamTimeFirst, RamGuards, Free, threadVars
<1> QED BY <1>1, <1>2, <1>3, <1>4, <1>5, <1>6, <1>7, <1>8 DEF RamNext

LEMMA RamInvAlways == RamSpec => []RamInv
BY RamInvInit, RamInvNext, PTL DEF RamSpec

\* Two increments of one process never add to the same value, nor does a store or a clear()
\* come between the read and the write of one: CacheInRam.increment with its lock.
THEOREM AddsToStored == RamSpec => RamAddsToStored
<1>1. RamInv => (\A t \in Threads : Add(t) => storage[call[t].key] = item[t])
  BY DEF RamInv, RamGuards, Add
<1> QED BY <1>1, RamInvAlways, PTL DEF RamAddsToStored

\* However the calls of CacheInRam.__call__ overlap, what f read time_expire ago or earlier
\* answers no call: a value is stamped before f reads, so it can only look older than it is.
THEOREM FreshInRam == RamSpec => RamFresh
<1>1. RamInv => (\A t \in Threads : Look(t) /\ ~call[t].delete /\ Found(t) =>
         FreshEnough(storage[call[t].key], call[t].now, call[t].expire))
  <2> SUFFICES ASSUME RamInv, NEW t \in Threads, Look(t), Found(t)
               PROVE  FreshEnough(storage[call[t].key], call[t].now, call[t].expire)
    OBVIOUS
  <2>1. call[t].key \in RamKeys /\ storage[call[t].key] \in Item /\ Honest(storage[call[t].key])
    BY DEF RamInv, RamTypes, Look, Found, Valid
  <2>2. call[t].now \in Nat /\ call[t].expire \in Nat \union {Never}
    BY CacheAssumption DEF RamInv, RamTypes
  <2> QED BY <2>1, <2>2 DEF Found, Valid, FreshEnough, Honest, Item
<1> QED BY <1>1, RamInvAlways, PTL DEF RamFresh
-----------------------------------------------------------------------------
(* The cache on disk. *)

Kinds == {"none", "call", "delete", "increment", "clear"}
Places == {"idle", "get", "load", "heal", "update", "create", "fetch", "wait", "write", "decide",
           "compute", "set", "dump", "clear", "failed", "dead"}
\* Where a request has a file open.
Using == {"load", "fetch", "wait", "write", "dump"}

FileTypes ==
  /\ clock \in Nat
  /\ folder \in [Keys -> Files \union {NoFile}]
  /\ data \in [Files -> Item \union {NoItem}]
  /\ file \in [Callers -> Files \union {NoFile}]
  /\ held \subseteq Callers

CallTypes ==
  /\ at \in [Callers -> Places]
  /\ task \in [Callers -> [kind : Kinds, key : Keys, expire : Expires \union {Never}]]
  /\ found \in [Callers -> Item \union {NoItem}]
  /\ now \in [Callers -> Nat] /\ read \in [Callers -> Nat]
  /\ stage \in [Callers -> {"hit", "miss", "add"}]
  /\ todo \in [Callers -> SUBSET Keys]

DiskTypes == FileTypes /\ CallTypes

\* A request has a file open exactly where it uses one, and its lock where it writes.
Opened(r) == (at[r] \in Using <=> file[r] # NoFile) /\ (at[r] = "write" <=> r \in held)
\* The lock of a file is with one request.
Exclusive == \A q, r \in held : file[q] = file[r] => q = r
\* So does a call take its time before f reads.
TimeFirst(r) == /\ at[r] = "compute" => now[r] <= clock
                /\ at[r] \in {"set", "dump"} => now[r] <= read[r]
\* What a request adds to is still in the file, unless the file was emptied.
Guards(r) == at[r] = "write" /\ stage[r] = "add" /\ found[r] # NoItem =>
               data[file[r]] \in {found[r], NoItem}

DiskInv ==
  /\ DiskTypes /\ Exclusive
  /\ \A f \in Files : Honest(data[f])
  /\ \A r \in Callers : Honest(found[r]) /\ Opened(r) /\ TimeFirst(r) /\ Guards(r)

LEMMA DiskInvInit == DiskInit => DiskInv
BY CacheAssumption
   DEF DiskInit, DiskInv, DiskTypes, FileTypes, CallTypes, Exclusive, Honest, Opened, TimeFirst, Guards, NoTask, Places,
       Using, Kinds, Keys
-----------------------------------------------------------------------------
(* open(key, "wb") always has a file to make. *)

LEMMA FewValues ==
  ASSUME NEW S, IsFiniteSet(S), NEW X, NEW f \in [S -> X]
  PROVE  LET T == {f[x] : x \in S} IN IsFiniteSet(T) /\ Cardinality(T) <= Cardinality(S)
<1> DEFINE T == {f[x] : x \in S}
<1>1. f \in Surjection(S, T)
  BY DEF Surjection
<1> QED BY <1>1, FS_Surjection

LEMMA FilesCounted ==
  /\ IsFiniteSet(Files) /\ IsFiniteSet(Keys) /\ NoFile \notin Files
  /\ Cardinality(Keys) \in Nat /\ Cardinality(Callers) \in Nat
  /\ Cardinality(Files) = Cardinality(Keys) + Cardinality(Callers)
<1>1. IsFiniteSet(Keys)
  BY DiskAssumption, FS_AddElement DEF Keys
<1>2. Cardinality(Keys) \in Nat /\ Cardinality(Callers) \in Nat
  BY <1>1, DiskAssumption, FS_CardinalityType
<1>3. IsFiniteSet(Files) /\ Cardinality(Files) = Cardinality(Keys) + Cardinality(Callers)
  <2> DEFINE n == Cardinality(Keys) + Cardinality(Callers)
  <2>1. n \in Nat
    BY <1>2
  <2> HIDE DEF n
  <2>2. IsFiniteSet(1..n) /\ Cardinality(1..n) = IF 1 > n THEN 0 ELSE n - 1 + 1
    BY <2>1, FS_Interval
  <2>3. Cardinality(1..n) = n
    BY <2>1, <2>2
  <2> QED BY <2>2, <2>3 DEF Files, n
<1>4. NoFile \notin Files
  BY <1>2 DEF Files, NoFile
<1> QED BY <1>1, <1>2, <1>3, <1>4

LEMMA UnusedThere ==
  ASSUME DiskTypes, NEW r \in Callers, file[r] = NoFile
  PROVE  Unused # {}
<1> SUFFICES ASSUME Unused = {} PROVE FALSE
  OBVIOUS
<1> DEFINE Named == {folder[k] : k \in Keys}
           Others == Callers \ {r}
           theirs == [q \in Others |-> file[q]]
           Taken == {theirs[q] : q \in Others}
<1>1. IsFiniteSet(Named) /\ Cardinality(Named) <= Cardinality(Keys)
  <2>1. IsFiniteSet(Keys) /\ folder \in [Keys -> Files \union {NoFile}]
    BY FilesCounted DEF DiskTypes, FileTypes
  <2> QED BY <2>1, FewValues
<1>2. IsFiniteSet(Others) /\ Cardinality(Others) = Cardinality(Callers) - 1
  BY DiskAssumption, FS_RemoveElement
<1>3. theirs \in [Others -> Files \union {NoFile}]
  BY DEF DiskTypes, FileTypes
<1>4. IsFiniteSet(Taken) /\ Cardinality(Taken) <= Cardinality(Others)
  BY <1>2, <1>3, FewValues
<1>5. Files \subseteq Named \union Taken
  <2> SUFFICES ASSUME NEW f \in Files PROVE f \in Named \union Taken
    OBVIOUS
  <2>1. CASE \E k \in Keys : folder[k] = f
    BY <2>1
  <2>2. CASE \E q \in Callers : file[q] = f
    BY <2>2, FilesCounted
  <2> QED BY <2>1, <2>2 DEF Unused
<1> HIDE DEF Named, Taken, Others
<1>6. /\ IsFiniteSet(Named \union Taken)
      /\ Cardinality(Named \union Taken) =
           Cardinality(Named) + Cardinality(Taken) - Cardinality(Named \intersect Taken)
  BY <1>1, <1>4, FS_Union
<1>7. Cardinality(Named \intersect Taken) \in Nat
  BY <1>1, FS_Subset, FS_CardinalityType
<1>8. Cardinality(Files) <= Cardinality(Named \union Taken)
  BY <1>5, <1>6, FS_Subset
<1>9. /\ Cardinality(Named) \in Nat /\ Cardinality(Taken) \in Nat
      /\ Cardinality(Named \union Taken) \in Nat
  BY <1>1, <1>4, <1>6, FS_CardinalityType
<1> QED BY <1>1, <1>2, <1>4, <1>6, <1>7, <1>8, <1>9, FilesCounted
-----------------------------------------------------------------------------
(* One lemma per action. *)

LEMMA LeaveTypes ==
  ASSUME CallTypes, NEW r \in Callers, NEW where \in Places, Leave(r, where)
  PROVE  CallTypes'
<1>1. NoTask \in [kind : Kinds, key : Keys, expire : Expires \union {Never}]
  BY DEF NoTask, Kinds, Keys
<1> QED BY <1>1 DEF CallTypes, Leave, Go

\* A call begins: it has no file yet.
LEMMA BeginKeeps ==
  ASSUME DiskInv, NEW r \in Callers, Begin(r)
  PROVE  DiskInv'
<1>0. FileTypes'
  BY DEF DiskInv, DiskTypes, FileTypes, Begin, fileVars
<1>1. CallTypes'
  <2>1. \E j \in [kind : Kinds, key : Keys, expire : Expires \union {Never}] : task' = [task EXCEPT ![r] = j]
    BY DEF Begin, NoTask, Kinds, Keys
  <2>2. \E p \in Places : at' = [at EXCEPT ![r] = p]
    BY DEF Begin, Go, Apply, Places
  <2>3. stage' = stage \/ stage' = [stage EXCEPT ![r] = "add"]
    BY DEF Begin, Apply
  <2>4. todo' = todo \/ \E m \in SUBSET Keys : todo' = [todo EXCEPT ![r] = m]
    BY DEF Begin
  <2>5. UNCHANGED <<found, now, read>>
    BY DEF Begin
  <2> QED BY <2>1, <2>2, <2>3, <2>4, <2>5 DEF DiskInv, DiskTypes, CallTypes
<1>2. Exclusive'
  BY DEF DiskInv, Exclusive, Opened, Begin, fileVars
<1>3. \A f \in Files : Honest(data[f])'
  BY DEF DiskInv, Honest, Begin
<1>4. ASSUME NEW q \in Callers PROVE Honest(found[q])' /\ Opened(q)' /\ TimeFirst(q)'
  BY DEF DiskInv, DiskTypes, CallTypes, Honest, Opened, Using, TimeFirst, Begin, Go, Apply, fileVars
<1>5. ASSUME NEW q \in Callers PROVE Guards(q)'
  BY DEF DiskInv, DiskTypes, CallTypes, Opened, Guards, Begin, Go, Apply, fileVars
<1> QED BY <1>0, <1>1, <1>2, <1>3, <1>4, <1>5 DEF DiskInv, DiskTypes

\* The file of the name is opened.
LEMMA GetKeeps ==
  ASSUME DiskInv, NEW r \in Callers, Get(r)
  PROVE  DiskInv'
<1>0. FileTypes'
  BY DEF DiskInv, DiskTypes, FileTypes, CallTypes, Get, Open, fileVars
<1>1. CallTypes'
  BY DEF DiskInv, DiskTypes, CallTypes, Places, Get, Go, Apply
<1>2. Exclusive'
  BY DEF DiskInv, DiskTypes, FileTypes, Exclusive, Opened, Get, Open, fileVars
<1>3. \A f \in Files : Honest(data[f])'
  BY DEF DiskInv, Honest, Get
<1>4. ASSUME NEW q \in Callers PROVE Honest(found[q])' /\ Opened(q)' /\ TimeFirst(q)'
  BY DEF DiskInv, DiskTypes, FileTypes, CallTypes, Honest, Opened, Using, TimeFirst, Get, Go, Apply, Open, fileVars
<1>5. ASSUME NEW q \in Callers PROVE Guards(q)'
  BY DEF DiskInv, DiskTypes, FileTypes, CallTypes, Opened, Guards, Get, Go, Apply, Open, fileVars
<1> QED BY <1>0, <1>1, <1>2, <1>3, <1>4, <1>5 DEF DiskInv, DiskTypes

\* An item that is found was honest in its file.
LEMMA LoadKeeps ==
  ASSUME DiskInv, NEW r \in Callers, Load(r)
  PROVE  DiskInv'
<1>0. FileTypes'
  BY DEF DiskInv, DiskTypes, FileTypes, Load, Close, Fail
<1>1. CallTypes'
  <2>1. CASE Leave(r, "failed")
    BY <2>1, LeaveTypes DEF DiskInv, DiskTypes, Places
  <2>2. CASE ~Leave(r, "failed")
    <3>1. data[file[r]] \in Item \union {NoItem}
      BY DEF DiskInv, DiskTypes, FileTypes, Opened, Using, Load
    <3> QED BY <2>2, <3>1 DEF DiskInv, DiskTypes, CallTypes, Places, Load, Go, Apply, Fail, selfVars
  <2> QED BY <2>1, <2>2
<1>2. Exclusive'
  BY DEF DiskInv, DiskTypes, FileTypes, Exclusive, Opened, Load, Close, Fail
<1>3. \A f \in Files : Honest(data[f])'
  BY DEF DiskInv, Honest, Load
<1>4. ASSUME NEW q \in Callers PROVE Honest(found[q])' /\ Opened(q)' /\ TimeFirst(q)'
  BY DEF DiskInv, DiskTypes, FileTypes, CallTypes, Honest, Opened, Using, TimeFirst, Load, Go, Apply, Close, Fail, Leave, selfVars
<1>5. ASSUME NEW q \in Callers PROVE Guards(q)'
  BY FilesCounted DEF DiskInv, DiskTypes, FileTypes, CallTypes, Opened, Guards, Load, Go, Apply, Close, Fail, Leave, selfVars
<1> QED BY <1>0, <1>1, <1>2, <1>3, <1>4, <1>5 DEF DiskInv, DiskTypes

LEMMA HealKeeps ==
  ASSUME DiskInv, NEW r \in Callers, Heal(r)
  PROVE  DiskInv'
<1>0. FileTypes'
  BY DEF DiskInv, DiskTypes, FileTypes, Heal, Remove, Fail, fileVars
<1>1. CallTypes'
  <2>1. CASE Leave(r, "failed")
    BY <2>1, LeaveTypes DEF DiskInv, DiskTypes, Places
  <2>2. CASE ~Leave(r, "failed")
    BY <2>2 DEF DiskInv, DiskTypes, CallTypes, Places, Heal, Go, Fail
  <2> QED BY <2>1, <2>2
<1>2. Exclusive'
  BY DEF DiskInv, DiskTypes, FileTypes, Exclusive, Opened, Heal, Fail, fileVars
<1>3. \A f \in Files : Honest(data[f])'
  BY DEF DiskInv, Honest, Heal
<1>4. ASSUME NEW q \in Callers PROVE Honest(found[q])' /\ Opened(q)' /\ TimeFirst(q)'
  <2>1. CASE Leave(r, "failed")
    BY <2>1 DEF DiskInv, DiskTypes, FileTypes, CallTypes, Honest, Opened, Using, TimeFirst, Heal, Go, Fail, Leave
  <2>2. CASE ~Leave(r, "failed")
    BY <2>2 DEF DiskInv, DiskTypes, CallTypes, Honest, Opened, Using, TimeFirst, Heal, Go, Fail, fileVars
  <2> QED BY <2>1, <2>2
<1>5. ASSUME NEW q \in Callers PROVE Guards(q)'
  BY DEF DiskInv, DiskTypes, FileTypes, CallTypes, Opened, Guards, Heal, Go, Fail, Leave, fileVars
<1> QED BY <1>0, <1>1, <1>2, <1>3, <1>4, <1>5 DEF DiskInv, DiskTypes

LEMMA UpdateKeeps ==
  ASSUME DiskInv, NEW r \in Callers, Update(r)
  PROVE  DiskInv'
<1>0. FileTypes'
  BY DEF DiskInv, DiskTypes, FileTypes, CallTypes, Keys, Update, Open, Applied, fileVars
<1>1. CallTypes'
  BY DEF DiskInv, DiskTypes, CallTypes, Places, Update, Go, Applied, selfVars
<1>2. Exclusive'
  BY DEF DiskInv, DiskTypes, FileTypes, Exclusive, Opened, Update, Open, Applied, fileVars
<1>3. \A f \in Files : Honest(data[f])'
  BY DEF DiskInv, Honest, Update, Applied
<1>4. ASSUME NEW q \in Callers PROVE Honest(found[q])' /\ Opened(q)' /\ TimeFirst(q)'
  BY DEF DiskInv, DiskTypes, FileTypes, CallTypes, Honest, Opened, Using, TimeFirst, Update, Go, Open, Applied, fileVars, selfVars
<1>5. ASSUME NEW q \in Callers PROVE Guards(q)'
  BY DEF DiskInv, DiskTypes, FileTypes, CallTypes, Opened, Guards, Update, Go, Open, Applied, fileVars, selfVars
<1> QED BY <1>0, <1>1, <1>2, <1>3, <1>4, <1>5 DEF DiskInv, DiskTypes

\* A lock is taken only on a file whose lock is free.
LEMMA FetchKeeps ==
  ASSUME DiskInv, NEW r \in Callers, Fetch(r)
  PROVE  DiskInv'
<1>0. FileTypes'
  <2>1. Lock(r) \/ (file' = [file EXCEPT ![r] = NoFile] /\ held' = held \ {r})
    BY DEF Fetch, Fail
  <2>2. UNCHANGED <<clock, folder, data>>
    BY DEF Fetch
  <2> QED BY <2>1, <2>2 DEF DiskInv, DiskTypes, FileTypes, Lock
<1>1. CallTypes'
  <2>1. CASE Leave(r, "failed")
    BY <2>1, LeaveTypes DEF DiskInv, DiskTypes, Places
  <2>2. CASE ~Leave(r, "failed")
    <3>1. data[file[r]] \in Item \union {NoItem}
      BY DEF DiskInv, DiskTypes, FileTypes, Opened, Using, Fetch
    <3>2. PICK i \in Item \union {NoItem} : found' = [found EXCEPT ![r] = i]
      BY <2>2, <3>1 DEF Fetch, Fail, DiskInv, DiskTypes, CallTypes
    <3>3. at' = [at EXCEPT ![r] = "write"] /\ UNCHANGED <<task, now, read, stage, todo>>
      BY <2>2 DEF Fetch, Fail, Go
    <3> QED BY <3>2, <3>3 DEF DiskInv, DiskTypes, CallTypes, Places
  <2> QED BY <2>1, <2>2
<1>2. Exclusive'
  BY DEF DiskInv, DiskTypes, FileTypes, Exclusive, Opened, Fetch, Unlocked, Lock, Fail
<1>3. \A f \in Files : Honest(data[f])'
  BY DEF DiskInv, Honest, Fetch, Unlocked
<1>4. ASSUME NEW q \in Callers PROVE Honest(found[q])' /\ Opened(q)' /\ TimeFirst(q)'
  BY DEF DiskInv, DiskTypes, FileTypes, CallTypes, Honest, Opened, Using, TimeFirst, Fetch, Unlocked, Go, Lock, Fail, Leave
<1>5. ASSUME NEW q \in Callers PROVE Guards(q)'
  BY DEF DiskInv, DiskTypes, FileTypes, CallTypes, Opened, Guards, Fetch, Unlocked, Go, Lock, Fail, Leave
<1> QED BY <1>0, <1>1, <1>2, <1>3, <1>4, <1>5 DEF DiskInv, DiskTypes

\* The holder of the lock adds to an item, which is touched from then on.
LEMMA WriteKeeps ==
  ASSUME DiskInv, NEW r \in Callers, Write(r)
  PROVE  DiskInv'
<1>0. FileTypes'
  <2>1. Sum(found[r]) \in Item /\ Counts \in Item
    BY DEF DiskInv, DiskTypes, FileTypes, CallTypes, Item, Sum, Counts
  <2> QED BY <2>1 DEF DiskInv, DiskTypes, FileTypes, Write, Close
<1>1. CallTypes'
  <2>1. CASE Leave(r, "idle")
    BY <2>1, LeaveTypes DEF DiskInv, DiskTypes, Places
  <2>2. CASE ~Leave(r, "idle")
    BY <2>2 DEF DiskInv, DiskTypes, CallTypes, Places, Write, Go, selfVars
  <2> QED BY <2>1, <2>2
<1>2. Exclusive'
  BY DEF DiskInv, Exclusive, Opened, Write, Close
<1>3. \A f \in Files : Honest(data[f])'
  BY DEF DiskInv, DiskTypes, CallTypes, Honest, Item, Write, Sum, Counts
<1>4. ASSUME NEW q \in Callers PROVE Honest(found[q])' /\ Opened(q)' /\ TimeFirst(q)'
  BY DEF DiskInv, DiskTypes, FileTypes, CallTypes, Honest, Opened, Using, TimeFirst, Write, Close, Go, Leave, selfVars
<1>5. ASSUME NEW q \in Callers PROVE Guards(q)'
  BY DEF DiskInv, DiskTypes, CallTypes, Exclusive, Opened, Guards, Write, Close, Go, Leave, selfVars
<1> QED BY <1>0, <1>1, <1>2, <1>3, <1>4, <1>5 DEF DiskInv, DiskTypes

LEMMA DeleteKeeps ==
  ASSUME DiskInv, NEW r \in Callers, Delete(r)
  PROVE  DiskInv'
<1>0. FileTypes'
  BY DEF DiskInv, DiskTypes, FileTypes, Delete, Remove, Fail, fileVars
<1>1. CallTypes'
  <2>1. CASE Leave(r, "idle") \/ Leave(r, "failed")
    BY <2>1, LeaveTypes DEF DiskInv, DiskTypes, Places
  <2>2. CASE ~Leave(r, "idle") /\ ~Leave(r, "failed")
    BY <2>2 DEF DiskInv, Delete, Fail
  <2> QED BY <2>1, <2>2
<1>2. Exclusive'
  BY DEF DiskInv, DiskTypes, FileTypes, Exclusive, Opened, Delete, Fail, fileVars
<1>3. \A f \in Files : Honest(data[f])'
  BY DEF DiskInv, Honest, Delete
<1>4. ASSUME NEW q \in Callers PROVE Honest(found[q])' /\ Opened(q)' /\ TimeFirst(q)'
  BY DEF DiskInv, DiskTypes, FileTypes, CallTypes, Honest, Opened, Using, TimeFirst, Delete, Go, Fail, Leave, fileVars
<1>5. ASSUME NEW q \in Callers PROVE Guards(q)'
  BY DEF DiskInv, DiskTypes, FileTypes, CallTypes, Opened, Guards, Delete, Go, Fail, Leave, fileVars
<1> QED BY <1>0, <1>1, <1>2, <1>3, <1>4, <1>5 DEF DiskInv, DiskTypes

\* The time of the call is taken,
LEMMA DecideKeeps ==
  ASSUME DiskInv, NEW r \in Callers, Decide(r)
  PROVE  DiskInv'
<1>0. FileTypes'
  BY DEF DiskInv, DiskTypes, FileTypes, Decide, fileVars
<1>1. CallTypes'
  <2>1. CASE Leave(r, "idle")
    BY <2>1, LeaveTypes DEF DiskInv, DiskTypes, Places
  <2>2. CASE ~Leave(r, "idle")
    BY <2>2 DEF DiskInv, DiskTypes, FileTypes, CallTypes, Item, Places, Decide, Go, fileVars
  <2> QED BY <2>1, <2>2
<1>2. Exclusive'
  BY DEF DiskInv, Exclusive, Opened, Decide, fileVars
<1>3. \A f \in Files : Honest(data[f])'
  BY DEF DiskInv, Honest, Decide
<1>4. ASSUME NEW q \in Callers PROVE Honest(found[q])' /\ Opened(q)' /\ TimeFirst(q)'
  BY FilesCounted DEF DiskInv, DiskTypes, FileTypes, CallTypes, Honest, Opened, Using, TimeFirst, Decide, Go, Leave, fileVars
<1>5. ASSUME NEW q \in Callers PROVE Guards(q)'
  BY DEF DiskInv, DiskTypes, CallTypes, Opened, Using, Guards, Decide, Go, Leave, fileVars
<1> QED BY <1>0, <1>1, <1>2, <1>3, <1>4, <1>5 DEF DiskInv, DiskTypes

\* then f reads,
LEMMA DiskComputeKeeps ==
  ASSUME DiskInv, NEW r \in Callers, DiskCompute(r)
  PROVE  DiskInv'
<1>0. FileTypes'
  BY DEF DiskInv, DiskTypes, FileTypes, DiskCompute, fileVars
<1>1. CallTypes'
  <2>1. CASE Leave(r, "idle")
    BY <2>1, LeaveTypes DEF DiskInv, DiskTypes, Places
  <2>2. CASE ~Leave(r, "idle")
    <3>1. /\ read' = [read EXCEPT ![r] = clock] /\ at' = [at EXCEPT ![r] = "set"] /\ clock \in Nat
          /\ UNCHANGED <<task, found, now, stage, todo>>
      BY <2>2 DEF DiskCompute, Go, DiskInv, DiskTypes, FileTypes
    <3> QED BY <3>1 DEF DiskInv, DiskTypes, CallTypes, Places
  <2> QED BY <2>1, <2>2
<1>2. Exclusive'
  BY DEF DiskInv, Exclusive, Opened, DiskCompute, fileVars
<1>3. \A f \in Files : Honest(data[f])'
  BY DEF DiskInv, Honest, DiskCompute
<1>4. ASSUME NEW q \in Callers PROVE Honest(found[q])' /\ Opened(q)' /\ TimeFirst(q)'
  BY DEF DiskInv, DiskTypes, CallTypes, Honest, Opened, Using, TimeFirst, DiskCompute, Go, Leave, NoTask, fileVars
<1>5. ASSUME NEW q \in Callers PROVE Guards(q)'
  BY DEF DiskInv, DiskTypes, CallTypes, Opened, Guards, DiskCompute, Go, Leave, fileVars
<1> QED BY <1>0, <1>1, <1>2, <1>3, <1>4, <1>5 DEF DiskInv, DiskTypes

\* then the value is stamped, in a file whose lock is free.
LEMMA SetDumpKeeps ==
  ASSUME DiskInv, NEW r \in Callers, SetDump(r)
  PROVE  DiskInv'
<1>0. FileTypes'
  BY DEF DiskInv, DiskTypes, FileTypes, CallTypes, Item, SetDump, Unlocked, Close, DiskStamp
<1>1. CallTypes'
  BY DEF DiskInv, DiskTypes, CallTypes, Places, SetDump, Unlocked, Go, Apply, DiskStamp
<1>2. Exclusive'
  BY DEF DiskInv, Exclusive, Opened, SetDump, Unlocked, Close, DiskStamp
<1>3. \A f \in Files : Honest(data[f])'
  BY DEF DiskInv, Honest, TimeFirst, SetDump, Unlocked, DiskStamp
<1>4. ASSUME NEW q \in Callers PROVE Honest(found[q])' /\ Opened(q)' /\ TimeFirst(q)'
  BY DEF DiskInv, DiskTypes, FileTypes, CallTypes, Honest, Opened, Using, TimeFirst, SetDump, Unlocked, Close, Go, Apply, DiskStamp
<1>5. ASSUME NEW q \in Callers PROVE Guards(q)'
  BY DEF DiskInv, Opened, Guards, SetDump, Unlocked, Close, Go, Apply, DiskStamp
<1> QED BY <1>0, <1>1, <1>2, <1>3, <1>4, <1>5 DEF DiskInv, DiskTypes

LEMMA DiskClearKeeps ==
  ASSUME DiskInv, NEW r \in Callers, DiskClear(r)
  PROVE  DiskInv'
<1>0. FileTypes'
  BY DEF DiskInv, DiskTypes, FileTypes, DiskClear, Remove, fileVars
<1>1. CallTypes'
  <2>1. CASE Leave(r, "idle")
    BY <2>1, LeaveTypes DEF DiskInv, DiskTypes, Places
  <2>2. CASE ~Leave(r, "idle")
    BY <2>2 DEF DiskInv, DiskTypes, CallTypes, DiskClear
  <2> QED BY <2>1, <2>2
<1>2. Exclusive'
  BY DEF DiskInv, Exclusive, Opened, DiskClear, fileVars
<1>3. \A f \in Files : Honest(data[f])'
  BY DEF DiskInv, Honest, DiskClear
<1>4. ASSUME NEW q \in Callers PROVE Honest(found[q])' /\ Opened(q)' /\ TimeFirst(q)'
  BY DEF DiskInv, DiskTypes, CallTypes, Honest, Opened, Using, TimeFirst, DiskClear, Go, Leave, fileVars
<1>5. ASSUME NEW q \in Callers PROVE Guards(q)'
  BY DEF DiskInv, DiskTypes, CallTypes, Exclusive, Opened, Guards, DiskClear, Go, Leave, fileVars
<1> QED BY <1>0, <1>1, <1>2, <1>3, <1>4, <1>5 DEF DiskInv, DiskTypes

LEMMA DieKeeps ==
  ASSUME DiskInv, NEW r \in Callers, Die(r)
  PROVE  DiskInv'
<1>0. FileTypes'
  BY DEF DiskInv, DiskTypes, FileTypes, Die
<1>1. CallTypes'
  <2>1. CASE Leave(r, "dead")
    BY <2>1, LeaveTypes DEF DiskInv, DiskTypes, Places
  <2>2. CASE ~Leave(r, "dead")
    BY <2>2 DEF DiskInv, Die
  <2> QED BY <2>1, <2>2
<1>2. Exclusive'
  BY DEF DiskInv, Exclusive, Opened, Die
<1>3. \A f \in Files : Honest(data[f])'
  BY DEF DiskInv, Honest, Die
<1>4. ASSUME NEW q \in Callers PROVE Honest(found[q])' /\ Opened(q)' /\ TimeFirst(q)'
  BY DEF DiskInv, DiskTypes, FileTypes, CallTypes, Honest, Opened, Using, TimeFirst, Die, Go, Leave
<1>5. ASSUME NEW q \in Callers PROVE Guards(q)'
  BY DEF DiskInv, DiskTypes, CallTypes, Opened, Guards, Die, Go, Leave
<1> QED BY <1>0, <1>1, <1>2, <1>3, <1>4, <1>5 DEF DiskInv, DiskTypes

\* Opening "wb" leaves nothing in a file, whoever uses it.
LEMMA OpenEmptyKeeps ==
  ASSUME DiskInv, NEW r \in Callers, NEW k \in Keys, OpenEmpty(r, k), file[r] = NoFile,
         NEW p \in {"wait", "dump"}, Go(r, p), at[r] \in {"create", "set"},
         p = "dump" => at[r] = "set", UNCHANGED <<clock, task, selfVars>>
  PROVE  DiskInv'
<1>1. PICK f \in Files : /\ folder' = [folder EXCEPT ![k] = f]
                         /\ data' = [data EXCEPT ![f] = NoItem]
                         /\ file' = [file EXCEPT ![r] = f] /\ held' = held
  <2>1. (CHOOSE g \in Unused : TRUE) \in Files
    BY UnusedThere DEF DiskInv, Unused
  <2>2. folder[k] # NoFile => folder[k] \in Files
    BY DEF DiskInv, DiskTypes, FileTypes
  <2> QED BY <2>1, <2>2 DEF OpenEmpty, Open
<1>2. /\ at' = [at EXCEPT ![r] = p] /\ f # NoFile /\ r \notin held
      /\ UNCHANGED <<clock, task, found, now, read, stage, todo>>
  BY FilesCounted DEF Go, selfVars, DiskInv, Opened
<1>3. FileTypes'
  BY <1>1, <1>2 DEF DiskInv, DiskTypes, FileTypes
<1>4. CallTypes'
  BY <1>2 DEF DiskInv, DiskTypes, CallTypes, Places
<1>5. Exclusive'
  BY <1>1, <1>2 DEF DiskInv, Exclusive
<1>6. \A g \in Files : Honest(data[g])'
  BY <1>1 DEF DiskInv, Honest
<1>7. ASSUME NEW q \in Callers PROVE Honest(found[q])' /\ Opened(q)' /\ TimeFirst(q)'
  BY <1>1, <1>2 DEF DiskInv, DiskTypes, FileTypes, CallTypes, Honest, Opened, Using, TimeFirst
<1>8. ASSUME NEW q \in Callers PROVE Guards(q)'
  BY <1>1, <1>2 DEF DiskInv, Opened, Guards
<1> QED BY <1>3, <1>4, <1>5, <1>6, <1>7, <1>8 DEF DiskInv, DiskTypes

LEMMA CreateKeeps ==
  ASSUME DiskInv, NEW r \in Callers, Create(r) \/ SetOpen(r)
  PROVE  DiskInv'
<1>1. task[r].key \in Keys /\ Applied(r) \in Keys
  BY DEF DiskInv, DiskTypes, CallTypes, Applied, Keys
<1>2. at[r] \in {"create", "set"} /\ file[r] = NoFile
  BY DEF Create, SetOpen, DiskInv, Opened, Using
<1>3. CASE Create(r)
  <2>1. OpenEmpty(r, Applied(r)) /\ Go(r, "wait") /\ UNCHANGED <<clock, task, selfVars>>
    BY <1>3 DEF Create
  <2> QED BY <1>1, <1>2, <2>1, OpenEmptyKeeps
<1>4. CASE SetOpen(r)
  <2>1. OpenEmpty(r, task[r].key) /\ Go(r, "dump") /\ UNCHANGED <<clock, task, selfVars>> /\ at[r] = "set"
    BY <1>4 DEF SetOpen
  <2> QED BY <1>1, <1>2, <2>1, OpenEmptyKeeps
<1> QED BY <1>3, <1>4

-----------------------------------------------------------------------------
LEMMA DiskInvNext == DiskInv /\ [DiskNext]_diskVars => DiskInv'
<1> SUFFICES ASSUME DiskInv, [DiskNext]_diskVars PROVE DiskInv'
  OBVIOUS
<1>1. CASE UNCHANGED diskVars \/ DiskTick
  BY <1>1 DEF diskVars, ownVars, fileVars, selfVars, DiskTick, DiskInv, DiskTypes, FileTypes,
              CallTypes, Exclusive, Honest, Opened, TimeFirst, Guards
<1>2. ASSUME NEW r \in Callers, Begin(r) \/ DiskCompute(r) \/ Die(r) PROVE DiskInv'
  BY <1>2, BeginKeeps, DiskComputeKeeps, DieKeeps
<1>3. ASSUME NEW r \in Callers, Proceed(r) PROVE DiskInv'
  BY <1>3, GetKeeps, LoadKeeps, HealKeeps, UpdateKeeps, CreateKeeps, FetchKeeps, WriteKeeps,
     DeleteKeeps, DecideKeeps, SetDumpKeeps, DiskClearKeeps DEF Proceed
<1> QED BY <1>1, <1>2, <1>3 DEF DiskNext

LEMMA DiskInvAlways == DiskSpec => []DiskInv
BY DiskInvInit, DiskInvNext, PTL DEF DiskSpec

\* Whatever other requests remove, empty or write, what f read time_expire ago or earlier
\* answers no call of CacheOnDisk.__call__.
THEOREM FreshOnDisk == DiskSpec => DiskFresh
<1>1. DiskInv => (\A r \in Callers : Decide(r) /\ Valid(found[r], clock, task[r].expire) =>
         FreshEnough(found[r], clock, task[r].expire))
  <2> SUFFICES ASSUME DiskInv, NEW r \in Callers, Valid(found[r], clock, task[r].expire)
               PROVE  FreshEnough(found[r], clock, task[r].expire)
    OBVIOUS
  <2>1. found[r] \in Item /\ Honest(found[r])
    BY DEF DiskInv, DiskTypes, CallTypes, Valid
  <2>2. clock \in Nat /\ task[r].expire \in Nat \union {Never}
    BY CacheAssumption DEF DiskInv, DiskTypes, FileTypes, CallTypes
  <2> QED BY <2>1, <2>2 DEF Valid, FreshEnough, Honest, Item
<1> QED BY <1>1, DiskInvAlways, PTL DEF DiskFresh

\* The file lock that safe_apply holds from its reading to its writing excludes every other
\* writer, in this process or another: an increment adds to what is there.
THEOREM AddsToStoredOnDisk == DiskSpec => DiskAddsToStored
<1>1. DiskInv => (\A r \in Callers : Write(r) /\ stage[r] = "add" /\ found[r] # NoItem =>
         data[file[r]] \in {found[r], NoItem})
  BY DEF DiskInv, Guards, Write
<1> QED BY <1>1, DiskInvAlways, PTL DEF DiskAddsToStored
-----------------------------------------------------------------------------
(* Why a call ends. *)

Flocked == {"load", "fetch", "wait", "dump"}

\* Who waits for the lock of its file waits for a request that is about to write that
\* file, and nobody has a file open, let alone locked, while its f runs: no two requests
\* wait for each other, and none waits for another's f.
WaitForWriters ==
  \A r \in Callers :
    /\ at[r] \in Flocked /\ ~Unlocked(r) =>
         \E q \in Callers : q # r /\ at[q] = "write" /\ file[q] = file[r] /\ file[r] # NoFile
    /\ at[r] = "compute" => file[r] = NoFile /\ r \notin held

\* With the locks of CacheOnDisk no circle of requests can come about, however many there
\* are: the locks are taken where the next thing done is to write and release.
THEOREM NoCircle == DiskSpec => []WaitForWriters
<1>1. DiskInv => WaitForWriters
  <2> SUFFICES ASSUME DiskInv, NEW r \in Callers
               PROVE  /\ at[r] \in Flocked /\ ~Unlocked(r) =>
                           \E q \in Callers : /\ q # r /\ at[q] = "write"
                                              /\ file[q] = file[r] /\ file[r] # NoFile
                      /\ at[r] = "compute" => file[r] = NoFile /\ r \notin held
    BY DEF WaitForWriters
  <2>1. held \subseteq Callers /\ \A q \in Callers : Opened(q)
    BY DEF DiskInv, DiskTypes, FileTypes
  <2>2. CASE at[r] \in Flocked /\ ~Unlocked(r)
    <3>1. PICK q \in held : file[q] = file[r]
      BY <2>2 DEF Unlocked
    <3> QED BY <2>1, <2>2, <3>1 DEF Opened, Using, Flocked
  <2> QED BY <2>1, <2>2 DEF Opened, Using
<1> QED BY <1>1, DiskInvAlways, PTL

\* How many steps a call has before it at most, where it is; those of its f are not counted.
Left(r) ==
  LET hit == stage[r] = "hit"
      again == r \in retried
  IN  CASE at[r] = "get"              -> IF again THEN 14 ELSE 17
        [] at[r] = "load"             -> IF again THEN 13 ELSE 16
        [] at[r] = "heal"             -> 15
        [] at[r] = "update"           -> IF hit THEN 12 ELSE 4
        [] at[r] = "create"           -> IF hit THEN 11 ELSE 3
        [] at[r] \in {"fetch", "wait"} -> IF hit THEN 10 ELSE 2
        [] at[r] = "write"            -> IF hit THEN 9 ELSE 1
        [] at[r] = "decide"           -> 8
        [] at[r] = "compute"          -> 7
        [] at[r] = "set"              -> 6
        [] at[r] = "dump"             -> 5
        [] at[r] = "clear"            -> Cardinality(todo[r])
        [] OTHER                      -> 0

\* Each step of a call brings it nearer to its end, whatever the others have done to its
\* file, and no step of the others sends it back: a file that cannot be loaded is removed
\* and tried again once, never in a circle.
Shrinks ==
  \A r \in Callers :
    /\ Left(r) \in Nat
    /\ Proceed(r) \/ DiskCompute(r) => Left(r)' < Left(r)
    /\ ~Begin(r) => Left(r)' <= Left(r)
CallsShrink == [][Shrinks]_diskVars

\* The others' calls do not move r.
Same(r) == /\ at'[r] = at[r] /\ stage'[r] = stage[r] /\ todo'[r] = todo[r]
           /\ (r \in retried' <=> r \in retried)

LEMMA SameLeft ==
  ASSUME NEW r \in Callers, Same(r)
  PROVE  Left(r)' = Left(r)
BY DEF Same, Left

LEMMA LeftNatural ==
  ASSUME DiskInv, NEW r \in Callers
  PROVE  Left(r) \in Nat /\ IsFiniteSet(todo[r]) /\ Cardinality(todo[r]) \in Nat
<1>1. IsFiniteSet(todo[r])
  BY FilesCounted, FS_Subset DEF DiskInv, DiskTypes, CallTypes
<1>2. Cardinality(todo[r]) \in Nat
  BY <1>1, FS_CardinalityType
<1> QED BY <1>1, <1>2 DEF Left

LEMMA LeftNaturalNext ==
  ASSUME DiskInv', NEW r \in Callers
  PROVE  Left(r)' \in Nat
<1>1. IsFiniteSet(todo'[r])
  BY FilesCounted, FS_Subset DEF DiskInv, DiskTypes, CallTypes
<1>2. Cardinality(todo'[r]) \in Nat
  BY <1>1, FS_CardinalityType
<1> QED BY <1>1, <1>2 DEF Left

LEMMA OthersSame ==
  ASSUME DiskInv, NEW r \in Callers, NEW q \in Callers, q # r,
         Begin(r) \/ Proceed(r) \/ DiskCompute(r) \/ Die(r)
  PROVE  Same(q)
<1> USE DEF Same, DiskInv, DiskTypes, CallTypes, Go, Apply, Leave, Fail, selfVars
<1>1. CASE Begin(r)
  BY <1>1 DEF Begin
<1>2. CASE DiskCompute(r) \/ Die(r)
  BY <1>2 DEF DiskCompute, Die
<1>3. CASE Get(r) \/ Load(r) \/ Heal(r)
  BY <1>3 DEF Get, Load, Heal
<1>4. CASE Update(r) \/ Create(r) \/ Fetch(r) \/ Write(r)
  BY <1>4 DEF Update, Create, Fetch, Write
<1>5. CASE Delete(r) \/ Decide(r) \/ SetOpen(r) \/ SetDump(r)
  BY <1>5 DEF Delete, Decide, SetOpen, SetDump
<1>6. CASE DiskClear(r)
  BY <1>6 DEF DiskClear
<1> QED BY <1>1, <1>2, <1>3, <1>4, <1>5, <1>6 DEF Proceed

LEMMA StepShrinks ==
  ASSUME DiskInv, NEW r \in Callers, Proceed(r) \/ DiskCompute(r)
  PROVE  Left(r)' < Left(r)
<1> USE DEF DiskInv, DiskTypes, CallTypes, Go, Apply, Leave, Fail, selfVars, Left
<1>1. CASE DiskCompute(r)
  BY <1>1 DEF DiskCompute
<1>2. CASE Get(r) \/ Load(r) \/ Heal(r)
  BY <1>2 DEF Get, Load, Heal
<1>3. CASE Update(r) \/ Create(r) \/ Fetch(r) \/ Write(r)
  BY <1>3 DEF Update, Create, Fetch, Write
<1>4. CASE Delete(r) \/ Decide(r) \/ SetOpen(r) \/ SetDump(r)
  BY <1>4 DEF Delete, Decide, SetOpen, SetDump
<1>5. CASE DiskClear(r)
  <2>1. PICK k \in todo[r] : \/ todo[r] = {k} /\ Leave(r, "idle")
                            \/ /\ todo' = [todo EXCEPT ![r] = @ \ {k}]
                               /\ UNCHANGED <<at, stage, retried>>
    BY <1>5 DEF DiskClear
  <2>2. /\ IsFiniteSet(todo[r]) /\ Cardinality(todo[r]) \in Nat
        /\ Cardinality(todo[r] \ {k}) = Cardinality(todo[r]) - 1
    BY <2>1, LeftNatural, FS_RemoveElement
  <2>3. CASE todo[r] = {k} /\ Leave(r, "idle")
    <3>1. Cardinality(todo[r]) = 1
      BY <2>3, FS_Singleton
    <3> QED BY <1>5, <2>3, <3>1 DEF DiskClear
  <2>4. CASE todo' = [todo EXCEPT ![r] = @ \ {k}] /\ UNCHANGED <<at, stage, retried>>
    <3>1. Left(r) = Cardinality(todo[r]) /\ Left(r)' = Cardinality(todo[r] \ {k})
      BY <1>5, <2>4 DEF DiskClear
    <3> QED BY <2>2, <3>1
  <2> QED BY <2>1, <2>3, <2>4
<1> QED BY <1>1, <1>2, <1>3, <1>4, <1>5 DEF Proceed

\* A call of CacheOnDisk takes at most seventeen steps besides those of f, clear() at most
\* one for each key, whatever other requests and processes do at the same time.
THEOREM BoundedCalls == DiskSpec => CallsShrink
<1>1. DiskInv /\ [DiskNext]_diskVars => Shrinks \/ UNCHANGED diskVars
  <2> SUFFICES ASSUME DiskInv, DiskNext, NEW r \in Callers
               PROVE  /\ Left(r) \in Nat
                      /\ Proceed(r) \/ DiskCompute(r) => Left(r)' < Left(r)
                      /\ ~Begin(r) => Left(r)' <= Left(r)
    BY DEF Shrinks
  <2>1. Left(r) \in Nat
    BY LeftNatural
  <2> Left(r)' \in Nat
    BY DiskInvNext, LeftNaturalNext
  <2>2. CASE Proceed(r) \/ DiskCompute(r)
    <3>1. Left(r)' < Left(r)
      BY <2>2, StepShrinks
    <3> QED BY <2>1, <3>1
  <2>3. CASE Die(r) /\ ~(Proceed(r) \/ DiskCompute(r))
    <3>1. Left(r)' = 0
      BY <2>3 DEF Die, Leave, Go, Left, DiskInv, DiskTypes, CallTypes
    <3> QED BY <2>1, <2>3, <3>1
  <2>4. CASE ~(Proceed(r) \/ DiskCompute(r) \/ Die(r)) /\ ~Begin(r)
    <3>1. Same(r)
      <4>1. CASE DiskTick
        BY <4>1 DEF DiskTick, ownVars, selfVars, Same
      <4>2. ASSUME NEW q \in Callers, Begin(q) \/ Proceed(q) \/ DiskCompute(q) \/ Die(q)
            PROVE  Same(r)
        BY <2>4, <4>2, OthersSame
      <4> QED BY <4>1, <4>2 DEF DiskNext
    <3> QED BY <2>1, <2>4, <3>1, SameLeft
  <2> QED BY <2>1, <2>2, <2>3, <2>4
<1> QED BY <1>1, DiskInvAlways, PTL DEF CallsShrink, DiskSpec
=============================================================================
