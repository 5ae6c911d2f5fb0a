---------------------------- MODULE CacheAbstract ----------------------------
(***************************************************************************)
(* gluon/cache.py: what CacheInRam and CacheOnDisk share.                  *)
(*                                                                         *)
(* A stored item is its time stamp, the time at which f read what the      *)
(* value is made of, and how often increment() added to the value since.   *)
(***************************************************************************)
EXTENDS Integers, FiniteSets

CONSTANTS
  Expires,   \* values of time_expire
  Never,     \* time_expire = None
  MaxTime,   \* bound: the clock
  MaxAdded,  \* bound: increments of one value
  NoItem

ASSUME CacheAssumption ==
  Expires \subseteq Nat \union {Never} /\ Never \notin Nat /\ MaxTime \in Nat /\ MaxAdded \in Nat

VARIABLE clock

\* The item a call finds is returned, or f is called.
Valid(i, now, expire) == i # NoItem /\ (expire # Never => i.time > now - expire)

\* increment(): the sum has the time of now, however old the value is.
Sum(i) ==
  [time  |-> clock,
   born  |-> IF i = NoItem THEN clock ELSE i.born,
   added |-> IF i = NoItem THEN 1 ELSE i.added + 1]

MayAdd(i) == i # NoItem => i.added < MaxAdded

\* "It's used to compare the current time with the time when the requested object was
\* last saved in cache": what f made is not used when it read too long ago.  What
\* increment() touched counts as new.
FreshEnough(i, now, expire) ==
  i.added = 0 /\ expire # Never => i.born >= now \/ i.born > now - expire
=============================================================================
