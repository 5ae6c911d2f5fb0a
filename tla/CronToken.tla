----------------------------- MODULE CronToken -----------------------------
(***************************************************************************)
(* gluon/newcron.py, Token, as crondance uses it: the crondances of any    *)
(* number of processes share cron.master, a file with the start of the     *)
(* last dance and, when it is over, its end.                               *)
(***************************************************************************)
EXTENDS Integers, FiniteSets

CONSTANTS
  Dances,    \* calls of crondance
  LockTime,  \* the least time from one start to the next
  LastTime,  \* bound: the clock, which starts at LockTime
  MaxLost,   \* bound: dances that end with their process
  Nobody

ASSUME TokenAssumption == LockTime \in Nat \ {0} /\ LastTime \in Nat /\ MaxLost \in Nat /\ Nobody \notin Dances

VARIABLES
  time,
  file,      \* cron.master: "absent", "empty", "written"
  master,    \* what is written in it: [start, stop]
  owner,     \* the dance that has the file lock, or Nobody
  place,     \* dance -> "away", "create", "open", "decide", "dance", "over", "dead"
  startup,   \* dance -> its argument
  mine,      \* dance -> Token.now
  seen,      \* dance -> what acquire() loaded
  last,      \* the start that was granted last, or 0: a history variable
  emptied    \* the file was emptied after a start was written: a history variable

tokenVars == <<time, file, master, owner, place, startup, mine, seen, last, emptied>>

\* What acquire() makes of a file it cannot load.
LongAgo == [start |-> 0, stop |-> 1]

TokenInit ==
  /\ time = LockTime /\ file = "absent" /\ master = LongAgo /\ owner = Nobody
  /\ place = [d \in Dances |-> "away"] /\ startup = [d \in Dances |-> FALSE]
  /\ mine = [d \in Dances |-> 0] /\ seen = [d \in Dances |-> LongAgo]
  /\ last = 0 /\ emptied = FALSE

At(d, where) == place' = [place EXCEPT ![d] = where]

\* Token(): the file is looked for, and then the time is taken.
Make(d) ==
  /\ place[d] = "away" /\ mine[d] = 0
  /\ IF file = "absent" THEN At(d, "create") /\ UNCHANGED mine
     ELSE At(d, "open") /\ mine' = [mine EXCEPT ![d] = time]
  /\ \E s \in BOOLEAN : startup' = [startup EXCEPT ![d] = s]
  /\ UNCHANGED <<time, file, master, owner, seen, last, emptied>>

\* write_file(path, b"", "wb") empties the file if there is one by now.
Empty(d) ==
  /\ place[d] = "create"
  /\ file' = "empty"
  /\ emptied' = (emptied \/ file = "written")
  /\ mine' = [mine EXCEPT ![d] = time]
  /\ At(d, "open")
  /\ UNCHANGED <<time, master, owner, startup, seen, last>>

UnownedAlways == TRUE                                    \* mutant
Unowned == owner = Nobody

\* acquire() loads under the file lock.
Acquire(d) ==
  /\ place[d] = "open" /\ Unowned
  /\ seen' = [seen EXCEPT ![d] = IF file = "written" THEN master ELSE LongAgo]
  /\ owner' = d /\ At(d, "decide")
  /\ UNCHANGED <<time, file, master, startup, mine, last, emptied>>

Granted(d) == startup[d] \/ mine[d] - seen[d].start >= LockTime

Decide(d) ==
  /\ place[d] = "decide"
  /\ IF Granted(d)
     THEN /\ file' = "written" /\ master' = [start |-> mine[d], stop |-> 0] /\ last' = mine[d]
          /\ At(d, "dance")
     ELSE At(d, "away") /\ UNCHANGED <<file, master, last>>
  /\ owner' = Nobody /\ seen' = [seen EXCEPT ![d] = LongAgo]
  /\ UNCHANGED <<time, startup, mine, emptied>>

\* The crontabs are read and their commands launched; an exception ends it as well.
Danced(d) ==
  /\ place[d] = "dance" /\ At(d, "over")
  /\ UNCHANGED <<time, file, master, owner, startup, mine, seen, last, emptied>>

\* "if this is my lock".
IsMine(d) == master.start = mine[d]

\* release(), which raises when the file was emptied.
Release(d) ==
  /\ place[d] = "over" /\ Unowned
  /\ master' = IF file = "written" /\ IsMine(d) THEN [start |-> mine[d], stop |-> time] ELSE master
  /\ At(d, "away")
  /\ UNCHANGED <<time, file, owner, startup, mine, seen, last, emptied>>

\* The process ends, and the lock with it.
Lose(d) ==
  /\ place[d] \notin {"away", "dead"}
  /\ Cardinality({e \in Dances : place[e] = "dead"}) < MaxLost
  /\ At(d, "dead") /\ owner' = IF owner = d THEN Nobody ELSE owner
  /\ UNCHANGED <<time, file, master, startup, mine, seen, last, emptied>>

Pass ==
  /\ time < LastTime /\ time' = time + 1
  /\ UNCHANGED <<file, master, owner, place, startup, mine, seen, last, emptied>>

TokenNext == Pass \/ \E d \in Dances :
  Make(d) \/ Empty(d) \/ Acquire(d) \/ Decide(d) \/ Danced(d) \/ Release(d) \/ Lose(d)

TokenSpec == TokenInit /\ [][TokenNext]_tokenVars
-----------------------------------------------------------------------------
(* Properties. *)

\* "if a cron job started within less than 60 seconds, acquire returns None": however
\* long dances last, whenever they take their time, begin, end or die, one that does not
\* belong to a start of web2py begins at least LockTime after the one before it; only
\* Token() emptying the file behind another dance can break this.
Spaced ==
  [][\A d \in Dances : Decide(d) /\ place'[d] = "dance" /\ ~startup[d] /\ last # 0 /\ ~emptied =>
       mine[d] - last >= LockTime]_tokenVars
=============================================================================
