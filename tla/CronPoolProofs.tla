--------------------------- MODULE CronPoolProofs ---------------------------
(* Theorems about CronPool, for any crontabs, commands, threads and sizes.      *)
EXTENDS CronPool, FiniteSetTheorems, SequenceTheorems, TLAPS

\* The types, and what the lock of the pool protects.
Bounded ==
  /\ TypeOK /\ PoolBounded /\ IsFiniteSet(running)

\* A dancer that has a thread and has not released it yet has it alone, and it
\* sleeps, has not begun, or is dead; nobody else knows its command.
Dealing(d) ==
  /\ dancer[d] \in {"away", "call"} => job[d].to = None
  /\ dancer[d] # "away" => job[d].cmd \in Commands
  /\ dancer[d] = "call" => command[job[d].cmd] = "new"
  /\ dancer[d] = "hand" => /\ job[d].to \in running /\ ~free[job[d].to]
                           /\ thread[job[d].to] \in {"made", "wait", "dead"}
                           /\ command[job[d].cmd] = "accepted"
                           /\ \A t \in Threads : ~Carries(t, job[d].cmd)
  /\ dancer[d] = "start" => job[d].to \in running /\ free[job[d].to] /\ thread[job[d].to] = "made"
Apart(d, e) ==
  d # e => /\ job[d].cmd = job[e].cmd => job[d].cmd = None
           /\ job[d].to = job[e].to => job[d].to = None

\* A thread that is released or works is running; one that has a command has a real one.
Works == {"popen", "list", "talk", "over", "broken"}
Working(t) ==
  /\ t \in Range(idle) => thread[t] \in {"wait", "dead"}
  /\ thread[t] = "none" => t \notin running
  /\ thread[t] \in Works => t \in running /\ ~free[t]
  /\ free[t] => t \in running
  /\ free[t] \/ thread[t] \in Works => payload[t] \in Commands
  /\ thread[t] = "list" => command[payload[t]] \in {"runs", "ended"}

\* An accepted command is somewhere, and nowhere else.
Kept(c) ==
  /\ c \in subprocs => command[c] \in {"runs", "ended"}
  /\ \A t \in Threads : Carries(t, c) => command[c] = "accepted"
  /\ \A t, u \in Threads : Carries(t, c) /\ Carries(u, c) => t = u
  /\ command[c] = "accepted" => \/ \E t \in Threads : Carries(t, c)
                                \/ \E d \in Dancers : dancer[d] = "hand" /\ job[d].cmd = c

PoolInv ==
  /\ Bounded
  /\ \A d \in Dancers : Dealing(d) /\ \A e \in Dancers : Apart(d, e)
  /\ \A t \in Threads : Working(t)
  /\ \A c \in Commands : Kept(c)

LEMMA PoolInvInit == Init => PoolInv
<1> SUFFICES ASSUME Init PROVE PoolInv
  OBVIOUS
<1>1. TypeOK
  <2>1. idle \in Seq(Threads) /\ size \in Sizes /\ running = {}
    BY DEF Init
  <2>2. NoJob \in [cmd : Commands \union {None}, to : Threads \union {None}]
    BY DEF NoJob
  <2> QED BY <2>1, <2>2 DEF Init, TypeOK
<1>2. PoolBounded /\ IsFiniteSet(running)
  <2>1. Range(idle) = {} /\ Len(idle) = 0 /\ IsInjective(idle)
    BY DEF Init, Range, IsInjective
  <2>2. IsFiniteSet(running) /\ Cardinality(running) = 0 /\ size \in Nat
    BY FS_EmptySet, PoolAssumption DEF Init
  <2> QED BY <2>1, <2>2 DEF Init, PoolBounded
<1>3. ASSUME NEW d \in Dancers, NEW e \in Dancers PROVE Dealing(d) /\ Apart(d, e)
  BY DEF Init, Dealing, Apart, NoJob
<1>4. ASSUME NEW t \in Threads PROVE Working(t)
  BY DEF Init, Working, Range, Works
<1>5. ASSUME NEW c \in Commands PROVE Kept(c)
  BY PoolAssumption DEF Init, Kept, Carries
<1> QED BY <1>1, <1>2, <1>3, <1>4, <1>5 DEF PoolInv, Bounded
-----------------------------------------------------------------------------
(* The idle list. *)

LEMMA TailOfIdle ==
  ASSUME NEW s \in Seq(Threads), s # <<>>, IsInjective(s)
  PROVE  /\ Tail(s) \in Seq(Threads) /\ Len(Tail(s)) = Len(s) - 1 /\ IsInjective(Tail(s))
         /\ Head(s) \in Range(s) /\ Head(s) \in Threads
         /\ Range(Tail(s)) = Range(s) \ {Head(s)}
<1>1. /\ Tail(s) \in Seq(Threads) /\ Len(Tail(s)) = Len(s) - 1 /\ Len(s) \in Nat \ {0}
      /\ Head(s) = s[1] /\ \A i \in 1..(Len(s) - 1) : Tail(s)[i] = s[i + 1]
  OBVIOUS
<1>2. DOMAIN s = 1..Len(s) /\ DOMAIN Tail(s) = 1..(Len(s) - 1)
  BY <1>1
<1>3. IsInjective(Tail(s))
  BY <1>1, <1>2 DEF IsInjective
<1>4. Head(s) \in Range(s) /\ Head(s) \in Threads
  BY <1>1, <1>2 DEF Range
<1>5. ASSUME NEW x \in Range(Tail(s)) PROVE x \in Range(s) \ {Head(s)}
  BY <1>1, <1>2 DEF Range, IsInjective
<1>6. ASSUME NEW x \in Range(s), x # Head(s) PROVE x \in Range(Tail(s))
  <2>1. PICK i \in 1..Len(s) : x = s[i]
    BY <1>2 DEF Range
  <2>2. i - 1 \in 1..(Len(s) - 1) /\ Tail(s)[i - 1] = x
    BY <1>1, <1>6, <2>1
  <2> QED BY <1>2, <2>2 DEF Range
<1> QED BY <1>1, <1>3, <1>4, <1>5, <1>6

LEMMA AppendToIdle ==
  ASSUME NEW s \in Seq(Threads), IsInjective(s), NEW t \in Threads, t \notin Range(s)
  PROVE  /\ Append(s, t) \in Seq(Threads) /\ Len(Append(s, t)) = Len(s) + 1
         /\ IsInjective(Append(s, t)) /\ Range(Append(s, t)) = Range(s) \union {t}
<1>1. /\ Append(s, t) \in Seq(Threads) /\ Len(Append(s, t)) = Len(s) + 1 /\ Len(s) \in Nat
      /\ \A i \in 1..Len(s) : Append(s, t)[i] = s[i]
      /\ Append(s, t)[Len(s) + 1] = t
  OBVIOUS
<1>2. DOMAIN s = 1..Len(s) /\ DOMAIN Append(s, t) = 1..(Len(s) + 1)
  BY <1>1
<1>3. IsInjective(Append(s, t))
  BY <1>1, <1>2 DEF IsInjective, Range
<1>4. ASSUME NEW x \in Range(Append(s, t)) PROVE x \in Range(s) \union {t}
  BY <1>1, <1>2 DEF Range
<1>5. ASSUME NEW x \in Range(s) \union {t} PROVE x \in Range(Append(s, t))
  BY <1>1, <1>2 DEF Range
<1> QED BY <1>1, <1>3, <1>4, <1>5
-----------------------------------------------------------------------------
(* One lemma per action. *)

LEMMA DanceKeeps ==
  ASSUME PoolInv, NEW d \in Dancers, NEW c \in Commands, Dance(d, c)
  PROVE  PoolInv'
<1>1. TypeOK'
  BY DEF PoolInv, Bounded, TypeOK, Dealing, Dance, poolVars, workVars, stopVars
<1>2. PoolBounded' /\ IsFiniteSet(running)'
  BY DEF PoolInv, Bounded, PoolBounded, Dance, poolVars, workVars
<1>3. ASSUME NEW e \in Dancers PROVE Dealing(e)'
  BY DEF PoolInv, Bounded, TypeOK, Dealing, Carries, Dance, poolVars, workVars
<1>4. ASSUME NEW e \in Dancers, NEW g \in Dancers PROVE Apart(e, g)'
  BY DEF PoolInv, Bounded, Apart, Dance
<1>5. ASSUME NEW u \in Threads PROVE Working(u)'
  BY DEF PoolInv, Bounded, Working, Dance, poolVars, workVars
<1>6. ASSUME NEW b \in Commands PROVE Kept(b)'
  BY DEF PoolInv, Bounded, Kept, Carries, Dance, workVars
<1> QED BY <1>1, <1>2, <1>3, <1>4, <1>5, <1>6 DEF PoolInv, Bounded

LEMMA RefuseKeeps ==
  ASSUME PoolInv, NEW d \in Dancers, Refuse(d)
  PROVE  PoolInv'
<1>1. TypeOK'
  BY DEF PoolInv, Bounded, TypeOK, Dealing, Refuse, NoJob, poolVars, workVars, stopVars
<1>2. PoolBounded' /\ IsFiniteSet(running)'
  BY DEF PoolInv, Bounded, PoolBounded, Refuse, poolVars, workVars
<1>3. ASSUME NEW e \in Dancers PROVE Dealing(e)'
  BY PoolAssumption DEF PoolInv, Bounded, TypeOK, Dealing, Apart, Carries, Refuse, NoJob, poolVars, workVars
<1>4. ASSUME NEW e \in Dancers, NEW g \in Dancers PROVE Apart(e, g)'
  BY DEF PoolInv, Bounded, Apart, Refuse, NoJob
<1>5. ASSUME NEW u \in Threads PROVE Working(u)'
  BY DEF PoolInv, Bounded, Dealing, Working, Refuse, poolVars, workVars
<1>6. ASSUME NEW b \in Commands PROVE Kept(b)'
  BY DEF PoolInv, Bounded, Dealing, Apart, Working, Works, Kept, Carries, Refuse, poolVars, workVars
<1> QED BY <1>1, <1>2, <1>3, <1>4, <1>5, <1>6 DEF PoolInv, Bounded

LEMMA HandKeeps ==
  ASSUME PoolInv, NEW d \in Dancers, Hand(d)
  PROVE  PoolInv'
<1>1. TypeOK'
  <2>1. /\ job[d].to \in Threads /\ job[d].to \in running /\ job[d].cmd \in Commands
        /\ payload' = [payload EXCEPT ![job[d].to] = job[d].cmd]
        /\ free' = [free EXCEPT ![job[d].to] = TRUE] /\ dancer[d] = "hand"
        /\ UNCHANGED <<size, idle, running, thread, command, subprocs, stopping, stopper>>
    BY DEF PoolInv, Bounded, TypeOK, Dealing, Hand, poolVars, stopVars
  <2>2. \/ dancer' = [dancer EXCEPT ![d] = "start"] /\ UNCHANGED job
        \/ dancer' = [dancer EXCEPT ![d] = "away"] /\ job' = [job EXCEPT ![d] = NoJob]
    BY DEF Hand
  <2>3. NoJob.to = None
    BY DEF NoJob
  <2>4. None \notin running
    BY PoolAssumption DEF PoolInv, Bounded, TypeOK
  <2>5. ASSUME NEW e \in Dancers PROVE dancer'[e] \in {"hand", "start"} <=> job'[e].to \in running'
    <3>1. CASE e = d
      BY <2>1, <2>2, <2>3, <2>4, <3>1 DEF PoolInv, Bounded, TypeOK
    <3>2. CASE e # d
      BY <2>1, <2>2, <3>2 DEF PoolInv, Bounded, TypeOK
    <3> QED BY <3>1, <3>2
  <2>6. /\ dancer' \in [Dancers -> {"away", "call", "hand", "start"}]
        /\ job' \in [Dancers -> [cmd : Commands \union {None}, to : Threads \union {None}]]
    BY <2>2 DEF NoJob, PoolInv, Bounded, TypeOK
  <2>7. free' \in [Threads -> BOOLEAN] /\ payload' \in [Threads -> Commands \union {None}]
    BY <2>1 DEF PoolInv, Bounded, TypeOK
  <2> QED BY <2>1, <2>5, <2>6, <2>7 DEF PoolInv, Bounded, TypeOK
<1>2. PoolBounded' /\ IsFiniteSet(running)'
  BY DEF PoolInv, Bounded, PoolBounded, Hand, poolVars
<1>3. ASSUME NEW e \in Dancers PROVE Dealing(e)'
  BY PoolAssumption DEF PoolInv, Bounded, TypeOK, Dealing, Apart, Carries, Hand, NewThread, NoJob, poolVars
<1>4. ASSUME NEW e \in Dancers, NEW g \in Dancers PROVE Apart(e, g)'
  BY DEF PoolInv, Bounded, TypeOK, Apart, Hand, NewThread, NoJob
<1>5. ASSUME NEW u \in Threads PROVE Working(u)'
  BY DEF PoolInv, Bounded, TypeOK, Dealing, Working, Works, Hand, poolVars
<1>6. ASSUME NEW b \in Commands PROVE Kept(b)'
  <2> DEFINE t == job[d].to
             c == job[d].cmd
  <2>1. /\ t \in Threads /\ c \in Commands /\ command[c] = "accepted" /\ dancer[d] = "hand"
        /\ ~free[t] /\ thread[t] # "popen" /\ \A u \in Threads : ~Carries(u, c)
    BY DEF PoolInv, Bounded, TypeOK, Dealing, Hand
  <2>2. /\ payload' = [payload EXCEPT ![t] = c] /\ free' = [free EXCEPT ![t] = TRUE]
        /\ UNCHANGED <<thread, command, subprocs>>
    BY DEF Hand
  <2>3. ASSUME NEW u \in Threads
        PROVE  Carries(u, b)' <=> IF u = t THEN b = c ELSE Carries(u, b)
    BY <2>1, <2>2 DEF Carries, PoolInv, Bounded, TypeOK
  <2>4. ASSUME NEW e \in Dancers, dancer[e] = "hand", job[e].cmd = b, b # c
        PROVE  dancer'[e] = "hand" /\ job'[e].cmd = b
    BY <2>4 DEF Hand, PoolInv, Bounded, TypeOK
  <2>5. ~Carries(t, b)
    BY <2>1 DEF Carries
  <2> HIDE DEF t, c
  <2> QED BY <2>1, <2>2, <2>3, <2>4, <2>5 DEF PoolInv, Kept
<1> QED BY <1>1, <1>2, <1>3, <1>4, <1>5, <1>6 DEF PoolInv, Bounded

LEMMA StartKeeps ==
  ASSUME PoolInv, NEW d \in Dancers, Start(d)
  PROVE  PoolInv'
<1>1. TypeOK'
  BY PoolAssumption DEF PoolInv, Bounded, TypeOK, Start, NoJob, poolVars, stopVars
<1>2. PoolBounded' /\ IsFiniteSet(running)'
  BY DEF PoolInv, Bounded, PoolBounded, TypeOK, Start, poolVars
<1>3. ASSUME NEW e \in Dancers PROVE Dealing(e)'
  BY PoolAssumption DEF PoolInv, Bounded, TypeOK, Dealing, Apart, Carries, Start, NoJob, poolVars
<1>4. ASSUME NEW e \in Dancers, NEW g \in Dancers PROVE Apart(e, g)'
  BY DEF PoolInv, Bounded, Apart, Start, NoJob
<1>5. ASSUME NEW u \in Threads PROVE Working(u)'
  BY DEF PoolInv, Bounded, Working, Works, Start, poolVars
<1>6. ASSUME NEW b \in Commands PROVE Kept(b)'
  BY DEF PoolInv, Bounded, Dealing, Apart, Working, Kept, Carries, Start, poolVars
<1> QED BY <1>1, <1>2, <1>3, <1>4, <1>5, <1>6 DEF PoolInv, Bounded

LEMMA GrowKeeps ==
  ASSUME PoolInv, NEW n \in Sizes, Grow(n)
  PROVE  PoolInv'
<1>1. TypeOK'
  BY DEF PoolInv, Bounded, TypeOK, Grow, workVars, danceVars, stopVars
<1>2. PoolBounded' /\ IsFiniteSet(running)'
  <2>1. Len(idle) \in Nat /\ Cardinality(running) \in Nat /\ size \in Nat /\ n \in Nat
    BY FS_CardinalityType, PoolAssumption DEF PoolInv, Bounded, TypeOK
  <2> QED BY <2>1 DEF PoolInv, Bounded, PoolBounded, Grow, workVars
<1>3. ASSUME NEW e \in Dancers PROVE Dealing(e)'
  BY DEF PoolInv, Bounded, Dealing, Carries, Grow, workVars, danceVars
<1>4. ASSUME NEW e \in Dancers, NEW g \in Dancers PROVE Apart(e, g)'
  BY DEF PoolInv, Bounded, Apart, Grow, danceVars
<1>5. ASSUME NEW u \in Threads PROVE Working(u)'
  BY DEF PoolInv, Bounded, Working, Grow, workVars
<1>6. ASSUME NEW b \in Commands PROVE Kept(b)'
  BY DEF PoolInv, Bounded, Kept, Carries, Grow, workVars, danceVars
<1> QED BY <1>1, <1>2, <1>3, <1>4, <1>5, <1>6 DEF PoolInv, Bounded

LEMMA WakeKeeps ==
  ASSUME PoolInv, NEW t \in Threads, Wake(t)
  PROVE  PoolInv'
<1>1. TypeOK'
  BY DEF PoolInv, Bounded, TypeOK, Wake, poolVars, danceVars, stopVars
<1>2. PoolBounded' /\ IsFiniteSet(running)'
  BY DEF PoolInv, Bounded, PoolBounded, Wake, poolVars
<1>3. ASSUME NEW e \in Dancers PROVE Dealing(e)'
  BY DEF PoolInv, Bounded, Dealing, Carries, Wake, poolVars, danceVars
<1>4. ASSUME NEW e \in Dancers, NEW g \in Dancers PROVE Apart(e, g)'
  BY DEF PoolInv, Bounded, Apart, Wake, danceVars
<1>5. ASSUME NEW u \in Threads PROVE Working(u)'
  BY DEF PoolInv, Bounded, TypeOK, PoolBounded, Working, Wake, poolVars
<1>6. ASSUME NEW b \in Commands PROVE Kept(b)'
  BY DEF PoolInv, Bounded, TypeOK, Kept, Carries, Wake, danceVars
<1> QED BY <1>1, <1>2, <1>3, <1>4, <1>5, <1>6 DEF PoolInv, Bounded

LEMMA PopenKeeps ==
  ASSUME PoolInv, NEW t \in Threads, Popen(t)
  PROVE  PoolInv'
<1>1. TypeOK'
  <2>1. payload[t] \in Commands
    BY DEF Popen, PoolInv, Working, Works
  <2>2. /\ \E w \in {"broken", "list"} : thread' = [thread EXCEPT ![t] = w]
        /\ \E w \in {"failed", "runs"} : command' = [command EXCEPT ![payload[t]] = w]
    BY DEF Popen
  <2> QED BY <2>1, <2>2 DEF Popen, PoolInv, Bounded, TypeOK, poolVars, danceVars, stopVars
<1>2. PoolBounded' /\ IsFiniteSet(running)'
  BY DEF PoolInv, Bounded, PoolBounded, TypeOK, Popen, poolVars
<1>3. ASSUME NEW e \in Dancers PROVE Dealing(e)'
  BY DEF PoolInv, Bounded, TypeOK, Dealing, Kept, Carries, Popen, poolVars, danceVars, stopVars
<1>4. ASSUME NEW e \in Dancers, NEW g \in Dancers PROVE Apart(e, g)'
  BY DEF PoolInv, Bounded, Apart, Popen, danceVars
<1>5. ASSUME NEW u \in Threads PROVE Working(u)'
  <2>1. /\ thread[t] = "popen" /\ payload[t] \in Commands /\ t \in running /\ ~free[t]
        /\ command[payload[t]] = "accepted"
    BY DEF Popen, PoolInv, Working, Works, Kept, Carries
  <2>2. UNCHANGED <<idle, running, free, payload>>
    BY DEF Popen, poolVars
  <2>3. CASE u = t
    BY <2>1, <2>2, <2>3 DEF Popen, PoolInv, Bounded, TypeOK, PoolBounded, Working
  <2>4. CASE u # t
    <3>1. thread'[u] = thread[u] /\ (thread[u] = "list" => command'[payload[u]] = command[payload[u]])
      BY <2>1, <2>4 DEF Popen, PoolInv, Bounded, TypeOK, Working, Works
    <3> QED BY <2>2, <3>1 DEF PoolInv, Working
  <2> QED BY <2>3, <2>4
<1>6. ASSUME NEW b \in Commands PROVE Kept(b)'
  BY DEF PoolInv, Bounded, TypeOK, Working, Works, Kept, Carries, Popen, poolVars, danceVars, stopVars
<1> QED BY <1>1, <1>2, <1>3, <1>4, <1>5, <1>6 DEF PoolInv, Bounded

LEMMA ListKeeps ==
  ASSUME PoolInv, NEW t \in Threads, List(t)
  PROVE  PoolInv'
<1>1. TypeOK'
  BY DEF PoolInv, Bounded, TypeOK, Working, Works, List, poolVars, danceVars, stopVars
<1>2. PoolBounded' /\ IsFiniteSet(running)'
  BY DEF PoolInv, Bounded, PoolBounded, List, poolVars
<1>3. ASSUME NEW e \in Dancers PROVE Dealing(e)'
  BY DEF PoolInv, Bounded, Dealing, Carries, List, poolVars, danceVars
<1>4. ASSUME NEW e \in Dancers, NEW g \in Dancers PROVE Apart(e, g)'
  BY DEF PoolInv, Bounded, Apart, List, danceVars
<1>5. ASSUME NEW u \in Threads PROVE Working(u)'
  BY DEF PoolInv, Bounded, Working, Works, List, poolVars
<1>6. ASSUME NEW b \in Commands PROVE Kept(b)'
  BY DEF PoolInv, Bounded, Working, Kept, Carries, List, danceVars
<1> QED BY <1>1, <1>2, <1>3, <1>4, <1>5, <1>6 DEF PoolInv, Bounded

LEMMA UnlistKeeps ==
  ASSUME PoolInv, NEW t \in Threads, Unlist(t)
  PROVE  PoolInv'
<1>1. TypeOK'
  BY DEF PoolInv, Bounded, TypeOK, Unlist, Unlisted, poolVars, danceVars, stopVars
<1>2. PoolBounded' /\ IsFiniteSet(running)'
  BY DEF PoolInv, Bounded, PoolBounded, Unlist, Unlisted, poolVars
<1>3. ASSUME NEW e \in Dancers PROVE Dealing(e)'
  BY DEF PoolInv, Bounded, Dealing, Carries, Unlist, Unlisted, poolVars, danceVars
<1>4. ASSUME NEW e \in Dancers, NEW g \in Dancers PROVE Apart(e, g)'
  BY DEF PoolInv, Bounded, Apart, Unlist, Unlisted, danceVars
<1>5. ASSUME NEW u \in Threads PROVE Working(u)'
  BY DEF PoolInv, Bounded, Working, Works, Unlist, Unlisted, poolVars
<1>6. ASSUME NEW b \in Commands PROVE Kept(b)'
  BY DEF PoolInv, Bounded, Kept, Carries, Unlist, Unlisted, danceVars
<1> QED BY <1>1, <1>2, <1>3, <1>4, <1>5, <1>6 DEF PoolInv, Bounded

LEMMA EndKeeps ==
  ASSUME PoolInv, NEW c \in Commands, End(c)
  PROVE  PoolInv'
<1>1. TypeOK'
  BY DEF PoolInv, Bounded, TypeOK, End, poolVars, workVars, danceVars, stopVars
<1>2. PoolBounded' /\ IsFiniteSet(running)'
  BY DEF PoolInv, Bounded, PoolBounded, End, poolVars, workVars
<1>3. ASSUME NEW e \in Dancers PROVE Dealing(e)'
  BY DEF PoolInv, Bounded, Dealing, Carries, End, poolVars, workVars, danceVars
<1>4. ASSUME NEW e \in Dancers, NEW g \in Dancers PROVE Apart(e, g)'
  BY DEF PoolInv, Bounded, Apart, End, danceVars
<1>5. ASSUME NEW u \in Threads PROVE Working(u)'
  BY DEF PoolInv, Bounded, Working, End, poolVars, workVars
<1>6. ASSUME NEW b \in Commands PROVE Kept(b)'
  BY DEF PoolInv, Bounded, Kept, Carries, End, workVars, danceVars
<1> QED BY <1>1, <1>2, <1>3, <1>4, <1>5, <1>6 DEF PoolInv, Bounded

LEMMA StopcronKeeps ==
  ASSUME PoolInv, StopCron \/ Count \/ Pop
  PROVE  PoolInv'
<1>1. TypeOK'
  <2>1. UNCHANGED <<poolVars, workVars, danceVars>>
    BY DEF StopCron, Count, Pop
  <2>2. /\ subprocs' = subprocs \/ \E c \in subprocs : subprocs' = subprocs \ {c}
        /\ command' = command \/ \E c \in subprocs : command' = [command EXCEPT ![c] = "ended"]
        /\ stopping' \in {stopping, TRUE} /\ stopper' \in {"count", "pop", "done", "raised"}
    BY DEF StopCron, Count, Pop
  <2> QED BY <2>1, <2>2, ZenonT(60) DEF PoolInv, Bounded, TypeOK, poolVars, workVars, danceVars
<1>2. PoolBounded' /\ IsFiniteSet(running)'
  BY DEF PoolInv, Bounded, PoolBounded, StopCron, Count, Pop, poolVars, workVars
<1>3. ASSUME NEW e \in Dancers PROVE Dealing(e)'
  BY DEF PoolInv, Bounded, TypeOK, Dealing, Kept, Carries, StopCron, Count, Pop, poolVars, workVars, danceVars
<1>4. ASSUME NEW e \in Dancers, NEW g \in Dancers PROVE Apart(e, g)'
  BY DEF PoolInv, Bounded, Apart, StopCron, Count, Pop, danceVars
<1>5. ASSUME NEW u \in Threads PROVE Working(u)'
  BY DEF PoolInv, Bounded, TypeOK, Working, Works, StopCron, Count, Pop, poolVars, workVars
<1>6. ASSUME NEW b \in Commands PROVE Kept(b)'
  BY DEF PoolInv, Bounded, TypeOK, Kept, Carries, StopCron, Count, Pop, workVars, danceVars
<1> QED BY <1>1, <1>2, <1>3, <1>4, <1>5, <1>6 DEF PoolInv, Bounded

\* The thread that is called was idle or is new: nobody has it.
LEMMA CallKeeps ==
  ASSUME PoolInv, NEW d \in Dancers, Call(d)
  PROVE  PoolInv'
<1> DEFINE c == job[d].cmd
<1>1. PICK t \in Threads :
        /\ IF idle # <<>> THEN t = Head(idle) /\ UNCHANGED thread
                          ELSE thread[t] = "none" /\ thread' = [thread EXCEPT ![t] = "made"]
        /\ running' = running \union {t}
        /\ job' = [job EXCEPT ![d].to = t]
  BY DEF Call
<1>2. /\ dancer[d] = "call" /\ Cardinality(running) # size
      /\ idle' = (IF idle = <<>> THEN idle ELSE Tail(idle))
      /\ command' = [command EXCEPT ![c] = "accepted"]
      /\ dancer' = [dancer EXCEPT ![d] = "hand"]
      /\ UNCHANGED <<size, free, payload, subprocs, stopping, stopper>>
  BY DEF Call, Full, Rest, stopVars
<1>3. c \in Commands /\ command[c] = "new" /\ job[d].to = None
  BY <1>2 DEF PoolInv, Dealing
<1>4. /\ idle' \in Seq(Threads) /\ IsInjective(idle')
      /\ IF idle # <<>>
         THEN /\ Len(idle') = Len(idle) - 1 /\ Range(idle') = Range(idle) \ {t}
              /\ t \in Range(idle) /\ thread' = thread /\ thread[t] \in {"wait", "dead"}
         ELSE /\ idle' = <<>> /\ Range(idle') = {} /\ Range(idle) = {} /\ Len(idle) = 0
              /\ thread[t] = "none" /\ thread' = [thread EXCEPT ![t] = "made"]
  <2>1. idle \in Seq(Threads) /\ IsInjective(idle)
    BY DEF PoolInv, Bounded, TypeOK, PoolBounded
  <2>2. CASE idle # <<>>
    BY <1>1, <1>2, <2>1, <2>2, TailOfIdle DEF PoolInv, Working
  <2>3. CASE idle = <<>>
    BY <1>1, <1>2, <2>1, <2>3 DEF Range
  <2> QED BY <2>2, <2>3
<1>5. t \notin running /\ ~free[t] /\ thread[t] \in {"none", "wait", "dead"}
  BY <1>4 DEF PoolInv, Bounded, PoolBounded, Working
<1>0. /\ \A u \in Threads : thread'[u] = "popen" <=> thread[u] = "popen"
      /\ free' = free /\ payload' = payload
  BY <1>2, <1>4 DEF PoolInv, Bounded, TypeOK
<1>6. TypeOK'
  <2>1. job' \in [Dancers -> [cmd : Commands \union {None}, to : Threads \union {None}]]
    BY <1>1 DEF PoolInv, Bounded, TypeOK
  <2>2. thread' \in [Threads -> {"none", "made", "wait", "popen", "list", "talk", "over", "broken", "dead"}]
    BY <1>4 DEF PoolInv, Bounded, TypeOK
  <2>3. ASSUME NEW e \in Dancers PROVE dancer'[e] \in {"hand", "start"} <=> job'[e].to \in running'
    <3>1. CASE e = d
      BY <1>1, <1>2, <3>1 DEF PoolInv, Bounded, TypeOK
    <3>2. CASE e # d
      <4>1. job[e].to # t
        BY <1>5, PoolAssumption DEF PoolInv, Bounded, TypeOK, Dealing
      <4> QED BY <1>1, <1>2, <3>2, <4>1 DEF PoolInv, Bounded, TypeOK
    <3> QED BY <3>1, <3>2
  <2>4. command' \in [Commands -> {"new", "refused", "accepted", "runs", "ended", "failed"}]
    BY <1>2, <1>3 DEF PoolInv, Bounded, TypeOK
  <2>5. idle' \in Seq(Threads) /\ running' \subseteq Threads
    BY <1>1, <1>4 DEF PoolInv, Bounded, TypeOK
  <2> QED BY <1>2, <2>1, <2>2, <2>3, <2>4, <2>5 DEF PoolInv, Bounded, TypeOK
<1>7. PoolBounded' /\ IsFiniteSet(running)'
  <2>1. IsFiniteSet(running') /\ Cardinality(running') = Cardinality(running) + 1
    BY <1>1, <1>5, FS_AddElement DEF PoolInv, Bounded
  <2>2. Len(idle) \in Nat /\ Cardinality(running) \in Nat /\ size \in Nat /\ Len(idle') \in Nat
    BY <1>4, FS_CardinalityType, PoolAssumption DEF PoolInv, Bounded, TypeOK
  <2>3. Len(idle') + Cardinality(running') <= size'
    BY <1>2, <1>4, <2>1, <2>2 DEF PoolInv, Bounded, PoolBounded
  <2>4. Range(idle') \intersect running' = {}
    BY <1>1, <1>4 DEF PoolInv, Bounded, PoolBounded
  <2>5. ASSUME NEW u \in Threads, thread'[u] # "none" PROVE u \in Range(idle') \union running'
    <3>1. u = t \/ thread[u] # "none"
      BY <1>4, <2>5 DEF PoolInv, Bounded, TypeOK
    <3> QED BY <1>1, <1>4, <3>1 DEF PoolInv, Bounded, PoolBounded
  <2> QED BY <1>4, <2>1, <2>3, <2>4, <2>5 DEF PoolBounded
<1>8. ASSUME NEW e \in Dancers PROVE Dealing(e)'
  <2>1. CASE e = d
    <3>1. \A u \in Threads : ~Carries(u, c)'
      <4>1. \A u \in Threads : ~Carries(u, c)
        BY <1>3 DEF PoolInv, Kept
      <4>2. job'[d].cmd = job[d].cmd
        BY <1>1 DEF PoolInv, Bounded, TypeOK
      <4> QED BY <1>0, <4>1, <4>2 DEF Carries
    <3> QED BY <1>1, <1>2, <1>3, <1>4, <1>5, <2>1, <3>1 DEF Dealing, PoolInv, Bounded, TypeOK
  <2>2. CASE e # d
    <3>1. /\ dancer'[e] = dancer[e] /\ job'[e] = job[e]
          /\ job[e].to \in running => job[e].to # t
      BY <1>1, <1>2, <1>5, <2>2 DEF PoolInv, Bounded
    <3>2. job[e].cmd \in Commands => job[e].cmd # c
      BY <1>3, <2>2, PoolAssumption DEF PoolInv, Apart
    <3>3. \A u \in Threads : Carries(u, job[e].cmd)' <=> Carries(u, job[e].cmd)
      BY <1>0, <3>1 DEF Carries
    <3>4. job[e].to \in Threads /\ job[e].to # t => thread'[job[e].to] = thread[job[e].to]
      BY <1>4 DEF PoolInv, Bounded, TypeOK
    <3>5. job[e].cmd \in Commands => command'[job[e].cmd] = command[job[e].cmd]
      BY <1>2, <3>2 DEF PoolInv, Bounded
    <3> QED BY <1>1, <1>2, <3>1, <3>3, <3>4, <3>5 DEF PoolInv, Bounded, TypeOK, Dealing
  <2> QED BY <2>1, <2>2
<1>9. ASSUME NEW e \in Dancers, NEW g \in Dancers PROVE Apart(e, g)'
  <2>1. ASSUME NEW f \in Dancers PROVE /\ job'[f].cmd = job[f].cmd
                                       /\ f # d => job'[f].to = job[f].to /\ job[f].to # t
                                       /\ f = d => job'[f].to = t
    BY <1>1, <1>5, PoolAssumption DEF PoolInv, Bounded, TypeOK, Dealing
  <2> QED BY <2>1 DEF PoolInv, Apart
<1>10. ASSUME NEW u \in Threads PROVE Working(u)'
  <2>1. CASE u = t
    BY <1>1, <1>2, <1>4, <1>5, <2>1 DEF Working, Works, PoolInv, Bounded, TypeOK
  <2>2. CASE u # t
    <3>1. thread'[u] = thread[u]
      BY <1>4, <2>2 DEF PoolInv, Bounded, TypeOK
    <3>2. thread[u] = "list" => command'[payload[u]] = command[payload[u]]
      BY <1>2, <1>3 DEF PoolInv, Bounded, Working
    <3> QED BY <1>1, <1>2, <1>4, <2>2, <3>1, <3>2 DEF PoolInv, Working
  <2> QED BY <2>1, <2>2
<1>11. ASSUME NEW b \in Commands PROVE Kept(b)'
  <2>1. \A u \in Threads : Carries(u, b)' <=> Carries(u, b)
    BY <1>0 DEF Carries
  <2>2. CASE b = c
    <3>1. dancer'[d] = "hand" /\ job'[d].cmd = b /\ command'[b] = "accepted"
      BY <1>1, <1>2, <2>2 DEF PoolInv, Bounded, TypeOK
    <3>2. b \notin subprocs' /\ \A u \in Threads : ~Carries(u, b)
      BY <1>2, <1>3, <2>2 DEF PoolInv, Kept
    <3> QED BY <2>1, <3>1, <3>2 DEF Kept
  <2>3. CASE b # c
    <3>1. command'[b] = command[b]
      BY <1>2, <2>3 DEF PoolInv, Bounded
    <3>2. ASSUME NEW e \in Dancers, dancer[e] = "hand", job[e].cmd = b
          PROVE  dancer'[e] = "hand" /\ job'[e].cmd = b
      BY <1>1, <1>2, <3>2 DEF PoolInv, Bounded
    <3> QED BY <1>2, <2>1, <3>1, <3>2 DEF PoolInv, Kept
  <2> QED BY <2>2, <2>3
<1> QED BY <1>6, <1>7, <1>8, <1>9, <1>10, <1>11 DEF PoolInv, Bounded

\* A thread that worked goes from running to idle.
LEMMA StopKeeps ==
  ASSUME PoolInv, NEW t \in Threads, Stop(t)
  PROVE  PoolInv'
<1>1. /\ thread[t] \in {"over", "broken"} /\ idle' = Append(idle, t) /\ running' = running \ {t}
      /\ \E w \in {"wait", "dead"} : thread' = [thread EXCEPT ![t] = w]
      /\ UNCHANGED <<size, free, payload, danceVars, command, subprocs, stopVars>>
  BY DEF Stop, Back
<1>2. t \in running /\ ~free[t] /\ t \notin Range(idle) /\ payload[t] \in Commands
  BY <1>1 DEF PoolInv, Bounded, PoolBounded, Working, Works
<1>3. /\ idle' \in Seq(Threads) /\ IsInjective(idle') /\ Len(idle') = Len(idle) + 1
      /\ Range(idle') = Range(idle) \union {t}
  BY <1>1, <1>2, AppendToIdle DEF PoolInv, Bounded, TypeOK, PoolBounded
<1>4. ASSUME NEW d \in Dancers PROVE job[d].to # t
  BY <1>1, <1>2 DEF PoolInv, Bounded, TypeOK, Dealing
<1>5. TypeOK'
  BY <1>1, <1>3, <1>4 DEF PoolInv, Bounded, TypeOK, danceVars, stopVars
<1>6. PoolBounded' /\ IsFiniteSet(running)'
  <2>1. IsFiniteSet(running') /\ Cardinality(running') = Cardinality(running) - 1
    BY <1>1, <1>2, FS_RemoveElement DEF PoolInv, Bounded
  <2>2. Len(idle) \in Nat /\ Cardinality(running) \in Nat /\ size \in Nat
    BY FS_CardinalityType, PoolAssumption DEF PoolInv, Bounded, TypeOK
  <2>3. Len(idle') + Cardinality(running') <= size'
    BY <1>1, <1>3, <2>1, <2>2 DEF PoolInv, Bounded, PoolBounded
  <2>4. \A u \in Threads : thread'[u] # "none" => u \in Range(idle') \union running'
    BY <1>1, <1>3 DEF PoolInv, Bounded, PoolBounded
  <2> QED BY <1>1, <1>3, <2>1, <2>3, <2>4 DEF PoolInv, Bounded, PoolBounded
<1>7. ASSUME NEW u \in Threads, NEW b \in Commands PROVE Carries(u, b)' <=> Carries(u, b)
  BY <1>1 DEF Carries, PoolInv, Bounded
<1>8. ASSUME NEW d \in Dancers PROVE Dealing(d)'
  BY <1>1, <1>4, <1>7 DEF PoolInv, Bounded, Dealing, danceVars
<1>9. ASSUME NEW d \in Dancers, NEW e \in Dancers PROVE Apart(d, e)'
  BY <1>1 DEF PoolInv, Apart, danceVars
<1>10. ASSUME NEW u \in Threads PROVE Working(u)'
  BY <1>1, <1>2, <1>3 DEF PoolInv, Bounded, TypeOK, Working, Works
<1>11. ASSUME NEW b \in Commands PROVE Kept(b)'
  BY <1>1, <1>7 DEF PoolInv, Kept, danceVars
<1> QED BY <1>5, <1>6, <1>8, <1>9, <1>10, <1>11 DEF PoolInv, Bounded
-----------------------------------------------------------------------------
LEMMA PoolInvNext == PoolInv /\ [Next]_vars => PoolInv'
<1> SUFFICES ASSUME PoolInv, [Next]_vars PROVE PoolInv'
  OBVIOUS
<1>1. CASE UNCHANGED vars
  BY <1>1 DEF vars, poolVars, workVars, danceVars, stopVars, PoolInv, Bounded, TypeOK, PoolBounded,
              Dealing, Apart, Working, Kept, Carries
<1>2. ASSUME NEW d \in Dancers, (\E c \in Commands : Dance(d, c)) \/ Refuse(d) \/ Call(d) \/ Hand(d) \/ Start(d)
      PROVE  PoolInv'
  BY <1>2, DanceKeeps, RefuseKeeps, CallKeeps, HandKeeps, StartKeeps
<1>3. ASSUME NEW n \in Sizes, Grow(n) PROVE PoolInv'
  BY <1>3, GrowKeeps
<1>4. ASSUME NEW t \in Threads, Wake(t) \/ Popen(t) \/ List(t) \/ Unlist(t) \/ Stop(t) PROVE PoolInv'
  BY <1>4, WakeKeeps, PopenKeeps, ListKeeps, UnlistKeeps, StopKeeps
<1>5. ASSUME NEW c \in Commands, End(c) PROVE PoolInv'
  BY <1>5, EndKeeps
<1>6. CASE StopCron \/ Count \/ Pop
  BY <1>6, StopcronKeeps
<1> QED BY <1>1, <1>2, <1>3, <1>4, <1>5, <1>6 DEF Next

LEMMA PoolInvAlways == Spec => []PoolInv
BY PoolInvInit, PoolInvNext, PTL DEF Spec

\* However calls, ends, failures and grow() overlap, SimplePool never has more threads than
\* its size, and each of them is on one of its two lists.
THEOREM Pooled == Spec => []PoolBounded
<1>1. PoolInv => PoolBounded
  BY DEF PoolInv, Bounded
<1> QED BY <1>1, PoolInvAlways, PTL

\* A command that SimplePool has accepted is on its way to one thread or in the payload of
\* one thread, until that thread starts it: none is lost under way or run twice.
THEOREM Carried == Spec => []CarriedOnce
<1>1. PoolInv => CarriedOnce
  <2> SUFFICES ASSUME PoolInv, NEW c \in Commands, command[c] = "accepted"
               PROVE  Cardinality({d \in Dancers : dancer[d] = "hand" /\ job[d].cmd = c})
                        + Cardinality({t \in Threads : Carries(t, c)}) = 1
    BY DEF CarriedOnce
  <2> DEFINE Hands == {d \in Dancers : dancer[d] = "hand" /\ job[d].cmd = c}
             Has   == {t \in Threads : Carries(t, c)}
  <2>1. CASE \E d \in Dancers : dancer[d] = "hand" /\ job[d].cmd = c
    <3>1. PICK d \in Dancers : dancer[d] = "hand" /\ job[d].cmd = c
      BY <2>1
    <3>2. Hands = {d}
      BY <3>1, PoolAssumption DEF PoolInv, Apart
    <3>3. Has = {}
      BY <3>1 DEF PoolInv, Dealing
    <3>4. Cardinality(Hands) = 1 /\ Cardinality(Has) = 0
      BY <3>2, <3>3, FS_Singleton, FS_EmptySet
    <3> QED BY <3>4
  <2>2. CASE ~\E d \in Dancers : dancer[d] = "hand" /\ job[d].cmd = c
    <3>1. PICK t \in Threads : Carries(t, c)
      BY <2>2 DEF PoolInv, Kept
    <3>2. Has = {t}
      BY <3>1 DEF PoolInv, Kept
    <3>3. Hands = {}
      BY <2>2
    <3>4. Cardinality(Hands) = 0 /\ Cardinality(Has) = 1
      BY <3>2, <3>3, FS_Singleton, FS_EmptySet
    <3> QED BY <3>4
  <2> QED BY <2>1, <2>2
<1> QED BY <1>1, PoolInvAlways, PTL
-----------------------------------------------------------------------------
(* Who is refused. *)

Failed == \E b \in Commands : command[b] = "failed"

\* A running thread has something to do, unless the command that killed it has failed.
Busy(t) ==
  /\ thread[t] \in {"broken", "dead"} => Failed
  /\ t \in running => AtWork(t) \/ thread[t] = "dead"
BusyInv == \A t \in Threads : Busy(t)

LEMMA BusyInvInit == Init => BusyInv
BY DEF Init, BusyInv, Busy

LEMMA FailedStays ==
  ASSUME PoolInv, [Next]_vars, Failed
  PROVE  Failed'
<1> PICK b \in Commands : command[b] = "failed"
  BY DEF Failed
<1>1. ASSUME NEW d \in Dancers, Refuse(d) \/ Call(d) PROVE command'[b] = "failed"
  BY <1>1 DEF PoolInv, Bounded, TypeOK, Dealing, Refuse, Call
<1>2. ASSUME NEW t \in Threads, Popen(t) PROVE command'[b] = "failed"
  BY <1>2 DEF PoolInv, Bounded, TypeOK, Popen, Working, Works, Kept, Carries
<1>3. ASSUME NEW c \in Commands, End(c) PROVE command'[b] = "failed"
  BY <1>3 DEF PoolInv, Bounded, TypeOK, End
<1>4. ASSUME Pop PROVE command'[b] = "failed"
  BY <1>4 DEF PoolInv, Bounded, TypeOK, Pop, Kept
<1>5. ASSUME UNCHANGED command PROVE command'[b] = "failed"
  BY <1>5
<1> QED
  BY <1>1, <1>2, <1>3, <1>4, <1>5 DEF Failed, Next, vars, Dance, Hand, Start, Grow, Wake, List, Unlist, Stop,
     StopCron, Count

LEMMA BusyInvNext == PoolInv /\ BusyInv /\ [Next]_vars => BusyInv'
<1> SUFFICES ASSUME PoolInv, BusyInv, [Next]_vars, NEW u \in Threads PROVE Busy(u)'
  BY DEF BusyInv
<1>1. Busy(u) /\ (Failed => Failed')
  BY FailedStays DEF BusyInv
<1>2. ASSUME NEW d \in Dancers, NEW c \in Commands, Dance(d, c) PROVE Busy(u)'
  BY <1>1, <1>2 DEF Busy, AtWork, PoolInv, Bounded, TypeOK, Dealing, Dance, poolVars, workVars
<1>3. ASSUME NEW d \in Dancers, Refuse(d) PROVE Busy(u)'
  BY <1>1, <1>3, PoolAssumption DEF Busy, AtWork, PoolInv, Bounded, TypeOK, Dealing, Refuse, NoJob, poolVars, workVars
<1>4. ASSUME NEW d \in Dancers, Call(d) PROVE Busy(u)'
  <2>1. PICK t \in Threads :
          /\ IF idle # <<>> THEN t = Head(idle) /\ UNCHANGED thread
                            ELSE thread[t] = "none" /\ thread' = [thread EXCEPT ![t] = "made"]
          /\ running' = running \union {t}
          /\ job' = [job EXCEPT ![d].to = t]
    BY <1>4 DEF Call
  <2>2. UNCHANGED free /\ job[d].to = None
    BY <1>4 DEF Call, PoolInv, Dealing
  <2>3. CASE u # t
    <3>1. thread'[u] = thread[u] /\ (u \in running' <=> u \in running)
      BY <2>1, <2>3 DEF PoolInv, Bounded, TypeOK
    <3>2. ASSUME NEW e \in Dancers, job[e].to = u PROVE job'[e].to = u
      BY <2>1, <2>2, <2>3, <3>2, PoolAssumption DEF PoolInv, Bounded, TypeOK
    <3> QED BY <1>1, <2>2, <3>1, <3>2 DEF Busy, AtWork
  <2>4. CASE u = t
    <3>1. job'[d].to = u
      BY <2>1, <2>4 DEF PoolInv, Bounded, TypeOK
    <3>2. CASE idle = <<>>
      BY <1>1, <2>1, <2>4, <3>1, <3>2 DEF Busy, AtWork, PoolInv, Bounded, TypeOK
    <3>3. CASE idle # <<>>
      <4>1. u \in Range(idle)
        <5>1. idle \in Seq(Threads) /\ 1 \in DOMAIN idle /\ Head(idle) = idle[1]
          BY <3>3 DEF PoolInv, Bounded, TypeOK
        <5> QED BY <2>1, <2>4, <3>3, <5>1 DEF Range
      <4>2. thread'[u] \in {"wait", "dead"} /\ thread' = thread
        BY <2>1, <3>3, <4>1 DEF PoolInv, Working
      <4> QED BY <1>1, <3>1, <4>2 DEF Busy, AtWork
    <3> QED BY <3>2, <3>3
  <2> QED BY <2>3, <2>4
<1>5. ASSUME NEW d \in Dancers, Hand(d) PROVE Busy(u)'
  <2>1. /\ free' = [free EXCEPT ![job[d].to] = TRUE] /\ UNCHANGED <<thread, running>>
        /\ \A e \in Dancers \ {d} : job'[e] = job[e]
    BY <1>5 DEF Hand, poolVars, PoolInv, Bounded, TypeOK
  <2>2. u \in running' <=> u \in running
    BY <2>1
  <2>3. CASE job[d].to = u
    <3>1. free'[u]
      BY <2>1, <2>3 DEF PoolInv, Bounded, TypeOK
    <3> QED BY <1>1, <2>1, <2>2, <3>1 DEF Busy, AtWork
  <2>4. CASE job[d].to # u
    <3>1. free'[u] = free[u]
      BY <2>1, <2>4 DEF PoolInv, Bounded, TypeOK
    <3>2. ASSUME NEW e \in Dancers, job[e].to = u PROVE job'[e].to = u
      BY <2>1, <2>4, <3>2
    <3> QED BY <1>1, <2>1, <2>2, <3>1, <3>2 DEF Busy, AtWork
  <2> QED BY <2>3, <2>4
<1>6. ASSUME NEW d \in Dancers, Start(d) PROVE Busy(u)'
  BY <1>1, <1>6 DEF Busy, AtWork, PoolInv, Bounded, TypeOK, Dealing, Start, NoJob, poolVars
<1>7. ASSUME NEW t \in Threads, Wake(t) PROVE Busy(u)'
  BY <1>1, <1>7 DEF Busy, AtWork, PoolInv, Bounded, TypeOK, Wake, poolVars, danceVars
<1>8. ASSUME NEW t \in Threads, Popen(t) PROVE Busy(u)'
  <2>1. thread'[t] = "broken" => Failed'
    BY <1>8 DEF PoolInv, Bounded, TypeOK, Popen, Working, Works, Failed
  <2> QED BY <1>1, <1>8, <2>1 DEF Busy, AtWork, PoolInv, Bounded, TypeOK, Popen, poolVars, danceVars
<1>9. ASSUME NEW t \in Threads, List(t) \/ Unlist(t) PROVE Busy(u)'
  BY <1>1, <1>9 DEF Busy, AtWork, PoolInv, Bounded, TypeOK, List, Unlist, poolVars, danceVars
<1>10. ASSUME NEW t \in Threads, Stop(t) PROVE Busy(u)'
  BY <1>1, <1>10 DEF Busy, AtWork, PoolInv, Bounded, TypeOK, Stop, Back, danceVars
<1>11. CASE UNCHANGED <<poolVars, workVars, danceVars>>
  BY <1>1, <1>11 DEF Busy, AtWork, poolVars, workVars, danceVars
<1>12. ASSUME NEW n \in Sizes, Grow(n) PROVE Busy(u)'
  BY <1>1, <1>12 DEF Busy, AtWork, Grow, workVars, danceVars
<1> QED
  BY <1>2, <1>3, <1>4, <1>5, <1>6, <1>7, <1>8, <1>9, <1>10, <1>11, <1>12
     DEF Next, vars, End, StopCron, Count, Pop

\* Whatever calls, ends and grow() overlap, a command is refused only when as many threads as
\* the pool may have are at work, or when a thread was lost to a command that failed.
THEOREM RefusedIfBusy == Spec => RefusedBusy
<1>1. PoolInv /\ BusyInv /\ [Next]_vars =>
        \A c \in Commands : command[c] # "refused" /\ command'[c] = "refused" =>
          \/ Cardinality({t \in Threads : AtWork(t)}) >= size
          \/ \E b \in Commands : command[b] = "failed"
  <2> SUFFICES ASSUME PoolInv, BusyInv, [Next]_vars, ~Failed,
                      NEW c \in Commands, command[c] # "refused", command'[c] = "refused"
               PROVE  Cardinality({t \in Threads : AtWork(t)}) >= size
    BY DEF Failed
  <2>1. \E d \in Dancers : Refuse(d)
    BY DEF Next, vars, Dance, Call, Hand, Start, Grow, Wake, Popen, List, Unlist, End, Stop, StopCron, Count, Pop,
           PoolInv, Bounded, TypeOK
  <2>2. Cardinality(running) = size /\ size \in Nat
    BY <2>1, PoolAssumption DEF Refuse, Full, PoolInv, Bounded, TypeOK
  <2>3. ASSUME NEW t \in Threads PROVE AtWork(t) <=> t \in running
    <3>1. t \in running => AtWork(t)
      BY DEF BusyInv, Busy
    <3>2. (\E d \in Dancers : job[d].to = t) => t \in running
      BY PoolAssumption DEF PoolInv, Bounded, TypeOK, Dealing
    <3>3. thread[t] = "made" => t \in running
      BY DEF PoolInv, Bounded, PoolBounded, Working
    <3>4. thread[t] \in Works \/ free[t] => t \in running
      BY DEF PoolInv, Working
    <3> QED BY <3>1, <3>2, <3>3, <3>4 DEF AtWork, Works
  <2>4. {t \in Threads : AtWork(t)} = running
    <3>1. running \subseteq Threads
      BY DEF PoolInv, Bounded, TypeOK
    <3> QED BY <2>3, <3>1, Zenon
  <2> QED BY <2>2, <2>4, SMTT(40)
<1>2. Spec => []BusyInv
  BY BusyInvInit, BusyInvNext, PoolInvAlways, PTL DEF Spec
<1> QED BY <1>1, <1>2, PoolInvAlways, PTL DEF Spec, RefusedBusy
-----------------------------------------------------------------------------
(* What is handed over is taken, once. *)

\* From the call to Worker.run a new thread is in the hands of the dancer that made it.
Handled(t) == thread[t] = "made" => \E d \in Dancers : job[d].to = t /\ dancer[d] \in {"hand", "start"}
HandledInv == \A t \in Threads : Handled(t)

LEMMA HandledNext == PoolInv /\ HandledInv /\ [Next]_vars => HandledInv'
<1> SUFFICES ASSUME PoolInv, HandledInv, [Next]_vars, NEW u \in Threads, thread'[u] = "made"
             PROVE  \E d \in Dancers : job'[d].to = u /\ dancer'[d] \in {"hand", "start"}
  BY DEF HandledInv, Handled
<1> DEFINE Has(d) == job[d].to = u /\ dancer[d] \in {"hand", "start"}
<1>1. thread[u] = "made" => \E d \in Dancers : Has(d)
  BY DEF HandledInv, Handled
<1>2. ASSUME NEW d \in Dancers, Call(d) PROVE \E e \in Dancers : Has(e)'
  <2>1. PICK t \in Threads :
          /\ IF idle # <<>> THEN t = Head(idle) /\ UNCHANGED thread
                            ELSE thread[t] = "none" /\ thread' = [thread EXCEPT ![t] = "made"]
          /\ job' = [job EXCEPT ![d].to = t]
    BY <1>2 DEF Call
  <2>2. dancer[d] = "call" /\ dancer' = [dancer EXCEPT ![d] = "hand"]
    BY <1>2 DEF Call
  <2>3. CASE thread[u] = "made"
    <3>1. PICK e \in Dancers : Has(e)
      BY <1>1, <2>3
    <3>2. e # d
      BY <2>2, <3>1
    <3> QED BY <2>1, <2>2, <3>1, <3>2 DEF PoolInv, Bounded, TypeOK
  <2>4. CASE thread[u] # "made"
    <3>1. u = t
      BY <2>1, <2>4 DEF PoolInv, Bounded, TypeOK
    <3>2. Has(d)'
      BY <2>1, <2>2, <3>1 DEF PoolInv, Bounded, TypeOK
    <3> QED BY <3>2
  <2> QED BY <2>3, <2>4
<1>3. ASSUME NEW d \in Dancers, Hand(d) PROVE \E e \in Dancers : Has(e)'
  <2>1. UNCHANGED thread /\ dancer[d] = "hand"
    BY <1>3 DEF Hand
  <2>2. PICK e \in Dancers : Has(e)
    BY <1>1, <2>1
  <2>3. Has(e)'
    BY <1>3, <2>1, <2>2 DEF Hand, NewThread, PoolInv, Bounded, TypeOK
  <2> QED BY <2>3
<1>4. ASSUME NEW d \in Dancers, Start(d) PROVE \E e \in Dancers : Has(e)'
  <2>1. thread[u] = "made" /\ job[d].to # u
    BY <1>4 DEF Start, PoolInv, Bounded, TypeOK
  <2>2. PICK e \in Dancers : Has(e)
    BY <1>1, <2>1
  <2>3. Has(e)'
    BY <1>4, <2>1, <2>2 DEF Start, PoolInv, Bounded, TypeOK
  <2> QED BY <2>3
<1>5. ASSUME NEW d \in Dancers, NEW c \in Commands, Dance(d, c) PROVE \E e \in Dancers : Has(e)'
  BY <1>1, <1>5 DEF Dance, workVars, PoolInv, Bounded, TypeOK
<1>6. ASSUME NEW d \in Dancers, Refuse(d) PROVE \E e \in Dancers : Has(e)'
  BY <1>1, <1>6 DEF Refuse, workVars, PoolInv, Bounded, TypeOK
<1>7. ASSUME NEW t \in Threads, Wake(t) \/ Popen(t) \/ List(t) \/ Unlist(t) \/ Stop(t)
      PROVE  \E e \in Dancers : Has(e)'
  <2>1. thread[u] = "made" /\ UNCHANGED danceVars
    BY <1>7 DEF Wake, Popen, List, Unlist, Stop, PoolInv, Bounded, TypeOK
  <2> QED BY <1>1, <2>1 DEF danceVars
<1>8. CASE UNCHANGED <<workVars, danceVars>>
  BY <1>1, <1>8 DEF workVars, danceVars
<1> QED
  BY <1>2, <1>3, <1>4, <1>5, <1>6, <1>7, <1>8 DEF Next, vars, Grow, End, StopCron, Count, Pop

\* "Pass payload to a thread for immediate execution" (SimplePool.__call__): as long as no
\* command has failed, an accepted one is with a dancer whose thread sleeps or is yet to begin,
\* or with a thread that has been woken, starts it, or is about to be begun by its dancer.
Deliverable ==
  ~Failed => \A c \in Commands : command[c] = "accepted" =>
    \/ \E d \in Dancers : dancer[d] = "hand" /\ job[d].cmd = c /\ thread[job[d].to] \in {"made", "wait"}
    \/ \E t \in Threads : payload[t] = c /\
         \/ thread[t] = "popen"
         \/ thread[t] = "wait" /\ free[t]
         \/ thread[t] = "made" /\ free[t] /\ \E d \in Dancers : dancer[d] = "start" /\ job[d].to = t

\* Whatever calls, ends and grow() overlap, no accepted command waits for a wake-up that
\* nobody will give, and none is with a thread that has left its loop.
THEOREM Delivered == Spec => []Deliverable
<1>1. PoolInv /\ BusyInv /\ HandledInv => Deliverable
  <2> SUFFICES ASSUME PoolInv, BusyInv, HandledInv, ~Failed, NEW c \in Commands, command[c] = "accepted"
               PROVE  \/ \E d \in Dancers : dancer[d] = "hand" /\ job[d].cmd = c /\ thread[job[d].to] \in {"made", "wait"}
                      \/ \E t \in Threads : payload[t] = c /\
                           \/ thread[t] = "popen"
                           \/ thread[t] = "wait" /\ free[t]
                           \/ /\ thread[t] = "made" /\ free[t]
                              /\ \E d \in Dancers : dancer[d] = "start" /\ job[d].to = t
    BY DEF Deliverable
  <2>1. ASSUME NEW t \in Threads PROVE thread[t] # "dead"
    BY DEF BusyInv, Busy
  <2>2. CASE \E d \in Dancers : dancer[d] = "hand" /\ job[d].cmd = c
    <3>1. PICK d \in Dancers : dancer[d] = "hand" /\ job[d].cmd = c
      BY <2>2
    <3>2. thread[job[d].to] \in {"made", "wait", "dead"} /\ job[d].to \in Threads
      BY <3>1 DEF PoolInv, Bounded, TypeOK, Dealing
    <3> QED BY <2>1, <3>1, <3>2
  <2>3. CASE ~\E d \in Dancers : dancer[d] = "hand" /\ job[d].cmd = c
    <3>1. PICK t \in Threads : Carries(t, c)
      BY <2>3 DEF PoolInv, Kept
    <3>2. CASE thread[t] = "popen"
      BY <3>1, <3>2 DEF Carries
    <3>3. CASE thread[t] # "popen"
      <4>1. payload[t] = c /\ free[t]
        BY <3>1, <3>3 DEF Carries
      <4>2. thread[t] \in {"made", "wait"}
        BY <2>1, <4>1 DEF PoolInv, Bounded, TypeOK, Working, Works
      <4>3. ASSUME thread[t] = "made"
            PROVE  \E d \in Dancers : dancer[d] = "start" /\ job[d].to = t
        <5>1. PICK d \in Dancers : job[d].to = t /\ dancer[d] \in {"hand", "start"}
          BY <4>3 DEF HandledInv, Handled
        <5>2. dancer[d] # "hand"
          BY <4>1, <5>1 DEF PoolInv, Dealing
        <5> QED BY <5>1, <5>2
      <4> QED BY <4>1, <4>2, <4>3
    <3> QED BY <3>2, <3>3
  <2> QED BY <2>2, <2>3
<1>2. Init => BusyInv /\ HandledInv
  BY BusyInvInit DEF Init, HandledInv, Handled
<1>3. Spec => [](BusyInv /\ HandledInv)
  BY <1>2, BusyInvNext, HandledNext, PoolInvAlways, PTL DEF Spec
<1> QED BY <1>1, <1>3, PoolInvAlways, PTL

\* A command that has been started is over when its process ends, or remains failed: it is never
\* started again, not even by a thread that still has it as its payload.
StartedOnce ==
  [][\A c \in Commands : Started(c) =>
       \/ command'[c] = command[c]
       \/ command[c] = "runs" /\ command'[c] = "ended"]_vars

\* Whatever commands fail and whenever cron is stopped, no thread starts a command twice.
THEOREM RunOnce == Spec => StartedOnce
<1>1. PoolInv /\ [Next]_vars => \A c \in Commands : Started(c) =>
        \/ command'[c] = command[c]
        \/ command[c] = "runs" /\ command'[c] = "ended"
  <2> SUFFICES ASSUME PoolInv, [Next]_vars, NEW c \in Commands, Started(c)
               PROVE  command'[c] = command[c] \/ (command[c] = "runs" /\ command'[c] = "ended")
    OBVIOUS
  <2>1. ASSUME NEW d \in Dancers, Refuse(d) \/ Call(d) PROVE command'[c] = command[c]
    <3>1. command[job[d].cmd] = "new" /\ \E x : command' = [command EXCEPT ![job[d].cmd] = x]
      BY <2>1 DEF Refuse, Call, PoolInv, Dealing
    <3> QED BY <3>1 DEF Started, PoolInv, Bounded, TypeOK
  <2>2. ASSUME NEW t \in Threads, Popen(t) PROVE command'[c] = command[c]
    <3>1. Carries(t, payload[t]) /\ payload[t] \in Commands
      BY <2>2 DEF Popen, Carries, PoolInv, Working, Works
    <3>2. command[payload[t]] = "accepted"
      BY <3>1 DEF PoolInv, Kept
    <3> QED BY <2>2, <3>2 DEF Popen, Started, PoolInv, Bounded, TypeOK
  <2>3. ASSUME NEW e \in Commands, End(e) \/ (Pop /\ e \in subprocs /\ command' = [command EXCEPT ![e] = "ended"])
        PROVE  command'[c] = command[c] \/ (command[c] = "runs" /\ command'[c] = "ended")
    <3>1. command[e] \in {"runs", "ended"} /\ command' = [command EXCEPT ![e] = "ended"]
      BY <2>3 DEF End, PoolInv, Kept
    <3> QED BY <3>1 DEF PoolInv, Bounded, TypeOK
  <2>4. ASSUME Pop PROVE command' = command \/ \E e \in Commands : e \in subprocs /\ command' = [command EXCEPT ![e] = "ended"]
    BY <2>4 DEF Pop, PoolInv, Bounded, TypeOK
  <2>5. ASSUME UNCHANGED command PROVE command'[c] = command[c]
    BY <2>5
  <2> QED
    BY <2>1, <2>2, <2>3, <2>4, <2>5
       DEF Next, vars, Dance, Hand, Start, Grow, Wake, List, Unlist, Stop, StopCron, Count
<1> QED BY <1>1, PoolInvAlways, PTL DEF Spec, StartedOnce
=============================================================================
