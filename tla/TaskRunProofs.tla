---------------------------- MODULE TaskRunProofs ----------------------------
(* Theorems about TaskRun, for any setups, any length of output, any number of  *)
(* calls of terminate_process.                                                  *)
EXTENDS TaskRun, SequenceTheorems, TLAPS

Results == {None, "COMPLETED", "FAILED"}
Mains == {"idle", "made", "loop", "drain", "join", "final", "decide", "lock", "term", "late", "done", "raised"}
Children == {"none", "run", "commit", "except", "exit", "dead"}

Types ==
  /\ task \in Setups
  /\ main \in Mains /\ child \in Children
  /\ process \in {None, "old", "new"}
  /\ buf \in Seq(Nat) /\ pipe \in Seq(Nat) /\ printed \in Seq(Nat)
  /\ tout \in Seq(Nat) /\ output \in Seq(Nat)
  /\ retq \in Results /\ returned \in Results \union {"STOPPED"}
  /\ late \in BOOLEAN /\ broken \in BOOLEAN
  /\ beat \in {"away", "lock", "kill", "wait", "forget"} /\ stops \in Nat

\* Where the main thread is, where the child is.
Course ==
  /\ main \in {"idle", "made"} <=> child = "none"
  /\ main \in {"final", "decide"} /\ Alive => late
  /\ main \in {"lock", "term"} => late \/ broken
  /\ main = "late" => late
  /\ broken => main \in {"lock", "term", "done", "raised"}

\* As long as the heartbeat thread keeps away, self.process is the child.
Alone ==
  stops = 0 =>
    /\ beat = "away"
    /\ main \notin {"idle", "late", "done", "raised"} => process = "new"
    /\ main \in {"late", "done"} => child = "dead"

\* Somebody has sent, or may have sent, SIGTERM to the child or emptied retq.
Touched == stops > 0 \/ main \in {"term", "late", "done", "raised"}

\* What is in retq is what became of the function, and it stays there.
Told ==
  /\ child \in {"none", "run"} => returned = None
  /\ child = "commit" => returned = "COMPLETED"
  /\ child = "except" => returned \in {"COMPLETED", "STOPPED"}
  /\ retq # None => returned # None
  /\ retq = "COMPLETED" => returned = "COMPLETED"
  /\ retq = "FAILED" => returned = "FAILED" \/ Touched
  /\ returned = "STOPPED" => Touched
  /\ returned # None => retq # None \/ Touched

\* w is the end of p, and all that follows the last CLEAROUT of p is in it.
IsTail(w, p) ==
  \E d \in Nat :
    /\ Len(p) = d + Len(w)
    /\ \A i \in 1..Len(w) : w[i] = p[d + i]
    /\ d = 0 \/ \E j \in d..Len(p) : p[j] = Clear

Marked(s) == \E i \in 1..Len(s) : s[i] = Clear
\* The last CLEAROUT of s, if there is one.
LastMark(s) ==
  Marked(s) => \E m \in 1..Len(s) : s[m] = Clear /\ \A i \in (m + 1)..Len(s) : s[i] # Clear

\* What is collected is cut after its last CLEAROUT.
Clean == ~Marked(output) /\ LastMark(tout)

RunInv == Types /\ Course /\ Alone /\ Told /\ ReportTrue /\ Clean

Queued == pipe \o buf
Undisturbed == stops = 0 /\ ~late /\ ~broken /\ (child = "dead" => returned # None)

\* What is collected, and what is still on its way, is the end of what was printed.
TextInv ==
  /\ ~Alive => buf = <<>>
  /\ main \in {"decide", "lock", "term", "late", "done"} => tout = <<>>
  /\ Undisturbed =>
       /\ IsTail(output \o tout \o Queued, printed)
       /\ main \in {"decide", "done"} => pipe = <<>> /\ child = "dead"

USE DEF outVars, childVars, textVars, endVars, beatVars

LEMMA EmptyText == <<>> \in Seq(Nat) /\ Len(<<>>) = 0
OBVIOUS

LEMMA NoneStrings == None \notin {"old", "new", "main", "beat", "COMPLETED", "FAILED", "STOPPED", "TIMEOUT"}
BY SetupAssumption

LEMMA WriteKeeps ==
  ASSUME RunInv, NEW x \in Nat, Write(x)
  PROVE  RunInv'
<1>1. Types'
  BY EmptyText, NoneStrings DEF RunInv, Types, Results, Mains, Children, Write
<1>2. Course' /\ Alone'
  BY NoneStrings DEF RunInv, Types, Children, Course, Alone, Alive, Write
<1>3. Told'
  BY NoneStrings DEF RunInv, Types, Results, Course, Alone, Told, Touched, Alive, Write
<1>4. ReportTrue'
  BY NoneStrings DEF RunInv, Types, Results, Course, Alone, Told, Touched, ReportTrue, Alive, Write
<1>5. Clean'
  BY DEF RunInv, Clean, Marked, LastMark, Write
<1> QED BY <1>1, <1>2, <1>3, <1>4, <1>5 DEF RunInv

LEMMA ChatKeeps ==
  ASSUME RunInv, Chat
  PROVE  RunInv'
<1>1. Types'
  BY EmptyText, NoneStrings DEF RunInv, Types, Results, Mains, Children, Chat
<1>2. Course' /\ Alone'
  BY NoneStrings DEF RunInv, Types, Children, Course, Alone, Alive, Chat
<1>3. Told'
  BY NoneStrings DEF RunInv, Types, Results, Course, Alone, Told, Touched, Alive, Chat
<1>4. ReportTrue'
  BY NoneStrings DEF RunInv, Types, Results, Course, Alone, Told, Touched, ReportTrue, Alive, Chat
<1>5. Clean'
  BY DEF RunInv, Clean, Marked, LastMark, Chat
<1> QED BY <1>1, <1>2, <1>3, <1>4, <1>5 DEF RunInv

LEMMA FeedKeeps ==
  ASSUME RunInv, Feed
  PROVE  RunInv'
<1>1. Types'
  BY EmptyText, NoneStrings DEF RunInv, Types, Results, Mains, Children, Feed
<1>2. Course' /\ Alone'
  BY NoneStrings DEF RunInv, Types, Children, Course, Alone, Alive, Feed
<1>3. Told'
  BY NoneStrings DEF RunInv, Types, Results, Course, Alone, Told, Touched, Alive, Feed
<1>4. ReportTrue'
  BY NoneStrings DEF RunInv, Types, Results, Course, Alone, Told, Touched, ReportTrue, Alive, Feed
<1>5. Clean'
  BY DEF RunInv, Clean, Marked, LastMark, Feed
<1> QED BY <1>1, <1>2, <1>3, <1>4, <1>5 DEF RunInv

LEMMA ReturnKeeps ==
  ASSUME RunInv, NEW o \in {"COMPLETED", "FAILED"}, Return(o)
  PROVE  RunInv'
<1>1. Types'
  BY EmptyText, NoneStrings DEF RunInv, Types, Results, Mains, Children, Return
<1>2. Course' /\ Alone'
  BY NoneStrings DEF RunInv, Types, Children, Course, Alone, Alive, Return
<1>3. Told'
  BY NoneStrings DEF RunInv, Types, Results, Course, Alone, Told, Touched, Alive, Return
<1>4. ReportTrue'
  BY NoneStrings DEF RunInv, Types, Results, Course, Alone, Told, Touched, ReportTrue, Alive, Return
<1>5. Clean'
  BY DEF RunInv, Clean, Marked, LastMark, Return
<1> QED BY <1>1, <1>2, <1>3, <1>4, <1>5 DEF RunInv

LEMMA CommitKeeps ==
  ASSUME RunInv, NEW ok \in BOOLEAN, Commit(ok)
  PROVE  RunInv'
<1>1. Types'
  BY EmptyText, NoneStrings DEF RunInv, Types, Results, Mains, Children, Commit
<1>2. Course' /\ Alone'
  BY NoneStrings DEF RunInv, Types, Children, Course, Alone, Alive, Commit
<1>3. Told'
  BY NoneStrings DEF RunInv, Types, Results, Course, Alone, Told, Touched, Alive, Commit
<1>4. ReportTrue'
  BY NoneStrings DEF RunInv, Types, Results, Course, Alone, Told, Touched, ReportTrue, Alive, Commit
<1>5. Clean'
  BY DEF RunInv, Clean, Marked, LastMark, Commit
<1> QED BY <1>1, <1>2, <1>3, <1>4, <1>5 DEF RunInv

LEMMA PutFailedKeeps ==
  ASSUME RunInv, PutFailed
  PROVE  RunInv'
<1>1. Types'
  BY EmptyText, NoneStrings DEF RunInv, Types, Results, Mains, Children, PutFailed
<1>2. Course' /\ Alone'
  BY NoneStrings DEF RunInv, Types, Children, Course, Alone, Alive, PutFailed
<1>3. Told'
  BY NoneStrings DEF RunInv, Types, Results, Course, Alone, Told, Touched, Alive, PutFailed
<1>4. ReportTrue'
  BY NoneStrings DEF RunInv, Types, Results, Course, Alone, Told, Touched, ReportTrue, Alive, PutFailed
<1>5. Clean'
  BY DEF RunInv, Clean, Marked, LastMark, PutFailed
<1> QED BY <1>1, <1>2, <1>3, <1>4, <1>5 DEF RunInv

LEMMA ExitKeeps ==
  ASSUME RunInv, Exit
  PROVE  RunInv'
<1>1. Types'
  BY EmptyText, NoneStrings DEF RunInv, Types, Results, Mains, Children, Exit
<1>2. Course' /\ Alone'
  BY NoneStrings DEF RunInv, Types, Children, Course, Alone, Alive, Exit
<1>3. Told'
  BY NoneStrings DEF RunInv, Types, Results, Course, Alone, Told, Touched, Alive, Exit
<1>4. ReportTrue'
  BY NoneStrings DEF RunInv, Types, Results, Course, Alone, Told, Touched, ReportTrue, Alive, Exit
<1>5. Clean'
  BY DEF RunInv, Clean, Marked, LastMark, Exit
<1> QED BY <1>1, <1>2, <1>3, <1>4, <1>5 DEF RunInv

LEMMA DieKeeps ==
  ASSUME RunInv, Die
  PROVE  RunInv'
<1>1. Types'
  BY EmptyText, NoneStrings DEF RunInv, Types, Results, Mains, Children, Die
<1>2. Course' /\ Alone'
  BY NoneStrings DEF RunInv, Types, Children, Course, Alone, Alive, Die
<1>3. Told'
  BY NoneStrings DEF RunInv, Types, Results, Course, Alone, Told, Touched, Alive, Die
<1>4. ReportTrue'
  BY NoneStrings DEF RunInv, Types, Results, Course, Alone, Told, Touched, ReportTrue, Alive, Die
<1>5. Clean'
  BY DEF RunInv, Clean, Marked, LastMark, Die
<1> QED BY <1>1, <1>2, <1>3, <1>4, <1>5 DEF RunInv

LEMMA MakeKeeps ==
  ASSUME RunInv, Make
  PROVE  RunInv'
<1>1. Types'
  BY EmptyText, NoneStrings DEF RunInv, Types, Results, Mains, Children, Make
<1>2. Course' /\ Alone'
  BY NoneStrings DEF RunInv, Types, Children, Course, Alone, Alive, Make
<1>3. Told'
  BY NoneStrings DEF RunInv, Types, Results, Course, Alone, Told, Touched, Alive, Make
<1>4. ReportTrue'
  BY NoneStrings DEF RunInv, Types, Results, Course, Alone, Told, Touched, ReportTrue, Alive, Make
<1>5. Clean'
  BY DEF RunInv, Clean, Marked, LastMark, Make
<1> QED BY <1>1, <1>2, <1>3, <1>4, <1>5 DEF RunInv

LEMMA StartKeeps ==
  ASSUME RunInv, Start
  PROVE  RunInv'
<1>1. Types'
  BY EmptyText, NoneStrings DEF RunInv, Types, Results, Mains, Children, Start
<1>2. Course' /\ Alone'
  BY NoneStrings DEF RunInv, Types, Children, Course, Alone, Alive, Start
<1>3. Told'
  BY NoneStrings DEF RunInv, Types, Results, Course, Alone, Told, Touched, Alive, Start
<1>4. ReportTrue'
  BY NoneStrings DEF RunInv, Types, Results, Course, Alone, Told, Touched, ReportTrue, Alive, Start
<1>5. Clean'
  BY DEF RunInv, Clean, Marked, LastMark, Start
<1> QED BY <1>1, <1>2, <1>3, <1>4, <1>5 DEF RunInv

LEMMA CheckKeeps ==
  ASSUME RunInv, Check
  PROVE  RunInv'
<1>1. Types'
  BY EmptyText, NoneStrings DEF RunInv, Types, Results, Mains, Children, Check
<1>2. Course' /\ Alone'
  BY NoneStrings DEF RunInv, Types, Children, Course, Alone, Alive, Check
<1>3. Told'
  BY NoneStrings DEF RunInv, Types, Results, Course, Alone, Told, Touched, Alive, Check
<1>4. ReportTrue'
  BY NoneStrings DEF RunInv, Types, Results, Course, Alone, Told, Touched, ReportTrue, Alive, Check
<1>5. Clean'
  BY DEF RunInv, Clean, Marked, LastMark, Check
<1> QED BY <1>1, <1>2, <1>3, <1>4, <1>5 DEF RunInv

LEMMA GetKeeps ==
  ASSUME RunInv, Get
  PROVE  RunInv'
<1>1. Types'
  BY EmptyText, NoneStrings DEF RunInv, Types, Results, Mains, Children, Get
<1>2. Course' /\ Alone'
  BY NoneStrings DEF RunInv, Types, Children, Course, Alone, Alive, Get
<1>3. Told'
  BY NoneStrings DEF RunInv, Types, Results, Course, Alone, Told, Touched, Alive, Get
<1>4. ReportTrue'
  BY NoneStrings DEF RunInv, Types, Results, Course, Alone, Told, Touched, ReportTrue, Alive, Get
<1>5. Clean'
  BY DEF RunInv, Clean, Marked, LastMark, Get
<1> QED BY <1>1, <1>2, <1>3, <1>4, <1>5 DEF RunInv

LEMMA GetNoiseKeeps ==
  ASSUME RunInv, GetNoise
  PROVE  RunInv'
<1>1. Types'
  BY EmptyText, NoneStrings DEF RunInv, Types, Results, Mains, Children, GetNoise
<1>2. Course' /\ Alone'
  BY NoneStrings DEF RunInv, Types, Children, Course, Alone, Alive, GetNoise
<1>3. Told'
  BY NoneStrings DEF RunInv, Types, Results, Course, Alone, Told, Touched, Alive, GetNoise
<1>4. ReportTrue'
  BY NoneStrings DEF RunInv, Types, Results, Course, Alone, Told, Touched, ReportTrue, Alive, GetNoise
<1>5. Clean'
  BY DEF RunInv, Clean, Marked, LastMark, GetNoise
<1> QED BY <1>1, <1>2, <1>3, <1>4, <1>5 DEF RunInv

LEMMA ClearedText ==
  ASSUME NEW s \in Seq(Nat), LastMark(s)
  PROVE  /\ AfterClear(s) \in Seq(Nat) /\ ~Marked(AfterClear(s))
         /\ Marked(s) => \E m \in 1..Len(s) :
              /\ s[m] = Clear /\ Len(s) = m + Len(AfterClear(s))
              /\ \A i \in 1..Len(AfterClear(s)) : AfterClear(s)[i] = s[m + i]
         /\ ~Marked(s) => AfterClear(s) = s
<1>1. CASE ~Marked(s)
  <2>1. {i \in DOMAIN s : s[i] = Clear} = {}
    BY <1>1 DEF Marked
  <2> QED BY <1>1, <2>1 DEF AfterClear
<1>2. CASE Marked(s)
  <2> DEFINE marks == {i \in DOMAIN s : s[i] = Clear}
  <2>1. PICK m \in 1..Len(s) : s[m] = Clear /\ \A i \in (m + 1)..Len(s) : s[i] # Clear
    BY <1>2 DEF LastMark
  <2>2. m \in marks /\ \A i \in marks : i \in 1..Len(s) /\ i <= m
    BY <2>1
  <2>3. Max(marks) = m
    BY <2>2 DEF Max
  <2>4. marks # {} BY <2>2
  <2>5. AfterClear(s) = SubSeq(s, m + 1, Len(s))
    BY <2>3, <2>4 DEF AfterClear
  <2>6. /\ SubSeq(s, m + 1, Len(s)) \in Seq(Nat) /\ Len(SubSeq(s, m + 1, Len(s))) = Len(s) - m
        /\ \A i \in 1..(Len(s) - m) : SubSeq(s, m + 1, Len(s))[i] = s[m + i]
    BY SubSeqProperties
  <2>7. ~Marked(AfterClear(s))
    BY <2>1, <2>5, <2>6 DEF Marked
  <2> QED BY <1>2, <2>1, <2>5, <2>6, <2>7
<1> QED BY <1>1, <1>2

\* How a text is shortened: what is left out is of no interest.
LEMMA ShorterTail ==
  ASSUME NEW v \in Seq(Nat), NEW w \in Seq(Nat), NEW p \in Seq(Nat), IsTail(w, p),
         NEW e \in Nat, Len(w) = e + Len(v), \A i \in 1..Len(v) : v[i] = w[e + i],
         e = 0 \/ \E j \in e..Len(w) : w[j] = Clear
  PROVE  IsTail(v, p)
<1>1. PICK d \in Nat : /\ Len(p) = d + Len(w)
                       /\ \A i \in 1..Len(w) : w[i] = p[d + i]
                       /\ d = 0 \/ \E j \in d..Len(p) : p[j] = Clear
  BY DEF IsTail
<1>2. Len(p) = (d + e) + Len(v) /\ d + e \in Nat
  BY <1>1
<1>3. \A i \in 1..Len(v) : v[i] = p[(d + e) + i]
  <2> SUFFICES ASSUME NEW i \in 1..Len(v) PROVE v[i] = p[(d + e) + i]
    OBVIOUS
  <2>1. e + i \in 1..Len(w) /\ d + (e + i) = (d + e) + i
    BY <1>1
  <2> QED BY <1>1, <2>1
<1>4. d + e = 0 \/ \E j \in (d + e)..Len(p) : p[j] = Clear
  <2>1. CASE e = 0
    BY <1>1, <2>1
  <2>2. CASE e > 0
    <3>1. PICK j \in e..Len(w) : w[j] = Clear
      BY <2>2
    <3>2. j \in 1..Len(w) /\ d + j \in (d + e)..Len(p)
      BY <1>1, <2>2
    <3> QED BY <1>1, <3>1, <3>2
  <2> QED BY <2>1, <2>2
<1> QED BY <1>2, <1>3, <1>4 DEF IsTail

\* If the whole of it is collected and it holds no CLEAROUT, it is the output.
LEMMA TailAfterClear ==
  ASSUME NEW w \in Seq(Nat), NEW p \in Seq(Nat), IsTail(w, p), ~Marked(w)
  PROVE  w = AfterClear(p)
<1>1. PICK d \in Nat : /\ Len(p) = d + Len(w)
                       /\ \A i \in 1..Len(w) : w[i] = p[d + i]
                       /\ d = 0 \/ \E j \in d..Len(p) : p[j] = Clear
  BY DEF IsTail
<1>2. \A j \in (d + 1)..Len(p) : p[j] # Clear
  <2> SUFFICES ASSUME NEW j \in (d + 1)..Len(p) PROVE p[j] # Clear
    OBVIOUS
  <2>1. j - d \in 1..Len(w) /\ d + (j - d) = j
    BY <1>1
  <2> QED BY <1>1, <2>1 DEF Marked
<1>3. LastMark(p)
  BY <1>1, <1>2 DEF LastMark, Marked
<1>4. AfterClear(p) \in Seq(Nat) /\ Len(AfterClear(p)) = Len(w)
      /\ \A i \in 1..Len(w) : AfterClear(p)[i] = w[i]
  <2>1. CASE d = 0
    <3>1. ~Marked(p) BY <1>2, <2>1 DEF Marked
    <3> QED BY <1>1, <1>3, <2>1, <3>1, ClearedText
  <2>2. CASE d > 0
    <3>1. Marked(p) BY <1>1, <2>2 DEF Marked
    <3>2. PICK m \in 1..Len(p) :
              /\ p[m] = Clear /\ Len(p) = m + Len(AfterClear(p))
              /\ \A i \in 1..Len(AfterClear(p)) : AfterClear(p)[i] = p[m + i]
      BY <1>3, <3>1, ClearedText
    <3>3. ~Marked(AfterClear(p)) /\ AfterClear(p) \in Seq(Nat)
      BY <1>3, ClearedText
    <3>4. m <= d BY <1>2, <3>2
    <3>5. d <= m
      <4> SUFFICES ASSUME m < d PROVE FALSE
        BY <3>2
      <4>1. PICK j \in d..Len(p) : p[j] = Clear
        BY <1>1, <2>2
      <4>2. j - m \in 1..Len(AfterClear(p)) /\ m + (j - m) = j
        BY <3>2, <3>3
      <4> QED BY <3>2, <3>3, <4>1, <4>2 DEF Marked
    <3>6. m = d
      BY <3>4, <3>5
    <3>7. Len(AfterClear(p)) = Len(w)
      BY <1>1, <3>2, <3>3, <3>6
    <3> QED BY <1>1, <3>2, <3>3, <3>6, <3>7
  <2> QED BY <2>1, <2>2
<1> QED BY <1>4, SeqEqual

LEMMA CollectedText ==
  ASSUME RunInv
  PROVE  /\ Collected \in Seq(Nat) /\ ~Marked(Collected)
         /\ Marked(tout) => Collected = AfterClear(tout)
         /\ ~Marked(tout) => Collected = output \o tout
<1>1. output \in Seq(Nat) /\ tout \in Seq(Nat) /\ ~Marked(output) /\ LastMark(tout)
  BY DEF RunInv, Types, Clean
<1>2. Clear \in Range(tout) <=> Marked(tout)
  <2>1. DOMAIN tout = 1..Len(tout) BY <1>1
  <2> QED BY <2>1 DEF Range, Marked
<1>3. CASE Marked(tout)
  BY <1>1, <1>2, <1>3, ClearedText DEF Collected
<1>4. CASE ~Marked(tout)
  <2>1. Collected = output \o tout
    BY <1>2, <1>4 DEF Collected
  <2>2. output \o tout \in Seq(Nat) /\ Len(output \o tout) = Len(output) + Len(tout)
        /\ \A i \in 1..Len(output \o tout) :
              (output \o tout)[i] = IF i <= Len(output) THEN output[i] ELSE tout[i - Len(output)]
    BY <1>1, ConcatProperties
  <2>3. ~Marked(output \o tout)
    BY <1>1, <1>4, <2>2 DEF Marked
  <2> QED BY <1>4, <2>1, <2>2, <2>3
<1> QED BY <1>3, <1>4

\* What a failed save leaves: the output it had, or nothing.
LEMMA CutText ==
  ASSUME RunInv
  PROVE  CutBack = IF Marked(tout) THEN <<>> ELSE output
<1>1. output \in Seq(Nat) /\ tout \in Seq(Nat) /\ ~Marked(output) /\ LastMark(tout)
  BY DEF RunInv, Types, Clean
<1>2. CASE Marked(tout)
  <2>1. Len(Collected) < Len(tout) /\ Collected \in Seq(Nat)
    BY <1>1, <1>2, CollectedText, ClearedText
  <2> QED BY <1>1, <1>2, <2>1, SubSeqEmpty DEF CutBack
<1>3. CASE ~Marked(tout)
  <2>1. Collected = output \o tout
    BY <1>3, CollectedText
  <2>2. output \o tout \in Seq(Nat) /\ Len(output \o tout) = Len(output) + Len(tout)
        /\ \A i \in 1..Len(output) : (output \o tout)[i] = output[i]
    BY <1>1, ConcatProperties
  <2>3. CutBack = SubSeq(output \o tout, 1, Len(output))
    BY <1>1, <2>1, <2>2 DEF CutBack
  <2>4. /\ CutBack \in Seq(Nat) /\ Len(CutBack) = Len(output)
        /\ \A i \in 1..Len(output) : CutBack[i] = output[i]
    BY <1>1, <2>2, <2>3
  <2>5. CutBack = output
    BY <1>1, <2>4, SeqEqual
  <2> QED BY <1>3, <2>5
<1> QED BY <1>2, <1>3

LEMMA SaveKeeps ==
  ASSUME RunInv, NEW ok \in BOOLEAN, Save(ok)
  PROVE  RunInv'
<1>1. Types'
  <2>1. output' \in {output, Collected, CutBack} /\ tout' \in {<<>>, tout}
    BY DEF Save
  <2>2. output' \in Seq(Nat) /\ tout' \in Seq(Nat)
    BY <2>1, EmptyText, CollectedText, CutText DEF RunInv, Types
  <2> QED BY <2>2 DEF RunInv, Types, Mains, Save
<1>2. Course' /\ Alone'
  BY NoneStrings DEF RunInv, Types, Course, Alone, Alive, Save
<1>3. Told'
  BY NoneStrings DEF RunInv, Types, Results, Course, Alone, Told, Touched, Alive, Save
<1>4. ReportTrue'
  BY NoneStrings DEF RunInv, Types, Results, Course, Alone, Told, ReportTrue, Alive, Save
<1>5. Clean'
  <2>1. output' \in {output, Collected, CutBack} /\ tout' \in {<<>>, tout}
    BY DEF Save
  <2>2. CutBack \in {<<>>, output} /\ ~Marked(<<>>) /\ ~Marked(Collected)
    BY EmptyText, CollectedText, CutText DEF Marked
  <2>3. ~Marked(output') /\ LastMark(tout')
    BY <2>1, <2>2 DEF RunInv, Clean, LastMark
  <2> QED BY <2>3 DEF Clean, Marked, LastMark
<1> QED BY <1>1, <1>2, <1>3, <1>4, <1>5 DEF RunInv

LEMMA JoinKeeps ==
  ASSUME RunInv, Join
  PROVE  RunInv'
<1>1. Types'
  BY EmptyText, NoneStrings DEF RunInv, Types, Results, Mains, Children, Join
<1>2. Course' /\ Alone'
  BY NoneStrings DEF RunInv, Types, Children, Course, Alone, Alive, Join
<1>3. Told'
  BY NoneStrings DEF RunInv, Types, Results, Course, Alone, Told, Touched, Alive, Join
<1>4. ReportTrue'
  BY NoneStrings DEF RunInv, Types, Results, Course, Alone, Told, Touched, ReportTrue, Alive, Join
<1>5. Clean'
  BY DEF RunInv, Clean, Marked, LastMark, Join
<1> QED BY <1>1, <1>2, <1>3, <1>4, <1>5 DEF RunInv

LEMMA BreakKeeps ==
  ASSUME RunInv, Break
  PROVE  RunInv'
<1>1. Types'
  BY EmptyText, NoneStrings DEF RunInv, Types, Results, Mains, Children, Break
<1>2. Course' /\ Alone'
  BY NoneStrings DEF RunInv, Types, Children, Course, Alone, Alive, Break
<1>3. Told'
  BY NoneStrings DEF RunInv, Types, Results, Course, Alone, Told, Touched, Alive, Break
<1>4. ReportTrue'
  BY NoneStrings DEF RunInv, Types, Results, Course, Alone, Told, Touched, ReportTrue, Alive, Break
<1>5. Clean'
  BY EmptyText DEF RunInv, Clean, Marked, LastMark, Break
<1> QED BY <1>1, <1>2, <1>3, <1>4, <1>5 DEF RunInv

LEMMA DrainedKeeps ==
  ASSUME RunInv, Drained
  PROVE  RunInv'
<1>1. Types'
  BY EmptyText, CollectedText DEF RunInv, Types, Mains, LastOutput, Drained
<1>2. Course' /\ Alone'
  BY NoneStrings DEF RunInv, Types, Children, Course, Alone, Alive, Drained
<1>3. Told'
  BY NoneStrings DEF RunInv, Types, Results, Course, Alone, Told, Touched, Alive, Drained
<1>4. ReportTrue'
  BY NoneStrings DEF RunInv, Types, Results, Course, Alone, Told, Touched, ReportTrue, Alive, Drained
<1>5. Clean'
  BY EmptyText, CollectedText DEF RunInv, Clean, Marked, LastMark, LastOutput, Drained
<1> QED BY <1>1, <1>2, <1>3, <1>4, <1>5 DEF RunInv

LEMMA DecideKeeps ==
  ASSUME RunInv, Decide
  PROVE  RunInv'
<1>1. Types'
  BY EmptyText, NoneStrings DEF RunInv, Types, Results, Mains, Children, Decide, Verdict
<1>2. Course' /\ Alone'
  BY NoneStrings DEF RunInv, Types, Children, Course, Alone, Alive, Decide, Verdict
<1>3. Told'
  BY NoneStrings DEF RunInv, Types, Results, Course, Alone, Told, Touched, Alive, Decide, Verdict
<1>4. ReportTrue'
  BY NoneStrings DEF RunInv, Types, Results, Course, Alone, Told, Touched, ReportTrue, Alive, Decide, Verdict
<1>5. Clean'
  BY DEF RunInv, Clean, Marked, LastMark, Decide
<1> QED BY <1>1, <1>2, <1>3, <1>4, <1>5 DEF RunInv

LEMMA TerminateKeeps ==
  ASSUME RunInv, Terminate
  PROVE  RunInv'
<1>1. Types'
  <2>1. /\ UNCHANGED <<task, process, printed, tout, output, late, broken, beat, stops>>
        /\ child' \in {child, "except", "exit", "dead"} /\ returned' \in {returned, "STOPPED"}
        /\ buf' \in {buf, <<>>} /\ retq' \in {retq, None} /\ pipe' = <<>> /\ main' \in {"raised", "term"}
    BY DEF Terminate, Signal, Caught, Killed, Flushed
  <2>2. buf' \in Seq(Nat) /\ pipe' \in Seq(Nat)
    BY <2>1, EmptyText DEF RunInv, Types
  <2>3. retq' \in Results /\ returned' \in Results \union {"STOPPED"}
    BY <2>1 DEF RunInv, Types, Results
  <2> QED BY <2>1, <2>2, <2>3 DEF RunInv, Types, Mains, Children
<1>2. Course' /\ Alone'
  BY NoneStrings DEF RunInv, Types, Children, Course, Alone, Alive, Terminate, Signal, Caught, Killed, Flushed
<1>3. Told'
  BY NoneStrings DEF RunInv, Types, Results, Course, Alone, Told, Touched, Alive, Terminate, Signal, Caught, Killed, Flushed
<1>4. ReportTrue'
  BY NoneStrings DEF RunInv, Types, Results, Course, Alone, Told, Touched, ReportTrue, Alive, Terminate, Signal, Caught, Killed, Flushed
<1>5. Clean'
  BY DEF RunInv, Clean, Marked, LastMark, Terminate
<1> QED BY <1>1, <1>2, <1>3, <1>4, <1>5 DEF RunInv

LEMMA JoinedKeeps ==
  ASSUME RunInv, Joined
  PROVE  RunInv'
<1>1. Types'
  BY EmptyText, NoneStrings DEF RunInv, Types, Results, Mains, Children, Joined, Ended
<1>2. Course' /\ Alone'
  BY NoneStrings DEF RunInv, Types, Children, Course, Alone, Alive, Joined, Ended
<1>3. Told'
  BY NoneStrings DEF RunInv, Types, Results, Course, Alone, Told, Touched, Alive, Joined, Ended
<1>4. ReportTrue'
  BY NoneStrings DEF RunInv, Types, Results, Course, Alone, Told, Touched, ReportTrue, Alive, Joined, Ended
<1>5. Clean'
  BY DEF RunInv, Clean, Marked, LastMark, Joined
<1> QED BY <1>1, <1>2, <1>3, <1>4, <1>5 DEF RunInv

LEMMA TimedOutKeeps ==
  ASSUME RunInv, TimedOut
  PROVE  RunInv'
<1>1. Types'
  BY EmptyText, NoneStrings DEF RunInv, Types, Results, Mains, Children, TimedOut
<1>2. Course' /\ Alone'
  BY NoneStrings DEF RunInv, Types, Children, Course, Alone, Alive, TimedOut
<1>3. Told'
  BY NoneStrings DEF RunInv, Types, Results, Course, Alone, Told, Touched, Alive, TimedOut
<1>4. ReportTrue'
  BY NoneStrings DEF RunInv, Types, Results, Course, Alone, Told, Touched, ReportTrue, Alive, TimedOut
<1>5. Clean'
  BY DEF RunInv, Clean, Marked, LastMark, TimedOut
<1> QED BY <1>1, <1>2, <1>3, <1>4, <1>5 DEF RunInv

LEMMA StopKeeps ==
  ASSUME RunInv, Stop
  PROVE  RunInv'
<1>1. Types'
  BY EmptyText, NoneStrings DEF RunInv, Types, Results, Mains, Children, Stop
<1>2. Course' /\ Alone'
  BY NoneStrings DEF RunInv, Types, Children, Course, Alone, Alive, Stop
<1>3. Told'
  BY NoneStrings DEF RunInv, Types, Results, Course, Alone, Told, Touched, Alive, Stop
<1>4. ReportTrue'
  BY NoneStrings DEF RunInv, Types, Results, Course, Alone, Told, Touched, ReportTrue, Alive, Stop
<1>5. Clean'
  BY DEF RunInv, Clean, Marked, LastMark, Stop
<1> QED BY <1>1, <1>2, <1>3, <1>4, <1>5 DEF RunInv

LEMMA FlushKeeps ==
  ASSUME RunInv, Flush
  PROVE  RunInv'
<1>1. Types'
  <2>1. /\ UNCHANGED <<task, main, process, child, buf, returned, printed, tout, output, late, broken, stops>>
        /\ pipe' \in {pipe, <<>>} /\ retq' \in {retq, None} /\ beat' = "kill"
    BY DEF Flush, Flushed
  <2>2. buf' \in Seq(Nat) /\ pipe' \in Seq(Nat)
    BY <2>1, EmptyText DEF RunInv, Types
  <2>3. retq' \in Results /\ returned' \in Results \union {"STOPPED"}
    BY <2>1 DEF RunInv, Types, Results
  <2> QED BY <2>1, <2>2, <2>3 DEF RunInv, Types, Mains, Children
<1>2. Course' /\ Alone'
  BY NoneStrings DEF RunInv, Types, Children, Course, Alone, Alive, Flush, Flushed
<1>3. Told'
  BY NoneStrings DEF RunInv, Types, Results, Course, Alone, Told, Touched, Alive, Flush, Flushed
<1>4. ReportTrue'
  BY NoneStrings DEF RunInv, Types, Results, Course, Alone, Told, Touched, ReportTrue, Alive, Flush, Flushed
<1>5. Clean'
  BY DEF RunInv, Clean, Marked, LastMark, Flush
<1> QED BY <1>1, <1>2, <1>3, <1>4, <1>5 DEF RunInv

LEMMA KillKeeps ==
  ASSUME RunInv, Kill
  PROVE  RunInv'
<1>1. Types'
  <2>1. /\ UNCHANGED <<task, main, process, pipe, printed, tout, output, late, broken, stops>>
        /\ child' \in {child, "except", "exit", "dead"} /\ returned' \in {returned, "STOPPED"}
        /\ buf' \in {buf, <<>>} /\ retq' \in {retq, None} /\ beat' \in {"wait", "forget"}
    BY DEF Kill, Signal, Caught, Killed
  <2>2. buf' \in Seq(Nat) /\ pipe' \in Seq(Nat)
    BY <2>1, EmptyText DEF RunInv, Types
  <2>3. retq' \in Results /\ returned' \in Results \union {"STOPPED"}
    BY <2>1 DEF RunInv, Types, Results
  <2> QED BY <2>1, <2>2, <2>3 DEF RunInv, Types, Mains, Children
<1>2. Course' /\ Alone'
  BY NoneStrings DEF RunInv, Types, Children, Course, Alone, Alive, Kill, Signal, Caught, Killed
<1>3. Told'
  BY NoneStrings DEF RunInv, Types, Results, Course, Alone, Told, Touched, Alive, Kill, Signal, Caught, Killed
<1>4. ReportTrue'
  BY NoneStrings DEF RunInv, Types, Results, Course, Alone, Told, Touched, ReportTrue, Alive, Kill, Signal, Caught, Killed
<1>5. Clean'
  BY DEF RunInv, Clean, Marked, LastMark, Kill
<1> QED BY <1>1, <1>2, <1>3, <1>4, <1>5 DEF RunInv

LEMMA WaitedKeeps ==
  ASSUME RunInv, Waited
  PROVE  RunInv'
<1>1. Types'
  BY EmptyText, NoneStrings DEF RunInv, Types, Results, Mains, Children, Waited
<1>2. Course' /\ Alone'
  BY NoneStrings DEF RunInv, Types, Children, Course, Alone, Alive, Waited
<1>3. Told'
  BY NoneStrings DEF RunInv, Types, Results, Course, Alone, Told, Touched, Alive, Waited
<1>4. ReportTrue'
  BY NoneStrings DEF RunInv, Types, Results, Course, Alone, Told, Touched, ReportTrue, Alive, Waited
<1>5. Clean'
  BY DEF RunInv, Clean, Marked, LastMark, Waited
<1> QED BY <1>1, <1>2, <1>3, <1>4, <1>5 DEF RunInv

LEMMA ForgetKeeps ==
  ASSUME RunInv, Forget
  PROVE  RunInv'
<1>1. Types'
  BY EmptyText, NoneStrings DEF RunInv, Types, Results, Mains, Children, Forget
<1>2. Course' /\ Alone'
  BY NoneStrings DEF RunInv, Types, Children, Course, Alone, Alive, Forget
<1>3. Told'
  BY NoneStrings DEF RunInv, Types, Results, Course, Alone, Told, Touched, Alive, Forget
<1>4. ReportTrue'
  BY NoneStrings DEF RunInv, Types, Results, Course, Alone, Told, Touched, ReportTrue, Alive, Forget
<1>5. Clean'
  BY DEF RunInv, Clean, Marked, LastMark, Forget
<1> QED BY <1>1, <1>2, <1>3, <1>4, <1>5 DEF RunInv

LEMMA DeadlineKeeps ==
  ASSUME RunInv, Deadline
  PROVE  RunInv'
<1>1. Types'
  BY EmptyText, NoneStrings DEF RunInv, Types, Results, Mains, Children, Deadline
<1>2. Course' /\ Alone'
  BY NoneStrings DEF RunInv, Types, Children, Course, Alone, Alive, Deadline
<1>3. Told'
  BY NoneStrings DEF RunInv, Types, Results, Course, Alone, Told, Touched, Alive, Deadline
<1>4. ReportTrue'
  BY NoneStrings DEF RunInv, Types, Results, Course, Alone, Told, Touched, ReportTrue, Alive, Deadline
<1>5. Clean'
  BY DEF RunInv, Clean, Marked, LastMark, Deadline
<1> QED BY <1>1, <1>2, <1>3, <1>4, <1>5 DEF RunInv

LEMMA RunInvInit == Init => RunInv
<1> SUFFICES ASSUME Init PROVE RunInv
  OBVIOUS
<1>1. Types BY EmptyText DEF Init, Types, Results, Mains, Children
<1>2. Course /\ Alone /\ Told BY NoneStrings DEF Init, Course, Alone, Told, Alive
<1>3. ReportTrue BY DEF Init, ReportTrue
<1>4. Clean BY EmptyText DEF Init, Clean, Marked, LastMark
<1> QED BY <1>1, <1>2, <1>3, <1>4 DEF RunInv

LEMMA RunInvNext == RunInv /\ [Next]_vars => RunInv'
<1> SUFFICES ASSUME RunInv, [Next]_vars PROVE RunInv'
  OBVIOUS
<1>1. CASE UNCHANGED vars
  BY <1>1 DEF RunInv, Types, Course, Alone, Told, Touched, ReportTrue, Clean, Marked, LastMark, Alive, vars
<1>2. CASE Execute
  BY <1>2, MakeKeeps, StartKeeps, CheckKeeps, GetKeeps, GetNoiseKeeps, SaveKeeps, JoinKeeps, DrainedKeeps,
     DecideKeeps, TerminateKeeps, JoinedKeeps, TimedOutKeeps DEF Execute
<1>3. CASE Child
  BY <1>3, FeedKeeps, CommitKeeps, PutFailedKeeps, ExitKeeps DEF Child
<1>4. CASE Beat
  BY <1>4, FlushKeeps, KillKeeps, WaitedKeeps, ForgetKeeps DEF Beat
<1>5. CASE Stop \/ Deadline \/ Break \/ Chat \/ Die
  BY <1>5, StopKeeps, DeadlineKeeps, BreakKeeps, ChatKeeps, DieKeeps
<1>6. CASE \E x \in {Clear, Len(printed) + 1} : Write(x)
  <2>1. Clear \in Nat /\ Len(printed) + 1 \in Nat
    BY DEF Clear, RunInv, Types
  <2> QED BY <1>6, <2>1, WriteKeeps
<1>7. CASE \E o \in {"COMPLETED", "FAILED"} : Return(o)
  BY <1>7, ReturnKeeps
<1> QED BY <1>1, <1>2, <1>3, <1>4, <1>5, <1>6, <1>7 DEF Next

LEMMA RunInvAlways == Spec => []RunInv
BY RunInvInit, RunInvNext, PTL DEF Spec

\* What execute() reports is what became of the task, whenever it was stopped or late, its
\* executor told of a SystemExit or could not commit, or the loop broke.
THEOREM ReportsTrue == Spec => []ReportTrue
BY RunInvAlways, PTL DEF RunInv

\* execute() leaves no child behind, unless the heartbeat thread stopped the task.
THEOREM NoneLeft == Spec => []NoStray
<1>1. RunInv => NoStray
  BY DEF RunInv, Alone, NoStray
<1> QED BY <1>1, RunInvAlways, PTL

LEMMA TailAppend ==
  ASSUME NEW w \in Seq(Nat), NEW p \in Seq(Nat), IsTail(w, p), NEW x \in Nat
  PROVE  IsTail(Append(w, x), Append(p, x))
<1>1. PICK d \in Nat : /\ Len(p) = d + Len(w)
                       /\ \A i \in 1..Len(w) : w[i] = p[d + i]
                       /\ d = 0 \/ \E j \in d..Len(p) : p[j] = Clear
  BY DEF IsTail
<1>2. /\ Len(Append(w, x)) = Len(w) + 1 /\ Append(w, x)[Len(w) + 1] = x
      /\ \A i \in 1..Len(w) : Append(w, x)[i] = w[i]
      /\ Len(Append(p, x)) = Len(p) + 1 /\ Append(p, x)[Len(p) + 1] = x
      /\ \A i \in 1..Len(p) : Append(p, x)[i] = p[i]
  BY AppendProperties
<1>3. Len(Append(p, x)) = d + Len(Append(w, x))
  BY <1>1, <1>2
<1>4. \A i \in 1..Len(Append(w, x)) : Append(w, x)[i] = Append(p, x)[d + i]
  <2> SUFFICES ASSUME NEW i \in 1..Len(Append(w, x)) PROVE Append(w, x)[i] = Append(p, x)[d + i]
    OBVIOUS
  <2>1. CASE i = Len(w) + 1
    <3>1. d + i = Len(p) + 1 BY <1>1, <2>1
    <3> QED BY <1>2, <2>1, <3>1
  <2>2. CASE i \in 1..Len(w)
    <3>1. d + i \in 1..Len(p) BY <1>1, <2>2
    <3> QED BY <1>1, <1>2, <2>2, <3>1
  <2>3. i = Len(w) + 1 \/ i \in 1..Len(w)
    <3>1. i \in 1..(Len(w) + 1) BY <1>2
    <3>2. Len(w) \in Nat OBVIOUS
    <3> QED BY <3>1, <3>2
  <2> QED BY <2>1, <2>2, <2>3
<1>5. d = 0 \/ \E j \in d..Len(Append(p, x)) : Append(p, x)[j] = Clear
  <2> SUFFICES ASSUME d # 0 PROVE \E j \in d..Len(Append(p, x)) : Append(p, x)[j] = Clear
    OBVIOUS
  <2>1. PICK j \in d..Len(p) : p[j] = Clear
    BY <1>1
  <2>2. j \in 1..Len(p) /\ j \in d..Len(Append(p, x))
    BY <1>2
  <2> QED BY <1>2, <2>1, <2>2
<1> QED BY <1>3, <1>4, <1>5 DEF IsTail

LEMMA AppendLast ==
  ASSUME NEW a \in Seq(Nat), NEW b \in Seq(Nat), NEW x \in Nat
  PROVE  a \o Append(b, x) = Append(a \o b, x)
<1>1. <<x>> \in Seq(Nat) /\ a \o b \in Seq(Nat)
  OBVIOUS
<1>2. Append(b, x) = b \o <<x>> /\ Append(a \o b, x) = (a \o b) \o <<x>>
  BY <1>1, AppendIsConcat
<1> QED BY <1>1, <1>2, ConcatAssociative

LEMMA MovedOn ==
  ASSUME NEW a \in Seq(Nat), NEW b \in Seq(Nat), b # <<>>
  PROVE  Append(a, Head(b)) \o Tail(b) = a \o b
<1>1. Head(b) \in Nat /\ Tail(b) \in Seq(Nat) /\ <<Head(b)>> \in Seq(Nat)
  BY HeadTailProperties
<1>2. b = <<Head(b)>> \o Tail(b)
  <2>1. /\ Len(Tail(b)) = Len(b) - 1 /\ Len(b) > 0
        /\ \A i \in 1..Len(Tail(b)) : Tail(b)[i] = b[i + 1]
    BY HeadTailProperties, EmptySeq
  <2>2. /\ <<Head(b)>> \o Tail(b) \in Seq(Nat) /\ Len(<<Head(b)>> \o Tail(b)) = Len(b)
        /\ \A i \in 1..Len(b) :
              (<<Head(b)>> \o Tail(b))[i] = IF i <= 1 THEN Head(b) ELSE Tail(b)[i - 1]
    BY <1>1, <2>1, ConcatProperties
  <2>3. \A i \in 1..Len(b) : b[i] = (<<Head(b)>> \o Tail(b))[i]
    BY <2>1, <2>2, SMTT(40)
  <2> QED BY <2>2, <2>3, SeqEqual
<1>3. Append(a, Head(b)) = a \o <<Head(b)>>
  BY <1>1, AppendIsConcat
<1>4. (a \o <<Head(b)>>) \o Tail(b) = a \o (<<Head(b)>> \o Tail(b))
  BY <1>1, ConcatAssociative, SMTT(40)
<1> QED BY <1>2, <1>3, <1>4, Zenon

LEMMA TextInvInit == Init => TextInv
<1> SUFFICES ASSUME Init PROVE TextInv
  OBVIOUS
<1>1. ~Alive /\ buf = <<>> /\ tout = <<>> /\ main = "idle"
  BY DEF Init, Alive
<1>2. output \o tout \o Queued = <<>>
  BY ConcatEmptySeq, EmptyText DEF Init, Queued
<1>3. IsTail(<<>>, printed)
  BY EmptyText DEF Init, IsTail
<1> QED BY <1>1, <1>2, <1>3 DEF TextInv

\* Steps that move no text and do not end the execution.
LEMMA SilentKeeps ==
  ASSUME RunInv, TextInv, UNCHANGED <<buf, pipe, printed, tout, output>>,
         Alive' \/ buf = <<>>, Undisturbed' => Undisturbed,
         main' \in {"decide", "lock", "term", "late", "done"} => tout = <<>>,
         main' \in {"decide", "done"} /\ Undisturbed' => pipe = <<>> /\ child' = "dead"
  PROVE  TextInv'
BY DEF TextInv, Queued, IsTail

LEMMA ExecuteText ==
  ASSUME RunInv, TextInv, Make \/ Start \/ Check \/ GetNoise \/ Join \/ Decide \/ TimedOut
  PROVE  TextInv'
<1>1. UNCHANGED <<buf, pipe, printed, tout, output, returned, stops, late, broken>>
  BY DEF Make, Start, Check, GetNoise, Join, Decide, TimedOut
<1>2. Alive' \/ buf = <<>>
  BY DEF TextInv, Alive, Make, Start, Check, GetNoise, Join, Decide, TimedOut
<1>3. Undisturbed' => Undisturbed
  BY <1>1 DEF Undisturbed, RunInv, Types, Course, Make, Start, Check, GetNoise, Join, Decide, TimedOut
<1>4. main' \in {"decide", "lock", "term", "late", "done"} => tout = <<>> /\ main \in {"decide", "late"}
  BY DEF TextInv, Make, Start, Check, GetNoise, Join, Decide, TimedOut
<1>5. main' \in {"decide", "done"} /\ Undisturbed' => pipe = <<>> /\ child' = "dead"
  <2>1. CASE main = "late"
    BY <1>1, <2>1 DEF Undisturbed, RunInv, Course
  <2>2. CASE main = "decide"
    BY <1>3, <2>2 DEF TextInv, Make, Start, Check, GetNoise, Join, Decide, TimedOut
  <2> QED BY <1>4, <2>1, <2>2
<1> QED BY <1>1, <1>2, <1>3, <1>4, <1>5, SilentKeeps

LEMMA ChildText ==
  ASSUME RunInv, TextInv,
         Chat \/ PutFailed \/ Exit \/ Deadline \/ (\E ok \in BOOLEAN : Commit(ok))
           \/ (\E o \in {"COMPLETED", "FAILED"} : Return(o))
  PROVE  TextInv'
<1>1. UNCHANGED <<buf, pipe, printed, tout, output, stops, main, broken>>
  BY DEF Chat, PutFailed, Exit, Deadline, Commit, Return
<1>2. Alive' \/ buf = <<>>
  BY DEF TextInv, Alive, Chat, PutFailed, Exit, Deadline, Commit, Return
<1>3. Undisturbed' => Undisturbed
  BY <1>1 DEF Undisturbed, RunInv, Types, Chat, PutFailed, Exit, Deadline, Commit, Return
<1>4. main' \in {"decide", "done"} /\ Undisturbed' => pipe = <<>> /\ child' = "dead"
  BY <1>1, <1>3 DEF TextInv, Chat, PutFailed, Exit, Deadline, Commit, Return
<1> QED BY <1>1, <1>2, <1>3, <1>4, SilentKeeps DEF TextInv

\* Steps after which the output is nobody's promise.
LEMMA DisturbedText ==
  ASSUME RunInv, TextInv,
         Die \/ Stop \/ Flush \/ Kill \/ Waited \/ Forget \/ Break \/ Terminate \/ Joined
  PROVE  TextInv'
<1>1. ~Undisturbed'
  BY DEF Undisturbed, RunInv, Types, Course, Alone, Told,
         Die, Stop, Flush, Kill, Waited, Forget, Break, Terminate, Joined
<1>2. ~Alive' => buf' = <<>>
  BY DEF TextInv, Alive, Die, Stop, Flush, Kill, Waited, Forget, Break, Terminate, Joined,
         Signal, Caught, Killed
<1>3. main' \in {"decide", "lock", "term", "late", "done"} => tout' = <<>>
  BY DEF TextInv, Die, Stop, Flush, Kill, Waited, Forget, Break, Terminate, Joined
<1> QED BY <1>1, <1>2, <1>3 DEF TextInv

LEMMA WriteText ==
  ASSUME RunInv, TextInv, NEW x \in Nat, Write(x)
  PROVE  TextInv'
<1>1. /\ buf \in Seq(Nat) /\ pipe \in Seq(Nat) /\ tout \in Seq(Nat)
      /\ output \in Seq(Nat) /\ printed \in Seq(Nat)
  BY DEF RunInv, Types
<1>2. Alive' /\ (main' \in {"decide", "lock", "term", "late", "done"} => tout' = <<>>)
  BY DEF TextInv, Alive, Write
<1>3. ASSUME Undisturbed' PROVE IsTail(output \o tout \o Queued, printed)' /\ main' \notin {"decide", "done"}
  <2>1. Undisturbed /\ IsTail(output \o tout \o Queued, printed) /\ main \notin {"decide", "done"}
    BY <1>3 DEF Undisturbed, TextInv, Write
  <2>2. Queued' = Append(Queued, x) /\ Queued \in Seq(Nat)
    BY <1>1, AppendLast, ConcatProperties DEF Queued, Write
  <2>3. (output \o tout \o Queued)' = Append(output \o tout \o Queued, x)
    BY <1>1, <2>2, AppendLast, ConcatProperties DEF Write
  <2>4. IsTail(Append(output \o tout \o Queued, x), Append(printed, x))
    BY <1>1, <2>1, <2>2, TailAppend, ConcatProperties
  <2> QED BY <2>1, <2>3, <2>4 DEF Write
<1> QED BY <1>2, <1>3 DEF TextInv

LEMMA FeedText ==
  ASSUME RunInv, TextInv, Feed
  PROVE  TextInv'
<1>1. buf \in Seq(Nat) /\ pipe \in Seq(Nat) /\ buf # <<>>
  BY DEF RunInv, Types, Feed
<1>2. Queued' = Queued
  BY <1>1, MovedOn DEF Queued, Feed
<1>3. UNCHANGED <<printed, tout, output, main, child, stops, late, broken, returned>>
  BY DEF Feed
<1>4. Alive' /\ (Undisturbed' => Undisturbed)
  BY <1>3 DEF Feed, Alive, Undisturbed
<1>5. main' \in {"decide", "done"} => ~Undisturbed
  BY <1>3 DEF Feed, Alive, TextInv
<1> QED BY <1>2, <1>3, <1>4, <1>5 DEF TextInv

LEMMA Regrouped ==
  ASSUME NEW a \in Seq(Nat), NEW b \in Seq(Nat), NEW c \in Seq(Nat)
  PROVE  (a \o b) \o c = a \o (b \o c)
BY ConcatAssociative, SMTT(40)

LEMMA PassedOn ==
  \A o, t, p, b \in Seq(Nat) :
    p # <<>> => (o \o Append(t, Head(p))) \o (Tail(p) \o b) = (o \o t) \o (p \o b)
<1> TAKE o, t, p, b \in Seq(Nat)
<1> HAVE p # <<>>
<1>1. Head(p) \in Nat /\ Tail(p) \in Seq(Nat)
  BY HeadTailProperties
<1>2. PICK x \in Seq(Nat) : x = o \o t
  BY ConcatProperties
<1>3. PICK y \in Seq(Nat) : y = Append(x, Head(p))
  BY <1>1, AppendProperties
<1>4. o \o Append(t, Head(p)) = y
  BY <1>1, <1>2, <1>3, AppendLast, ZenonT(60)
<1>5. y \o Tail(p) = x \o p
  BY <1>3, MovedOn
<1>6. (x \o p) \o b = x \o (p \o b)
  BY Regrouped, ZenonT(60)
<1>7. (y \o Tail(p)) \o b = y \o (Tail(p) \o b)
  BY <1>1, Regrouped, ZenonT(60)
<1> QED BY <1>2, <1>4, <1>5, <1>6, <1>7, Zenon

LEMMA GetText ==
  ASSUME RunInv, TextInv, Get
  PROVE  TextInv'
<1>1. /\ buf \in Seq(Nat) /\ pipe \in Seq(Nat) /\ tout \in Seq(Nat) /\ output \in Seq(Nat)
      /\ pipe # <<>>
  BY DEF RunInv, Types, Get
<1>2. UNCHANGED <<printed, output, main, child, buf, stops, late, broken, returned>> /\ main \in {"drain", "final"}
  BY DEF Get
<1>3. (output \o tout \o Queued)' = output \o tout \o Queued
  <2>1. (output \o Append(tout, Head(pipe))) \o (Tail(pipe) \o buf) = (output \o tout) \o (pipe \o buf)
    <3>1. \A p, b \in Seq(Nat) :
            p # <<>> => (output \o Append(tout, Head(p))) \o (Tail(p) \o b) = (output \o tout) \o (p \o b)
      BY <1>1, PassedOn
    <3>2. \A b \in Seq(Nat) :
            (output \o Append(tout, Head(pipe))) \o (Tail(pipe) \o b) = (output \o tout) \o (pipe \o b)
      BY <1>1, <3>1
    <3> QED BY <1>1, <3>2
  <2>2. tout' = Append(tout, Head(pipe)) /\ pipe' = Tail(pipe)
    BY DEF Get
  <2> QED BY <1>2, <2>1, <2>2, Zenon DEF Queued
<1>4. (~Alive' => buf' = <<>>) /\ (Undisturbed' => Undisturbed)
  BY <1>2 DEF TextInv, Alive, Undisturbed
<1> QED BY <1>2, <1>3, <1>4 DEF TextInv

\* The positions of the second of two texts put together.
LEMMA Shifted ==
  \A n, l \in Nat : \A i \in 1..l : n + i \in 1..(n + l) /\ ~(n + i <= n) /\ (n + i) - n = i
OBVIOUS

\* The text before a CLEAROUT may be dropped, and the CLEAROUT with it.
LEMMA DroppedTail ==
  ASSUME NEW o \in Seq(Nat), NEW t \in Seq(Nat), NEW q \in Seq(Nat), NEW a \in Seq(Nat), NEW p \in Seq(Nat),
         NEW m \in 1..Len(t), t[m] = Clear, Len(t) = m + Len(a), \A i \in 1..Len(a) : a[i] = t[m + i],
         IsTail((o \o t) \o q, p)
  PROVE  IsTail(t \o q, p) /\ IsTail(a \o q, p)
<1> DEFINE w == (o \o t) \o q
           k == t \o q
           c == a \o q
<1>1. w = o \o k
  BY Regrouped, ZenonT(60)
<1>2. k \in Seq(Nat) /\ Len(k) = Len(t) + Len(q)
      /\ \A i \in 1..Len(t) + Len(q) : k[i] = IF i <= Len(t) THEN t[i] ELSE q[i - Len(t)]
  BY ConcatProperties, ZenonT(60)
<1>3. c \in Seq(Nat) /\ Len(c) = Len(a) + Len(q)
      /\ \A i \in 1..Len(a) + Len(q) : c[i] = IF i <= Len(a) THEN a[i] ELSE q[i - Len(a)]
  BY ConcatProperties
<1>4. o \o k \in Seq(Nat) /\ Len(o \o k) = Len(o) + Len(k)
      /\ \A i \in 1..Len(o) + Len(k) : (o \o k)[i] = IF i <= Len(o) THEN o[i] ELSE k[i - Len(o)]
  BY <1>2, ConcatProperties, ZenonT(60)
<1>5. Len(o) \in Nat /\ Len(t) \in Nat /\ Len(q) \in Nat /\ Len(a) \in Nat
  OBVIOUS
<1> HIDE DEF k, c
<1> DEFINE v == o \o k
<1>6. IsTail(v, p)
  BY <1>1
<1>7. v \in Seq(Nat) /\ Len(v) = Len(o) + Len(k)
      /\ \A i \in 1..Len(o) + Len(k) : v[i] = IF i <= Len(o) THEN o[i] ELSE k[i - Len(o)]
  BY <1>4
<1> HIDE DEF v
<1>8. ASSUME NEW i \in 1..Len(k) PROVE v[Len(o) + i] = k[i]
  <2>1. Len(o) + i \in 1..Len(o) + Len(k) /\ ~(Len(o) + i <= Len(o)) /\ (Len(o) + i) - Len(o) = i
    <3>1. Len(k) \in Nat /\ Len(o) \in Nat
      BY <1>2, <1>5
    <3> QED BY <3>1, Shifted, Zenon
  <2> QED BY <1>7, <2>1
<1>9. k[m] = Clear /\ m \in 1..Len(k)
  <2>1. m \in 1..(Len(t) + Len(q)) /\ m <= Len(t)
    BY <1>5
  <2> QED BY <1>2, <2>1
<1>10. Len(o) + m \in Len(o)..Len(v) /\ v[Len(o) + m] = Clear
  BY <1>2, <1>5, <1>7, <1>8, <1>9
<1>11. IsTail(k, p)
  <2>1. \A i \in 1..Len(k) : k[i] = v[Len(o) + i]
    BY <1>8
  <2>2. \E j \in Len(o)..Len(v) : v[j] = Clear
    BY <1>10
  <2>3. k \in Seq(Nat) /\ v \in Seq(Nat) /\ Len(v) = Len(o) + Len(k) /\ Len(o) \in Nat
    BY <1>2, <1>5, <1>7
  <2> QED BY <1>6, <2>1, <2>2, <2>3, ShorterTail
<1>12. Len(k) = m + Len(c) /\ \A i \in 1..Len(c) : c[i] = k[m + i]
  <2>1. Len(k) = m + Len(c)
    BY <1>2, <1>3, <1>5
  <2>2. ASSUME NEW i \in 1..Len(c) PROVE c[i] = k[m + i]
    <3>1. CASE i <= Len(a)
      <4>1. i \in 1..Len(a) /\ m + i \in 1..Len(t) + Len(q) /\ m + i <= Len(t)
        BY <1>5, <3>1
      <4> QED BY <1>2, <1>3, <1>5, <3>1, <4>1
    <3>2. CASE i > Len(a)
      <4>1. m + i \in 1..Len(t) + Len(q) /\ ~(m + i <= Len(t)) /\ (m + i) - Len(t) = i - Len(a)
        BY <1>3, <1>5, <3>2
      <4>2. i \in 1..Len(a) + Len(q) /\ ~(i <= Len(a))
        BY <1>3, <1>5, <3>2
      <4> QED BY <1>2, <1>3, <4>1, <4>2
    <3> QED BY <1>5, <3>1, <3>2
  <2> QED BY <2>1, <2>2
<1>13. m \in Nat /\ m \in m..Len(k)
  BY <1>2, <1>5
<1>14. IsTail(c, p)
  BY <1>2, <1>3, <1>9, <1>11, <1>12, <1>13, ShorterTail
<1> QED BY <1>11, <1>14 DEF k, c

\* What is saved or dropped of the output goes with what came before a CLEAROUT.
LEMMA SavedTail ==
  ASSUME RunInv, NEW q \in Seq(Nat), IsTail(output \o tout \o q, printed)
  PROVE  IsTail(Collected \o q, printed) /\ IsTail(CutBack \o tout \o q, printed)
<1>1. tout \in Seq(Nat) /\ output \in Seq(Nat) /\ printed \in Seq(Nat) /\ LastMark(tout)
  BY DEF RunInv, Types, Clean
<1>2. CASE ~Marked(tout)
  BY <1>2, CollectedText, CutText
<1>3. CASE Marked(tout)
  <2>1. PICK m \in 1..Len(tout) :
          /\ tout[m] = Clear /\ Len(tout) = m + Len(AfterClear(tout))
          /\ \A i \in 1..Len(AfterClear(tout)) : AfterClear(tout)[i] = tout[m + i]
    BY <1>1, <1>3, ClearedText
  <2>2. AfterClear(tout) \in Seq(Nat) /\ Collected = AfterClear(tout) /\ CutBack = <<>>
    BY <1>1, <1>3, ClearedText, CollectedText, CutText
  <2>3. IsTail(tout \o q, printed) /\ IsTail(AfterClear(tout) \o q, printed)
    BY <1>1, <2>1, <2>2, DroppedTail
  <2>4. CutBack \o tout = tout
    BY <1>1, <2>2, ConcatEmptySeq
  <2> QED BY <2>2, <2>3, <2>4
<1> QED BY <1>2, <1>3

LEMMA SaveText ==
  ASSUME RunInv, TextInv, NEW ok \in BOOLEAN, Save(ok)
  PROVE  TextInv'
<1>1. UNCHANGED <<buf, pipe, printed, child, stops, late, broken, returned>> /\ main' = "join"
  BY DEF Save
<1>2. (~Alive' => buf' = <<>>) /\ (Undisturbed' => Undisturbed) /\ Queued' = Queued
  BY <1>1 DEF TextInv, Alive, Undisturbed, Queued
<1>3. tout \in Seq(Nat) /\ output \in Seq(Nat) /\ Queued \in Seq(Nat) /\ Collected \in Seq(Nat)
  BY CollectedText, ConcatProperties DEF RunInv, Types, Queued
<1>4. ASSUME Undisturbed PROVE IsTail(output \o tout \o Queued, printed)'
  <2>1. IsTail(output \o tout \o Queued, printed)
    BY <1>4 DEF TextInv
  <2>2. CASE output' = output /\ tout' = tout
    BY <1>1, <1>2, <2>1, <2>2
  <2>3. CASE output' = Collected /\ tout' = <<>>
    <3>1. (output \o tout)' = Collected
      BY <1>3, <2>3, ConcatEmptySeq
    <3> QED BY <1>1, <1>2, <1>3, <2>1, <3>1, SavedTail
  <2>4. CASE output' = CutBack /\ tout' = tout
    BY <1>1, <1>2, <1>3, <2>1, <2>4, SavedTail
  <2> QED BY <2>2, <2>3, <2>4 DEF Save
<1> QED BY <1>1, <1>2, <1>4 DEF TextInv

LEMMA DrainedText ==
  ASSUME RunInv, TextInv, Drained
  PROVE  TextInv'
<1>1. UNCHANGED <<buf, pipe, printed, child, stops, late, broken, returned>> /\ tout' = <<>> /\ pipe = <<>>
  BY DEF Drained
<1>2. (~Alive' => buf' = <<>>) /\ (Undisturbed' => Undisturbed) /\ Queued' = Queued
  BY <1>1 DEF TextInv, Alive, Undisturbed, Queued
<1>3. ~late => child = "dead"
  BY DEF Drained, Alive, RunInv, Course
<1>4. tout \in Seq(Nat) /\ output \in Seq(Nat) /\ Queued \in Seq(Nat) /\ Collected \in Seq(Nat)
  BY CollectedText, ConcatProperties DEF RunInv, Types, Queued
<1>5. ASSUME Undisturbed PROVE IsTail(output \o tout \o Queued, printed)'
  <2>1. IsTail(output \o tout \o Queued, printed)
    BY <1>5 DEF TextInv
  <2>2. CASE output' = output /\ tout = <<>>
    BY <1>1, <1>2, <2>1, <2>2
  <2>3. CASE output' = Collected
    <3>1. (output \o tout)' = Collected
      BY <1>1, <1>4, <2>3, ConcatEmptySeq
    <3> QED BY <1>1, <1>2, <1>4, <2>1, <3>1, SavedTail
  <2> QED BY <2>2, <2>3 DEF Drained, LastOutput
<1> QED BY <1>1, <1>2, <1>3, <1>5 DEF TextInv, Undisturbed

LEMMA TextInvNext == RunInv /\ TextInv /\ [Next]_vars => TextInv'
<1> SUFFICES ASSUME RunInv, TextInv, [Next]_vars PROVE TextInv'
  OBVIOUS
<1>1. CASE UNCHANGED vars
  BY <1>1 DEF TextInv, Alive, Undisturbed, Queued, IsTail, vars
<1>2. CASE Execute
  BY <1>2, ExecuteText, GetText, SaveText, DrainedText, DisturbedText DEF Execute
<1>3. CASE Child
  BY <1>3, FeedText, ChildText DEF Child
<1>4. CASE Beat \/ Stop \/ Break \/ Die
  BY <1>4, DisturbedText DEF Beat
<1>5. CASE Deadline \/ Chat \/ \E o \in {"COMPLETED", "FAILED"} : Return(o)
  BY <1>5, ChildText
<1>6. CASE \E x \in {Clear, Len(printed) + 1} : Write(x)
  <2>1. Clear \in Nat /\ Len(printed) + 1 \in Nat
    BY DEF Clear, RunInv, Types
  <2> QED BY <1>6, <2>1, WriteText
<1> QED BY <1>1, <1>2, <1>3, <1>4, <1>5, <1>6 DEF Next

\* What a task printed after its last CLEAROUT is reported whole, whatever the length of
\* the output, the capacity of the pipe and the number of saves that fail.
THEOREM NothingLost == Spec => []OutputWhole
<1>1. RunInv /\ TextInv => OutputWhole
  <2> SUFFICES ASSUME RunInv, TextInv, main = "done", ~late, ~broken, stops = 0, returned # None
               PROVE  output = AfterClear(printed)
    BY DEF OutputWhole
  <2>1. Undisturbed
    BY DEF Undisturbed
  <2>2. tout = <<>> /\ pipe = <<>> /\ child = "dead" /\ buf = <<>>
    BY <2>1 DEF TextInv, Alive
  <2>3. output \in Seq(Nat) /\ printed \in Seq(Nat) /\ ~Marked(output)
    BY DEF RunInv, Types, Clean
  <2>4. output \o tout \o Queued = output
    BY <2>2, <2>3, EmptyText, ConcatEmptySeq DEF Queued
  <2>5. IsTail(output, printed)
    BY <2>1, <2>4 DEF TextInv
  <2> QED BY <2>3, <2>5, TailAfterClear
<1>2. Spec => []TextInv
  BY TextInvInit, TextInvNext, RunInvAlways, PTL DEF Spec
<1> QED BY <1>1, <1>2, RunInvAlways, PTL
-----------------------------------------------------------------------------
(* execute() waits only for its child. *)

\* Whose next step is possible, by the conditions of each: the main thread's, the child's
\* besides those of its function, the heartbeat thread's in terminate_process, the clock's.
MainMoves ==
  \/ main \in {"idle", "made", "loop", "final", "decide", "late"}
  \/ main = "drain" /\ (pipe # <<>> \/ noise \/ buf = <<>>)
  \/ main = "join" /\ (~Alive \/ late \/ Polls)
  \/ main = "lock" /\ lock = None
  \/ main = "term" /\ ~Alive
ChildMoves ==
  \/ Alive /\ buf # <<>> /\ Len(pipe) < task.capacity
  \/ child = "commit"
  \/ child = "except" /\ retq = None
  \/ child = "exit" /\ buf = <<>>
BeatMoves == \/ beat = "lock" /\ lock = None
             \/ beat \in {"kill", "forget"}
             \/ beat = "wait" /\ (process = "new" => ~Alive)
TimeMoves == task.timed /\ ~late /\ main \in {"loop", "drain", "join"}

\* Until execute() has ended somebody can go on: a child that cannot end because its output
\* has no room, or because retq is full, is waited for no longer than the timeout, unless
\* the one who waits is the join() that follows terminate().
SomebodyMoves ==
  main \notin {"done", "raised"} =>
    MainMoves \/ ChildMoves \/ BeatMoves \/ TimeMoves \/ JoinHangs

\* The lock is held from terminate() to the end of join(), by who does them.
LockHeld ==
  /\ lock \in {None, "main", "beat"}
  /\ lock = "beat" <=> beat \in {"kill", "wait", "forget"}
  /\ lock = "main" <=> main = "term"

LEMMA LockHeldNext == LockHeld /\ [Next]_vars => LockHeld'
<1> SUFFICES ASSUME LockHeld, [Next]_vars PROVE LockHeld'
  OBVIOUS
<1> USE NoneStrings DEF LockHeld
<1>1. CASE UNCHANGED vars
  BY <1>1 DEF vars
<1>2. CASE Terminate \/ Joined
  BY <1>2 DEF Terminate, Joined
<1>3. CASE \/ Make \/ Start \/ Check \/ Get \/ GetNoise \/ (\E ok \in BOOLEAN : Save(ok))
           \/ Join \/ Drained \/ Decide \/ TimedOut
  BY <1>3 DEF Make, Start, Check, Get, GetNoise, Save, Join, Drained, Decide, TimedOut
<1>4. CASE Child
  BY <1>4 DEF Child, Feed, Commit, PutFailed, Exit
<1>5. CASE Beat
  BY <1>5 DEF Beat, Flush, Kill, Waited, Forget
<1>6. CASE Stop \/ Deadline \/ Break \/ Chat \/ Die
  BY <1>6 DEF Stop, Deadline, Break, Chat, Die
<1>7. CASE \/ \E x \in {Clear, Len(printed) + 1} : Write(x)
           \/ \E o \in {"COMPLETED", "FAILED"} : Return(o)
  BY <1>7 DEF Write, Return
<1> QED BY <1>1, <1>2, <1>3, <1>4, <1>5, <1>6, <1>7 DEF Next, Execute

\* Main thread, child and heartbeat thread come to wait for one another in no other way
\* than terminate_process warns of, whatever the pipe holds and however the child ends.
THEOREM OnlyJoinHangs == Spec => []SomebodyMoves
<1>1. RunInv /\ TextInv /\ LockHeld => SomebodyMoves
  <2> SUFFICES ASSUME RunInv, TextInv, LockHeld, main \notin {"done", "raised"}
               PROVE  MainMoves \/ ChildMoves \/ BeatMoves \/ TimeMoves \/ JoinHangs
    BY DEF SomebodyMoves
  <2>1. /\ task \in Setups /\ main \in Mains /\ child \in Children
        /\ task.capacity \in Nat \ {0} /\ Len(pipe) \in Nat
        /\ beat \in {"away", "lock", "kill", "wait", "forget"}
    BY SetupAssumption DEF RunInv, Types
  <2>2. CASE main = "drain" /\ pipe = <<>> /\ buf # <<>>
    BY <2>1, <2>2, EmptyText DEF TextInv, ChildMoves
  <2>3. CASE main = "join" /\ Alive /\ ~late /\ ~Polls
    BY <2>3 DEF Polls, TimeMoves
  <2>4. CASE Alive /\ (main = "term" \/ (main = "lock" /\ lock = "beat"))
    BY <2>1, <2>4 DEF Alive, Children, ChildMoves, JoinHangs
  <2>5. CASE main = "lock" /\ lock = "beat" /\ ~Alive
    BY <2>5 DEF LockHeld, BeatMoves
  <2> QED BY <2>1, <2>2, <2>3, <2>4, <2>5 DEF Mains, MainMoves, LockHeld
<1>2. Init => LockHeld
  BY NoneStrings DEF Init, LockHeld
<1>3. Spec => []TextInv
  BY TextInvInit, TextInvNext, RunInvAlways, PTL DEF Spec
<1> QED BY <1>1, <1>2, <1>3, LockHeldNext, RunInvAlways, PTL DEF Spec
=============================================================================
