---------------------------- MODULE SessionProofs ----------------------------
(***************************************************************************)
(* Theorems about SessionFile and SessionDb, for any number of requests:   *)
(* first the sessions in files, then those in the database.                *)
(***************************************************************************)
EXTENDS SessionFile, SessionDb, TLAPS

(* Sessions in files. *)

\* What there is to name.
SessionIds == 1..Len(folder)
Files == 1..Len(content)
Steps == {"away", "open", "lock", "load", "work", "relock", "write", "done", "dead"}

\* Types.
FileTypes ==
  /\ folder \in Seq(Files \union {NoFile}) /\ wiped \in Seq(SUBSET Marks) /\ Len(wiped) = Len(folder)
  /\ stored \subseteq SessionIds
  /\ content \in Seq((SUBSET Marks) \union {Empty})
  /\ file \in [Requests -> Files \union {NoFile}] /\ locked \in [Requests -> BOOLEAN]
SessionTypes ==
  /\ pc \in [Requests -> Steps]
  /\ jar \in SessionIds \union {None}
  /\ cookie \in [Requests -> SessionIds \union {None}] /\ sid \in [Requests -> SessionIds \union {None}]
  /\ new \in [Requests -> BOOLEAN] /\ forgot \in [Requests -> BOOLEAN]
  /\ data \in [Requests -> SUBSET Marks] /\ hash \in [Requests -> SUBSET Marks]
  /\ again \in [Requests -> BOOLEAN] /\ dropped \in [Requests -> SUBSET Marks]
  /\ disturbed \subseteq Requests

\* A file has one name, and a session that is stored has a file that is not empty.
Named ==
  /\ \A i, j \in SessionIds : folder[i] = folder[j] /\ folder[i] # NoFile => i = j
  /\ \A i \in stored : folder[i] # NoFile /\ content[folder[i]] # Empty

\* The id of a new session is known to its request alone, which has not used it yet.
Private(r) ==
  pc[r] \in {"work", "relock", "write"} /\ new[r] =>
    /\ sid[r] # jar /\ \A q \in Requests : cookie[q] # sid[r] /\ (q # r => sid[q] # sid[r])
    /\ wiped[sid[r]] = {}
    /\ pc[r] = "work" => folder[sid[r]] = NoFile

\* A request has the file its session had when it opened it; only clear() takes it away.
Opened(r) ==
  /\ pc[r] \in {"lock", "load"} => sid[r] = cookie[r] /\ ~new[r]
  /\ pc[r] \in {"work", "relock", "write"} => sid[r] # None
  /\ pc[r] \in {"lock", "load", "relock", "write"} => sid[r] # None /\ file[r] # NoFile
  /\ pc[r] = "relock" => new[r] \/ r \in disturbed
  /\ pc[r] = "work" /\ ~new[r] /\ file[r] = NoFile => r \in disturbed \/ forgot[r]
  /\ file[r] # NoFile /\ (pc[r] \in {"lock", "load", "relock", "write"} \/ (pc[r] = "work" /\ ~new[r])) =>
       /\ \A i \in SessionIds : folder[i] = file[r] => i = sid[r]
       /\ r \notin disturbed /\ ~new[r] => folder[sid[r]] = file[r]

\* The lock is with one request, from its load to its end.
Locks ==
  /\ \A r \in Requests : locked[r] => file[r] # NoFile
  /\ \A r \in Requests : file[r] # NoFile /\ pc[r] \in {"load", "work", "write"} => locked[r]
  /\ \A q, r \in Requests : locked[q] /\ locked[r] /\ file[q] = file[r] => q = r

\* What an undisturbed request has is what the file has, and its change.
Follows(r) ==
  /\ pc[r] \in {"away", "open", "lock", "load"} /\ ~again[r] => data[r] = {} /\ dropped[r] = {}
  /\ pc[r] \in {"work", "write"} /\ file[r] # NoFile /\ ~new[r] /\ ~again[r] /\ r \notin disturbed =>
       content[file[r]] # Empty /\ data[r] = Effect(r, content[file[r]])

\* The invariant, from which UpdatesAtomic and SessionKept follow.
FileInv ==
  /\ FileTypes /\ SessionTypes /\ Named /\ Locks
  /\ \A r \in Requests : Private(r) /\ Opened(r) /\ Follows(r)

\* First the steps that leave the files and their names alone.
LEMMA ArriveKeeps ==
  ASSUME FileInv, NEW r \in Requests, Arrive(r)
  PROVE  FileInv'
<1>1. /\ SessionIds' = SessionIds /\ Files' = Files
      /\ UNCHANGED <<folder, wiped, stored, content, file, locked, jar, sid, new, data, hash, forgot, again, dropped, disturbed>>
      /\ pc[r] = "away" /\ pc' = [pc EXCEPT ![r] = "open"] /\ cookie' = [cookie EXCEPT ![r] = jar]
  BY DEF SessionIds, Files, Arrive, diskVars, nameVars, fileVars, selfVars, opVars
<1>2. FileTypes' /\ SessionTypes'
  BY <1>1 DEF FileInv, FileTypes, SessionTypes, Steps
<1>3. Named'
  BY <1>1 DEF FileInv, Named
<1>4. Locks'
  BY <1>1 DEF FileInv, FileTypes, SessionTypes, Locks, Opened
<1>5. ASSUME NEW q \in Requests PROVE Private(q)'
  BY <1>1 DEF FileInv, SessionTypes, Private
<1>6. ASSUME NEW q \in Requests PROVE Opened(q)'
  BY <1>1 DEF FileInv, FileTypes, SessionTypes, Opened
<1>7. ASSUME NEW q \in Requests PROVE Follows(q)'
  BY <1>1 DEF FileInv, FileTypes, SessionTypes, Follows, Effect
<1> QED BY <1>2, <1>3, <1>4, <1>5, <1>6, <1>7 DEF FileInv

LEMMA LockKeeps ==
  ASSUME FileInv, NEW r \in Requests, Lock(r)
  PROVE  FileInv'
<1>1. /\ SessionIds' = SessionIds /\ Files' = Files
      /\ UNCHANGED <<folder, wiped, stored, content, file, jar, cookie, sid, new, data, hash, forgot, again, dropped, disturbed>>
      /\ pc[r] = "lock" /\ pc' = [pc EXCEPT ![r] = "load"] /\ ~Held(file[r])
      /\ locked' = [locked EXCEPT ![r] = TRUE]
  BY DEF SessionIds, Files, Lock, NeedsLock, diskVars, nameVars, selfVars, opVars
<1>2. FileTypes' /\ SessionTypes'
  BY <1>1 DEF FileInv, FileTypes, SessionTypes, Steps
<1>3. Named'
  BY <1>1 DEF FileInv, Named
<1>4. Locks'
  BY <1>1 DEF FileInv, FileTypes, SessionTypes, Locks, Opened, Held
<1>5. ASSUME NEW q \in Requests PROVE Private(q)'
  BY <1>1 DEF FileInv, SessionTypes, Private
<1>6. ASSUME NEW q \in Requests PROVE Opened(q)'
  BY <1>1 DEF FileInv, FileTypes, SessionTypes, Opened
<1>7. ASSUME NEW q \in Requests PROVE Follows(q)'
  BY <1>1 DEF FileInv, FileTypes, SessionTypes, Follows, Effect, Locks, Opened
<1> QED BY <1>2, <1>3, <1>4, <1>5, <1>6, <1>7 DEF FileInv

LEMMA AddKeeps ==
  ASSUME FileInv, NEW r \in Requests, Add(r)
  PROVE  FileInv'
<1>1. /\ SessionIds' = SessionIds /\ Files' = Files
      /\ UNCHANGED <<folder, wiped, stored, content, file, locked, jar, pc, cookie, sid, new, hash, forgot, again, dropped, disturbed>>
      /\ pc[r] = "work" /\ data' = [data EXCEPT ![r] = @ \union {r}]
  BY DEF SessionIds, Files, Add, Op, diskVars, nameVars, fileVars
<1>2. FileTypes' /\ SessionTypes'
  BY <1>1 DEF FileInv, FileTypes, SessionTypes, Steps, Marks
<1>3. Named'
  BY <1>1 DEF FileInv, Named
<1>4. Locks'
  BY <1>1 DEF FileInv, FileTypes, SessionTypes, Locks, Opened
<1>5. ASSUME NEW q \in Requests PROVE Private(q)'
  BY <1>1 DEF FileInv, SessionTypes, Private
<1>6. ASSUME NEW q \in Requests PROVE Opened(q)'
  BY <1>1 DEF FileInv, FileTypes, SessionTypes, Opened
<1>7. ASSUME NEW q \in Requests PROVE Follows(q)'
  BY <1>1 DEF FileInv, FileTypes, SessionTypes, Follows, Effect
<1> QED BY <1>2, <1>3, <1>4, <1>5, <1>6, <1>7 DEF FileInv

LEMMA ForgetKeeps ==
  ASSUME FileInv, NEW r \in Requests, Forget(r)
  PROVE  FileInv'
<1>1. /\ SessionIds' = SessionIds /\ Files' = Files
      /\ UNCHANGED <<folder, wiped, stored, content, jar, pc, cookie, sid, new, data, hash, again, dropped, disturbed>>
      /\ pc[r] = "work" /\ forgot' = [forgot EXCEPT ![r] = TRUE]
      /\ Close(r) \/ UNCHANGED <<file, locked>>
  BY DEF SessionIds, Files, Forget, Op, diskVars, nameVars, fileVars
<1>2. FileTypes' /\ SessionTypes'
  BY <1>1 DEF FileInv, FileTypes, SessionTypes, Steps, Close
<1>3. Named'
  BY <1>1 DEF FileInv, Named
<1>4. Locks'
  <2>1. CASE UNCHANGED <<file, locked>>
    BY <1>1, <2>1 DEF FileInv, SessionTypes, Locks
  <2>2. CASE Close(r)
    BY <1>1, <2>2 DEF FileInv, FileTypes, SessionTypes, Locks, Close
  <2> QED BY <1>1, <2>1, <2>2
<1>5. ASSUME NEW q \in Requests PROVE Private(q)'
  BY <1>1 DEF FileInv, SessionTypes, Private
<1>6. ASSUME NEW q \in Requests PROVE Opened(q)'
  BY <1>1 DEF FileInv, FileTypes, SessionTypes, Opened, Close
<1>7. ASSUME NEW q \in Requests PROVE Follows(q)'
  BY <1>1 DEF FileInv, FileTypes, SessionTypes, Follows, Effect, Close
<1> QED BY <1>2, <1>3, <1>4, <1>5, <1>6, <1>7 DEF FileInv

LEMMA AgainKeeps ==
  ASSUME FileInv, NEW r \in Requests, Again(r)
  PROVE  FileInv'
<1>1. /\ SessionIds' = SessionIds /\ Files' = Files
      /\ UNCHANGED <<folder, wiped, stored, content, jar, cookie, sid, new, data, hash, forgot, dropped, disturbed>>
      /\ pc[r] = "work" /\ pc' = [pc EXCEPT ![r] = "open"] /\ again' = [again EXCEPT ![r] = TRUE]
      /\ Close(r)
  BY DEF SessionIds, Files, Again, Op, diskVars, nameVars, selfVars
<1>2. FileTypes' /\ SessionTypes'
  BY <1>1 DEF FileInv, FileTypes, SessionTypes, Steps, Close
<1>3. Named'
  BY <1>1 DEF FileInv, Named
<1>4. Locks'
  BY <1>1 DEF FileInv, FileTypes, SessionTypes, Locks, Opened, Close
<1>5. ASSUME NEW q \in Requests PROVE Private(q)'
  BY <1>1 DEF FileInv, SessionTypes, Private
<1>6. ASSUME NEW q \in Requests PROVE Opened(q)'
  BY <1>1 DEF FileInv, FileTypes, SessionTypes, Opened, Close
<1>7. ASSUME NEW q \in Requests PROVE Follows(q)'
  BY <1>1 DEF FileInv, FileTypes, SessionTypes, Follows, Effect, Close
<1> QED BY <1>2, <1>3, <1>4, <1>5, <1>6, <1>7 DEF FileInv

LEMMA SkipKeeps ==
  ASSUME FileInv, NEW r \in Requests, Skip(r)
  PROVE  FileInv'
<1>1. /\ SessionIds' = SessionIds /\ Files' = Files
      /\ UNCHANGED <<folder, wiped, stored, content, cookie, sid, new, data, hash, forgot, again, dropped, disturbed>>
      /\ pc[r] = "work" /\ pc' = [pc EXCEPT ![r] = "done"]
      /\ jar' = (IF forgot[r] THEN jar ELSE sid[r]) /\ (forgot[r] \/ Unchanged(r)) /\ Close(r)
  BY DEF SessionIds, Files, Skip, Reply, diskVars, nameVars, selfVars, opVars
<1>2. FileTypes' /\ SessionTypes'
  BY <1>1 DEF FileInv, FileTypes, SessionTypes, Steps, Close
<1>3. Named'
  BY <1>1 DEF FileInv, Named
<1>4. Locks'
  BY <1>1 DEF FileInv, FileTypes, SessionTypes, Locks, Opened, Close
<1>5. ASSUME NEW q \in Requests PROVE Private(q)'
  BY <1>1 DEF FileInv, SessionTypes, Private, Opened
<1>6. ASSUME NEW q \in Requests PROVE Opened(q)'
  BY <1>1 DEF FileInv, FileTypes, SessionTypes, Opened, Close
<1>7. ASSUME NEW q \in Requests PROVE Follows(q)'
  BY <1>1 DEF FileInv, FileTypes, SessionTypes, Follows, Effect, Close
<1> QED BY <1>2, <1>3, <1>4, <1>5, <1>6, <1>7 DEF FileInv

LEMMA RelockKeeps ==
  ASSUME FileInv, NEW r \in Requests, Relock(r)
  PROVE  FileInv'
<1>1. /\ SessionIds' = SessionIds /\ Files' = Files
      /\ UNCHANGED <<folder, wiped, stored, content, file, jar, cookie, sid, new, data, hash, forgot, again, dropped, disturbed>>
      /\ pc[r] = "relock" /\ pc' = [pc EXCEPT ![r] = "write"] /\ ~Held(file[r])
      /\ locked' = [locked EXCEPT ![r] = TRUE]
  BY DEF SessionIds, Files, Relock, diskVars, nameVars, selfVars, opVars
<1>2. FileTypes' /\ SessionTypes'
  BY <1>1 DEF FileInv, FileTypes, SessionTypes, Steps
<1>3. Named'
  BY <1>1 DEF FileInv, Named
<1>4. Locks'
  BY <1>1 DEF FileInv, FileTypes, SessionTypes, Locks, Opened, Held
<1>5. ASSUME NEW q \in Requests PROVE Private(q)'
  BY <1>1 DEF FileInv, SessionTypes, Private
<1>6. ASSUME NEW q \in Requests PROVE Opened(q)'
  BY <1>1 DEF FileInv, FileTypes, SessionTypes, Opened
<1>7. ASSUME NEW q \in Requests PROVE Follows(q)'
  BY <1>1 DEF FileInv, FileTypes, SessionTypes, Follows, Effect, Locks, Opened
<1> QED BY <1>2, <1>3, <1>4, <1>5, <1>6, <1>7 DEF FileInv

LEMMA BreakKeeps ==
  ASSUME FileInv, NEW r \in Requests, Break(r)
  PROVE  FileInv'
<1>1. /\ SessionIds' = SessionIds /\ Files' = Files
      /\ UNCHANGED <<folder, wiped, stored, content, jar, cookie, sid, new, data, hash, forgot, again, dropped, disturbed>>
      /\ pc' = [pc EXCEPT ![r] = "dead"] /\ locked' = [locked EXCEPT ![r] = FALSE]
      /\ file' = [file EXCEPT ![r] = IF locked'[r] THEN @ ELSE NoFile]
  BY DEF SessionIds, Files, Break, StaysLocked, diskVars, nameVars, selfVars, opVars
<1>2. FileTypes' /\ SessionTypes'
  BY <1>1 DEF FileInv, FileTypes, SessionTypes, Steps
<1>3. Named'
  BY <1>1 DEF FileInv, Named
<1>4. Locks'
  BY <1>1 DEF FileInv, FileTypes, SessionTypes, Locks, Opened
<1>5. ASSUME NEW q \in Requests PROVE Private(q)'
  BY <1>1 DEF FileInv, SessionTypes, Private
<1>6. ASSUME NEW q \in Requests PROVE Opened(q)'
  BY <1>1 DEF FileInv, FileTypes, SessionTypes, Opened
<1>7. ASSUME NEW q \in Requests PROVE Follows(q)'
  BY <1>1 DEF FileInv, FileTypes, SessionTypes, Follows, Effect
<1> QED BY <1>2, <1>3, <1>4, <1>5, <1>6, <1>7 DEF FileInv

LEMMA DropKeeps ==
  ASSUME FileInv, NEW r \in Requests, (\E m \in Marks : Drop(r, m))
  PROVE  FileInv'
<1>1. /\ SessionIds' = SessionIds /\ Files' = Files
      /\ UNCHANGED <<folder, wiped, stored, content, file, locked, jar, pc, cookie, sid, new, hash, forgot, again, disturbed>>
      /\ pc[r] = "work"
      /\ \E m \in Marks : /\ data' = [data EXCEPT ![r] = @ \ {m}]
                          /\ dropped' = [dropped EXCEPT ![r] = @ \union {m}]
  BY DEF SessionIds, Files, Drop, Op, diskVars, nameVars, fileVars
<1>2. FileTypes' /\ SessionTypes'
  BY <1>1 DEF FileInv, FileTypes, SessionTypes, Steps
<1>3. Named'
  BY <1>1 DEF FileInv, Named
<1>4. Locks'
  BY <1>1 DEF FileInv, FileTypes, SessionTypes, Locks, Opened
<1>5. ASSUME NEW q \in Requests PROVE Private(q)'
  BY <1>1 DEF FileInv, SessionTypes, Private
<1>6. ASSUME NEW q \in Requests PROVE Opened(q)'
  BY <1>1 DEF FileInv, FileTypes, SessionTypes, Opened
<1>7. ASSUME NEW q \in Requests PROVE Follows(q)'
  BY <1>1 DEF FileInv, FileTypes, SessionTypes, Follows, Effect
<1> QED BY <1>2, <1>3, <1>4, <1>5, <1>6, <1>7 DEF FileInv

\* A new id is one that nothing names.
LEMMA NewIdFacts ==
  ASSUME FileInv, NEW r \in Requests, NewId(r), content' = content
  PROVE  LET n == Len(folder) + 1 IN
         /\ n \in Nat /\ n \notin SessionIds /\ SessionIds' = SessionIds \union {n} /\ Files' = Files
         /\ folder' \in Seq(Files \union {NoFile}) /\ wiped' \in Seq(SUBSET Marks) /\ Len(wiped') = Len(folder')
         /\ \A i \in SessionIds : folder'[i] = folder[i] /\ wiped'[i] = wiped[i]
         /\ folder'[n] = NoFile /\ wiped'[n] = {} /\ stored' = stored
         /\ sid' = [sid EXCEPT ![r] = n] /\ new' = [new EXCEPT ![r] = TRUE]
<1>1. folder \in Seq(Files \union {NoFile}) /\ wiped \in Seq(SUBSET Marks) /\ Len(wiped) = Len(folder)
  BY DEF FileInv, FileTypes
<1>2. folder' = Append(folder, NoFile) /\ wiped' = Append(wiped, {})
  BY DEF NewId
<1>3. Len(folder') = Len(folder) + 1 /\ Len(wiped') = Len(folder) + 1
  BY <1>1, <1>2
<1>4. folder' \in Seq(Files \union {NoFile}) /\ wiped' \in Seq(SUBSET Marks)
  BY <1>1, <1>2
<1>5. /\ \A i \in SessionIds : folder'[i] = folder[i] /\ wiped'[i] = wiped[i]
      /\ folder'[Len(folder) + 1] = NoFile /\ wiped'[Len(folder) + 1] = {}
  BY <1>1, <1>2 DEF SessionIds
<1>6. SessionIds' = SessionIds \union {Len(folder) + 1} /\ Len(folder) + 1 \notin SessionIds
  BY <1>1, <1>3 DEF SessionIds
<1>7. stored' = stored /\ Files' = Files /\ Len(folder) + 1 \in Nat
      /\ sid' = [sid EXCEPT ![r] = Len(folder) + 1] /\ new' = [new EXCEPT ![r] = TRUE]
  BY <1>1 DEF NewId, Files
<1> QED BY <1>1, <1>3, <1>4, <1>5, <1>6, <1>7

\* A request that has connected has an id.
LEMMA HasId ==
  ASSUME FileInv, NEW r \in Requests, pc[r] \in {"lock", "load", "work", "relock", "write"}
  PROVE  sid[r] \in SessionIds
BY DEF FileInv, SessionTypes, Opened

\* A new id is no other request's.
LEMMA OthersUnmoved ==
  ASSUME FileInv, NEW r \in Requests, NewId(r), content' = content, UNCHANGED <<jar, cookie, disturbed>>,
         NEW q \in Requests, q # r, pc'[q] = pc[q], file'[q] = file[q], forgot'[q] = forgot[q]
  PROVE  Private(q)' /\ Opened(q)'
<1> DEFINE n == Len(folder) + 1
<1>1. /\ n \notin SessionIds /\ SessionIds' = SessionIds \union {n}
      /\ \A i \in SessionIds : folder'[i] = folder[i] /\ wiped'[i] = wiped[i]
      /\ folder'[n] = NoFile
      /\ sid' = [sid EXCEPT ![r] = n] /\ new' = [new EXCEPT ![r] = TRUE]
  BY NewIdFacts
<1> HIDE DEF n
<1>2. sid'[q] = sid[q] /\ new'[q] = new[q] /\ sid'[r] = n
      /\ \A p \in Requests : p # r => sid'[p] = sid[p]
  BY <1>1 DEF FileInv, SessionTypes
<1>3. Private(q)'
  <2> SUFFICES ASSUME pc[q] \in {"work", "relock", "write"}, new[q] PROVE Private(q)'
    BY <1>2 DEF Private
  <2>1. sid[q] \in SessionIds BY HasId
  <2>2. Private(q) BY DEF FileInv
  <2>3. \A p \in Requests : p # q => sid'[p] # sid[q]
    BY <1>1, <1>2, <2>1, <2>2 DEF Private
  <2> QED BY <1>1, <1>2, <2>1, <2>2, <2>3 DEF Private
<1>4. Opened(q)'
  <2>1. Opened(q) BY DEF FileInv
  <2>2. ASSUME NEW i \in SessionIds', file[q] # NoFile, folder'[i] = file[q]
        PROVE  i \in SessionIds /\ folder[i] = file[q]
    BY <1>1, <2>2
  <2>3. pc[q] \in {"lock", "load", "work", "relock", "write"} => folder'[sid[q]] = folder[sid[q]]
    BY <1>1, HasId
  <2> QED BY <1>2, <2>1, <2>2, <2>3 DEF Opened
<1> QED BY <1>3, <1>4

\* renew() closes the file; the id is new.
LEMMA RenewKeeps ==
  ASSUME FileInv, NEW r \in Requests, Renew(r)
  PROVE  FileInv'
<1> DEFINE n == Len(folder) + 1
<1>1. /\ n \in Nat /\ n # None /\ n \notin SessionIds /\ SessionIds' = SessionIds \union {n} /\ Files' = Files
      /\ folder' \in Seq(Files \union {NoFile}) /\ wiped' \in Seq(SUBSET Marks) /\ Len(wiped') = Len(folder')
      /\ \A i \in SessionIds : folder'[i] = folder[i] /\ wiped'[i] = wiped[i]
      /\ folder'[n] = NoFile /\ wiped'[n] = {} /\ stored' = stored /\ content' = content
      /\ sid' = [sid EXCEPT ![r] = n] /\ new' = [new EXCEPT ![r] = TRUE]
      /\ file' = [file EXCEPT ![r] = NoFile] /\ locked' = [locked EXCEPT ![r] = FALSE]
      /\ pc[r] = "work" /\ UNCHANGED <<jar, pc, cookie, data, hash, forgot, again, dropped, disturbed>>
  BY NewIdFacts, OldAssumption DEF Renew, Close, Op, selfVars
<1> HIDE DEF n
<1>2. FileTypes' /\ SessionTypes'
  BY <1>1 DEF FileInv, FileTypes, SessionTypes, Steps
<1>3. Named'
  <2>1. ASSUME NEW i \in SessionIds', NEW j \in SessionIds', folder'[i] = folder'[j], folder'[i] # NoFile
        PROVE  i = j
    <3>1. i # n /\ j # n BY <1>1, <2>1
    <3> QED BY <1>1, <2>1, <3>1 DEF FileInv, Named
  <2>2. ASSUME NEW i \in stored' PROVE folder'[i] # NoFile /\ content'[folder'[i]] # Empty
    BY <1>1 DEF FileInv, FileTypes, Named
  <2> QED BY <2>1, <2>2 DEF Named
<1>4. Locks'
  BY <1>1 DEF FileInv, FileTypes, SessionTypes, Locks, Opened
<1>5. ASSUME NEW q \in Requests PROVE Private(q)'
  <2>1. CASE q = r
    BY <1>1, <2>1 DEF FileInv, FileTypes, SessionTypes, Private, Opened, Steps
  <2>2. CASE q # r
    BY <1>1, <2>2, OthersUnmoved DEF Renew, Close, Op, selfVars, FileInv, FileTypes, SessionTypes
  <2> QED BY <2>1, <2>2
<1>6. ASSUME NEW q \in Requests PROVE Opened(q)'
  <2>1. CASE q = r
    BY <1>1, <2>1 DEF FileInv, FileTypes, SessionTypes, Opened, Private, Named, Steps
  <2>2. CASE q # r
    BY <1>1, <2>2, OthersUnmoved DEF Renew, Close, Op, selfVars, FileInv, FileTypes, SessionTypes
  <2> QED BY <2>1, <2>2
<1>7. ASSUME NEW q \in Requests PROVE Follows(q)'
  <2>1. CASE q = r
    BY <1>1, <2>1 DEF FileInv, FileTypes, SessionTypes, Follows, Effect, Locks, Opened, Steps
  <2>2. CASE q # r
    BY <1>1, <2>2 DEF FileInv, FileTypes, SessionTypes, Follows, Effect, Locks, Opened, Steps
  <2> QED BY <2>1, <2>2
<1> QED BY <1>2, <1>3, <1>4, <1>5, <1>6, <1>7 DEF FileInv

\* The cookie names no file: the session is new.
LEMMA OpenNewKeeps ==
  ASSUME FileInv, NEW r \in Requests, Open(r), ~(cookie[r] # None /\ folder[cookie[r]] # NoFile)
  PROVE  FileInv'
<1> DEFINE n == Len(folder) + 1
<1>1. /\ n \in Nat /\ n # None /\ n \notin SessionIds /\ SessionIds' = SessionIds \union {n} /\ Files' = Files
      /\ folder' \in Seq(Files \union {NoFile}) /\ wiped' \in Seq(SUBSET Marks) /\ Len(wiped') = Len(folder')
      /\ \A i \in SessionIds : folder'[i] = folder[i] /\ wiped'[i] = wiped[i]
      /\ folder'[n] = NoFile /\ wiped'[n] = {} /\ stored' = stored /\ content' = content
      /\ sid' = [sid EXCEPT ![r] = n] /\ new' = [new EXCEPT ![r] = TRUE]
      /\ file' = [file EXCEPT ![r] = NoFile] /\ locked' = [locked EXCEPT ![r] = FALSE]
      /\ hash' = [hash EXCEPT ![r] = data[r]] /\ pc[r] = "open" /\ pc' = [pc EXCEPT ![r] = "work"]
      /\ UNCHANGED <<jar, cookie, data, forgot, again, dropped, disturbed>>
  BY NewIdFacts, OldAssumption DEF Open, Close, opVars
<1> HIDE DEF n
<1>2. FileTypes' /\ SessionTypes'
  BY <1>1 DEF FileInv, FileTypes, SessionTypes, Steps
<1>3. Named'
  <2>1. ASSUME NEW i \in SessionIds', NEW j \in SessionIds', folder'[i] = folder'[j], folder'[i] # NoFile
        PROVE  i = j
    <3>1. i # n /\ j # n BY <1>1, <2>1
    <3> QED BY <1>1, <2>1, <3>1 DEF FileInv, Named
  <2>2. ASSUME NEW i \in stored' PROVE folder'[i] # NoFile /\ content'[folder'[i]] # Empty
    BY <1>1 DEF FileInv, FileTypes, Named
  <2> QED BY <2>1, <2>2 DEF Named
<1>4. Locks'
  BY <1>1 DEF FileInv, FileTypes, SessionTypes, Locks, Opened
<1>5. ASSUME NEW q \in Requests PROVE Private(q)'
  <2>1. CASE q = r
    BY <1>1, <2>1 DEF FileInv, FileTypes, SessionTypes, Private, Opened, Steps
  <2>2. CASE q # r
    BY <1>1, <2>2, OthersUnmoved DEF Open, Close, opVars, FileInv, FileTypes, SessionTypes
  <2> QED BY <2>1, <2>2
<1>6. ASSUME NEW q \in Requests PROVE Opened(q)'
  <2>1. CASE q = r
    BY <1>1, <2>1 DEF FileInv, FileTypes, SessionTypes, Opened, Private, Named, Steps
  <2>2. CASE q # r
    BY <1>1, <2>2, OthersUnmoved DEF Open, Close, opVars, FileInv, FileTypes, SessionTypes
  <2> QED BY <2>1, <2>2
<1>7. ASSUME NEW q \in Requests PROVE Follows(q)'
  <2>1. CASE q = r
    BY <1>1, <2>1 DEF FileInv, FileTypes, SessionTypes, Follows, Effect, Locks, Opened, Steps
  <2>2. CASE q # r
    BY <1>1, <2>2 DEF FileInv, FileTypes, SessionTypes, Follows, Effect, Locks, Opened, Steps
  <2> QED BY <2>1, <2>2
<1> QED BY <1>2, <1>3, <1>4, <1>5, <1>6, <1>7 DEF FileInv

\* The file is empty: the session is new, and the file stays locked.
LEMMA LoadNewKeeps ==
  ASSUME FileInv, NEW r \in Requests, Load(r), content[file[r]] = Empty
  PROVE  FileInv'
<1> DEFINE n == Len(folder) + 1
<1>1. /\ n \in Nat /\ n # None /\ n \notin SessionIds /\ SessionIds' = SessionIds \union {n} /\ Files' = Files
      /\ folder' \in Seq(Files \union {NoFile}) /\ wiped' \in Seq(SUBSET Marks) /\ Len(wiped') = Len(folder')
      /\ \A i \in SessionIds : folder'[i] = folder[i] /\ wiped'[i] = wiped[i]
      /\ folder'[n] = NoFile /\ wiped'[n] = {} /\ stored' = stored /\ content' = content
      /\ sid' = [sid EXCEPT ![r] = n] /\ new' = [new EXCEPT ![r] = TRUE]
      /\ hash' = [hash EXCEPT ![r] = data[r]] /\ pc[r] = "load" /\ pc' = [pc EXCEPT ![r] = "work"]
      /\ UNCHANGED <<file, locked, jar, cookie, data, forgot, again, dropped, disturbed>>
  BY NewIdFacts, OldAssumption DEF Load, fileVars, opVars
<1> HIDE DEF n
<1>2. FileTypes' /\ SessionTypes'
  BY <1>1 DEF FileInv, FileTypes, SessionTypes, Steps
<1>3. Named'
  <2>1. ASSUME NEW i \in SessionIds', NEW j \in SessionIds', folder'[i] = folder'[j], folder'[i] # NoFile
        PROVE  i = j
    <3>1. i # n /\ j # n BY <1>1, <2>1
    <3> QED BY <1>1, <2>1, <3>1 DEF FileInv, Named
  <2>2. ASSUME NEW i \in stored' PROVE folder'[i] # NoFile /\ content'[folder'[i]] # Empty
    BY <1>1 DEF FileInv, FileTypes, Named
  <2> QED BY <2>1, <2>2 DEF Named
<1>4. Locks'
  BY <1>1 DEF FileInv, FileTypes, SessionTypes, Locks, Opened
<1>5. ASSUME NEW q \in Requests PROVE Private(q)'
  <2>1. CASE q = r
    BY <1>1, <2>1 DEF FileInv, FileTypes, SessionTypes, Private, Opened, Steps
  <2>2. CASE q # r
    BY <1>1, <2>2, OthersUnmoved DEF Load, fileVars, opVars, FileInv, FileTypes, SessionTypes
  <2> QED BY <2>1, <2>2
<1>6. ASSUME NEW q \in Requests PROVE Opened(q)'
  <2>1. CASE q = r
    BY <1>1, <2>1 DEF FileInv, FileTypes, SessionTypes, Opened, Private, Named, Steps
  <2>2. CASE q # r
    BY <1>1, <2>2, OthersUnmoved DEF Load, fileVars, opVars, FileInv, FileTypes, SessionTypes
  <2> QED BY <2>1, <2>2
<1>7. ASSUME NEW q \in Requests PROVE Follows(q)'
  <2>1. CASE q = r
    BY <1>1, <2>1 DEF FileInv, FileTypes, SessionTypes, Follows, Effect, Locks, Opened, Steps
  <2>2. CASE q # r
    BY <1>1, <2>2 DEF FileInv, FileTypes, SessionTypes, Follows, Effect, Locks, Opened, Steps
  <2> QED BY <2>1, <2>2
<1> QED BY <1>2, <1>3, <1>4, <1>5, <1>6, <1>7 DEF FileInv

\* The file that the cookie names has no other name.
LEMMA OpenFileKeeps ==
  ASSUME FileInv, NEW r \in Requests, Open(r), cookie[r] # None, folder[cookie[r]] # NoFile
  PROVE  FileInv'
<1>1. /\ UNCHANGED <<folder, wiped, stored, content>> /\ SessionIds' = SessionIds /\ Files' = Files
      /\ cookie[r] \in SessionIds /\ folder[cookie[r]] \in Files /\ folder[cookie[r]] # NoFile
      /\ pc[r] = "open" /\ pc' = [pc EXCEPT ![r] = "lock"]
      /\ file' = [file EXCEPT ![r] = folder[cookie[r]]] /\ locked' = [locked EXCEPT ![r] = FALSE]
      /\ sid' = [sid EXCEPT ![r] = cookie[r]] /\ new' = [new EXCEPT ![r] = FALSE]
      /\ UNCHANGED <<jar, cookie, data, hash, forgot, again, dropped, disturbed>>
  BY DEF Open, opVars, FileInv, FileTypes, SessionTypes, SessionIds, Files
<1>2. FileTypes' /\ SessionTypes'
  BY <1>1 DEF FileInv, FileTypes, SessionTypes, Steps
<1>3. Named'
  BY <1>1 DEF FileInv, FileTypes, SessionTypes, Named
<1>4. Locks'
  BY <1>1 DEF FileInv, FileTypes, SessionTypes, Locks, Opened
<1>5. ASSUME NEW q \in Requests PROVE Private(q)'
  <2>1. CASE q = r
    BY <1>1, <2>1 DEF FileInv, FileTypes, SessionTypes, Private, Opened, Steps
  <2>2. CASE q # r
    BY <1>1, <2>2, HasId DEF FileInv, FileTypes, SessionTypes, Private, Steps
  <2> QED BY <2>1, <2>2
<1>6. ASSUME NEW q \in Requests PROVE Opened(q)'
  <2>1. CASE q = r
    BY <1>1, <2>1 DEF FileInv, FileTypes, SessionTypes, Opened, Private, Named, Steps
  <2>2. CASE q # r
    BY <1>1, <2>2, HasId DEF FileInv, FileTypes, SessionTypes, Opened, Steps
  <2> QED BY <2>1, <2>2
<1>7. ASSUME NEW q \in Requests PROVE Follows(q)'
  <2>1. CASE q = r
    BY <1>1, <2>1 DEF FileInv, FileTypes, SessionTypes, Follows, Effect, Locks, Opened, Steps
  <2>2. CASE q # r
    BY <1>1, <2>2 DEF FileInv, FileTypes, SessionTypes, Follows, Effect, Locks, Opened, Steps
  <2> QED BY <2>1, <2>2
<1> QED BY <1>2, <1>3, <1>4, <1>5, <1>6, <1>7 DEF FileInv

\* What is loaded is what the file has, until its request, which has the lock, writes.
LEMMA LoadFileKeeps ==
  ASSUME FileInv, NEW r \in Requests, Load(r), content[file[r]] # Empty
  PROVE  FileInv'
<1>1. /\ UNCHANGED <<folder, wiped, stored, content>> /\ SessionIds' = SessionIds /\ Files' = Files
      /\ content[file[r]] \in SUBSET Marks /\ content[file[r]] # Empty /\ file[r] \in Files
      /\ pc[r] = "load" /\ pc' = [pc EXCEPT ![r] = "work"]
      /\ data' = [data EXCEPT ![r] = @ \union content[file[r]]] /\ hash' \in [Requests -> SUBSET Marks]
      /\ UNCHANGED <<file, locked, jar, cookie, sid, new, forgot, again, dropped, disturbed>>
  BY DEF Load, fileVars, nameVars, opVars, FileInv, FileTypes, SessionTypes, Opened, SessionIds, Files
<1>2. FileTypes' /\ SessionTypes'
  BY <1>1 DEF FileInv, FileTypes, SessionTypes, Steps
<1>3. Named'
  BY <1>1 DEF FileInv, FileTypes, SessionTypes, Named
<1>4. Locks'
  BY <1>1 DEF FileInv, FileTypes, SessionTypes, Locks, Opened
<1>5. ASSUME NEW q \in Requests PROVE Private(q)'
  <2>1. CASE q = r
    BY <1>1, <2>1 DEF FileInv, FileTypes, SessionTypes, Private, Opened, Steps
  <2>2. CASE q # r
    BY <1>1, <2>2, HasId DEF FileInv, FileTypes, SessionTypes, Private, Steps
  <2> QED BY <2>1, <2>2
<1>6. ASSUME NEW q \in Requests PROVE Opened(q)'
  <2>1. CASE q = r
    BY <1>1, <2>1 DEF FileInv, FileTypes, SessionTypes, Opened, Private, Named, Steps
  <2>2. CASE q # r
    BY <1>1, <2>2, HasId DEF FileInv, FileTypes, SessionTypes, Opened, Steps
  <2> QED BY <2>1, <2>2
<1>7. ASSUME NEW q \in Requests PROVE Follows(q)'
  <2>1. CASE q = r
    BY <1>1, <2>1 DEF FileInv, FileTypes, SessionTypes, Follows, Effect, Locks, Opened, Steps
  <2>2. CASE q # r
    BY <1>1, <2>2 DEF FileInv, FileTypes, SessionTypes, Follows, Effect, Locks, Opened, Steps
  <2> QED BY <2>1, <2>2
<1> QED BY <1>2, <1>3, <1>4, <1>5, <1>6, <1>7 DEF FileInv

\* clear() takes the name from the file, and disturbs all who know the id.
LEMMA ClearKeeps ==
  ASSUME FileInv, NEW r \in Requests, Clear(r)
  PROVE  FileInv'
<1>1. /\ sid[r] \in SessionIds /\ pc[r] = "work" /\ SessionIds' = SessionIds /\ Files' = Files
      /\ folder' = [folder EXCEPT ![sid[r]] = NoFile] /\ folder' \in Seq(Files \union {NoFile})
      /\ wiped' = [wiped EXCEPT ![sid[r]] = @ \union InFile(folder[sid[r]])]
      /\ wiped' \in Seq(SUBSET Marks) /\ Len(wiped') = Len(folder')
      /\ folder[sid[r]] = NoFile => InFile(folder[sid[r]]) = {}
      /\ stored' = stored \ {sid[r]}
      /\ data' = [data EXCEPT ![r] = {}]
      /\ file' = [file EXCEPT ![r] = NoFile] /\ locked' = [locked EXCEPT ![r] = FALSE]
      /\ disturbed' = disturbed \union {q \in Requests : Active(q) /\ sid[r] \in {cookie[q], sid[q]}}
      /\ UNCHANGED <<content, jar, pc, cookie, sid, new, hash, forgot, again, dropped>>
  <2>1. sid[r] \in SessionIds /\ pc[r] = "work"
    BY HasId DEF Clear, Op
  <2>2. InFile(folder[sid[r]]) \in SUBSET Marks
    BY <2>1 DEF InFile, FileInv, FileTypes, SessionIds, Files
  <2> QED BY <2>1, <2>2 DEF Clear, Wipe, Removed, Disturb, Close, InFile, SessionIds, Files, nameVars, FileInv, FileTypes
<1>2. FileTypes' /\ SessionTypes'
  BY <1>1, HasId DEF FileInv, FileTypes, SessionTypes, Steps
<1>3. Named'
  BY <1>1, HasId DEF FileInv, FileTypes, SessionTypes, Named
<1>4. Locks'
  BY <1>1, HasId DEF FileInv, FileTypes, SessionTypes, Locks, Opened
<1>5. ASSUME NEW q \in Requests PROVE Private(q)'
  <2>1. CASE q = r
    BY <1>1, HasId, <2>1 DEF FileInv, FileTypes, SessionTypes, Private
  <2>2. CASE q # r
    BY <1>1, HasId, <2>2 DEF FileInv, FileTypes, SessionTypes, Private
  <2> QED BY <2>1, <2>2
<1>6. ASSUME NEW q \in Requests PROVE Opened(q)'
  <2>1. /\ Opened(q) /\ (pc'[q] \in {"lock", "load", "work", "relock", "write"} => Active(q))
        /\ pc' = pc /\ sid' = sid /\ new' = new /\ forgot' = forgot /\ cookie' = cookie
    BY <1>1 DEF FileInv, Active
  <2>2. \A i \in SessionIds : folder'[i] = IF i = sid[r] THEN NoFile ELSE folder[i]
    BY <1>1 DEF FileInv, FileTypes, SessionIds
  <2>3. Active(q) /\ sid[q] = sid[r] => q \in disturbed'
    BY <1>1
  <2>4. q \notin disturbed' => q \notin disturbed
    BY <1>1
  <2>5. CASE q = r
    BY <1>1, <2>1, <2>3, <2>5 DEF FileInv, FileTypes, SessionTypes, Opened
  <2>6. CASE q # r
    <3>1. file'[q] = file[q]
      BY <1>1, <2>6 DEF FileInv, FileTypes
    <3>2. \A i \in SessionIds : file[q] # NoFile /\ folder'[i] = file[q] => folder[i] = file[q]
      BY <2>2
    <3>3. pc[q] \in {"lock", "load", "work", "relock", "write"} => sid[q] \in SessionIds
      BY HasId
    <3> QED BY <1>1, <2>1, <2>2, <2>3, <2>4, <3>1, <3>2, <3>3 DEF Opened
  <2> QED BY <2>5, <2>6
<1>7. ASSUME NEW q \in Requests PROVE Follows(q)'
  <2>1. CASE q = r
    BY <1>1, HasId, <2>1 DEF FileInv, FileTypes, SessionTypes, Follows, Effect, Locks, Opened, Named
  <2>2. CASE q # r
    BY <1>1, HasId, <2>2 DEF FileInv, FileTypes, SessionTypes, Follows, Effect, Locks, Opened, Named
  <2> QED BY <2>1, <2>2
<1> QED BY <1>2, <1>3, <1>4, <1>5, <1>6, <1>7 DEF FileInv

\* A file that is created is nobody else's.
LEMMA StoreNewKeeps ==
  ASSUME FileInv, NEW r \in Requests, Store(r), Fresh(r), Create(r)
  PROVE  FileInv'
<1> DEFINE f == Len(content) + 1
<1>1. /\ sid[r] \in SessionIds /\ pc[r] = "work" /\ pc' = [pc EXCEPT ![r] = "relock"]
      /\ SessionIds' = SessionIds /\ f \notin Files /\ f # NoFile /\ f \in Files' /\ Files' = Files \union {f}
      /\ folder[sid[r]] = NoFile /\ folder' = [folder EXCEPT ![sid[r]] = f]
      /\ folder' \in Seq(Files' \union {NoFile})
      /\ content' \in Seq((SUBSET Marks) \union {Empty}) /\ \A g \in Files : content'[g] = content[g]
      /\ file' = [file EXCEPT ![r] = f] /\ locked' = [locked EXCEPT ![r] = FALSE]
      /\ Len(wiped) = Len(folder') /\ (new[r] \/ file[r] = NoFile) /\ ~forgot[r]
      /\ UNCHANGED <<wiped, stored, disturbed, jar, cookie, sid, new, data, hash, forgot, again, dropped>>
  <2>1. sid[r] \in SessionIds /\ pc[r] = "work"
    BY HasId DEF Store
  <2>2. f \notin Files /\ f # NoFile /\ f \in Files' /\ Files' = Files \union {f}
    BY DEF Create, Files, NoFile, FileInv, FileTypes
  <2>3. /\ content' \in Seq((SUBSET Marks) \union {Empty}) /\ \A g \in Files : content'[g] = content[g]
    BY DEF Create, Files, FileInv, FileTypes
  <2>4. /\ folder[sid[r]] = NoFile /\ folder' = [folder EXCEPT ![sid[r]] = f]
        /\ folder' \in Seq(Files' \union {NoFile}) /\ SessionIds' = SessionIds /\ Len(folder') = Len(folder)
        /\ folder'[sid[r]] = f
    BY <2>1, <2>2 DEF Create, SessionIds, FileInv, FileTypes
  <2> QED BY <2>1, <2>2, <2>3, <2>4 DEF Create, Store, Fresh, nameVars, selfVars, FileInv, FileTypes
<1> HIDE DEF f
<1>2. FileTypes' /\ SessionTypes'
  BY <1>1, HasId DEF FileInv, FileTypes, SessionTypes, Steps
<1>3. Named'
  <2>1. /\ \A i \in SessionIds : folder'[i] = IF i = sid[r] THEN f ELSE folder[i]
        /\ \A i \in SessionIds : folder[i] \in Files \union {NoFile} /\ folder[i] # f
    BY <1>1 DEF FileInv, FileTypes, SessionIds
  <2>2. ASSUME NEW i \in SessionIds', NEW j \in SessionIds', folder'[i] = folder'[j], folder'[i] # NoFile
        PROVE  i = j
    BY <1>1, <2>1, <2>2 DEF FileInv, Named
  <2>3. ASSUME NEW i \in stored' PROVE folder'[i] # NoFile /\ content'[folder'[i]] # Empty
    <3>1. i \in SessionIds /\ folder[i] # NoFile /\ content[folder[i]] # Empty
      BY <1>1 DEF FileInv, FileTypes, Named
    <3> QED BY <1>1, <2>1, <3>1
  <2> QED BY <2>2, <2>3 DEF Named
<1>4. Locks'
  BY <1>1, HasId DEF FileInv, FileTypes, SessionTypes, Locks, Opened
<1>5. ASSUME NEW q \in Requests PROVE Private(q)'
  <2>1. CASE q = r
    BY <1>1, HasId, <2>1 DEF FileInv, FileTypes, SessionTypes, Private
  <2>2. CASE q # r
    BY <1>1, HasId, <2>2 DEF FileInv, FileTypes, SessionTypes, Private
  <2> QED BY <2>1, <2>2
<1>6. ASSUME NEW q \in Requests PROVE Opened(q)'
  <2>1. CASE q = r
    <3>1. /\ pc'[r] = "relock" /\ file'[r] = f /\ sid'[r] = sid[r] /\ sid[r] # None /\ new' = new
          /\ new[r] \/ r \in disturbed'
      BY <1>1 DEF FileInv, FileTypes, SessionTypes, Opened
    <3>2. folder'[sid[r]] = f /\ \A i \in SessionIds : folder'[i] = f => i = sid[r]
      BY <1>1 DEF FileInv, FileTypes, SessionIds
    <3> QED BY <1>1, <2>1, <3>1, <3>2 DEF Opened
  <2>2. CASE q # r
    BY <1>1, HasId, <2>2 DEF FileInv, FileTypes, SessionTypes, Opened, Private, Named
  <2> QED BY <2>1, <2>2
<1>7. ASSUME NEW q \in Requests PROVE Follows(q)'
  <2>1. CASE q = r
    BY <1>1, HasId, <2>1 DEF FileInv, FileTypes, SessionTypes, Follows, Effect, Locks, Opened, Named
  <2>2. CASE q # r
    BY <1>1, HasId, <2>2 DEF FileInv, FileTypes, SessionTypes, Follows, Effect, Locks, Opened, Named
  <2> QED BY <2>1, <2>2
<1> QED BY <1>2, <1>3, <1>4, <1>5, <1>6, <1>7 DEF FileInv

\* Only a request whose session was cleared empties a file that has its name.
LEMMA StoreOverKeeps ==
  ASSUME FileInv, NEW r \in Requests, Store(r), Fresh(r), Truncate(r)
  PROVE  FileInv'
<1>1. /\ sid[r] \in SessionIds /\ pc[r] = "work" /\ pc' = [pc EXCEPT ![r] = "relock"]
      /\ SessionIds' = SessionIds /\ Files' = Files /\ r \in disturbed
      /\ folder[sid[r]] \in Files /\ folder[sid[r]] # NoFile
      /\ content' = [content EXCEPT ![folder[sid[r]]] = Empty]
      /\ content' \in Seq((SUBSET Marks) \union {Empty})
      /\ file' = [file EXCEPT ![r] = folder[sid[r]]] /\ locked' = [locked EXCEPT ![r] = FALSE]
      /\ stored' = stored \ {sid[r]}
      /\ disturbed' = disturbed \union {q \in Requests : Active(q) /\ sid[r] \in {cookie[q], sid[q]}}
      /\ UNCHANGED <<folder, wiped, jar, cookie, sid, new, data, hash, forgot, again, dropped>>
  <2>1. sid[r] \in SessionIds /\ pc[r] = "work" /\ ~forgot[r]
    BY HasId DEF Store
  <2>2. folder[sid[r]] \in Files /\ folder[sid[r]] # NoFile /\ folder' = folder
    BY <2>1 DEF Truncate, SessionIds, FileInv, FileTypes
  <2>3. r \in disturbed
    BY <2>1, <2>2 DEF Fresh, FileInv, Private, Opened
  <2>4. /\ content' = [content EXCEPT ![folder[sid[r]]] = Empty]
        /\ content' \in Seq((SUBSET Marks) \union {Empty}) /\ Len(content') = Len(content)
    BY <2>2 DEF Truncate, Files, FileInv, FileTypes
  <2> QED BY <2>1, <2>2, <2>3, <2>4 DEF Truncate, Disturb, Store, SessionIds, Files, nameVars, selfVars
<1>a. \A q \in Requests : Active(q) <=> pc[q] \notin {"away", "done", "dead"}
  BY DEF Active
<1>2. FileTypes' /\ SessionTypes'
  BY <1>1, <1>a, HasId DEF FileInv, FileTypes, SessionTypes, Steps
<1>3. Named'
  BY <1>1, <1>a, HasId DEF FileInv, FileTypes, SessionTypes, Named
<1>4. Locks'
  BY <1>1, <1>a, HasId DEF FileInv, FileTypes, SessionTypes, Locks, Opened
<1>5. ASSUME NEW q \in Requests PROVE Private(q)'
  <2>1. CASE q = r
    BY <1>1, <1>a, HasId, <2>1 DEF FileInv, FileTypes, SessionTypes, Private
  <2>2. CASE q # r
    BY <1>1, <1>a, HasId, <2>2 DEF FileInv, FileTypes, SessionTypes, Private
  <2> QED BY <2>1, <2>2
<1>6. ASSUME NEW q \in Requests PROVE Opened(q)'
  <2>1. CASE q = r
    BY <1>1, <1>a, HasId, <2>1 DEF FileInv, FileTypes, SessionTypes, Opened, Private, Named
  <2>2. CASE q # r
    BY <1>1, <1>a, HasId, <2>2 DEF FileInv, FileTypes, SessionTypes, Opened, Private, Named
  <2> QED BY <2>1, <2>2
<1>7. ASSUME NEW q \in Requests PROVE Follows(q)'
  <2>1. CASE q = r
    BY <1>1, <1>a, HasId, <2>1 DEF FileInv, FileTypes, SessionTypes, Follows, Effect, Locks, Opened, Named
  <2>2. CASE q # r
    BY <1>1, <1>a, HasId, <2>2 DEF FileInv, FileTypes, SessionTypes, Follows, Effect, Locks, Opened, Named
  <2> QED BY <2>1, <2>2
<1> QED BY <1>2, <1>3, <1>4, <1>5, <1>6, <1>7 DEF FileInv

\* An open file is written where it is.
LEMMA StoreHereKeeps ==
  ASSUME FileInv, NEW r \in Requests, Store(r), ~Fresh(r)
  PROVE  FileInv'
<1>1. /\ pc[r] = "work" /\ pc' = [pc EXCEPT ![r] = "write"] /\ SessionIds' = SessionIds /\ Files' = Files
      /\ ~new[r] /\ file[r] # NoFile
      /\ UNCHANGED <<folder, wiped, stored, content, file, locked, jar, cookie, sid, new, data, hash,
                     forgot, again, dropped, disturbed>>
  BY DEF Store, Fresh, SessionIds, Files, diskVars, fileVars, nameVars, selfVars
<1>2. FileTypes' /\ SessionTypes'
  BY <1>1, HasId DEF FileInv, FileTypes, SessionTypes, Steps
<1>3. Named'
  BY <1>1, HasId DEF FileInv, FileTypes, SessionTypes, Named
<1>4. Locks'
  BY <1>1, HasId DEF FileInv, FileTypes, SessionTypes, Locks, Opened
<1>5. ASSUME NEW q \in Requests PROVE Private(q)'
  <2>1. CASE q = r
    BY <1>1, HasId, <2>1 DEF FileInv, FileTypes, SessionTypes, Private
  <2>2. CASE q # r
    BY <1>1, HasId, <2>2 DEF FileInv, FileTypes, SessionTypes, Private
  <2> QED BY <2>1, <2>2
<1>6. ASSUME NEW q \in Requests PROVE Opened(q)'
  <2>1. CASE q = r
    BY <1>1, HasId, <2>1 DEF FileInv, FileTypes, SessionTypes, Opened, Private, Named
  <2>2. CASE q # r
    BY <1>1, HasId, <2>2 DEF FileInv, FileTypes, SessionTypes, Opened, Private, Named
  <2> QED BY <2>1, <2>2
<1>7. ASSUME NEW q \in Requests PROVE Follows(q)'
  <2>1. CASE q = r
    BY <1>1, HasId, <2>1 DEF FileInv, FileTypes, SessionTypes, Follows, Effect, Locks, Opened, Named
  <2>2. CASE q # r
    BY <1>1, HasId, <2>2 DEF FileInv, FileTypes, SessionTypes, Follows, Effect, Locks, Opened, Named
  <2> QED BY <2>1, <2>2
<1> QED BY <1>2, <1>3, <1>4, <1>5, <1>6, <1>7 DEF FileInv

\* The lock keeps everybody else from the file that is written.
LEMMA WriteKeeps ==
  ASSUME FileInv, NEW r \in Requests, Write(r)
  PROVE  FileInv'
<1>1. /\ pc[r] = "write" /\ pc' = [pc EXCEPT ![r] = "done"] /\ SessionIds' = SessionIds /\ Files' = Files
      /\ sid[r] \in SessionIds /\ file[r] \in Files /\ file[r] # NoFile /\ data[r] \in SUBSET Marks /\ data[r] # Empty
      /\ content' = [content EXCEPT ![file[r]] = data[r]] /\ content' \in Seq((SUBSET Marks) \union {Empty})
      /\ stored' = IF folder[sid[r]] = file[r] THEN stored \union {sid[r]} ELSE stored
      /\ jar' \in {jar, sid[r]}
      /\ file' = [file EXCEPT ![r] = NoFile] /\ locked' = [locked EXCEPT ![r] = FALSE]
      /\ UNCHANGED <<folder, wiped, cookie, sid, new, data, hash, forgot, again, dropped, disturbed>>
  <2>1. pc[r] = "write" /\ sid[r] \in SessionIds /\ file[r] \in Files /\ file[r] # NoFile
    BY HasId DEF Write, FileInv, Opened, FileTypes
  <2>2. data[r] \in SUBSET Marks /\ data[r] # Empty
    BY OldAssumption DEF FileInv, SessionTypes, Marks, Empty
  <2>3. /\ content' = [content EXCEPT ![file[r]] = data[r]] /\ Len(content') = Len(content)
        /\ content' \in Seq((SUBSET Marks) \union {Empty})
    BY <2>1, <2>2 DEF Write, Files, FileInv, FileTypes
  <2> QED BY <2>1, <2>2, <2>3 DEF Write, Reply, Close, SessionIds, Files, nameVars, selfVars, opVars
<1>2. FileTypes' /\ SessionTypes'
  BY <1>1, HasId DEF FileInv, FileTypes, SessionTypes, Steps
<1>3. Named'
  BY <1>1, HasId DEF FileInv, FileTypes, SessionTypes, Named
<1>4. Locks'
  BY <1>1, HasId DEF FileInv, FileTypes, SessionTypes, Locks, Opened
<1>5. ASSUME NEW q \in Requests PROVE Private(q)'
  <2>1. CASE q = r
    BY <1>1, HasId, <2>1 DEF FileInv, FileTypes, SessionTypes, Private
  <2>2. CASE q # r
    BY <1>1, HasId, <2>2 DEF FileInv, FileTypes, SessionTypes, Private
  <2> QED BY <2>1, <2>2
<1>6. ASSUME NEW q \in Requests PROVE Opened(q)'
  <2>1. CASE q = r
    BY <1>1, HasId, <2>1 DEF FileInv, FileTypes, SessionTypes, Opened, Private, Named
  <2>2. CASE q # r
    BY <1>1, HasId, <2>2 DEF FileInv, FileTypes, SessionTypes, Opened, Private, Named
  <2> QED BY <2>1, <2>2
<1>7. ASSUME NEW q \in Requests PROVE Follows(q)'
  <2>1. CASE q = r
    BY <1>1, HasId, <2>1 DEF FileInv, FileTypes, SessionTypes, Follows, Effect, Locks, Opened, Named
  <2>2. CASE q # r
    BY <1>1, HasId, <2>2 DEF FileInv, FileTypes, SessionTypes, Follows, Effect, Locks, Opened, Named
  <2> QED BY <2>1, <2>2
<1> QED BY <1>2, <1>3, <1>4, <1>5, <1>6, <1>7 DEF FileInv

\* There may be a session at first.
LEMMA FileInvInit == FileInit => FileInv
<1> SUFFICES ASSUME FileInit PROVE FileInv
  OBVIOUS
<1>1. /\ folder \in Seq(Files \union {NoFile}) /\ wiped \in Seq(SUBSET Marks) /\ Len(wiped) = Len(folder)
      /\ content \in Seq((SUBSET Marks) \union {Empty}) /\ stored \subseteq SessionIds
      /\ jar \in SessionIds \union {None} /\ Named
  <2>1. CASE folder = <<>> /\ stored = {} /\ wiped = <<>> /\ content = <<>> /\ jar = None
    BY <2>1 DEF SessionIds, Files, Named
  <2>2. CASE folder = <<1>> /\ stored = {1} /\ wiped = <<{}>> /\ content = <<{Old}>> /\ jar = 1
    <3>1. {Old} # Empty
      BY OldAssumption DEF Empty
    <3>2. Len(folder) = 1 /\ folder[1] = 1 /\ Len(content) = 1 /\ content[1] = {Old} /\ Len(wiped) = 1
      BY <2>2
    <3>3. SessionIds = {1} /\ Files = {1}
      BY <3>2 DEF SessionIds, Files
    <3>4. folder \in Seq(Files \union {NoFile}) /\ wiped \in Seq(SUBSET Marks)
          /\ content \in Seq((SUBSET Marks) \union {Empty})
      BY <2>2, <3>3 DEF Marks
    <3> QED BY <2>2, <3>1, <3>2, <3>3, <3>4 DEF Named, NoFile
  <2> QED BY <2>1, <2>2 DEF FileInit
<1>2. FileTypes /\ SessionTypes
  BY <1>1 DEF FileInit, RequestInit, FileTypes, SessionTypes, Steps
<1>3. Locks /\ \A r \in Requests : Private(r) /\ Opened(r) /\ Follows(r)
  BY DEF FileInit, RequestInit, Locks, Private, Opened, Follows
<1> QED BY <1>1, <1>2, <1>3 DEF FileInv

\* Every step keeps the invariant.
LEMMA FileInvNext == FileInv /\ [FileNext]_vars => FileInv'
<1> SUFFICES ASSUME FileInv, [FileNext]_vars PROVE FileInv'
  OBVIOUS
<1>1. CASE UNCHANGED vars
  BY <1>1 DEF FileInv, FileTypes, SessionTypes, Named, Locks, Private, Opened, Follows, Effect, SessionIds, Files,
     vars, diskVars, fileVars, requestVars, opVars, selfVars
<1>2. ASSUME NEW r \in Requests, Serve(r) PROVE FileInv'
  <2>1. CASE Open(r)
    BY <2>1, OpenNewKeeps, OpenFileKeeps
  <2>2. CASE Load(r)
    BY <2>2, LoadNewKeeps, LoadFileKeeps
  <2>3. CASE Store(r)
    <3>1. Fresh(r) => Create(r) \/ Truncate(r)
      BY <2>3 DEF Store
    <3> QED BY <2>3, <3>1, StoreNewKeeps, StoreOverKeeps, StoreHereKeeps
  <2> QED BY <1>2, <2>1, <2>2, <2>3, LockKeeps, SkipKeeps, RelockKeeps, WriteKeeps DEF Serve
<1>3. ASSUME NEW r \in Requests, App(r) PROVE FileInv'
  BY <1>3, AddKeeps, ClearKeeps, RenewKeeps, ForgetKeeps, AgainKeeps, DropKeeps DEF App
<1> QED BY <1>1, <1>2, <1>3, ArriveKeeps, BreakKeeps DEF FileNext

\* The invariant of the sessions in files.
LEMMA FileInvAlways == FileSpec => []FileInv
<1> QED BY FileInvInit, FileInvNext, PTL DEF FileSpec
-----------------------------------------------------------------------------

\* Where a request is changes by its own steps alone.
LEMMA OwnStep ==
  ASSUME FileInv, [FileNext]_vars, NEW r \in Requests, pc'[r] # pc[r]
  PROVE  Arrive(r) \/ Serve(r) \/ App(r) \/ Break(r)
<1>1. PICK q \in Requests : Arrive(q) \/ Serve(q) \/ App(q) \/ Break(q)
  BY DEF FileNext, vars, requestVars
<1>2. \E w : pc' = pc \/ pc' = [pc EXCEPT ![q] = w]
  BY <1>1 DEF Arrive, Serve, Open, Lock, Load, Skip, Reply, Store, Relock, Write,
     App, Add, Clear, Renew, Forget, Again, Drop, Break
<1>3. q = r
  BY <1>2 DEF FileInv, SessionTypes
<1> QED BY <1>1, <1>3

\* A session that is stored has a file with something in it, so that the request whose
\* cookie names it opens and loads it.
LEMMA StoredIsFound ==
  ASSUME FileInv, [FileNext]_vars, NEW r \in Requests,
         pc[r] \in {"open", "load"}, pc'[r] = "work", new'[r], r \notin disturbed
  PROVE  cookie[r] \notin stored
<1> SUFFICES ASSUME cookie[r] \in stored PROVE FALSE
  OBVIOUS
<1>0. pc \in [Requests -> Steps]
  BY DEF FileInv, SessionTypes
<1>1. Open(r) \/ Load(r)
  <2>1. ~Arrive(r) /\ ~Skip(r) /\ ~Store(r) /\ ~Relock(r) /\ ~Write(r) /\ ~Lock(r)
    BY <1>0 DEF Arrive, Skip, Store, Relock, Write, Lock
  <2>2. ~App(r)
    BY DEF App, Add, Clear, Renew, Forget, Again, Drop, Op
  <2>3. ~Break(r)
    BY <1>0 DEF Break
  <2> QED BY <2>1, <2>2, <2>3, OwnStep DEF Serve
<1>2. /\ cookie[r] \in SessionIds /\ cookie[r] # None
      /\ folder[cookie[r]] # NoFile /\ content[folder[cookie[r]]] # Empty
  <2>1. cookie[r] \in SessionIds
    BY DEF FileInv, FileTypes
  <2>2. cookie[r] # None
    BY <2>1, OldAssumption DEF SessionIds, FileInv, FileTypes
  <2> QED BY <2>1, <2>2 DEF FileInv, Named
<1>3. CASE Open(r)
  BY <1>0, <1>2, <1>3 DEF Open
<1>4. CASE Load(r)
  <2>1. sid[r] = cookie[r] /\ ~new[r] /\ folder[sid[r]] = file[r]
    BY <1>4 DEF Load, FileInv, Opened
  <2> QED BY <1>2, <1>4, <2>1 DEF Load, nameVars
<1> QED BY <1>1, <1>3, <1>4

\* A request whose cookie names a stored session loads it: connect() begins a new session
\* only for a client whose own was never stored, is cleared, or is being rewritten by one
\* who lost it to clear().
THEOREM KeptAlways == FileSpec => SessionKept
<1>1. FileInv /\ [FileNext]_vars =>
        [\A r \in Requests :
           pc[r] \in {"open", "load"} /\ pc'[r] = "work" /\ new'[r] /\ r \notin disturbed =>
             cookie[r] \notin stored]_vars
  BY StoredIsFound
<1> QED BY <1>1, FileInvAlways, PTL DEF FileSpec, SessionKept

\* A request that nothing disturbed writes its own change to what is in the file.
LEMMA WrittenOver ==
  ASSUME FileInv, [FileNext]_vars, NEW r \in Requests,
         pc[r] = "write", pc'[r] = "done", ~Fresh(r), ~again[r], r \notin disturbed
  PROVE  file[r] = folder[sid[r]] /\ content'[file[r]] = Effect(r, content[file[r]])
<1>1. Write(r)
  <2>1. ~Arrive(r) /\ ~Open(r) /\ ~Lock(r) /\ ~Load(r) /\ ~Skip(r) /\ ~Store(r) /\ ~Relock(r)
    BY DEF Arrive, Open, Lock, Load, Skip, Store, Relock
  <2>2. ~App(r)
    BY DEF App, Add, Clear, Renew, Forget, Again, Drop, Op
  <2>3. ~Break(r)
    BY DEF Break, FileInv, SessionTypes
  <2> QED BY <2>1, <2>2, <2>3, OwnStep DEF Serve
<1>2. file[r] \in Files /\ ~new[r] /\ file[r] # NoFile
  BY DEF Fresh, FileInv, FileTypes
<1>3. file[r] = folder[sid[r]] /\ data[r] = Effect(r, content[file[r]])
  BY <1>2 DEF FileInv, Opened, Follows
<1>4. content'[file[r]] = data[r]
  BY <1>1, <1>2 DEF Write, FileInv, FileTypes, Files
<1> QED BY <1>3, <1>4

\* The lock from connect() to the store makes the change of a request that nothing
\* disturbed atomic: what it writes is what the file had, and its change.
THEOREM AtomicAlways == FileSpec => UpdatesAtomic
<1>1. FileInv /\ [FileNext]_vars =>
        [\A r \in Requests :
           pc[r] = "write" /\ pc'[r] = "done" /\ ~Fresh(r) /\ ~again[r] /\ r \notin disturbed =>
             /\ file[r] = folder[sid[r]]
             /\ content'[file[r]] = Effect(r, content[file[r]])]_vars
  BY WrittenOver
<1> QED BY <1>1, FileInvAlways, PTL DEF FileSpec, UpdatesAtomic
-----------------------------------------------------------------------------

\* The marks that may be in a file: a request leaves its own when it is done.
Past == {Old} \union {q \in Requests : pc[q] = "done"}

\* What was cleared is in no file of that name, and in no request that may write to it.
Clean(r) ==
  /\ data[r] \ {r} \subseteq Past
  /\ pc[r] = "work" /\ ~new[r] /\ file[r] = NoFile /\ ~forgot[r] => data[r] \subseteq {r}
  /\ pc[r] \in {"work", "relock", "write"} /\ file[r] # NoFile /\ folder[sid[r]] = file[r] =>
       data[r] \intersect wiped[sid[r]] = {}
WipedInv ==
  /\ \A f \in Files : InFile(f) \subseteq Past
  /\ \A i \in SessionIds : wiped[i] \subseteq Past /\ InFile(folder[i]) \intersect wiped[i] = {}
  /\ \A r \in Requests : Clean(r)

\* Steps that neither touch a file nor its name.
LEMMA FilesClean ==
  ASSUME FileInv, WipedInv, UNCHANGED <<folder, wiped, content>>, Past \subseteq Past'
  PROVE  /\ \A f \in Files' : InFile(f)' \subseteq Past'
         /\ \A i \in SessionIds' : wiped'[i] \subseteq Past' /\ InFile(folder[i])' \intersect wiped'[i] = {}
<1>1. /\ Files' = Files /\ SessionIds' = SessionIds /\ \A f : InFile(f)' = InFile(f)
      /\ \A i : InFile(folder[i])' = InFile(folder[i])
  BY DEF Files, SessionIds, InFile
<1> QED BY <1>1 DEF WipedInv

\* None of these steps writes to a file or removes one.
LEMMA ArriveClean ==
  ASSUME FileInv, WipedInv, NEW r \in Requests, Arrive(r)
  PROVE  WipedInv'
<1>1. UNCHANGED <<folder, wiped, content>> /\ Past \subseteq Past'
  BY DEF Past, Arrive, diskVars, nameVars, fileVars, selfVars, opVars, FileInv, SessionTypes
<1>2. ASSUME NEW q \in Requests PROVE Clean(q)'
  <2>1. Clean(q) /\ Clean(r)
    BY DEF WipedInv
  <2>2. CASE q = r
    BY <1>1, <2>1, <2>2 DEF Clean, FileInv, SessionTypes, FileTypes, Arrive, diskVars, nameVars, fileVars, selfVars, opVars
  <2>3. CASE q # r
    BY <1>1, <2>1, <2>3 DEF Clean, FileInv, SessionTypes, FileTypes, Arrive, diskVars, nameVars, fileVars, selfVars, opVars
  <2> QED BY <2>2, <2>3
<1> QED BY <1>1, <1>2, FilesClean DEF WipedInv

LEMMA LockClean ==
  ASSUME FileInv, WipedInv, NEW r \in Requests, Lock(r)
  PROVE  WipedInv'
<1>1. UNCHANGED <<folder, wiped, content>> /\ Past \subseteq Past'
  BY DEF Past, Lock, diskVars, nameVars, selfVars, opVars, FileInv, SessionTypes
<1>2. ASSUME NEW q \in Requests PROVE Clean(q)'
  <2>1. Clean(q) /\ Clean(r)
    BY DEF WipedInv
  <2>2. CASE q = r
    BY <1>1, <2>1, <2>2 DEF Clean, FileInv, SessionTypes, FileTypes, Lock, diskVars, nameVars, selfVars, opVars
  <2>3. CASE q # r
    BY <1>1, <2>1, <2>3 DEF Clean, FileInv, SessionTypes, FileTypes, Lock, diskVars, nameVars, selfVars, opVars
  <2> QED BY <2>2, <2>3
<1> QED BY <1>1, <1>2, FilesClean DEF WipedInv

LEMMA AddClean ==
  ASSUME FileInv, WipedInv, NEW r \in Requests, Add(r)
  PROVE  WipedInv'
<1>1. UNCHANGED <<folder, wiped, content>> /\ Past \subseteq Past'
  BY DEF Past, Add, Op, diskVars, nameVars, fileVars, FileInv, SessionTypes
<1>2. ASSUME NEW q \in Requests PROVE Clean(q)'
  <2>1. Clean(q) /\ Clean(r)
    BY DEF WipedInv
  <2>2. CASE q = r
    <3>1. r \notin Past /\ wiped[sid[r]] \subseteq Past
      BY HasId, OldAssumption DEF Add, Op, Past, WipedInv
    <3> QED BY <1>1, <2>1, <2>2, <3>1 DEF Clean, FileInv, SessionTypes, FileTypes, Add, Op, diskVars, nameVars, fileVars
  <2>3. CASE q # r
    BY <1>1, <2>1, <2>3 DEF Clean, FileInv, SessionTypes, FileTypes, Add, Op, diskVars, nameVars, fileVars
  <2> QED BY <2>2, <2>3
<1> QED BY <1>1, <1>2, FilesClean DEF WipedInv

LEMMA DropClean ==
  ASSUME FileInv, WipedInv, NEW r \in Requests, \E m \in Marks : Drop(r, m)
  PROVE  WipedInv'
<1>1. UNCHANGED <<folder, wiped, content>> /\ Past \subseteq Past'
  BY DEF Past, Drop, Op, diskVars, nameVars, fileVars, FileInv, SessionTypes
<1>2. ASSUME NEW q \in Requests PROVE Clean(q)'
  <2>1. Clean(q) /\ Clean(r)
    BY DEF WipedInv
  <2>2. CASE q = r
    BY <1>1, <2>1, <2>2 DEF Clean, FileInv, SessionTypes, FileTypes, Drop, Op, diskVars, nameVars, fileVars
  <2>3. CASE q # r
    BY <1>1, <2>1, <2>3 DEF Clean, FileInv, SessionTypes, FileTypes, Drop, Op, diskVars, nameVars, fileVars
  <2> QED BY <2>2, <2>3
<1> QED BY <1>1, <1>2, FilesClean DEF WipedInv

LEMMA ForgetClean ==
  ASSUME FileInv, WipedInv, NEW r \in Requests, Forget(r)
  PROVE  WipedInv'
<1>1. UNCHANGED <<folder, wiped, content>> /\ Past \subseteq Past'
  BY DEF Past, Forget, Op, Close, diskVars, nameVars, fileVars, FileInv, SessionTypes
<1>2. ASSUME NEW q \in Requests PROVE Clean(q)'
  <2>1. Clean(q) /\ Clean(r)
    BY DEF WipedInv
  <2>2. CASE q = r
    BY <1>1, <2>1, <2>2 DEF Clean, FileInv, SessionTypes, FileTypes, Forget, Op, Close, diskVars, nameVars, fileVars
  <2>3. CASE q # r
    BY <1>1, <2>1, <2>3 DEF Clean, FileInv, SessionTypes, FileTypes, Forget, Op, Close, diskVars, nameVars, fileVars
  <2> QED BY <2>2, <2>3
<1> QED BY <1>1, <1>2, FilesClean DEF WipedInv

LEMMA SkipClean ==
  ASSUME FileInv, WipedInv, NEW r \in Requests, Skip(r)
  PROVE  WipedInv'
<1>1. UNCHANGED <<folder, wiped, content>> /\ Past \subseteq Past'
  BY DEF Past, Skip, Reply, Close, diskVars, nameVars, selfVars, opVars, FileInv, SessionTypes
<1>2. ASSUME NEW q \in Requests PROVE Clean(q)'
  <2>1. Clean(q) /\ Clean(r)
    BY DEF WipedInv
  <2>2. CASE q = r
    BY <1>1, <2>1, <2>2 DEF Clean, FileInv, SessionTypes, FileTypes, Skip, Reply, Close, diskVars, nameVars, selfVars, opVars
  <2>3. CASE q # r
    BY <1>1, <2>1, <2>3 DEF Clean, FileInv, SessionTypes, FileTypes, Skip, Reply, Close, diskVars, nameVars, selfVars, opVars
  <2> QED BY <2>2, <2>3
<1> QED BY <1>1, <1>2, FilesClean DEF WipedInv

LEMMA RelockClean ==
  ASSUME FileInv, WipedInv, NEW r \in Requests, Relock(r)
  PROVE  WipedInv'
<1>1. UNCHANGED <<folder, wiped, content>> /\ Past \subseteq Past'
  BY DEF Past, Relock, diskVars, nameVars, selfVars, opVars, FileInv, SessionTypes
<1>2. ASSUME NEW q \in Requests PROVE Clean(q)'
  <2>1. Clean(q) /\ Clean(r)
    BY DEF WipedInv
  <2>2. CASE q = r
    BY <1>1, <2>1, <2>2 DEF Clean, FileInv, SessionTypes, FileTypes, Relock, diskVars, nameVars, selfVars, opVars
  <2>3. CASE q # r
    BY <1>1, <2>1, <2>3 DEF Clean, FileInv, SessionTypes, FileTypes, Relock, diskVars, nameVars, selfVars, opVars
  <2> QED BY <2>2, <2>3
<1> QED BY <1>1, <1>2, FilesClean DEF WipedInv

LEMMA BreakClean ==
  ASSUME FileInv, WipedInv, NEW r \in Requests, Break(r)
  PROVE  WipedInv'
<1>1. UNCHANGED <<folder, wiped, content>> /\ Past \subseteq Past'
  BY DEF Past, Break, Active, StaysLocked, diskVars, nameVars, selfVars, opVars, FileInv, SessionTypes
<1>2. ASSUME NEW q \in Requests PROVE Clean(q)'
  <2>1. Clean(q) /\ Clean(r)
    BY DEF WipedInv
  <2>2. CASE q = r
    BY <1>1, <2>1, <2>2 DEF Clean, FileInv, SessionTypes, FileTypes, Break, Active, StaysLocked, diskVars, nameVars, selfVars, opVars
  <2>3. CASE q # r
    BY <1>1, <2>1, <2>3 DEF Clean, FileInv, SessionTypes, FileTypes, Break, Active, StaysLocked, diskVars, nameVars, selfVars, opVars
  <2> QED BY <2>2, <2>3
<1> QED BY <1>1, <1>2, FilesClean DEF WipedInv

LEMMA OpenFileClean ==
  ASSUME FileInv, WipedInv, NEW r \in Requests, Open(r), cookie[r] # None, folder[cookie[r]] # NoFile
  PROVE  WipedInv'
<1>1. UNCHANGED <<folder, wiped, content>> /\ Past \subseteq Past'
  BY DEF Past, Open, opVars, FileInv, SessionTypes
<1>2. ASSUME NEW q \in Requests PROVE Clean(q)'
  <2>1. Clean(q) /\ Clean(r)
    BY DEF WipedInv
  <2>2. CASE q = r
    BY <1>1, <2>1, <2>2 DEF Clean, FileInv, SessionTypes, FileTypes, Open, opVars
  <2>3. CASE q # r
    BY <1>1, <2>1, <2>3 DEF Clean, FileInv, SessionTypes, FileTypes, Open, opVars
  <2> QED BY <2>2, <2>3
<1> QED BY <1>1, <1>2, FilesClean DEF WipedInv

LEMMA LoadFileClean ==
  ASSUME FileInv, WipedInv, NEW r \in Requests, Load(r), content[file[r]] # Empty, ~again[r]
  PROVE  WipedInv'
<1>1. /\ UNCHANGED <<folder, wiped, content>> /\ Past \subseteq Past'
      /\ pc[r] = "load" /\ pc' = [pc EXCEPT ![r] = "work"]
      /\ data' = [data EXCEPT ![r] = @ \union content[file[r]]]
      /\ UNCHANGED <<sid, new, file, forgot>>
  BY DEF Past, Load, fileVars, nameVars, opVars, FileInv, SessionTypes
<1>2. ASSUME NEW q \in Requests PROVE Clean(q)'
  <2>1. Clean(q)
    BY DEF WipedInv
  <2>2. CASE q = r
    <3>1. data[r] = {} /\ file[r] \in Files /\ file[r] # NoFile /\ sid[r] \in SessionIds
      BY <1>1, HasId DEF FileInv, Follows, Opened, FileTypes
    <3>2. content[file[r]] = InFile(file[r]) /\ InFile(file[r]) \subseteq Past
      BY <3>1 DEF InFile, WipedInv
    <3>3. folder[sid[r]] = file[r] => InFile(file[r]) \intersect wiped[sid[r]] = {}
      BY <3>1 DEF WipedInv
    <3>4. data'[r] = InFile(file[r])
      BY <1>1, <3>1, <3>2 DEF FileInv, SessionTypes
    <3> QED BY <1>1, <2>2, <3>1, <3>2, <3>3, <3>4 DEF Clean
  <2>3. CASE q # r
    <3>1. pc'[q] = pc[q] /\ data'[q] = data[q]
      BY <1>1, <2>3 DEF FileInv, SessionTypes
    <3> QED BY <1>1, <2>1, <3>1 DEF Clean
  <2> QED BY <2>2, <2>3
<1> QED BY <1>1, <1>2, FilesClean DEF WipedInv

LEMMA StoreHereClean ==
  ASSUME FileInv, WipedInv, NEW r \in Requests, Store(r), ~Fresh(r)
  PROVE  WipedInv'
<1>1. UNCHANGED <<folder, wiped, content>> /\ Past \subseteq Past'
  BY DEF Past, Store, Fresh, diskVars, fileVars, nameVars, selfVars, FileInv, SessionTypes
<1>2. ASSUME NEW q \in Requests PROVE Clean(q)'
  <2>1. Clean(q) /\ Clean(r)
    BY DEF WipedInv
  <2>2. CASE q = r
    BY <1>1, <2>1, <2>2 DEF Clean, FileInv, SessionTypes, FileTypes, Store, Fresh, diskVars, fileVars, nameVars, selfVars
  <2>3. CASE q # r
    BY <1>1, <2>1, <2>3 DEF Clean, FileInv, SessionTypes, FileTypes, Store, Fresh, diskVars, fileVars, nameVars, selfVars
  <2> QED BY <2>2, <2>3
<1> QED BY <1>1, <1>2, FilesClean DEF WipedInv
\* A new session has no file, and nothing was cleared from it.
LEMMA NewClean ==
  ASSUME FileInv, WipedInv, NEW r \in Requests, NewId(r), content' = content, data' = data, forgot' = forgot,
         Past \subseteq Past', \A q \in Requests \ {r} : pc'[q] = pc[q] /\ file'[q] = file[q]
  PROVE  WipedInv'
<1> DEFINE n == Len(folder) + 1
<1>1. /\ n \notin SessionIds /\ SessionIds' = SessionIds \union {n} /\ Files' = Files
      /\ \A i \in SessionIds : folder'[i] = folder[i] /\ wiped'[i] = wiped[i]
      /\ folder'[n] = NoFile /\ wiped'[n] = {}
      /\ sid' = [sid EXCEPT ![r] = n] /\ new' = [new EXCEPT ![r] = TRUE]
  BY NewIdFacts
<1> HIDE DEF n
<1>2. \A f : InFile(f)' = InFile(f)
  BY DEF InFile
<1>3. \A f \in Files' : InFile(f)' \subseteq Past'
  BY <1>1, <1>2 DEF WipedInv
<1>4. ASSUME NEW i \in SessionIds'
      PROVE  wiped'[i] \subseteq Past' /\ InFile(folder[i])' \intersect wiped'[i] = {}
  <2>1. i \in SessionIds => InFile(folder[i])' = InFile(folder[i])
    BY <1>1 DEF InFile
  <2> QED BY <1>1, <2>1 DEF WipedInv
<1>5. ASSUME NEW q \in Requests PROVE Clean(q)'
  <2>1. Clean(q)
    BY DEF WipedInv
  <2>2. CASE q = r
    <3>1. sid'[r] = n /\ new'[r]
      BY <1>1 DEF FileInv, SessionTypes
    <3> QED BY <1>1, <2>1, <2>2, <3>1 DEF Clean
  <2>3. CASE q # r
    <3>1. sid'[q] = sid[q] /\ new'[q] = new[q] /\ pc'[q] = pc[q] /\ file'[q] = file[q]
      BY <1>1, <2>3 DEF FileInv, SessionTypes
    <3>2. pc[q] \in {"work", "relock", "write"} => folder'[sid[q]] = folder[sid[q]] /\ wiped'[sid[q]] = wiped[sid[q]]
      BY <1>1, HasId
    <3> QED BY <2>1, <3>1, <3>2 DEF Clean
  <2> QED BY <2>2, <2>3
<1> QED BY <1>3, <1>4, <1>5 DEF WipedInv

\* The three ways to get a new session.
LEMMA RenewedClean ==
  ASSUME FileInv, WipedInv, NEW r \in Requests,
         \/ Renew(r)
         \/ Open(r) /\ ~(cookie[r] # None /\ folder[cookie[r]] # NoFile)
         \/ Load(r) /\ content[file[r]] = Empty
  PROVE  WipedInv'
<1>1. NewId(r) /\ content' = content /\ data' = data /\ forgot' = forgot
  BY DEF Renew, Open, Load, selfVars
<1>2. Past \subseteq Past' /\ \A q \in Requests \ {r} : pc'[q] = pc[q] /\ file'[q] = file[q]
  BY DEF Renew, Open, Load, Close, fileVars, Past, Op, FileInv, SessionTypes, FileTypes
<1> QED BY <1>1, <1>2, NewClean

\* What clear() removes was written by requests that are done.
LEMMA ClearClean ==
  ASSUME FileInv, WipedInv, NEW r \in Requests, Clear(r)
  PROVE  WipedInv'
<1>1. /\ sid[r] \in SessionIds /\ SessionIds' = SessionIds /\ Files' = Files /\ Past' = Past
      /\ \A i \in SessionIds : folder'[i] = IF i = sid[r] THEN NoFile ELSE folder[i]
      /\ \A i \in SessionIds : wiped'[i] = IF i = sid[r] THEN wiped[i] \union InFile(folder[i]) ELSE wiped[i]
      /\ \A q \in Requests : data'[q] = IF q = r THEN {} ELSE data[q]
      /\ \A q \in Requests : file'[q] = IF q = r THEN NoFile ELSE file[q]
      /\ UNCHANGED <<content, pc, sid, new, forgot>>
  <2>1. sid[r] \in SessionIds
    BY HasId DEF Clear, Op
  <2>2. UNCHANGED <<content, pc, sid, new, forgot>> /\ Past' = Past /\ Files' = Files
    BY DEF Clear, nameVars, Past, Files
  <2>3. /\ SessionIds' = SessionIds
        /\ \A i \in SessionIds : folder'[i] = IF i = sid[r] THEN NoFile ELSE folder[i]
    BY <2>1 DEF Clear, Wipe, Removed, SessionIds, FileInv, FileTypes
  <2>4. \A i \in SessionIds : wiped'[i] = IF i = sid[r] THEN wiped[i] \union InFile(folder[i]) ELSE wiped[i]
    <3>1. wiped' = [wiped EXCEPT ![sid[r]] = @ \union InFile(folder[sid[r]])]
      BY DEF Clear, Wipe
    <3>2. DOMAIN wiped = SessionIds
      BY DEF SessionIds, FileInv, FileTypes
    <3> QED BY <3>1, <3>2
  <2>5. /\ \A q \in Requests : data'[q] = IF q = r THEN {} ELSE data[q]
        /\ \A q \in Requests : file'[q] = IF q = r THEN NoFile ELSE file[q]
    BY DEF Clear, Wipe, Close, FileInv, FileTypes, SessionTypes
  <2> QED BY <2>1, <2>2, <2>3, <2>4, <2>5
<1>2. \A f : InFile(f)' = InFile(f)
  BY <1>1 DEF InFile
<1>3. \A i \in SessionIds : InFile(folder[i]) \subseteq Past
  BY DEF WipedInv, InFile, FileInv, FileTypes, SessionIds
<1>4. \A f \in Files' : InFile(f)' \subseteq Past'
  BY <1>1, <1>2 DEF WipedInv
<1>5. ASSUME NEW i \in SessionIds'
      PROVE  wiped'[i] \subseteq Past' /\ InFile(folder[i])' \intersect wiped'[i] = {}
  <2>1. InFile(folder[i])' = IF i = sid[r] THEN {} ELSE InFile(folder[i])
    BY <1>1 DEF InFile
  <2> QED BY <1>1, <1>3, <2>1 DEF WipedInv
<1>6. ASSUME NEW q \in Requests PROVE Clean(q)'
  <2>1. Clean(q) /\ (pc[q] \in {"work", "relock", "write"} => sid[q] \in SessionIds)
    BY HasId DEF WipedInv
  <2> QED BY <1>1, <2>1 DEF Clean
<1> QED BY <1>4, <1>5, <1>6 DEF WipedInv

\* A session that is created or emptied has nothing of what was cleared: its request is
\* new, or has added nothing but its own mark since.
LEMMA StoreFreshClean ==
  ASSUME FileInv, WipedInv, NEW r \in Requests, Store(r), Fresh(r)
  PROVE  WipedInv'
<1>1. /\ sid[r] \in SessionIds /\ pc[r] = "work" /\ ~forgot[r] /\ (new[r] \/ file[r] = NoFile)
      /\ SessionIds' = SessionIds /\ wiped' = wiped /\ UNCHANGED <<sid, new, data, forgot>>
      /\ pc' = [pc EXCEPT ![r] = "relock"] /\ \A q \in Requests \ {r} : pc'[q] = pc[q] /\ file'[q] = file[q]
      /\ \A i \in SessionIds : i # sid[r] => folder'[i] = folder[i]
      /\ Past' = Past
  <2>1. sid[r] \in SessionIds
    BY HasId DEF Store
  <2>2. Past' = Past
    BY DEF Store, Past, FileInv, SessionTypes
  <2>3. /\ SessionIds' = SessionIds /\ \A i \in SessionIds : i # sid[r] => folder'[i] = folder[i]
    <3>1. folder' = folder \/ \E f : folder' = [folder EXCEPT ![sid[r]] = f]
      BY DEF Store, Create, Truncate
    <3>2. folder \in Seq(Files \union {NoFile}) /\ DOMAIN folder = SessionIds
      BY DEF SessionIds, FileInv, FileTypes
    <3>3. Len(folder') = Len(folder) /\ DOMAIN folder' = DOMAIN folder
      <4>1. folder' \in Seq(Files \union {NoFile} \union {folder'[sid[r]]})
        BY <2>1, <3>1, <3>2
      <4>2. DOMAIN folder' = DOMAIN folder
        BY <3>1
      <4> QED BY <3>2, <4>1, <4>2
    <3> QED BY <3>1, <3>2, <3>3 DEF SessionIds
  <2>4. /\ pc' = [pc EXCEPT ![r] = "relock"] /\ \A q \in Requests \ {r} : pc'[q] = pc[q] /\ file'[q] = file[q]
    BY DEF Store, FileInv, FileTypes, SessionTypes
  <2> QED BY <2>1, <2>2, <2>3, <2>4 DEF Store, Fresh, nameVars, selfVars
<1>2. \/ folder'[sid[r]] = Len(content) + 1 /\ content' = Append(content, Empty)
      \/ /\ folder'[sid[r]] = folder[sid[r]] /\ folder[sid[r]] \in Files
         /\ content' = [content EXCEPT ![folder[sid[r]]] = Empty]
  BY <1>1 DEF Store, Create, Truncate, FileInv, FileTypes, SessionIds
<1>3. \A f \in Files : InFile(f)' \subseteq InFile(f)
  BY <1>2 DEF InFile, FileInv, FileTypes, Files
<1>4. InFile(folder[sid[r]])' = {} /\ \A f \in Files' : f \in Files \/ InFile(f)' = {}
  <2>1. content \in Seq((SUBSET Marks) \union {Empty})
    BY DEF FileInv, FileTypes
  <2>2. CASE folder'[sid[r]] = Len(content) + 1 /\ content' = Append(content, Empty)
    <3>1. Len(content') = Len(content) + 1 /\ content'[Len(content) + 1] = Empty
      BY <2>1, <2>2
    <3>2. Files' = Files \union {Len(content) + 1}
      BY <2>1, <3>1 DEF Files
    <3> QED BY <1>1, <2>2, <3>1, <3>2 DEF InFile
  <2>3. CASE /\ folder'[sid[r]] = folder[sid[r]] /\ folder[sid[r]] \in Files
             /\ content' = [content EXCEPT ![folder[sid[r]]] = Empty]
    <3>1. Files' = Files /\ content'[folder[sid[r]]] = Empty
      BY <2>1, <2>3 DEF Files
    <3> QED BY <1>1, <2>3, <3>1 DEF InFile
  <2> QED BY <1>2, <2>2, <2>3
<1>5. \A f \in Files' : InFile(f)' \subseteq Past'
  BY <1>1, <1>3, <1>4 DEF WipedInv
<1>6. ASSUME NEW i \in SessionIds'
      PROVE  wiped'[i] \subseteq Past' /\ InFile(folder[i])' \intersect wiped'[i] = {}
  <2>1. CASE i = sid[r]
    BY <1>1, <1>4, <2>1 DEF WipedInv
  <2>2. CASE i # sid[r]
    <3>1. folder'[i] = folder[i] /\ (folder[i] \in Files \/ folder[i] = NoFile)
      BY <1>1, <2>2 DEF FileInv, FileTypes, SessionIds
    <3>2. InFile(folder[i])' \subseteq InFile(folder[i])
      BY <1>3, <3>1 DEF InFile
    <3> QED BY <1>1, <3>2 DEF WipedInv
  <2> QED BY <2>1, <2>2
<1>7. ASSUME NEW q \in Requests PROVE Clean(q)'
  <2>1. Clean(q)
    BY DEF WipedInv
  <2>2. CASE q = r
    <3>1. wiped[sid[r]] \subseteq Past /\ r \notin Past
      BY <1>1, OldAssumption DEF WipedInv, Past
    <3>2. new[r] => wiped[sid[r]] = {}
      BY <1>1 DEF FileInv, Private
    <3>3. ~new[r] => data[r] \subseteq {r}
      BY <1>1, <2>1, <2>2 DEF Clean
    <3>4. pc'[r] = "relock"
      BY <1>1 DEF FileInv, SessionTypes
    <3> QED BY <1>1, <2>1, <2>2, <3>1, <3>2, <3>3, <3>4 DEF Clean
  <2>3. CASE q # r
    <3>1. pc[q] \in {"work", "relock", "write"} /\ file[q] # NoFile /\ folder'[sid[q]] = file[q] =>
            folder[sid[q]] = file[q]
      <4> SUFFICES ASSUME pc[q] \in {"work", "relock", "write"}, file[q] # NoFile,
                          folder'[sid[q]] = file[q], folder[sid[q]] # file[q]
                   PROVE  FALSE
        OBVIOUS
      <4>1. sid[q] \in SessionIds /\ file[q] \in Files
        BY HasId DEF FileInv, FileTypes
      <4>2. sid[q] = sid[r]
        BY <1>1, <4>1
      <4>3. Len(content) + 1 \notin Files
        BY DEF Files, FileInv, FileTypes
      <4> QED BY <1>2, <4>1, <4>2, <4>3
    <3> QED BY <1>1, <2>1, <2>3, <3>1 DEF Clean
  <2> QED BY <2>2, <2>3
<1> QED BY <1>5, <1>6, <1>7 DEF WipedInv

\* A request writes nothing that was cleared from the session it names.
LEMMA WriteClean ==
  ASSUME FileInv, WipedInv, NEW r \in Requests, Write(r)
  PROVE  WipedInv'
<1>1. /\ sid[r] \in SessionIds /\ file[r] \in Files /\ pc[r] = "write" /\ pc' = [pc EXCEPT ![r] = "done"]
      /\ content' = [content EXCEPT ![file[r]] = data[r]] /\ file' = [file EXCEPT ![r] = NoFile]
      /\ UNCHANGED <<folder, wiped, sid, new, data, forgot>> /\ SessionIds' = SessionIds /\ Files' = Files
  <2>1. sid[r] \in SessionIds /\ file[r] \in Files
    BY HasId DEF Write, FileInv, FileTypes, Opened
  <2> QED BY <2>1 DEF Write, Reply, Close, nameVars, selfVars, SessionIds, Files, FileInv, FileTypes
<1>2. Past' = Past \union {r}
  BY <1>1 DEF Past, FileInv, SessionTypes
<1>3. data[r] \subseteq Past'
  BY <1>2 DEF WipedInv, Clean
<1>4. \A f \in Files : InFile(f)' \subseteq IF f = file[r] THEN data[r] ELSE InFile(f)
  BY <1>1 DEF InFile, FileInv, FileTypes, Files
<1>5. \A f \in Files' : InFile(f)' \subseteq Past'
  BY <1>1, <1>2, <1>3, <1>4 DEF WipedInv
<1>6. ASSUME NEW i \in SessionIds'
      PROVE  wiped'[i] \subseteq Past' /\ InFile(folder[i])' \intersect wiped'[i] = {}
  <2>1. folder[i] \in Files \/ folder[i] = NoFile
    BY <1>1 DEF FileInv, FileTypes, SessionIds
  <2>2. CASE folder[i] = file[r]
    <3>1. i = sid[r]
      BY <1>1, <2>2 DEF FileInv, Opened, Files, NoFile
    <3>2. data[r] \intersect wiped[sid[r]] = {}
      BY <1>1, <2>2, <3>1 DEF WipedInv, Clean, Files, NoFile
    <3> QED BY <1>1, <1>2, <1>4, <2>2, <3>1, <3>2 DEF WipedInv
  <2>3. CASE folder[i] # file[r]
    <3>1. InFile(folder[i])' \subseteq InFile(folder[i])
      BY <1>1, <1>4, <2>1, <2>3 DEF InFile
    <3> QED BY <1>1, <1>2, <3>1 DEF WipedInv
  <2> QED BY <2>2, <2>3
<1>7. ASSUME NEW q \in Requests PROVE Clean(q)'
  <2>1. Clean(q)
    BY DEF WipedInv
  <2>2. pc'[q] = (IF q = r THEN "done" ELSE pc[q]) /\ (q # r => file'[q] = file[q])
    BY <1>1 DEF FileInv, FileTypes, SessionTypes
  <2> QED BY <1>1, <1>2, <2>1, <2>2 DEF Clean
<1> QED BY <1>5, <1>6, <1>7 DEF WipedInv

\* Nothing is cleared at first.
LEMMA WipedInvInit == FileInit => WipedInv
<1> SUFFICES ASSUME FileInit PROVE WipedInv
  OBVIOUS
<1>1. \A r \in Requests : Clean(r)
  BY DEF FileInit, RequestInit, Clean
<1>2. CASE folder = <<>> /\ wiped = <<>> /\ content = <<>>
  BY <1>1, <1>2 DEF WipedInv, Files, SessionIds
<1>3. CASE folder = <<1>> /\ wiped = <<{}>> /\ content = <<{Old}>>
  <2>1. Len(folder) = 1 /\ Len(content) = 1 /\ content[1] = {Old} /\ wiped[1] = {}
    BY <1>3
  <2>2. SessionIds = {1} /\ Files = {1}
    BY <2>1 DEF SessionIds, Files
  <2> QED BY <1>1, <2>1, <2>2 DEF WipedInv, InFile, Past
<1> QED BY <1>2, <1>3 DEF FileInit

\* As long as no request has called connect() again: once one has, it stays so.
LEMMA WipedInvNext ==
  ASSUME FileInv, (\A q \in Requests : ~again[q]) => WipedInv, [FileNext]_vars,
         \A q \in Requests : ~again'[q]
  PROVE  WipedInv'
<1>1. CASE UNCHANGED vars
  <2>1. WipedInv
    BY <1>1 DEF vars, opVars
  <2>2. UNCHANGED <<folder, wiped, content>> /\ Past' = Past
    BY <1>1 DEF vars, diskVars, requestVars, Past
  <2>3. \A q \in Requests : Clean(q)'
    BY <1>1, <2>1, <2>2 DEF WipedInv, Clean, vars, diskVars, fileVars, requestVars, selfVars
  <2> QED BY <2>1, <2>2, <2>3, FilesClean DEF WipedInv
<1>2. CASE FileNext
  <2>1. PICK r \in Requests : Arrive(r) \/ Serve(r) \/ App(r) \/ Break(r)
    BY <1>2 DEF FileNext
  <2>2. ~Again(r)
    BY DEF Again, FileInv, SessionTypes
  <2>3. again' = again
    BY <2>1, <2>2 DEF Arrive, Serve, Open, Lock, Load, Skip, Store, Relock, Write,
       App, Add, Clear, Renew, Forget, Drop, Break, opVars
  <2>4. WipedInv /\ ~again[r]
    BY <2>3
  <2>5. ASSUME Serve(r) PROVE WipedInv'
    <3>1. CASE Open(r)
      BY <2>4, <3>1, RenewedClean, OpenFileClean
    <3>2. CASE Load(r)
      BY <2>4, <3>2, RenewedClean, LoadFileClean
    <3>3. CASE Store(r)
      BY <2>4, <3>3, StoreFreshClean, StoreHereClean
    <3> QED BY <2>4, <2>5, <3>1, <3>2, <3>3, LockClean, SkipClean, RelockClean, WriteClean DEF Serve
  <2>6. ASSUME App(r) PROVE WipedInv'
    BY <2>2, <2>4, <2>6, AddClean, ClearClean, RenewedClean, ForgetClean, DropClean DEF App
  <2> QED BY <2>1, <2>4, <2>5, <2>6, ArriveClean, BreakClean
<1> QED BY <1>1, <1>2

\* Nothing that clear() removed from a session is written under its name again, as long
\* as no request calls connect() twice.
THEOREM ClearedAlways == FileSpec => ClearedStaysCleared
<1> DEFINE Inv == FileInv /\ ((\A q \in Requests : ~again[q]) => WipedInv)
<1>1. FileInit => Inv
  BY FileInvInit, WipedInvInit
<1>2. Inv /\ [FileNext]_vars => Inv'
  BY FileInvNext, WipedInvNext
<1>3. Inv /\ [FileNext]_vars =>
        [\A r \in Requests :
           /\ pc[r] = "write" /\ pc'[r] = "done" /\ folder[sid[r]] = file[r]
           /\ \A q \in Requests : ~again[q]
           => data[r] \intersect wiped[sid[r]] = {}]_vars
  BY DEF WipedInv, Clean, FileInv, Opened
<1> QED BY <1>1, <1>2, <1>3, PTL DEF FileSpec, ClearedStaysCleared
-----------------------------------------------------------------------------
(* Who waits for whom. *)

\* A request has its file locked only from the load to the end of the store.
LockedAtWork == \A r \in Requests : locked[r] => pc[r] \in {"load", "work", "write"}

\* Who waits for the file, in connect() or again in the store, waits for one other request,
\* which neither waits for a file itself nor has ended.
OneHolderWorks ==
  \A r \in Requests : pc[r] \in {"lock", "relock"} /\ Held(file[r]) =>
    \E q \in Requests \ {r} :
      /\ file[q] = file[r] /\ locked[q] /\ pc[q] \in {"load", "work", "write"}
      /\ \A p \in Requests : file[p] = file[r] /\ locked[p] => p = q

LEMMA LockedAtWorkNext ==
  ASSUME FileInv, LockedAtWork, [FileNext]_vars
  PROVE  LockedAtWork'
<1> USE DEF LockedAtWork, FileInv, FileTypes, SessionTypes, Close, Reply, Wipe, Op
<1>1. CASE UNCHANGED vars
  BY <1>1 DEF vars, fileVars, requestVars
<1>2. ASSUME NEW r \in Requests, Arrive(r) \/ Break(r) PROVE LockedAtWork'
  <2>1. CASE Arrive(r)
    BY <2>1 DEF Arrive, fileVars
  <2>2. CASE Break(r)
    BY <2>2 DEF Break, StaysLocked
  <2> QED BY <1>2, <2>1, <2>2
<1>3. ASSUME NEW r \in Requests, Serve(r) PROVE LockedAtWork'
  <2>1. CASE Open(r) \/ Load(r)
    BY <2>1 DEF Open, Load, fileVars
  <2>2. CASE Lock(r) \/ Relock(r)
    BY <2>2 DEF Lock, Relock
  <2>3. CASE Store(r)
    BY <2>3 DEF Store, fileVars
  <2>4. CASE Skip(r) \/ Write(r)
    BY <2>4 DEF Skip, Write
  <2> QED BY <1>3, <2>1, <2>2, <2>3, <2>4 DEF Serve
<1>4. ASSUME NEW r \in Requests, App(r) PROVE LockedAtWork'
  BY <1>4 DEF App, Add, Clear, Renew, Forget, Again, Drop, fileVars
<1> QED BY <1>1, <1>2, <1>3, <1>4 DEF FileNext

\* No circle of requests can wait for each other's session files, not even when they call
\* connect() again, clear or renew their session: who comes to wait has closed its own.
THEOREM NoFileCircle == FileSpec => []OneHolderWorks
<1>1. FileInv /\ LockedAtWork => OneHolderWorks
  <2> SUFFICES ASSUME FileInv, LockedAtWork, NEW r \in Requests,
                      pc[r] \in {"lock", "relock"}, Held(file[r])
               PROVE  \E q \in Requests \ {r} :
                        /\ file[q] = file[r] /\ locked[q] /\ pc[q] \in {"load", "work", "write"}
                        /\ \A p \in Requests : file[p] = file[r] /\ locked[p] => p = q
    BY DEF OneHolderWorks
  <2>1. PICK q \in Requests : file[q] = file[r] /\ locked[q]
    BY DEF Held
  <2>2. pc[q] \in {"load", "work", "write"} /\ q # r
    BY <2>1 DEF LockedAtWork
  <2>3. \A p \in Requests : file[p] = file[r] /\ locked[p] => p = q
    BY <2>1 DEF FileInv, Locks
  <2> QED BY <2>1, <2>2, <2>3
<1>2. FileInit => LockedAtWork
  BY DEF FileInit, LockedAtWork
<1>3. FileInv /\ LockedAtWork /\ [FileNext]_vars => LockedAtWork'
  BY LockedAtWorkNext
<1> QED BY <1>1, <1>2, <1>3, FileInvAlways, PTL DEF FileSpec
-----------------------------------------------------------------------------
(* Sessions in the database. *)

\* Rows and their ids.
Row == [key : Nat, marks : SUBSET Requests]
Ids == 1..Len(rows)

\* Types.
TableTypes ==
  /\ rows \in Seq(Row \union {Gone}) /\ keys \in Nat
  /\ writer \in [Ids -> Requests \union {None}]
  /\ draft \in [Requests -> Row \union {Gone}]
SelfTypes ==
  /\ pc \in [Requests -> {"away", "read", "work", "renew", "reply", "done", "dead"}]
  /\ jar \in Name \union {None}
  /\ cookie \in [Requests -> Name \union {None}] /\ sid \in [Requests -> Name \union {None}]
  /\ rec \in [Requests -> Nat] /\ key \in [Requests -> Nat] /\ new \in [Requests -> BOOLEAN]
  /\ data \in [Requests -> SUBSET Requests]

\* What is named is or was a row.
IsId(c) == c # None => c.id \in Ids
\* Only rows that are there are written to.
Alive(id) == writer[id] # None => rows[id] # Gone
\* A transaction writes to the row of its session alone, and ends before the reply.
Owns(r) == \A id \in Ids : writer[id] = r => pc[r] \in {"work", "renew"} /\ id = rec[r]
\* A request knows its row by the name it got; a session that has become new, other than
\* by another one's renewal, has lost its row.
Knows(r) ==
  pc[r] \in {"work", "renew"} =>
    /\ rec[r] = NoRow => sid[r] = None /\ new[r]
    /\ rec[r] # NoRow => /\ sid[r] # None /\ sid[r].id = rec[r] /\ sid[r].key = key[r]
                         /\ new[r] /\ r \notin crossed => RowFor(r, rec[r]) = Gone
    /\ pc[r] = "renew" => ~new[r]
Unnamed(r) == pc[r] \in {"away", "read"} => rec[r] = NoRow /\ sid[r] = None /\ ~new[r]

\* The invariant.
DbInv ==
  /\ TableTypes /\ SelfTypes /\ IsId(jar)
  /\ \A id \in Ids : Alive(id)
  /\ \A r \in Requests : IsId(cookie[r]) /\ IsId(sid[r]) /\ Knows(r) /\ Unnamed(r) /\ Owns(r)

\* There is no row at first.
LEMMA DbInvInit == DbInit => DbInv
<1> SUFFICES ASSUME DbInit PROVE DbInv
  OBVIOUS
<1>1. rows = <<>> /\ Len(rows) = 0 /\ Ids = {} /\ rows \in Seq(Row \union {Gone})
  BY DEF DbInit, TableInit, Ids
<1>2. writer \in [Ids -> Requests \union {None}]
  BY <1>1 DEF DbInit, TableInit
<1> QED BY <1>1, <1>2 DEF DbInit, TableInit, RequestInit, DbInv, TableTypes, SelfTypes, IsId, Knows, Unnamed,
                          Owns, Gone, NoRow
-----------------------------------------------------------------------------
(* Steps of the application: the table keeps its rows. *)

LEMMA PlainKeeps ==
  ASSUME DbInv, NEW r \in Requests, Request(r) \/ Change(r) \/ GiveUp(r) \/ Answer(r)
  PROVE  DbInv'
<1>1. UNCHANGED <<rows, keys, writer, draft, sid, rec, key, new, crossed>> /\ Ids' = Ids
  BY DEF Request, Change, GiveUp, Answer, tableVars, namedVars, Ids
<1>2. SelfTypes' /\ IsId(jar)'
  BY <1>1 DEF DbInv, SelfTypes, IsId, Request, Change, GiveUp, Answer, selfVars, Op
<1>3. ASSUME NEW q \in Requests PROVE IsId(cookie[q])' /\ IsId(sid[q])' /\ Knows(q)' /\ Unnamed(q)' /\ Owns(q)'
  BY <1>1 DEF DbInv, SelfTypes, IsId, Knows, Unnamed, Owns, RowFor, Request, Change, GiveUp, Answer, selfVars, Op
<1> QED BY <1>1, <1>2, <1>3 DEF DbInv, TableTypes, Alive

\* A request that finds its row takes its names; one that does not has none.
LEMMA ConnectKeeps ==
  ASSUME DbInv, NEW r \in Requests, Connect(r)
  PROVE  DbInv'
<1>1. /\ UNCHANGED <<rows, keys, writer, draft, jar, cookie, crossed>> /\ Ids' = Ids
      /\ pc[r] = "read" /\ pc' = [pc EXCEPT ![r] = "work"]
  BY DEF Connect, tableVars, Ids
<1>2. CASE Found(cookie[r])
  <2>1. /\ cookie[r] \in Name /\ cookie[r] # None /\ cookie[r].id \in Ids
        /\ cookie[r] = [id |-> cookie[r].id, key |-> cookie[r].key]
        /\ rows[cookie[r].id] \in Row
    BY <1>2 DEF Found, DbInv, SelfTypes, TableTypes, IsId, Name, Ids
  <2>2. /\ data' = [data EXCEPT ![r] = rows[cookie[r].id].marks]
        /\ sid' = [sid EXCEPT ![r] = cookie[r]] /\ rec' = [rec EXCEPT ![r] = cookie[r].id]
        /\ key' = [key EXCEPT ![r] = cookie[r].key] /\ new' = new
    BY <1>2 DEF Connect
  <2>3. SelfTypes'
    BY <1>1, <2>1, <2>2 DEF DbInv, SelfTypes, Row, Name
  <2>4. ASSUME NEW q \in Requests PROVE IsId(cookie[q])' /\ IsId(sid[q])' /\ Knows(q)' /\ Unnamed(q)' /\ Owns(q)'
    BY <1>1, <2>1, <2>2 DEF DbInv, SelfTypes, IsId, Knows, Unnamed, Owns, RowFor, NoRow, Ids
  <2> QED BY <1>1, <2>3, <2>4 DEF DbInv, TableTypes, Alive, IsId
<1>3. CASE ~Found(cookie[r])
  <2>1. new' = [new EXCEPT ![r] = TRUE] /\ UNCHANGED <<data, sid, rec, key>>
    BY <1>3 DEF Connect
  <2>2. SelfTypes'
    BY <1>1, <2>1 DEF DbInv, SelfTypes
  <2>3. ASSUME NEW q \in Requests PROVE IsId(cookie[q])' /\ IsId(sid[q])' /\ Knows(q)' /\ Unnamed(q)' /\ Owns(q)'
    BY <1>1, <2>1 DEF DbInv, SelfTypes, IsId, Knows, Unnamed, Owns, RowFor
  <2> QED BY <1>1, <2>2, <2>3 DEF DbInv, TableTypes, Alive, IsId
<1> QED BY <1>2, <1>3

\* renew() sees that its row is gone, or that another request has renewed it.
LEMMA RenewReadKeeps ==
  ASSUME DbInv, NEW r \in Requests, RenewRead(r)
  PROVE  DbInv'
<1>1. /\ UNCHANGED <<rows, keys, writer, draft, jar, cookie, sid, rec, key, data>> /\ Ids' = Ids
      /\ pc[r] = "work" /\ ~new[r]
  BY DEF RenewRead, tableVars, selfVars, Op, Ids
<1>2. rec[r] # NoRow /\ sid[r].id = rec[r]
  BY <1>1 DEF DbInv, SelfTypes, Knows
<1>3. \/ pc' = [pc EXCEPT ![r] = "renew"] /\ UNCHANGED <<new, crossed>>
      \/ /\ new' = [new EXCEPT ![r] = TRUE] /\ pc' = pc
         /\ crossed' = IF RowFor(r, rec[r]) = Gone THEN crossed ELSE crossed \union {r}
  BY <1>2 DEF RenewRead
<1>4. SelfTypes'
  BY <1>1, <1>3 DEF DbInv, SelfTypes
<1>5. ASSUME NEW q \in Requests
      PROVE  IsId(cookie[q])' /\ IsId(sid[q])' /\ Knows(q)' /\ Unnamed(q)' /\ Owns(q)'
  <2>1. IsId(cookie[q])' /\ IsId(sid[q])' /\ RowFor(q, rec[q])' = RowFor(q, rec[q])
    BY <1>1 DEF DbInv, IsId, RowFor
  <2>2. CASE q = r
    BY <1>1, <1>2, <1>3, <2>1, <2>2 DEF DbInv, SelfTypes, Knows, Unnamed, Owns
  <2>3. CASE q # r
    <3>1. pc'[q] = pc[q] /\ new'[q] = new[q] /\ (q \in crossed' <=> q \in crossed)
      BY <1>3, <2>3 DEF DbInv, SelfTypes
    <3> QED BY <1>1, <2>1, <3>1 DEF DbInv, Knows, Unnamed, Owns
  <2> QED BY <2>2, <2>3
<1> QED BY <1>1, <1>4, <1>5 DEF DbInv, TableTypes, Alive, IsId
-----------------------------------------------------------------------------
(* UPDATE and DELETE: the row of one request is written, in its transaction. *)

LEMMA WriteRowKeeps ==
  ASSUME DbInv, NEW r \in Requests, pc[r] \in {"work", "renew"}, rec[r] \in Ids,
         MayWrite(r, rec[r]), NEW row \in Row \union {Gone}, WriteRow(r, rec[r], row),
         rows' = rows, keys' \in Nat, rec' = rec
  PROVE  /\ TableTypes' /\ Ids' = Ids /\ \A i \in Ids : Alive(i)'
         /\ \A q \in Requests : \A i \in Ids : writer'[i] = q => writer[i] = q \/ (q = r /\ i = rec[r])
         /\ \A q \in Requests : rec[q] \in Ids /\ RowFor(q, rec[q]) = Gone => RowFor(q, rec[q])' = Gone
<1>1. Ids' = Ids
  BY DEF Ids
<1>2. CASE RowFor(r, rec[r]) = Gone
  BY <1>1, <1>2 DEF WriteRow, DbInv, TableTypes, Alive, RowFor
<1>3. CASE RowFor(r, rec[r]) # Gone
  <2>1. writer' = [writer EXCEPT ![rec[r]] = r] /\ draft' = [draft EXCEPT ![r] = row]
    BY <1>3 DEF WriteRow
  <2>2. rows[rec[r]] # Gone
    BY <1>3, SessionAssumption DEF RowFor, MayWrite, DbInv, Alive
  <2>3. TableTypes'
    BY <1>1, <2>1 DEF DbInv, TableTypes
  <2>4. ASSUME NEW i \in Ids PROVE Alive(i)'
    BY <2>1, <2>2 DEF DbInv, TableTypes, Alive
  <2>5. ASSUME NEW q \in Requests, rec[q] \in Ids, RowFor(q, rec[q]) = Gone
        PROVE  RowFor(q, rec[q])' = Gone
    <3>1. q # r /\ draft'[q] = draft[q]
      BY <1>3, <2>1, <2>5 DEF DbInv, TableTypes
    <3>2. CASE rec[q] = rec[r]
      BY <1>3, <2>1, <2>2, <2>5, <3>1, <3>2, SessionAssumption DEF RowFor, MayWrite
    <3>3. CASE rec[q] # rec[r]
      BY <2>1, <2>5, <3>1, <3>3 DEF RowFor, DbInv, TableTypes
    <3> QED BY <3>2, <3>3
  <2>6. ASSUME NEW q \in Requests, NEW i \in Ids, writer'[i] = q
        PROVE  writer[i] = q \/ (q = r /\ i = rec[r])
    BY <2>1, <2>6 DEF DbInv, TableTypes
  <2> QED BY <1>1, <2>3, <2>4, <2>5, <2>6
<1> QED BY <1>2, <1>3

\* clear() deletes the row of the session.
LEMMA DeleteKeeps ==
  ASSUME DbInv, NEW r \in Requests, Delete(r)
  PROVE  DbInv'
<1>1. /\ UNCHANGED <<rows, keys, jar, cookie, sid, rec, key, new, pc, crossed>> /\ pc[r] = "work"
      /\ data' = [data EXCEPT ![r] = {}]
  BY DEF Delete, namedVars, Op
<1>2. SelfTypes'
  BY <1>1 DEF DbInv, SelfTypes
<1>3. CASE sid[r] = None
  <2>1. UNCHANGED <<writer, draft>> /\ Ids' = Ids
    BY <1>1, <1>3 DEF Delete, Ids
  <2> QED BY <1>1, <1>2, <2>1 DEF DbInv, TableTypes, Alive, IsId, Knows, Unnamed, Owns, RowFor
<1>4. CASE sid[r] # None
  <2>1. rec[r] \in Ids /\ sid[r].id = rec[r]
    BY <1>1, <1>4 DEF DbInv, SelfTypes, Knows, IsId
  <2>2. MayWrite(r, rec[r]) /\ WriteRow(r, rec[r], Gone)
    BY <1>4, <2>1 DEF Delete
  <2>3. /\ TableTypes' /\ Ids' = Ids /\ \A i \in Ids : Alive(i)'
        /\ \A q \in Requests : \A i \in Ids : writer'[i] = q => writer[i] = q \/ (q = r /\ i = rec[r])
        /\ \A q \in Requests : rec[q] \in Ids /\ RowFor(q, rec[q]) = Gone => RowFor(q, rec[q])' = Gone
    <3>1. keys' \in Nat
      BY <1>1 DEF DbInv, TableTypes
    <3> QED BY <1>1, <2>1, <2>2, <3>1, WriteRowKeeps
  <2>4. ASSUME NEW q \in Requests
        PROVE  IsId(cookie[q])' /\ IsId(sid[q])' /\ Knows(q)' /\ Unnamed(q)' /\ Owns(q)'
    BY <1>1, <2>1, <2>3 DEF DbInv, IsId, Knows, Unnamed, Owns
  <2> QED BY <1>1, <1>2, <2>3, <2>4 DEF DbInv, IsId
<1> QED BY <1>3, <1>4

\* renew() writes the key that it made into whatever the row is by now.
LEMMA RenewWriteKeeps ==
  ASSUME DbInv, NEW r \in Requests, RenewWrite(r)
  PROVE  DbInv'
<1>1. /\ UNCHANGED <<rows, jar, cookie, rec, new, data, crossed>> /\ pc[r] = "renew" /\ ~new[r]
      /\ pc' = [pc EXCEPT ![r] = "work"] /\ keys' = NewKey /\ key' = [key EXCEPT ![r] = NewKey]
  BY DEF RenewWrite, selfVars, DbInv, Knows
<1>2. rec[r] # NoRow /\ rec[r] \in Ids /\ sid[r].id = rec[r] /\ NewKey \in Nat
  BY <1>1 DEF DbInv, SelfTypes, TableTypes, Knows, IsId, NewKey
<1>3. /\ MayWrite(r, rec[r]) /\ sid' = [sid EXCEPT ![r] = [id |-> rec[r], key |-> NewKey]]
      /\ WriteRow(r, rec[r], [key |-> NewKey, marks |-> RowFor(r, rec[r]).marks])
  BY <1>2 DEF RenewWrite
<1>4. SelfTypes'
  BY <1>1, <1>2, <1>3 DEF DbInv, SelfTypes, Name
<1>5. /\ TableTypes' /\ Ids' = Ids /\ \A i \in Ids : Alive(i)'
      /\ \A q \in Requests : \A i \in Ids : writer'[i] = q => writer[i] = q \/ (q = r /\ i = rec[r])
      /\ \A q \in Requests : rec[q] \in Ids /\ RowFor(q, rec[q]) = Gone => RowFor(q, rec[q])' = Gone
  <2>1. CASE RowFor(r, rec[r]) = Gone
    <3>1. Gone \in Row \union {Gone} /\ WriteRow(r, rec[r], Gone)
      BY <1>3, <2>1 DEF WriteRow
    <3> QED BY <1>1, <1>2, <1>3, <3>1, WriteRowKeeps
  <2>2. CASE RowFor(r, rec[r]) # Gone
    <3>1. [key |-> NewKey, marks |-> RowFor(r, rec[r]).marks] \in Row
      BY <1>2, <2>2 DEF DbInv, TableTypes, RowFor, Row, Ids
    <3> QED BY <1>1, <1>2, <1>3, <3>1, WriteRowKeeps
  <2> QED BY <2>1, <2>2
<1>6. ASSUME NEW q \in Requests
      PROVE  IsId(cookie[q])' /\ IsId(sid[q])' /\ Knows(q)' /\ Unnamed(q)' /\ Owns(q)'
  <2>1. IsId(cookie[q])' /\ IsId(sid[q])'
    BY <1>1, <1>2, <1>3, <1>5 DEF DbInv, SelfTypes, IsId
  <2>2. CASE q = r
    <3>1. [id |-> rec[r], key |-> NewKey] \in Name
      BY <1>2 DEF DbInv, SelfTypes, Name
    <3>2. sid'[r] # None /\ sid'[r].id = rec[r] /\ sid'[r].key = NewKey
      BY <1>3, <3>1, NameAssumption DEF DbInv, SelfTypes
    <3>3. Knows(q)'
      BY <1>1, <1>2, <1>5, <2>2, <3>2 DEF DbInv, SelfTypes, Knows
    <3>4. Unnamed(q)'
      BY <1>1, <2>2 DEF DbInv, SelfTypes, Unnamed
    <3>5. Owns(q)'
      BY <1>1, <1>5, <2>2 DEF DbInv, SelfTypes, Owns
    <3> QED BY <2>1, <3>3, <3>4, <3>5
  <2>3. CASE q # r
    <3>1. pc'[q] = pc[q] /\ sid'[q] = sid[q] /\ key'[q] = key[q]
      BY <1>1, <1>3, <2>3 DEF DbInv, SelfTypes
    <3>2. sid[q] # None /\ sid[q].id = rec[q] => rec[q] \in Ids
      BY DEF DbInv, IsId
    <3>3. Knows(q)'
      BY <1>1, <1>5, <3>1, <3>2 DEF DbInv, Knows
    <3>4. Unnamed(q)' /\ Owns(q)'
      BY <1>1, <1>5, <2>3, <3>1 DEF DbInv, Unnamed, Owns
    <3> QED BY <2>1, <3>3, <3>4
  <2> QED BY <2>1, <2>2, <2>3
<1> QED BY <1>1, <1>4, <1>5, <1>6 DEF DbInv, IsId
-----------------------------------------------------------------------------
(* The end of a transaction.                                                   *)

\* A row that is gone stays gone, and what others have written to is as it was.
LEMMA EndsKeeps ==
  ASSUME DbInv, NEW r \in Requests, NEW table \in Seq(Row \union {Gone}), Ends(r, table),
         Len(table) >= Len(rows),
         \A i \in Ids : writer[i] \notin {None, r} \/ rows[i] = Gone => table[i] = rows[i],
         NEW end \in {"reply", "dead"}, pc' = [pc EXCEPT ![r] = end],
         UNCHANGED <<jar, cookie, data, crossed>>, keys' \in Nat,
         sid' \in [Requests -> Name \union {None}], rec' \in [Requests -> Nat],
         key' \in [Requests -> Nat], new' \in [Requests -> BOOLEAN], IsId(sid[r])',
         \A q \in Requests \ {r} : /\ sid'[q] = sid[q] /\ rec'[q] = rec[q]
                                   /\ key'[q] = key[q] /\ new'[q] = new[q]
  PROVE  DbInv'
<1>1. /\ rows' = table /\ Ids' = 1..Len(table) /\ Ids \subseteq Ids'
      /\ draft' = [draft EXCEPT ![r] = Gone]
  BY DEF Ends, Ids, DbInv, TableTypes
<1>2. writer' \in [Ids' -> Requests \union {None}]
  BY <1>1 DEF Ends, DbInv, TableTypes, Ids
<1>3. /\ \A i \in Ids' : writer'[i] # None => i \in Ids /\ writer[i] = writer'[i] /\ writer'[i] # r
      /\ \A q \in Requests : \A i \in Ids' : writer'[i] = q => q # r /\ i \in Ids /\ writer[i] = q
  <2>1. \A i \in Ids' : writer'[i] # None => i \in Ids /\ writer[i] = writer'[i] /\ writer'[i] # r
    BY <1>1, SessionAssumption DEF Ends, DbInv, TableTypes, Ids
  <2>2. \A q \in Requests : q # None
    BY SessionAssumption
  <2> QED BY <2>1, <2>2
<1>4. \A q \in Requests \ {r} : \A i \in Ids : writer[i] = q => writer'[i] = q
  BY <1>1 DEF Ends, Ids, DbInv, TableTypes
<1>5. TableTypes'
  BY <1>1, <1>2 DEF DbInv, TableTypes
<1>6. SelfTypes' /\ IsId(jar)'
  BY <1>1 DEF DbInv, SelfTypes, IsId
<1>7. ASSUME NEW i \in Ids' PROVE Alive(i)'
  BY <1>1, <1>3 DEF DbInv, Alive
<1>8. ASSUME NEW q \in Requests
      PROVE  IsId(cookie[q])' /\ IsId(sid[q])' /\ Knows(q)' /\ Unnamed(q)' /\ Owns(q)'
  <2>1. CASE q = r
    <3>1. pc'[r] = end
      BY DEF DbInv, SelfTypes
    <3>2. IsId(cookie[r])'
      BY <1>1 DEF DbInv, IsId
    <3>3. Knows(r)' /\ Unnamed(r)' /\ Owns(r)'
      BY <1>3, <3>1 DEF Knows, Unnamed, Owns
    <3> QED BY <2>1, <3>2, <3>3
  <2>2. CASE q # r
    <3>1. pc'[q] = pc[q] /\ sid'[q] = sid[q] /\ rec'[q] = rec[q] /\ key'[q] = key[q] /\ new'[q] = new[q]
      BY <2>2 DEF DbInv, SelfTypes
    <3>2. IsId(cookie[q])' /\ IsId(sid[q])' /\ Unnamed(q)'
      BY <1>1, <3>1 DEF DbInv, IsId, Unnamed
    <3>3. Owns(q)'
      BY <1>3, <3>1 DEF DbInv, Owns
    <3>4. ASSUME rec[q] \in Ids, RowFor(q, rec[q]) = Gone PROVE RowFor(q, rec[q])' = Gone
      <4>1. CASE writer[rec[q]] = q
        BY <1>1, <1>4, <2>2, <3>1, <3>4, <4>1 DEF RowFor, DbInv, TableTypes
      <4>2. CASE writer[rec[q]] # q
        <5>1. writer'[rec[q]] # q
          BY <1>1, <1>3, <3>4, <4>2
        <5> QED BY <1>1, <3>1, <3>4, <4>2, <5>1 DEF RowFor
      <4> QED BY <4>1, <4>2
    <3>5. sid[q] # None /\ sid[q].id = rec[q] => rec[q] \in Ids
      BY DEF DbInv, IsId
    <3>6. Knows(q)'
      BY <3>1, <3>4, <3>5 DEF DbInv, Knows
    <3> QED BY <3>2, <3>3, <3>6
  <2> QED BY <2>1, <2>2
<1> QED BY <1>5, <1>6, <1>7, <1>8 DEF DbInv

\* What a commit leaves when it writes nothing more.
LEMMA CommittedRows ==
  ASSUME DbInv, NEW r \in Requests
  PROVE  /\ Committed(r) \in Seq(Row \union {Gone}) /\ Len(Committed(r)) = Len(rows)
         /\ \A i \in Ids : Committed(r)[i] = RowFor(r, i)
         /\ \A i \in Ids : writer[i] \notin {None, r} \/ rows[i] = Gone => RowFor(r, i) = rows[i]
<1>1. DOMAIN rows = 1..Len(rows) /\ Len(rows) \in Nat
  BY DEF DbInv, TableTypes
<1>2. \A i \in Ids : RowFor(r, i) \in Row \union {Gone}
  BY DEF DbInv, TableTypes, RowFor, Ids
<1>3. ASSUME NEW i \in Ids, writer[i] \notin {None, r} \/ rows[i] = Gone PROVE RowFor(r, i) = rows[i]
  BY <1>3, SessionAssumption DEF DbInv, Alive, RowFor
<1>4. Committed(r) = [i \in 1..Len(rows) |-> RowFor(r, i)]
  BY <1>1 DEF Committed
<1>5. Committed(r) \in Seq(Row \union {Gone}) /\ Len(Committed(r)) = Len(rows)
  BY <1>1, <1>2, <1>4 DEF Ids
<1> QED BY <1>3, <1>4, <1>5 DEF Ids

LEMMA LeaveKeeps ==
  ASSUME DbInv, NEW r \in Requests, Leave(r) \/ RollBack(r)
  PROVE  DbInv'
<1>1. /\ UNCHANGED <<keys, jar, cookie, sid, new, rec, key, data, crossed>>
      /\ \E end \in {"reply", "dead"} : pc' = [pc EXCEPT ![r] = end]
      /\ Ends(r, Committed(r)) \/ Ends(r, rows)
  BY DEF Leave, RollBack, namedVars, selfVars
<1>2. PICK end \in {"reply", "dead"} : pc' = [pc EXCEPT ![r] = end]
  BY <1>1
<1>3. PICK table \in {Committed(r), rows} : Ends(r, table)
  BY <1>1
<1>4. /\ table \in Seq(Row \union {Gone}) /\ Len(table) >= Len(rows) /\ rows' = table
      /\ \A i \in Ids : writer[i] \notin {None, r} \/ rows[i] = Gone => table[i] = rows[i]
  BY <1>3, CommittedRows DEF DbInv, TableTypes, Ends
<1>5. IsId(sid[r])' /\ keys' \in Nat
  BY <1>1, <1>4 DEF DbInv, TableTypes, IsId, Ids
<1>6. /\ sid' \in [Requests -> Name \union {None}] /\ rec' \in [Requests -> Nat]
      /\ key' \in [Requests -> Nat] /\ new' \in [Requests -> BOOLEAN]
      /\ \A q \in Requests \ {r} : sid'[q] = sid[q] /\ rec'[q] = rec[q] /\ key'[q] = key[q] /\ new'[q] = new[q]
  BY <1>1 DEF DbInv, SelfTypes
<1> QED BY <1>1, <1>2, <1>3, <1>4, <1>5, <1>6, EndsKeeps

\* A request that saves stores by the id of its row, or inserts one and takes its names.
LEMMA WrittenTypes ==
  ASSUME DbInv, NEW r \in Requests, Makes(r)
  PROVE  WrittenKey(r) \in Nat /\ Written(r) \in Row /\ keys' \in Nat
BY DEF DbInv, SelfTypes, TableTypes, Makes, WrittenKey, Written, NewKey, Row

LEMMA UpdateKeeps ==
  ASSUME DbInv, NEW r \in Requests, Save(r), Update(r)
  PROVE  DbInv'
<1>1. /\ UNCHANGED <<jar, cookie, data, crossed, sid, rec, key, new>> /\ pc[r] = "work"
      /\ pc' = [pc EXCEPT ![r] = "reply"]
      /\ rec[r] # NoRow /\ RowFor(r, rec[r]) # Gone /\ MayWrite(r, rec[r])
  BY DEF Save, Update, Updates, namedVars, selfVars
<1>2. Written(r) \in Row /\ keys' \in Nat
  BY WrittenTypes DEF Save
<1>3. rec[r] \in Ids
  BY <1>1 DEF DbInv, Knows, IsId
<1>4. PICK table : table = [Committed(r) EXCEPT ![rec[r]] = Written(r)]
  OBVIOUS
<1>5. table \in Seq(Row \union {Gone}) /\ Len(table) = Len(rows) /\ Ends(r, table) /\ rows' = table
  BY <1>2, <1>3, <1>4, CommittedRows DEF Update, Ends, Ids
<1>6. ASSUME NEW i \in Ids, writer[i] \notin {None, r} \/ rows[i] = Gone PROVE table[i] = rows[i]
  <2>1. RowFor(r, i) = rows[i] /\ i # rec[r]
    BY <1>1, <1>6, CommittedRows DEF MayWrite
  <2> QED BY <1>4, <1>6, <2>1, CommittedRows
<1>7. IsId(sid[r])'
  BY <1>1, <1>5 DEF DbInv, IsId, Ids
<1>8. /\ sid' \in [Requests -> Name \union {None}] /\ rec' \in [Requests -> Nat]
      /\ key' \in [Requests -> Nat] /\ new' \in [Requests -> BOOLEAN]
      /\ Len(rows) \in Nat
  BY <1>1 DEF DbInv, SelfTypes, TableTypes
<1>9. PICK end \in {"reply", "dead"} : pc' = [pc EXCEPT ![r] = end]
  BY <1>1
<1>10. \A i \in Ids : writer[i] \notin {None, r} \/ rows[i] = Gone => table[i] = rows[i]
  BY <1>6
<1>11. Len(table) >= Len(rows)
  BY <1>5, <1>8
<1> QED BY <1>1, <1>2, <1>5, <1>7, <1>8, <1>9, <1>10, <1>11, EndsKeeps

LEMMA InsertKeeps ==
  ASSUME DbInv, NEW r \in Requests, Save(r), Insert(r)
  PROVE  DbInv'
<1>1. /\ UNCHANGED <<jar, cookie, data, crossed, new>> /\ pc' = [pc EXCEPT ![r] = "reply"]
      /\ sid' = [sid EXCEPT ![r] = [id |-> Len(rows) + 1, key |-> WrittenKey(r)]]
      /\ key' = [key EXCEPT ![r] = WrittenKey(r)] /\ rec' = [rec EXCEPT ![r] = Len(rows) + 1]
  BY DEF Save, Insert, Inserted, selfVars
<1>2. Written(r) \in Row /\ keys' \in Nat /\ WrittenKey(r) \in Nat /\ Len(rows) \in Nat
  BY WrittenTypes DEF Save, DbInv, TableTypes
<1>3. PICK table : table = Append(Committed(r), Written(r))
  OBVIOUS
<1>4. table \in Seq(Row \union {Gone}) /\ Len(table) = Len(rows) + 1 /\ Ends(r, table) /\ rows' = table
  BY <1>2, <1>3, CommittedRows DEF Insert, Ends
<1>5. ASSUME NEW i \in Ids, writer[i] \notin {None, r} \/ rows[i] = Gone PROVE table[i] = rows[i]
  <2>1. RowFor(r, i) = rows[i] /\ Committed(r)[i] = RowFor(r, i)
    BY <1>5, CommittedRows
  <2> QED BY <1>3, <1>2, <2>1, CommittedRows DEF Ids
<1>6. [id |-> Len(rows) + 1, key |-> WrittenKey(r)] \in Name
  BY <1>2 DEF Name
<1>7. /\ sid' \in [Requests -> Name \union {None}] /\ rec' \in [Requests -> Nat]
      /\ key' \in [Requests -> Nat] /\ new' \in [Requests -> BOOLEAN]
      /\ \A q \in Requests \ {r} : sid'[q] = sid[q] /\ rec'[q] = rec[q] /\ key'[q] = key[q] /\ new'[q] = new[q]
  BY <1>1, <1>2, <1>6 DEF DbInv, SelfTypes
<1>8. IsId(sid[r])'
  BY <1>1, <1>2, <1>4 DEF DbInv, SelfTypes, IsId, Ids
<1>9. PICK end \in {"reply", "dead"} : pc' = [pc EXCEPT ![r] = end]
  BY <1>1
<1>10. \A i \in Ids : writer[i] \notin {None, r} \/ rows[i] = Gone => table[i] = rows[i]
  BY <1>5
<1>11. Len(table) >= Len(rows)
  BY <1>2, <1>4
<1>12. UNCHANGED <<jar, cookie, data, crossed>> /\ keys' \in Nat
  BY <1>1, <1>2
<1>13. table \in Seq(Row \union {Gone}) /\ Ends(r, table)
  BY <1>4
<1> QED BY <1>7, <1>8, <1>9, <1>10, <1>11, <1>12, <1>13, EndsKeeps
-----------------------------------------------------------------------------
LEMMA DbInvNext == DbInv /\ [DbNext]_dbVars => DbInv'
<1> SUFFICES ASSUME DbInv, [DbNext]_dbVars PROVE DbInv'
  OBVIOUS
<1>1. CASE UNCHANGED dbVars
  BY <1>1 DEF DbInv, dbVars, rowVars, tableVars, requestVars, selfVars, TableTypes, SelfTypes, Ids, IsId,
              Alive, Knows, Unnamed, Owns, RowFor
<1>2. CASE DbNext
  <2>1. PICK r \in Requests :
          \/ Request(r) \/ Connect(r) \/ Change(r) \/ Delete(r) \/ RenewRead(r) \/ RenewWrite(r)
          \/ GiveUp(r) \/ Leave(r) \/ Save(r) \/ Answer(r) \/ RollBack(r)
    BY <1>2 DEF DbNext
  <2>2. CASE Request(r) \/ Change(r) \/ GiveUp(r) \/ Answer(r)
    BY <2>2, PlainKeeps
  <2>3. CASE Connect(r)
    BY <2>3, ConnectKeeps
  <2>4. CASE Delete(r)
    BY <2>4, DeleteKeeps
  <2>5. CASE RenewRead(r)
    BY <2>5, RenewReadKeeps
  <2>6. CASE RenewWrite(r)
    BY <2>6, RenewWriteKeeps
  <2>7. CASE Leave(r) \/ RollBack(r)
    BY <2>7, LeaveKeeps
  <2>8. CASE Save(r)
    BY <2>8, UpdateKeeps, InsertKeeps DEF Save
  <2> QED BY <2>1, <2>2, <2>3, <2>4, <2>5, <2>6, <2>7, <2>8
<1> QED BY <1>1, <1>2

\* A request that saves its session tells the client where.
LEMMA SaveTells ==
  ASSUME DbInv, NEW r \in Requests \ crossed, Save(r)
  PROVE  sid'[r] # None /\ rows'[sid'[r].id] = [key |-> sid'[r].key, marks |-> data[r]]
<1>1. Written(r) \in Row /\ WrittenKey(r) \in Nat /\ Len(rows) \in Nat /\ pc[r] = "work"
  BY WrittenTypes DEF Save, DbInv, TableTypes
<1>2. CASE Update(r)
  <2>1. /\ sid' = sid /\ rec[r] # NoRow /\ RowFor(r, rec[r]) # Gone
        /\ rows' = [Committed(r) EXCEPT ![rec[r]] = Written(r)]
    BY <1>2 DEF Update, Updates, Ends, namedVars
  <2>2. /\ sid[r] # None /\ sid[r].id = rec[r] /\ sid[r].key = key[r] /\ ~new[r] /\ rec[r] \in Ids
    BY <1>1, <2>1 DEF DbInv, SelfTypes, Knows, IsId
  <2>3. rows'[rec[r]] = Written(r)
    BY <2>1, <2>2, CommittedRows DEF Ids
  <2> QED BY <2>1, <2>2, <2>3 DEF Written, WrittenKey
<1>3. CASE Insert(r)
  <2>1. /\ sid' = [sid EXCEPT ![r] = [id |-> Len(rows) + 1, key |-> WrittenKey(r)]]
        /\ rows' = Append(Committed(r), Written(r))
    BY <1>3 DEF Insert, Inserted, Ends
  <2>2. [id |-> Len(rows) + 1, key |-> WrittenKey(r)] # None
    BY <1>1, NameAssumption DEF Name
  <2>3. rows'[Len(rows) + 1] = Written(r)
    BY <1>1, <2>1, CommittedRows
  <2> QED BY <2>1, <2>2, <2>3 DEF DbInv, SelfTypes, Written
<1> QED BY <1>2, <1>3 DEF Save

\* The client is told where its session is, whatever other requests renewed, cleared or
\* stored meanwhile.
THEOREM StoredToldAlways == DbSpec => StoredAsTold
<1>1. DbInv /\ [DbNext]_dbVars =>
        [\A r \in Requests \ crossed :
           pc[r] = "work" /\ pc'[r] = "reply" /\ ~Kept(r) =>
             /\ sid'[r] # None
             /\ rows'[sid'[r].id] = [key |-> sid'[r].key, marks |-> data[r]]]_dbVars
  <2> SUFFICES ASSUME DbInv, DbNext, NEW r \in Requests \ crossed,
                      pc[r] = "work", pc'[r] = "reply", ~Kept(r)
               PROVE  sid'[r] # None /\ rows'[sid'[r].id] = [key |-> sid'[r].key, marks |-> data[r]]
    OBVIOUS
  <2>1. PICK q \in Requests :
          \/ Request(q) \/ Connect(q) \/ Change(q) \/ Delete(q) \/ RenewRead(q) \/ RenewWrite(q)
          \/ GiveUp(q) \/ Leave(q) \/ Save(q) \/ Answer(q) \/ RollBack(q)
    BY DEF DbNext
  <2>2. Save(r)
    BY <2>1 DEF Request, Connect, Change, Delete, RenewRead, RenewWrite, GiveUp, Leave, Save, Answer,
                RollBack, DbInv, SelfTypes
  <2> QED BY <2>2, SaveTells
<1> QED BY <1>1, DbInvInit, DbInvNext, PTL DEF DbSpec, StoredAsTold

\* The rows a request asks for: the one it saves to, the one it clears or renews.
Asked(r) == {rec[r]} \union (IF sid[r] = None THEN {} ELSE {sid[r].id})

\* A request whose transaction has written a row is never kept waiting for one, so that
\* whoever waits waits for a request that can go on to its commit.
WritersDontWait ==
  \A r \in Requests, id \in Ids : writer[id] = r =>
    /\ pc[r] \in {"work", "renew"}
    /\ \A i \in Asked(r) : MayWrite(r, i)

\* Row locks cannot bring two requests of a client to wait for each other, whatever they
\* clear, renew and store: each writes the row of its session and no other.
THEOREM NoRowCircle == DbSpec => []WritersDontWait
<1>1. DbInv => WritersDontWait
  <2> SUFFICES ASSUME DbInv, NEW r \in Requests, NEW id \in Ids, writer[id] = r
               PROVE  pc[r] \in {"work", "renew"} /\ \A i \in Asked(r) : MayWrite(r, i)
    BY DEF WritersDontWait
  <2>1. pc[r] \in {"work", "renew"} /\ id = rec[r]
    BY DEF DbInv, Owns
  <2>2. id # NoRow
    BY DEF Ids, NoRow
  <2>3. sid[r] # None => sid[r].id = rec[r]
    BY <2>1, <2>2 DEF DbInv, Knows
  <2> QED BY <2>1, <2>3 DEF Asked, MayWrite
<1> QED BY <1>1, DbInvInit, DbInvNext, PTL DEF DbSpec
=============================================================================
