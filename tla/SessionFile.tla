----------------------------- MODULE SessionFile -----------------------------
(***************************************************************************)
(* gluon/globals.py, Session with file storage, as gluon/main.py uses it.  *)
(* Concurrent requests of one client: each connects (opens, locks and      *)
(* loads the file its cookie names), runs the application, and stores.     *)
(*                                                                         *)
(* A file name is the number of a session id, and a file lives on, without *)
(* a name, while somebody has it open.                                     *)
(***************************************************************************)
EXTENDS Session

CONSTANT Old   \* the mark in the session that exists at first

ASSUME OldAssumption ==
  Old \notin Requests /\ None \notin Nat /\ \A m \in SUBSET (Requests \union {Old}) : m # None

Empty == None     \* a file that is truncated and not yet written
NoFile == 0

VARIABLES
  folder,      \* session id -> the file of that name
  stored,      \* the ids under which a session is stored: a history variable
  wiped,       \* session id -> the marks that clear() removed: a history variable
  content,     \* file -> the marks, or Empty
  file, locked, \* response.session_file, session_locked
  again,       \* the request called connect() itself
  dropped,     \* the marks it dropped: a history variable
  disturbed    \* its session was cleared, or rewritten after that, meanwhile: history

diskVars == <<folder, stored, wiped, content>>
fileVars == <<file, locked>>
nameVars == <<sid, new>>
opVars   == <<ops, again, dropped, disturbed>>
vars == <<diskVars, fileVars, requestVars, opVars>>

Marks == Requests \union {Old}

FileInit ==
  /\ RequestInit
  /\ \/ folder = <<>> /\ stored = {} /\ wiped = <<>> /\ content = <<>> /\ jar = None
     \/ folder = <<1>> /\ stored = {1} /\ wiped = <<{}>> /\ content = <<{Old}>> /\ jar = 1
  /\ file = [r \in Requests |-> NoFile] /\ locked = [r \in Requests |-> FALSE]
  /\ again = [r \in Requests |-> FALSE]
  /\ dropped = [r \in Requests |-> {}] /\ disturbed = {}

Held(f) == \E r \in Requests : file[r] = f /\ locked[r]

InFile(f) == IF f = NoFile \/ content[f] = Empty THEN {} ELSE content[f]

Disturb(id) == disturbed' = disturbed \union
                 {q \in Requests : Active(q) /\ id \in {cookie[q], sid[q]}}

\* _close(): unlocks and closes; so does the last reference to a file object.
Close(r) ==
  /\ file' = [file EXCEPT ![r] = NoFile]
  /\ locked' = [locked EXCEPT ![r] = FALSE]

\* A new session id, whose file does not exist yet.
NewId(r) ==
  /\ folder' = Append(folder, NoFile) /\ wiped' = Append(wiped, {}) /\ UNCHANGED stored
  /\ sid' = [sid EXCEPT ![r] = Len(folder) + 1]
  /\ new' = [new EXCEPT ![r] = TRUE]

-----------------------------------------------------------------------------
(* connect(). *)

Arrive(r) ==
  /\ pc[r] = "away"
  /\ cookie' = [cookie EXCEPT ![r] = jar]
  /\ pc' = [pc EXCEPT ![r] = "open"]
  /\ UNCHANGED <<diskVars, jar, nameVars, fileVars, selfVars, opVars>>

\* The cookie names a file: it is opened.  Else the session is new, with what the
\* request already has if this is its second connect().
Open(r) ==
  /\ pc[r] = "open"
  /\ IF cookie[r] # None /\ folder[cookie[r]] # NoFile
     THEN /\ file' = [file EXCEPT ![r] = folder[cookie[r]]]
          /\ locked' = [locked EXCEPT ![r] = FALSE]
          /\ sid' = [sid EXCEPT ![r] = cookie[r]] /\ new' = [new EXCEPT ![r] = FALSE]
          /\ pc' = [pc EXCEPT ![r] = "lock"]
          /\ UNCHANGED <<folder, stored, wiped, hash>>
     ELSE /\ Close(r) /\ NewId(r)
          /\ hash' = [hash EXCEPT ![r] = data[r]]
          /\ pc' = [pc EXCEPT ![r] = "work"]
  /\ UNCHANGED <<content, jar, cookie, data, forgot, opVars>>

NeedsLockNever(r) == FALSE         \* mutant
NeedsLock(r) == TRUE
Lock(r) ==
  /\ pc[r] = "lock" /\ ~(NeedsLock(r) /\ Held(file[r]))
  /\ locked' = [locked EXCEPT ![r] = TRUE]
  /\ pc' = [pc EXCEPT ![r] = "load"]
  /\ UNCHANGED <<diskVars, jar, cookie, nameVars, file, selfVars, opVars>>

\* pickle.load: what is loaded is added to what is there.  An empty file raises
\* EOFError, and the session is new while the file stays open and locked.
Load(r) ==
  /\ pc[r] = "load"
  /\ IF content[file[r]] # Empty
     THEN /\ data' = [data EXCEPT ![r] = @ \union content[file[r]]]
          /\ UNCHANGED <<folder, stored, wiped, nameVars>>
     ELSE NewId(r) /\ UNCHANGED data
  /\ hash' = [hash EXCEPT ![r] = data'[r]]
  /\ pc' = [pc EXCEPT ![r] = "work"]
  /\ UNCHANGED <<content, jar, cookie, fileVars, forgot, opVars>>

-----------------------------------------------------------------------------
(* The application. *)

Add(r) ==
  /\ Op(r)
  /\ data' = [data EXCEPT ![r] = @ \union {r}]
  /\ UNCHANGED <<diskVars, fileVars, jar, pc, cookie, nameVars, hash, forgot,
                 again, dropped, disturbed>>

Drop(r, m) ==
  /\ Op(r) /\ m \in data[r]
  /\ data' = [data EXCEPT ![r] = @ \ {m}]
  /\ dropped' = [dropped EXCEPT ![r] = @ \union {m}]
  /\ UNCHANGED <<diskVars, jar, pc, cookie, nameVars, fileVars, hash, forgot, again, disturbed>>

RemovedKept(r) == folder           \* mutant
Removed(r) == [folder EXCEPT ![sid[r]] = NoFile]

\* clear(): the file is closed, and whatever has its name is removed.
Wipe(r) ==
  /\ folder' = Removed(r)
  /\ stored' = stored \ {sid[r]}
  /\ wiped' = [wiped EXCEPT ![sid[r]] = @ \union InFile(folder[sid[r]])]
  /\ data' = [data EXCEPT ![r] = {}]
  /\ Close(r)

Clear(r) ==
  /\ Op(r) /\ Wipe(r) /\ Disturb(sid[r])
  /\ UNCHANGED <<content, jar, pc, cookie, nameVars, hash, forgot, again, dropped>>

\* renew(): the session goes on under a new id; the old file stays.
Renew(r) ==
  /\ Op(r)
  /\ Close(r) /\ NewId(r)
  /\ UNCHANGED <<content, jar, pc, cookie, selfVars, again, dropped, disturbed>>

\* forget(), and forget(response), which also gives up the lock.
Forget(r) ==
  /\ Op(r)
  /\ forgot' = [forgot EXCEPT ![r] = TRUE]
  /\ Close(r) \/ UNCHANGED fileVars
  /\ UNCHANGED <<diskVars, jar, pc, cookie, nameVars, data, hash, again, dropped, disturbed>>

\* "connect may be called twice, by web2py and in models".
Again(r) ==
  /\ Op(r) /\ ~again[r]
  /\ again' = [again EXCEPT ![r] = TRUE]
  /\ Close(r)
  /\ pc' = [pc EXCEPT ![r] = "open"]
  /\ UNCHANGED <<diskVars, jar, cookie, nameVars, selfVars, dropped, disturbed>>

-----------------------------------------------------------------------------
(* _try_store_in_file() and the reply. *)

Unchanged(r) == IF new[r] THEN data[r] = {} ELSE data[r] = hash[r]

\* The cookie is sent with the reply, unless the session was forgotten.
Reply(r) ==
  /\ jar' = IF forgot[r] THEN jar ELSE sid[r]
  /\ pc' = [pc EXCEPT ![r] = "done"]
  /\ Close(r)

Skip(r) ==
  /\ pc[r] = "work" /\ (forgot[r] \/ Unchanged(r))
  /\ Reply(r)
  /\ UNCHANGED <<diskVars, cookie, nameVars, selfVars, opVars>>

\* A session that is new or has no file is opened for writing, which empties a file
\* of that name; an open file is written where it is.
Create(r) ==
  /\ folder[sid[r]] = NoFile
  /\ content' = Append(content, Empty)
  /\ folder' = [folder EXCEPT ![sid[r]] = Len(content) + 1]
  /\ UNCHANGED <<stored, disturbed>>
Truncate(r) ==
  /\ folder[sid[r]] # NoFile
  /\ content' = [content EXCEPT ![folder[sid[r]]] = Empty]
  /\ IF r \in disturbed THEN stored' = stored \ {sid[r]} /\ Disturb(sid[r])
                         ELSE UNCHANGED <<stored, disturbed>>
  /\ UNCHANGED folder

FreshAlways(r) == TRUE             \* mutant
Fresh(r) == new[r] \/ file[r] = NoFile

Store(r) ==
  /\ pc[r] = "work" /\ ~forgot[r] /\ ~Unchanged(r)
  /\ IF Fresh(r)
     THEN /\ Create(r) \/ Truncate(r)
          /\ file' = [file EXCEPT ![r] = folder'[sid[r]]]
          /\ locked' = [locked EXCEPT ![r] = FALSE]
          /\ pc' = [pc EXCEPT ![r] = "relock"]
     ELSE /\ pc' = [pc EXCEPT ![r] = "write"]
          /\ UNCHANGED <<content, folder, stored, disturbed, fileVars>>
  /\ UNCHANGED <<wiped, jar, cookie, nameVars, selfVars, ops, again, dropped>>

Relock(r) ==
  /\ pc[r] = "relock" /\ ~Held(file[r])
  /\ locked' = [locked EXCEPT ![r] = TRUE]
  /\ pc' = [pc EXCEPT ![r] = "write"]
  /\ UNCHANGED <<diskVars, jar, cookie, nameVars, file, selfVars, opVars>>

Write(r) ==
  /\ pc[r] = "write"
  /\ content' = [content EXCEPT ![file[r]] = data[r]]
  /\ stored' = IF folder[sid[r]] = file[r] THEN stored \union {sid[r]} ELSE stored
  /\ Reply(r)
  /\ UNCHANGED <<folder, wiped, cookie, nameVars, selfVars, opVars>>

\* An exception of the application (the session is not stored), or the end of the
\* process; either closes the file.
LeftLocked(r) == locked[r]        \* mutant
StaysLocked(r) == FALSE
Break(r) ==
  /\ Active(r) /\ MayBreak(r)
  /\ pc' = [pc EXCEPT ![r] = "dead"]
  /\ locked' = [locked EXCEPT ![r] = StaysLocked(r)]
  /\ file' = [file EXCEPT ![r] = IF locked'[r] THEN @ ELSE NoFile]
  /\ UNCHANGED <<diskVars, jar, cookie, nameVars, selfVars, opVars>>

Serve(r) == Open(r) \/ Lock(r) \/ Load(r) \/ Skip(r) \/ Store(r) \/ Relock(r) \/ Write(r)
App(r) == \/ Add(r) \/ Clear(r) \/ Renew(r) \/ Forget(r) \/ Again(r)
          \/ \E m \in Marks : Drop(r, m)

FileNext == \E r \in Requests : Arrive(r) \/ Serve(r) \/ App(r) \/ Break(r)

\* A request that has arrived goes on; the lock goes to some waiter.
FileSpec == FileInit /\ [][FileNext]_vars /\ \A r \in Requests : WF_vars(Serve(r))
-----------------------------------------------------------------------------
(* Properties. *)

\* What a request did to the session, done to the marks m.
Effect(r, m) == (m \ dropped[r]) \union (data[r] \intersect {r})

\* The lock from connect() to the store makes a request's change of its session
\* atomic: what it writes is what the last request stored there, and its change; no
\* update is lost, no dropped mark comes back.  Not so for one whose session is
\* cleared meanwhile, or that calls connect() again (the second load adds to the first).
UpdatesAtomic ==
  [][\A r \in Requests :
       pc[r] = "write" /\ pc'[r] = "done" /\ ~Fresh(r) /\ ~again[r] /\ r \notin disturbed =>
         /\ file[r] = folder[sid[r]]
         /\ content'[file[r]] = Effect(r, content[file[r]])]_vars

\* A session that is stored is found, whole, by the request whose cookie names it,
\* whatever other requests do, even if they end at any point: a client is given
\* another session only when its own was never stored or is cleared.
SessionKept ==
  [][\A r \in Requests :
       pc[r] \in {"open", "load"} /\ pc'[r] = "work" /\ new'[r] /\ r \notin disturbed =>
         cookie[r] \notin stored]_vars

\* What clear() removed from a session does not come back, although requests that
\* had opened the file before still load, change and store it: none of it is written
\* under the session's name.  Not so when a request calls connect() again: it brings
\* along what it has.
ClearedStaysCleared ==
  [][\A r \in Requests :
       /\ pc[r] = "write" /\ pc'[r] = "done" /\ folder[sid[r]] = file[r]
       /\ \A q \in Requests : ~again[q]
       => data[r] \intersect wiped[sid[r]] = {}]_vars

\* No request waits for ever for the file, and none leaves it locked.
RequestsEnd == \A r \in Requests : pc[r] = "open" ~> pc[r] \in {"done", "dead"}
=============================================================================
