------------------------------ MODULE SessionDb ------------------------------
(***************************************************************************)
(* gluon/globals.py, Session with storage in the database, as gluon/main.py *)
(* uses it.  Each request reads the row that its cookie names, runs the    *)
(* application, stores by the id of the row, and commits; the reply sets   *)
(* the cookie when it arrives.                                             *)
(*                                                                         *)
(* A key is a number.  The database is taken to read what is committed, to *)
(* give a row that a transaction has written to no other one before it     *)
(* ends, and never to use an id twice.                                     *)
(***************************************************************************)
EXTENDS Session

Gone == None      \* a row that is deleted
NoRow == 0        \* no session_db_record_id

\* What a cookie names; None is none of these.
Name == [id : Nat, key : Nat]
ASSUME NameAssumption == None \notin Name

VARIABLES
  rows,        \* id -> [key, marks], or Gone
  keys,        \* how many keys were made
  writer,      \* id -> the request whose transaction has written the row, or None
  draft,       \* request -> what it has written there
  rec, key,    \* response.session_db_record_id, session_db_unique_key
  crossed      \* it found, renewing, that another request has renewed: a history variable

tableVars == <<rows, keys, writer, draft>>
namedVars == <<sid, new, rec, key>>
rowVars == <<tableVars, rec, key, crossed>>
dbVars == <<rowVars, requestVars>>

TableInit ==
  /\ rows = <<>> /\ keys = 0 /\ writer = <<>>
  /\ draft = [r \in Requests |-> Gone]
  /\ rec = [r \in Requests |-> NoRow] /\ key = [r \in Requests |-> 0]
  /\ crossed = {}
DbInit == RequestInit /\ jar = None /\ TableInit

NewKey == keys + 1

\* The row as a request sees it, and whether its transaction may write it.
RowFor(r, id) == IF writer[id] = r THEN draft[r] ELSE rows[id]
MayWrite(r, id) == writer[id] \in {None, r}

\* UPDATE or DELETE of the row, which may be gone by now.
WriteRow(r, id, row) ==
  IF RowFor(r, id) = Gone THEN UNCHANGED <<writer, draft>>
  ELSE /\ writer' = [writer EXCEPT ![id] = r]
       /\ draft' = [draft EXCEPT ![r] = row]
-----------------------------------------------------------------------------
(* connect(). *)

Request(r) ==
  /\ pc[r] = "away"
  /\ cookie' = [cookie EXCEPT ![r] = jar]
  /\ pc' = [pc EXCEPT ![r] = "read"]
  /\ UNCHANGED <<tableVars, jar, namedVars, selfVars, ops, crossed>>

Found(c) == c # None /\ rows[c.id] # Gone /\ rows[c.id].key = c.key

Connect(r) ==
  /\ pc[r] = "read"
  /\ LET c == cookie[r] IN
     IF Found(c)
     THEN /\ data' = [data EXCEPT ![r] = rows[c.id].marks]
          /\ sid' = [sid EXCEPT ![r] = c] /\ rec' = [rec EXCEPT ![r] = c.id]
          /\ key' = [key EXCEPT ![r] = c.key]
          /\ UNCHANGED new
     ELSE new' = [new EXCEPT ![r] = TRUE] /\ UNCHANGED <<data, sid, rec, key>>
  /\ hash' = [hash EXCEPT ![r] = data'[r]]
  /\ pc' = [pc EXCEPT ![r] = "work"]
  /\ UNCHANGED <<tableVars, jar, cookie, forgot, ops, crossed>>
-----------------------------------------------------------------------------
(* The application. *)

Change(r) ==
  /\ Op(r)
  /\ data' = [data EXCEPT ![r] = IF r \in @ THEN @ \ {r} ELSE @ \union {r}]
  /\ UNCHANGED <<tableVars, jar, pc, cookie, namedVars, hash, forgot, crossed>>

\* clear() deletes the row.
Delete(r) ==
  /\ Op(r)
  /\ IF sid[r] = None THEN UNCHANGED <<writer, draft>>
     ELSE MayWrite(r, sid[r].id) /\ WriteRow(r, sid[r].id, Gone)
  /\ data' = [data EXCEPT ![r] = {}]
  /\ UNCHANGED <<rows, keys, jar, pc, cookie, namedVars, hash, forgot, crossed>>

\* renew() reads the row again, and if it has another key by now the session is new;
RenewRead(r) ==
  /\ Op(r) /\ ~new[r]
  /\ LET row == RowFor(r, sid[r].id) IN
     IF row # Gone /\ row.key = sid[r].key
     THEN pc' = [pc EXCEPT ![r] = "renew"] /\ UNCHANGED <<new, crossed>>
     ELSE /\ new' = [new EXCEPT ![r] = TRUE] /\ UNCHANGED pc
          /\ crossed' = IF row = Gone THEN crossed ELSE crossed \union {r}
  /\ UNCHANGED <<tableVars, jar, cookie, sid, rec, key, selfVars>>

\* else it writes a new key into the row, whatever that is by now.
RenewWrite(r) ==
  /\ pc[r] = "renew" /\ MayWrite(r, sid[r].id)
  /\ LET id == sid[r].id IN
     /\ WriteRow(r, id, [key |-> NewKey, marks |-> RowFor(r, id).marks])
     /\ sid' = [sid EXCEPT ![r] = [id |-> id, key |-> NewKey]]
  /\ keys' = NewKey /\ key' = [key EXCEPT ![r] = NewKey]
  /\ pc' = [pc EXCEPT ![r] = "work"]
  /\ UNCHANGED <<rows, jar, cookie, rec, new, selfVars, ops, crossed>>

GiveUp(r) ==
  /\ Op(r)
  /\ forgot' = [forgot EXCEPT ![r] = TRUE]
  /\ UNCHANGED <<tableVars, jar, pc, cookie, namedVars, data, hash, crossed>>
-----------------------------------------------------------------------------
(* _try_store_in_db(), the commit, and the reply. *)

Kept(r) == forgot[r] \/ (data[r] = hash[r] /\ ~new[r])

\* The transaction of r ends and leaves the table with these rows.
Ends(r, table) ==
  /\ rows' = table
  /\ writer' = [id \in DOMAIN table |->
                  IF id > Len(rows) \/ writer[id] = r THEN None ELSE writer[id]]
  /\ draft' = [draft EXCEPT ![r] = Gone]
Committed(r) == [id \in DOMAIN rows |-> RowFor(r, id)]

Leave(r) ==
  /\ pc[r] = "work" /\ Kept(r)
  /\ Ends(r, Committed(r))
  /\ pc' = [pc EXCEPT ![r] = "reply"]
  /\ UNCHANGED <<keys, jar, cookie, namedVars, selfVars, ops, crossed>>

\* A session that is new gets a new key.
WrittenKey(r) == IF new[r] THEN NewKey ELSE key[r]
Written(r) == [key |-> WrittenKey(r), marks |-> data[r]]
Makes(r) == keys' = IF new[r] THEN NewKey ELSE keys

InsertedUntold(r, id) == UNCHANGED namedVars              \* mutant
\* The row that is inserted gets its names.
Inserted(r, id) ==
  /\ sid' = [sid EXCEPT ![r] = [id |-> id, key |-> WrittenKey(r)]]
  /\ key' = [key EXCEPT ![r] = WrittenKey(r)]
  /\ rec' = [rec EXCEPT ![r] = id]
  /\ UNCHANGED new

\* The row is updated by its id alone; if there is none, or none any more, one is inserted.
Updates(r) == rec[r] # NoRow /\ RowFor(r, rec[r]) # Gone
Update(r) ==
  /\ Updates(r) /\ MayWrite(r, rec[r])
  /\ Ends(r, [Committed(r) EXCEPT ![rec[r]] = Written(r)])
  /\ UNCHANGED namedVars
Insert(r) ==
  /\ ~Updates(r) /\ Ends(r, Append(Committed(r), Written(r)))
  /\ Inserted(r, Len(rows) + 1)

Save(r) ==
  /\ pc[r] = "work" /\ ~Kept(r)
  /\ Update(r) \/ Insert(r)
  /\ Makes(r)
  /\ pc' = [pc EXCEPT ![r] = "reply"]
  /\ UNCHANGED <<jar, cookie, selfVars, ops, crossed>>

\* Replies arrive in any order.  One that forgets the session sets no cookie.
Answer(r) ==
  /\ pc[r] = "reply"
  /\ jar' = IF forgot[r] \/ sid[r] = None THEN jar ELSE sid[r]
  /\ pc' = [pc EXCEPT ![r] = "done"]
  /\ UNCHANGED <<tableVars, cookie, namedVars, selfVars, ops, crossed>>

\* The application raises, or the process ends: the transaction is rolled back.
RollBack(r) ==
  /\ pc[r] \in {"work", "renew"}
  /\ MayBreak(r)
  /\ pc' = [pc EXCEPT ![r] = "dead"]
  /\ Ends(r, rows)
  /\ UNCHANGED <<keys, jar, cookie, namedVars, selfVars, ops, crossed>>

DbNext == \E r \in Requests :
  \/ Request(r) \/ Connect(r) \/ Change(r) \/ Delete(r) \/ RenewRead(r) \/ RenewWrite(r)
  \/ GiveUp(r) \/ Leave(r) \/ Save(r) \/ Answer(r) \/ RollBack(r)

DbSpec == DbInit /\ [][DbNext]_dbVars
-----------------------------------------------------------------------------
(* Properties. *)

\* A request that stores its session tells the client where it is: whatever was renewed,
\* cleared or stored by others in between, the id and the key in its reply are those of
\* the row that has just been committed, with its data.  Not so if it called renew()
\* after another request's renewal: then it writes a key that nobody is told.
StoredAsTold ==
  [][\A r \in Requests \ crossed :
       pc[r] = "work" /\ pc'[r] = "reply" /\ ~Kept(r) =>
         /\ sid'[r] # None
         /\ rows'[sid'[r].id] = [key |-> sid'[r].key, marks |-> data[r]]]_dbVars
=============================================================================
