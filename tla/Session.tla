------------------------------- MODULE Session -------------------------------
(***************************************************************************)
(* gluon/globals.py, what Session keeps per request wherever it is stored. *)
(* The requests are those of one client and may overlap; a session is a    *)
(* set of marks, of which a request adds its own and drops some.           *)
(***************************************************************************)
EXTENDS Integers, SequencesExt

CONSTANTS
  Requests,
  MaxOps,      \* bound: what the application does to the session, all requests together
  MaxBroken,   \* bound: requests that end by an exception or with their process
  None

ASSUME SessionAssumption == None \notin Requests /\ MaxOps \in Nat /\ MaxBroken \in Nat

VARIABLES
  jar,         \* the client's session cookie
  pc,          \* where a request is
  cookie,      \* the cookie it came with
  sid, new,    \* response.session_id (and session_filename), session_new
  data, hash,  \* the session, and as it was loaded (session_hash)
  forgot,      \* session._forget
  ops          \* how much the application did so far

selfVars == <<data, hash, forgot>>
requestVars == <<jar, pc, cookie, sid, new, selfVars, ops>>

RequestInit ==
  /\ pc = [r \in Requests |-> "away"] /\ cookie = [r \in Requests |-> None]
  /\ sid = [r \in Requests |-> None] /\ new = [r \in Requests |-> FALSE]
  /\ data = [r \in Requests |-> {}] /\ hash = [r \in Requests |-> {}]
  /\ forgot = [r \in Requests |-> FALSE]
  /\ ops = 0

Active(r) == pc[r] \notin {"away", "done", "dead"}

\* The application does something to the session.
Op(r) == pc[r] = "work" /\ ops < MaxOps /\ ops' = ops + 1

MayBreak(r) == Cardinality({q \in Requests : pc[q] = "dead"}) < MaxBroken
=============================================================================
