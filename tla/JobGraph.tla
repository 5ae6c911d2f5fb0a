------------------------------ MODULE JobGraph ------------------------------
(***************************************************************************)
(* gluon/scheduler.py, JobGraph: requests add dependencies among tasks to  *)
(* the table scheduler_task_deps and validate them, in one transaction.    *)
(*                                                                         *)
(* validate() peels the graph: the tasks that wait for nothing, then those *)
(* that wait for these only, and so on; what remains has a cycle.          *)
(***************************************************************************)
EXTENDS Integers, FiniteSets, Sequences

CONSTANTS
  Tasks,
  Jobs,          \* job names
  Clients,       \* the requests, each with its database connection
  MaxDeps,       \* bound: dependencies that are added, all requests together
  Serializable   \* transactions do not overlap

ASSUME JobAssumption == MaxDeps \in Nat /\ Serializable \in BOOLEAN

Dep == [parent : Tasks, child : Tasks, job : Jobs]

VARIABLES
  deps,    \* the committed rows
  added,   \* client -> the rows of its open transaction
  at,      \* client -> "idle", "open", "peel"
  graph,   \* client -> nested_dict: task -> the tasks it still waits for
  rtn,     \* client -> the layers found so far
  edges    \* client -> the rows that validate() selected

walkVars == <<graph, rtn, edges>>
jobVars == <<deps, added, at, walkVars>>

JobInit ==
  /\ deps = {} /\ added = [c \in Clients |-> {}] /\ at = [c \in Clients |-> "idle"]
  /\ graph = [c \in Clients |-> <<>>] /\ rtn = [c \in Clients |-> <<>>]
  /\ edges = [c \in Clients |-> {}]

\* With serializable transactions a request finds no other one's rows pending.
Alone(c) == Serializable => \A d \in Clients \ {c} : at[d] = "idle"

Pending == UNION {added[c] : c \in Clients}

AddDeps(c, d) ==
  /\ at[c] \in {"idle", "open"} /\ Alone(c)
  /\ d \notin deps \union Pending /\ Cardinality(deps \union Pending) < MaxDeps
  /\ added' = [added EXCEPT ![c] = @ \union {d}]
  /\ at' = [at EXCEPT ![c] = "open"]
  /\ UNCHANGED <<deps, walkVars>>

-----------------------------------------------------------------------------
(* validate(). *)

Selected(c, scope) == {d \in deps \union added[c] : d.job \in scope}

\* "Ignore self dependencies".
OwnTask(p) == {p}

\* nested_dict, with the children that are no parents: these wait for nothing.
Nested(rows) ==
  [p \in {d.parent : d \in rows} \union {d.child : d \in rows} |->
     {d.child : d \in {e \in rows : e.parent = p}} \ OwnTask(p)]

\* The rows of one job, or of all; a request validates at least what it added.
\* reduce() of no sets raises, and that rolls back.
Validate(c, scope) ==
  /\ at[c] \in {"idle", "open"} /\ Alone(c) /\ {d.job : d \in added[c]} \subseteq scope
  /\ LET rows == Selected(c, scope) IN
     IF rows = {}
     THEN /\ added' = [added EXCEPT ![c] = {}]
          /\ at' = [at EXCEPT ![c] = "idle"]
          /\ UNCHANGED walkVars
     ELSE /\ edges' = [edges EXCEPT ![c] = rows]
          /\ graph' = [graph EXCEPT ![c] = Nested(rows)]
          /\ at' = [at EXCEPT ![c] = "peel"]
          /\ UNCHANGED <<added, rtn>>
  /\ UNCHANGED deps

Ordered(g) == {t \in DOMAIN g : g[t] = {}}

LeftWaiting(g, o) == [t \in DOMAIN g \ o |-> IF \E s \in o : s \in g[t] THEN {} ELSE g[t]]   \* mutant
Left(g, o) == [t \in DOMAIN g \ o |-> g[t] \ o]

Peel(c) ==
  LET o == Ordered(graph[c]) IN
  /\ at[c] = "peel" /\ o # {}
  /\ rtn' = [rtn EXCEPT ![c] = Append(@, o)]
  /\ graph' = [graph EXCEPT ![c] = Left(@, o)]
  /\ UNCHANGED <<deps, added, at, edges>>

\* assert not nested_dict, then commit, or rollback of the whole transaction.
KeptRows(c) == deps \union added[c]                      \* mutant
RolledBack(c) == deps

Answer(c) ==
  /\ at[c] = "peel" /\ Ordered(graph[c]) = {}
  /\ deps' = IF DOMAIN graph[c] = {} THEN deps \union added[c] ELSE RolledBack(c)
  /\ added' = [added EXCEPT ![c] = {}]
  /\ at' = [at EXCEPT ![c] = "idle"]
  /\ graph' = [graph EXCEPT ![c] = <<>>] /\ rtn' = [rtn EXCEPT ![c] = <<>>]
  /\ edges' = [edges EXCEPT ![c] = {}]

JobNext ==
  \E c \in Clients :
    \/ \E d \in Dep : AddDeps(c, d)
    \/ \E scope \in {{j} : j \in Jobs} \union {Jobs} : Validate(c, scope)
    \/ Peel(c) \/ Answer(c)

JobSpec == JobInit /\ [][JobNext]_jobVars
-----------------------------------------------------------------------------
(* Properties. *)

Waits(rows, t) == {d.child : d \in {e \in rows : e.parent = t}} \ {t}
Members(rows) == {d.parent : d \in rows} \union {d.child : d \in rows}

\* In every set of tasks there is one that waits for no other one of the set.
Acyclic(rows) == \A S \in (SUBSET Members(rows)) \ {{}} : \E t \in S : Waits(rows, t) \intersect S = {}

Before(layers, i) == UNION {layers[j] : j \in 1..(i - 1)}
Covered(layers) == UNION {layers[i] : i \in DOMAIN layers}

\* No task is in two layers, and what a task waits for is in the layers before its own.
Layered(layers, rows) ==
  \A i \in DOMAIN layers : /\ layers[i] \intersect Before(layers, i) = {}
                           /\ \A t \in layers[i] : Waits(rows, t) \subseteq Before(layers, i)

\* All the tasks can be executed layer by layer.
IsPlan(layers, rows) == Covered(layers) = Members(rows) /\ Layered(layers, rows)

\* What validate() promises of its answer: rtn is a plan of the rows it looked at,
\* whenever there is one; None ("mutual dependencies") is only said if there is none.
ValidateExact ==
  [][\A c \in Clients : Answer(c) =>
       IF DOMAIN graph[c] = {} THEN IsPlan(rtn[c], edges[c]) ELSE ~Acyclic(edges[c])]_jobVars

\* "Validate if all tasks job_name can be completed": requests that commit nothing but
\* validated rows, one after the other, never leave tasks of one job that wait for
\* each other.
JobsOrdered ==
  \A j \in Jobs : Acyclic({d \in deps : d.job = j})
=============================================================================
