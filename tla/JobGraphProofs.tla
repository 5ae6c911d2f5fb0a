--------------------------- MODULE JobGraphProofs ---------------------------
(* Theorems about JobGraph: validate() answers right, and the committed rows    *)
(* of each job can be executed, for every number of tasks, jobs and requests.   *)
EXTENDS JobGraph, TLAPS, SequenceTheorems

\* Between two rounds of the loop: the graph is what the selected rows say of the
\* tasks that are not in a layer yet.
PeelInv(c) ==
  at[c] = "peel" =>
    /\ Covered(rtn[c]) \subseteq Members(edges[c])
    /\ graph[c] = [t \in Members(edges[c]) \ Covered(rtn[c]) |->
                     Waits(edges[c], t) \ Covered(rtn[c])]
    /\ Layered(rtn[c], edges[c])

\* Outside of validate() there is no layer.
RestInv(c) == at[c] # "peel" => rtn[c] = <<>>

JobTypeOK ==
  /\ at \in [Clients -> {"idle", "open", "peel"}]
  /\ added \in [Clients -> SUBSET Dep]
  /\ rtn \in [Clients -> Seq(SUBSET Tasks)]
  /\ edges \in [Clients -> SUBSET Dep]
  /\ graph = [c \in Clients |-> graph[c]]
  /\ deps \subseteq Dep

JobInv == JobTypeOK /\ \A c \in Clients : PeelInv(c) /\ RestInv(c)

-----------------------------------------------------------------------------
(* The layers of the graph. *)

\* The tasks of a set of rows, and what they wait for.
LEMMA WaitsMembers ==
  ASSUME NEW rows \in SUBSET Dep, NEW t
  PROVE  Waits(rows, t) \subseteq Members(rows) /\ Members(rows) \subseteq Tasks
BY DEF Waits, Members, Dep

\* Without a layer nothing is covered.
LEMMA NoLayer == Covered(<<>>) = {}
BY DEF Covered

\* One more layer: the layers before it are those there were.
LEMMA MoreLayers ==
  ASSUME NEW r \in Seq(SUBSET Tasks), NEW o \in SUBSET Tasks
  PROVE  /\ Covered(Append(r, o)) = Covered(r) \union o
         /\ Before(Append(r, o), Len(r) + 1) = Covered(r)
         /\ \A i \in DOMAIN r : Before(Append(r, o), i) = Before(r, i)
         /\ Append(r, o) \in Seq(SUBSET Tasks)
         /\ DOMAIN Append(r, o) = DOMAIN r \union {Len(r) + 1}
<1> DEFINE s == Append(r, o)
<1>1. /\ s \in Seq(SUBSET Tasks) /\ Len(r) \in Nat
      /\ DOMAIN r = 1..Len(r) /\ DOMAIN s = 1..(Len(r) + 1)
      /\ \A i \in 1..Len(r) : s[i] = r[i]
      /\ s[Len(r) + 1] = o
  OBVIOUS
<1>2. DOMAIN s = DOMAIN r \union {Len(r) + 1}
  BY <1>1
<1> HIDE DEF s
<1>3. Covered(s) = Covered(r) \union o
  BY <1>1 DEF Covered
<1>4. Before(s, Len(r) + 1) = Covered(r)
  BY <1>1 DEF Before, Covered
<1>5. ASSUME NEW i \in DOMAIN r PROVE Before(s, i) = Before(r, i)
  BY <1>1 DEF Before
<1> QED BY <1>1, <1>2, <1>3, <1>4, <1>5 DEF s

\* A round of the loop keeps the layers in order: its tasks wait for nothing that is
\* still in the graph.
LEMMA PeelLayers ==
  ASSUME NEW rows \in SUBSET Dep, NEW r \in Seq(SUBSET Tasks), NEW o \in SUBSET Tasks,
         Layered(r, rows),
         o \intersect Covered(r) = {},
         \A t \in o : Waits(rows, t) \subseteq Covered(r)
  PROVE  Layered(Append(r, o), rows)
<1>1. /\ Before(Append(r, o), Len(r) + 1) = Covered(r)
      /\ \A i \in DOMAIN r : Before(Append(r, o), i) = Before(r, i)
      /\ DOMAIN Append(r, o) = DOMAIN r \union {Len(r) + 1}
  BY MoreLayers
<1>2. SUFFICES ASSUME NEW i \in DOMAIN Append(r, o)
               PROVE  /\ Append(r, o)[i] \intersect Before(Append(r, o), i) = {}
                      /\ \A t \in Append(r, o)[i] : Waits(rows, t) \subseteq Before(Append(r, o), i)
  BY DEF Layered
<1>3. CASE i \in DOMAIN r
  <2>1. Append(r, o)[i] = r[i]
    BY <1>3
  <2> QED BY <1>1, <1>3, <2>1 DEF Layered
<1>4. CASE i = Len(r) + 1
  <2>1. Append(r, o)[i] = o
    BY <1>4
  <2> QED BY <1>1, <1>4, <2>1
<1> QED BY <1>1, <1>2, <1>3, <1>4

-----------------------------------------------------------------------------
(* The invariant. *)

\* A request starts without layers.
LEMMA JobInvInit == JobInit => JobInv
<1> SUFFICES ASSUME JobInit PROVE JobInv
  OBVIOUS
<1>1. JobTypeOK
  BY DEF JobInit, JobTypeOK
<1>2. \A c \in Clients : PeelInv(c) /\ RestInv(c)
  BY DEF JobInit, PeelInv, RestInv
<1> QED BY <1>1, <1>2 DEF JobInv

\* A step changes what one request knows; the others keep their part of the invariant.
LEMMA Others ==
  ASSUME JobInv, NEW c \in Clients, NEW d \in Clients,
         at'[d] = at[d], rtn'[d] = rtn[d], edges'[d] = edges[d], graph'[d] = graph[d]
  PROVE  (PeelInv(d) /\ RestInv(d))'
BY DEF JobInv, PeelInv, RestInv

\* add_deps() does not touch the graph.
LEMMA AddKeeps ==
  ASSUME JobInv, NEW c \in Clients, NEW d \in Dep, AddDeps(c, d)
  PROVE  JobInv'
<1>1. JobTypeOK'
  BY DEF JobInv, JobTypeOK, AddDeps, walkVars
<1>2. ASSUME NEW e \in Clients PROVE (PeelInv(e) /\ RestInv(e))'
  <2>1. CASE e = c
    BY <2>1 DEF JobInv, JobTypeOK, AddDeps, walkVars, PeelInv, RestInv
  <2>2. CASE e # c
    BY <2>2, Others DEF JobInv, JobTypeOK, AddDeps, walkVars
  <2> QED BY <2>1, <2>2
<1> QED BY <1>1, <1>2 DEF JobInv

\* validate() begins with the graph of all the tasks of its rows.
LEMMA ValidateKeeps ==
  ASSUME JobInv, NEW c \in Clients, NEW scope \in SUBSET Jobs, Validate(c, scope)
  PROVE  JobInv'
<1> DEFINE rows == Selected(c, scope)
<1>1. rows \in SUBSET Dep
  BY DEF JobInv, JobTypeOK, Selected
<1>2. JobTypeOK'
  <2>1. CASE rows = {}
    BY <2>1 DEF JobInv, JobTypeOK, Validate, walkVars
  <2>2. CASE rows # {}
    BY <1>1, <2>2 DEF JobInv, JobTypeOK, Validate
  <2> QED BY <2>1, <2>2
<1>3. ASSUME NEW e \in Clients, e # c PROVE (PeelInv(e) /\ RestInv(e))'
  BY <1>3, Others DEF JobInv, JobTypeOK, Validate, walkVars
<1>4. ASSUME rows = {} PROVE (PeelInv(c) /\ RestInv(c))'
  BY <1>4 DEF JobInv, JobTypeOK, Validate, walkVars, PeelInv, RestInv
<1>5. ASSUME rows # {} PROVE (PeelInv(c) /\ RestInv(c))'
  <2>1. /\ at'[c] = "peel" /\ edges'[c] = rows /\ graph'[c] = Nested(rows) /\ rtn'[c] = rtn[c]
        /\ rtn[c] = <<>>
    BY <1>5 DEF JobInv, JobTypeOK, Validate, RestInv
  <2>2. Covered(rtn'[c]) = {} /\ Layered(rtn'[c], rows)
    BY <2>1, NoLayer DEF Layered
  <2>3. Nested(rows) = [t \in Members(rows) |-> Waits(rows, t)]
    BY DEF Nested, OwnTask, Members, Waits
  <2> HIDE DEF rows
  <2>4. PeelInv(c)'
    BY <2>1, <2>2, <2>3 DEF PeelInv
  <2>5. RestInv(c)'
    BY <2>1 DEF RestInv
  <2> QED BY <2>4, <2>5
<1>6. (PeelInv(c) /\ RestInv(c))'
  BY <1>4, <1>5
<1> QED BY <1>2, <1>3, <1>6 DEF JobInv

\* A round of the loop moves the tasks that wait for nothing from the graph to a layer.
LEMMA PeelKeeps ==
  ASSUME JobInv, NEW c \in Clients, Peel(c)
  PROVE  JobInv'
<1> DEFINE o == Ordered(graph[c])
           E == edges[c]
           L == Covered(rtn[c])
<1>1. /\ at[c] = "peel" /\ E \in SUBSET Dep /\ rtn[c] \in Seq(SUBSET Tasks)
      /\ rtn' = [rtn EXCEPT ![c] = Append(@, o)]
      /\ graph' = [graph EXCEPT ![c] = Left(@, o)]
      /\ UNCHANGED <<deps, added, at, edges>>
  BY DEF JobInv, JobTypeOK, Peel
<1>2. /\ L \subseteq Members(E)
      /\ graph[c] = [t \in Members(E) \ L |-> Waits(E, t) \ L]
      /\ Layered(rtn[c], E)
  BY <1>1 DEF JobInv, PeelInv
<1>3. /\ o \subseteq Members(E) \ L
      /\ \A t \in o : Waits(E, t) \subseteq L
  BY <1>2 DEF Ordered
<1>4. o \in SUBSET Tasks
  BY <1>1, <1>3, WaitsMembers
<1>5. JobTypeOK'
  <2>1. rtn' \in [Clients -> Seq(SUBSET Tasks)]
    BY <1>1, <1>4 DEF JobInv, JobTypeOK
  <2> QED BY <1>1, <2>1 DEF JobInv, JobTypeOK
<1>6. ASSUME NEW e \in Clients, e # c PROVE (PeelInv(e) /\ RestInv(e))'
  BY <1>1, <1>6, Others DEF JobInv, JobTypeOK
<1>7. /\ rtn'[c] = Append(rtn[c], o) /\ edges'[c] = E /\ at'[c] = "peel"
      /\ graph'[c] = Left(graph[c], o)
  BY <1>1 DEF JobInv, JobTypeOK
<1>8. Covered(rtn'[c]) = L \union o
  BY <1>1, <1>4, <1>7, MoreLayers
<1>9. Layered(rtn'[c], E)
  <2>1. o \intersect Covered(rtn[c]) = {} /\ \A t \in o : Waits(E, t) \subseteq Covered(rtn[c])
    BY <1>3
  <2> HIDE DEF o, E
  <2> QED BY <1>1, <1>2, <1>4, <1>7, <2>1, PeelLayers
<1> HIDE DEF o, E, L
<1>10. Left(graph[c], o) = [t \in Members(E) \ (L \union o) |-> Waits(E, t) \ (L \union o)]
  BY <1>2, <1>3 DEF Left
<1>11. (PeelInv(c) /\ RestInv(c))'
  BY <1>2, <1>3, <1>7, <1>8, <1>9, <1>10 DEF PeelInv, RestInv
<1> QED BY <1>5, <1>6, <1>11 DEF JobInv

\* The end of validate() forgets the graph.
LEMMA AnswerKeeps ==
  ASSUME JobInv, NEW c \in Clients, Answer(c)
  PROVE  JobInv'
<1>1. JobTypeOK'
  <2>1. <<>> \in Seq(SUBSET Tasks)
    OBVIOUS
  <2>2. rtn' \in [Clients -> Seq(SUBSET Tasks)] /\ deps' \subseteq Dep
    BY <2>1 DEF JobInv, JobTypeOK, Answer, RolledBack
  <2>3. /\ at' \in [Clients -> {"idle", "open", "peel"}]
        /\ added' \in [Clients -> SUBSET Dep] /\ edges' \in [Clients -> SUBSET Dep]
    BY DEF JobInv, JobTypeOK, Answer
  <2>4. graph' = [e \in Clients |-> graph'[e]]
    BY DEF JobInv, JobTypeOK, Answer
  <2> QED BY <2>2, <2>3, <2>4 DEF JobTypeOK
<1>2. ASSUME NEW e \in Clients PROVE (PeelInv(e) /\ RestInv(e))'
  <2>1. CASE e = c
    BY <2>1 DEF JobInv, JobTypeOK, Answer, PeelInv, RestInv
  <2>2. CASE e # c
    BY <2>2, Others DEF JobInv, JobTypeOK, Answer
  <2> QED BY <2>1, <2>2
<1> QED BY <1>1, <1>2 DEF JobInv

\* Every step keeps the invariant.
LEMMA JobInvNext == JobInv /\ [JobNext]_jobVars => JobInv'
<1> SUFFICES ASSUME JobInv, [JobNext]_jobVars PROVE JobInv'
  OBVIOUS
<1>1. ASSUME NEW c \in Clients, NEW d \in Dep, AddDeps(c, d) PROVE JobInv'
  BY <1>1, AddKeeps
<1>2. ASSUME NEW c \in Clients, NEW scope \in SUBSET Jobs, Validate(c, scope) PROVE JobInv'
  BY <1>2, ValidateKeeps
<1>3. ASSUME NEW c \in Clients, Peel(c) PROVE JobInv'
  BY <1>3, PeelKeeps
<1>4. ASSUME NEW c \in Clients, Answer(c) PROVE JobInv'
  BY <1>4, AnswerKeeps
<1>5. CASE UNCHANGED jobVars
  BY <1>5, ZenonT(60) DEF jobVars, walkVars, JobInv, JobTypeOK, PeelInv, RestInv
<1>6. \A j \in Jobs : {j} \in SUBSET Jobs
  OBVIOUS
<1> QED BY <1>1, <1>2, <1>3, <1>4, <1>5, <1>6 DEF JobNext

\* What is true of the graph at every round of every validate().
THEOREM Peeled == JobSpec => []JobInv
BY JobInvInit, JobInvNext, PTL DEF JobSpec

-----------------------------------------------------------------------------
(* The answer. *)

\* When nothing is left the layers are a plan; when everything left waits for
\* something, it waits for something that is left, and there is no plan.
LEMMA AnswerExact ==
  ASSUME JobInv, NEW c \in Clients, Answer(c)
  PROVE  IF DOMAIN graph[c] = {} THEN IsPlan(rtn[c], edges[c]) ELSE ~Acyclic(edges[c])
<1> DEFINE S == DOMAIN graph[c]
           E == edges[c]
           L == Covered(rtn[c])
<1>1. /\ L \subseteq Members(E)
      /\ graph[c] = [t \in Members(E) \ L |-> Waits(E, t) \ L]
      /\ Layered(rtn[c], E)
      /\ Ordered(graph[c]) = {}
      /\ E \in SUBSET Dep
  BY DEF JobInv, JobTypeOK, PeelInv, Answer
<1>2. CASE S = {}
  BY <1>1, <1>2 DEF IsPlan
<1>3. CASE S # {}
  <2>1. S \in (SUBSET Members(E)) \ {{}}
    BY <1>1, <1>3
  <2>2. ASSUME NEW t \in S PROVE Waits(E, t) \intersect S # {}
    <3>1. graph[c][t] # {} /\ graph[c][t] = Waits(E, t) \ L
      BY <1>1, <2>2 DEF Ordered
    <3> QED BY <1>1, <3>1, WaitsMembers
  <2> QED BY <1>3, <2>1, <2>2 DEF Acyclic
<1> QED BY <1>2, <1>3

\* Every answer of validate() is right: with it, the tasks can be executed in the order
\* it gives, and "None" is said of rows with a cycle only.
THEOREM Answered == JobSpec => ValidateExact
<1> DEFINE Right == \A c \in Clients : Answer(c) =>
       IF DOMAIN graph[c] = {} THEN IsPlan(rtn[c], edges[c]) ELSE ~Acyclic(edges[c])
<1>1. JobInv => Right
  BY AnswerExact
<1> QED BY <1>1, Peeled, PTL DEF ValidateExact

-----------------------------------------------------------------------------
(* What is committed. *)

\* Of the tasks in layers: they wait for one another only, and in every set of them
\* there is one that waits for no other one of the set.
Sorted(L, rows) ==
  /\ \A t \in L : Waits(rows, t) \subseteq L
  /\ \A S \in (SUBSET L) \ {{}} : \E t \in S : Waits(rows, t) \intersect S = {}

\* With transactions that do not overlap, what a request validates is what it commits.
OneOpen == \A c, d \in Clients : c # d => at[c] = "idle" \/ at[d] = "idle"
OwnRows(c) ==
  /\ at[c] = "idle" => added[c] = {}
  /\ at[c] = "peel" =>
       /\ Sorted(Covered(rtn[c]), edges[c])
       /\ \E scope \in SUBSET Jobs : edges[c] = Selected(c, scope) /\ {d.job : d \in added[c]} \subseteq scope

CommitInv == JobInv /\ OneOpen /\ JobsOrdered /\ \A c \in Clients : OwnRows(c)

\* A layer keeps them sorted: its tasks wait for tasks of earlier layers.
LEMMA SortedMore ==
  ASSUME NEW rows \in SUBSET Dep, NEW L, NEW o, Sorted(L, rows),
         o \intersect L = {}, \A t \in o : Waits(rows, t) \subseteq L
  PROVE  Sorted(L \union o, rows)
<1>1. \A t \in L \union o : Waits(rows, t) \subseteq L \union o
  BY DEF Sorted
<1>2. ASSUME NEW S \in (SUBSET (L \union o)) \ {{}}
      PROVE  \E t \in S : Waits(rows, t) \intersect S = {}
  <2>1. CASE S \intersect L = {}
    <3>1. PICK t \in S : t \in o
      BY <1>2, <2>1
    <3> QED BY <2>1, <3>1
  <2>2. CASE S \intersect L # {}
    <3>1. PICK t \in S \intersect L : Waits(rows, t) \intersect (S \intersect L) = {}
      BY <2>2 DEF Sorted
    <3> QED BY <3>1 DEF Sorted
  <2> QED BY <2>1, <2>2
<1> QED BY <1>1, <1>2 DEF Sorted

\* A part of rows without a cycle has none.
LEMMA AcyclicPart ==
  ASSUME NEW rows \in SUBSET Dep, NEW part \in SUBSET rows, Acyclic(rows)
  PROVE  Acyclic(part)
<1>1. Members(part) \subseteq Members(rows) /\ \A t : Waits(part, t) \subseteq Waits(rows, t)
  BY DEF Members, Waits
<1> SUFFICES ASSUME NEW S \in (SUBSET Members(part)) \ {{}}
             PROVE  \E t \in S : Waits(part, t) \intersect S = {}
  BY DEF Acyclic
<1>2. PICK t \in S : Waits(rows, t) \intersect S = {}
  BY <1>1 DEF Acyclic
<1> QED BY <1>1, <1>2

\* There is no row at first.
LEMMA CommitInit == JobInit => CommitInv
<1> SUFFICES ASSUME JobInit PROVE CommitInv
  OBVIOUS
<1>1. OneOpen /\ \A c \in Clients : OwnRows(c)
  BY DEF JobInit, OneOpen, OwnRows
<1>2. JobsOrdered
  BY DEF JobInit, JobsOrdered, Acyclic, Members
<1> QED BY <1>1, <1>2, JobInvInit DEF CommitInv

\* Requests that stay idle keep their part of the invariant.
LEMMA OtherRows ==
  ASSUME CommitInv, NEW c \in Clients, NEW d \in Clients, d # c, at[d] = "idle",
         at'[d] = at[d], added'[d] = added[d]
  PROVE  OwnRows(d)'
BY DEF CommitInv, OwnRows

\* A request that may step is the only one with an open transaction.
LEMMA StepAlone ==
  ASSUME Serializable, CommitInv, NEW c \in Clients, Alone(c) \/ at[c] # "idle"
  PROVE  \A d \in Clients \ {c} : at[d] = "idle"
BY DEF CommitInv, OneOpen, Alone

\* Adding a row to the transaction changes nothing that is committed.
LEMMA AddCommits ==
  ASSUME Serializable, CommitInv, NEW c \in Clients, NEW d \in Dep, AddDeps(c, d)
  PROVE  CommitInv'
<1>1. \A e \in Clients \ {c} : at[e] = "idle"
  BY StepAlone DEF AddDeps
<1>2. /\ deps' = deps /\ at'[c] = "open"
      /\ \A e \in Clients \ {c} : at'[e] = at[e] /\ added'[e] = added[e]
  BY DEF CommitInv, JobInv, JobTypeOK, AddDeps
<1>3. OneOpen'
  BY <1>1, <1>2 DEF OneOpen
<1>4. JobsOrdered'
  BY <1>2 DEF CommitInv, JobsOrdered
<1>5. ASSUME NEW e \in Clients PROVE OwnRows(e)'
  <2>1. CASE e = c
    BY <1>2, <2>1 DEF OwnRows
  <2>2. CASE e # c
    BY <1>1, <1>2, <2>2, OtherRows
  <2> QED BY <2>1, <2>2
<1> QED BY <1>3, <1>4, <1>5, AddKeeps DEF CommitInv

\* validate() selects from what it may commit.
LEMMA ValidateCommits ==
  ASSUME Serializable, CommitInv, NEW c \in Clients, NEW scope \in SUBSET Jobs, Validate(c, scope)
  PROVE  CommitInv'
<1>1. \A e \in Clients \ {c} : at[e] = "idle"
  BY StepAlone DEF Validate
<1>2. /\ deps' = deps
      /\ \A e \in Clients \ {c} : at'[e] = at[e] /\ added'[e] = added[e]
  BY DEF CommitInv, JobInv, JobTypeOK, Validate
<1>3. OneOpen'
  BY <1>1, <1>2 DEF OneOpen
<1>4. JobsOrdered'
  BY <1>2 DEF CommitInv, JobsOrdered
<1>5. ASSUME Selected(c, scope) = {} PROVE OwnRows(c)'
  BY <1>5 DEF CommitInv, JobInv, JobTypeOK, Validate, OwnRows
<1>6. ASSUME Selected(c, scope) # {} PROVE OwnRows(c)'
  <2>1. /\ at'[c] = "peel" /\ edges'[c] = Selected(c, scope) /\ rtn'[c] = <<>>
        /\ added' = added /\ {d.job : d \in added[c]} \subseteq scope
    BY <1>6 DEF CommitInv, JobInv, JobTypeOK, Validate, RestInv
  <2>2. Selected(c, scope)' = Selected(c, scope)
    BY <1>2, <2>1 DEF Selected
  <2>3. Sorted(Covered(rtn'[c]), edges'[c])
    BY <2>1, NoLayer DEF Sorted
  <2> QED BY <2>1, <2>2, <2>3 DEF OwnRows
<1>7. ASSUME NEW e \in Clients PROVE OwnRows(e)'
  <2>1. CASE e = c
    BY <1>5, <1>6, <2>1
  <2>2. CASE e # c
    BY <1>1, <1>2, <2>2, OtherRows
  <2> QED BY <2>1, <2>2
<1> QED BY <1>3, <1>4, <1>7, ValidateKeeps DEF CommitInv

\* The next layer is sorted.
LEMMA PeelCommits ==
  ASSUME Serializable, CommitInv, NEW c \in Clients, Peel(c)
  PROVE  CommitInv'
<1> DEFINE o == Ordered(graph[c])
           E == edges[c]
           L == Covered(rtn[c])
<1>1. \A e \in Clients \ {c} : at[e] = "idle"
  BY StepAlone DEF Peel
<1>2. at[c] = "peel" /\ UNCHANGED <<deps, added, at, edges>> /\ rtn'[c] = Append(rtn[c], o)
  BY DEF CommitInv, JobInv, JobTypeOK, Peel
<1>3. OneOpen' /\ JobsOrdered'
  BY <1>2 DEF CommitInv, OneOpen, JobsOrdered
<1>4. /\ graph[c] = [t \in Members(E) \ L |-> Waits(E, t) \ L]
      /\ E \in SUBSET Dep /\ rtn[c] \in Seq(SUBSET Tasks)
  BY <1>2 DEF CommitInv, JobInv, JobTypeOK, PeelInv
<1>5. /\ o \subseteq Members(E) \ L
      /\ \A t \in o : Waits(E, t) \subseteq L
  BY <1>4 DEF Ordered
<1>6. o \in SUBSET Tasks
  BY <1>4, <1>5, WaitsMembers
<1>7. Sorted(Covered(rtn'[c]), edges'[c])
  <2>1. Sorted(L, E)
    BY <1>2 DEF CommitInv, OwnRows
  <2>2. o \intersect L = {}
    BY <1>5
  <2>3. edges'[c] = E
    BY <1>2
  <2> HIDE DEF o, E
  <2>4. Covered(Append(rtn[c], o)) = L \union o
    BY <1>4, <1>6, MoreLayers
  <2> HIDE DEF L
  <2>5. Sorted(L \union o, E)
    BY <1>4, <1>5, <2>1, <2>2, SortedMore
  <2> QED BY <1>2, <2>3, <2>4, <2>5
<1>8. OwnRows(c)'
  BY <1>2, <1>7 DEF CommitInv, OwnRows, Selected
<1>9. ASSUME NEW e \in Clients PROVE OwnRows(e)'
  <2>1. CASE e = c
    BY <1>8, <2>1
  <2>2. CASE e # c
    BY <1>1, <1>2, <2>2, OtherRows
  <2> QED BY <2>1, <2>2
<1> QED BY <1>3, <1>9, PeelKeeps DEF CommitInv

\* What is committed is sorted; what is not rolls back.
LEMMA AnswerCommits ==
  ASSUME Serializable, CommitInv, NEW c \in Clients, Answer(c)
  PROVE  CommitInv'
<1>1. \A e \in Clients \ {c} : at[e] = "idle"
  BY StepAlone DEF Answer
<1>2. /\ at[c] = "peel" /\ at'[c] = "idle" /\ added'[c] = {}
      /\ \A e \in Clients \ {c} : at'[e] = at[e] /\ added'[e] = added[e]
      /\ deps' = IF DOMAIN graph[c] = {} THEN deps \union added[c] ELSE deps
  BY DEF CommitInv, JobInv, JobTypeOK, Answer, RolledBack
<1>3. OneOpen'
  BY <1>1, <1>2 DEF OneOpen
<1>4. ASSUME NEW e \in Clients PROVE OwnRows(e)'
  <2>1. CASE e = c
    BY <1>2, <2>1 DEF OwnRows
  <2>2. CASE e # c
    BY <1>1, <1>2, <2>2, OtherRows
  <2> QED BY <2>1, <2>2
<1>5. CASE DOMAIN graph[c] # {}
  <2>1. JobsOrdered'
    BY <1>2, <1>5 DEF CommitInv, JobsOrdered
  <2> QED BY <1>3, <1>4, <2>1, AnswerKeeps DEF CommitInv
<1>6. CASE DOMAIN graph[c] = {}
  <2>1. /\ Sorted(Covered(rtn[c]), edges[c]) /\ edges[c] \in SUBSET Dep
        /\ deps \union added[c] \subseteq Dep
    BY <1>2 DEF CommitInv, JobInv, JobTypeOK, OwnRows
  <2>2. Covered(rtn[c]) = Members(edges[c])
    BY <1>2, <1>6 DEF CommitInv, JobInv, PeelInv
  <2>3. Acyclic(edges[c])
    BY <2>1, <2>2 DEF Acyclic, Sorted
  <2>4. PICK scope \in SUBSET Jobs :
          edges[c] = Selected(c, scope) /\ {d.job : d \in added[c]} \subseteq scope
    BY <1>2 DEF CommitInv, OwnRows
  <2>5. ASSUME NEW j \in Jobs PROVE Acyclic({d \in deps \union added[c] : d.job = j})
    <3>1. CASE j \in scope
      <4>1. {d \in deps \union added[c] : d.job = j} \in SUBSET edges[c]
        BY <2>4, <3>1 DEF Selected
      <4> QED BY <2>1, <2>3, <4>1, AcyclicPart
    <3>2. CASE j \notin scope
      <4>1. {d \in deps \union added[c] : d.job = j} = {d \in deps : d.job = j}
        BY <2>4, <3>2
      <4> QED BY <4>1 DEF CommitInv, JobsOrdered
    <3> QED BY <3>1, <3>2
  <2>6. JobsOrdered'
    BY <1>2, <1>6, <2>5 DEF JobsOrdered
  <2> QED BY <1>3, <1>4, <2>6, AnswerKeeps DEF CommitInv
<1> QED BY <1>5, <1>6

\* Every step of serializable transactions keeps the invariant.
LEMMA CommitNext == Serializable /\ CommitInv /\ [JobNext]_jobVars => CommitInv'
<1> SUFFICES ASSUME Serializable, CommitInv, [JobNext]_jobVars PROVE CommitInv'
  OBVIOUS
<1>1. ASSUME NEW c \in Clients, NEW d \in Dep, AddDeps(c, d) PROVE CommitInv'
  BY <1>1, AddCommits
<1>2. ASSUME NEW c \in Clients, NEW scope \in SUBSET Jobs, Validate(c, scope) PROVE CommitInv'
  BY <1>2, ValidateCommits
<1>3. ASSUME NEW c \in Clients, Peel(c) PROVE CommitInv'
  BY <1>3, PeelCommits
<1>4. ASSUME NEW c \in Clients, Answer(c) PROVE CommitInv'
  BY <1>4, AnswerCommits
<1>5. CASE UNCHANGED jobVars
  <2>1. JobInv'
    BY <1>5, JobInvNext DEF CommitInv
  <2> QED BY <1>5, <2>1 DEF jobVars, walkVars, CommitInv, OneOpen, OwnRows, JobsOrdered, Selected
<1>6. \A j \in Jobs : {j} \in SUBSET Jobs
  OBVIOUS
<1> QED BY <1>1, <1>2, <1>3, <1>4, <1>5, <1>6 DEF JobNext

\* When transactions are serializable, no sequence of add_deps() and validate() of any
\* number of requests commits tasks of one job that wait for each other.
THEOREM JobsOrderedAlways == Serializable => (JobSpec => []JobsOrdered)
<1> SUFFICES ASSUME Serializable PROVE JobSpec => []JobsOrdered
  OBVIOUS
<1>1. CommitInv /\ [JobNext]_jobVars => CommitInv'
  BY CommitNext
<1>2. CommitInv => JobsOrdered
  BY DEF CommitInv
<1> QED BY CommitInit, <1>1, <1>2, PTL DEF JobSpec
=============================================================================
