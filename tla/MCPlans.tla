------------------------------- MODULE MCPlans -------------------------------
(* Instances for TLC of what decides which work is done when: the jobs of the   *)
(* scheduler, its cron lines, and the token of the cron service.  The three do  *)
(* not interact; a behaviour is one of any of them.                             *)
EXTENDS JobGraph, CronNext, CronToken, TLC

Rng(a, b, s) == [lo |-> a, hi |-> b, step |-> s]
On(n)        == {Rng(n, n, 1)}

\* Years of three months, hours of three minutes; the second year is a leap year.
FourYears    == <<3, 1, 2, 3, 2, 2, 3, 1, 2, 3, 1, 2>>
FirstYear    == 0..53
\* ... and the last two dates.
SomeTimes    == FirstYear \union 207..224

\* Ranges that end inside, at and beyond the period, backwards, or with step 0.
MinFields    == {{}, On(0), On(1), {Rng(0, 2, 2)}, {Rng(0, 3, 2)}, {Rng(1, 3, 2), Rng(0, 0, 1)},
                 {Rng(2, 1, 1)}, {Rng(0, 7, 2)}, {Rng(4, 9, 2)}, {Rng(0, 2, 0)}}
HrFields     == {{}, On(1), {Rng(0, 2, 2)}}
DomFields    == {{}, On(2), {Rng(1, 3, 2)}, {LastDay}, {LastDay, Rng(1, 1, 1)}, On(4)}
MonFields    == {{}, On(2), {Rng(1, 3, 2)}}
DowFields    == {{}, On(0), {Rng(1, 3, 2)}}
SomeLines    == [min : MinFields, hr : HrFields, dom : DomFields, mon : MonFields, dow : DowFields]
DayLines     == [min : {{}, On(1)}, hr : {{}}, dom : DomFields, mon : MonFields, dow : DowFields]

Jobless == deps = {} /\ \A c \in Clients : at[c] = "idle"

Lineless == step = "none"
Tokenless == time = LockTime /\ \A d \in Dances : place[d] = "away" /\ mine[d] = 0

Init == JobInit /\ LineInit /\ TokenInit
Next == \/ Lineless /\ Tokenless /\ JobNext /\ UNCHANGED <<lineVars, tokenVars>>
        \/ Jobless /\ Tokenless /\ LineNext /\ UNCHANGED <<jobVars, tokenVars>>
        \/ Jobless /\ Lineless /\ TokenNext /\ UNCHANGED <<jobVars, lineVars>>
Spec == Init /\ [][Next]_<<jobVars, lineVars, tokenVars>>

Symmetry == Permutations(Tasks) \union Permutations(Jobs) \union Permutations(Clients)
=============================================================================
