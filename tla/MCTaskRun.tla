------------------------------ MODULE MCTaskRun ------------------------------
(* Instances of TaskRun for TLC. *)
EXTENDS TaskRun

AllSetups == [timed : BOOLEAN, sync : {"no", "short", "long"}, chatty : BOOLEAN,
              stubborn : BOOLEAN, spawned : BOOLEAN, capacity : {1, MaxOut}]

\* Tasks whose whole output is recorded, with a pipe that holds it all or not; those
\* that print more, survive SIGTERM or are spawned have a sync_output below the timeout
\* (or neither), and a pipe that holds less.
Special(s) == s.chatty \/ s.stubborn \/ s.spawned
Recorded == {s \in AllSetups : /\ s.sync # "no" => s.timed
                               /\ Special(s) => s.capacity = 1 /\ s.timed = (s.sync = "short")
                               /\ s.chatty => s.timed
                               /\ ~(s.spawned /\ s.stubborn)}
\* A task that may print as long as it runs, with a timeout.
Chatty == {s \in AllSetups : s.chatty /\ s.timed /\ s.sync = "short" /\ ~s.stubborn /\ ~s.spawned}
=============================================================================
