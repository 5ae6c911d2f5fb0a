----------------------------- MODULE MCSessions -----------------------------
(* Instances of SessionFile and SessionDb for TLC: the requests of one client   *)
(* all find their session in files, or all in the database.                     *)
EXTENDS SessionFile, SessionDb

VARIABLE storage   \* response.session_storage_type

Init == storage \in {"file", "db"} /\ FileInit /\ TableInit /\ (storage = "db" => jar = None)
Next == \/ storage = "file" /\ FileNext /\ UNCHANGED <<storage, rowVars>>
        \/ storage = "db" /\ DbNext
             /\ UNCHANGED <<storage, diskVars, fileVars, again, dropped, disturbed>>
Spec == Init /\ [][Next]_<<vars, rowVars, storage>>
          /\ \A r \in Requests : WF_vars(storage = "file" /\ Serve(r))
=============================================================================
