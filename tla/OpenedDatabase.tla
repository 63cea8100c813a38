----------------------------- MODULE OpenedDatabase -----------------------------
(***************************************************************************)
(* Which connection the database is asked for while the window goes from   *)
(* document to document: connect_to of peek-ui workspace.rs, which looks   *)
(* the name up in the settings as they were at the launch.                 *)
(***************************************************************************)
EXTENDS Connections

VARIABLES known,  \* the names in WorkspaceView::config
          db      \* the connection last asked for

both == <<all, known, db>>

OpenedInit == ConnectionsInit /\ known = Listed /\ db = NoName

connect_to(n) == db' = IF n \in known THEN n ELSE db

OpenedNext ==
    \/ (Load \/ LoadFails) /\ connect_to(target) /\ UNCHANGED <<listed, known>>
    \/ Restart /\ known' = Listed /\ db' = NoName
    \/ ((Steps /\ UNCHANGED listed) \/ Picker) /\ UNCHANGED <<known, db>>

OpenedSpec == OpenedInit /\ [][OpenedNext]_both

\* "The database follows the document.  Without this the previous connection
\* stays open and its schema keeps answering completions for a database that is
\* no longer on screen" (workspace.rs, switch_connection).
DatabaseFollows == phase = "idle" => db \in {home, NoName}
================================================================================
