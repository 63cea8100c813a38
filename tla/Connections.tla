------------------------------ MODULE Connections ------------------------------
(***************************************************************************)
(* The connections of a workspace in the settings (peek-config             *)
(* workspaces.rs), the picker that adds, renames, removes and opens them   *)
(* (peek-ui title_bar/picker/) and the window that follows it              *)
(* (workspace.rs), over the documents of DocumentFile.                     *)
(*                                                                         *)
(* A connection is known by its name, and so are its files.  Picker and    *)
(* window work on the UI thread, and what the picker asks for is done      *)
(* before the next event.                                                  *)
(***************************************************************************)
EXTENDS DocumentFile, SequencesExt

VARIABLE listed   \* the names of the entries, in their order

all == <<document, listed>>

Listed == ToSet(listed)

ConnectionsTypeOK == DocumentTypeOK /\ listed \in Seq(Names)

ConnectionsInit == DocumentInit /\ listed \in {<<>>, <<FirstName>>}

\* pick_connection: the name on the command line or, without one, the first
\* entry or "default"; FirstName stands for the first and the last.
Launches == Listed \cup {FirstName}

\* The form of a new connection, or Duplicate: add_connection.
Add(n) ==
    /\ phase = "idle" /\ n \notin Listed
    /\ listed' = Append(listed, n)
    /\ UNCHANGED document

\* The row that was pressed, or that is under the cursor at Enter.
Pick(n) == n \in Listed /\ Switch(n) /\ UNCHANGED listed

\* update_connection, which refuses the name of another entry.
Renamed(m, n) == listed' = IF n \in Listed THEN listed ELSE ReplaceAll(listed, m, n)

\* A slip: the entry is renamed, and the files stay.
RenameUnmoved(m, n) ==
    /\ phase = "idle" /\ m \in Listed /\ n # m /\ ~Exists(n)
    /\ Renamed(m, n)
    /\ IF m = home /\ n \notin Listed THEN Switch(n) ELSE UNCHANGED document

\* commit of a form with another name: the files are moved, unless there are
\* some already, then the entry is renamed, and the window follows if it was
\* that of the open connection (Renamed, is_open).
RenameEntry(m, n) ==
    /\ phase = "idle" /\ m \in Listed /\ n # m /\ ~Exists(n)
    /\ Renamed(m, n)
    /\ \/ m = home /\ n \notin Listed /\ Rename(n)
       \/ /\ m # home \/ n \in Listed
          /\ Moved(m, n)
          /\ UNCHANGED <<backup, path, backedUp, session, timer, phase, target>>

\* remove and fall_back: from the connection that is open the window goes to the
\* first that is left, or keeps the canvas under no name.  The files stay.
RemoveEntry(n) ==
    /\ phase = "idle" /\ n \in Listed
    /\ \E i \in DOMAIN listed : listed[i] = n /\ listed' = RemoveAt(listed, i)
    /\ \/ n # home /\ UNCHANGED document
       \/ n = home /\ listed' # <<>> /\ Switch(Head(listed'))
       \/ /\ n = home /\ listed' = <<>>
          /\ home' = NoName
          /\ UNCHANGED <<file, handle, doc, dirty, stale, failed, timer, phase, target>>

\* The process ends, in order or not, and is started again.
Restart == (\E n \in Launches : Quit(n) \/ Crash(n)) /\ UNCHANGED listed

----------------------------------------------------------------------------
\* A rename finds nothing unsaved in the open canvas, and no entry that has the
\* name and no files.
RenameIsFree(m, n) == (m = home => ~dirty) /\ n \notin Listed

Picker ==
    \/ \E n \in Names : Add(n) \/ Pick(n) \/ RemoveEntry(n)
    \/ \E m, n \in Names : RenameIsFree(m, n) /\ RenameEntry(m, n)

Stays == (Steps \/ Load \/ LoadFails \/ (OtherIsCalm /\ OtherSaves)) /\ UNCHANGED listed

ConnectionsNext == Stays \/ Picker \/ Restart

\* The timer's task and the rest of a handler run to their end.  Three seconds
\* without an edit are taken to come.
ConnectionsProgress ==
    /\ WF_all(Fire /\ UNCHANGED listed)
    /\ WF_all(Check /\ UNCHANGED listed)
    /\ WF_all(WriteFile /\ UNCHANGED listed) /\ WF_all(StampFile /\ UNCHANGED listed)
    /\ WF_all(Load /\ UNCHANGED listed) /\ WF_all(StampLoad /\ UNCHANGED listed)

ConnectionsSpec == ConnectionsInit /\ [][ConnectionsNext]_all /\ ConnectionsProgress

\* Renames at any time.
RenamesNext == ConnectionsNext \/ \E m, n \in Names : RenameEntry(m, n)

RenamesSpec == ConnectionsInit /\ [][RenamesNext]_all /\ ConnectionsProgress

----------------------------------------------------------------------------
OnDisk(n) == IF Exists(n) THEN disk[n].doc ELSE {}

\* No two entries share a name, and so their files: "two connections whose names
\* differ only in case share one document file" (workspaces.rs).
NamesAreOwn == IsInjective(listed)

\* "The files move before the config commit, so a failed move leaves
\* settings.json still naming a connection whose document is where it says it
\* is" (connection_form.rs, commit): a canvas that is reopened, under a new name
\* too, has all that was made on it, and no entry of the settings loses its files.
EntriesKeepCanvases ==
    [][ /\ (Load /\ target = home /\ ~stale /\ ~failed) => doc \subseteq OnDisk(home)
        /\ Len(listed') = Len(listed) =>
              \A i \in DOMAIN listed : Exists(listed[i]) => disk'[listed'[i]] # NoFile ]_all
================================================================================
