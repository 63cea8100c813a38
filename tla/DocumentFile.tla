----------------------------- MODULE DocumentFile -----------------------------
(***************************************************************************)
(* A connection's document between memory and disk: peek-document          *)
(* storage.rs (DocumentFile, rename), peek-ui autosave.rs and the loading  *)
(* and switching of workspace.rs.                                          *)
(*                                                                         *)
(* Two programs write the file: this one, through a handle that remembers  *)
(* the modification time it last saw, and the other Peek application.      *)
(* This one does its file work on the UI thread, so nothing of its own     *)
(* comes between the steps of a save or a load; the other program's writes *)
(* do, and so does a crash.                                                *)
(*                                                                         *)
(* A document is the set of edits it carries; Garble in it stands for      *)
(* contents from_json rejects.  Of the modification times only one thing   *)
(* is kept: how the time the handle has seen compares with the file's.     *)
(***************************************************************************)
CONSTANTS Names, FirstName,
          OwnEdits, OtherEdits, Garble,
          NoFile, NoName

ASSUME DocumentFileAssumption ==
    /\ FirstName \in Names /\ NoName \notin Names
    /\ Garble \notin OwnEdits \cup OtherEdits

VARIABLES disk,      \* the document of each name
          backup,    \* the .bak of each name
          doc,       \* the document in memory
          path,      \* DocumentFile::path
          seen,      \* DocumentFile::seen, against the time the file at path has
          backedUp,  \* DocumentFile::backed_up is backedUp # "no"; and what came of it
          dirty,     \* the revision is not the one last saved
          timer,     \* Autosave::pending
          stale,     \* Autosave::stale
          failed,    \* a save ended in an io error, with no timer since
          home,      \* the name the window calls the open document by
          phase,     \* how far a save or a load has got
          target     \* the name to load when the save is over, if any

document == <<disk, backup, doc, path, seen, backedUp, dirty, timer, stale,
              failed, home, phase, target>>

file    == <<disk, backup>>
handle  == <<path, seen, backedUp>>
session == <<doc, dirty, stale, failed, home>>

Edits   == OwnEdits \cup OtherEdits \cup {Garble}
Writers == {"this", "other"}
Files   == [doc : SUBSET Edits, by : Writers]
Seen    == {"nothing", "current", "older"}
BackedUp == {"no", "kept", "lost"}
Phases  == {"idle", "flush", "checked", "written", "leaving", "reading"}

ASSUME NoFileAssumption == NoFile \notin Files

DocumentTypeOK ==
    /\ disk \in [Names -> Files \cup {NoFile}]
    /\ backup \in [Names -> (SUBSET Edits) \cup {NoFile}]
    /\ doc \subseteq OwnEdits \cup OtherEdits
    /\ path \in Names /\ home \in Names \cup {NoName}
    /\ seen \in Seen
    /\ backedUp \in BackedUp /\ dirty \in BOOLEAN
    /\ timer \in BOOLEAN /\ stale \in BOOLEAN /\ failed \in BOOLEAN
    /\ phase \in Phases
    /\ target \in Names \cup {NoName}

Exists(n) == disk[n] # NoFile

\* from_json: a document that does not parse is opened as an empty one.
Parsed(contents) == IF Garble \in contents THEN {} ELSE contents

Store(n, contents, who) == disk' = [disk EXCEPT ![n] = [doc |-> contents, by |-> who]]

\* The program starts by loading the connection it was launched on.
DocumentInit ==
    /\ disk \in [Names -> {NoFile} \cup
                          {[doc |-> c, by |-> "other"] : c \in {{}, {Garble}}}]
    /\ backup = [n \in Names |-> NoFile]
    /\ doc = {} /\ dirty = FALSE /\ timer = FALSE /\ stale = FALSE /\ failed = FALSE
    /\ path = FirstName /\ home = FirstName
    /\ seen = "nothing" /\ backedUp = "no"
    /\ phase = "leaving" /\ target = FirstName

----------------------------------------------------------------------------
(* Autosave.  *)

\* A slip: the edit does not arm the timer.
EditUnarmed(e) ==
    /\ phase = "idle"
    /\ e \notin doc
    /\ doc' = doc \cup {e}
    /\ dirty' = TRUE
    /\ UNCHANGED <<file, handle, timer, stale, failed, home, phase, target>>

\* A mutation, then the observer's arm.
EditDocument(e) ==
    /\ phase = "idle"
    /\ e \notin doc
    /\ doc' = doc \cup {e}
    /\ dirty' = TRUE
    /\ timer' = (timer \/ ~stale)
    /\ failed' = (failed /\ ~timer')
    /\ UNCHANGED <<file, handle, stale, home, phase, target>>

\* Any other change of the document object, a selection say: arm looks at the
\* revision, so an edit whose save failed gets its timer back.
Notify ==
    /\ phase = "idle"
    /\ timer' = (timer \/ (dirty /\ ~stale))
    /\ failed' = (failed /\ ~timer')
    /\ UNCHANGED <<file, handle, doc, dirty, stale, home, phase, target>>

\* Three seconds after the last edit.
Fire ==
    /\ phase = "idle" /\ timer
    /\ timer' = FALSE
    /\ phase' = "flush"
    /\ UNCHANGED <<file, handle, session, target>>

Over == IF target = NoName THEN "idle" ELSE "leaving"

\* A slip: only a handle that has seen no time at all refuses.
RefusedUnseen == Exists(path) /\ seen = "nothing"

\* The file at path is not the one the handle last saw.
Refused == Exists(path) /\ seen # "current"

\* modified: the file's time is read.
Stamp == IF Exists(path) THEN "current" ELSE "nothing"

\* back_up: the first save of a handle copies what it is about to replace.
BackUp ==
    /\ backedUp' = IF backedUp = "no" THEN "kept" ELSE backedUp
    /\ backup' = IF backedUp = "no" /\ Exists(path)
                    THEN [backup EXCEPT ![path] = disk[path].doc]
                    ELSE backup
    /\ phase' = "checked"
    /\ UNCHANGED failed

\* The copy fails, before or after it has replaced the backup by a part of the
\* file.  The save ends with the io error; the flag was set before the copy, so
\* no later save tries again.
BackUpFails ==
    /\ backedUp = "no" /\ Exists(path)
    /\ backedUp' = "lost"
    /\ \/ UNCHANGED backup
       \/ \E part \in SUBSET disk[path].doc : backup' = [backup EXCEPT ![path] = part]
    /\ failed' = TRUE
    /\ phase' = Over

\* flush_document up to the backup: the modification time is compared first.
Check ==
    /\ phase = "flush"
    /\ \/ /\ stale \/ ~dirty
          /\ phase' = Over
          /\ UNCHANGED <<stale, backup, backedUp, failed>>
       \/ /\ ~stale /\ dirty /\ Refused
          /\ stale' = TRUE
          /\ phase' = Over
          /\ UNCHANGED <<backup, backedUp, failed>>
       \/ /\ ~stale /\ dirty /\ ~Refused
          /\ BackUp \/ BackUpFails
          /\ UNCHANGED stale
    /\ UNCHANGED <<disk, doc, path, seen, dirty, timer, home, target>>

\* What a write of the file at path makes of the time the handle has seen.
Outdated == IF seen = "current" THEN "older" ELSE seen

\* The rename of the temporary file over the document.
WriteFile ==
    /\ phase = "checked"
    /\ Store(path, doc, "this")
    /\ seen' = Outdated
    /\ phase' = "written"
    /\ UNCHANGED <<backup, path, backedUp, session, timer, target>>

\* The modification time is read back.
StampFile ==
    /\ phase = "written"
    /\ seen' = Stamp
    /\ dirty' = FALSE /\ failed' = FALSE
    /\ phase' = Over
    /\ UNCHANGED <<file, path, backedUp, doc, timer, stale, home, target>>

\* An io error is logged; nothing arms the timer again until the document
\* changes.
SaveFails ==
    /\ phase = "checked"
    /\ failed' = TRUE
    /\ phase' = Over
    /\ UNCHANGED <<file, handle, doc, dirty, stale, home, timer, target>>

----------------------------------------------------------------------------
(* Opening, switching, renaming, quitting.  *)

\* load_document and DocumentFile::load: the contents first.
Load ==
    /\ phase = "leaving"
    /\ path' = target /\ home' = target
    /\ backedUp' = "no"
    /\ seen' = "nothing"
    /\ doc' = IF Exists(target) THEN Parsed(disk[target].doc) ELSE {}
    /\ phase' = IF Exists(target) THEN "reading" ELSE "idle"
    /\ target' = NoName
    /\ dirty' = FALSE /\ timer' = FALSE /\ stale' = FALSE /\ failed' = FALSE
    /\ UNCHANGED file

\* A file that exists and cannot be read is an empty document too, but the
\* handle has seen nothing, so its saves are refused.
LoadFails ==
    /\ phase = "leaving" /\ Exists(target)
    /\ path' = target /\ home' = target
    /\ backedUp' = "no"
    /\ seen' = "nothing"
    /\ doc' = {}
    /\ phase' = "idle"
    /\ target' = NoName
    /\ dirty' = FALSE /\ timer' = FALSE /\ stale' = FALSE /\ failed' = FALSE
    /\ UNCHANGED file

\* Then the modification time.
StampLoad ==
    /\ phase = "reading"
    /\ seen' = Stamp
    /\ phase' = "idle"
    /\ UNCHANGED <<file, path, backedUp, session, timer, target>>

\* The document is about to be replaced by the one of n.
Leave(n) ==
    /\ phase = "idle"
    /\ phase' = "flush"
    /\ target' = n
    /\ timer' = FALSE

\* switch_connection: the outgoing document is flushed first.
Switch(n) ==
    /\ n # home
    /\ Leave(n)
    /\ UNCHANGED <<file, handle, session>>

\* Quit flushes as well; the next launch loads n.
Quit(n) ==
    /\ Leave(n)
    /\ UNCHANGED <<file, handle, session>>

\* What a move of a file makes of the time the handle has seen.
Moved(m, n) ==
    /\ disk' = [disk EXCEPT ![n] = disk[m], ![m] = NoFile]
    /\ seen' = IF n = path /\ Exists(m) THEN Outdated ELSE seen

\* DocumentStore::rename, of the open connection: the files are moved first,
\* then the workspace is told, which switches to the new name - and so flushes
\* the old handle.
Rename(n) ==
    /\ home # NoName /\ n # home /\ ~Exists(n)
    /\ Leave(n)
    /\ Moved(home, n)
    /\ home' = n
    /\ UNCHANGED <<backup, path, backedUp, doc, dirty, stale, failed>>

Crash(n) ==
    /\ phase' = "leaving"
    /\ target' = n
    /\ doc' = {} /\ dirty' = FALSE /\ timer' = FALSE /\ stale' = FALSE
    /\ failed' = FALSE
    /\ UNCHANGED <<file, handle, home>>

\* External: the other application adds to what is on disk.
OtherSave(n, e) ==
    /\ Store(n, (IF Exists(n) THEN disk[n].doc ELSE {}) \cup {e}, "other")
    /\ seen' = IF n = path THEN Outdated ELSE seen
    /\ UNCHANGED <<backup, path, backedUp, session, timer, phase, target>>

----------------------------------------------------------------------------
\* The other program keeps out of a save and a load.
OtherIsCalm == phase \notin {"checked", "written", "reading"}

\* What the program does by itself; Connections has what it is asked for.
Steps ==
    \/ \E e \in OwnEdits : EditDocument(e)
    \/ Notify \/ Fire \/ Check \/ WriteFile \/ StampFile \/ SaveFails
    \/ StampLoad

OtherSaves == \E n \in Names, e \in OtherEdits : OtherSave(n, e)

----------------------------------------------------------------------------
\* Nothing of the file at path is lost when the document takes its place.
Replaceable == disk[path].doc \subseteq doc \/ backup[path] = disk[path].doc

\* The one copy the code would have made of an unreadable file has failed.
CopyLost == backedUp = "lost" /\ Garble \in disk[path].doc

\* A save replaces only what this program has loaded or written itself, or has
\* put into the backup: what the other application wrote since is refused, not
\* overwritten, and a file that could not be read is lost only if the one
\* attempt to copy it failed (DocumentFile::save, back_up).
OtherIsNotOverwritten ==
    [][WriteFile /\ Exists(path) => Replaceable \/ CopyLost]_document

\* "One .json.bak per session, written before the first save only, so a bad
\* first write [...] is recoverable by renaming a file" (storage.rs, back_up):
\* what is not in the document is in the backup, always.  It does not hold.
FirstWriteIsBackedUp == [][WriteFile /\ Exists(path) => Replaceable]_document

\* Every edit is saved in the end, unless saving was given up, the program ended
\* first, or a save failed and the document was not touched again (Autosave::arm,
\* flush).
EditsReachDisk == dirty ~> (~dirty \/ stale \/ failed)
=============================================================================
