------------------------------ MODULE VersionLog ------------------------------
(***************************************************************************)
(* The version history of a page: the log on disk (peek-document           *)
(* history/chain.rs, delta.rs, file.rs), the handle that records into it   *)
(* (peek-ui canvas/history/store.rs) and the restore of the timeline       *)
(* (canvas/history/mod.rs).                                                *)
(*                                                                         *)
(* The log has several writers: the other Peek application, and the        *)
(* handles of canvases opened one after the other, whose load goes on in   *)
(* the background.  They are taken to run the same code, which this        *)
(* program ported from the other.  The log is that of one page.            *)
(*                                                                         *)
(* A snapshot is the sequence of the page's nodes, each an id and a body:  *)
(* its order is the one nodes are drawn in, and is compared with the rest. *)
(***************************************************************************)
EXTENDS Naturals, SequencesExt

CONSTANTS Writers, Ids, Bodies,
          FullEvery,    \* FULL_EVERY
          MaxEntries,   \* MAX_ENTRIES_PER_PAGE
          MaxVersions   \* bound on the checkpoints ever recorded

ASSUME VersionLogAssumption ==
    /\ FullEvery \in Nat \ {0} /\ MaxEntries \in Nat \ {0}
    /\ MaxVersions \in Nat

VARIABLES log,       \* the lines of the file that can be parsed
          ending,    \* what a crash has left after, or missing from, the last
          recorded,  \* how many checkpoints have been given an id
          saved,     \* the page in the document file
          page,      \* of each writer: the page of its document
          entries,   \* PageChain::entries; until adopted, what the load has parsed
          tail,      \* PageChain::tail
          phase,     \* how far the load has got
          owed,      \* VersionHistory::owed
          timer      \* a debounce or max_wait task is waiting

vars == <<log, ending, recorded, saved, page, entries, tail, phase, owed, timer>>

disk   == <<log, ending, recorded>>
chain  == <<entries, tail>>

Nodes  == [id : Ids, body : Bodies]
Endings == {"newline",  \* nothing
            "line",     \* its newline is missing
            "torn"}     \* a part of a line follows, which has no newline either
Phases == {"closed", "reading", "rewriting", "adopting", "open"}

IdsOf(nodes) == {n.id : n \in ToSet(nodes)}
Pages == {s \in BoundedSeq(Nodes, Cardinality(Ids)) :
             Cardinality(IdsOf(s)) = Len(s)}

Deltas  == [puts : Pages, del : SUBSET Ids]
NoDelta == [puts |-> <<>>, del |-> {}]

\* A line of the log.  shows is the page as it was recorded: a full entry
\* stores it, of a delta entry only the delta is ever read.
Entries == [id : 1..MaxVersions, parent : 0..MaxVersions, full : BOOLEAN,
            delta : Deltas, shows : Pages]

Chained(s) == /\ \A i \in DOMAIN s : s[i] \in Entries
              /\ Len(s) <= MaxVersions

TypeOK ==
    /\ Chained(log)
    /\ ending \in Endings
    /\ recorded \in 0..MaxVersions
    /\ saved \in Pages
    /\ page \in [Writers -> Pages]
    /\ DOMAIN entries = Writers /\ \A w \in Writers : Chained(entries[w])
    /\ tail \in [Writers -> Pages]
    /\ phase \in [Writers -> Phases]
    /\ owed \in [Writers -> BOOLEAN] /\ timer \in [Writers -> BOOLEAN]

----------------------------------------------------------------------------
(* Deltas.  *)

\* The nodes that are among some, in their order.
Those(nodes, some) ==
    LET those[i \in 0..Len(nodes)] ==
            IF i = 0 THEN <<>>
            ELSE IF nodes[i] \in some THEN Append(those[i - 1], nodes[i])
            ELSE those[i - 1]
    IN  those[Len(nodes)]

\* diff: what is new or has changed, in its order, and the ids that are gone.
Diff(previous, next) ==
    [puts |-> Those(next, ToSet(next) \ ToSet(previous)),
     del  |-> IdsOf(previous) \ IdsOf(next)]

\* apply: deletes first, then each put takes the place of the node of its id,
\* or the end.
Apply(nodes, delta) ==
    LET kept == Those(nodes, {n \in ToSet(nodes) : n.id \notin delta.del})
        Put(n) == {p \in ToSet(delta.puts) : p.id = n.id}
    IN  [i \in DOMAIN kept |-> IF Put(kept[i]) = {} THEN kept[i]
                               ELSE CHOOSE p \in Put(kept[i]) : TRUE]
        \o Those(delta.puts, {p \in ToSet(delta.puts) : p.id \notin IdsOf(kept)})

----------------------------------------------------------------------------
(* ConnectionHistory, of one page.  *)

Linked(es, e) == es # <<>> /\ Last(es).id = e.parent

Adding(history, e, shown) == [entries |-> Append(history.entries, e), tail |-> shown]

\* A slip: a delta is applied to whatever version came last.
AdoptUnlinked(history, e) ==
    IF e.full THEN Adding(history, e, e.shows)
    ELSE IF history.entries # <<>> THEN Adding(history, e, Apply(history.tail, e.delta))
    ELSE history

\* adopt: a delta is trusted only when its parent is the chain's last entry.
Adopt(history, e) ==
    IF e.full THEN Adding(history, e, e.shows)
    ELSE IF Linked(history.entries, e) THEN Adding(history, e, Apply(history.tail, e.delta))
    ELSE history

NoHistory == [entries |-> <<>>, tail |-> <<>>]

\* A slip: the cut ignores where the full snapshots are.
CompactAnywhere(es) ==
    IF Len(es) <= MaxEntries THEN es
    ELSE SubSeq(es, Len(es) - MaxEntries + 1, Len(es))

\* compact: an over-long chain is cut at the first full snapshot that leaves no
\* more than MaxEntries.
Compact(es) ==
    LET Starts == {i \in DOMAIN es : i > Len(es) - MaxEntries /\ es[i].full}
    IN  IF Len(es) <= MaxEntries \/ Starts = {} THEN es
        ELSE SubSeq(es, CHOOSE i \in Starts : \A j \in Starts : i <= j, Len(es))

\* parse, up to the compaction.
Verified(lines) ==
    LET read[i \in 0..Len(lines)] ==
            IF i = 0 THEN NoHistory ELSE Adopt(read[i - 1], lines[i])
    IN  read[Len(lines)]

\* How many entries follow the last full one: PageChain::since_full.
SinceFull(es) == Len(es) - SelectLastInSeq(es, LAMBDA e : e.full)

\* reconstruct: the nearest full snapshot at or before i, then the deltas after it.
Base(es, i) == CHOOSE b \in 1..i : es[b].full /\ \A k \in b + 1..i : ~es[k].full
Reconstruct(es, i) ==
    LET base == Base(es, i)
        shown[k \in 0..i - base] ==
            IF k = 0 THEN es[base].shows ELSE Apply(shown[k - 1], es[base + k].delta)
    IN  shown[i - base]

----------------------------------------------------------------------------
(* Recording.  *)

\* What a writer's next capture starts from, and what one results in.
History(w) == [entries |-> entries[w], tail |-> tail[w],
               lines |-> log, ending |-> ending, ids |-> recorded]

\* HistoryFile::append: what follows a line without a newline becomes a part of
\* it, and neither can be parsed.
Appended(history, e) ==
    CASE history.ending = "newline" -> Append(history.lines, e)
      [] history.ending = "line"    -> Front(history.lines)
      [] history.ending = "torn"    -> history.lines

Becomes(w, history) ==
    /\ entries' = [entries EXCEPT ![w] = history.entries]
    /\ tail' = [tail EXCEPT ![w] = history.tail]
    /\ log' = history.lines
    /\ ending' = history.ending
    /\ recorded' = history.ids

\* The entry made of nodes; a delta that outweighs the snapshot is stored full,
\* which any delta may turn out to.
NewEntry(history, nodes, full) ==
    [id |-> history.ids + 1,
     parent |-> IF history.entries = <<>> THEN 0 ELSE Last(history.entries).id,
     full |-> full,
     delta |-> IF full THEN NoDelta ELSE Diff(history.tail, nodes),
     shows |-> nodes]

\* capture and write: a page that matches the chain's tail records nothing.
Captures(history, nodes) ==
    LET es == history.entries
        MustBeFull == es = <<>> \/ SinceFull(es) + 1 >= FullEvery
        Kinds == IF MustBeFull THEN {TRUE} ELSE BOOLEAN
    IN  IF es # <<>> /\ history.tail = nodes THEN {history}
        ELSE {[entries |-> Append(es, e), tail |-> nodes,
               lines |-> Appended(history, e), ending |-> "newline", ids |-> e.id] :
                 e \in {NewEntry(history, nodes, full) :
                           full \in {k \in Kinds : history.ids < MaxVersions}}}

\* VersionHistory::capture, once the log has been loaded.
Capture(w) == \E history \in Captures(History(w), page[w]) : Becomes(w, history)

\* A slip: a flush before the log is there is forgotten.
FlushForgetting(w) ==
    /\ timer' = [timer EXCEPT ![w] = FALSE]
    /\ UNCHANGED owed
    /\ \/ phase[w] = "open" /\ Capture(w)
       \/ phase[w] # "open" /\ UNCHANGED <<disk, chain>>

\* VersionHistory::flush.
Flush(w) ==
    /\ timer' = [timer EXCEPT ![w] = FALSE]
    /\ \/ /\ phase[w] = "open"
          /\ Capture(w)
          /\ UNCHANGED owed
       \/ /\ phase[w] # "open"
          /\ owed' = [owed EXCEPT ![w] = TRUE]
          /\ UNCHANGED <<disk, chain>>

\* 30 seconds after the last edit, or three minutes into a streak of them.
Fire(w) ==
    /\ timer[w]
    /\ Flush(w)
    /\ UNCHANGED <<saved, page, phase>>

\* on_document_changed when the page has been left: there is no debounce.
LeavePage(w) ==
    /\ phase[w] # "closed"
    /\ Flush(w)
    /\ UNCHANGED <<saved, page, phase>>

\* The timeline opens on the present, which is captured as it is.
OpenTimeline(w) ==
    /\ phase[w] = "open"
    /\ Capture(w)
    /\ UNCHANGED <<saved, page, phase, owed, timer>>

----------------------------------------------------------------------------
(* The document, as far as its versions are concerned.  *)

\* The ids that were never used.
Fresh == Ids \ ((UNION {IdsOf(e.shows) : e \in ToSet(log)}) \cup IdsOf(saved)
                \cup (UNION {IdsOf(page[w]) : w \in Writers}))

\* The nodes that undo can bring back.
Lost(w) == {n \in (UNION {ToSet(e.shows) : e \in ToSet(entries[w])}) \cup ToSet(saved) :
               n.id \notin IdsOf(page[w])}

\* The page changes, and the observer starts the debounce.
Change(w, nodes) ==
    /\ page' = [page EXCEPT ![w] = nodes]
    /\ timer' = [timer EXCEPT ![w] = @ \/ nodes # page[w]]

\* Nodes are added at the end, removed or changed in place, and undo of a removal
\* puts a node back where it was, which may be anywhere.
Edit(w) ==
    /\ phase[w] # "closed"
    /\ \/ \E i \in Fresh, b \in Bodies : Change(w, Append(page[w], [id |-> i, body |-> b]))
       \/ \E k \in DOMAIN page[w] : Change(w, RemoveAt(page[w], k))
       \/ \E k \in DOMAIN page[w] : \E b \in Bodies \ {page[w][k].body} :
             Change(w, [page[w] EXCEPT ![k].body = b])
       \/ \E k \in 1..Len(page[w]) + 1, n \in Lost(w) : Change(w, InsertAt(page[w], k, n))
    /\ UNCHANGED <<disk, saved, chain, phase, owed>>

\* A slip: the edits that are pending are not captured first.
RestoreOver(w, i) ==
    /\ phase[w] = "open" /\ i \in DOMAIN entries[w]
    /\ LET nodes == Reconstruct(entries[w], i)
       IN  /\ \E restored \in Captures(History(w), nodes) : Becomes(w, restored)
           /\ Change(w, nodes)
    /\ UNCHANGED <<saved, phase, owed>>

\* restore_version: what is pending becomes a checkpoint, the page is put back
\* and recorded again, under a label.
Restore(w, i) ==
    /\ phase[w] = "open" /\ i \in DOMAIN entries[w]
    /\ LET nodes == Reconstruct(entries[w], i)
       IN  /\ \E kept \in Captures(History(w), page[w]) :
                 \E restored \in Captures(kept, nodes) : Becomes(w, restored)
           /\ Change(w, nodes)
    /\ UNCHANGED <<saved, phase, owed>>

----------------------------------------------------------------------------
(* Opening and closing.  *)

\* VersionHistory::new, on the document of the file.
Open(w) ==
    /\ phase[w] = "closed"
    /\ phase' = [phase EXCEPT ![w] = "reading"]
    /\ page' = [page EXCEPT ![w] = saved]
    /\ UNCHANGED <<disk, saved, chain, owed, timer>>

\* load, in the background: the lines are parsed ...
Read(w) ==
    /\ phase[w] = "reading"
    /\ LET whole == Verified(log)
           kept == Compact(whole.entries)
       IN  /\ entries' = [entries EXCEPT ![w] = kept]
           /\ tail' = [tail EXCEPT ![w] = whole.tail]
           /\ phase' = [phase EXCEPT ![w] =
                           IF kept = whole.entries THEN "adopting" ELSE "rewriting"]
    /\ UNCHANGED <<disk, saved, page, owed, timer>>

\* ... and written back if any were trimmed.
Rewrite(w) ==
    /\ phase[w] = "rewriting"
    /\ log' = entries[w] /\ ending' = "newline"
    /\ phase' = [phase EXCEPT ![w] = "adopting"]
    /\ UNCHANGED <<recorded, saved, page, chain, owed, timer>>

\* adopt, back on the UI thread: a capture that is owed is made.
Arrive(w) ==
    /\ phase[w] = "adopting"
    /\ phase' = [phase EXCEPT ![w] = "open"]
    /\ owed' = [owed EXCEPT ![w] = FALSE]
    /\ \/ /\ owed[w]
          /\ Capture(w)
          /\ timer' = [timer EXCEPT ![w] = FALSE]
       \/ /\ ~owed[w]
          /\ UNCHANGED <<disk, chain, timer>>
    /\ UNCHANGED <<saved, page>>

Drop(w) ==
    /\ phase' = [phase EXCEPT ![w] = "closed"]
    /\ page' = [page EXCEPT ![w] = <<>>]
    /\ entries' = [entries EXCEPT ![w] = <<>>]
    /\ tail' = [tail EXCEPT ![w] = <<>>]
    /\ owed' = [owed EXCEPT ![w] = FALSE]
    /\ timer' = [timer EXCEPT ![w] = FALSE]

\* switch_connection and quit: the document is saved, unless somebody else has
\* written its file, and the history flushed; of one whose log has not arrived
\* nothing comes of that.
Close(w) ==
    /\ phase[w] # "closed"
    /\ saved' \in {saved, page[w]}
    /\ \/ /\ phase[w] = "open"
          /\ \E history \in Captures(History(w), page[w]) :
                /\ log' = history.lines
                /\ ending' = history.ending
                /\ recorded' = history.ids
       \/ /\ phase[w] # "open"
          /\ UNCHANGED disk
    /\ Drop(w)

Crash(w) ==
    /\ phase[w] # "closed"
    /\ Drop(w)
    /\ UNCHANGED <<disk, saved>>

----------------------------------------------------------------------------
(* What can go wrong with the file.  *)

\* Bound: something goes wrong while no line has been lost, or cut, so far.
NoneIsLost == Len(log) = recorded

\* The timeline opens, and the line of its checkpoint is lost: the append fails,
\* of which the log says a word and no more, or another program writes between
\* the line and its newline - which then loses its own line in the same way.
Unwritten(w) ==
    /\ phase[w] = "open" /\ NoneIsLost
    /\ \E history \in Captures(History(w), page[w]) :
          Becomes(w, [history EXCEPT !.lines = log, !.ending = ending])
    /\ UNCHANGED <<saved, page, phase, owed, timer>>

\* The process ends in the middle of the append, which writes the line and its
\* newline one after the other.
CrashAppending(w) ==
    /\ phase[w] = "open" /\ NoneIsLost
    /\ \E history \in Captures(History(w), page[w]) :
          /\ history.ids # recorded
          /\ recorded' = history.ids
          /\ \/ /\ log' = history.lines
                /\ ending' = IF ending = "newline" THEN "line" ELSE "torn"
             \/ /\ log' = IF ending = "line" THEN Front(log) ELSE log
                /\ ending' = "torn"
    /\ Drop(w)
    /\ UNCHANGED saved

\* The process ends in the middle of the rewrite, which empties the file first.
CrashRewriting(w) ==
    /\ phase[w] = "rewriting" /\ NoneIsLost
    /\ \E n \in 0..Len(entries[w]) :
          /\ log' = SubSeq(entries[w], 1, n)
          /\ ending' \in Endings
          /\ ending' = "line" => n > 0
          /\ ending' = "torn" => n < Len(entries[w])
    /\ Drop(w)
    /\ UNCHANGED <<recorded, saved>>

----------------------------------------------------------------------------
Init ==
    /\ log = <<>> /\ ending = "newline" /\ recorded = 0
    /\ saved = <<>>
    /\ page = [w \in Writers |-> <<>>]
    /\ entries = [w \in Writers |-> <<>>] /\ tail = [w \in Writers |-> <<>>]
    /\ phase = [w \in Writers |-> "closed"]
    /\ owed = [w \in Writers |-> FALSE] /\ timer = [w \in Writers |-> FALSE]

Stay(w) ==
    \/ Edit(w)
    \/ Fire(w) \/ LeavePage(w) \/ OpenTimeline(w)
    \/ \E i \in 1..MaxVersions : Restore(w, i)
    \/ Open(w) \/ Read(w) \/ Rewrite(w) \/ Arrive(w)

Leave(w) == Close(w) \/ Crash(w)

Next == \E w \in Writers : Stay(w) \/ Leave(w)

\* The background load ends, and so does a debounce: three minutes into a
\* streak of edits max_wait is over whatever the user does.
Progress(w) ==
    /\ WF_vars(Read(w)) /\ WF_vars(Rewrite(w)) /\ WF_vars(Arrive(w))
    /\ WF_vars(Fire(w))

Spec == Init /\ [][Next]_vars /\ \A w \in Writers : Progress(w)

\* Writers that go away only in a crash, on a document that is never saved, and
\* a file that loses lines.
CrowdNext ==
    \E w \in Writers :
        \/ Stay(w) \/ Crash(w)
        \/ Unwritten(w) \/ CrashAppending(w) \/ CrashRewriting(w)

CrowdSpec == Init /\ [][CrowdNext]_vars

\* The other writers are gone: they may take turns.
Alone(w) == \A v \in Writers \ {w} : phase[v] = "closed"

----------------------------------------------------------------------------
OpenEntries(w) == IF phase[w] = "open" THEN entries[w] ELSE <<>>

\* Every version the timeline offers has the nodes it was recorded with: the
\* deltas that lead up to it start from the snapshot they were made against,
\* however the lines of the writers mix, whichever of them are lost, and wherever
\* the log was cut or torn (adopt, compact, reconstruct).
VersionsKeepTheirNodes ==
    \A w \in Writers : \A i \in DOMAIN OpenEntries(w) :
        ToSet(Reconstruct(OpenEntries(w), i)) = ToSet(OpenEntries(w)[i].shows)

\* What the user made is a version before it goes: the page a restore replaces
\* ("on top of history, never over it", canvas/history/mod.rs) and, when the
\* canvas goes away, what the debounce still holds (flush_history).
WorkIsKept ==
    [][\A w \in Writers :
         /\ (\E i \in 1..MaxVersions : Restore(w, i)) =>
               \E e \in ToSet(entries'[w]) : ToSet(e.shows) = ToSet(page[w])
         /\ (Close(w) /\ (timer[w] \/ owed[w]) /\ recorded < MaxVersions) =>
               \E e \in ToSet(log') : ToSet(e.shows) = ToSet(page[w])]_vars

\* An edit becomes a version in the end: the capture is made when the timer
\* fires or, if the log has not arrived, when it does - unless the canvas goes
\* away (flush, adopt).
EditsAreRecorded ==
    \A w \in Writers :
        (timer[w] \/ owed[w]) ~> \/ phase[w] = "open" /\ tail[w] = page[w]
                                 \/ phase[w] = "closed"
                                 \/ recorded = MaxVersions

\* The last line of the log is a version of every later load, so no writer's
\* checkpoint is cut off from the history (append, adopt).
LastLineIsRead ==
    log # <<>> => Last(log) \in ToSet(Compact(Verified(log).entries))

\* No step takes the last line out of the log: append and compaction leave the
\* newest version of either application alone (HistoryFile).
LastLineStays == [][log # <<>> => Last(log) \in ToSet(log')]_vars
=============================================================================
