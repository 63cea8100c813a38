------------------------------- MODULE Regions -------------------------------
(***************************************************************************)
(* Regions (peek-canvas regions/): named sets of nodes, grouped by hand,   *)
(* by an agent's tools, or by a local model that is asked for a grouping   *)
(* and answers later, while everything else goes on.                       *)
(*                                                                         *)
(* A region is kept under its id as its members; name, status, colour and   *)
(* the order of creation are left out, and with them rename_region and     *)
(* confirm_region.  Members may name nodes that are gone.  The transactions are those of HistoryOps, each opened   *)
(* and sealed by one handler.                                              *)
(***************************************************************************)
EXTENDS HistoryOps, SequencesExt, FiniteSetsExt

CONSTANTS Pages, Nodes,
          Strokes,     \* the nodes that are freehand drawings
          MaxPrompt,   \* MAX_PROMPT_NODES, 40 in the code
          MaxItems,    \* bound: groups in the answer of the model
          MaxRegions,  \* bound: regions made
          MaxSteps,    \* bound: entries of the histories together
          None

ASSUME RegionsAssumption == /\ Strokes \subseteq Nodes /\ IsFiniteSet(Nodes)
                            /\ MaxPrompt \in Nat \ {0}
                            /\ MaxItems \in Nat /\ MaxRegions \in Nat /\ MaxSteps \in Nat
ASSUME NoneAssumption ==
    /\ None \notin Nat
    /\ None \notin [page : Pages, nodes : SUBSET Nodes, labels : SUBSET (1..MaxRegions), replaces : BOOLEAN]
    /\ None \notin [page : Pages, nodes : SUBSET Nodes, replaces : BOOLEAN]
ASSUME NoTxAssumption ==
    NoTx \notin [page : Pages, kind : {Structure},
                 before : [nodes : SUBSET Nodes,
                           regions : UNION {[D -> SUBSET Nodes] : D \in SUBSET (1..MaxRegions)}]]

VARIABLES pages,    \* per page its nodes and its regions
          active,   \* active_page_id
          history,  \* the undo history
          minted,   \* ids of regions given out
          grouping  \* CanvasView::grouping and the Prompt it holds, or None

vars == <<pages, active, history, minted, grouping>>

Ids      == 1..MaxRegions
MinGroup == 2
Page     == pages[active]

\* ---- the regions of a page ----------------------------------------------

Grouped(rs)      == UNION {rs[r] : r \in DOMAIN rs}
Without(rs, ids) == [r \in DOMAIN rs \ ids |-> rs[r]]

\* claim: strips the nodes from every region but `keep`, then drops the
\* regions that leaves without a member.
Claim(rs, S, keep) ==
    [r \in {q \in DOMAIN rs : q = keep \/ rs[q] \ S # {}} |->
        IF r = keep THEN rs[r] ELSE rs[r] \ S]

\* insert_region
Insert(rs, r, S) ==
    LET claimed == Claim(rs, S, None)
    IN  [q \in DOMAIN claimed \cup {r} |->
            IF q = r THEN S ELSE claimed[q]]

\* Slip: the nodes are added without being claimed.
FoldUnclaimed(rs, r, S) == [rs EXCEPT ![r] = @ \cup S]

\* fold_into
FoldInto(rs, r, S) ==
    LET claimed == Claim(rs, S, r)
    IN  IF r \in DOMAIN claimed THEN [claimed EXCEPT ![r] = @ \cup S] ELSE claimed

\* prune_empty_regions
Prune(rs, live) == Without(rs, {r \in DOMAIN rs : rs[r] \cap live = {}})

\* ---- the question and the answer ----------------------------------------

Groupable(page) == page.nodes \ Strokes
Ungrouped(page) == Groupable(page) \ Grouped(page.regions)

CanExtend(page)    == \/ Cardinality(Ungrouped(page)) >= MinGroup
                      \/ Ungrouped(page) # {} /\ DOMAIN page.regions # {}
CanPartition(page) == Cardinality(Groupable(page)) >= MinGroup

\* context: the first MAX_PROMPT_NODES of them, in an order left to chance.
Numbered(S) == kSubset(IF Cardinality(S) < MaxPrompt THEN Cardinality(S) ELSE MaxPrompt, S)

\* An item of the reply: nodes by number, and `into` a label, a name or neither.
Items(nodes, labels) ==
    [nodes : SUBSET nodes, into : {{r} : r \in labels} \cup {{}}, named : BOOLEAN]

\* assignment: into a region that was shown, or a new one of two or more.
Assignments(item, members) ==
    IF members = {} THEN <<>>
    ELSE IF item.into # {} THEN << [into |-> item.into, members |-> members] >>
    ELSE IF item.named /\ Cardinality(members) >= MinGroup
         THEN << [into |-> {}, members |-> members] >>
    ELSE <<>>

\* parse: a node goes to the first group that names it.
Parse(reply) ==
    LET Taken(plan) == UNION {plan[i].members : i \in DOMAIN plan}
        read[i \in 0..Len(reply)] ==
            IF i = 0 THEN <<>>
            ELSE read[i - 1] \o Assignments(reply[i], reply[i].nodes \ Taken(read[i - 1]))
    IN  read[Len(reply)]

Plans[ask \in (SUBSET Nodes) \X (SUBSET Ids)] ==
    {Parse(reply) : reply \in BoundedSeq(Items(ask[1], ask[2]), MaxItems)} \ {<<>>}

\* fallback and cluster: sets of two or more near each other, of those on the
\* page; what is near is left to chance.
Clusterings(S) ==
    {SetToSeq({[into |-> {}, members |-> c] : c \in cs}) :
        cs \in {cs \in SUBSET {c \in SUBSET S : Cardinality(c) >= MinGroup} :
                    \A c, d \in cs : c = d \/ c \cap d = {}}}

\* Slip: whether the region is still there is not asked.
LandUnchecked(land, part) ==
    IF part.into # {}
    THEN [land EXCEPT !.regions = FoldInto(@, CHOOSE r \in part.into : TRUE, part.members)]
    ELSE [regions |-> Insert(land.regions, land.minted + 1, part.members),
          minted  |-> land.minted + 1]

\* One assignment of a plan; `minted` counts the ids given out.  A region the
\* reply named can be gone by now.
Land(land, part) ==
    IF part.into # {}
    THEN LET r == CHOOSE r \in part.into : TRUE
         IN  IF r \in DOMAIN land.regions
             THEN [land EXCEPT !.regions = FoldInto(@, r, part.members)] ELSE land
    ELSE [regions |-> Insert(land.regions, land.minted + 1, part.members),
          minted  |-> land.minted + 1]

\* apply_grouping
ApplyGrouping(rs, plan, replaces) ==
    LET done[i \in 0..Len(plan)] ==
            IF i = 0 THEN [regions |-> IF replaces THEN <<>> ELSE rs, minted |-> minted]
            ELSE Land(done[i - 1], plan[i])
    IN  done[Len(plan)]

-----------------------------------------------------------------------------
Known(page) == page.nodes \cup Grouped(page.regions)
Stack(p)    == history.past[p] \o history.future[p]
KnownNodes  == UNION {Known(c) : c \in UNION {{pages[p]} \cup ToSet(Stack(p)) : p \in Pages}}
               \cup (IF grouping = None THEN {} ELSE grouping.nodes)
Steps       == FoldSet(LAMBDA p, sum : sum + Len(Stack(p)), 0, Pages)

\* begin(Structure), the mutation, checkpoint: on the page on screen or, for a
\* tool, inside on_page.
Edit(p, page) ==
    /\ pages' = [pages EXCEPT ![p] = page]
    /\ history' = Seal(Record(history, p, pages[p], Structure, FALSE), p, page)
    /\ Steps' <= MaxSteps

Regroup(p, rs) == Edit(p, [pages[p] EXCEPT !.regions = rs])

Init == /\ \E at \in [Nodes -> Pages \cup {None}] :
              pages = [p \in Pages |-> [nodes |-> {n \in Nodes : at[n] = p}, regions |-> <<>>]]
        /\ active \in Pages
        /\ history = EmptyHistory(Pages)
        /\ minted = 0 /\ grouping = None

\* ---- by hand -------------------------------------------------------------

Mint == minted' = minted + 1 /\ minted' <= MaxRegions

Touched(S) == {r \in DOMAIN Page.regions : Page.regions[r] \cap S # {}}

\* group_plan: FoldInto
GroupFolds(S) ==
    \E r \in Touched(S) : /\ Touched(S) = {r}
                          /\ ~ S \subseteq Page.regions[r]
                          /\ Regroup(active, FoldInto(Page.regions, r, S))
                          /\ UNCHANGED minted

\* group_plan: Create
GroupCreates(S) ==
    /\ Cardinality(Touched(S)) # 1
    /\ Regroup(active, Insert(Page.regions, minted + 1, S))
    /\ Mint

GroupSelection ==
    /\ \E S \in SUBSET Page.nodes : Cardinality(S) >= 2 /\ (GroupFolds(S) \/ GroupCreates(S))
    /\ UNCHANGED <<active, grouping>>

UngroupSelection ==
    /\ \E S \in SUBSET (Page.nodes \cap Grouped(Page.regions)) :
          S # {} /\ Regroup(active, Claim(Page.regions, S, None))
    /\ UNCHANGED <<active, minted, grouping>>

\* derive: the regions the picker and the cards show.
Shown == DOMAIN Prune(Page.regions, Page.nodes)

\* Dismiss on a card, or the cross in the picker.
RemoveRegion ==
    /\ \E r \in Shown : Regroup(active, Without(Page.regions, {r}))
    /\ UNCHANGED <<active, minted, grouping>>

\* ---- by an agent's tools ---------------------------------------------------

ToolGroups ==
    /\ \E p \in Pages : \E S \in SUBSET pages[p].nodes :
          /\ Cardinality(S) >= 2
          /\ Regroup(p, Insert(pages[p].regions, minted + 1, S))
    /\ Mint
    /\ UNCHANGED <<active, grouping>>

ToolAdds ==
    /\ \E p \in Pages : \E r \in DOMAIN pages[p].regions, S \in SUBSET pages[p].nodes :
          S # {} /\ Regroup(p, FoldInto(pages[p].regions, r, S))
    /\ UNCHANGED <<active, minted, grouping>>

ToolRemoves ==
    /\ \E p \in Pages : \E r \in DOMAIN pages[p].regions :
          Regroup(p, Without(pages[p].regions, {r}))
    /\ UNCHANGED <<active, minted, grouping>>

\* ---- by the model ----------------------------------------------------------

Asked(replaces, candidates, labels) ==
    \E S \in Numbered(candidates) :
        grouping' = [page |-> active, nodes |-> S, labels |-> labels, replaces |-> replaces]

\* start_grouping, up to the question.
StartGrouping ==
    /\ grouping = None
    /\ \/ CanExtend(Page) /\ Asked(FALSE, Ungrouped(Page), DOMAIN Page.regions)
       \/ CanPartition(Page) /\ Asked(TRUE, Groupable(Page), {})
    /\ UNCHANGED <<pages, active, history, minted>>

\* The answer: a plan, or clusters where the reply had nothing usable in it.
\* Both are applied to the page on screen by now.
Answered ==
    /\ grouping # None /\ grouping' = None
    /\ \/ \E plan \in Plans[<<grouping.nodes, grouping.labels>>]
                      \cup (Clusterings(grouping.nodes \cap Page.nodes) \ {<<>>}) :
             LET landed == ApplyGrouping(Page.regions, plan, grouping.replaces)
             IN  /\ landed.minted <= MaxRegions
                 /\ Regroup(active, landed.regions) /\ minted' = landed.minted
       \/ UNCHANGED <<pages, history, minted>>
    /\ UNCHANGED active

\* ---- what else happens to the page -----------------------------------------

CreateNode ==
    /\ \E p \in Pages, n \in Nodes \ KnownNodes :
          Edit(p, [pages[p] EXCEPT !.nodes = @ \cup {n}])
    /\ UNCHANGED <<active, minted, grouping>>

\* remove
RemoveNodes ==
    /\ \E p \in Pages : \E S \in SUBSET pages[p].nodes :
          LET live == pages[p].nodes \ S
          IN  S # {} /\ Edit(p, [nodes |-> live, regions |-> Prune(pages[p].regions, live)])
    /\ UNCHANGED <<active, minted, grouping>>

Undo ==
    /\ CanStepBack(history, active, Page)
    /\ pages' = [pages EXCEPT ![active] = Undone(history, active, Page)]
    /\ history' = StepBack(history, active, Page)
    /\ UNCHANGED <<active, minted, grouping>>

Redo ==
    /\ CanStepForward(history, active)
    /\ pages' = [pages EXCEPT ![active] = Redone(history, active)]
    /\ history' = StepForward(history, active, Page)
    /\ UNCHANGED <<active, minted, grouping>>

SwitchPage ==
    /\ active' \in Pages \ {active}
    /\ UNCHANGED <<pages, history, minted, grouping>>

ByHand  == GroupSelection \/ UngroupSelection \/ RemoveRegion
ByTool  == ToolGroups \/ ToolAdds \/ ToolRemoves
ByModel == StartGrouping \/ Answered
Meanwhile == CreateNode \/ RemoveNodes \/ Undo \/ Redo \/ SwitchPage

Next == ByHand \/ ByTool \/ ByModel \/ Meanwhile
Spec == Init /\ [][Next]_vars

-----------------------------------------------------------------------------
(* Every region has a member, even if it is gone from the page, and a prompt
   numbers no more nodes than fit: insert_region, fold_into and claim leave no
   label without a member behind (regions/mod.rs). *)
TypeOK ==
    /\ \A p \in Pages :
          /\ pages[p].nodes \subseteq Nodes
          /\ DOMAIN pages[p].regions \subseteq 1..minted
          /\ \A r \in DOMAIN pages[p].regions :
                pages[p].regions[r] \in (SUBSET Nodes) \ {{}}
    /\ active \in Pages /\ minted \in 0..MaxRegions
    /\ grouping # None => Cardinality(grouping.nodes) \in 1..MaxPrompt

(* No node is in two regions of its page, and no region is left over nothing,
   whatever by hand, by tool, by a late answer or by undo put it there:
   "membership is exclusive" (regions/mod.rs). *)
ExclusiveMembership ==
    /\ TypeOK
    /\ \A p \in Pages : \A r, q \in DOMAIN pages[p].regions :
        r # q => pages[p].regions[r] \cap pages[p].regions[q] = {}

(* The label of every node of a page, with the nodes that are gone. *)
LabelOf(page) ==
    [n \in Nodes |-> LET of == {r \in DOMAIN page.regions : n \in page.regions[r]}
                     IN  IF of = {} THEN None ELSE CHOOSE r \in of : TRUE]

Homes   == [p \in Pages |-> LabelOf(pages[p])]
Reached == [p \in Pages |-> {LabelOf(c) : c \in ToSet(Stack(p))}]
Request == IF grouping = None THEN None
           ELSE [page |-> grouping.page, nodes |-> grouping.nodes, replaces |-> grouping.replaces]

Promise == INSTANCE RegionLabels WITH
    Labels <- Ids, home <- Homes, was <- Reached, asked <- Request

(* Every handler is a step of the labelling: a grouping moves the nodes it
   names and no other, a late answer strips nobody of a label given meanwhile,
   and what changed can be undone. *)
ImplementsLabels == Promise!Spec
=============================================================================
