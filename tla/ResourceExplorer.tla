--------------------------- MODULE ResourceExplorer ---------------------------
(***************************************************************************)
(* The Resource Explorer in the browser: its filters, its rows and the two *)
(* selections (the row the detail panel shows, and the rows checked for    *)
(* the bulk actions), kept in step with the address bar, the browser's     *)
(* history and the selection of the whole app.                             *)
(*                                                                         *)
(* Most of it happens in React effects.  An effect is due when a value it  *)
(* depends on has changed since it last ran; the effects due after a       *)
(* render run together, a child's before its parent's, each with the       *)
(* values of that render (Flush).                                          *)
(*                                                                         *)
(* The requests behind a live list are ResourceListRequests; here such a   *)
(* list is one answer to the current filters, or an error.                 *)
(***************************************************************************)
EXTENDS Integers, Sequences, FiniteSets, SequencesExt

CONSTANTS
    Resources,    \* Resources[id]: a record of kind, namespace, name, status, labels
    Order,        \* Order[s]: all resources in the order of the sort preference s
    Topology,     \* Topology[s]: the resources in the snapshot of source s, in order
    Listed,       \* the resources the server's list API knows when it is asked
    Queries,      \* the words the user searches for
    MaxEvents     \* bound on the user's actions

None == "none"
AllValue == "all"
NoQuery == ""
Sources == DOMAIN Topology
Selects == {"namespace", "kind", "status"}
Sorts == DOMAIN Order

DefaultFilters == [query |-> NoQuery, namespace |-> AllValue, kind |-> AllValue, status |-> AllValue]

VARIABLES
    source, snapshot,      \* App: the source chosen, and the one whose snapshot is shown
    uploaded,              \* App: files were uploaded since the page was loaded
    topologyKind,          \* App: the filter bar above every view
    selectedNodeId,        \* App
    urlFilters,            \* App: resourceUrlFilters
    entries, position,     \* the browser's history, and where it is in it
    filters, sort,         \* ResourceExplorer's five filters, and the order of the list
    storedSort,            \* the preference in localStorage
    resources, offered,    \* the list's rows before the filters, and the filters' choices
    batch,                 \* changes with every new array of rows
    waiting,               \* a live list has been asked for
    checked, anchor,       \* selectedResourceIds and where a range starts
    propFilters, applying, \* resourceFiltersPropRef and applyingResourceFiltersRef
    due,                   \* the effects that are due
    events

app == <<source, snapshot, uploaded, topologyKind, selectedNodeId, urlFilters, entries, position>>
list == <<filters, sort, storedSort, resources, offered, batch, waiting>>
selection == <<checked, anchor>>
refs == <<propFilters, applying>>
vars == <<app, list, selection, refs, due, events>>
----------------------------------------------------------------------------
\* What a snapshot and a list show.

\* The nodes of the snapshot shown: the placeholders of a live session that has
\* not answered, and of an upload not made yet, have none.
Shown == IF snapshot = "empty" THEN <<>> ELSE Topology[snapshot]

\* useTopology: the nodes that pass the filter bar.
Nodes ==
    LET Passes(id) == topologyKind \in {AllValue, Resources[id].kind}
    IN SelectSeq(Shown, Passes)

Words(r) == {r.name, r.kind, r.namespace} \cup UNION {{l.key, l.value} : l \in r.labels}

MatchesSelects(r, f) ==
    /\ \/ f.namespace \in {AllValue, r.namespace}
       \/ r.kind = "Namespace" /\ r.name = f.namespace
    /\ f.kind \in {AllValue, r.kind} /\ f.status \in {AllValue, r.status}

\* resourceMatchesListQuery, on the server
ServerMatches(r, f) ==
    /\ MatchesSelects(r, f)
    /\ f.query = NoQuery \/ f.query \in {r.status} \cup Words(r) \cup {l.key \o " " \o l.value : l \in r.labels}

\* filterResourceList, in the browser, also over the rows of a live list
Matches(r, f) ==
    /\ MatchesSelects(r, f)
    /\ f.query = NoQuery \/ f.query \in Words(r) \cup {l.key \o ":" \o l.value : l \in r.labels}

Filtered(seq, ids, f) ==
    LET OnScreen(id) == id \in ids /\ Matches(Resources[id], f)
    IN SelectSeq(seq, OnScreen)

\* sortResourceList: any list, sorted, is a part of all resources sorted.
Rows == Filtered(Order[sort], resources, filters)
RowIds == Range(Rows)
First(seq) == IF seq = <<>> THEN None ELSE seq[1]

\* The node of the app that the explorer is given as selected.
SelectedProp ==
    IF selectedNodeId = None THEN First(Nodes)
    ELSE IF selectedNodeId \in Range(Shown) THEN selectedNodeId ELSE None

\* selectedResource: the row the detail panel shows
SelectedRow ==
    LET rows == Rows
        prop == SelectedProp
    IN  IF prop \in Range(rows) THEN prop ELSE First(rows)
IndexOf(id) == IF id \in RowIds THEN CHOOSE i \in DOMAIN Rows : Rows[i] = id ELSE 0

\* uniqueSortedValues, resourceListFacets: a resource without a namespace adds none.
Facets(ids) ==
    [s \in Selects |-> {Resources[id][s] : id \in ids} \ {""}]
----------------------------------------------------------------------------
\* What each effect depends on.
Effects == {"list", "select", "reconcile", "store", "apply", "report", "normalize",
            "choose", "topology"}
DependsOn(e) ==
    CASE e = "list" -> <<filters, sort, snapshot, source>>
      [] e = "select" -> <<SelectedProp, SelectedRow, batch>>
      [] e = "reconcile" -> <<SelectedRow, Rows, batch>>
      [] e = "store" -> sort
      [] e = "apply" -> urlFilters
      [] e = "report" -> <<filters, source>>
      [] e = "normalize" -> batch
      [] e = "choose" -> <<topologyKind, snapshot, selectedNodeId>>
      [] e = "topology" -> <<source, uploaded>>

\* A render: effects that were due and not run stay due.
Rendered(left) == due' = left \cup {e \in Effects : DependsOn(e)' # DependsOn(e)}

Settled == due = {}
ReplaceEntry(f) == [entries EXCEPT ![position] = [source |-> source, filters |-> f]]

\* The explorer is mounted: every effect is due.
Init ==
    /\ source \in Sources /\ uploaded = FALSE
    /\ snapshot = IF source = "mock" THEN "mock" ELSE "empty"
    /\ topologyKind = AllValue /\ selectedNodeId = None
    /\ urlFilters = DefaultFilters
    /\ entries = <<[source |-> source, filters |-> DefaultFilters]>> /\ position = 1
    /\ filters = DefaultFilters
    /\ sort = "kind-asc" /\ storedSort = sort
    /\ resources = Range(Shown) /\ offered = Facets(Range(Shown))
    /\ batch = FALSE /\ waiting = FALSE
    /\ checked = {} /\ anchor = None
    /\ propFilters = DefaultFilters /\ applying = FALSE
    /\ due = Effects /\ events = 0
----------------------------------------------------------------------------
\* The effects, as what each sets.

ShowsLocal == source # "live"

LocalSnapshot == IF source = "mock" \/ uploaded THEN source ELSE "empty"

\* The list effect
ResourcesAfter ==
    IF "list" \in due /\ ShowsLocal THEN Range(Shown) ELSE resources

\* The explorer's own choice: the row shown becomes the app's selection.
RowChosen ==
    IF "select" \in due /\ SelectedRow # SelectedProp THEN SelectedRow ELSE selectedNodeId

\* Mutant: rows are unchecked only when the list is asked for again.
ReconciledWithTheList == IF "list" \in due THEN checked \cap RowIds ELSE checked

\* reconcileResourceSelection: a row that left the screen is not checked any more.
Reconciled == IF "reconcile" \in due THEN checked \cap RowIds ELSE checked
AnchorReconciled ==
    IF "reconcile" \in due /\ anchor \notin RowIds \cup {None} THEN SelectedRow ELSE anchor

\* The filters of the address are not those the explorer reported or was given.
Applies == "apply" \in due /\ propFilters # urlFilters

\* The change that applying an address made is not reported back.
Reports == "report" \in due /\ ~(applying \/ Applies)

\* Mutant: the choices are looked at only when the list is empty.
NormalizedWhenEmpty(f) ==
    IF "normalize" \notin due \/ resources # {} THEN f
    ELSE [x \in DOMAIN f |->
            IF x \in Selects /\ f[x] \notin offered[x] THEN AllValue ELSE f[x]]

\* normalizePresetFilterValue of each select: a value that is not offered is dropped.
Normalized(f) ==
    IF "normalize" \notin due \/ resources = {} THEN f
    ELSE [x \in DOMAIN f |->
            IF x \in Selects /\ f[x] \notin offered[x] THEN AllValue ELSE f[x]]

\* Mutant: the app falls back to its last node.
NodeChosenLast(id) ==
    IF "choose" \notin due THEN id
    ELSE IF Nodes = <<>> THEN IF selectedNodeId = None THEN id ELSE None
    ELSE IF selectedNodeId \in Range(Nodes) THEN id ELSE Last(Nodes)

\* App: a selection that the filter bar hides falls back to the first node.
NodeChosen(id) ==
    IF "choose" \notin due THEN id
    ELSE IF Nodes = <<>> THEN IF selectedNodeId = None THEN id ELSE None
    ELSE IF selectedNodeId \in Range(Nodes) THEN id ELSE Nodes[1]

\* writeResourceListSortPreference, when its effect is due
SortPreference == IF "store" \in due THEN sort ELSE storedSort

\* All effects that are due, and the render their changes cause.
Flush ==
    /\ ~Settled
    /\ resources' = ResourcesAfter
    /\ IF "list" \in due /\ ShowsLocal
       THEN offered' = Facets(ResourcesAfter) /\ batch' = ~batch
       ELSE UNCHANGED <<offered, batch>>
    /\ waiting' = IF "list" \in due THEN ~ShowsLocal ELSE waiting
    /\ checked' = Reconciled /\ anchor' = AnchorReconciled
    /\ filters' = Normalized(IF Applies THEN urlFilters ELSE filters)
    /\ propFilters' = IF Reports THEN filters ELSE IF Applies THEN urlFilters ELSE propFilters
    /\ applying' = ((Applies \/ applying) /\ "report" \notin due)
    /\ urlFilters' = IF Reports THEN filters ELSE urlFilters
    /\ entries' = IF Reports THEN ReplaceEntry(filters) ELSE entries
    /\ selectedNodeId' = NodeChosen(IF Applies THEN None ELSE RowChosen)
    /\ snapshot' = IF "topology" \in due /\ ShowsLocal THEN LocalSnapshot ELSE snapshot
    /\ storedSort' = SortPreference
    /\ UNCHANGED <<source, uploaded, topologyKind, position, sort, events>>
    /\ Rendered({})
----------------------------------------------------------------------------
\* Answers, which may come between a render and its effects.

\* The list API answers the request for the filters and the order now set.
ListAnswer ==
    /\ waiting /\ source = "live" /\ "list" \notin due
    /\ resources' = {id \in Listed : ServerMatches(Resources[id], filters)}
    /\ offered' = Facets(Listed)
    /\ batch' = ~batch /\ waiting' = FALSE
    /\ UNCHANGED <<app, filters, sort, storedSort, selection, refs, events>>
    /\ Rendered(due)

\* It fails: the rows of the topology snapshot are shown.
ListError ==
    /\ waiting /\ source = "live" /\ "list" \notin due
    /\ resources' = Range(Shown)
    /\ offered' = Facets(Range(Shown))
    /\ batch' = ~batch /\ waiting' = FALSE
    /\ UNCHANGED <<app, filters, sort, storedSort, selection, refs, events>>
    /\ Rendered(due)

\* The live topology arrives; until then the snapshot of the old source stays.
TopologyAnswer ==
    /\ source = "live" /\ snapshot # "live" /\ "topology" \notin due
    /\ snapshot' = "live"
    /\ UNCHANGED <<source, uploaded, topologyKind, selectedNodeId, urlFilters, entries, position,
                   list, selection, refs, events>>
    /\ Rendered(due)
----------------------------------------------------------------------------
\* The user.  React runs what is due before it handles a click or a key.
Event == Settled /\ events < MaxEvents /\ events' = events + 1

Filter(f) ==
    /\ Event /\ filters' = f
    /\ UNCHANGED <<app, sort, storedSort, resources, offered, batch, waiting, selection, refs>>
    /\ Rendered({})

TypeQuery == \E q \in Queries \cup {NoQuery} : Filter([filters EXCEPT !.query = q])
PickFilter == \E x \in Selects : \E v \in offered[x] \cup {AllValue} :
    Filter([filters EXCEPT ![x] = v])

\* handleResetResourceFilters
ResetFilters ==
    /\ Event /\ filters # DefaultFilters
    /\ filters' = DefaultFilters /\ selectedNodeId' = None
    /\ UNCHANGED <<source, snapshot, uploaded, topologyKind, urlFilters, entries, position,
                   sort, storedSort, resources, offered, batch, waiting, selection, refs>>
    /\ Rendered({})

Sort(s) ==
    /\ Event /\ sort' = s
    /\ UNCHANGED <<app, filters, storedSort, resources, offered, batch, waiting, selection, refs>>
    /\ Rendered({})
ChangeSort == \E s \in Sorts : Sort(s)

Select(id, newChecked, newAnchor) ==
    /\ Event
    /\ selectedNodeId' = id /\ checked' = newChecked /\ anchor' = newAnchor
    /\ UNCHANGED <<source, snapshot, uploaded, topologyKind, urlFilters, entries, position, list, refs>>
    /\ Rendered({})

ClickRow == \E id \in RowIds : Select(id, checked, id)

\* getResourceSelectionRange: from the anchor, or the row shown, to the target
RangeTo(target) ==
    LET start == IF anchor \in RowIds THEN anchor ELSE SelectedRow
        from == IndexOf(start)
        to == IndexOf(target)
        Between(i) == (from <= i /\ i <= to) \/ (to <= i /\ i <= from)
    IN Select(target, checked \cup {Rows[i] : i \in {k \in DOMAIN Rows : Between(k)}}, start)

Move(index, range) ==
    /\ Rows # <<>>
    /\ LET within == IF index < 1 THEN 1 ELSE IF index > Len(Rows) THEN Len(Rows) ELSE index
       IN IF range THEN RangeTo(Rows[within])
          ELSE Select(Rows[within], checked, Rows[within])

\* resolveResourceListKeyboardCommand: the arrow keys, Home and End
KeyTargets == {IndexOf(SelectedRow) + 1, IndexOf(SelectedRow) - 1, 1, Len(Rows)}

\* with or without Shift
MoveByKey == \E range \in BOOLEAN, i \in KeyTargets : Move(i, range)

\* A checkbox, or the space bar on the row shown
ToggleCheck == \E id \in RowIds :
    Select(selectedNodeId, IF id \in checked THEN checked \ {id} ELSE checked \cup {id}, id)

SelectAll == Rows # <<>> /\ Select(selectedNodeId, RowIds, SelectedRow)
ClearChecks == checked # {} /\ Select(selectedNodeId, {}, SelectedRow)

\* The filter bar above the explorer
ChangeFilterBar == \E k \in {AllValue} \cup Facets(Range(Shown)).kind :
    /\ Event /\ topologyKind' = k /\ selectedNodeId' = None
    /\ UNCHANGED <<source, snapshot, uploaded, urlFilters, entries, position, list, selection, refs>>
    /\ Rendered({})

\* handleSourceModeChange
ChangeSource == \E s \in Sources \ {source} :
    /\ Event /\ source' = s /\ selectedNodeId' = None
    /\ entries' = Append(SubSeq(entries, 1, position), [source |-> s, filters |-> urlFilters])
    /\ position' = position + 1
    /\ UNCHANGED <<snapshot, uploaded, topologyKind, urlFilters, list, selection, refs>>
    /\ Rendered({})

\* handleUploadFiles, when the files have been read
Upload ==
    /\ Event /\ ~uploaded /\ uploaded' = TRUE
    /\ source' = "upload" /\ topologyKind' = AllValue /\ selectedNodeId' = None
    /\ entries' = IF source = "upload" THEN entries ELSE
                  Append(SubSeq(entries, 1, position), [source |-> "upload", filters |-> urlFilters])
    /\ position' = IF source = "upload" THEN position ELSE position + 1
    /\ UNCHANGED <<snapshot, urlFilters, list, selection, refs>>
    /\ Rendered({})

\* handlePopState: Back and Forward
Travel == \E p \in DOMAIN entries \cap {position - 1, position + 1} :
    /\ Event /\ position' = p
    /\ source' = entries[p].source
    /\ selectedNodeId' = IF source' # source THEN None ELSE selectedNodeId
    /\ urlFilters' = entries[p].filters
    /\ UNCHANGED <<snapshot, uploaded, topologyKind, entries, list, selection, refs>>
    /\ Rendered({})

\* The page is loaded again: the address and the stored order are what is left.
Reload ==
    /\ Event
    /\ snapshot' = (IF source = "mock" THEN "mock" ELSE "empty") /\ uploaded' = FALSE
    /\ topologyKind' = AllValue /\ selectedNodeId' = None
    /\ urlFilters' = entries[position].filters
    /\ filters' = entries[position].filters /\ sort' = storedSort
    /\ resources' = Range(Shown') /\ offered' = Facets(Range(Shown'))
    /\ batch' = ~batch /\ waiting' = FALSE
    /\ checked' = {} /\ anchor' = None
    /\ propFilters' = entries[position].filters /\ applying' = FALSE
    /\ due' = Effects
    /\ UNCHANGED <<source, entries, position, storedSort>>

Panels == TypeQuery \/ PickFilter \/ ResetFilters \/ ChangeSort
RowsPanel == ClickRow \/ MoveByKey \/ ToggleCheck \/ SelectAll \/ ClearChecks
Browser == ChangeFilterBar \/ ChangeSource \/ Upload \/ Travel \/ Reload
Next == Flush \/ ListAnswer \/ ListError \/ TopologyAnswer \/ Panels \/ RowsPanel \/ Browser

Spec == Init /\ [][Next]_vars /\ WF_vars(Flush)
----------------------------------------------------------------------------
\* Once the effects have run, the explorer, the app, the current entry of the history and
\* the stored order agree: Back, a changed source and dropped values all reach the
\* address, and a reload finds what was on the screen.  Unless a live list is awaited, a
\* filter that is set can be seen in its select: no value stays that is not offered.
FiltersAgree ==
    Settled =>
        /\ urlFilters = filters /\ entries[position].filters = filters
        /\ entries[position].source = source /\ storedSort = sort
        /\ ~waiting /\ resources # {} =>
              \A x \in Selects : filters[x] \in offered[x] \cup {AllValue}

\* A bulk action takes only rows that are on the screen, and a row that comes
\* back is not still checked: filters, answers and sources that hide a row
\* uncheck it for good.
ChecksAreOnScreen == Settled => checked \subseteq RowIds

\* Neither side accepts what the other falls back to.
Disputed ==
    /\ First(Rows) \notin Range(Nodes) /\ First(Nodes) \notin RowIds

\* The effects that give the explorer's and the app's selection to each other
\* come to rest, unless each side's first choice is unknown to the other.
SelectionSettles == []<>(Settled \/ Disputed)
=============================================================================
