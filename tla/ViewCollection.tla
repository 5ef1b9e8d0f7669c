--------------------------- MODULE ViewCollection ---------------------------
(***************************************************************************)
(* The collection of saved views as its reader works with it: folders that *)
(* are folded and searched, the form that saves a view, rows that are      *)
(* applied, renamed, moved and dragged, and the selection with its bulk    *)
(* operations.  Controls are those of ResourceViewPresetCollection.tsx,    *)
(* what they do is in useResourceViewPresetsController.ts.  The requests   *)
(* and dialogs that overlap these operations are in TeamViews.             *)
(***************************************************************************)
EXTENDS SavedViews

CONSTANTS
    DefaultGroup,   \* defaultResourceViewGroup
    Groups,         \* names of folders
    AllResources,   \* no filter: every field is allValue
    Offered,        \* the filters whose values the shown source has, AllResources too
    ViewNames,      \* names the reader types
    SavedLists,     \* lists the storage may hold at first
    Searches,       \* words the reader searches for
    MaxSteps        \* bound: operations of the reader

NoName == <<>>
NoGroup == "no group"
NoSearch == "no search"
NoOperation == [op |-> "none", names |-> {}, before |-> <<>>]

VARIABLES
    viewPresets,                \* the list, in the storage too
    presetName,                 \* the name in the form, NoName when it is empty
    presetGroup,                \* the folder in the form, NoGroup when it is empty
    viewPresetSearch,
    selectedViewPresetNames,
    bulkViewPresetDeleteConfirm,
    collapsedViewGroups,        \* in the storage too
    filters,                    \* what the resources are filtered by now
    acted,                      \* the last operation on the list, and the list before it (history)
    steps                       \* how many operations there were

form == <<presetName, presetGroup>>
picks == <<selectedViewPresetNames, bulkViewPresetDeleteConfirm>>
vars == <<viewPresets, form, viewPresetSearch, picks, collapsedViewGroups, filters, acted, steps>>

Init ==
    /\ viewPresets \in {ReadViews(l) : l \in SavedLists}
    /\ presetName = NoName /\ presetGroup = DefaultGroup
    /\ viewPresetSearch = NoSearch
    /\ selectedViewPresetNames = {} /\ bulkViewPresetDeleteConfirm = FALSE
    /\ collapsedViewGroups \in SUBSET Groups
    /\ filters \in Offered
    /\ acted = NoOperation /\ steps = 0
----------------------------------------------------------------------------
\* The views whose filters are the ones in use; the first is matchingViewPreset.
Matching == At(viewPresets, {i \in DOMAIN viewPresets : viewPresets[i].filters = filters})

IsMatching(name) == Matching # <<>> /\ Head(Matching).name = name

SuggestedName(f) == <<f>>

nextPresetName ==
    CASE presetName # NoName -> presetName
      [] presetName = NoName /\ Matching # <<>> -> Head(Matching).name
      [] OTHER -> SuggestedName(filters)

nextPresetGroup ==
    CASE presetGroup # NoGroup -> presetGroup
      [] presetGroup = NoGroup /\ Matching # <<>> -> Head(Matching).group
      [] OTHER -> DefaultGroup

presetNameExists == nextPresetName \in Names(viewPresets)

canReorderViewPresets == viewPresetSearch = NoSearch

\* A word is found in the name, the folder and the filters.
Found(view) ==
    viewPresetSearch = NoSearch \/ viewPresetSearch \in {view.name[1], view.group, view.filters}

Folder(list, group) == OrderViews(OfGroup(list, group))
Rows(group) ==
    LET folder == Folder(viewPresets, group)
    IN At(folder, {i \in DOMAIN folder : Found(folder[i])})
VisibleFolders == {g \in Groups : Rows(g) # <<>>}
VisibleNames == UNION {Names(Rows(g)) : g \in VisibleFolders}
CollapsedFolders == VisibleFolders \cap collapsedViewGroups

\* The rows of a folded folder are not drawn.
Drawn == UNION {Names(Rows(g)) : g \in VisibleFolders \ collapsedViewGroups}

Selected == OrderViews(Only(viewPresets, selectedViewPresetNames))
----------------------------------------------------------------------------
Step == steps < MaxSteps /\ steps' = steps + 1

\* The list is shown and written; the effect that follows forgets selected
\* names that are gone and a deletion that was asked for.
SetViewPresets(op, names, new, chosen) ==
    /\ Step
    /\ viewPresets' = new
    /\ selectedViewPresetNames' = chosen \cap Names(new)
    /\ bulkViewPresetDeleteConfirm' = FALSE
    /\ acted' = [op |-> op, names |-> names, before |-> viewPresets]
    /\ UNCHANGED <<viewPresetSearch, collapsedViewGroups, filters>>

\* An operation that leaves the list as it is.
Click == Step /\ acted' = NoOperation /\ UNCHANGED viewPresets

TypeName ==
    /\ Click /\ presetName' \in {<<n>> : n \in ViewNames} \cup {NoName}
    /\ UNCHANGED <<presetGroup, viewPresetSearch, picks, collapsedViewGroups, filters>>

TypeGroup ==
    /\ Click /\ presetGroup' \in Groups \cup {NoGroup}
    /\ UNCHANGED <<presetName, viewPresetSearch, picks, collapsedViewGroups, filters>>

\* The button is there whatever the form holds.
SaveViewPreset ==
    LET order == IF presetNameExists THEN Named(viewPresets, nextPresetName).order
                 ELSE TopOrderForGroup(viewPresets, nextPresetGroup)
        view == [name |-> nextPresetName, group |-> nextPresetGroup, filters |-> filters,
                 order |-> order]
    IN /\ SetViewPresets(IF presetNameExists THEN "update" ELSE "save", {view.name},
                         Upsert(viewPresets, view), selectedViewPresetNames)
       /\ presetName' = view.name /\ presetGroup' = view.group

\* From the quick list, which shows folded folders too, or from a row; a value
\* that the source does not have is not filtered by.
ApplyViewPreset ==
    /\ Click
    /\ \E n \in VisibleNames :
           LET view == Named(viewPresets, n)
           IN /\ filters' = IF view.filters \in Offered THEN view.filters ELSE AllResources
              /\ presetName' = n /\ presetGroup' = view.group
    /\ UNCHANGED <<viewPresetSearch, picks, collapsedViewGroups>>

SetFilters ==
    /\ Click /\ filters' \in Offered \ {filters}
    /\ UNCHANGED <<form, viewPresetSearch, picks, collapsedViewGroups>>

SearchViews ==
    /\ Click /\ viewPresets # <<>>
    /\ viewPresetSearch' \in (Searches \cup {NoSearch}) \ {viewPresetSearch}
    /\ UNCHANGED <<form, picks, collapsedViewGroups, filters>>
----------------------------------------------------------------------------
\* What one row offers, and what is done to its view.
DeleteViewPreset ==
    \E n \in Drawn :
        /\ SetViewPresets("delete", {n}, NormalizeOrders(Without(viewPresets, {n})),
                          selectedViewPresetNames \ {n})
        /\ presetName' = IF presetName = n THEN NoName ELSE presetName
        /\ UNCHANGED presetGroup

\* Another name that no view has; the list is not sorted again.
RenameViewPreset ==
    \E n \in Drawn, new \in {<<x>> : x \in ViewNames} \ Names(viewPresets) :
        /\ SetViewPresets("rename", {n, new}, Rename(viewPresets, n, new), selectedViewPresetNames)
        /\ presetName' = IF presetName = n \/ IsMatching(n) THEN new ELSE presetName
        /\ UNCHANGED presetGroup

UpdateViewPresetGroup ==
    \E n \in Drawn, g \in Groups :
        /\ Named(viewPresets, n).group # g
        /\ SetViewPresets("group", {n}, UpdateGroup(viewPresets, n, g), selectedViewPresetNames)
        /\ presetGroup' = IF presetName = n \/ IsMatching(n) THEN g ELSE presetGroup
        /\ UNCHANGED presetName

\* The arrows of the rows, which are dead at the ends of the folder and while
\* it is searched.
MoveViewPreset ==
    /\ canReorderViewPresets
    /\ \E n \in Drawn, direction \in {-1, 1} :
           \E other \in Neighbour(viewPresets, n, direction) :
               SetViewPresets("move", {n, other}, Exchanged(viewPresets, n, other),
                              selectedViewPresetNames)
    /\ UNCHANGED form

\* A row is dropped on another of its folder.
DropViewPreset ==
    /\ canReorderViewPresets
    /\ \E source, target \in Drawn :
           /\ source # target
           /\ Named(viewPresets, source).group = Named(viewPresets, target).group
           /\ SetViewPresets("drop", {source}, Dropped(viewPresets, source, target),
                             selectedViewPresetNames)
    /\ UNCHANGED form
----------------------------------------------------------------------------
Picking(chosen) ==
    /\ Click
    /\ selectedViewPresetNames' = chosen /\ bulkViewPresetDeleteConfirm' = FALSE
    /\ UNCHANGED <<form, viewPresetSearch, collapsedViewGroups, filters>>

SelectRow ==
    \E n \in Drawn : Picking(IF n \in selectedViewPresetNames THEN selectedViewPresetNames \ {n}
                             ELSE selectedViewPresetNames \cup {n})

SelectVisible ==
    /\ ~(VisibleNames \subseteq selectedViewPresetNames)
    /\ Picking(selectedViewPresetNames \cup VisibleNames)

\* The box of a folder, also of a folded one: the rows that the search leaves.
SelectFolder ==
    \E g \in VisibleFolders :
        LET names == Names(Rows(g))
        IN Picking(IF names \subseteq selectedViewPresetNames THEN selectedViewPresetNames \ names
                   ELSE selectedViewPresetNames \cup names)

ClearSelection == selectedViewPresetNames # {} /\ Picking({})

\* All that is selected moves, what the search or a folded folder hides too.
BulkMoveViewPresets ==
    /\ selectedViewPresetNames # {}
    /\ \E g \in Groups :
           /\ SetViewPresets("bulkMove", selectedViewPresetNames,
                             MoveToGroup(viewPresets, selectedViewPresetNames, g),
                             selectedViewPresetNames)
           /\ presetGroup' = IF \E n \in selectedViewPresetNames : IsMatching(n) THEN g
                             ELSE presetGroup
    /\ UNCHANGED presetName

AskBulkDelete ==
    /\ Click /\ selectedViewPresetNames # {} /\ ~bulkViewPresetDeleteConfirm
    /\ bulkViewPresetDeleteConfirm' = TRUE
    /\ UNCHANGED <<form, viewPresetSearch, selectedViewPresetNames, collapsedViewGroups, filters>>

BulkDeleteViewPresets ==
    LET gone == selectedViewPresetNames
        ofForm == presetName \in gone \/ \E n \in gone : IsMatching(n)
    IN /\ gone # {} /\ bulkViewPresetDeleteConfirm
       /\ SetViewPresets("delete", gone, NormalizeOrders(Without(viewPresets, gone)), {})
       /\ presetName' = IF ofForm THEN NoName ELSE presetName
       /\ presetGroup' = IF ofForm THEN DefaultGroup ELSE presetGroup
----------------------------------------------------------------------------
Fold(groups) ==
    /\ Click /\ collapsedViewGroups' = groups
    /\ UNCHANGED <<form, viewPresetSearch, picks, filters>>

\* The chip or the header of a folder.
ToggleFolder ==
    \E g \in VisibleFolders : Fold(IF g \in collapsedViewGroups THEN collapsedViewGroups \ {g}
                                   ELSE collapsedViewGroups \cup {g})

\* Folders that the search hides stay as they are.
ExpandVisible == CollapsedFolders # {} /\ Fold(collapsedViewGroups \ VisibleFolders)

CollapseVisible ==
    CollapsedFolders # VisibleFolders /\ Fold(collapsedViewGroups \cup VisibleFolders)

\* The panel is left and opened again: the list and the folded folders are
\* read from the storage, everything else is gone.
Reopen ==
    /\ Step /\ acted' = NoOperation
    /\ viewPresets' = ReadViews(viewPresets)
    /\ presetName' = NoName /\ presetGroup' = DefaultGroup
    /\ viewPresetSearch' = NoSearch
    /\ selectedViewPresetNames' = {} /\ bulkViewPresetDeleteConfirm' = FALSE
    /\ UNCHANGED <<collapsedViewGroups, filters>>

FormNext == TypeName \/ TypeGroup \/ SaveViewPreset \/ SetFilters \/ SearchViews

RowNext ==
    \/ ApplyViewPreset \/ DeleteViewPreset \/ RenameViewPreset \/ UpdateViewPresetGroup
    \/ MoveViewPreset \/ DropViewPreset

PickNext ==
    \/ SelectRow \/ SelectVisible \/ SelectFolder \/ ClearSelection
    \/ BulkMoveViewPresets \/ AskBulkDelete \/ BulkDeleteViewPresets

FoldNext == ToggleFolder \/ ExpandVisible \/ CollapseVisible \/ Reopen

Next == FormNext \/ RowNext \/ PickNext \/ FoldNext

Spec == Init /\ [][Next]_vars
----------------------------------------------------------------------------
\* The file of an export holds the whole of each view; a record without a
\* folder is read as one of the default folder.
ExportRecord(view) == view
Export(list) ==
    LET ordered == NormalizeOrders(list)
    IN [i \in DOMAIN ordered |-> ExportRecord(ordered[i])]
ReadFile(file) == NormalizeOrders(file)

\* What a folder says of its views, in its order.
Told(list) == [i \in DOMAIN list |-> <<list[i].name, list[i].filters>>]

\* Moving, dragging, renaming, deleting, saving, bulk operations: in every
\* folder the views that were not acted on, hidden ones too, keep their
\* filters, their folder and their order among each other, although orders
\* are numbers over all folders that are counted anew each time. Only a new
\* view at the limit drops one, the last of the list.
OthersStayPut ==
    acted.op # "none" =>
        LET before == acted.before
            lost == Names(before) \ (Names(viewPresets) \cup acted.names)
            Others(list, g) == Told(Without(Folder(list, g), acted.names \cup lost))
        IN /\ \A g \in Groups : Others(before, g) = Others(viewPresets, g)
           /\ lost # {} => /\ acted.op = "save" /\ Len(before) = MaxViews
                           /\ lost = {before[Len(before)].name}

\* A view saved under a new name comes first in its folder, whichever folders
\* its neighbours are in; a view saved again, renamed or moved with the
\* selection keeps its place among all views, in its old folder and the new.
NewOnesComeFirst ==
    LET NamesIn(list) == [i \in DOMAIN list |-> list[i].name]
        n == CHOOSE x \in acted.names : TRUE
    IN CASE acted.op = "save" ->
                Head(Folder(viewPresets, Named(viewPresets, n).group)).name = n
         [] acted.op \in {"update", "bulkMove"} ->
                NamesIn(viewPresets) = NamesIn(OrderViews(acted.before))
         [] OTHER -> TRUE

\* The file of all views, read again, is found to hold nothing but duplicates
\* and changes nothing; the file of the selection gives an empty browser the
\* selected views, folder by folder in their order.
FilesComeBack ==
    LET all == ReadFile(Export(viewPresets))
        some == Merge(<<>>, ReadFile(Export(Selected)), "incoming")
    IN /\ Conflicts(viewPresets, all) = <<>> /\ News(viewPresets, all) = <<>>
       /\ Merge(viewPresets, all, "incoming") = viewPresets
       /\ \A g \in Groups :
              Told(Folder(some, g)) = Told(Only(Folder(viewPresets, g), selectedViewPresetNames))
=============================================================================
