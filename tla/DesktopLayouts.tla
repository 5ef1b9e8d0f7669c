---------------------------- MODULE DesktopLayouts ----------------------------
(***************************************************************************)
(* The saved session layouts of the desktop panel: a short list of presets *)
(* in folders, kept in the browser's storage (desktopCmSessionLayouts),    *)
(* with a controller of what is selected, renamed, filtered and imported   *)
(* (useDesktopCmSessionLayouts) and one that reorders                      *)
(* (useDesktopCmSessionLayoutReorder).                                     *)
(*                                                                         *)
(* Every handler replaces the list and writes it; the effects that follow  *)
(* a render drop what refers to presets or folders that are gone.  One     *)
(* step is a handler and its effects.  An import is two steps: the file is *)
(* chosen and, later, its text is there; the second works with the list of *)
(* the render in which the first happened.                                 *)
(*                                                                         *)
(* A name stands for the names equal up to case and blanks, and a layout   *)
(* for the sessions it arranges.  Times, the current view of the panel,    *)
(* messages and the keyboard focus are left out; so is a second import     *)
(* started while the first is read (the input is disabled for it).         *)
(***************************************************************************)
EXTENDS Naturals, Sequences, FiniteSets, Functions

CONSTANTS
    Names, Folders, \* what the user types
    Sessions,       \* the sessions there are, of which a layout arranges some
    Layouts,        \* the layouts saved or imported: sets of sessions, also of unknown ones
    Starts,         \* the lists found in the storage
    Bundles,        \* the files: sequences of items, one with NoName is malformed
    MaxPresets,     \* maxDesktopCmSessionLayoutPresets
    MaxAsks,        \* bound: what the user does
    NoName          \* no preset, no folder, no filter, no query

VARIABLES
    presets,        \* sessionLayoutPresets: [name, folder, layout], first is newest
    stored,         \* the storage: presets and collapsed folders
    ui,             \* what refers to them: see UI
    file,           \* the file being read and the list its handler saw, or <<>>
    conflicts,      \* sessionLayoutImportConflicts, or <<>>
    asks

vars == <<presets, stored, ui, file, conflicts, asks>>

(***************************** the list ************************************)
NamesOf(ps)   == {ps[k].name : k \in DOMAIN ps}
FoldersOf(ps) == {ps[k].folder : k \in DOMAIN ps}
Index0(s, x)  == CHOOSE i \in 0..(Len(s) - 1) : s[i + 1] = x
Index(ps, n)  == CHOOSE k \in DOMAIN ps : ps[k].name = n

\* The elements of a sequence at some places, in their order.
Nth(K, k) == CHOOSE i \in K : Cardinality({j \in K : j < i}) = k - 1
At(s, K)  == [k \in 1..Cardinality(K) |-> s[Nth(K, k)]]

In(ps, f)      == At(ps, {k \in DOMAIN ps : ps[k].folder = f})
Named(ps, N)   == At(ps, {k \in DOMAIN ps : ps[k].name \in N})
Without(ps, N) == At(ps, {k \in DOMAIN ps : ps[k].name \notin N})
Prune(layout) == layout \cap Sessions

\* normalizeDesktopCmSessionLayoutPresets: of a name the first, and at most MaxPresets.
Normalize(ps) ==
    LET once == At(ps, {k \in DOMAIN ps : \A j \in 1..(k - 1) : ps[j].name # ps[k].name})
    IN  SubSeq(once, 1, IF Len(once) < MaxPresets THEN Len(once) ELSE MaxPresets)

\* The folders in the order in which they appear, and the list with each folder's presets together.
FolderOrder(ps) == LET first == At(ps, {k \in DOMAIN ps : \A j \in 1..(k - 1) : ps[j].folder # ps[k].folder})
                   IN  [k \in DOMAIN first |-> first[k].folder]

\* One list after the other.
Places(lists)    == UNION {{<<k, i>> : i \in DOMAIN lists[k]} : k \in DOMAIN lists}
Before(p, q)     == p[1] < q[1] \/ (p[1] = q[1] /\ p[2] < q[2])
NthOf(places, k) == CHOOSE p \in places : Cardinality({q \in places : Before(q, p)}) = k - 1
Flat(lists)      == [k \in 1..Cardinality(Places(lists)) |-> LET p == NthOf(Places(lists), k) IN lists[p[1]][p[2]]]

Flatten(order, grouped) == Normalize(Flat([k \in DOMAIN order |-> grouped[order[k]]]))
Grouped(ps)     == [f \in FoldersOf(ps) |-> In(ps, f)]

Insert(s, i, x) == LET b == IF i < Len(s) THEN i ELSE Len(s) IN SubSeq(s, 1, b) \o <<x>> \o SubSeq(s, b + 1, Len(s))

\* moveDesktopCmSessionLayoutFolderToIndex and ...Before, positions counted from 0
OtherFolders(ps, f) == At(FolderOrder(ps), {k \in DOMAIN FolderOrder(ps) : FolderOrder(ps)[k] # f})

FolderToIndex(ps, f, i) == Flatten(Insert(OtherFolders(ps, f), i, f), Grouped(ps))
FolderBefore(ps, f, g)  ==
    LET rest == OtherFolders(ps, f)
        at   == {k \in DOMAIN rest : rest[k] = g}
    IN  IF at = {} THEN Normalize(ps) ELSE Flatten(Insert(rest, (CHOOSE k \in at : TRUE) - 1, f), Grouped(ps))

\* Mutant: the list of the others is cut one too early.
PresetToIndexCut(ps, n, i) ==
    LET p    == ps[Index(ps, n)]
        rest == Without(In(ps, p.folder), {n})
    IN  Flatten(FolderOrder(ps), [Grouped(ps) EXCEPT ![p.folder] = SubSeq(rest, 1, i) \o <<p>> \o SubSeq(rest, i + 2, Len(rest))])

\* moveDesktopCmSessionLayoutPresetToIndex and ...Before: within the folder
PresetToIndex(ps, n, i) ==
    LET p == ps[Index(ps, n)] IN
    Flatten(FolderOrder(ps), [Grouped(ps) EXCEPT ![p.folder] = Insert(Without(@, {n}), i, p)])
PresetBefore(ps, n, m) ==
    LET p    == ps[Index(ps, n)]
        rest == Without(In(ps, p.folder), {n})
    IN  IF m \notin NamesOf(rest) THEN Normalize(ps) ELSE PresetToIndex(ps, n, Index(rest, m) - 1)

\* buildAvailableLayoutName: the first of "A copy", "A copy 2", ... that is free
Available(n, suffix, taken) ==
    LET free == {k \in 1..(MaxPresets + 1) : Append(n, <<suffix, k>>) \notin taken}
    IN  Append(n, <<suffix, CHOOSE k \in free : \A j \in free : k <= j>>)

(***************************** what is shown *******************************)
\* The search looks in the name, the folder and the layout: a query is one of them.
Matches(p, q)  == q = NoName \/ q = p.name[1] \/ q = p.folder
Visible(ps, u) == At(ps, {k \in DOMAIN ps : Matches(ps[k], u.query) /\ u.filter \in {NoName, ps[k].folder}})

\* buildDesktopCmSessionLayoutFolders: the folder of the filter is shown also when it has no match.
ShownFolders(ps, u) ==
    LET visible == FolderOrder(Visible(ps, u)) IN
    IF u.filter \in FoldersOf(ps) \ Range(visible) THEN <<u.filter>> \o visible ELSE visible

\* The effects after a render.
Settled(ps, u) ==
    LET picked == u.picked \cap NamesOf(ps)
        kept(x, X) == IF x \in X THEN x ELSE NoName IN
    [u EXCEPT !.picked = picked, !.confirm = @ /\ picked # {},
              !.announced = IF u.confirm THEN @ \cap picked ELSE {},
              !.collapsed = @ \cap FoldersOf(ps), !.rename = kept(@, NamesOf(ps)),
              !.folderRename = kept(@, FoldersOf(ps)), !.filter = kept(@, FoldersOf(ps)),
              !.active = kept(@, Range(ShownFolders(ps, u)))]

UI == [picked : SUBSET NamesOf(presets), confirm : BOOLEAN, announced : SUBSET NamesOf(presets), collapsed : SUBSET FoldersOf(presets),
       rename : NamesOf(presets) \cup {NoName}, folderRename : FoldersOf(presets) \cup {NoName},
       filter : FoldersOf(presets) \cup {NoName}, query : Names \cup Folders \cup {NoName}, active : FoldersOf(presets) \cup {NoName}]

NoUI(collapsed) == [picked |-> {}, confirm |-> FALSE, announced |-> {}, collapsed |-> collapsed, rename |-> NoName,
                    folderRename |-> NoName, filter |-> NoName, query |-> NoName, active |-> NoName]

(***************************** handlers ************************************)
Event == asks < MaxAsks /\ asks' = asks + 1

Show(u)       == ui' = Settled(presets', u) /\ stored' = [presets |-> presets', collapsed |-> ui'.collapsed]
Replace(ps, u) == presets' = ps /\ Show(u)

Unconfirmed(u) == [u EXCEPT !.confirm = FALSE]
NotRenaming(u) == [u EXCEPT !.rename = NoName]

\* A handler that edits the list closes the preview of an import and takes the confirmation back.
Edit(ps, u) == Event /\ Replace(ps, Unconfirmed(u)) /\ conflicts' = <<>> /\ UNCHANGED file

\* A handler that only changes what is shown.
Look(u) == Event /\ presets' = presets /\ Show(u) /\ UNCHANGED <<file, conflicts>>

Init ==
    /\ \E ps \in Starts, C \in SUBSET Folders :
          /\ presets = Normalize(ps)
          /\ ui = Settled(presets, NoUI(C))
    /\ stored = [presets |-> presets, collapsed |-> ui.collapsed]
    /\ file = <<>> /\ conflicts = <<>> /\ asks = 0

\* The page is loaded again: what was being read is forgotten.
Reload ==
    /\ Event
    /\ presets' = Normalize(stored.presets)
    /\ ui' = Settled(presets', NoUI(stored.collapsed))
    /\ file' = <<>> /\ conflicts' = <<>> /\ UNCHANGED stored

\* handleSaveSessionLayoutPreset: the pruned view of the panel, under a name that is typed
Save(n, f, layout) ==
    Edit(Normalize(<<[name |-> n, folder |-> f, layout |-> Prune(layout)]>> \o Without(presets, {n})), NotRenaming(ui))

StartRename(n) == Event /\ presets' = presets /\ Show(Unconfirmed([ui EXCEPT !.rename = n])) /\ conflicts' = <<>> /\ UNCHANGED file
CancelRename   == ui.rename # NoName /\ Look(NotRenaming(ui))

\* handleSaveRenamedSessionLayoutPreset: a name that is taken is refused
RenameTo(n) ==
    /\ ui.rename # NoName /\ (n = ui.rename \/ n \notin NamesOf(presets))
    /\ IF n = ui.rename THEN Look(NotRenaming(ui))
       ELSE Edit(Normalize([k \in DOMAIN presets |-> [presets[k] EXCEPT !.name = IF @ = ui.rename THEN n ELSE @]]), NotRenaming(ui))

Duplicate(n) ==
    Edit(Normalize(<<[presets[Index(presets, n)] EXCEPT !.name = Available(n, "copy", NamesOf(presets))]>> \o presets), NotRenaming(ui))

\* handleApplySessionLayoutPreset: the layout goes to the panel.
Apply(n) == Edit(presets, NotRenaming(ui))

Delete(n) ==
    Edit(Without(presets, {n}), [ui EXCEPT !.rename = IF @ = n THEN NoName ELSE @, !.picked = @ \ {n}])

InFolder(N, f) == Normalize([k \in DOMAIN presets |-> IF presets[k].name \in N THEN [presets[k] EXCEPT !.folder = f] ELSE presets[k]])

\* handleUpdateSessionLayoutPresetFolder and handleMoveSelectedSessionLayoutsToFolder
SetFolder(n, f) == Edit(InFolder({n}, f), ui)
MovePicked(f)   == ui.picked # {} /\ Edit(InFolder(ui.picked, f), ui)

\* One preset, the visible ones (also of one folder), or none are picked.
PickOne(n)    == Look(Unconfirmed([ui EXCEPT !.picked = IF n \in @ THEN @ \ {n} ELSE @ \cup {n}]))
PickFolder(F) == Look(Unconfirmed([ui EXCEPT !.picked = @ \cup {p.name : p \in {q \in Range(Visible(presets, ui)) : q.folder \in F}}]))
TypeBulkFolder == ui.confirm /\ Look(Unconfirmed(ui))
PickNone      == ui.picked # {} /\ Look(Unconfirmed([ui EXCEPT !.picked = {}]))

\* handleDeleteSelectedSessionLayouts: the first press asks, and names the selection.
DeletePicked ==
    /\ ui.picked # {}
    /\ IF ui.confirm
       THEN Edit(Without(presets, ui.picked), [ui EXCEPT !.picked = {}, !.rename = IF @ \in ui.picked THEN NoName ELSE @])
       ELSE Look([ui EXCEPT !.confirm = TRUE, !.announced = ui.picked])

ToggleFolder(f) == Look([ui EXCEPT !.collapsed = IF f \in @ THEN @ \ {f} ELSE @ \cup {f}])
SetFilter(f)    == f # ui.filter /\ Look(Unconfirmed([ui EXCEPT !.filter = f]))
SetQuery(q)     == q # ui.query /\ Look([ui EXCEPT !.query = q])
SetActive(f)    == f # ui.active /\ Look([ui EXCEPT !.active = f])

StartFolderRename(f) == Look(Unconfirmed([ui EXCEPT !.active = f, !.folderRename = f]))
CancelFolderRename   == ui.folderRename # NoName /\ Look([ui EXCEPT !.folderRename = NoName])

\* handleSaveRenamedSessionLayoutFolder: the folder may join another one
RenameFolder(g) ==
    LET f == ui.folderRename
        moved(x) == IF x = f THEN g ELSE x IN
    /\ f # NoName
    /\ IF f = g THEN Look([ui EXCEPT !.folderRename = NoName])
       ELSE Edit(Normalize([k \in DOMAIN presets |-> [presets[k] EXCEPT !.folder = moved(@)]]),
                 [ui EXCEPT !.collapsed = {moved(x) : x \in @}, !.filter = moved(@), !.active = g, !.folderRename = NoName])

(***************************** reordering **********************************)
\* Only the whole list can be reordered: one step, or to the first or the last place.
Reorderable(places) == Cardinality(places) > 1 /\ ui.query = NoName /\ ui.filter = NoName
Targets(at, count)  == {i \in {at + 1, 0, count - 1} \cup (IF at = 0 THEN {} ELSE {at - 1}) : i # at /\ i < count}

MoveFolder(f, i) ==
    /\ Reorderable(FoldersOf(presets)) /\ i \in Targets(Index0(FolderOrder(presets), f), Cardinality(FoldersOf(presets)))
    /\ Edit(FolderToIndex(presets, f, i), [ui EXCEPT !.active = f])

DropFolder(f, g) ==
    /\ Reorderable(FoldersOf(presets)) /\ f # g
    /\ Edit(FolderBefore(presets, f, g), [ui EXCEPT !.active = f])

MovePreset(n, i) ==
    LET own == In(presets, presets[Index(presets, n)].folder) IN
    /\ Reorderable(NamesOf(presets)) /\ i \in Targets(Index(own, n) - 1, Len(own))
    /\ Edit(PresetToIndex(presets, n, i), ui)

\* A preset dropped on one of another folder stays where it is.
DropPreset(n, m) ==
    /\ Reorderable(NamesOf(presets)) /\ n # m
    /\ Len(In(presets, presets[Index(presets, n)].folder)) > 1 /\ Len(In(presets, presets[Index(presets, m)].folder)) > 1
    /\ Edit(PresetBefore(presets, n, m), ui)

(***************************** import **************************************)
\* parseDesktopCmSessionLayoutImportBundle: of the first MaxPresets items those with a name and
\* with a known session; of a name the first of these.
Taken(items)   == SubSeq(items, 1, IF Len(items) < MaxPresets THEN Len(items) ELSE MaxPresets)
Good(item)     == item.name # NoName /\ Prune(item.layout) # {}
Again(s, k)    == s[k].name # NoName /\ \E j \in 1..(k - 1) : Good(s[j]) /\ s[j].name = s[k].name
Accepted(s)    == {k \in DOMAIN s : Good(s[k]) /\ ~Again(s, k)}

\* Mutant: the items beyond the limit are not counted.
ParsedUncounted(items) ==
    LET s == Taken(items) IN
    [items   |-> [k \in DOMAIN At(s, Accepted(s)) |-> [At(s, Accepted(s))[k] EXCEPT !.layout = Prune(@)]],
     skipped |-> Cardinality({k \in DOMAIN s : Again(s, k)}),
     invalid |-> Cardinality({k \in DOMAIN s : ~Good(s[k]) /\ ~Again(s, k)})]

Parsed(items) ==
    LET s == Taken(items) IN
    [items   |-> [k \in DOMAIN At(s, Accepted(s)) |-> [At(s, Accepted(s))[k] EXCEPT !.layout = Prune(@)]],
     skipped |-> (Len(items) - Len(s)) + Cardinality({k \in DOMAIN s : Again(s, k)}),
     invalid |-> Cardinality({k \in DOMAIN s : ~Good(s[k]) /\ ~Again(s, k)})]

\* handleImportSessionLayouts up to its await, and what it sees after it
ChooseFile(items) ==
    /\ file = <<>>
    /\ Event /\ presets' = presets /\ Show(Unconfirmed(NotRenaming(ui)))
    /\ file' = <<[items |-> items, saw |-> presets]>> /\ conflicts' = <<>>

\* ... after its await: new ones are put first, equal ones skipped, the others asked about.
FileRead ==
    /\ file # <<>>
    /\ LET saw  == file[1].saw
           p    == Parsed(file[1].items)
           differs(i) == i.name \in NamesOf(saw) /\ saw[Index(saw, i.name)].layout # i.layout
           new  == Without(p.items, NamesOf(saw))
           open == At(p.items, {k \in DOMAIN p.items : differs(p.items[k])}) IN
       /\ IF new = <<>> THEN Replace(presets, ui) ELSE Replace(Normalize(new \o saw), ui)
       /\ conflicts' = IF open = <<>> THEN <<>>
                       ELSE <<[imported |-> Len(new), updated |-> 0, skipped |-> p.skipped + (Len(p.items) - Len(new) - Len(open)),
                               invalid |-> p.invalid, initial |-> Len(open), resolved |-> 0, items |-> Len(file[1].items), open |-> open]>>
    /\ file' = <<>> /\ UNCHANGED asks

\* The text is not a bundle of layouts.
FileFails == file # <<>> /\ file' = <<>> /\ UNCHANGED <<presets, stored, ui, conflicts, asks>>

Modes == {"incoming", "current", "rename"}

\* The new names, each taken before the next is chosen.
Renamed(chosen) ==
    LET name[k \in DOMAIN chosen] ==
            Available(chosen[k].name, "import", NamesOf(presets) \cup {name[j] : j \in 1..(k - 1)})
    IN  [k \in DOMAIN chosen |-> [chosen[k] EXCEPT !.name = name[k]]]

\* handleResolveSessionLayoutImportConflicts for one conflict or for all that are open
Resolve(mode, N) ==
    /\ conflicts # <<>> /\ Event
    /\ LET c      == conflicts[1]
           chosen == Named(c.open, N)
           k      == Len(chosen)
           rest   == Without(c.open, N) IN
       /\ CASE mode = "current"  -> Replace(presets, ui)
            [] mode = "incoming" -> Replace(Normalize(chosen \o Without(presets, N)), ui)
            [] OTHER             -> Replace(Normalize(Renamed(chosen) \o presets), ui)
       /\ conflicts' = IF rest = <<>> THEN <<>>
                       ELSE <<[c EXCEPT !.open = rest, !.resolved = @ + k,
                                        !.skipped = @ + (IF mode = "current" THEN k ELSE 0),
                                        !.updated = @ + (IF mode = "incoming" THEN k ELSE 0),
                                        !.imported = @ + (IF mode = "rename" THEN k ELSE 0)]>>
    /\ UNCHANGED file

-----------------------------------------------------------------------------
(***************************** what the panel offers ***********************)
Own       == NamesOf(presets)
OwnFolder == FoldersOf(presets)
Slots     == 0..(MaxPresets - 1)

\* A preset is one of the list in an open folder; while it is renamed it offers only that.
PresetChip(n) ==
    /\ n \in NamesOf(Visible(presets, ui)) /\ presets[Index(presets, n)].folder \notin ui.collapsed
    /\ IF ui.rename = n THEN CancelRename \/ \E m \in Names : RenameTo(<<m>>)
       ELSE \/ StartRename(n) \/ Duplicate(n) \/ Apply(n) \/ Delete(n) \/ PickOne(n)
            \/ \E f \in Folders : SetFolder(n, f)
            \/ \E i \in Slots : MovePreset(n, i)
            \/ \E m \in Own : DropPreset(n, m)

FolderRow(f) ==
    \/ ToggleFolder(f)
    \/ \E i \in Slots : MoveFolder(f, i)
    \/ \E g \in OwnFolder : DropFolder(f, g)
    \/ IF ui.folderRename = f THEN CancelFolderRename \/ \E g \in Folders : RenameFolder(g)
       ELSE StartFolderRename(f) \/ PickFolder({f})

\* The arrow keys, Home, End and Escape, and a click on a row; the other keys are the row's buttons.
FolderKeys == \E f \in Range(ShownFolders(presets, ui)) \cup {NoName} : SetActive(f)

Toolbar ==
    \/ \E n \in Names, f \in Folders, l \in Layouts : Save(<<n>>, f, l)
    \/ \E f \in OwnFolder \cup {NoName} : SetFilter(f)
    \/ \E q \in Names \cup OwnFolder \cup {NoName} : SetQuery(q)
    \/ \E items \in Bundles : ChooseFile(items)
    \/ PickFolder(Folders)
    \/ PickNone \/ TypeBulkFolder \/ DeletePicked \/ \E f \in Folders : MovePicked(f)

ConflictPanel ==
    conflicts # <<>> /\ \E mode \in Modes, N \in {NamesOf(conflicts[1].open)} \cup {{n} : n \in NamesOf(conflicts[1].open)} : Resolve(mode, N)

Next ==
    \/ Reload \/ FileRead \/ FileFails \/ FolderKeys \/ Toolbar \/ ConflictPanel
    \/ \E n \in Own : PresetChip(n)
    \/ \E f \in Range(ShownFolders(presets, ui)) : FolderRow(f)

Spec == Init /\ [][Next]_vars

(***************************** properties **********************************)
\* The list is short and without two presets of a name, and nothing the panel keeps (a selection,
\* an open rename, a filter, the active folder, collapsed folders) refers to a preset or a folder
\* that a deletion, a move, a rename or an import took away.
NothingRefersToTheGone ==
    /\ Len(presets) \in 0..MaxPresets /\ Cardinality(NamesOf(presets)) = Len(presets)
    /\ ui \in UI

\* A move takes one folder, or one preset within its folder, to the announced place: no preset is
\* lost or changed, the presets of the other folders, and the other presets of the same one, keep
\* their order.
MovesKeepTheRest ==
    /\ \A f \in OwnFolder, i \in 0..MaxPresets : MoveFolder(f, i) =>
           /\ FolderOrder(presets')[i + 1] = f
           /\ \A g \in OwnFolder : In(presets', g) = In(presets, g)
    /\ \A n \in Own, i \in 0..MaxPresets : MovePreset(n, i) =>
           LET f == presets[Index(presets, n)].folder IN
           /\ In(presets', f)[i + 1] = presets[Index(presets, n)]
           /\ Without(In(presets', f), {n}) = Without(In(presets, f), {n})
           /\ \A g \in OwnFolder \ {f} : In(presets', g) = In(presets, g)

\* While conflicts are open, every item of the file is counted once: as new, updated, skipped,
\* invalid or open; and the progress counts the resolved ones.
EveryItemIsCounted ==
    conflicts # <<>> =>
        LET c == conflicts[1] IN
        /\ c.imported + c.updated + c.skipped + c.invalid + Len(c.open) = c.items
        /\ c.resolved + Len(c.open) = c.initial
=============================================================================
