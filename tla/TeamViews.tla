----------------------------- MODULE TeamViews -----------------------------
(***************************************************************************)
(* The saved views of one browser and of the team: the panel of            *)
(* useResourceViewPresetsController.ts, the browser's storage, and the     *)
(* requests under way.  A handler that waits for a file or an answer goes  *)
(* on with the list that was shown when it was called; the panel may have  *)
(* been left and opened again meanwhile, and what such a handler still     *)
(* does reaches the storage only.  Messages and summaries are left out.    *)
(***************************************************************************)
EXTENDS SavedViews

CONSTANTS
    ViewNames,      \* names a user gives
    Groups,         \* groups of views
    FilterSets,     \* what a view filters by
    SavedLists,     \* lists the storage may hold at first
    TeamLists,      \* lists that others save for the team
    Files,          \* the valid views of the files that are imported
    MaxEdits,       \* bound: changes by the user
    MaxCalls,       \* bound: requests and imports
    MaxMounts       \* bound: times the panel is opened

None == [action |-> "none"]
NoAnswer == [ok |-> FALSE, views |-> <<>>]

VARIABLES
    views,          \* viewPresets
    stored,         \* what the browser's storage holds
    selected,       \* selectedViewPresetNames
    bulkConfirm,    \* bulkViewPresetDeleteConfirm
    announced,      \* what the message before a deletion counted (history)
    compare,        \* resourceViewTeamComparePreview
    saveConfirm,    \* resourceViewTeamSaveConfirm
    conflict,       \* resourceViewConflict
    renaming,       \* the name that is being changed, <<>> for none
    teamLoading,    \* resourceViewTeamLoading
    enabled,        \* teamResourceViewsEnabled
    team,           \* what the server holds
    calls,          \* the requests and imports under way
    made,           \* how many were made
    open,           \* is the panel on the page?
    mount,          \* how often it was opened
    edits           \* how often the user changed the list

list == <<views, stored>>
picks == <<selected, bulkConfirm, announced>>
preview == <<compare, saveConfirm>>
dialogs == <<conflict, renaming>>
requests == <<calls, made>>
world == <<enabled, team, open, mount>>
vars == <<list, picks, preview, dialogs, teamLoading, requests, edits, world>>

Init ==
    /\ stored \in {ReadViews(l) : l \in SavedLists} /\ views = stored
    /\ selected = {} /\ bulkConfirm = FALSE /\ announced = {}
    /\ compare = None /\ saveConfirm = FALSE
    /\ conflict = None /\ renaming = <<>>
    /\ teamLoading = FALSE /\ calls = <<>> /\ made = 0 /\ edits = 0
    /\ enabled = TRUE /\ team = <<>>
    /\ open = TRUE /\ mount = 1
----------------------------------------------------------------------------
\* The list and, written by writeResourceViewPresets, the storage.
Write(new) == views' = new /\ stored' = new

\* Mutant: the list changes under the question whether to delete.
SetViewsUnderConfirm(new, chosen) ==
    /\ Write(new)
    /\ selected' = chosen \cap Names(new)
    /\ UNCHANGED <<bulkConfirm, announced>>
    /\ compare' = None /\ saveConfirm' = FALSE

\* The list is shown and written, and the effects that follow every new list
\* forget selected names that are gone, a deletion asked for and a comparison.
SetViews(new, chosen) ==
    /\ Write(new)
    /\ selected' = chosen \cap Names(new)
    /\ bulkConfirm' = FALSE /\ announced' = {}
    /\ compare' = None /\ saveConfirm' = FALSE

NoDialog == conflict' = None /\ renaming' = <<>>

Edit ==
    /\ open /\ edits < MaxEdits
    /\ edits' = edits + 1
    /\ UNCHANGED <<teamLoading, requests, world>>

\* A view is saved under a name of the user's, or again under its own.
SaveView ==
    /\ Edit /\ NoDialog
    /\ \E n \in {<<x>> : x \in ViewNames}, g \in Groups, f \in FilterSets :
           LET order == IF n \in Names(views) THEN Named(views, n).order
                        ELSE TopOrderForGroup(views, g)
           IN SetViews(Upsert(views, [name |-> n, group |-> g, filters |-> f, order |-> order]),
                       selected)

DeleteView ==
    /\ Edit /\ NoDialog
    /\ \E n \in Names(views) : SetViews(NormalizeOrders(Without(views, {n})), selected \ {n})

BulkMove ==
    /\ Edit /\ NoDialog /\ selected # {}
    /\ \E g \in Groups : SetViews(MoveToGroup(views, selected, g), selected)

BulkDelete ==
    /\ Edit /\ NoDialog /\ selected # {} /\ bulkConfirm
    /\ SetViews(NormalizeOrders(Without(views, selected)), {})

CommitRename ==
    /\ Edit /\ renaming \in Names(views)
    /\ \E n \in {<<x>> : x \in ViewNames} \ Names(views) :
           SetViews(Rename(views, renaming, n), selected)
    /\ renaming' = <<>> /\ UNCHANGED conflict

\* Neither a change of group nor one of order closes a conflict.
ChangeGroup ==
    /\ Edit /\ UNCHANGED dialogs
    /\ \E n \in Names(views), g \in Groups :
           Named(views, n).group # g /\ SetViews(UpdateGroup(views, n, g), selected)

MoveView ==
    /\ Edit /\ UNCHANGED dialogs
    /\ \E n \in Names(views), direction \in {-1, 1} :
           \E other \in Neighbour(views, n, direction) :
               SetViews(Exchanged(views, n, other), selected)

DropView ==
    /\ Edit /\ UNCHANGED dialogs
    /\ \E source, target \in Names(views) :
           /\ source # target /\ Named(views, source).group = Named(views, target).group
           /\ SetViews(Dropped(views, source, target), selected)
----------------------------------------------------------------------------
\* A click that changes what is picked, not the list.
Picking(chosen) ==
    /\ open /\ (chosen # selected \/ bulkConfirm)
    /\ selected' = chosen /\ bulkConfirm' = FALSE /\ announced' = {}
    /\ UNCHANGED <<list, preview, dialogs, teamLoading, requests, edits, world>>

Toggle ==
    \E n \in Names(views) :
        Picking(IF n \in selected THEN selected \ {n} ELSE selected \cup {n})

\* All views, or those of a group; the views a search shows are reached by
\* picking them one at a time.
ToggleShown ==
    \/ Picking(Names(views))
    \/ \E g \in Groups : LET names == Names(OfGroup(views, g))
                         IN Picking(selected \cup names) \/ Picking(selected \ names)

ClearSelection == selected # {} /\ Picking({})

\* The export of the selection, and typing the name of its new group, take
\* the question back too.
ExportSelected == selected # {} /\ Picking(selected)

AskBulkDelete ==
    /\ open /\ selected # {} /\ ~bulkConfirm
    /\ bulkConfirm' = TRUE /\ announced' = selected
    /\ UNCHANGED <<list, selected, preview, dialogs, teamLoading, requests, edits, world>>

StartRename ==
    /\ open /\ \E n \in Names(views) : renaming' = n
    /\ conflict' = None
    /\ UNCHANGED <<list, picks, preview, teamLoading, requests, edits, world>>

\* A conflict, or a change of name, is closed without an answer; applying a
\* view or resetting the filters ends a change of name.
CloseDialog ==
    /\ open
    /\ \/ conflict # None /\ conflict' = None /\ UNCHANGED renaming
       \/ renaming # <<>> /\ renaming' = <<>> /\ UNCHANGED conflict
    /\ UNCHANGED <<list, picks, preview, teamLoading, requests, edits, world>>

Dismiss ==
    /\ open /\ compare # None
    /\ compare' = None /\ saveConfirm' = FALSE
    /\ UNCHANGED <<list, picks, dialogs, teamLoading, requests, edits, world>>

\* Which source is shown, or whether it is live, changes; only the first
\* closes the comparison.
SwitchSource ==
    /\ open
    /\ \/ /\ compare # None \/ saveConfirm
          /\ compare' = None /\ saveConfirm' = FALSE /\ enabled' \in BOOLEAN
       \/ enabled' = ~enabled /\ UNCHANGED preview
    /\ UNCHANGED <<list, picks, dialogs, teamLoading, requests, edits, team, open, mount>>
----------------------------------------------------------------------------
\* New views come into a list: conflicts are asked about first.
TakeIn(base, incoming, comparison) ==
    IF Conflicts(base, incoming) # <<>>
    THEN /\ conflict' = [action |-> "conflict", base |-> base, incoming |-> incoming]
         /\ renaming' = <<>>
         /\ compare' = comparison
         /\ UNCHANGED <<list, picks, saveConfirm>>
    ELSE NoDialog /\ SetViews(Merge(base, incoming, "incoming"), selected)

ApplyTeamLoad ==
    /\ open /\ compare.action = "load"
    /\ TakeIn(views, compare.incoming, None)
    /\ UNCHANGED <<teamLoading, requests, edits, world>>

\* The conflict is resolved in the list it was found in.
ResolveConflicts ==
    /\ open /\ conflict # None /\ NoDialog
    /\ UNCHANGED <<teamLoading, requests, edits, world>>
    /\ \E resolution \in {"incoming", "current", "rename"} :
           SetViews(Merge(conflict.base, conflict.incoming, resolution), selected)
----------------------------------------------------------------------------
Call(kind) ==
    /\ open /\ made < MaxCalls /\ made' = made + 1
    /\ calls' = Append(calls, [kind |-> kind, mount |-> mount, base |-> views,
                               handled |-> FALSE, answer |-> NoAnswer])
    /\ UNCHANGED <<list, picks, edits, world>>

TeamCall(kind) == enabled /\ ~teamLoading /\ Call(kind) /\ teamLoading' = TRUE

LoadTeam == TeamCall("load") /\ saveConfirm' = FALSE /\ UNCHANGED <<compare, dialogs>>

\* The first press of the save button.
PrepareSave ==
    /\ ~saveConfirm /\ views # <<>> /\ TeamCall("prepare")
    /\ UNCHANGED <<preview, dialogs>>

\* The second, while there are views, or the button of the comparison.
ConfirmSave ==
    /\ (saveConfirm /\ views # <<>>) \/ compare.action = "save"
    /\ TeamCall("confirm") /\ NoDialog
    /\ saveConfirm' = FALSE /\ UNCHANGED compare

ImportFile == Call("import") /\ UNCHANGED <<preview, dialogs, teamLoading>>

\* The server handles a request; the list it is sent is well formed, so that
\* it keeps it as it is (see SanitizeInputs of ViewStore).
Handle(c) ==
    /\ calls[c].kind \in {"load", "prepare", "confirm"} /\ ~calls[c].handled
    /\ team' = IF calls[c].kind = "confirm" THEN calls[c].base ELSE team
    /\ calls' = [calls EXCEPT ![c].handled = TRUE,
                              ![c].answer = [ok |-> TRUE, views |-> team']]
    /\ UNCHANGED <<made, list, picks, preview, dialogs, teamLoading, edits, enabled, open, mount>>

\* Bound: others save once, before this browser does.
OthersSave ==
    /\ team = <<>>
    /\ team' \in {NormalizeOrders(l) : l \in TeamLists}
    /\ UNCHANGED <<list, picks, preview, dialogs, teamLoading, requests, edits, enabled, open, mount>>

Here(c) == open /\ calls[c].mount = mount
End(c) == calls' = RemoveAt(calls, c) /\ UNCHANGED <<made, edits, world>>

\* Whatever became of a request, its spinner ends with it.
EndTeamCall(c) == End(c) /\ teamLoading' = (teamLoading /\ ~Here(c))

\* The comparison of what was shown when it was asked for; a save asks for
\* the second press with it.
Compared(c) ==
    /\ calls[c].kind \in {"load", "prepare"} /\ calls[c].handled /\ EndTeamCall(c)
    /\ IF Here(c)
       THEN LET action == IF calls[c].kind = "load" THEN "load" ELSE "save"
            IN /\ compare' = ComparePreview(action, calls[c].base, calls[c].answer.views)
               /\ saveConfirm' = (saveConfirm \/ action = "save")
               /\ NoDialog /\ UNCHANGED <<list, picks>>
       ELSE UNCHANGED <<list, picks, preview, dialogs>>

\* The answer to a save replaces the list.
Saved(c) ==
    /\ calls[c].kind = "confirm" /\ calls[c].handled /\ EndTeamCall(c)
    /\ IF Here(c) THEN SetViews(calls[c].answer.views, selected)
       ELSE stored' = calls[c].answer.views /\ UNCHANGED <<views, picks, preview>>
    /\ UNCHANGED dialogs

\* No answer comes, or an error, handled by the server or not.
Fails(c) ==
    /\ calls[c].kind \in {"load", "prepare", "confirm"} /\ EndTeamCall(c)
    /\ UNCHANGED <<list, picks>>
    /\ IF Here(c)
       THEN /\ compare' = None
            /\ saveConfirm' = (saveConfirm /\ calls[c].kind # "prepare")
            /\ IF calls[c].kind = "load" THEN NoDialog ELSE UNCHANGED dialogs
       ELSE UNCHANGED <<preview, dialogs>>

\* A file was read: the views in it, <<>> when there are none or it cannot
\* be read.
Imported(c) ==
    /\ calls[c].kind = "import" /\ End(c) /\ UNCHANGED teamLoading
    /\ \E file \in Files :
           LET incoming == NormalizeOrders(file)
           IN IF Here(c)
              THEN IF incoming = <<>> THEN NoDialog /\ UNCHANGED <<list, picks, preview>>
                   ELSE TakeIn(calls[c].base, incoming, compare)
              ELSE /\ stored' = IF incoming = <<>> \/ Conflicts(calls[c].base, incoming) # <<>>
                                THEN stored ELSE Merge(calls[c].base, incoming, "incoming")
                   /\ UNCHANGED <<views, picks, preview, dialogs>>

Answered(c) == Compared(c) \/ Saved(c) \/ Fails(c) \/ Imported(c)
----------------------------------------------------------------------------
\* Another view of the application is shown, and what the panel held is gone; then this
\* one again, with what was stored.
Close ==
    /\ open /\ open' = FALSE
    /\ views' = <<>> /\ UNCHANGED stored
    /\ selected' = {} /\ bulkConfirm' = FALSE /\ announced' = {}
    /\ compare' = None /\ saveConfirm' = FALSE
    /\ NoDialog /\ teamLoading' = FALSE
    /\ UNCHANGED <<requests, edits, enabled, team, mount>>

Reopen ==
    /\ ~open /\ mount < MaxMounts
    /\ open' = TRUE /\ mount' = mount + 1
    /\ views' = ReadViews(stored) /\ UNCHANGED stored
    /\ UNCHANGED <<picks, preview, dialogs, teamLoading, requests, edits, enabled, team>>

EditNext ==
    \/ SaveView \/ DeleteView \/ BulkMove \/ BulkDelete \/ CommitRename
    \/ ChangeGroup \/ MoveView \/ DropView \/ ApplyTeamLoad \/ ResolveConflicts

ClickNext ==
    \/ Toggle \/ ToggleShown \/ ClearSelection \/ ExportSelected \/ AskBulkDelete
    \/ StartRename \/ CloseDialog \/ Dismiss \/ SwitchSource

CallNext == LoadTeam \/ PrepareSave \/ ConfirmSave \/ ImportFile

AnswerNext == \E c \in DOMAIN calls : Handle(c) \/ Answered(c)

Next == EditNext \/ ClickNext \/ CallNext \/ AnswerNext \/ OthersSave \/ Close \/ Reopen

Spec == Init /\ [][Next]_vars
----------------------------------------------------------------------------
\* Whatever was saved, renamed, imported, merged and answered, no two views
\* have one name and there are never more than the limit.
OneViewPerName ==
    \A l \in {views, stored} : Cardinality(Names(l)) = Len(l) /\ Len(l) <= MaxViews

\* The save button asks for its second press only beside the comparison of a
\* save: nothing is saved for the team that was never compared with it.
SaveWasCompared == saveConfirm => compare.action = "save"

\* The second press of the delete button deletes what the first announced.
DeleteWasAnnounced == bulkConfirm => announced = selected

\* What is asked before a merge is true of it: a comparison accounts for every
\* view of both lists, as merged or as dropped, and a conflict resolved for the
\* current views keeps each of them, for the incoming ones the first of each
\* name, up to the limit.
MergesKeepTheirPromise ==
    /\ compare # None =>
          /\ Len(compare.result) + compare.dropped
                 = Cardinality(Names(compare.incoming) \cup compare.localOnly \cup compare.teamOnly)
          /\ compare.news + compare.conflicts + compare.duplicates = Len(compare.incoming)
    /\ conflict # None =>
          LET Kept(resolution) == Merge(conflict.base, conflict.incoming, resolution)
              Same(a, b) == a.name = b.name /\ a.group = b.group /\ a.filters = b.filters
              Within(some, all) == \A i \in DOMAIN some : \E j \in DOMAIN all : Same(some[i], all[j])
          IN /\ Within(conflict.base, Kept("current"))
             /\ Within(Cut(PushAll(<<>>, conflict.incoming)), Kept("incoming"))
=============================================================================
