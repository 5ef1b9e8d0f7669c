------------------------------ MODULE MCViews ------------------------------
(***************************************************************************)
(* Saved views on both ends: the team's store on the server (ViewStore);   *)
(* the panel of one browser with its requests (TeamViews), for which the   *)
(* store is the register that ImplementsRegister shows it to be; and the   *)
(* collection as its reader arranges it (ViewCollection). A behaviour is   *)
(* one of the store, the panel or the collection, and what belongs to the  *)
(* others is idle.                                                         *)
(***************************************************************************)
EXTENDS MCViewStore

CONSTANTS
    MaxViews, ViewNames, Groups, FilterSets, SavedLists, TeamLists, Files,
    MaxEdits, MaxCalls, MaxMounts,      \* TeamViews
    MaxCollected, TypedNames, CollectedLists,       \* MaxViews, ViewNames, SavedLists of
    DefaultGroup, AllResources, Offered, Searches, MaxSteps     \* ViewCollection

VARIABLES
    part,       \* "store", "panel" or "collection"
    views, selected, bulkConfirm, announced, compare, saveConfirm, conflict, renaming,
    teamLoading, enabled, team, calls, made, open, mount, edits,  \* TeamViews, beside stored
    viewPresets, presetName, presetGroup, viewPresetSearch, selectedViewPresetNames,
    bulkViewPresetDeleteConfirm, collapsedViewGroups, filters, acted, steps     \* ViewCollection

\* Views as the operations keep them, in a list in which a name may be there once.
IsView(v) ==
    v = [name |-> v.name, group |-> v.group, filters |-> v.filters, order |-> v.order] /\ v.order \in Int
IsList(s) == Len(s) \in Nat /\ s = [i \in 1..Len(s) |-> s[i]]
IsViews(l) == IsList(l) /\ \A i \in DOMAIN l : IsView(l[i])
OncePerName(l) == \A i, j \in DOMAIN l : l[i].name = l[j].name => i = j

\* The calls are named, bodies are lists, the file was empty, broken or a list of views, and
\* what is saved is read back as it was (ViewStore_readback: the lists for which it is not).
\* What the browser and the team hold at first are lists that were saved (OneViewPerName);
\* a file may hold any views.
ASSUME ViewsAssumption ==
    /\ IsFiniteSet(Calls) /\ "none" \notin Calls
    /\ \A text \in OldSnapshots :
           /\ text = [items |-> text.items, version |-> text.version] /\ text.version \in Nat
           /\ IsList(text.items)
    /\ \A inputs \in Puts : IsList(inputs) /\ \A i \in DOMAIN inputs : inputs[i].order \in Nat
    /\ \A items \in Sanitized : Reread(items) = items
    /\ MaxViews \in Nat /\ MaxCollected \in Nat \ {0}
    /\ \A l \in SavedLists \cup CollectedLists : IsViews(l) /\ OncePerName(l)
    /\ \A l \in TeamLists : IsViews(l) /\ OncePerName(l) /\ Len(l) <= MaxViews
    /\ \A l \in Files : IsViews(l)

P == INSTANCE TeamViews
F == INSTANCE ViewCollection WITH MaxViews <- MaxCollected, ViewNames <- TypedNames,
                                  SavedLists <- CollectedLists

V(n, g, f, o) == [name |-> n, group |-> g, filters |-> f, order |-> o]

OneSaved == {<<V(<<"c">>, "General", "f", 1)>>}

\* A team with a view of the same name, and more views than fit together.
SomeTeams == {<<V(<<"a">>, "Ops", "f", 1), V(<<"c">>, "Ops", "f", 2)>>}

\* A file with a view and its copy, and one with nothing in it.
SomeFiles == {<<V(<<"a">>, "Ops", "f", 0), V(<<"a", 1>>, "Ops", "f", 1)>>, <<>>}

\* A collection with nothing in it yet; a full list with the folders interleaved; a folder
\* before the default one; a list edited by hand, with orders that are missing or equal.
SomeCollected ==
    { <<>>,
      <<V(<<"a">>, "General", "f", 1), V(<<"b">>, "Ops", "g", 2), V(<<"c">>, "General", "all", 3)>>,
      <<V(<<"a">>, "Ops", "f", 1), V(<<"b">>, "Ops", "f", 2), V(<<"c">>, "General", "g", 3)>>,
      <<V(<<"b">>, "General", "all", 2), V(<<"a">>, "Ops", "g", 0), V(<<"c">>, "Ops", "f", 2)>> }

storeOnly == <<storage, now, tmp, mu, pc, request, reply, restarts>>
panelOnly == <<views, selected, bulkConfirm, announced, compare, saveConfirm, conflict,
               renaming, teamLoading, enabled, team, calls, made, open, mount, edits>>
collectionOnly == <<viewPresets, presetName, presetGroup, viewPresetSearch,
                    selectedViewPresetNames, bulkViewPresetDeleteConfirm, collapsedViewGroups,
                    filters, acted, steps>>
all == <<part, stored, storeOnly, panelOnly, collectionOnly>>

Idle == "idle"

StoreIdle ==
    /\ storage = Idle /\ now = Idle /\ tmp = Idle /\ mu = Idle /\ pc = Idle
    /\ request = Idle /\ reply = Idle /\ restarts = Idle

PanelIdle ==
    /\ views = Idle /\ selected = Idle /\ bulkConfirm = Idle /\ announced = Idle
    /\ compare = Idle /\ saveConfirm = Idle /\ conflict = Idle /\ renaming = Idle
    /\ teamLoading = Idle /\ enabled = Idle /\ team = Idle /\ calls = Idle /\ made = Idle
    /\ open = Idle /\ mount = Idle /\ edits = Idle

CollectionIdle ==
    /\ viewPresets = Idle /\ presetName = Idle /\ presetGroup = Idle /\ viewPresetSearch = Idle
    /\ selectedViewPresetNames = Idle /\ bulkViewPresetDeleteConfirm = Idle
    /\ collapsedViewGroups = Idle /\ filters = Idle /\ acted = Idle /\ steps = Idle

ViewsInit ==
    \/ part = "store" /\ Init /\ PanelIdle /\ CollectionIdle
    \/ part = "panel" /\ P!Init /\ StoreIdle /\ CollectionIdle
    \/ part = "collection" /\ F!Init /\ stored = Idle /\ StoreIdle /\ PanelIdle

ViewsNext ==
    \/ part = "store" /\ Next /\ UNCHANGED <<part, panelOnly, collectionOnly>>
    \/ part = "panel" /\ P!Next /\ UNCHANGED <<part, storeOnly, collectionOnly>>
    \/ part = "collection" /\ F!Next /\ UNCHANGED <<part, stored, storeOnly, panelOnly>>

ViewsSpec == ViewsInit /\ [][ViewsNext]_all

-----------------------------------------------------------------------------
\* Concurrent GETs and PUTs, failing file operations and restarts included, the endpoint is
\* one register: no answer shows half of a save, an error means nothing was saved, and a
\* restart loses no acknowledged save.
ImplementsRegister ==
    /\ part = "store" => Register!Init
    /\ [][part = "store" => [Register!Next]_(Register!vars)]_all

\* The mutex is held by exactly the call inside the store and a temporary file is there
\* only while it is held, whichever step of a save failed; and two answers of one memory
\* store with one version show the same views, even when the clock is set back.
SavesDoNotMix ==
    part = "store" => MutexHeldInside /\ NoStrayFiles /\ VersionTellsViewsApart

\* Whatever was sent, saved, renamed, imported and merged: in an answer of the server and
\* in the browser's lists no two views have one name, and there are at most the limit.
OneViewPerName ==
    /\ part = "store" => AnswersAreWellFormed
    /\ part = "panel" => P!OneViewPerName

\* Two presses: nothing is saved for the team that was not compared with it, and nothing is
\* deleted that was not announced, whatever happens between the first press and the second.
NothingWithoutConsent == part = "panel" => P!SaveWasCompared /\ P!DeleteWasAnnounced

\* What is asked before a merge is true of it: every view of both lists is accounted for, as
\* merged or as dropped, and a resolved conflict keeps the views it said it would. The file
\* of an export, read again, brings back what was exported: nothing but duplicates here, and
\* in an empty browser the selected views, folder by folder in their order.
MergesKeepTheirPromise ==
    /\ part = "panel" => P!MergesKeepTheirPromise
    /\ part = "collection" => F!FilesComeBack

\* Orders are numbers over all folders that every operation counts anew: no save, move,
\* drag, rename, deletion or bulk operation disturbs what it was not about, hidden views
\* too, and only a new view at the limit drops one, the last. A new view comes first in its
\* folder; one that is saved again, or moved with the selection, keeps its place.
OthersStayPut == part = "collection" => F!OthersStayPut /\ F!NewOnesComeFirst
=============================================================================
