------------------------------ MODULE MCDesktop ------------------------------
(***************************************************************************)
(* The desktop panel: its SSH sessions with the runtime that serves them   *)
(* (DesktopSessions), its saved layouts (DesktopLayouts) and its view of   *)
(* the sessions (SessionView).  The layouts and the view only name         *)
(* sessions and share nothing else with them or with each other but the    *)
(* layout that is applied, so a behaviour is of one of the three, and what *)
(* belongs to the others is idle.                                          *)
(***************************************************************************)
EXTENDS DesktopSessions, TLC

CONSTANTS
    Names, Folders, Sessions, Layouts, Starts, Files, MaxPresets, MaxEdits, NoName,
    Hosts, BadHost, Lists, Stored, ViewLayouts, Transfers, MaxItems, MaxFilters, MaxPresses,
    A, B, General, Prod, s1, s2, s3, v1, v2, v3, v4, h1, h2

VARIABLES
    part,       \* "sessions", "layouts" or "view"
    presets, stored, ui, file, conflicts, edits,    \* DesktopLayouts
    listed, runtime, prefs, filter, filters, form, ticked, saving, loop, summary, loading, given, presses   \* SessionView

L == INSTANCE DesktopLayouts WITH Bundles <- Files, MaxAsks <- MaxEdits, asks <- edits

ViewIds == {v1, v2, v3, v4}

V == INSTANCE SessionView WITH Ids <- ViewIds, Groups <- Folders, Starts <- Lists, Layouts <- ViewLayouts,
                               Files <- Transfers, used <- given

IsSeq(s)     == Len(s) \in Nat /\ s = [k \in 1..Len(s) |-> s[k]]
IsPreset(p)  == p = [name |-> p.name, folder |-> p.folder, layout |-> p.layout] /\ p.folder \in Folders
IsSession(s) == s = [id |-> s.id, name |-> s.name, host |-> s.host, diag |-> s.diag] /\ s.id \in ViewIds
IsPrefs(p)   == p = [of |-> p.of, collapsed |-> p.collapsed]

\* What the storage, the desktop and the files hold has the fields that are read, and the desktop
\* knows no session twice.
ASSUME DesktopAssumption ==
    /\ MaxPresets \in Nat /\ MaxItems \in Nat /\ MaxFilters \in Nat
    /\ \A ps \in Starts \cup Files : IsSeq(ps) /\ \A k \in DOMAIN ps : IsPreset(ps[k])
    /\ \A s \in Lists : IsSeq(s) /\ \A j, k \in DOMAIN s : IsSession(s[k]) /\ (s[j].id = s[k].id => j = k)
    /\ \A p \in Stored \cup ViewLayouts : IsPrefs(p)
    /\ \A items \in Transfers : IsSeq(items)

IdSymmetry == Permutations(Ids \ Saved) \cup Permutations(Saved)

Preset(n, f, l) == [name |-> <<n>>, folder |-> f, layout |-> l]

TheLayouts == {{s1}, {s1, s3}}
TheStarts ==
    {<<>>, <<[Preset(A, General, {s1}) EXCEPT !.name = <<A, <<"copy", 1>>>>],
             Preset(B, Prod, {s2}), Preset(A, General, {s1})>>}

\* A malformed item, an unknown session only, a name twice, one more than the list can have.
Malformed == [name |-> NoName, folder |-> General, layout |-> {}]
TheFiles ==
    {<<Preset(A, General, {s2, s3}), Preset(B, Prod, {s1})>>,
     <<Preset(B, Prod, {s3}), Malformed, Preset(B, General, {s1}), Preset(B, Prod, {s2})>>,
     <<Preset(A, General, {s1}), Preset(A, Prod, {s2})>>}

\* Two sessions, of which one has the name that a clone of the other would get first.
Session(i, n, h, d) == [id |-> i, name |-> n, host |-> h, diag |-> d]
Fresh  == [stage |-> "metadata", severity |-> "info"]
Broken == [stage |-> "tunnel", severity |-> "error"]
TheLists == {<<>>, <<Session(v2, <<A, <<"copy", 1>>>>, h2, Fresh), Session(v1, <<A>>, h1, Broken)>>}

\* Groups of a session that is there and of one that is gone.
TheStored  == {[of |-> (v1 :> [group |-> Prod, favorite |-> TRUE]) @@ (v4 :> [group |-> Prod, favorite |-> FALSE]), collapsed |-> {}]}
TheViewLayouts == {[of |-> (v2 :> [group |-> Prod, favorite |-> FALSE]) @@ (v4 :> [group |-> General, favorite |-> TRUE]),
                    collapsed |-> {General}]}

\* A known endpoint, a malformed item, new ones, one twice, one beyond the limit.
Item(n, h)   == [name |-> n, host |-> h]
TheTransfers == {<<Item(<<A>>, h1), Item(NoName, h1), Item(<<A>>, h1), Item(<<B>>, h1), Item(<<B>>, h2), Item(<<A>>, BadHost)>>}

layoutsOnly == <<presets, stored, ui, file, conflicts, edits>>
sessionsOnly == <<desktop, copies, calls, busy, panel, asks>>
viewOnly == <<listed, runtime, prefs, filter, filters, form, ticked, saving, loop, summary, loading, given, presses>>
everything == <<part, layoutsOnly, sessionsOnly, viewOnly>>

Unused == "idle"

NoSessions ==
    /\ sessions = Unused /\ selected = Unused /\ profile = Unused /\ child = Unused
    /\ tracked = Unused /\ secrets = Unused /\ used = Unused
    /\ shown = Unused /\ flagged = Unused /\ shownProfile = Unused
    /\ calls = Unused /\ busy = Unused /\ deleteConfirm = Unused /\ keyConfirm = Unused
    /\ picked = Unused /\ bulkConfirm = Unused /\ announced = Unused /\ asks = Unused

NoLayouts ==
    /\ presets = Unused /\ stored = Unused /\ ui = Unused /\ file = Unused
    /\ conflicts = Unused /\ edits = Unused

NoView ==
    /\ listed = Unused /\ runtime = Unused /\ prefs = Unused /\ filter = Unused /\ filters = Unused
    /\ form = Unused /\ ticked = Unused /\ saving = Unused /\ loop = Unused /\ summary = Unused
    /\ loading = Unused /\ given = Unused /\ presses = Unused

DesktopInit ==
    \/ part = "sessions" /\ Init /\ NoLayouts /\ NoView
    \/ part = "layouts" /\ L!Init /\ NoSessions /\ NoView
    \/ part = "view" /\ V!Init /\ NoSessions /\ NoLayouts

DesktopNext ==
    \/ part = "sessions" /\ Next /\ UNCHANGED <<part, layoutsOnly, viewOnly>>
    \/ part = "layouts" /\ L!Next /\ UNCHANGED <<part, sessionsOnly, viewOnly>>
    \/ part = "view" /\ V!Next /\ UNCHANGED <<part, sessionsOnly, layoutsOnly>>

DesktopSpec == DesktopInit /\ [][DesktopNext]_everything

----------------------------------------------------------------------------
\* The desktop calls active only the session whose tunnel it keeps, and when no command is
\* under way the browser lists the desktop's sessions and marks the selected one.
SessionsAreTrue == part = "sessions" => ActiveIsTheTunnels /\ ListsAgree

\* The second press deletes no session that the first one did not name.
BulkDeletesAreAnnounced == [][part = "sessions" => BulkDeleteWasAnnounced]_everything

\* Nothing that the panel keeps of its sessions or its layouts refers to one that is gone, and an
\* import of either accounts for every item of its file.
NothingStaleNothingLost ==
    /\ part = "layouts" => L!NothingRefersToTheGone /\ L!EveryItemIsCounted
    /\ part = "view" => V!NothingOfGoneSessions /\ V!EverySessionItemIsCounted

\* A move changes the place of one folder or one preset, and a save or an imported item one session;
\* the rest stays as it is.
MovesKeepTheRest ==
    [][(part = "layouts" => L!MovesKeepTheRest) /\ (part = "view" => V!SavesTouchOne)]_everything
=============================================================================
