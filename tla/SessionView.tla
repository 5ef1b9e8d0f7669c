----------------------------- MODULE SessionView -----------------------------
(***************************************************************************)
(* What the desktop panel keeps beside the sessions (DesktopCmSessionPanel *)
(* with desktopCmSessionView): groups and favourites, filters and saved    *)
(* filters, the form that edits or clones a session, the sessions picked   *)
(* for a bulk action, and the export and import of sessions.               *)
(*                                                                         *)
(* The sessions belong to useDesktopCmSessionController: they are loaded,  *)
(* saved, deleted and diagnosed while the panel is open.  A save and an    *)
(* import wait for the desktop; an import waits once for every item and    *)
(* works with the sessions of the render in which it was started.          *)
(*                                                                         *)
(* A name or a group stands for those equal up to case and blanks, and a   *)
(* host for the whole endpoint.  Every setter of the preferences and of    *)
(* the saved filters writes what it sets, so the storage is read at the    *)
(* start only.  The order within a group, messages and times are left out. *)
(***************************************************************************)
EXTENDS Naturals, Sequences, FiniteSets

CONSTANTS
    Ids, NoId,      \* ids of sessions, and none
    Names, NoName,  \* what the user types; NoName is an empty field or no query
    Hosts, BadHost, \* endpoints, and one that is malformed
    Groups, General,\* groups, of which General is the default one
    Starts,         \* the desktop's sessions when the panel is opened
    Stored,         \* the preferences found in the storage
    Layouts,        \* the preferences of saved layouts
    Files,          \* the bundles: sequences of items, one without a name or with BadHost is malformed
    MaxItems,       \* maxItems of an import
    MaxFilters,     \* maxDesktopCmDiagnosticFilterPresets
    MaxPresses      \* bound: what the user does and what happens to the sessions

VARIABLES
    listed,         \* sessions: [id, name, host, diag], the newest first
    runtime,        \* runtimeProfile: [id, diag]
    prefs,          \* sessionViewPreferences: [of |-> id -> [group, favorite], collapsed]
    filter,         \* the query and the two diagnostic filters
    filters,        \* diagnosticFilterPresets: [name, stage, severity], the newest first
    form,           \* form and cloneDraftSourceName: [id, name, host, clone]
    ticked,         \* selectedBulkSessionIds
    saving,         \* the form that is being saved, <<>> or <<form>>
    loop,           \* the import under way, <<>> or <<[items, todo, known, imported, updated]>>
    summary,        \* importSummary
    loading,        \* the first list of sessions is not there yet
    used,           \* ids given out: a generated id has the time in it
    presses

panel == <<filter, filters, saving, loop, summary>>
vars  == <<listed, runtime, prefs, form, ticked, panel, loading, used, presses>>

(* The elements of a sequence at some places, in their order. *)
Nth(K, k) == CHOOSE i \in K : Cardinality({j \in K : j < i}) = k - 1
At(s, K)  == [k \in 1..Cardinality(K) |-> s[Nth(K, k)]]

(***************************** preferences *********************************)
Plain      == [group |-> General, favorite |-> FALSE]
Pref(p, i) == IF i \in DOMAIN p.of THEN p.of[i] ELSE Plain
IdsOf(s)   == {s[k].id : k \in DOMAIN s}
Group(g)   == IF g = NoName THEN General ELSE g

\* upsertDesktopCmSessionViewPreference for some sessions: a plain preference is not kept.
Changed(p, new) ==
    LET kept == {i \in DOMAIN p.of \cup DOMAIN new : i \in DOMAIN new => new[i] # Plain}
    IN  [p EXCEPT !.of = [i \in kept |-> IF i \in DOMAIN new THEN new[i] ELSE p.of[i]]]

Pruned(p, s) == [p EXCEPT !.of = [i \in DOMAIN p.of \cap IdsOf(s) |-> p.of[i]]]

Grouped(N, g)     == Changed(prefs, [i \in N |-> [Pref(prefs, i) EXCEPT !.group = Group(g)]])
Favored(N, Is(_)) == Changed(prefs, [i \in N |-> [Pref(prefs, i) EXCEPT !.favorite = Is(i)]])

(***************************** what is shown *******************************)
All == "all"

\* getDisplayedCmDiagnostic: the runtime's diagnostic takes the place of its session's.
Diagnostic(s) == IF runtime.id = s.id THEN runtime.diag ELSE s.diag

\* The search looks in the name, the endpoint, the group and the diagnostic.
Found(s) ==
    LET d == Diagnostic(s) IN
    /\ filter.query \in {NoName, s.name[1], s.host, Pref(prefs, s.id).group, d.severity}
    /\ filter.stage \in {All, d.stage} /\ filter.severity \in {All, d.severity}

Visible    == {k \in DOMAIN listed : Found(listed[k])}
VisibleIds == {listed[k].id : k \in Visible}

\* buildDesktopCmSessionGroups: the groups of the sessions that are found, with what was found and
\* how many the group has in all.
InGroup(g)  == {i \in IdsOf(listed) : Pref(prefs, i).group = g}
ShownGroups == {[group |-> g, sessions |-> InGroup(g) \cap VisibleIds, total |-> Cardinality(InGroup(g)),
                 favorites |-> Cardinality({i \in InGroup(g) : Pref(prefs, i).favorite}), collapsed |-> g \in prefs.collapsed] :
                g \in {Pref(prefs, i).group : i \in VisibleIds}}

(***************************** sessions ************************************)
EmptyForm == [id |-> NoId, name |-> NoName, host |-> NoName, clone |-> FALSE]
NoFilter  == [query |-> NoName, stage |-> All, severity |-> All]
Fresh     == [stage |-> "metadata", severity |-> "info"]
Broken    == [stage |-> "tunnel", severity |-> "error"]
NoRuntime == [id |-> NoId, diag |-> Fresh]

\* The list is replaced, and the effects drop the form, the preferences and the ticks of sessions
\* that are gone; an empty list drops no preference.
Listed(s, f) ==
    /\ listed' = s
    /\ form' = IF f.id \in IdsOf(s) \cup {NoId} THEN f ELSE EmptyForm
    /\ prefs' = IF s = <<>> THEN prefs ELSE Pruned(prefs, s)
    /\ ticked' = ticked \cap IdsOf(s)

\* upsertDesktopCmSession
Upsert(s) ==
    IF s.id \in IdsOf(listed)
    THEN [k \in DOMAIN listed |-> IF listed[k].id = s.id THEN s ELSE listed[k]]
    ELSE <<s>> \o listed

\* normalizeDesktopCmSessionInput: the host, the user and the ports of an endpoint are checked.
HostAccepted(h) == h # BadHost
Accepts(input)  == input.name # NoName /\ HostAccepted(input.host)

\* A save that the desktop accepts: under its own id, or under a new one.
SavedInput(input, f) ==
    /\ Accepts(input)
    /\ \E i \in IF input.id = NoId THEN Ids \ used ELSE {input.id} :
          /\ used' = used \cup {i}
          /\ Listed(Upsert([id |-> i, name |-> input.name, host |-> input.host, diag |-> Fresh]), f)

NotSaved == UNCHANGED <<listed, form, prefs, ticked, used>>

Loaded ==
    /\ loading /\ loading' = FALSE
    /\ \E s \in Starts : Listed(s, form) /\ used' = used \cup IdsOf(s)
    /\ UNCHANGED <<runtime, panel, presses>>

Press == presses < MaxPresses /\ presses' = presses + 1

\* A deletion is answered, here or from a bulk deletion; the profile goes with its session.
Deleted(i) ==
    /\ Press /\ ~loading
    /\ Listed(At(listed, {k \in DOMAIN listed : listed[k].id # i}), form)
    /\ runtime' = IF runtime.id = i THEN NoRuntime ELSE runtime
    /\ UNCHANGED <<panel, loading, used>>

Diagnosed(i, d) == [k \in DOMAIN listed |-> IF listed[k].id = i THEN [listed[k] EXCEPT !.diag = d] ELSE listed[k]]

\* A session is checked; a tunnel is started, checked or stopped.
Checked(i, d) ==
    Press /\ Listed(Diagnosed(i, d), form) /\ UNCHANGED <<runtime, panel, loading, used>>
Ran(i, d) ==
    Press /\ runtime' = [id |-> i, diag |-> d] /\ Listed(Diagnosed(i, d), form) /\ UNCHANGED <<panel, loading, used>>

\* The tunnel is stopped, or found lost.
Stopped(severity) ==
    /\ Press /\ runtime.id # NoId /\ runtime' = NoRuntime
    /\ Listed(Diagnosed(runtime.id, [stage |-> "runtime", severity |-> severity]), form)
    /\ UNCHANGED <<panel, loading, used>>

\* The key of a session is deleted, and its tunnel is gone.
KeyDeleted(i) ==
    /\ Press /\ runtime.id = i /\ runtime' = NoRuntime
    /\ Listed(Diagnosed(i, Fresh), form) /\ UNCHANGED <<panel, loading, used>>

\* The profile that the desktop has when the panel is opened; the list may be there or not.
RuntimeRead(i, d) ==
    /\ Press /\ runtime.id = NoId /\ runtime' = [id |-> i, diag |-> d]
    /\ UNCHANGED <<listed, prefs, form, ticked, panel, loading, used>>

(***************************** the form ************************************)
Fill(f) == Press /\ form' = f /\ UNCHANGED <<listed, runtime, prefs, ticked, panel, loading, used>>

TypeName(n)  == Fill([form EXCEPT !.name = IF n = NoName THEN NoName ELSE <<n>>])
TypeHost(h)  == Fill([form EXCEPT !.host = h])
CancelForm   == (form.id # NoId \/ form.clone) /\ Fill(EmptyForm)
EditSession(s) == Fill([id |-> s.id, name |-> s.name, host |-> s.host, clone |-> FALSE])

\* buildDesktopCmSessionCloneName: the first of "A copy", "A copy 2", ... that no session has.
CloneName(n) ==
    LET taken == {listed[k].name : k \in DOMAIN listed}
        free  == {k \in 1..(Len(listed) + 1) : Append(n, <<"copy", k>>) \notin taken}
    IN  Append(n, <<"copy", CHOOSE k \in free : \A j \in free : k <= j>>)

CloneSession(s) == Fill([id |-> NoId, name |-> CloneName(s.name), host |-> s.host, clone |-> TRUE])

\* handleSave: an incomplete form is refused; the button is disabled while a save is under way.
Save ==
    /\ Press /\ saving = <<>> /\ form.name # NoName /\ form.host # NoName
    /\ saving' = <<form>>
    /\ UNCHANGED <<listed, runtime, prefs, form, ticked, filter, filters, loop, summary, loading, used>>

\* ... after its await: whatever is in the form by then is cleared, unless the save failed.
SaveReturns ==
    /\ saving # <<>> /\ ~loading
    /\ SavedInput(saving[1], EmptyForm) \/ NotSaved
    /\ saving' = <<>> /\ UNCHANGED <<runtime, filter, filters, loop, summary, loading, presses>>

(***************************** export and import ***************************)
ItemOf(s) == [name |-> s.name, host |-> s.host]

\* createDesktopCmSessionExportBundle of all sessions or of those that are ticked, in their order
Exported(N) ==
    LET own == At(listed, {k \in DOMAIN listed : listed[k].id \in N})
    IN  [k \in DOMAIN own |-> ItemOf(own[k])]

\* parseDesktopCmSessionImportBundle: the first MaxItems well-formed items, each endpoint once;
\* what comes after them is skipped unread.
Firsts(s)   == {k \in DOMAIN s : Accepts(s[k]) /\ \A j \in 1..(k - 1) : s[j] # s[k]}
Full(s, k)  == Cardinality(Firsts(s) \cap 1..(k - 1)) >= MaxItems
Accepted(s) == {k \in Firsts(s) : ~Full(s, k)}
Invalid(s)  == {k \in DOMAIN s : ~Accepts(s[k]) /\ ~Full(s, k)}
Skipped(s)  == {k \in DOMAIN s : Full(s, k) \/ (Accepts(s[k]) /\ k \notin Firsts(s))}

\* The sessions known by their endpoint: of several the last.
Known ==
    [item \in {ItemOf(listed[k]) : k \in DOMAIN listed} |->
        listed[CHOOSE k \in DOMAIN listed : ItemOf(listed[k]) = item /\ \A j \in DOMAIN listed : ItemOf(listed[j]) = item => j <= k].id]

Counted(l) == [items |-> Len(l.items), imported |-> l.imported, updated |-> l.updated,
               skipped |-> Cardinality(Skipped(l.items)), invalid |-> Cardinality(Invalid(l.items))]

\* The loop goes on, or ends with its summary.
GoOn(l) == IF l.todo = {} THEN loop' = <<>> /\ summary' = <<Counted(l)>> ELSE loop' = <<l>> /\ UNCHANGED summary

\* handleImportSessions up to its first await
ImportSessions(items) ==
    /\ Press /\ loop = <<>>
    /\ GoOn([items |-> items, todo |-> Accepted(items), known |-> Known, imported |-> 0, updated |-> 0])
    /\ UNCHANGED <<listed, runtime, prefs, form, ticked, filter, filters, saving, loading, used>>

\* ... after one: an endpoint that was known is saved over its session.  A failure ends the loop.
ImportReturns ==
    /\ loop # <<>> /\ ~loading
    /\ LET l    == loop[1]
           k    == CHOOSE j \in l.todo : \A m \in l.todo : j <= m
           item == ItemOf(l.items[k])
           old  == item \in DOMAIN l.known
           left == [l EXCEPT !.todo = @ \ {k}] IN
       \/ /\ SavedInput([id |-> IF old THEN l.known[item] ELSE NoId, name |-> item.name, host |-> item.host], form)
          /\ GoOn(IF old THEN [left EXCEPT !.updated = @ + 1] ELSE [left EXCEPT !.imported = @ + 1])
       \/ NotSaved /\ loop' = <<>> /\ UNCHANGED summary
    /\ UNCHANGED <<runtime, filter, filters, saving, loading, presses>>

(***************************** filters *************************************)
Look(f) == Press /\ f # filter /\ filter' = f /\ UNCHANGED <<listed, runtime, prefs, form, ticked, filters, saving, loop, summary, loading, used>>

SetQuery(q)    == Look([filter EXCEPT !.query = q])
SetStage(x)    == Look([filter EXCEPT !.stage = x])
SetSeverity(x) == Look([filter EXCEPT !.severity = x])
ClearFilters   == Look([filter EXCEPT !.stage = All, !.severity = All])
ApplyFilter(f) == Look([filter EXCEPT !.stage = f.stage, !.severity = f.severity])

Keep(fs) == Press /\ filters' = fs /\ UNCHANGED <<listed, runtime, prefs, form, ticked, filter, saving, loop, summary, loading, used>>

OthersThan(n) == At(filters, {k \in DOMAIN filters : filters[k].name # n})

\* handleSaveDiagnosticFilterPreset: an empty name is made from the filters.
SaveFilter(n) ==
    LET name == IF n = NoName THEN <<filter.stage, filter.severity>> ELSE <<n>>
        all  == <<[name |-> name, stage |-> filter.stage, severity |-> filter.severity]>> \o OthersThan(name)
    IN  Keep(SubSeq(all, 1, IF Len(all) < MaxFilters THEN Len(all) ELSE MaxFilters))

DeleteFilter(n) == Keep(OthersThan(n))

(***************************** groups and ticks ****************************)
Prefer(p) == Press /\ prefs' = p /\ UNCHANGED <<listed, runtime, form, ticked, panel, loading, used>>

SetGroup(i, g)   == Prefer(Grouped({i}, g))
ToggleFavorite(i) == Prefer(Favored({i}, LAMBDA j : ~Pref(prefs, j).favorite))
MoveTicked(g)    == Prefer(Grouped(ticked, g))
FavorTicked(b)   == Prefer(Favored(ticked, LAMBDA j : b))
Collapse(g)      == Prefer([prefs EXCEPT !.collapsed = IF g \in @ THEN @ \ {g} ELSE @ \cup {g}])

Tick(T) == Press /\ ticked' = T /\ UNCHANGED <<listed, runtime, prefs, form, panel, loading, used>>

\* One session, or what a group shows: unticked if all of it is ticked.
TickThese(N) == Tick(IF N \subseteq ticked THEN ticked \ N ELSE ticked \cup N)
TickVisible  == Visible # {} /\ Tick(ticked \cup VisibleIds)
TickNone     == ticked # {} /\ Tick({})

\* onApplyViewPreferences: a layout takes the place of the preferences, pruned to the sessions.
ApplyLayout(p) ==
    /\ Press /\ listed # <<>>
    /\ prefs' = Pruned(p, listed) /\ ticked' = {}
    /\ UNCHANGED <<listed, runtime, form, panel, loading, used>>

-----------------------------------------------------------------------------
(***************************** what the panel offers ***********************)
Init ==
    /\ listed = <<>> /\ runtime = NoRuntime /\ prefs \in Stored
    /\ filter = NoFilter /\ filters = <<>> /\ form = EmptyForm /\ ticked = {}
    /\ saving = <<>> /\ loop = <<>> /\ summary = <<>> /\ loading = TRUE /\ used = {} /\ presses = 0

\* A card is shown for a session that is found, in a group that is open.
Card(s) ==
    /\ s.id \in VisibleIds /\ Pref(prefs, s.id).group \notin prefs.collapsed
    /\ \/ TickThese({s.id}) \/ ToggleFavorite(s.id) \/ EditSession(s) \/ CloneSession(s)
       \/ \E g \in Groups \cup {NoName} : g # Pref(prefs, s.id).group /\ SetGroup(s.id, g)

GroupHeader(g) == TickThese(g.sessions) \/ Collapse(g.group)

Form ==
    \/ CancelForm \/ Save
    \/ \E n \in Names \cup {NoName} : TypeName(n)
    \/ \E h \in Hosts \cup {BadHost, NoName} : TypeHost(h)

Transfer == \E items \in Files \cup {Exported(IdsOf(listed)), Exported(ticked)} : ImportSessions(items)

SearchBar ==
    /\ listed # <<>>
    /\ \/ \E q \in Names \cup Groups \cup {"error", NoName} : SetQuery(q)
       \/ \E x \in {All, "metadata", "tunnel"} : SetStage(x)
       \/ \E x \in {All, "info", "error"} : SetSeverity(x)
       \/ ClearFilters \/ TickVisible \/ TickNone
       \/ \E n \in Names \cup {NoName} : SaveFilter(n)
       \/ \E k \in DOMAIN filters : ApplyFilter(filters[k]) \/ DeleteFilter(filters[k].name)
       \/ \E p \in Layouts : ApplyLayout(p)

BulkToolbar ==
    /\ ticked # {}
    /\ \/ \E g \in Groups \cup {NoName} : MoveTicked(g)
       \/ \E b \in BOOLEAN : FavorTicked(b)

\* What useDesktopCmSessionController does to the sessions.
Controller ==
    \/ Loaded \/ Stopped("info") \/ Stopped("error")
    \/ \E s \in Starts : \E k \in DOMAIN s : RuntimeRead(s[k].id, Broken)
    \/ \E i \in IdsOf(listed) : Deleted(i) \/ KeyDeleted(i) \/ \E d \in {Fresh, Broken} : Checked(i, d) \/ Ran(i, d)

Next ==
    \/ Controller \/ SaveReturns \/ ImportReturns
    \/ Form \/ Transfer \/ SearchBar \/ BulkToolbar
    \/ \E g \in ShownGroups : GroupHeader(g)
    \/ \E k \in DOMAIN listed : Card(listed[k])

Spec == Init /\ [][Next]_vars

(***************************** properties **********************************)
\* No session is listed twice, and what the panel keeps (ticks, the form, groups and favourites)
\* is of sessions that are listed, whatever was deleted, saved or imported meanwhile; the saved
\* filters are few and each name is there once.
NothingOfGoneSessions ==
    /\ \A j, k \in DOMAIN listed : listed[j].id = listed[k].id => j = k
    /\ ticked \subseteq IdsOf(listed) /\ form.id \in IdsOf(listed) \cup {NoId}
    /\ listed # <<>> => DOMAIN prefs.of \subseteq IdsOf(listed)
    /\ Len(filters) <= MaxFilters
    /\ \A j, k \in DOMAIN filters : filters[j].name = filters[k].name => j = k

\* An import counts every item of its file once: as new, updated, skipped, invalid or still to do.
EverySessionItemIsCounted ==
    /\ loop # <<>> =>
         LET l == loop[1] c == Counted(l) IN
         c.imported + c.updated + c.skipped + c.invalid + Cardinality(l.todo) = c.items
    /\ summary # <<>> =>
         LET c == summary[1] IN c.imported + c.updated + c.skipped + c.invalid = c.items

\* A save or an imported item changes or adds one session: the others stay in their places, no tick
\* is lost and no preference of a listed session changes.
SavesTouchOne ==
    SaveReturns \/ ImportReturns =>
        /\ \E i \in Ids : \A k \in DOMAIN listed :
              listed[k].id = i \/ listed'[k + (Len(listed') - Len(listed))] = listed[k]
        /\ Len(listed') \in {Len(listed), Len(listed) + 1}
        /\ ticked' = ticked
        /\ \A k \in DOMAIN listed : Pref(prefs', listed[k].id) = Pref(prefs, listed[k].id)
=============================================================================
