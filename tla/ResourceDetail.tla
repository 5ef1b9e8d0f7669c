---------------------------- MODULE ResourceDetail ----------------------------
(***************************************************************************)
(* The detail panel of the resource explorer in one browser: its sections  *)
(* and shortcuts (useResourceDetailSectionsController,                     *)
(* resourceDetailShortcut.ts), the relations                               *)
(* (useResourceRelationsController, ResourceRelationsSection) and the      *)
(* search of the Safe Preview (ResourceSafePreviewSection, KeyValueGrid).  *)
(* Events and logs have modules of their own.                              *)
(*                                                                         *)
(* A callback and the effects it sets off are one action; the animation    *)
(* frames that move the focus come later.  A relation is its group and     *)
(* whether the one text tried finds it, an entry of the Safe Preview the   *)
(* number of matches that text has in its key and value.                   *)
(***************************************************************************)
EXTENDS Integers, Sequences, SequencesExt, FiniteSets

CONSTANTS
    Sections,       \* detailKeyboardSections
    DefaultOpen,    \* defaultOpenDetailSections
    JumpSections,   \* detailJumpSections
    Resources,      \* the resources that can be selected
    NoResource,     \* none is: the list is empty
    Relations,      \* Relations[r]: what r's relations can be, sequences
    Entries,        \* Entries[r]: what r's safe summary can be, sequences
    MaxCollapsed,   \* maxCollapsedRelations
    GridLimit,      \* the entries a KeyValueGrid shows before it is expanded
    MaxRequests     \* bound on the times Enter is pressed in the list

VARIABLES
    resource,    \* the selected resource
    related,     \* resource.related
    values,      \* keyValueEntries(summaryPreview)
    active,      \* activeDetailSectionId
    open,        \* openSections
    listening,   \* detailPanelActiveRef
    focus,       \* where the focus is: outside, in the panel, on a section or a control
    frame,       \* what the next animation frame focuses, NoFrame for nothing
    requests,    \* detailFocusRequest
    relationFilter, expanded,           \* useResourceRelationsController
    safeFilter, match, gridExpanded     \* ResourceSafePreviewSection and its grid

shownResource == <<resource, related, values>>
sections == <<active, open>>
attention == <<listening, focus, frame>>
relations == <<relationFilter, expanded>>
safe == <<safeFilter, match, gridExpanded>>

vars == <<shownResource, sections, attention, requests, relations, safe>>

SectionIds == ToSet(Sections)
NoFrame == "nothing"

MinOf(a, b) == IF a < b THEN a ELSE b

----------------------------------------------------------------------------
(* The relations *)

FilteredRelations ==
    IF relationFilter THEN SelectSeq(related, LAMBDA r : r.hit) ELSE related

\* groupRelatedResources lists the first so many of them.
ListedRelations ==
    IF expanded THEN FilteredRelations
    ELSE SubSeq(FilteredRelations, 1, MinOf(MaxCollapsed, Len(FilteredRelations)))

InGroup(s, g) == SelectSeq(s, LAMBDA r : r.group = g)

\* A group counts all of its relations, also those that are not listed.
Group(g) == [count |-> Len(InGroup(FilteredRelations, g)), items |-> InGroup(ListedRelations, g)]

\* A group without a relation to list is left out.
RelationGroups == {g \in {r.group : r \in ToSet(FilteredRelations)} : Group(g).items # <<>>}

ItemsShown == MapThenSumSet(LAMBDA g : Len(Group(g).items), RelationGroups)

\* The number in the button that expands the list.
HiddenRelations == Len(FilteredRelations) - ItemsShown

----------------------------------------------------------------------------
(* The Safe Preview *)

MatchesIn(s) == FlattenSeq([k \in DOMAIN s |-> [h \in 1..s[k].hits |-> k]])

\* collectKeyValueSearchMatches: the place of an entry once for each of its matches.
Matches == IF safeFilter THEN MatchesIn(values) ELSE <<>>

EntryMatches(k) == ~safeFilter \/ values[k].hits > 0

\* KeyValueGrid: a search is not cut off.
Rows ==
    IF safeFilter THEN {k \in DOMAIN values : EntryMatches(k)}
    ELSE {k \in DOMAIN values : gridExpanded \/ k <= GridLimit}

Clamped(m, s) == IF Len(s) = 0 THEN 0 ELSE MinOf(m, Len(s) - 1)

----------------------------------------------------------------------------
DefaultSections == active = Sections[1] /\ open = DefaultOpen

Init ==
    /\ resource = NoResource /\ related = <<>> /\ values = <<>>
    /\ DefaultSections
    /\ listening = FALSE /\ focus = "outside" /\ frame = NoFrame /\ requests = 0
    /\ relationFilter = FALSE /\ expanded = FALSE
    /\ safeFilter = FALSE /\ match = 0 /\ gridExpanded = FALSE

Show(r) ==
    /\ resource' = r
    /\ related' \in Relations[r] /\ values' \in Entries[r]

StartOverButTheRelations ==
    /\ active' = Sections[1] /\ open' = DefaultOpen
    /\ UNCHANGED relations
    /\ safeFilter' = FALSE /\ match' = 0 /\ gridExpanded' = FALSE

\* The effects on resource.id, and the Safe Preview's key.
StartOver ==
    /\ active' = Sections[1] /\ open' = DefaultOpen
    /\ relationFilter' = FALSE /\ expanded' = FALSE
    /\ safeFilter' = FALSE /\ match' = 0 /\ gridExpanded' = FALSE

\* The list has a row again and selects it.  The panel listens and takes the focus when
\* it is mounted after a request, however long ago that was.
Appear(r) ==
    /\ resource = NoResource
    /\ Show(r) /\ StartOver
    /\ IF requests = 0 THEN UNCHANGED <<listening, frame>>
       ELSE listening' = TRUE /\ frame' = "panel"
    /\ UNCHANGED <<focus, requests>>

\* A row of the list is clicked or moved to, or the list selects another one itself.
SelectRow(r) ==
    /\ resource \notin {r, NoResource}
    /\ Show(r) /\ StartOver
    /\ \/ listening' = FALSE /\ focus' = "outside"
       \/ UNCHANGED <<listening, focus>>
    /\ UNCHANGED <<frame, requests>>

\* A relation is clicked: the clicked row goes and the focus with it, unnoticed.
SelectRelation(r) ==
    /\ r # resource
    /\ "relations" \in open /\ ListedRelations # <<>>
    /\ Show(r) /\ StartOver
    /\ focus' = "outside" /\ listening' = TRUE
    /\ UNCHANGED <<frame, requests>>

\* The list becomes empty: the panel is unmounted, its frames find nothing.
Deselect ==
    /\ resource # NoResource
    /\ resource' = NoResource /\ related' = <<>> /\ values' = <<>>
    /\ StartOver
    /\ listening' = FALSE /\ focus' = "outside" /\ frame' = NoFrame
    /\ UNCHANGED requests

\* The list brings the same resource anew; its entries have the same keys when there
\* are as many.
Refresh ==
    /\ resource # NoResource /\ Show(resource)
    /\ match' = Clamped(match, IF safeFilter THEN MatchesIn(values') ELSE <<>>)
    /\ gridExpanded' = (gridExpanded /\ Len(values') = Len(values))
    /\ UNCHANGED <<sections, attention, requests, relationFilter, expanded, safeFilter>>

----------------------------------------------------------------------------
(* Pointer, focus and keys *)

\* On a section: onFocusCapture makes it the active one.
Focused(place) == IF place \in SectionIds THEN active' = place ELSE UNCHANGED active

\* The pointer or the Tab key goes somewhere that is not a control.
PointAt(place) ==
    /\ focus' = place /\ listening' = (place # "outside")
    /\ Focused(place)
    /\ UNCHANGED <<shownResource, open, frame, requests, relations, safe>>

\* Enter in the list.
RequestFocus ==
    /\ resource # NoResource /\ focus = "outside" /\ requests < MaxRequests
    /\ requests' = requests + 1
    /\ listening' = TRUE /\ frame' = "panel"
    /\ UNCHANGED <<shownResource, sections, focus, relations, safe>>

Frame ==
    /\ frame # NoFrame
    /\ focus' = frame /\ listening' = TRUE /\ frame' = NoFrame
    /\ Focused(frame)
    /\ UNCHANGED <<shownResource, open, requests, relations, safe>>

\* A grid is unmounted with its section.
OpenThese(ids) ==
    /\ open' = ids
    /\ gridExpanded' = (gridExpanded /\ "safe" \in ids)
    /\ UNCHANGED <<shownResource, requests, relations, safeFilter, match>>

Toggled(id) == IF id \in open THEN open \ {id} ELSE open \cup {id}

\* focusDetailSection: of several frames under way the last one counts.
Go(id) ==
    /\ active' = id /\ frame' = id
    /\ OpenThese(open \cup {id})

Index(id) == CHOOSE i \in DOMAIN Sections : Sections[i] = id

Neighbour(offset) ==
    Sections[((Index(active) - 1 + offset + Len(Sections)) % Len(Sections)) + 1]

\* What can be opened and closed at once: all sections, none, the default ones.
Bulk == {SectionIds, {}, DefaultOpen}

\* handleDetailShortcut: J K, 1 to 9, O, E, C, R.
Key ==
    /\ listening /\ focus # "control"
    /\ \/ \E id \in SectionIds : Go(id)
       \/ \E offset \in {-1, 1} : Go(Neighbour(offset))
       \/ \E ids \in Bulk \cup {Toggled(active)} : OpenThese(ids) /\ UNCHANGED <<active, frame>>
    /\ UNCHANGED <<listening, focus>>

\* A button of the panel's header has the focus.
InHeader == focus' = "control" /\ listening' = TRUE

Navigate == InHeader /\ \E id \in SectionIds : Go(id)

Jump == InHeader /\ \E id \in JumpSections : Go(id)

OpenOrClose ==
    /\ InHeader
    /\ \E ids \in Bulk \ {open} : OpenThese(ids)
    /\ UNCHANGED <<active, frame>>

\* A control within a section is used: it has the focus, its section is the active one.
Within(id) ==
    /\ active' = id /\ focus' = "control" /\ listening' = TRUE
    /\ UNCHANGED <<frame, requests, shownResource>>

ToggleSection(id) == Within(id) /\ OpenThese(Toggled(id))

----------------------------------------------------------------------------
(* What is in the sections *)

InRelations ==
    /\ "relations" \in open
    /\ Within("relations")
    /\ \/ /\ \E b \in BOOLEAN : relationFilter' = b
          /\ UNCHANGED expanded
       \/ /\ HiddenRelations > 0 \/ expanded
          /\ expanded' = ~expanded
          /\ UNCHANGED relationFilter
    /\ UNCHANGED <<open, safe>>

\* A text to search opens the section, an empty one does not.
FilterSafe(b) ==
    /\ safeFilter' = b /\ match' = 0
    /\ gridExpanded' = (gridExpanded /\ b = safeFilter)

MoveMatch(offset) ==
    /\ Matches # <<>>
    /\ match' = (match + offset + Len(Matches)) % Len(Matches)
    /\ UNCHANGED <<safeFilter, gridExpanded>>

ExpandGrid ==
    /\ ~safeFilter /\ Len(values) > GridLimit
    /\ gridExpanded' = ~gridExpanded
    /\ UNCHANGED <<safeFilter, match>>

InSafe ==
    /\ "safe" \in open
    /\ Within("safe")
    /\ \/ \E b \in BOOLEAN : FilterSafe(b)
       \/ \E offset \in {-1, 1} : MoveMatch(offset)
       \/ ExpandGrid
    /\ UNCHANGED <<open, relations>>

----------------------------------------------------------------------------
RowsChange ==
    \/ \E r \in Resources : Appear(r) \/ SelectRow(r)
    \/ Deselect \/ Refresh \/ RequestFocus

Panel ==
    /\ resource # NoResource
    /\ \/ \E place \in SectionIds \cup {"panel", "outside"} : PointAt(place)
       \/ Key \/ OpenOrClose \/ Navigate \/ Jump
       \/ \E id \in SectionIds : ToggleSection(id)
       \/ \E r \in Resources : SelectRelation(r)
       \/ InRelations \/ InSafe
       \/ Frame

Next == RowsChange \/ Panel

Spec == Init /\ [][Next]_vars

----------------------------------------------------------------------------
\* Filtered, cut off, expanded and grouped, every relation is on the screen or in the
\* number of the button that shows the rest: what the groups count beyond their items,
\* and the groups left out, are exactly what it promises.
EveryRelationIsShownOrCounted ==
    LET groups == {r.group : r \in ToSet(FilteredRelations)}
        beyond == MapThenSumSet(LAMBDA g : Group(g).count - Len(Group(g).items), RelationGroups)
        leftOut == MapThenSumSet(LAMBDA g : Len(InGroup(FilteredRelations, g)),
                                 groups \ RelationGroups)
    IN  /\ HiddenRelations = beyond + leftOut
        /\ expanded => HiddenRelations = 0

\* Whatever a refresh brings while the Safe Preview is searched, the active match is one
\* of the matches and its row is on the screen.
SafeMatchIsOnScreen ==
    Matches # <<>> => match + 1 \in DOMAIN Matches /\ Matches[match + 1] \in Rows

Fresh == DefaultSections /\ ~relationFilter /\ ~expanded /\ ~safeFilter /\ match = 0

\* What the reader opened, filtered and expanded is the resource's: a refresh of the
\* same resource keeps it, another resource starts without it.
ReaderStateStays ==
    /\ resource' # resource => Fresh'
    /\ resource' = resource /\ <<related, values>>' # <<related, values>>
         => UNCHANGED <<sections, relations, safeFilter>>
=============================================================================
