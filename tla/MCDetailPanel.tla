---------------------------- MODULE MCDetailPanel ----------------------------
(***************************************************************************)
(* The panels of the resource explorer: the list with its requests         *)
(* (ResourceListRequests), the detail of the selected resource             *)
(* (ResourceDetail), its events (ResourceEvents) and its logs (PodLogs),   *)
(* with the view of the log lines (LogView).  They share the selection and *)
(* nothing that one of them changes is read by another, so a behaviour is  *)
(* one panel's, and what belongs to the others is idle.                    *)
(***************************************************************************)
EXTENDS PodLogs, TLC

CONSTANTS
    Lines, Ranges, MaxLogLines,                                     \* LogView
    Sections, DefaultOpen, JumpSections, Resources, NoResource, Relations, Entries,
    MaxCollapsed, GridLimit, MaxRequests,                           \* ResourceDetail
    EventResources, Answers, Controls, DefaultControls, MaxPins,
    MaxEventRequests,                                               \* ResourceEvents
    Filters, Lists, Limit, LocalList, MaxRenders, MaxPages          \* ResourceListRequests

VARIABLES
    part,   \* "logs", "view", "detail", "events" or "list"
    logLines, searching, since, order, match, status, copying,
    related, values, active, open, listening, focus, frame, focusRequests,
    relationFilter, expanded, safeFilter, gridExpanded,
    events, error, eventsRequest, eventRequests, known, initialized, newKeys, notice,
    newOnly, notify, auto, controls, pinned,
    epoch, filters, renders, effectDue, cleanup, generation, primaryController,
    pageController, aborted, tickets, resources, cursor, liveResourceApiReady, loadingMore

V == INSTANCE LogView WITH lines <- logLines, MaxVisible <- MaxLogLines
D == INSTANCE ResourceDetail WITH requests <- focusRequests
E == INSTANCE ResourceEvents WITH Resources <- EventResources, MaxRequests <- MaxEventRequests,
                                  current <- eventsRequest, requests <- eventRequests
L == INSTANCE ResourceListRequests

EventsOf(r) == [of : {r}, key : STRING, text : Int, time : Int, severity : STRING]

\* What the server can answer: events of the resource asked for, pages of named resources,
\* each of which the graph that is listed has once.
ASSUME PanelAssumption ==
    /\ NoResource \notin Resources
    /\ MaxEventRequests \in Nat \ {0}
    /\ \A r \in EventResources : \A items \in Answers[r] : items \in Seq(EventsOf(r))
    /\ Lists \in Seq([Filters -> Seq(STRING)]) /\ Lists # <<>>
    /\ \A e \in DOMAIN Lists, f \in Filters : IsInjective(Lists[e][f])
    /\ LocalList \in Seq(STRING) /\ IsInjective(LocalList)
    /\ Limit \in Nat \ {0}

----------------------------------------------------------------------------
(* The instances that are checked *)

\* Both Pods have an "app" container, as the Pods of one workload have.
TheContainers == "p" :> <<"app", "proxy">> @@ "q" :> <<"app">>

\* A line without a time and with two matches, one found by its raw timestamp only, and
\* a late one that is not found.
ThreeLines ==
    {[time |-> 0, found |-> TRUE, hits |-> 2], [time |-> 3, found |-> TRUE, hits |-> 0],
     [time |-> 5, found |-> FALSE, hits |-> 0]}

Rel(g, b) == [group |-> g, hit |-> b]
Hits(n) == [hits |-> n]

\* A group that comes back after another, one that does not fit, one that grows.
TheRelations ==
    "web" :> {<<Rel("out", TRUE), Rel("in", FALSE), Rel("out", TRUE), Rel("own", TRUE)>>,
              <<Rel("out", FALSE), Rel("out", TRUE), Rel("out", TRUE)>>}
    @@ "api" :> {<<Rel("in", TRUE)>>}

TheEntries ==
    "web" :> {<<Hits(1), Hits(0), Hits(2)>>, <<Hits(1)>>}
    @@ "api" :> {<<Hits(0), Hits(0)>>}

ThreeSections == <<"metadata", "safe", "relations">>

Event(res, k, x, t, v) == [of |-> res, key |-> k, text |-> x, time |-> t, severity |-> v]

\* The Pod's warnings come and go, one of them twice in an answer, and are of one second: the
\* earlier one has no fraction, so that its text is the larger. One event has no timestamp.
TheAnswers ==
    LET old == Event("pod", "pulled", 1, 1, "normal")
        none == Event("pod", "probed", 0, 0, "other")
        warn(t) == Event("pod", ToString(t), 5 - t, t, "warning")
    IN  "pod" :> {<<>>, <<old, none>>, <<old, warn(3)>>, <<none, warn(2), warn(3)>>,
                  <<warn(3), warn(3)>>}
        @@ "node" :> {<<Event("node", "ready", 2, 2, "normal")>>}

TheControls ==
    {[severity |-> "all", since |-> 0, order |-> "newest"],
     [severity |-> "all", since |-> 0, order |-> "oldest"],
     [severity |-> "warning", since |-> 3, order |-> "newest"]}

TheDefaults == [severity |-> "all", since |-> 0, order |-> "newest"]

\* The second snapshot has one resource more, in front, and one less.
TwoSnapshots == <<
    [f \in Filters |-> IF f = "f1" THEN <<"a", "b", "c">> ELSE <<"b">>],
    [f \in Filters |-> IF f = "f1" THEN <<"d", "a", "c">> ELSE <<"d">>]>>

OneSnapshot == << [f \in Filters |-> <<"a", "b", "c">>] >>

TheLocalList == <<"a">>

----------------------------------------------------------------------------
logOnly == <<container, previous, shown, pending, paused, streaming, current, fetches, streams>>
viewOnly == <<logLines, searching, since, order, status, copying>>
detailOnly == <<related, values, active, open, listening, focus, frame, focusRequests,
                relationFilter, expanded, safeFilter, gridExpanded>>
eventsOnly == <<events, eventsRequest, eventRequests, known, initialized, newKeys, notice,
                newOnly, notify, auto, controls, pinned>>
listOnly == <<epoch, filters, renders, effectDue, cleanup, generation, primaryController,
              pageController, aborted, tickets, resources, cursor, liveResourceApiReady,
              loadingMore>>
shared == <<live, resource, loading, error, match>>

panels == <<part, logOnly, viewOnly, detailOnly, eventsOnly, listOnly, shared>>

Idle == "idle"

LogsIdle ==
    /\ container = Idle /\ previous = FALSE
    /\ shown = <<>> /\ pending = <<>> /\ paused = FALSE
    /\ streaming = FALSE /\ current = 0
    /\ fetches = [f \in Fetches |-> Unsent] /\ streams = [s \in Streams |-> Unsent]

ViewIdle ==
    /\ logLines = Idle /\ searching = Idle /\ since = Idle /\ order = Idle
    /\ status = Idle /\ copying = Idle

DetailIdle ==
    /\ related = Idle /\ values = Idle /\ active = Idle /\ open = Idle /\ listening = Idle
    /\ focus = Idle /\ frame = Idle /\ focusRequests = Idle /\ relationFilter = Idle
    /\ expanded = Idle /\ safeFilter = Idle /\ gridExpanded = Idle

EventsIdle ==
    /\ events = Idle /\ eventsRequest = Idle /\ eventRequests = Idle /\ known = Idle
    /\ initialized = Idle /\ newKeys = Idle /\ notice = Idle /\ newOnly = Idle
    /\ notify = Idle /\ auto = Idle /\ controls = Idle /\ pinned = Idle

ListIdle ==
    /\ epoch = Idle /\ filters = Idle /\ renders = Idle /\ effectDue = Idle
    /\ cleanup = Idle /\ generation = Idle /\ primaryController = Idle
    /\ pageController = Idle /\ aborted = Idle /\ tickets = Idle /\ resources = Idle
    /\ cursor = Idle /\ liveResourceApiReady = Idle /\ loadingMore = Idle

PanelInit ==
    \/ /\ part = "logs" /\ Init
       /\ ViewIdle /\ DetailIdle /\ EventsIdle /\ ListIdle
       /\ error = Idle /\ match = Idle
    \/ /\ part = "view" /\ V!Init
       /\ LogsIdle /\ DetailIdle /\ EventsIdle /\ ListIdle
       /\ live = Idle /\ resource = Idle /\ loading = Idle /\ error = Idle
    \/ /\ part = "detail" /\ D!Init
       /\ LogsIdle /\ ViewIdle /\ EventsIdle /\ ListIdle
       /\ live = Idle /\ loading = Idle /\ error = Idle
    \/ /\ part = "events" /\ E!Init
       /\ LogsIdle /\ ViewIdle /\ DetailIdle /\ ListIdle
       /\ match = Idle
    \/ /\ part = "list" /\ L!Init
       /\ LogsIdle /\ ViewIdle /\ DetailIdle /\ EventsIdle
       /\ resource = Idle /\ match = Idle

PanelNext ==
    \/ /\ part = "logs" /\ Next
       /\ UNCHANGED <<part, viewOnly, detailOnly, eventsOnly, listOnly, error, match>>
    \/ /\ part = "view" /\ V!Next
       /\ UNCHANGED <<part, logOnly, detailOnly, eventsOnly, listOnly,
                      live, resource, loading, error>>
    \/ /\ part = "detail" /\ D!Next
       /\ UNCHANGED <<part, logOnly, viewOnly, eventsOnly, listOnly, live, loading, error>>
    \/ /\ part = "events" /\ E!Next
       /\ UNCHANGED <<part, logOnly, viewOnly, detailOnly, listOnly, match>>
    \/ /\ part = "list" /\ L!Next
       /\ UNCHANGED <<part, logOnly, viewOnly, detailOnly, eventsOnly, resource, match>>

PanelSpec == PanelInit /\ [][PanelNext]_panels

----------------------------------------------------------------------------
\* No panel shows what was asked for something else: the lines that a stream brought, shown
\* or kept back, are of the Pod, container and instance that is selected, the events are of the resource that
\* is shown and their marks fit them, the rows and the cursor that continues them are of
\* the filters now set, whatever changed while the requests were under way.
AnswersMatchTheSelection ==
    /\ part = "logs" => FollowedLinesMatchSelection
    /\ part = "events" => E!EventsAreOfTheResource /\ E!MarkersFitTheEvents
    /\ part = "list" => L!ShownMatchesFilters

\* A spinner has a request behind it that will put it down: no selection, mount, refusal,
\* abort or failure leaves a panel loading with nothing on its way.
SpinnersHaveRequests ==
    /\ part = "logs" => SpinnerHasARequest
    /\ part = "events" => E!SpinnerHasARequest
    /\ part = "list" => L!SpinnersHaveRequests

\* What a panel lists is in order, nothing twice and nothing out of reach: followed lines
\* without a gap, lines and events as sorted, each relation on the screen or counted, the
\* active match of a search on the screen, and all of a log can be saved.
ListsAreWholeAndInOrder ==
    /\ part = "logs" => FollowedLinesInOrder
    /\ part = "view" => V!LogLinesInOrder /\ V!ActiveLogMatchExists /\ V!WholeLogWithinReach
    /\ part = "detail" => D!EveryRelationIsShownOrCounted /\ D!SafeMatchIsOnScreen
    /\ part = "events" => E!ListIsInOrder
    /\ part = "list" => L!NoResourceTwice

\* While the server's list does not change, the rows shown are a prefix of it: pages that
\* were asked for one after the other leave no row out.
PagesAreContiguous == part = "list" => L!PagesAreContiguous

\* With notifications on, a refresh of a known list of events marks every warning that
\* the list did not have, counts them in the banner, and unmarks none still marked.
NewWarningsAreMarked == [][part = "events" => E!WarningsAreMarked]_panels

\* What the reader opened, filtered and expanded is the resource's: a refresh of the
\* same resource keeps it, another resource starts without it.
ReaderStateIsTheResources == [][part = "detail" => D!ReaderStateStays]_panels
=============================================================================
