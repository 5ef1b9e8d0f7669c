------------------------ MODULE ResourceListRequests ------------------------
(***************************************************************************)
(* The Resource Explorer's list in the browser: useResourceListController  *)
(* with its ResourceListRequestCoordinator                                 *)
(* (website/src/features/resources), and the pages of                      *)
(* resourceListFromResources (httpapi/resource_list.go) that it asks for.  *)
(*                                                                         *)
(* React runs an effect some time after the render that changed one of its *)
(* dependencies; answers of fetch can arrive in between.                   *)
(***************************************************************************)
EXTENDS Integers, Sequences, FiniteSets

CONSTANTS
    Filters,    \* filters and sort order of the list
    Lists,      \* Lists[e][f]: what f matches in the e-th server snapshot
    Limit,      \* page size
    LocalList,  \* what the browser's own topology snapshot holds
    MaxRenders, \* bound on the renders that change what the effect depends on
    MaxPages    \* bound on the clicks on "load more"

None == 0                       \* no ticket: tickets are counted from 1
NoCursor == [offset |-> 0, filters |-> "none"]

VARIABLES
    epoch,              \* which snapshot the server holds
    live,               \* sourceMode === 'live' && liveEnabled
    filters,            \* the filters and the sort of the last render
    renders,            \* how often a dependency of the effect changed
    effectDue,          \* a dependency changed since the effect last ran
    cleanup,            \* the ticket the effect's cleanup would cancel
    generation,         \* the coordinator's generation and controllers
    primaryController,
    pageController,
    aborted,            \* tickets whose signal was aborted
    tickets,            \* the requests made so far
    resources,          \* the rows: ids, each with the filters it was asked with
    cursor,             \* resourceListMetadata.nextCursor
    liveResourceApiReady, loading, loadingMore, error

coordinator == <<generation, primaryController, pageController, aborted>>
view == <<resources, cursor, liveResourceApiReady, loading, loadingMore, error>>
vars == <<epoch, live, filters, renders, effectDue, cleanup, coordinator, tickets, view>>

Tickets == DOMAIN tickets
LocalRows == [i \in DOMAIN LocalList |-> [id |-> LocalList[i], of |-> "local"]]

\* The first render: the effect has not run yet.
Init ==
    /\ epoch = 1 /\ live \in BOOLEAN /\ filters \in Filters
    /\ renders = 0 /\ effectDue = TRUE /\ cleanup = None
    /\ generation = 0 /\ primaryController = None /\ pageController = None
    /\ aborted = {} /\ tickets = <<>>
    /\ resources = LocalRows /\ cursor = NoCursor
    /\ liveResourceApiReady = FALSE
    /\ loading = FALSE /\ loadingMore = FALSE /\ error = FALSE
----------------------------------------------------------------------------
\* The server.
ServerRefresh ==
    /\ epoch + 1 \in DOMAIN Lists
    /\ epoch' = epoch + 1
    /\ UNCHANGED <<live, filters, renders, effectDue, cleanup, coordinator, tickets, view>>

\* The page at an offset: past the end it is empty.
Page(f, offset) ==
    LET list == Lists[epoch][f]
        start == IF offset > Len(list) THEN Len(list) ELSE offset
        end == IF start + Limit < Len(list) THEN start + Limit ELSE Len(list)
    IN [rows |-> [i \in 1..(end - start) |-> [id |-> list[start + i], of |-> f]],
        next |-> IF end < Len(list) THEN [offset |-> end, filters |-> f] ELSE NoCursor]

Advance(t, phase) == tickets' = [tickets EXCEPT ![t].phase = phase]

\* resourceListCursorSignature: a cursor serves only the filters it was made for.
Answer(t) ==
    /\ tickets[t].phase = "sent"
    /\ tickets[t].cursor \in {NoCursor, [tickets[t].cursor EXCEPT !.filters = tickets[t].filters]}
    /\ tickets' = [tickets EXCEPT ![t].phase = "ok",
                                  ![t].answer = Page(tickets[t].filters, tickets[t].cursor.offset)]
    /\ UNCHANGED <<epoch, live, filters, renders, effectDue, cleanup, coordinator, view>>

\* The server or the network fails, the cursor is refused or the fetch aborted.
AnswerError(t) ==
    /\ tickets[t].phase = "sent"
    /\ Advance(t, "failed")
    /\ UNCHANGED <<epoch, live, filters, renders, effectDue, cleanup, coordinator, view>>
----------------------------------------------------------------------------
\* The coordinator.
\* Mutant: every answer counts.
IsCurrentAlways(t) == TRUE

IsCurrent(t) ==
    /\ tickets[t].generation = generation
    /\ t \notin aborted
    /\ t = IF tickets[t].kind = "primary" THEN primaryController ELSE pageController

Controllers(ts) == ts \cap {primaryController, pageController}
NewTicket(kind, gen, from, phase) ==
    Append(tickets, [kind |-> kind, generation |-> gen, filters |-> filters,
                     cursor |-> from, phase |-> phase,
                     answer |-> [rows |-> <<>>, next |-> NoCursor]])

\* finish(): what happens to the controllers and to the two loading flags.
Finish(t) ==
    /\ tickets[t].phase = "applied"
    /\ tickets' = [tickets EXCEPT ![t].phase = "over"]
    /\ IF ~IsCurrent(t)
       THEN UNCHANGED <<primaryController, pageController, loading, loadingMore>>
       ELSE IF tickets[t].kind = "primary"
       THEN primaryController' = None /\ loading' = FALSE
            /\ UNCHANGED <<pageController, loadingMore>>
       ELSE pageController' = None /\ loadingMore' = FALSE
            /\ UNCHANGED <<primaryController, loading>>
    /\ UNCHANGED <<epoch, live, filters, renders, effectDue, cleanup, generation, aborted,
                   resources, cursor, liveResourceApiReady, error>>
----------------------------------------------------------------------------
\* What a render changes; the effect follows.
Render(newLive, newFilters) ==
    /\ renders < MaxRenders /\ renders' = renders + 1
    /\ live' = newLive /\ filters' = newFilters /\ effectDue' = TRUE
    /\ UNCHANGED <<epoch, cleanup, coordinator, tickets, view>>

ChangeFilters == \E f \in Filters \ {filters} : Render(live, f)
ChangeSource == Render(~live, filters)
\* useTopology has a new snapshot, as it has after every refresh.
NewSnapshot == Render(live, filters)

\* The cleanup of the last effect: clearTimeout and cancelGeneration.
Cancelled ==
    IF cleanup # None /\ tickets[cleanup].phase = "timer"
    THEN [tickets EXCEPT ![cleanup].phase = "over"] ELSE tickets

CancelledGeneration ==
    IF cleanup # None /\ tickets[cleanup].generation = generation
    THEN generation + 1 ELSE generation

\* The effect without a live source: invalidate() and the local rows.
ShowLocal ==
    /\ effectDue /\ ~live
    /\ effectDue' = FALSE /\ cleanup' = None
    /\ tickets' = Cancelled
    /\ generation' = CancelledGeneration + 1
    /\ aborted' = aborted \cup Controllers(Tickets)
    /\ primaryController' = None /\ pageController' = None
    /\ resources' = LocalRows /\ cursor' = NoCursor
    /\ liveResourceApiReady' = FALSE
    /\ loading' = FALSE /\ loadingMore' = FALSE /\ error' = FALSE
    /\ UNCHANGED <<epoch, live, filters, renders>>

\* The effect with a live source: beginPrimary() and the timer.  The rows and
\* the cursor of the list that is replaced stay until the answer.
BeginPrimary ==
    /\ effectDue /\ live
    /\ effectDue' = FALSE /\ cleanup' = Len(tickets) + 1
    /\ generation' = CancelledGeneration + 1
    /\ aborted' = aborted \cup Controllers(Tickets)
    /\ tickets' = LET ticket == NewTicket("primary", CancelledGeneration + 1, NoCursor, "timer")
                  IN [t \in DOMAIN ticket |-> IF t \in Tickets THEN Cancelled[t] ELSE ticket[t]]
    /\ primaryController' = Len(tickets) + 1 /\ pageController' = None
    /\ liveResourceApiReady' = FALSE
    /\ loading' = TRUE /\ loadingMore' = FALSE /\ error' = FALSE
    /\ UNCHANGED <<epoch, live, filters, renders, resources, cursor>>

\* The debounce of a typed query, or none, has passed.
TimerFires(t) ==
    /\ tickets[t].phase = "timer"
    /\ Advance(t, "sent")
    /\ UNCHANGED <<epoch, live, filters, renders, effectDue, cleanup, coordinator, view>>

\* .then and .catch of the primary request
PrimaryAnswer(t) ==
    /\ tickets[t].kind = "primary" /\ tickets[t].phase = "ok"
    /\ Advance(t, "applied")
    /\ IF ~IsCurrent(t) THEN UNCHANGED view
       ELSE /\ resources' = tickets[t].answer.rows
            /\ cursor' = tickets[t].answer.next
            /\ liveResourceApiReady' = TRUE
            /\ UNCHANGED <<loading, loadingMore, error>>
    /\ UNCHANGED <<epoch, live, filters, renders, effectDue, cleanup, coordinator>>

PrimaryError(t) ==
    /\ tickets[t].kind = "primary" /\ tickets[t].phase = "failed"
    /\ Advance(t, "applied")
    /\ IF ~IsCurrent(t) THEN UNCHANGED view
       ELSE /\ error' = TRUE
            /\ resources' = LocalRows /\ cursor' = NoCursor
            /\ liveResourceApiReady' = FALSE
            /\ UNCHANGED <<loading, loadingMore>>
    /\ UNCHANGED <<epoch, live, filters, renders, effectDue, cleanup, coordinator>>

\* handleLoadMoreResources: enabled whenever there is a cursor, also while the
\* primary request is loading; its cursor is then that of the list before.
LoadMore ==
    /\ cursor # NoCursor /\ ~loadingMore /\ live
    /\ Cardinality({t \in Tickets : tickets[t].kind = "page"}) < MaxPages
    /\ tickets' = NewTicket("page", generation, cursor, "sent")
    /\ aborted' = aborted \cup (Tickets \cap {pageController})
    /\ pageController' = Len(tickets) + 1
    /\ loadingMore' = TRUE /\ error' = FALSE
    /\ UNCHANGED <<epoch, live, filters, renders, effectDue, cleanup, generation,
                   primaryController, resources, cursor, liveResourceApiReady, loading>>

\* The rows at some places of a page, in the order of the page.
RowsAt(page, places) ==
    LET n == Cardinality(places)
        order == CHOOSE f \in [1..n -> places] : \A i, j \in 1..n : i < j => f[i] < f[j]
    IN [k \in 1..n |-> page[order[k]]]

\* mergeResourcePages
MergePages(current, incoming) ==
    LET known == {current[i].id : i \in DOMAIN current}
    IN current \o RowsAt(incoming, {i \in DOMAIN incoming : incoming[i].id \notin known})

PageAnswer(t) ==
    /\ tickets[t].kind = "page" /\ tickets[t].phase = "ok"
    /\ Advance(t, "applied")
    /\ IF ~IsCurrent(t) THEN UNCHANGED view
       ELSE /\ resources' = MergePages(resources, tickets[t].answer.rows)
            /\ cursor' = tickets[t].answer.next
            /\ UNCHANGED <<liveResourceApiReady, loading, loadingMore, error>>
    /\ UNCHANGED <<epoch, live, filters, renders, effectDue, cleanup, coordinator>>

\* Mutant: a failed page leaves without the finally block.
PageErrorUnfinished(t) ==
    /\ tickets[t].kind = "page" /\ tickets[t].phase = "failed"
    /\ Advance(t, "over")
    /\ IF ~IsCurrent(t) THEN UNCHANGED view
       ELSE error' = TRUE
            /\ UNCHANGED <<resources, cursor, liveResourceApiReady, loading, loadingMore>>
    /\ UNCHANGED <<epoch, live, filters, renders, effectDue, cleanup, coordinator>>

PageError(t) ==
    /\ tickets[t].kind = "page" /\ tickets[t].phase = "failed"
    /\ Advance(t, "applied")
    /\ IF ~IsCurrent(t) THEN UNCHANGED view
       ELSE error' = TRUE
            /\ UNCHANGED <<resources, cursor, liveResourceApiReady, loading, loadingMore>>
    /\ UNCHANGED <<epoch, live, filters, renders, effectDue, cleanup, coordinator>>
----------------------------------------------------------------------------
Network(t) == TimerFires(t) \/ Answer(t) \/ AnswerError(t)
Callback(t) ==
    \/ PrimaryAnswer(t) \/ PrimaryError(t)
    \/ PageAnswer(t) \/ PageError(t) \/ Finish(t)
Effect == ShowLocal \/ BeginPrimary
User == ChangeFilters \/ ChangeSource \/ NewSnapshot \/ LoadMore

Next ==
    \/ ServerRefresh \/ Effect \/ User
    \/ \E t \in Tickets : Network(t) \/ Callback(t)

Spec == Init /\ [][Next]_vars
----------------------------------------------------------------------------
\* With no effect due, the rows of a live list and the cursor that continues it
\* were asked for with the filters now set: no late answer, of a primary
\* request or a page, gets past the coordinator (isCurrent).
ShownMatchesFilters ==
    liveResourceApiReady /\ ~effectDue =>
        /\ \A i \in DOMAIN resources : resources[i].of = filters
        /\ cursor \in {NoCursor, [cursor EXCEPT !.filters = filters]}

\* However pages of a changing server list overlap, no resource is shown twice
\* (mergeResourcePages).
NoResourceTwice ==
    \A i, j \in DOMAIN resources : i # j => resources[i].id # resources[j].id

\* A spinner has a request behind it whose finish will put it down: no path
\* through the coordinator (cancelled, refused, failed, overtaken) ends, aborts
\* or forgets the current request and leaves its flag up.
SpinnersHaveRequests ==
    LET Running(t) == t # None /\ IsCurrent(t) /\ tickets[t].phase # "over"
    IN ~effectDue => /\ loading => Running(primaryController)
                     /\ loadingMore => Running(pageController)

\* While the server's list does not change, a live list is a prefix of what the
\* filters match, also when several pages were loaded.
PagesAreContiguous ==
    Len(Lists) = 1 /\ liveResourceApiReady /\ ~effectDue =>
        \A i \in DOMAIN resources : resources[i].id = Lists[1][filters][i]
=============================================================================
