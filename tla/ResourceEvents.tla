---------------------------- MODULE ResourceEvents ----------------------------
(***************************************************************************)
(* The events of the selected resource in the detail panel of one browser: *)
(* useResourceEventsController, useResourceEventsSectionController and the *)
(* event helpers of resourceDetailActivity.ts                              *)
(* (components/resourceExplorer), over the server's events route.          *)
(*                                                                         *)
(* A callback and the effects it sets off are one action.  An event is     *)
(* known by its identity key; equal events have equal keys and tell each   *)
(* other apart by their place in the list only.  A timestamp is a text and *)
(* the time that is parsed from it, 0 if it cannot be: text stands for its *)
(* rank under localeCompare.  Their orders differ within a second, when    *)
(* one event is stamped in seconds and another in microseconds.            *)
(***************************************************************************)
EXTENDS Integers, Sequences, SequencesExt, FiniteSets

CONSTANTS
    Resources,      \* the resources that can be selected
    Answers,        \* Answers[r]: what the server can say of r, sequences of events
    Controls,       \* the settings of the section's controls that are tried
    DefaultControls,\* nothing filtered, newest first
    MaxPins,        \* bound on the events pinned at a time
    MaxRequests     \* bound on the requests of a behaviour

VARIABLES
    live,        \* liveEnabled
    resource,    \* the selected resource
    events,      \* events, the largest timestamp text first
    error,       \* eventsError is set
    loading,     \* eventsLoading
    current,     \* eventsControllerRef: the request it belongs to, 0 for none
    requests,    \* requests[r]: a GET of the events
    known,       \* knownEventKeysRef
    initialized, \* knownEventKeysInitializedRef
    newKeys,     \* newEventKeys
    notice,      \* eventNotificationNotice: the number of events in it, 0 for none
    newOnly,     \* showNewEventsOnly
    notify,      \* eventsWarningNotificationsEnabled
    auto,        \* eventsAutoRefreshEnabled
    controls,    \* the filters and the sort order
    pinned       \* pinnedEventKeys: keys with the place they were pinned at

answer == <<events, error, loading, current, requests>>
markers == <<known, initialized, newKeys, notice, newOnly>>
settings == <<notify, auto>>
view == <<controls, pinned>>

vars == <<live, resource, answer, markers, settings, view>>

Requests == 1..MaxRequests

Unsent == [state |-> "unused"]

Keys(s) == {s[i].key : i \in DOMAIN s}

IsWarning(e) == e.severity = "warning"

\* By the text of the timestamp, the largest first; equal ones stay as the server sent them.
Newest(s) ==
    LET earlier(i, j) == s[i].text > s[j].text \/ (s[i].text = s[j].text /\ i < j)
        order == CHOOSE f \in [DOMAIN s -> DOMAIN s] :
                     \A i, j \in DOMAIN s : i < j => earlier(f[i], f[j])
    IN  [k \in DOMAIN s |-> s[order[k]]]

NewCount == Cardinality({i \in DOMAIN events : events[i].key \in newKeys})

HasNew == NewCount > 0

----------------------------------------------------------------------------
(* What the section lists *)

Id(i) == <<events[i].key, i>>

Pinned(i) == Id(i) \in pinned

Passes(e) ==
    /\ controls.severity = "all" \/ e.severity = controls.severity
    /\ controls.since = 0 \/ (e.time # 0 /\ e.time >= controls.since)

\* sortEventListItems: pinned ones first, then by time, those without a time last.
Before(i, j) ==
    LET s == events[i].time
        t == events[j].time
    IN  IF Pinned(i) # Pinned(j) THEN Pinned(i)
        ELSE IF (s = 0) # (t = 0) THEN t = 0
        ELSE IF s # t THEN IF controls.order = "newest" THEN s > t ELSE s < t
        ELSE i < j

Listed == SetToSortSeq({i \in DOMAIN events : Passes(events[i])}, Before)

FilteredEvents ==
    SelectSeq(Listed, LAMBDA i : newOnly => events[i].key \in newKeys)

PinnedEvents == SelectSeq(FilteredEvents, Pinned)

\* groupEventsBySeverity; the section writes the groups one after the other.
Groups ==
    LET rest(v) == SelectSeq(FilteredEvents, LAMBDA i : ~Pinned(i) /\ events[i].severity = v)
    IN  [v \in {"warning", "normal", "other"} |-> rest(v)]

ControlsActive == controls # DefaultControls \/ pinned # {} \/ newOnly

----------------------------------------------------------------------------
(* What the callbacks are made of *)

ResetMarkers ==
    /\ known' = {} /\ initialized' = FALSE
    /\ newKeys' = {} /\ notice' = 0 /\ newOnly' = FALSE

Aborted ==
    [r \in Requests |-> IF requests[r].state = "sent"
                          THEN [requests[r] EXCEPT !.state = "aborted"] ELSE requests[r]]

NextRequest == {r \in Requests : /\ requests[r] = Unsent
                                 /\ \A q \in 1..(r - 1) : requests[q] # Unsent}

\* loadResourceEvents; keep: preserveExistingEvents.
LoadEvents(res, on, keep) ==
    /\ IF on
         THEN \E r \in NextRequest :
                /\ requests' = [Aborted EXCEPT ![r] =
                                   [state |-> "sent", of |-> res, keep |-> keep]]
                /\ current' = r /\ loading' = TRUE
         ELSE requests' = Aborted /\ current' = 0 /\ loading' = FALSE
    /\ error' = FALSE
    /\ IF on /\ keep
         THEN UNCHANGED <<events, markers>>
         ELSE events' = <<>> /\ ResetMarkers

----------------------------------------------------------------------------
Init ==
    /\ live \in BOOLEAN /\ notify \in BOOLEAN /\ auto \in BOOLEAN
    /\ resource \in Resources
    /\ events = <<>> /\ error = FALSE
    /\ requests = [r \in Requests |-> IF live /\ r = 1
                      THEN [state |-> "sent", of |-> resource, keep |-> FALSE] ELSE Unsent]
    /\ loading = live /\ current = IF live THEN 1 ELSE 0
    /\ known = {} /\ initialized = FALSE
    /\ newKeys = {} /\ notice = 0 /\ newOnly = FALSE
    /\ controls = DefaultControls /\ pinned = {}

\* Another resource, or the panel is mounted again: the preferences come back from
\* the browser's storage, everything else starts over.
Open(res) ==
    /\ resource' = res
    /\ LoadEvents(res, live, FALSE)
    /\ controls' = DefaultControls /\ pinned' = {}
    /\ UNCHANGED <<live, settings>>

\* The list was read again: the same resource is a new object.
ReplaceItem ==
    /\ LoadEvents(resource, live, FALSE)
    /\ UNCHANGED <<live, resource, settings, view>>

SetLive ==
    /\ live' = ~live
    /\ LoadEvents(resource, ~live, FALSE)
    /\ UNCHANGED <<resource, settings, view>>

Refresh ==
    /\ live /\ ~loading
    /\ LoadEvents(resource, live, TRUE)
    /\ UNCHANGED <<live, resource, settings, view>>

\* The interval skips its turn while a request is under way.
AutoRefresh ==
    /\ auto /\ live /\ current = 0
    /\ LoadEvents(resource, live, TRUE)
    /\ UNCHANGED <<live, resource, settings, view>>

----------------------------------------------------------------------------
(* Answers *)

RequestOver(r) ==
    /\ requests[r].state = "sent"
    /\ requests' = [requests EXCEPT ![r].state = "over"]
    /\ current' = 0 /\ loading' = FALSE

MarkOnlyTheLatest(next) ==
    LET fresh == {i \in DOMAIN next : next[i].key \notin known /\ IsWarning(next[i])}
    IN  /\ known' = Keys(next) /\ initialized' = TRUE
        /\ IF initialized /\ notify /\ fresh # {}
             THEN newKeys' = {next[i].key : i \in fresh} /\ notice' = Cardinality(fresh)
             ELSE UNCHANGED <<newKeys, notice>>
        /\ UNCHANGED newOnly

\* updateEventNotificationState: the first answer is the baseline.
Mark(next) ==
    LET fresh == {i \in DOMAIN next : next[i].key \notin known /\ IsWarning(next[i])}
    IN  /\ known' = Keys(next) /\ initialized' = TRUE
        /\ IF initialized /\ notify /\ fresh # {}
             THEN newKeys' = newKeys \cup {next[i].key : i \in fresh}
                  /\ notice' = Cardinality(fresh)
             ELSE UNCHANGED <<newKeys, notice>>
        /\ UNCHANGED newOnly

EventsArrive(r, items) ==
    /\ RequestOver(r)
    /\ Mark(Newest(items))
    /\ events' = Newest(items) /\ error' = FALSE
    /\ UNCHANGED <<live, resource, settings, view>>

\* An error status, no JSON, no connection: a refresh keeps what is shown.
EventsFail(r) ==
    /\ RequestOver(r)
    /\ events' = IF requests[r].keep THEN events ELSE <<>>
    /\ error' = TRUE
    /\ UNCHANGED <<live, resource, markers, settings, view>>

----------------------------------------------------------------------------
(* The section's controls; those of the list are there when it has events. *)

ToggleAutoRefresh ==
    /\ live /\ auto' = ~auto
    /\ UNCHANGED <<live, resource, answer, markers, notify, view>>

\* Switching off forgets what was known, by an effect: the next answer is a baseline.
ToggleNotifications ==
    /\ live /\ notify' = ~notify
    /\ IF notify THEN ResetMarkers ELSE UNCHANGED markers
    /\ UNCHANGED <<live, resource, answer, auto, view>>

ClearNewEvents ==
    /\ HasNew \/ notice # 0
    /\ newKeys' = {} /\ notice' = 0 /\ newOnly' = FALSE
    /\ UNCHANGED <<live, resource, answer, known, initialized, settings, view>>

DismissNotification ==
    /\ notice # 0 /\ notice' = 0
    /\ UNCHANGED <<live, resource, answer, known, initialized, newKeys, newOnly, settings, view>>

\* The toggle, or the count and the button of the banner, which only switch it on.
SetNewOnly ==
    /\ HasNew /\ newOnly' = ~newOnly
    /\ UNCHANGED <<live, resource, answer, known, initialized, newKeys, notice, settings, view>>

SetControl(c) ==
    /\ events # <<>> /\ c # controls
    /\ controls' = c
    /\ UNCHANGED <<live, resource, answer, markers, settings, pinned>>

ResetControls ==
    /\ events # <<>> /\ ControlsActive
    /\ controls' = DefaultControls /\ pinned' = {} /\ newOnly' = FALSE
    /\ UNCHANGED <<live, resource, answer, known, initialized, newKeys, notice, settings>>

TogglePinned(i) ==
    /\ \E k \in DOMAIN FilteredEvents : FilteredEvents[k] = i
    /\ pinned' = IF Pinned(i) THEN pinned \ {Id(i)} ELSE pinned \cup {Id(i)}
    /\ Cardinality(pinned') <= MaxPins
    /\ UNCHANGED <<live, resource, answer, markers, settings, controls>>

----------------------------------------------------------------------------
Section ==
    \/ Refresh \/ ToggleAutoRefresh \/ ToggleNotifications
    \/ ClearNewEvents \/ DismissNotification \/ SetNewOnly
    \/ \E c \in Controls : SetControl(c)
    \/ ResetControls
    \/ \E i \in DOMAIN events : TogglePinned(i)

Network ==
    \E r \in Requests :
        \/ \E items \in (IF requests[r] = Unsent THEN {} ELSE Answers[requests[r].of]) :
              EventsArrive(r, items)
        \/ EventsFail(r)

Next ==
    \/ \E res \in Resources : Open(res)
    \/ ReplaceItem \/ SetLive \/ AutoRefresh
    \/ Section
    \/ Network

Spec == Init /\ [][Next]_vars

----------------------------------------------------------------------------
\* The events shown are of the resource that the panel says they are of, also when
\* the selection, the mode or the list changed while they were asked for.
EventsAreOfTheResource ==
    /\ events # <<>> => live
    /\ \A i \in DOMAIN events : events[i].of = resource

\* A spinner has the one request that will put it down, which is of the resource
\* shown; every other request was aborted or is over.
SpinnerHasARequest ==
    /\ loading <=> current # 0
    /\ \A r \in Requests : requests[r].state = "sent" <=> r = current
    /\ loading => requests[current].of = resource

\* What the panel keeps of new events fits the events it shows: the keys compared with
\* the next answer are those of the list, whatever failed in between, and the banner and
\* the view of new events only go when the marks or the notifications behind them go.
MarkersFitTheEvents ==
    /\ initialized => known = Keys(events)
    /\ notice # 0 \/ newOnly => newKeys # {}
    /\ newKeys # {} => initialized /\ notify

\* With notifications on, a refresh of a known list marks every warning that the list
\* did not have, counts them in the banner, and unmarks none that is still marked.
WarningsAreMarked ==
    initialized /\ initialized' /\ notify /\ notify' /\ events' # events =>
        LET fresh == {i \in DOMAIN events' :
                         IsWarning(events'[i]) /\ events'[i].key \notin Keys(events)}
        IN  /\ {events'[i].key : i \in fresh} \cup newKeys \subseteq newKeys'
            /\ fresh # {} => notice' = Cardinality(fresh)

\* Every event that passes the filters is written once, among the pinned ones or in the
\* group of its severity, and each part is in order of time, those without a time last,
\* whatever the order the events are kept in: that one compares texts.
ListIsInOrder ==
    LET groups == Groups
        parts == {PinnedEvents, groups["warning"], groups["normal"], groups["other"]}
        time(i) == events[i].time
    IN  /\ \A i \in DOMAIN events :
             Passes(events[i]) /\ (newOnly => events[i].key \in newKeys) <=>
                 \E s \in parts : \E k \in DOMAIN s : s[k] = i
        /\ Len(PinnedEvents) + Len(groups["warning"]) + Len(groups["normal"])
              + Len(groups["other"]) = Cardinality(UNION {ToSet(s) : s \in parts})
        /\ \A s \in parts : \A j, k \in DOMAIN s :
             j < k => /\ time(s[j]) = 0 => time(s[k]) = 0
                      /\ time(s[k]) # 0 =>
                           IF controls.order = "newest" THEN time(s[j]) >= time(s[k])
                           ELSE time(s[j]) <= time(s[k])
=============================================================================
