------------------------------ MODULE Dashboard ------------------------------
(***************************************************************************)
(* The app shell of the browser (App.tsx) with the hooks it drives: the    *)
(* topology request and its refreshes (useTopology), the connector's       *)
(* status and capabilities, the admin token form, the uploads, the         *)
(* snapshot history and the address bar.                                   *)
(*                                                                         *)
(* A handler is one action.  React runs the effects of a render before the *)
(* next event; here an effect is an action of its own that is due when     *)
(* what it depends on differs from its last run, and handlers wait until   *)
(* no effect is due (Settled).  What a handler does after an await is a    *)
(* job: it keeps the values its closure saw (view, rf, ids) until it ends. *)
(* An aborted fetch rejects and its handlers do nothing, so aborting is    *)
(* forgetting the request.  Messages, themes and names are left out; the   *)
(* page is served by its own server, so an API base is always configured.  *)
(***************************************************************************)
EXTENDS Naturals, Sequences, FiniteSets

CONSTANTS
    Views,          \* the views a user switches between, "compare" and "resources" among them
    Filters,        \* filter choices, "all" among them
    Uploads,        \* the bundles a user may upload or import
    Tokens,         \* the admin tokens a user may type
    Starts,         \* bound: the views and sources of the address the page is opened at
    MaxHistory,     \* MAX_SNAPSHOT_HISTORY: 8, two selected entries and the new one must fit
    MaxJobs,        \* bound: awaiting handlers at a time
    MaxMoves        \* bound: events of the user, captures that fill the history not counted

VARIABLES
    mode, view, rf,       \* sourceMode, viewMode, resourceUrlFilters
    unlocked, token,      \* liveUnlocked and the session's stored token
    good,                 \* the token the server accepts
    uploaded,             \* uploadedState's bundle
    shown, loading, error, requests,        \* useTopology
    autoRefresh, forced, refreshAsked,      \* autoRefresh, forceRefreshRef, refreshTick
    status, capability, capabilityAsked,    \* the two connector hooks
    filters, selected,    \* the topology's filters and selected node
    history, baseline, current,             \* snapshotHistory and its two selections
    urls, at, stored,     \* the tab's history entries and the stored source mode
    jobs, ran, moves      \* awaiting handlers, the effects' last dependencies

live == <<unlocked, token, good>>
topo == <<shown, loading, error, requests, forced, refreshAsked>>
conn == <<status, capability, capabilityAsked>>
pick == <<filters, selected>>
hist == <<history, baseline, current>>
url  == <<urls, at, stored>>
vars == <<mode, view, rf, live, uploaded, topo, autoRefresh, conn, pick, hist, url, jobs, ran, moves>>

NoToken  == "none"
Nothing  == "pending"     \* no bundle yet: uploadPendingTopology
NoError  == ""
NoNode   == <<>>
NoEntry  == 0             \* the empty id

Modes      == {"upload", "live", "mock"}

ASSUME DashboardAssumption ==
    /\ {"topology", "resources", "compare"} \subseteq Views /\ "all" \in Filters
    /\ Starts \subseteq Views \X Modes

\* Two nodes stand for a snapshot's; a filter other than "all" leaves the second.
NodesOf(s)    == IF s \in {Nothing, "locked"} THEN {} ELSE {<<s, 1>>, <<s, 2>>}
Visible(s, f) == IF f = "all" THEN NodesOf(s) ELSE NodesOf(s) \ {<<s, 1>>}
FirstOf(N)    == IF N = {} THEN NoNode ELSE CHOOSE n \in N : \A m \in N : n[2] <= m[2]

(***************************** the address bar *****************************)
\* The query string: a view's resource filters only while it is "resources".
Path(e) == [view |-> e.view, mode |-> e.mode, rf |-> IF e.view = "resources" THEN e.rf ELSE "all"]

Screen == [view |-> view, mode |-> mode, rf |-> rf]

\* writeAppUrlState: an entry of the same path is replaced, whatever was asked.
WriteUrl(e, how) ==
    IF how = "replace" \/ Path(e) = Path(urls[at])
    THEN urls' = [urls EXCEPT ![at] = e] /\ at' = at
    ELSE urls' = Append(SubSeq(urls, 1, at), e) /\ at' = at + 1

\* appSearchHasExplicitState: the address names a source or a view.
ExplicitState(e) == e.mode # "upload" \/ e.view # "topology"

\* initialSourceMode: the query's source, else upload when the query has a view, else the stored one.
InitialMode(e) == IF ExplicitState(e) THEN e.mode ELSE stored

\* sourceSnapshot: what is shown before the first effect.
FirstShown(m) == CASE m = "mock" -> "mock" [] m = "upload" -> Nothing [] OTHER -> "locked"

(***************************** the effects' dependencies *******************)
LiveActive == mode = "live" /\ unlocked

TopologyDeps  == <<unlocked, mode, uploaded>>
TopologyDue   == refreshAsked \/ ran.topology # TopologyDeps
StatusDue     == ran.status # LiveActive
CapabilityDue == capabilityAsked \/ ran.capability # LiveActive
AutoOffDue    == autoRefresh /\ ~LiveActive
LockDue       == mode = "live" /\ "401" \in {status, error} /\ unlocked
SelectionDue  == IF Visible(shown, filters) = {} THEN selected # NoNode
                 ELSE selected \notin Visible(shown, filters)

Ids == {history[i].id : i \in 1..Len(history)}

HistoryDue == \/ baseline # NoEntry /\ baseline \notin Ids
              \/ current # NoEntry /\ (current \notin Ids \/ current = baseline)

Settled == ~(TopologyDue \/ StatusDue \/ CapabilityDue \/ AutoOffDue \/ LockDue \/ SelectionDue \/ HistoryDue)

Event == Settled /\ moves < MaxMoves /\ moves' = moves + 1

Await(job) == Cardinality(jobs) < MaxJobs /\ job \notin jobs /\ jobs' = jobs \cup {job}

Init ==
    /\ \E s \in Starts : view = s[1] /\ mode = s[2]
    /\ rf = "all"
    /\ good \in Tokens
    /\ token = NoToken /\ unlocked = FALSE
    /\ uploaded = Nothing /\ shown = FirstShown(mode)
    /\ loading = FALSE /\ error = NoError /\ requests = {}
    /\ autoRefresh = FALSE /\ forced = FALSE /\ refreshAsked = FALSE
    /\ status = "off" /\ capability = "off" /\ capabilityAsked = FALSE
    /\ filters = "all" /\ selected = NoNode
    /\ history = <<>> /\ baseline = NoEntry /\ current = NoEntry
    /\ urls = <<[view |-> view, mode |-> mode, rf |-> "all"]>> /\ at = 1
    /\ stored = mode
    /\ jobs = {} /\ moves = 0
    /\ ran = [topology |-> <<FALSE, mode, Nothing>>, status |-> FALSE, capability |-> FALSE]

(***************************** useTopology *********************************)
\* Mutant: an earlier request is left to answer.
NotAborted(R) == R
Aborted(R) == {}

\* The effect: the request in flight is aborted; a live, unlocked session asks
\* again and keeps showing what it shows until the answer.
TopologyEffect ==
    /\ TopologyDue
    /\ ran' = [ran EXCEPT !.topology = TopologyDeps]
    /\ refreshAsked' = FALSE
    /\ error' = NoError
    /\ IF LiveActive
       THEN /\ requests' = Aborted(requests) \cup {[force |-> forced, token |-> token]}
            /\ forced' = FALSE
            /\ loading' = TRUE
            /\ shown' = shown
       ELSE /\ requests' = Aborted(requests)
            /\ forced' = forced
            /\ loading' = FALSE
            /\ shown' = CASE mode = "mock" -> "mock" [] mode = "upload" -> uploaded [] OTHER -> "locked"
    /\ UNCHANGED <<mode, view, rf, live, uploaded, autoRefresh, conn, pick, hist, url, jobs, moves>>

\* The answer of the server, or a failure of the network.
TopologyAnswered(r, fails) ==
    /\ Settled /\ r \in requests
    /\ requests' = requests \ {r}
    /\ loading' = FALSE
    /\ IF fails \/ r.token # good
       THEN shown' = "locked" /\ error' = IF fails THEN "failed" ELSE "401"
       ELSE shown' = "live" /\ error' = error
    /\ UNCHANGED <<mode, view, rf, live, uploaded, forced, refreshAsked, autoRefresh, conn, pick, hist, url, jobs, ran, moves>>

\* refresh(): the next request asks the server to collect anew.
AskRefresh == forced' = TRUE /\ refreshAsked' = TRUE

Refresh ==
    /\ Event /\ LiveActive /\ ~loading
    /\ AskRefresh
    /\ UNCHANGED <<mode, view, rf, live, uploaded, shown, loading, error, requests, autoRefresh, conn, pick, hist, url, jobs, ran>>

\* The interval of the automatic refresh, also while an answer is awaited.
RefreshTick ==
    /\ Event /\ autoRefresh /\ LiveActive
    /\ AskRefresh
    /\ UNCHANGED <<mode, view, rf, live, uploaded, shown, loading, error, requests, autoRefresh, conn, pick, hist, url, jobs, ran>>

ToggleAutoRefresh ==
    /\ Event /\ LiveActive
    /\ autoRefresh' = ~autoRefresh
    /\ UNCHANGED <<mode, view, rf, live, uploaded, topo, conn, pick, hist, url, jobs, ran>>

AutoRefreshOff ==
    /\ AutoOffDue
    /\ autoRefresh' = FALSE
    /\ UNCHANGED <<mode, view, rf, live, uploaded, topo, conn, pick, hist, url, jobs, ran, moves>>

(***************************** the connector hooks *************************)
StatusEffect ==
    /\ StatusDue
    /\ ran' = [ran EXCEPT !.status = LiveActive]
    /\ status' = IF LiveActive THEN "asking" ELSE "off"
    /\ UNCHANGED <<mode, view, rf, live, uploaded, topo, autoRefresh, capability, capabilityAsked, pick, hist, url, jobs, moves>>

StatusAnswered(fails) ==
    /\ Settled /\ status = "asking"
    /\ status' = IF fails THEN "failed" ELSE IF token # good THEN "401" ELSE "ok"
    /\ UNCHANGED <<mode, view, rf, live, uploaded, topo, autoRefresh, capability, capabilityAsked, pick, hist, url, jobs, ran, moves>>

CapabilityEffect ==
    /\ CapabilityDue
    /\ ran' = [ran EXCEPT !.capability = LiveActive]
    /\ capabilityAsked' = FALSE
    /\ capability' = IF LiveActive THEN "asking" ELSE "off"
    /\ UNCHANGED <<mode, view, rf, live, uploaded, topo, autoRefresh, status, pick, hist, url, jobs, moves>>

CapabilityAnswered(fails) ==
    /\ Settled /\ capability = "asking"
    /\ capability' = IF fails \/ token # good THEN "failed" ELSE "ok"
    /\ UNCHANGED <<mode, view, rf, live, uploaded, topo, autoRefresh, status, capabilityAsked, pick, hist, url, jobs, ran, moves>>

RefreshCapabilities ==
    /\ Event /\ LiveActive /\ view \notin {"resources", "compare"}
    /\ capabilityAsked' = TRUE
    /\ UNCHANGED <<mode, view, rf, live, uploaded, topo, autoRefresh, status, capability, pick, hist, url, jobs, ran>>

(***************************** the live session ****************************)
\* A new source mode is kept in the session storage, and the token leaves it with its session.
SetMode(m) == mode' = m /\ stored' = m
EndSession == token' = NoToken /\ unlocked' = FALSE

\* Mutant: the session is locked and its token stays in the storage.
LockKeepingTheToken ==
    /\ LockDue
    /\ unlocked' = FALSE /\ autoRefresh' = FALSE
    /\ UNCHANGED <<mode, view, rf, token, good, uploaded, topo, conn, pick, hist, url, jobs, ran, moves>>

\* The effect on a 401 of the topology or the status.
LockOn401 ==
    /\ LockDue
    /\ EndSession
    /\ autoRefresh' = FALSE
    /\ UNCHANGED <<mode, view, rf, good, uploaded, topo, conn, pick, hist, url, jobs, ran, moves>>

\* handleLiveLock of the header and of the source bar.
LiveLock ==
    /\ Event /\ unlocked
    /\ EndSession
    /\ autoRefresh' = FALSE
    /\ IF mode = "live"
       THEN /\ SetMode("upload")
            /\ WriteUrl([Screen EXCEPT !.mode = "upload"], "push")
       ELSE UNCHANGED <<mode, url>>
    /\ UNCHANGED <<view, rf, good, uploaded, topo, conn, pick, hist, jobs, ran>>

\* handleSourceModeChange, as the closure of a render with view v and filters f.
ChangeMode(m, v, f) ==
    /\ SetMode(m)
    /\ selected' = NoNode
    /\ WriteUrl([view |-> v, mode |-> m, rf |-> f], "push")
    /\ autoRefresh' = (autoRefresh /\ m = "live")

SourceModeChange(m) ==
    /\ Event /\ ChangeMode(m, view, rf)
    /\ UNCHANGED <<view, rf, live, uploaded, topo, conn, filters, hist, jobs, ran>>

\* handleLiveUnlock checks the typed token; Enter submits it even while another check runs.
LiveUnlock(t) ==
    /\ Event /\ ~unlocked
    /\ Await([kind |-> "unlock", token |-> t, view |-> view, rf |-> rf])
    /\ UNCHANGED <<mode, view, rf, live, uploaded, topo, autoRefresh, conn, pick, hist, url, ran>>

LiveUnlocked(j) ==
    /\ Settled /\ j \in jobs /\ j.kind = "unlock"
    /\ jobs' = jobs \ {j}
    /\ IF j.token = good
       THEN /\ token' = j.token /\ unlocked' = TRUE
            /\ ChangeMode("live", j.view, j.rf)
       ELSE UNCHANGED <<token, unlocked, mode, autoRefresh, selected, url>>
    /\ UNCHANGED <<view, rf, good, uploaded, topo, conn, filters, hist, ran, moves>>

\* The server is restarted with another admin token.
RotateToken(t) ==
    /\ Event /\ t # good
    /\ good' = t
    /\ UNCHANGED <<mode, view, rf, token, unlocked, uploaded, topo, autoRefresh, conn, pick, hist, url, jobs, ran>>

(***************************** uploads *************************************)
NewBundle(u) == u # uploaded /\ \A j \in jobs : j.kind = "upload" => j.bundle # u

UploadFiles(u) ==
    /\ Event /\ NewBundle(u)
    /\ Await([kind |-> "upload", bundle |-> u, view |-> view, rf |-> rf])
    /\ UNCHANGED <<mode, view, rf, live, uploaded, topo, autoRefresh, conn, pick, hist, url, ran>>

\* The files are parsed (handleUploadFiles, handleImportJson); a file that cannot be leaves a message.
UploadParsed(j, fails) ==
    /\ Settled /\ j \in jobs /\ j.kind = "upload"
    /\ jobs' = jobs \ {j}
    /\ IF fails THEN UNCHANGED <<uploaded, mode, url, pick>>
       ELSE /\ uploaded' = j.bundle
            /\ SetMode("upload")
            /\ WriteUrl([view |-> j.view, mode |-> "upload", rf |-> j.rf], "push")
            /\ filters' = "all" /\ selected' = NoNode
    /\ UNCHANGED <<view, rf, live, topo, autoRefresh, conn, hist, ran, moves>>

(***************************** views and selection *************************)
ViewModeChange(v) ==
    /\ Event
    /\ view' = v
    /\ WriteUrl([Screen EXCEPT !.view = v], IF v = view THEN "replace" ELSE "push")
    /\ UNCHANGED <<mode, rf, live, uploaded, topo, autoRefresh, conn, pick, hist, stored, jobs, ran>>

ResourceFiltersChange(f) ==
    /\ Event /\ view = "resources" /\ f # rf
    /\ rf' = f
    /\ WriteUrl([Screen EXCEPT !.rf = f], "replace")
    /\ UNCHANGED <<mode, view, live, uploaded, topo, autoRefresh, conn, pick, hist, stored, jobs, ran>>

\* Mutant: the address is written with the view that is left.
OpenNodeWithOldView(n) ==
    /\ Event /\ view # "topology" /\ n \in NodesOf(shown)
    /\ filters' = "all" /\ selected' = n
    /\ view' = "topology"
    /\ WriteUrl(Screen, "push")
    /\ UNCHANGED <<mode, rf, live, uploaded, topo, autoRefresh, conn, hist, stored, jobs, ran>>

\* A list or a comparison opens one of its nodes in the topology.
OpenTopologyNode(n) ==
    /\ Event /\ view # "topology" /\ n \in NodesOf(shown)
    /\ filters' = "all" /\ selected' = n
    /\ view' = "topology"
    /\ WriteUrl([Screen EXCEPT !.view = "topology"], "push")
    /\ UNCHANGED <<mode, rf, live, uploaded, topo, autoRefresh, conn, hist, stored, jobs, ran>>

FiltersChange(f) ==
    /\ Event /\ filters # f
    /\ filters' = f /\ selected' = NoNode
    /\ UNCHANGED <<mode, view, rf, live, uploaded, topo, autoRefresh, conn, hist, url, jobs, ran>>

ResetFilters ==
    /\ Event /\ filters # "all"
    /\ filters' = "all"
    /\ UNCHANGED <<mode, view, rf, live, uploaded, topo, autoRefresh, conn, selected, hist, url, jobs, ran>>

\* The explorer offers the whole snapshot, also what the topology's filters hide.
SelectNode(n) ==
    /\ Event /\ n \in (IF view = "resources" THEN NodesOf(shown) ELSE Visible(shown, filters)) \ {selected}
    /\ selected' = n
    /\ UNCHANGED <<mode, view, rf, live, uploaded, topo, autoRefresh, conn, filters, hist, url, jobs, ran>>

\* The effect that selects the first node when the selected one is not visible.
SelectFirstNode ==
    /\ SelectionDue
    /\ selected' = FirstOf(Visible(shown, filters))
    /\ UNCHANGED <<mode, view, rf, live, uploaded, topo, autoRefresh, conn, filters, hist, url, jobs, ran, moves>>

\* Back or forward: handlePopState sets what the entry's query and state say.
PopState(i) ==
    /\ Event /\ i \in 1..Len(urls) /\ i # at
    /\ at' = i
    /\ LET p == Path(urls[i]) IN
       /\ view' = p.view /\ rf' = p.rf /\ mode' = p.mode
       /\ IF p.mode # mode
          THEN /\ stored' = p.mode /\ selected' = NoNode
               /\ autoRefresh' = (autoRefresh /\ p.mode = "live")
          ELSE UNCHANGED <<stored, selected, autoRefresh>>
    /\ UNCHANGED <<urls, live, uploaded, topo, conn, filters, hist, jobs, ran>>

\* The page is loaded again: only the tab's session storage and history survive.
Reload ==
    /\ Event
    /\ LET p == Path(urls[at])
           m == InitialMode(urls[at]) IN
       /\ view' = p.view /\ rf' = p.rf /\ SetMode(m)
       /\ urls' = [urls EXCEPT ![at] = [view |-> p.view, mode |-> m, rf |-> p.rf]] /\ at' = at
       /\ ran' = [topology |-> <<>>, status |-> FALSE, capability |-> FALSE]
       /\ shown' = FirstShown(m)
    /\ unlocked' = (token # NoToken) /\ UNCHANGED <<token, good>>
    /\ uploaded' = Nothing
    /\ loading' = FALSE /\ error' = NoError /\ requests' = {} /\ forced' = FALSE /\ refreshAsked' = FALSE
    /\ autoRefresh' = FALSE
    /\ status' = "off" /\ capability' = "off" /\ capabilityAsked' = FALSE
    /\ filters' = "all" /\ selected' = NoNode
    /\ history' = <<>> /\ baseline' = NoEntry /\ current' = NoEntry
    /\ jobs' = {}

(***************************** snapshot history ****************************)
\* The elements of s at the positions I, in order.
AtPositions(s, I) ==
    LET nth(n) == CHOOSE i \in I : Cardinality({k \in I : k <= i}) = n
    IN [n \in 1..Cardinality(I) |-> s[nth(n)]]

\* Mutant: nothing is protected.
NewestKept(next, protected) == IF Len(next) > MaxHistory THEN SubSeq(next, 1, MaxHistory) ELSE next

\* addSnapshotHistoryEntry: the new entry first; when there are too many, the protected ones
\* and then the newest are kept.
Kept(next, protected) ==
    LET isProtected(i) == next[i].id \in protected
        others(i) == {k \in 1..i : ~isProtected(k)}
        held == {k \in 1..Len(next) : isProtected(k)}
    IN AtPositions(next, {i \in 1..Len(next) :
           isProtected(i) \/ Cardinality(others(i)) + Cardinality(held) <= MaxHistory})

AddEntry(entry, protected) ==
    history' = Kept(<<entry>> \o history, protected)

\* An id is never used twice (historySequence): not while anything still names it.
NamedIds == Ids \cup {baseline, current} \cup UNION {{j.baseline, j.current} : j \in {k \in jobs : k.kind = "baseline"}}
NextId   == CHOOSE n \in 1..(MaxHistory + 2 * MaxJobs + 3) : n \notin NamedIds /\ \A k \in 1..(n - 1) : k \in NamedIds

\* handleCaptureSnapshotBaseline: the snapshot on the screen.
CaptureSnapshot ==
    /\ IF Len(history) < MaxHistory THEN Settled /\ UNCHANGED moves ELSE Event
    /\ view = "compare" /\ NodesOf(shown) # {}
    /\ AddEntry([id |-> NextId, snapshot |-> shown], {baseline, current})
    /\ baseline' = IF baseline = NoEntry THEN NextId ELSE baseline
    /\ UNCHANGED <<mode, view, rf, live, uploaded, topo, autoRefresh, conn, pick, current, url, jobs, ran>>

ImportBaseline ==
    /\ Event /\ view = "compare"
    /\ Await([kind |-> "baseline", baseline |-> baseline, current |-> current])
    /\ UNCHANGED <<mode, view, rf, live, uploaded, topo, autoRefresh, conn, pick, hist, url, ran>>

\* The file was read: what is protected is what was selected when it was chosen.
BaselineImported(j) ==
    /\ Settled /\ j \in jobs /\ j.kind = "baseline"
    /\ jobs' = jobs \ {j}
    /\ AddEntry([id |-> NextId, snapshot |-> "mock"], {j.baseline, j.current})
    /\ baseline' = NextId
    /\ UNCHANGED <<mode, view, rf, live, uploaded, topo, autoRefresh, conn, pick, current, url, ran, moves>>

\* The two selectors of the comparison; the same entry cannot be both.
SelectBaseline(id) ==
    /\ Event /\ view = "compare" /\ id \in Ids \cup {NoEntry} /\ id # baseline
    /\ baseline' = id
    /\ current' = IF id = current THEN NoEntry ELSE current
    /\ UNCHANGED <<mode, view, rf, live, uploaded, topo, autoRefresh, conn, pick, history, url, jobs, ran>>

SelectCurrent(id) ==
    /\ Event /\ view = "compare" /\ id \in Ids \cup {NoEntry} /\ id # current /\ (id = baseline => id = NoEntry)
    /\ current' = id
    /\ UNCHANGED <<mode, view, rf, live, uploaded, topo, autoRefresh, conn, pick, history, baseline, url, jobs, ran>>

DeleteEntry(id) ==
    /\ Event /\ view = "compare" /\ id \in Ids
    /\ history' = AtPositions(history, {i \in 1..Len(history) : history[i].id # id})
    /\ baseline' = IF baseline = id THEN NoEntry ELSE baseline
    /\ current' = IF current = id THEN NoEntry ELSE current
    /\ UNCHANGED <<mode, view, rf, live, uploaded, topo, autoRefresh, conn, pick, url, jobs, ran>>

ClearHistory ==
    /\ Event /\ view = "compare" /\ history # <<>>
    /\ history' = <<>> /\ baseline' = NoEntry /\ current' = NoEntry
    /\ UNCHANGED <<mode, view, rf, live, uploaded, topo, autoRefresh, conn, pick, url, jobs, ran>>

\* The effect that drops a selection whose entry is gone, or that is both.
DropStaleSelection ==
    /\ HistoryDue
    /\ baseline' = IF baseline \in Ids THEN baseline ELSE NoEntry
    /\ current' = IF current \in Ids /\ current # baseline THEN current ELSE NoEntry
    /\ UNCHANGED <<mode, view, rf, live, uploaded, topo, autoRefresh, conn, pick, history, url, jobs, ran, moves>>

-----------------------------------------------------------------------------
Effects ==
    \/ TopologyEffect \/ StatusEffect \/ CapabilityEffect \/ AutoRefreshOff
    \/ LockOn401 \/ SelectFirstNode \/ DropStaleSelection

Answers ==
    \E fails \in BOOLEAN :
        \/ \E r \in requests : TopologyAnswered(r, fails)
        \/ StatusAnswered(fails) \/ CapabilityAnswered(fails)
        \/ \E j \in jobs : UploadParsed(j, fails)

\* What the header, the source bar, the filter bar and the comparison's controls offer.
Header ==
    \/ Refresh \/ ToggleAutoRefresh \/ LiveLock \/ ResetFilters
    \/ \E v \in Views : ViewModeChange(v)

SourceModeBar ==
    \/ LiveLock
    \/ \E t \in Tokens : LiveUnlock(t)
    \/ \E m \in Modes : SourceModeChange(m)
    \/ \E u \in Uploads : UploadFiles(u)

FilterBar == \E f \in Filters : FiltersChange(f)

SnapshotHistoryControls ==
    \/ CaptureSnapshot \/ ImportBaseline \/ ClearHistory
    \/ \E id \in Ids \cup {NoEntry} : SelectBaseline(id) \/ SelectCurrent(id) \/ DeleteEntry(id)

LiveEvents ==
    \/ Header \/ SourceModeBar
    \/ RefreshTick \/ RefreshCapabilities
    \/ \E t \in Tokens : RotateToken(t)
    \/ \E j \in jobs : LiveUnlocked(j)

ScreenEvents ==
    \/ FilterBar
    \/ \E f \in Filters : ResourceFiltersChange(f)
    \/ \E n \in NodesOf(shown) : OpenTopologyNode(n) \/ SelectNode(n)
    \/ \E i \in 1..Len(urls) : PopState(i)
    \/ Reload

HistoryEvents == SnapshotHistoryControls \/ \E j \in jobs : BaselineImported(j)

Next == Effects \/ Answers \/ LiveEvents \/ ScreenEvents \/ HistoryEvents

Spec == Init /\ [][Next]_vars

(***************************** properties **********************************)
\* Once a request is answered or abandoned, the screen shows a snapshot of the chosen source and
\* of no other: an answer of an aborted live request never replaces an upload, a lock never
\* leaves live data on the screen, and a refused request leaves the locked placeholder.
ShownIsOfItsSource ==
    Settled /\ ~loading =>
        CASE mode = "mock"   -> shown = "mock"
          [] mode = "upload" -> shown = uploaded
          [] OTHER           -> shown = IF unlocked /\ error = NoError THEN "live" ELSE "locked"

\* A live session that is locked, by its user or by a 401, is over: its token is gone, nothing
\* polls, nothing is asked of the server any more and no connector state is kept.
LockedSessionIsOver ==
    Settled /\ ~unlocked => /\ token = NoToken
                            /\ requests = {} /\ ~loading /\ ~autoRefresh
                            /\ status = "off" /\ capability = "off"

\* The address bar follows the screen: it falls out of step only when a handler ends after an
\* await and writes the view or the filters its closure saw, not the ones on the screen.
UrlInSync == Path(urls[at]) = Path(Screen)
KeepsTheAddress ==
    UrlInSync /\ ~UrlInSync' =>
        \E j \in jobs \ jobs' : j.kind # "baseline" /\ <<j.view, j.rf>> # <<view, rf>>

\* A snapshot that is captured never pushes the selected baseline or comparison out of the
\* bounded history, and what is selected is in the history.
CaptureKeepsTheSelection ==
    CaptureSnapshot =>
        {baseline, current} \ {NoEntry} \subseteq {history'[i].id : i \in 1..Len(history')}
=============================================================================
