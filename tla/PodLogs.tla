------------------------------ MODULE PodLogs ------------------------------
(***************************************************************************)
(* The logs of a Pod in the detail panel of one browser:                   *)
(* useResourceLogsController and useResourceLogsSectionController          *)
(* (components/resourceExplorer), fetchResourceLogs and streamResourceLogs *)
(* (services/resourceApi.ts) over the server's /logs and /logs/stream      *)
(* routes (httpapi/server.go, provider/kubernetes_activity.go).            *)
(*                                                                         *)
(* A callback of the browser runs to its end before the next one and sees  *)
(* the state of the last render, so each is one action.  A line is known   *)
(* by the request that brought it and its number in that answer; what the  *)
(* log holds, and when a request or a stream ends, is up to the network    *)
(* and the Kubernetes API.                                                 *)
(***************************************************************************)
EXTENDS Integers, Sequences, SequencesExt

CONSTANTS
    Pods,           \* the Pods that can be selected
    NotAPod,        \* any other resource
    Containers,     \* Containers[p]: the containers of Pod p, the first is the default
    TailLines,      \* podLogTailLines
    MaxVisible,     \* maxVisibleLogLines
    MaxLog,         \* bound on the lines that one stream brings
    MaxFetches,     \* bound on the fetches of a behaviour
    MaxStreams      \* bound on the streams of a behaviour

ASSUME LogAssumption ==
    /\ NotAPod \in STRING /\ NotAPod \notin Pods
    /\ Containers \in [Pods -> Seq(STRING)] /\ \A p \in Pods : Containers[p] # <<>>
    /\ {TailLines, MaxVisible, MaxLog, MaxFetches, MaxStreams} \subseteq Nat \ {0}

VARIABLES
    live,       \* liveEnabled: live mode, resource API ready
    resource,   \* the selected resource
    container,  \* effectiveLogContainer
    previous,   \* previousLogs
    shown,      \* logLines
    pending,    \* pendingLogLines, kept back while paused
    paused,     \* logsPaused
    loading,    \* logsLoading
    streaming,  \* logsStreaming
    current,    \* logsStreamControllerRef: the stream it belongs to, 0 for none
    fetches,    \* fetches[f]: a GET of the logs
    streams     \* streams[s]: a GET of the log stream; last is the line read last

selection == <<resource, container, previous>>
lines == <<shown, pending, paused>>
requests == <<loading, streaming, current, fetches, streams>>

vars == <<live, selection, lines, requests>>

Fetches == 1..MaxFetches
Streams == 1..MaxStreams

Source(p, c, b) == [pod |-> p, container |-> c, previous |-> b]

\* What the panel says its lines are.
Selection == Source(resource, container, previous)

Unsent == [state |-> "unused"]
Aborted == [state |-> "aborted"]
Over == [state |-> "over"]

\* by: the stream that brought the line, 0 for a fetch.
Line(source, n, s) == [of |-> source, number |-> n, by |-> s]

\* lines.slice(-maxVisibleLogLines)
Cap(s) == SubSeq(s, IF Len(s) > MaxVisible THEN Len(s) - MaxVisible + 1 ELSE 1, Len(s))

DefaultContainer(p) == IF p \in Pods THEN Containers[p][1] ELSE NotAPod

CanFetch == live /\ resource \in Pods

----------------------------------------------------------------------------
(* What the callbacks are made of. *)

ResetPause == paused' = FALSE /\ pending' = <<>>

\* abortLogStream: an aborted stream brings no more lines.
AbortStream ==
    /\ current' = 0
    /\ streams' = IF current = 0 THEN streams ELSE [streams EXCEPT ![current] = Aborted]

StopLogStream == AbortStream /\ streaming' = FALSE /\ ResetPause

Init ==
    /\ live \in BOOLEAN
    /\ resource \in Pods \cup {NotAPod}
    /\ container = DefaultContainer(resource)
    /\ previous = FALSE
    /\ shown = <<>> /\ pending = <<>> /\ paused = FALSE
    /\ loading = FALSE /\ streaming = FALSE /\ current = 0
    /\ fetches = [f \in Fetches |-> Unsent]
    /\ streams = [s \in Streams |-> Unsent]

----------------------------------------------------------------------------
(* The selection *)

ResetState(p) ==
    /\ AbortStream
    /\ shown' = <<>> /\ loading' = FALSE /\ streaming' = FALSE
    /\ ResetPause
    /\ resource' = p /\ container' = DefaultContainer(p) /\ previous' = FALSE
    /\ UNCHANGED live

\* Another resource.id in the same panel; a fetch is not cancelled.
SelectResource(p) ==
    /\ p # resource
    /\ ResetState(p)
    /\ UNCHANGED fetches

\* The panel is unmounted and mounted again: nobody listens to its fetches any more.
Remount(p) ==
    /\ ResetState(p)
    /\ fetches' = [f \in Fetches |->
           IF fetches[f].state = "sent" THEN Over ELSE fetches[f]]

\* Live mode or the resource API comes or goes: the section is shown or hidden, no more.
SetLive ==
    /\ live' = ~live
    /\ UNCHANGED <<selection, lines, requests>>

\* The controls are shown when logs can be fetched, and disabled while busy.
ChangeContainer(i) ==
    /\ CanFetch /\ ~loading /\ ~streaming
    /\ i \in DOMAIN Containers[resource] /\ Containers[resource][i] # container
    /\ StopLogStream
    /\ container' = Containers[resource][i]
    /\ shown' = <<>>
    /\ UNCHANGED <<live, resource, previous, loading, fetches>>

ChangePrevious ==
    /\ CanFetch /\ ~loading /\ ~streaming
    /\ StopLogStream
    /\ previous' = ~previous
    /\ shown' = <<>>
    /\ UNCHANGED <<live, resource, container, loading, fetches>>

----------------------------------------------------------------------------
(* fetchLogs *)

FetchLogs(f) ==
    /\ CanFetch /\ ~loading /\ ~streaming
    /\ fetches[f] = Unsent /\ \A g \in 1..(f - 1) : fetches[g] # Unsent
    /\ StopLogStream
    /\ loading' = TRUE
    /\ fetches' = [fetches EXCEPT ![f] = [state |-> "sent", of |-> Selection]]
    /\ UNCHANGED <<live, selection, shown>>

FetchOver(f) ==
    /\ fetches[f].state = "sent"
    /\ fetches' = [fetches EXCEPT ![f] = Over]
    /\ loading' = FALSE

\* n lines of the log asked for: at most TailLines, fewer when the log is short or
\* cut off after podLogMaxBytes, none with a warning when it cannot be read.
FetchAnswer(f, n) ==
    /\ FetchOver(f)
    /\ shown' = [k \in 1..n |-> Line(fetches[f].of, k, 0)]
    /\ UNCHANGED <<live, selection, pending, paused, streaming, current, streams>>

FetchFails(f) ==
    /\ FetchOver(f)
    /\ shown' = <<>>
    /\ UNCHANGED <<live, selection, pending, paused, streaming, current, streams>>

----------------------------------------------------------------------------
(* toggleLogStream *)

StartStream(s) ==
    /\ CanFetch /\ ~previous /\ ~loading /\ ~streaming
    /\ streams[s] = Unsent /\ \A t \in 1..(s - 1) : streams[t] # Unsent
    /\ streams' = [streams EXCEPT ![s] = [state |-> "open", of |-> Selection, last |-> 0]]
    /\ current' = s
    /\ streaming' = TRUE
    /\ shown' = <<>>
    /\ ResetPause
    /\ UNCHANGED <<live, selection, loading, fetches>>

StopStream ==
    /\ CanFetch /\ ~previous /\ ~loading /\ streaming
    /\ StopLogStream
    /\ UNCHANGED <<live, selection, shown, loading, fetches>>

\* onMessage with the next line of the log.
LineArrives(s) ==
    LET n == streams[s].last + 1
        line == Line(streams[s].of, n, s)
    IN  /\ streams[s].state = "open" /\ n <= MaxLog
        /\ streams' = [streams EXCEPT ![s].last = n]
        /\ IF paused
             THEN pending' = Cap(Append(pending, line)) /\ UNCHANGED shown
             ELSE shown' = Cap(Append(shown, line)) /\ UNCHANGED pending
        /\ UNCHANGED <<live, selection, paused, loading, streaming, current, fetches>>

StreamOverUnchecked(s) ==
    /\ streams[s].state \in {"open", "aborted"}
    /\ streams' = [streams EXCEPT ![s] = Over]
    /\ current' = 0 /\ streaming' = FALSE /\ ResetPause
    /\ UNCHANGED <<live, selection, shown, loading, fetches>>

\* streamResourceLogs returns or fails: the log ends, the byte limit or a timeout is
\* reached, the connection breaks, or the stream was aborted, perhaps long ago.
StreamOver(s) ==
    /\ streams[s].state \in {"open", "aborted"}
    /\ streams' = [streams EXCEPT ![s] = Over]
    /\ IF current = s
         THEN current' = 0 /\ streaming' = FALSE /\ ResetPause
         ELSE UNCHANGED <<current, streaming, pending, paused>>
    /\ UNCHANGED <<live, selection, shown, loading, fetches>>

Pause ==
    /\ CanFetch /\ streaming /\ ~paused
    /\ paused' = TRUE
    /\ UNCHANGED <<live, selection, shown, pending, requests>>

Resumed == Cap(shown \o pending)

Resume ==
    /\ CanFetch /\ streaming /\ paused
    /\ shown' = Resumed
    /\ ResetPause
    /\ UNCHANGED <<live, selection, requests>>

----------------------------------------------------------------------------
Browser ==
    \/ \E p \in Pods \cup {NotAPod} : SelectResource(p) \/ Remount(p)
    \/ SetLive
    \/ CanFetch /\ \E i \in DOMAIN Containers[resource] : ChangeContainer(i)
    \/ ChangePrevious
    \/ \E f \in Fetches : FetchLogs(f)
    \/ \E s \in Streams : StartStream(s)
    \/ StopStream \/ Pause \/ Resume

Network ==
    \/ \E f \in Fetches, n \in 0..TailLines : FetchAnswer(f, n)
    \/ \E f \in Fetches : FetchFails(f)
    \/ \E s \in Streams : LineArrives(s) \/ StreamOver(s)

Next == Browser \/ Network

Spec == Init /\ [][Next]_vars

----------------------------------------------------------------------------
IsLine(line) == line.number \in 1..(MaxLog + TailLines) /\ line.by \in 0..MaxStreams

\* The controller's state is well-formed: lines are kept back only while paused,
\* only a stream can be paused, and never more lines are kept than may be shown.
TypeOK ==
    /\ live \in BOOLEAN /\ resource \in Pods \cup {NotAPod}
    /\ {previous, paused, loading, streaming} \subseteq BOOLEAN
    /\ current \in 0..MaxStreams
    /\ Len(shown) <= MaxVisible \/ Len(shown) <= TailLines
    /\ Len(pending) <= MaxVisible
    /\ \A k \in DOMAIN shown : IsLine(shown[k])
    /\ \A k \in DOMAIN pending : IsLine(pending[k])
    /\ paused => streaming
    /\ paused \/ pending = <<>>

\* At most one stream is open, and it is the one that the panel shows as running and
\* that its stop button can abort, however resources, mounts and requests come and go.
OneStream ==
    /\ streaming <=> current # 0
    /\ \A s \in Streams : streams[s].state = "open" <=> s = current

Followed(s) == SelectSeq(s, LAMBDA line : line.by = current)

Consecutive(s) == \A k \in 1..(Len(s) - 1) : s[k + 1].number = s[k].number + 1

\* While a log is followed, its lines are shown in order and without a gap up to the
\* line read last, through any number of pauses; only a pause that outgrows what the
\* panel can keep leaves lines out, and then none older than them stays after resuming.
FollowedLinesInOrder ==
    LET seen == Followed(shown)
        kept == Followed(pending)
        all == seen \o kept
    IN  current # 0 =>
        /\ Consecutive(seen) /\ Consecutive(kept)
        /\ Len(kept) < MaxVisible => Consecutive(all)
        /\ all # <<>> => Last(all).number = streams[current].last

\* The lines that a stream brought, shown or kept back, are of the Pod, container and
\* instance that the panel says they are, also when the selection changed meanwhile.
FollowedLinesMatchSelection ==
    \A k \in DOMAIN (shown \o pending) :
        LET line == (shown \o pending)[k] IN line.by # 0 => line.of = Selection

\* A spinner has a request that will put it down: no selection, mount or failure
\* leaves the panel loading with nothing on its way.
SpinnerHasARequest == loading => \E f \in Fetches : fetches[f].state = "sent"

\* All the lines of the panel are of the Pod, container and instance it says they are.
\* Fetches are not cancelled when another resource is selected and their answers are
\* not compared with the selection, so this does not hold.
LinesMatchSelection == \A k \in DOMAIN shown : shown[k].of = Selection
=============================================================================
