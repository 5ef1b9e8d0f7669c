------------------------- MODULE DetailPanelProofs -------------------------
(***************************************************************************)
(* Theorems about MCDetailPanel: its panels, for any Pods, resources,      *)
(* filters and answers, any number of fetches, streams, requests, pages    *)
(* and events, and logs of any length.                                     *)
(***************************************************************************)
EXTENDS MCDetailPanel, SequenceTheorems, FunctionTheorems, FiniteSetTheorems, TLAPS

----------------------------------------------------------------------------
(* The logs *)

Labels == [pod : Pods, container : STRING, previous : BOOLEAN]

\* The selection names a log as soon as logs can be asked for.
SelectionOK ==
    /\ resource \in Pods \cup {NotAPod}
    /\ container \in STRING /\ previous \in BOOLEAN

FetchesOK ==
    /\ fetches = [f \in Fetches |-> fetches[f]]
    /\ \A f \in Fetches : fetches[f].state = "sent" => fetches[f].of \in Labels

\* The open stream is the current one and reads the log of the selection.
StreamsOK ==
    /\ streams = [s \in Streams |-> streams[s]]
    /\ current \in Streams \cup {0}
    /\ streaming = (current # 0)
    /\ \A s \in Streams : streams[s].state = "open" <=> s = current
    /\ current # 0 =>
         /\ streams[current].of = Selection
         /\ streams[current].last \in Nat
         /\ Selection \in Labels
         /\ streams[current] = [state |-> "open", of |-> streams[current].of,
                                last |-> streams[current].last]

\* The lines that may be shown with the current selection.
Mine ==
    {line \in [of : Labels, number : Nat, by : Nat] : line.by # 0 => line.of = Selection}

LinesOK == shown \in Seq(Mine) /\ pending \in Seq(Mine)

\* The inductive invariant: that lines match the selection needs that the stream
\* which brings them does, and that only one stream brings any.
IInv == SelectionOK /\ FetchesOK /\ StreamsOK /\ LinesOK

----------------------------------------------------------------------------
(* What the parts of the callbacks keep *)

LEMMA Naturals ==
    MaxStreams \in Nat /\ MaxFetches \in Nat /\ MaxVisible \in Nat /\ TailLines \in Nat
BY LogAssumption

LEMMA EmptyIsASeq == \A S : <<>> \in Seq(S)
BY EmptySeq

LEMMA DefaultIsAString ==
    ASSUME NEW p \in Pods \cup {NotAPod}
    PROVE  DefaultContainer(p) \in STRING
<1>1. CASE p \in Pods
  <2>1. Containers[p] \in Seq(STRING) /\ Containers[p] # <<>> BY <1>1, LogAssumption
  <2>2. Len(Containers[p]) \in Nat \ {0} BY <2>1, EmptySeq
  <2>3. Containers[p][1] \in STRING BY <2>1, <2>2, ElementOfSeq
  <2>4. QED BY <1>1, <2>3 DEF DefaultContainer
<1>2. CASE p \notin Pods BY <1>2, LogAssumption DEF DefaultContainer
<1>3. QED BY <1>1, <1>2

LEMMA SelectedPodIsALabel ==
    ASSUME SelectionOK, resource \in Pods
    PROVE  Selection \in Labels
BY DEF SelectionOK, Selection, Source, Labels

\* Cap keeps a suffix of what it is given.
LEMMA CapKeepsElements ==
    ASSUME NEW S, NEW seq \in Seq(S)
    PROVE  Cap(seq) \in Seq(S)
<1> DEFINE from == IF Len(seq) > MaxVisible THEN Len(seq) - MaxVisible + 1 ELSE 1
<1>1. Len(seq) \in Nat BY LenProperties
<1>2. from \in Int /\ from >= 1 BY <1>1, Naturals
<1>3. \A i \in from..Len(seq) : seq[i] \in S
  <2> SUFFICES ASSUME NEW i \in from..Len(seq) PROVE seq[i] \in S
    OBVIOUS
  <2>1. i \in 1..Len(seq) BY <1>1, <1>2
  <2>2. QED BY <2>1, ElementOfSeq
<1> HIDE DEF from
<1>4. SubSeq(seq, from, Len(seq)) \in Seq(S) BY <1>1, <1>2, <1>3, SubSeqProperties
<1>5. QED BY <1>4 DEF Cap, from

LEMMA MineIsKept ==
    ASSUME UNCHANGED selection
    PROVE  Mine' = Mine /\ Selection' = Selection
BY DEF Mine, Selection, Source, selection

\* However a stream is stopped, no stream is open afterwards.
LEMMA AbortLeavesNone ==
    ASSUME StreamsOK, AbortStream, streaming' = FALSE
    PROVE  StreamsOK'
<1>1. current' = 0 BY DEF AbortStream
<1>2. streams' = [s \in Streams |-> streams'[s]] BY DEF AbortStream, StreamsOK
<1>3. ASSUME NEW s \in Streams PROVE streams'[s].state # "open"
  <2>1. CASE current = 0 BY <2>1 DEF AbortStream, StreamsOK, Streams
  <2>2. CASE current # 0 /\ s = current
    <3>1. streams'[s] = Aborted BY <2>2 DEF AbortStream, StreamsOK
    <3>2. QED BY <3>1 DEF Aborted
  <2>3. CASE current # 0 /\ s # current BY <2>3 DEF AbortStream, StreamsOK
  <2>4. QED BY <2>1, <2>2, <2>3
<1>4. 0 \notin Streams BY DEF Streams
<1>5. QED BY <1>1, <1>2, <1>3, <1>4 DEF StreamsOK

LEMMA StreamsAreKept ==
    ASSUME StreamsOK, UNCHANGED <<streams, current, streaming, selection>>
    PROVE  StreamsOK'
<1>1. Selection' = Selection BY MineIsKept
<1>2. QED BY <1>1 DEF StreamsOK

LEMMA LinesAreKept ==
    ASSUME LinesOK, UNCHANGED selection,
           shown' = shown \/ shown' = <<>>, pending' = pending \/ pending' = <<>>
    PROVE  LinesOK'
BY MineIsKept, EmptyIsASeq DEF LinesOK

LEMMA SelectionIsKept ==
    ASSUME SelectionOK, UNCHANGED selection
    PROVE  SelectionOK'
BY DEF SelectionOK, selection

LEMMA FetchesAreKept ==
    ASSUME FetchesOK, UNCHANGED fetches
    PROVE  FetchesOK'
BY DEF FetchesOK

----------------------------------------------------------------------------
(* The initial states and each action. *)

LEMMA InitIInv == Init => IInv
<1> SUFFICES ASSUME Init PROVE IInv
  OBVIOUS
<1>1. SelectionOK BY DefaultIsAString DEF Init, SelectionOK
<1>2. FetchesOK
  <2>1. \A f \in Fetches : fetches[f].state = "unused" BY DEF Init, Unsent
  <2>2. QED BY <2>1 DEF Init, FetchesOK
<1>3. StreamsOK
  <2>1. \A s \in Streams : streams[s].state = "unused" BY DEF Init, Unsent
  <2>2. 0 \notin Streams BY DEF Streams
  <2>3. QED BY <2>1, <2>2 DEF Init, StreamsOK
<1>4. LinesOK BY EmptyIsASeq DEF Init, LinesOK
<1>5. QED BY <1>1, <1>2, <1>3, <1>4 DEF IInv

LEMMA ResetIInv ==
    ASSUME IInv, NEW p \in Pods \cup {NotAPod}, ResetState(p)
    PROVE  SelectionOK' /\ StreamsOK' /\ LinesOK'
<1>1. SelectionOK' BY DefaultIsAString DEF ResetState, SelectionOK
<1>2. StreamsOK' BY AbortLeavesNone DEF IInv, ResetState
<1>3. LinesOK' BY EmptyIsASeq DEF ResetState, ResetPause, LinesOK
<1>4. QED BY <1>1, <1>2, <1>3

LEMMA SelectResourceIInv ==
    ASSUME IInv, NEW p \in Pods \cup {NotAPod}, SelectResource(p)
    PROVE  IInv'
BY ResetIInv, FetchesAreKept DEF IInv, SelectResource

LEMMA RemountIInv ==
    ASSUME IInv, NEW p \in Pods \cup {NotAPod}, Remount(p)
    PROVE  IInv'
<1>1. SelectionOK' /\ StreamsOK' /\ LinesOK' BY ResetIInv DEF Remount
<1>2. FetchesOK'
  <2>1. \A f \in Fetches : fetches'[f] = Over \/ fetches'[f] = fetches[f] BY DEF Remount
  <2>2. Over.state = "over" BY DEF Over
  <2>3. \A f \in Fetches : fetches'[f].state = "sent" => fetches'[f] = fetches[f] BY <2>1, <2>2
  <2>4. QED BY <2>3 DEF IInv, FetchesOK, Remount
<1>3. QED BY <1>1, <1>2 DEF IInv

LEMMA SetLiveIInv ==
    ASSUME IInv, SetLive
    PROVE  IInv'
BY SelectionIsKept, FetchesAreKept, StreamsAreKept, LinesAreKept
   DEF IInv, SetLive, lines, requests

LEMMA ChangeContainerIInv ==
    ASSUME IInv, CanFetch, NEW i \in DOMAIN Containers[resource], ChangeContainer(i)
    PROVE  IInv'
<1>1. SelectionOK'
  <2>1. resource \in Pods BY DEF CanFetch
  <2>2. Containers[resource] \in Seq(STRING) BY <2>1, LogAssumption
  <2>3. Containers[resource][i] \in STRING BY <2>2, LenProperties, ElementOfSeq
  <2>4. QED BY <2>3 DEF IInv, SelectionOK, ChangeContainer
<1>2. StreamsOK' BY AbortLeavesNone DEF IInv, ChangeContainer, StopLogStream
<1>3. FetchesOK' BY FetchesAreKept DEF IInv, ChangeContainer
<1>4. LinesOK' BY EmptyIsASeq DEF ChangeContainer, StopLogStream, ResetPause, LinesOK
<1>5. QED BY <1>1, <1>2, <1>3, <1>4 DEF IInv

LEMMA ChangePreviousIInv ==
    ASSUME IInv, ChangePrevious
    PROVE  IInv'
<1>1. SelectionOK' BY DEF IInv, SelectionOK, ChangePrevious
<1>2. StreamsOK' BY AbortLeavesNone DEF IInv, ChangePrevious, StopLogStream
<1>3. FetchesOK' BY FetchesAreKept DEF IInv, ChangePrevious
<1>4. LinesOK' BY EmptyIsASeq DEF ChangePrevious, StopLogStream, ResetPause, LinesOK
<1>5. QED BY <1>1, <1>2, <1>3, <1>4 DEF IInv

LEMMA FetchLogsIInv ==
    ASSUME IInv, NEW f \in Fetches, FetchLogs(f)
    PROVE  IInv'
<1>1. SelectionOK' BY SelectionIsKept DEF IInv, FetchLogs
<1>2. StreamsOK' BY AbortLeavesNone DEF IInv, FetchLogs, StopLogStream
<1>3. FetchesOK'
  <2>1. Selection \in Labels BY SelectedPodIsALabel DEF IInv, FetchLogs, CanFetch
  <2>2. \A g \in Fetches : IF g = f THEN fetches'[g].of = Selection ELSE fetches'[g] = fetches[g]
    BY DEF IInv, FetchesOK, FetchLogs
  <2>3. fetches' = [g \in Fetches |-> fetches'[g]] BY DEF IInv, FetchesOK, FetchLogs
  <2>4. QED BY <2>1, <2>2, <2>3 DEF IInv, FetchesOK
<1>4. LinesOK' BY LinesAreKept DEF IInv, FetchLogs, StopLogStream, ResetPause
<1>5. QED BY <1>1, <1>2, <1>3, <1>4 DEF IInv

LEMMA FetchOverKeepsFetches ==
    ASSUME FetchesOK, NEW f \in Fetches, FetchOver(f)
    PROVE  FetchesOK'
<1>1. Over.state # "sent" BY DEF Over
<1>2. fetches' = [g \in Fetches |-> fetches'[g]] BY DEF FetchesOK, FetchOver
<1>3. \A g \in Fetches : fetches'[g].state = "sent" => fetches'[g] = fetches[g]
  BY <1>1 DEF FetchesOK, FetchOver
<1>4. QED BY <1>2, <1>3 DEF FetchesOK

LEMMA FetchAnswerIInv ==
    ASSUME IInv, NEW f \in Fetches, NEW n \in 0..TailLines, FetchAnswer(f, n)
    PROVE  IInv'
<1>1. SelectionOK' BY SelectionIsKept DEF IInv, FetchAnswer, selection
<1>2. StreamsOK' BY StreamsAreKept DEF IInv, FetchAnswer, selection
<1>3. FetchesOK' BY FetchOverKeepsFetches DEF IInv, FetchAnswer
<1>4. LinesOK'
  <2>1. n \in Nat BY Naturals
  <2>2. fetches[f].of \in Labels BY DEF IInv, FetchesOK, FetchAnswer, FetchOver
  <2>3. \A k \in 1..n : Line(fetches[f].of, k, 0) \in Mine BY <2>1, <2>2 DEF Line, Mine
  <2>4. shown' \in [1..n -> Mine] BY <2>3 DEF FetchAnswer
  <2>5. shown' \in Seq(Mine) BY <2>1, <2>4, SeqDef
  <2>6. Mine' = Mine BY MineIsKept DEF FetchAnswer, selection
  <2>7. QED BY <2>5, <2>6 DEF IInv, LinesOK, FetchAnswer
<1>5. QED BY <1>1, <1>2, <1>3, <1>4 DEF IInv

LEMMA FetchFailsIInv ==
    ASSUME IInv, NEW f \in Fetches, FetchFails(f)
    PROVE  IInv'
<1>1. FetchesOK' BY FetchOverKeepsFetches DEF IInv, FetchFails
<1>2. QED BY <1>1, SelectionIsKept, StreamsAreKept, LinesAreKept DEF IInv, FetchFails, selection

LEMMA StartStreamIInv ==
    ASSUME IInv, NEW s \in Streams, StartStream(s)
    PROVE  IInv'
<1>1. UNCHANGED selection BY DEF StartStream
<1>2. SelectionOK' /\ FetchesOK'
  BY SelectionIsKept, FetchesAreKept, <1>1 DEF IInv, StartStream
<1>3. StreamsOK'
  <2>1. Selection' = Selection BY <1>1, MineIsKept
  <2>2. Selection \in Labels BY SelectedPodIsALabel DEF IInv, StartStream, CanFetch
  <2>3. current = 0 BY DEF IInv, StreamsOK, StartStream
  <2>4. \A t \in Streams : streams[t].state # "open" BY <2>3 DEF IInv, StreamsOK, Streams
  <2>5. streams'[s] = [state |-> "open", of |-> Selection, last |-> 0]
    BY DEF IInv, StreamsOK, StartStream
  <2>6. \A t \in Streams : t # s => streams'[t] = streams[t] BY DEF IInv, StreamsOK, StartStream
  <2>7. streams' = [t \in Streams |-> streams'[t]] BY DEF IInv, StreamsOK, StartStream
  <2>8. current' = s /\ streaming' = TRUE /\ s # 0 BY DEF StartStream, Streams
  <2>9. streams'[s].state = "open" /\ streams'[s].of = Selection /\ streams'[s].last = 0 BY <2>5
  <2>10. \A t \in Streams : streams'[t].state = "open" <=> t = s BY <2>4, <2>6, <2>9
  <2>11. streaming' = (current' # 0) /\ current' \in Streams BY <2>8
  <2>12. /\ streams'[current'].of = Selection' /\ streams'[current'].last \in Nat
         /\ Selection' \in Labels
    BY <2>1, <2>2, <2>8, <2>9
  <2>13. streams'[current'] = [state |-> "open", of |-> streams'[current'].of,
                               last |-> streams'[current'].last]
    BY <2>5, <2>8, <2>9
  <2>14. \A t \in Streams : streams'[t].state = "open" <=> t = current' BY <2>8, <2>10
  <2>15. QED BY <2>7, <2>11, <2>12, <2>13, <2>14 DEF StreamsOK
<1>4. LinesOK' BY LinesAreKept, <1>1 DEF IInv, StartStream, ResetPause
<1>5. QED BY <1>2, <1>3, <1>4 DEF IInv

LEMMA StopStreamIInv ==
    ASSUME IInv, StopStream
    PROVE  IInv'
<1>1. StreamsOK' BY AbortLeavesNone DEF IInv, StopStream, StopLogStream
<1>2. LinesOK' BY LinesAreKept DEF IInv, StopStream, StopLogStream, ResetPause
<1>3. QED BY <1>1, <1>2, SelectionIsKept, FetchesAreKept DEF IInv, StopStream

LEMMA LineArrivesIInv ==
    ASSUME IInv, NEW s \in Streams, LineArrives(s)
    PROVE  IInv'
<1> DEFINE n == streams[s].last + 1
           line == Line(streams[s].of, n, s)
<1>1. UNCHANGED selection BY DEF LineArrives
<1>2. SelectionOK' /\ FetchesOK'
  BY SelectionIsKept, FetchesAreKept, <1>1 DEF IInv, LineArrives
<1>3. s = current /\ s # 0 BY DEF IInv, StreamsOK, LineArrives, Streams
<1>4. n \in Nat /\ streams[s].of = Selection /\ Selection \in Labels
  BY <1>3 DEF IInv, StreamsOK
<1>5. StreamsOK'
  <2>1. Selection' = Selection BY <1>1, MineIsKept
  <2>2. streams'[s] = [state |-> "open", of |-> streams[s].of, last |-> n]
    BY <1>3 DEF IInv, StreamsOK, LineArrives
  <2>3. \A t \in Streams : t # s => streams'[t] = streams[t] BY DEF IInv, StreamsOK, LineArrives
  <2>4. streams' = [t \in Streams |-> streams'[t]] BY DEF IInv, StreamsOK, LineArrives
  <2>5. streams'[s].state = "open" /\ streams'[s].of = Selection /\ streams'[s].last = n
    BY <2>2, <1>4
  <2>6. UNCHANGED <<current, streaming>> BY DEF LineArrives
  <2>7. \A t \in Streams : streams'[t].state = "open" <=> t = current'
    BY <1>3, <2>3, <2>5, <2>6 DEF IInv, StreamsOK
  <2>8. QED BY <1>3, <1>4, <2>1, <2>2, <2>4, <2>5, <2>6, <2>7 DEF IInv, StreamsOK
<1>6. LinesOK'
  <2>1. Mine' = Mine BY <1>1, MineIsKept
  <2>2. line \in Mine BY <1>4 DEF Line, Mine, Streams
  <2>3. Append(shown, line) \in Seq(Mine) /\ Append(pending, line) \in Seq(Mine)
    BY <2>2 DEF IInv, LinesOK
  <2>4. Cap(Append(shown, line)) \in Seq(Mine) /\ Cap(Append(pending, line)) \in Seq(Mine)
    BY <2>3, CapKeepsElements
  <2>5. /\ shown' = shown \/ shown' = Cap(Append(shown, line))
        /\ pending' = pending \/ pending' = Cap(Append(pending, line))
    BY DEF LineArrives
  <2>6. QED BY <2>1, <2>4, <2>5 DEF IInv, LinesOK
<1>7. QED BY <1>2, <1>5, <1>6 DEF IInv

LEMMA StreamOverIInv ==
    ASSUME IInv, NEW s \in Streams, StreamOver(s)
    PROVE  IInv'
<1>1. UNCHANGED selection BY DEF StreamOver
<1>2. SelectionOK' /\ FetchesOK'
  BY SelectionIsKept, FetchesAreKept, <1>1 DEF IInv, StreamOver
<1>3. StreamsOK'
  <2>1. Selection' = Selection BY <1>1, MineIsKept
  <2>2. streams' = [t \in Streams |-> streams'[t]] BY DEF IInv, StreamsOK, StreamOver
  <2>3. streams'[s].state = "over" BY DEF IInv, StreamsOK, StreamOver, Over
  <2>4. \A t \in Streams : t # s => streams'[t] = streams[t] BY DEF IInv, StreamsOK, StreamOver
  <2>5. 0 \notin Streams BY DEF Streams
  <2>6. CASE current = s
    <3>1. current' = 0 /\ streaming' = FALSE BY <2>6 DEF StreamOver
    <3>2. \A t \in Streams : streams'[t].state # "open" BY <2>3, <2>4, <2>6 DEF IInv, StreamsOK
    <3>3. QED BY <2>2, <2>5, <3>1, <3>2 DEF StreamsOK
  <2>7. CASE current # s
    <3>1. UNCHANGED <<current, streaming>> BY <2>7 DEF StreamOver
    <3>2. \A t \in Streams : streams'[t].state = "open" <=> t = current
      BY <2>3, <2>4, <2>7 DEF IInv, StreamsOK
    <3>3. current # 0 => streams'[current] = streams[current]
      BY <2>4, <2>7 DEF IInv, StreamsOK
    <3>4. QED BY <2>1, <2>2, <3>1, <3>2, <3>3 DEF IInv, StreamsOK
  <2>8. QED BY <2>6, <2>7
<1>4. LinesOK' BY LinesAreKept, <1>1 DEF IInv, StreamOver, ResetPause
<1>5. QED BY <1>2, <1>3, <1>4 DEF IInv

LEMMA PauseIInv ==
    ASSUME IInv, Pause
    PROVE  IInv'
BY SelectionIsKept, FetchesAreKept, StreamsAreKept, LinesAreKept DEF IInv, Pause, requests

LEMMA ResumeIInv ==
    ASSUME IInv, Resume
    PROVE  IInv'
<1>1. UNCHANGED selection BY DEF Resume
<1>2. SelectionOK' /\ FetchesOK' /\ StreamsOK'
  BY SelectionIsKept, FetchesAreKept, StreamsAreKept, <1>1 DEF IInv, Resume, requests
<1>3. LinesOK'
  <2>1. shown \o pending \in Seq(Mine) BY ConcatProperties DEF IInv, LinesOK
  <2>2. shown' \in Seq(Mine) BY <2>1, CapKeepsElements DEF Resume, Resumed
  <2>3. Mine' = Mine BY <1>1, MineIsKept
  <2>4. QED BY <2>2, <2>3, EmptyIsASeq DEF LinesOK, Resume, ResetPause
<1>4. QED BY <1>2, <1>3 DEF IInv

LEMMA StutterIInv ==
    ASSUME IInv, UNCHANGED vars
    PROVE  IInv'
BY SelectionIsKept, FetchesAreKept, StreamsAreKept, LinesAreKept
   DEF IInv, vars, lines, requests

----------------------------------------------------------------------------
(* Its theorems *)

\* The inductive invariant holds in every reachable state.
THEOREM Inductive == Spec => []IInv
<1>1. IInv /\ [Next]_vars => IInv'
  <2> SUFFICES ASSUME IInv, [Next]_vars PROVE IInv'
    OBVIOUS
  <2>1. CASE Browser
    BY <2>1, SelectResourceIInv, RemountIInv, SetLiveIInv, ChangeContainerIInv,
       ChangePreviousIInv, FetchLogsIInv, StartStreamIInv, StopStreamIInv, PauseIInv,
       ResumeIInv DEF Browser
  <2>2. CASE Network
    BY <2>2, FetchAnswerIInv, FetchFailsIInv, LineArrivesIInv, StreamOverIInv DEF Network
  <2>3. CASE UNCHANGED vars BY <2>3, StutterIInv
  <2>4. QED BY <2>1, <2>2, <2>3 DEF Next
<1>2. QED BY <1>1, InitIInv, PTL DEF Spec

\* At most one stream is open, and it is the one the panel shows and can stop
\* (useResourceLogsController), for any number of streams and selections.
THEOREM OneStreamAtATime == Spec => []OneStream
<1>1. IInv => OneStream
  <2> SUFFICES ASSUME IInv PROVE OneStream
    OBVIOUS
  <2>1. streaming <=> current # 0 BY DEF IInv, StreamsOK
  <2>2. \A s \in Streams : streams[s].state = "open" <=> s = current BY DEF IInv, StreamsOK
  <2>3. QED BY <2>1, <2>2 DEF OneStream
<1>2. QED BY <1>1, Inductive, PTL

\* What a stream brought is of the Pod, container and instance that the panel
\* shows (useResourceLogsController), whatever was selected while it was read.
LEMMA FollowedLines == IInv => FollowedLinesMatchSelection
<1> SUFFICES ASSUME IInv, NEW k \in DOMAIN (shown \o pending), (shown \o pending)[k].by # 0
             PROVE  (shown \o pending)[k].of = Selection
  BY DEF FollowedLinesMatchSelection
<1>1. shown \o pending \in Seq(Mine) BY ConcatProperties DEF IInv, LinesOK
<1>2. (shown \o pending)[k] \in Mine BY <1>1, LenProperties, ElementOfSeq
<1>3. QED BY <1>2 DEF Mine

----------------------------------------------------------------------------
(* Sorting and selecting *)

\* A strict total order of 1..n is that of some arrangement: each element goes to the
\* place that the number of those before it says, and no two to the same.
LEMMA Arrangement ==
    ASSUME NEW n \in Nat, NEW R,
           \A i \in 1..n : <<i, i>> \notin R,
           \A i, j, k \in 1..n : <<i, j>> \in R /\ <<j, k>> \in R => <<i, k>> \in R,
           \A i, j \in 1..n : i # j => <<i, j>> \in R \/ <<j, i>> \in R
    PROVE  \E f \in [1..n -> 1..n] : \A i, j \in 1..n : i < j => <<f[i], f[j]>> \in R
<1> DEFINE before(i) == {j \in 1..n : <<j, i>> \in R}
           rank == [i \in 1..n |-> Cardinality(before(i)) + 1]
<1>1. IsFiniteSet(1..n) /\ Cardinality(1..n) = n BY FS_Interval
<1>2. \A i, j \in 1..n : j \in before(i) <=> <<j, i>> \in R OBVIOUS
<1>3. \A i \in 1..n : before(i) \in SUBSET (1..n) OBVIOUS
<1> HIDE DEF before
<1>4. ASSUME NEW i \in 1..n PROVE IsFiniteSet(before(i)) /\ Cardinality(before(i)) \in 0..(n - 1)
  <2>1. before(i) \in SUBSET (1..n) /\ before(i) # 1..n BY <1>2, <1>3
  <2>2. /\ IsFiniteSet(before(i)) /\ Cardinality(before(i)) <= n
        /\ Cardinality(before(i)) # n
    BY <1>1, <2>1, FS_Subset
  <2>3. Cardinality(before(i)) \in Nat BY <2>2, FS_CardinalityType
  <2>4. QED BY <2>2, <2>3
<1>5. ASSUME NEW i \in 1..n, NEW j \in 1..n, <<i, j>> \in R
      PROVE  Cardinality(before(i)) < Cardinality(before(j))
  <2>1. before(i) \in SUBSET before(j)
    <3>1. \A k \in 1..n : <<k, i>> \in R => <<k, j>> \in R BY <1>5
    <3>2. QED BY <1>2, <1>3, <3>1
  <2>2. i \in before(j) /\ i \notin before(i) BY <1>2, <1>5
  <2>3. /\ Cardinality(before(i)) <= Cardinality(before(j))
        /\ Cardinality(before(i)) # Cardinality(before(j))
    BY <1>4, <2>1, <2>2, FS_Subset
  <2>4. QED BY <1>4, <2>3
<1>6. rank \in [1..n -> 1..n] BY <1>4
<1>7. \A i, j \in 1..n : <<i, j>> \in R => rank[i] < rank[j]
  <2> SUFFICES ASSUME NEW i \in 1..n, NEW j \in 1..n, <<i, j>> \in R PROVE rank[i] < rank[j]
    OBVIOUS
  <2>1. Cardinality(before(i)) < Cardinality(before(j)) BY <1>5
  <2>2. QED BY <1>4, <2>1
<1>8. \A i \in 1..n : rank[i] \in Int BY <1>6
<1> HIDE DEF rank
<1>9. ASSUME NEW i \in 1..n, NEW j \in 1..n, rank[i] = rank[j] PROVE i = j
  <2>1. ~(rank[i] < rank[j]) /\ ~(rank[j] < rank[i]) BY <1>8, <1>9
  <2>2. QED BY <1>7, <2>1
<1>10. rank \in Injection(1..n, 1..n) BY <1>6, <1>9, Fun_IsInj
<1>11. rank \in Surjection(1..n, 1..n) BY <1>1, <1>10, FS_Injection
<1>12. \A k \in 1..n : \E i \in 1..n : rank[i] = k BY <1>11, Fun_SurjectionProperties
<1> DEFINE f == [k \in 1..n |-> CHOOSE i \in 1..n : rank[i] = k]
<1>13. \A k \in 1..n : f[k] \in 1..n /\ rank[f[k]] = k BY <1>12
<1>14. f \in [1..n -> 1..n] BY <1>13
<1> HIDE DEF f
<1>15. ASSUME NEW i \in 1..n, NEW j \in 1..n, i < j PROVE <<f[i], f[j]>> \in R
  <2>1. f[i] # f[j] BY <1>13, <1>15
  <2>2. <<f[i], f[j]>> \in R \/ <<f[j], f[i]>> \in R BY <1>13, <2>1
  <2>3. <<f[j], f[i]>> \in R => j < i BY <1>7, <1>13
  <2>4. QED BY <1>15, <2>2, <2>3
<1>16. QED BY <1>14, <1>15

\* Sorting the answer to a request for events neither adds nor changes any.
LEMMA NewestKeepsElements ==
    ASSUME NEW r, NEW items \in Seq(EventsOf(r))
    PROVE  E!Newest(items) \in Seq(EventsOf(r))
<1> DEFINE n == Len(items)
           earlier(i, j) == \/ items[i].text > items[j].text
                            \/ items[i].text = items[j].text /\ i < j
           R == {p \in (1..n) \X (1..n) : earlier(p[1], p[2])}
           placing == CHOOSE f \in [1..n -> 1..n] : \A i, j \in 1..n : i < j => earlier(f[i], f[j])
<1>1. n \in Nat /\ DOMAIN items = 1..n /\ \A i \in 1..n : items[i] \in EventsOf(r)
  BY LenProperties, ElementOfSeq
<1>2. \A i \in 1..n : items[i].text \in Int BY <1>1 DEF EventsOf
<1>3. \A i, j \in 1..n : <<i, j>> \in R <=> earlier(i, j) OBVIOUS
<1>4. \A i \in 1..n : ~earlier(i, i) BY <1>2
<1>5. \A i, j, k \in 1..n : earlier(i, j) /\ earlier(j, k) => earlier(i, k) BY <1>1, <1>2
<1>6. \A i, j \in 1..n : i # j => earlier(i, j) \/ earlier(j, i) BY <1>1, <1>2
<1>7. E!Newest(items) = [k \in 1..n |-> items[placing[k]]] BY <1>1 DEF E!Newest
<1> HIDE DEF earlier, R, n
<1>8. \E f \in [1..n -> 1..n] : \A i, j \in 1..n : i < j => <<f[i], f[j]>> \in R
  BY <1>1, <1>3, <1>4, <1>5, <1>6, Arrangement
<1>9. \E f \in [1..n -> 1..n] : \A i, j \in 1..n : i < j => earlier(f[i], f[j])
  BY <1>3, <1>8
<1>10. placing \in [1..n -> 1..n] BY <1>9
<1> HIDE DEF placing
<1>11. [k \in 1..n |-> items[placing[k]]] \in [1..n -> EventsOf(r)] BY <1>1, <1>10
<1>12. QED BY <1>1, <1>7, <1>11, SeqDef

----------------------------------------------------------------------------
(* The events *)

\* The one request that is not over is the current one, and is of the resource shown.
EventRequestsOK ==
    /\ live \in BOOLEAN /\ resource \in EventResources
    /\ eventRequests = [r \in E!Requests |-> eventRequests[r]]
    /\ eventsRequest \in E!Requests \cup {0}
    /\ loading = (eventsRequest # 0)
    /\ \A r \in E!Requests : eventRequests[r].state = "sent" <=> r = eventsRequest
    /\ eventsRequest # 0 =>
         /\ live
         /\ eventRequests[eventsRequest].keep \in BOOLEAN
         /\ eventRequests[eventsRequest] =
               [state |-> "sent", of |-> resource, keep |-> eventRequests[eventsRequest].keep]

\* A request that replaces the list finds nothing to compare its answer with.
EventMarksOK ==
    /\ events \in Seq(EventsOf(resource)) /\ (events # <<>> => live)
    /\ eventsRequest # 0 /\ ~eventRequests[eventsRequest].keep => events = <<>> /\ ~initialized
    /\ initialized \in BOOLEAN /\ notify \in BOOLEAN
    /\ E!MarkersFitTheEvents

EventsInv == EventRequestsOK /\ EventMarksOK

LEMMA EventConstants ==
    /\ MaxEventRequests \in Nat \ {0} /\ 1 \in E!Requests /\ 0 \notin E!Requests
    /\ E!Unsent.state # "sent"
BY PanelAssumption DEF E!Requests, E!Unsent

LEMMA SameCardinality == \A S : E!Cardinality(S) = Cardinality(S)
BY Zenon DEF E!Cardinality, Cardinality

LEMMA EventsInitInv == E!Init => EventsInv
<1> SUFFICES ASSUME E!Init PROVE EventsInv
  OBVIOUS
<1>1. eventRequests = [r \in E!Requests |-> eventRequests[r]] BY DEF E!Init
<1>2. eventsRequest = (IF live THEN 1 ELSE 0) /\ live \in BOOLEAN /\ loading = live
  BY DEF E!Init
<1>3. \A r \in E!Requests : eventRequests[r].state = "sent" <=> r = eventsRequest
  <2> SUFFICES ASSUME NEW r \in E!Requests
               PROVE  eventRequests[r].state = "sent" <=> r = eventsRequest
    OBVIOUS
  <2>1. CASE live /\ r = 1
    <3>1. eventRequests[r].state = "sent" BY <2>1 DEF E!Init
    <3>2. QED BY <1>2, <2>1, <3>1
  <2>2. CASE ~(live /\ r = 1)
    <3>1. eventRequests[r] = E!Unsent BY <2>2 DEF E!Init
    <3>2. r # eventsRequest BY <1>2, <2>2, EventConstants
    <3>3. QED BY <3>1, <3>2, EventConstants
  <2>3. QED BY <2>1, <2>2
<1>4. eventsRequest # 0 =>
        live /\ eventRequests[eventsRequest] = [state |-> "sent", of |-> resource, keep |-> FALSE]
  BY <1>2, EventConstants DEF E!Init
<1>5. EventRequestsOK BY <1>1, <1>2, <1>3, <1>4, EventConstants DEF E!Init, EventRequestsOK
<1>6. E!MarkersFitTheEvents BY DEF E!Init, E!MarkersFitTheEvents
<1>7. EventMarksOK BY <1>6, EmptyIsASeq DEF E!Init, EventMarksOK
<1>8. QED BY <1>5, <1>7 DEF EventsInv

LEMMA MarkersAreReset ==
    ASSUME E!ResetMarkers, events' = <<>>
    PROVE  E!MarkersFitTheEvents'
BY DEF E!ResetMarkers, E!MarkersFitTheEvents

\* Whatever is loaded, every request before is over, and the new one is of what is shown.
LEMMA LoadEventsInv ==
    ASSUME EventsInv, NEW keep \in BOOLEAN,
           resource' \in EventResources, live' \in BOOLEAN, UNCHANGED notify,
           E!LoadEvents(resource', live', keep),
           keep => UNCHANGED <<live, resource>>
    PROVE  EventsInv'
<1> USE DEF EventsInv
<1>1. \A r \in E!Requests : E!Aborted[r].state # "sent"
  <2> SUFFICES ASSUME NEW r \in E!Requests PROVE E!Aborted[r].state # "sent"
    OBVIOUS
  <2>1. CASE eventRequests[r].state = "sent"
    <3>1. r = eventsRequest /\ r # 0 BY <2>1, EventConstants DEF EventRequestsOK
    <3>2. E!Aborted[r] = [eventRequests[r] EXCEPT !.state = "aborted"] BY <2>1 DEF E!Aborted
    <3>3. E!Aborted[r].state = "aborted" BY <3>1, <3>2 DEF EventRequestsOK
    <3>4. QED BY <3>3
  <2>2. CASE eventRequests[r].state # "sent" BY <2>2 DEF E!Aborted
  <2>3. QED BY <2>1, <2>2
<1>2. E!Aborted = [r \in E!Requests |-> E!Aborted[r]] BY DEF E!Aborted
<1>3. EventRequestsOK' /\ (eventsRequest' # 0 => eventRequests'[eventsRequest'].keep = keep)
  <2>1. CASE live'
    <3>1. PICK r \in E!Requests :
            /\ eventRequests' = [E!Aborted EXCEPT ![r] =
                                    [state |-> "sent", of |-> resource', keep |-> keep]]
            /\ eventsRequest' = r /\ loading' = TRUE
      BY <2>1 DEF E!LoadEvents, E!NextRequest
    <3>2. r # 0 BY EventConstants
    <3>3. eventRequests' = [q \in E!Requests |-> eventRequests'[q]] BY <1>2, <3>1
    <3>4. eventRequests'[r] = [state |-> "sent", of |-> resource', keep |-> keep] BY <1>2, <3>1
    <3>5. \A q \in E!Requests : q # r => eventRequests'[q] = E!Aborted[q] BY <1>2, <3>1
    <3>6. \A q \in E!Requests : eventRequests'[q].state = "sent" <=> q = r
      BY <1>1, <3>4, <3>5
    <3>7. eventRequests'[r].keep = keep BY <3>4
    <3>8. QED BY <2>1, <3>1, <3>2, <3>3, <3>4, <3>6, <3>7 DEF EventRequestsOK
  <2>2. CASE ~live'
    <3>1. eventRequests' = E!Aborted /\ eventsRequest' = 0 /\ loading' = FALSE
      BY <2>2 DEF E!LoadEvents
    <3>2. QED BY <1>1, <1>2, <3>1, EventConstants DEF EventRequestsOK
  <2>3. QED BY <2>1, <2>2
<1>4. EventMarksOK'
  <2>1. CASE live' /\ keep
    <3>1. UNCHANGED <<events, known, initialized, newKeys, notice, newOnly, resource, live>>
      BY <2>1 DEF E!LoadEvents, E!markers
    <3>2. E!MarkersFitTheEvents' BY <3>1 DEF EventMarksOK, E!MarkersFitTheEvents, E!Keys
    <3>3. QED BY <1>3, <2>1, <3>1, <3>2 DEF EventMarksOK
  <2>2. CASE ~(live' /\ keep)
    <3>1. events' = <<>> /\ E!ResetMarkers BY <2>2 DEF E!LoadEvents
    <3>2. E!MarkersFitTheEvents' BY <3>1, MarkersAreReset
    <3>3. initialized' = FALSE BY <3>1 DEF E!ResetMarkers
    <3>4. QED BY <3>1, <3>2, <3>3, EmptyIsASeq DEF EventMarksOK
  <2>3. QED BY <2>1, <2>2
<1>5. QED BY <1>3, <1>4

\* A request that is over leaves none under way: it was the current one.
LEMMA RequestOverInv ==
    ASSUME EventsInv, NEW r \in E!Requests, E!RequestOver(r), UNCHANGED <<live, resource>>
    PROVE  EventRequestsOK' /\ r = eventsRequest /\ eventsRequest' = 0
<1> USE DEF EventsInv
<1>1. r = eventsRequest BY DEF EventRequestsOK, E!RequestOver
<1>2. eventRequests' = [eventRequests EXCEPT ![r].state = "over"] BY DEF E!RequestOver
<1>3. eventRequests' = [q \in E!Requests |-> eventRequests'[q]] BY <1>2 DEF EventRequestsOK
<1>4. \A q \in E!Requests : q # r => eventRequests'[q] = eventRequests[q]
  BY <1>2 DEF EventRequestsOK
<1>5. eventRequests'[r].state = "over" BY <1>1, <1>2, EventConstants DEF EventRequestsOK
<1>6. \A q \in E!Requests : eventRequests'[q].state # "sent"
  BY <1>1, <1>4, <1>5 DEF EventRequestsOK
<1>7. eventsRequest' = 0 /\ loading' = FALSE BY DEF E!RequestOver
<1>8. QED BY <1>1, <1>3, <1>6, <1>7, EventConstants DEF EventRequestsOK

LEMMA EventsArriveInv ==
    ASSUME EventsInv, NEW r \in E!Requests, eventRequests[r] # E!Unsent,
           NEW items \in Answers[eventRequests[r].of], E!EventsArrive(r, items)
    PROVE  EventsInv' /\ E!WarningsAreMarked
<1> DEFINE next == E!Newest(items)
           fresh == {i \in DOMAIN next : next[i].key \notin known /\ E!IsWarning(next[i])}
<1>1. EventRequestsOK' /\ r = eventsRequest /\ eventsRequest' = 0
  BY RequestOverInv DEF E!EventsArrive
<1>2. r # 0 /\ eventRequests[r].of = resource /\ live
  BY <1>1, EventConstants DEF EventsInv, EventRequestsOK
<1>3. UNCHANGED <<live, resource, notify, newOnly>> /\ events' = next
  BY DEF E!EventsArrive, E!Mark, E!settings
<1>4. next \in Seq(EventsOf(resource))
  <2>1. items \in Seq(EventsOf(resource))
    BY <1>2, PanelAssumption DEF EventsInv, EventRequestsOK
  <2>2. QED BY <2>1, NewestKeepsElements
<1>5. known' = E!Keys(next) /\ initialized' = TRUE BY DEF E!EventsArrive, E!Mark
<1>6. IF initialized /\ notify /\ fresh # {}
        THEN newKeys' = newKeys \cup {next[i].key : i \in fresh} /\ notice' = Cardinality(fresh)
        ELSE UNCHANGED <<newKeys, notice>>
  BY Zenon, SameCardinality DEF E!EventsArrive, E!Mark
<1> HIDE DEF next
<1>7. E!MarkersFitTheEvents BY DEF EventsInv, EventMarksOK
<1>8. E!MarkersFitTheEvents'
  <2>1. initialized' => known' = E!Keys(events)' BY <1>3, <1>5 DEF E!Keys
  <2>2. newKeys' # {} => initialized' /\ notify'
    BY <1>3, <1>5, <1>6, <1>7 DEF E!MarkersFitTheEvents
  <2>3. newKeys # {} => newKeys' # {} BY <1>6
  <2>4. notice' # 0 \/ newOnly' => newKeys' # {}
    <3>1. CASE initialized /\ notify /\ fresh # {} BY <1>6, <3>1
    <3>2. CASE ~(initialized /\ notify /\ fresh # {})
      BY <1>3, <1>6, <1>7, <2>3, <3>2 DEF E!MarkersFitTheEvents
    <3>3. QED BY <3>1, <3>2
  <2>5. QED BY <2>1, <2>2, <2>4 DEF E!MarkersFitTheEvents
<1>9. EventMarksOK'
  BY <1>1, <1>2, <1>3, <1>4, <1>5, <1>8 DEF EventsInv, EventMarksOK
<1>10. E!WarningsAreMarked
  <2> SUFFICES ASSUME initialized, notify PROVE E!WarningsAreMarked
    BY DEF E!WarningsAreMarked
  <2>1. known = E!Keys(events) BY <1>7 DEF E!MarkersFitTheEvents
  <2> DEFINE new == {i \in DOMAIN events' : /\ E!IsWarning(events'[i])
                                            /\ events'[i].key \notin E!Keys(events)}
  <2>2. new = fresh BY <1>3, <2>1
  <2>3. {events'[i].key : i \in new} = {next[i].key : i \in fresh} BY <1>3, <2>2
  <2>4. {next[i].key : i \in fresh} \cup newKeys \subseteq newKeys' BY <1>6
  <2>5. fresh # {} => notice' = Cardinality(fresh) BY <1>6
  <2> HIDE DEF fresh
  <2>6. new # {} => notice' = Cardinality(new) BY <2>2, <2>5
  <2>7. {events'[i].key : i \in new} \cup newKeys \subseteq newKeys' BY <2>3, <2>4
  <2>8. QED BY Zenon, <2>6, <2>7, SameCardinality DEF E!WarningsAreMarked
<1>11. QED BY <1>1, <1>9, <1>10 DEF EventsInv

\* A failed refresh keeps the list, and a failed first request had none.
LEMMA EventsFailInv ==
    ASSUME EventsInv, NEW r \in E!Requests, E!EventsFail(r)
    PROVE  EventsInv' /\ UNCHANGED events
<1>1. EventRequestsOK' /\ r = eventsRequest /\ eventsRequest' = 0
  BY RequestOverInv DEF E!EventsFail
<1>2. r # 0 BY EventConstants
<1>3. UNCHANGED events BY <1>1, <1>2 DEF E!EventsFail, EventsInv, EventMarksOK
<1>4. UNCHANGED <<live, resource, known, initialized, newKeys, notice, newOnly, notify>>
  BY DEF E!EventsFail, E!markers, E!settings
<1>5. E!MarkersFitTheEvents'
  BY <1>3, <1>4 DEF EventsInv, EventMarksOK, E!MarkersFitTheEvents, E!Keys
<1>6. EventMarksOK' BY <1>1, <1>3, <1>4, <1>5 DEF EventsInv, EventMarksOK
<1>7. QED BY <1>1, <1>3, <1>6 DEF EventsInv

\* The controls leave requests and lists alone, and take marks away all at once.
LEMMA EventControlsInv ==
    ASSUME EventsInv,
           UNCHANGED <<live, resource, events, loading, eventsRequest, eventRequests>>,
           \/ /\ UNCHANGED <<known, initialized, newKeys, notify>>
              /\ notice' \in {0, notice} /\ (newOnly' => newOnly \/ newKeys # {})
           \/ UNCHANGED <<known, initialized, notify>> /\ newKeys' = {} /\ notice' = 0 /\ newOnly' = FALSE
           \/ E!ResetMarkers /\ notify' = FALSE
           \/ ~notify /\ notify' = TRUE /\ UNCHANGED <<known, initialized, newKeys, notice, newOnly>>
    PROVE  EventsInv'
<1>1. EventRequestsOK' BY DEF EventsInv, EventRequestsOK
<1>2. E!MarkersFitTheEvents BY DEF EventsInv, EventMarksOK
<1>3. E!Keys(events)' = E!Keys(events) BY DEF E!Keys
<1>4. E!MarkersFitTheEvents' BY <1>2, <1>3 DEF E!MarkersFitTheEvents, E!ResetMarkers
<1>5. /\ initialized' = initialized \/ initialized' = FALSE
      /\ notify' = notify \/ notify' = TRUE \/ notify' = FALSE
  BY DEF E!ResetMarkers
<1>6. /\ events \in Seq(EventsOf(resource)) /\ (events # <<>> => live)
      /\ eventsRequest # 0 /\ ~eventRequests[eventsRequest].keep => events = <<>> /\ ~initialized
      /\ initialized \in BOOLEAN /\ notify \in BOOLEAN
  BY DEF EventsInv, EventMarksOK
<1>7. EventMarksOK'
  <2>1. initialized' \in BOOLEAN /\ notify' \in BOOLEAN BY <1>5, <1>6
  <2>2. ~initialized => ~initialized' BY <1>5
  <2>3. QED BY <1>4, <1>6, <2>1, <2>2 DEF EventMarksOK
<1>8. QED BY <1>1, <1>7 DEF EventsInv

LEMMA NewEventsAreMarked == E!HasNew => newKeys # {}
<1> SUFFICES ASSUME E!HasNew, newKeys = {} PROVE FALSE
  OBVIOUS
<1>1. {i \in DOMAIN events : events[i].key \in newKeys} = {} OBVIOUS
<1>2. E!NewCount = 0 BY Zenon, <1>1, FS_EmptySet, SameCardinality DEF E!NewCount
<1>3. QED BY <1>2 DEF E!HasNew

LEMMA EventsNextInv ==
    ASSUME EventsInv, E!Next
    PROVE  EventsInv' /\ E!WarningsAreMarked
<1> USE DEF E!answer, E!markers, E!settings, E!view
<1>1. CASE E!Network
  <2>1. PICK r \in E!Requests :
          \/ \E items \in (IF eventRequests[r] = E!Unsent THEN {}
                             ELSE Answers[eventRequests[r].of]) : E!EventsArrive(r, items)
          \/ E!EventsFail(r)
    BY <1>1 DEF E!Network
  <2>2. CASE E!EventsFail(r) BY <2>2, EventsFailInv DEF E!WarningsAreMarked
  <2>3. CASE ~E!EventsFail(r) BY <2>1, <2>3, EventsArriveInv
  <2>4. QED BY <2>2, <2>3
<1>2. ASSUME NEW res \in EventResources, NEW keep \in BOOLEAN, live' \in BOOLEAN, UNCHANGED notify,
             resource' = res, E!LoadEvents(res, live', keep),
             keep => UNCHANGED <<live, resource>>
      PROVE  EventsInv' /\ E!WarningsAreMarked
  <2>1. EventsInv' BY <1>2, LoadEventsInv
  <2>2. initialized' => UNCHANGED events BY <1>2 DEF E!LoadEvents, E!ResetMarkers
  <2>3. QED BY <2>1, <2>2 DEF E!WarningsAreMarked
<1>3. live \in BOOLEAN /\ resource \in EventResources BY DEF EventsInv, EventRequestsOK
<1>4. CASE \E res \in EventResources : E!Open(res) BY <1>2, <1>3, <1>4 DEF E!Open
<1>5. CASE E!ReplaceItem BY <1>2, <1>3, <1>5 DEF E!ReplaceItem
<1>6. CASE E!SetLive BY <1>2, <1>3, <1>6 DEF E!SetLive
<1>7. CASE E!Refresh BY <1>2, <1>3, <1>7 DEF E!Refresh
<1>8. CASE E!AutoRefresh BY <1>2, <1>3, <1>8 DEF E!AutoRefresh
<1>9. CASE E!Section /\ ~E!Refresh
  <2>1. UNCHANGED events
    BY <1>9 DEF E!Section, E!ToggleAutoRefresh, E!ToggleNotifications, E!ClearNewEvents,
         E!DismissNotification, E!SetNewOnly, E!SetControl, E!ResetControls, E!TogglePinned
  <2>2. E!WarningsAreMarked BY <2>1 DEF E!WarningsAreMarked
  <2>3. EventsInv'
    <3>1. CASE E!ToggleAutoRefresh BY <3>1, EventControlsInv DEF E!ToggleAutoRefresh
    <3>2. CASE E!ToggleNotifications
      <4>1. notify \in BOOLEAN BY DEF EventsInv, EventMarksOK
      <4>2. QED BY <3>2, <4>1, EventControlsInv DEF E!ToggleNotifications
    <3>3. CASE E!ClearNewEvents BY <3>3, EventControlsInv DEF E!ClearNewEvents
    <3>4. CASE E!DismissNotification BY <3>4, EventControlsInv DEF E!DismissNotification
    <3>5. CASE E!SetNewOnly BY <3>5, EventControlsInv, NewEventsAreMarked DEF E!SetNewOnly
    <3>6. CASE \E c \in Controls : E!SetControl(c)
      <4>1. UNCHANGED <<live, resource, E!answer, E!markers, E!settings>>
        BY <3>6 DEF E!SetControl
      <4>2. QED BY <4>1, EventControlsInv
    <3>7. CASE E!ResetControls BY <3>7, EventControlsInv DEF E!ResetControls
    <3>8. CASE \E i \in DOMAIN events : E!TogglePinned(i)
      <4>1. UNCHANGED <<live, resource, E!answer, E!markers, E!settings>>
        BY <3>8 DEF E!TogglePinned
      <4>2. QED BY <4>1, EventControlsInv
    <3>9. QED BY <1>9, <3>1, <3>2, <3>3, <3>4, <3>5, <3>6, <3>7, <3>8 DEF E!Section
  <2>4. QED BY <2>2, <2>3
<1>10. QED BY <1>1, <1>4, <1>5, <1>6, <1>7, <1>8, <1>9 DEF E!Next

----------------------------------------------------------------------------
(* The list *)

RowOf(f) == [id : STRING, of : {f}]
CursorOf(f) == [offset : Nat, filters : {f}] \cup {L!NoCursor}

\* A request, whose answer is of the filters that it was made with.
TicketOf(f) ==
    [kind : {"primary", "page"}, generation : Nat, filters : {f},
     cursor : UNION {CursorOf(g) : g \in Filters},
     phase : {"timer", "sent", "ok", "failed", "applied", "over"},
     answer : [rows : Seq(RowOf(f)), next : CursorOf(f)]]

Ticket == UNION {TicketOf(f) : f \in Filters}

ListTypeOK ==
    /\ epoch \in DOMAIN Lists /\ filters \in Filters
    /\ live \in BOOLEAN /\ effectDue \in BOOLEAN
    /\ generation \in Nat
    /\ tickets \in Seq(Ticket)
    /\ aborted \subseteq L!Tickets
    /\ cursor \in UNION {CursorOf(f) : f \in Filters}

\* A controller is that of a running request, of this generation and of these filters.
IsRunning(t, kind) ==
    /\ t \in L!Tickets \ aborted
    /\ tickets[t].kind = kind /\ tickets[t].phase # "over"
    /\ tickets[t].generation = generation
    /\ ~effectDue => tickets[t].filters = filters

ControllersOK ==
    /\ primaryController # L!None => IsRunning(primaryController, "primary")
    /\ pageController # L!None => IsRunning(pageController, "page")
    /\ loading => primaryController # L!None
    /\ loadingMore => pageController # L!None

RowsOK ==
    liveResourceApiReady /\ ~effectDue =>
        resources \in Seq(RowOf(filters)) /\ cursor \in CursorOf(filters)

ListInv == ListTypeOK /\ ControllersOK /\ RowsOK

LEMMA NoCursorIsACursor ==
    \A f \in Filters : L!NoCursor \in CursorOf(f) /\ L!NoCursor \in UNION {CursorOf(g) : g \in Filters}
BY DEF CursorOf

LEMMA TicketFields ==
    ASSUME NEW ticket \in Ticket
    PROVE  /\ ticket.filters \in Filters /\ ticket \in TicketOf(ticket.filters)
           /\ ticket.generation \in Nat /\ ticket.kind \in {"primary", "page"}
           /\ ticket.cursor \in UNION {CursorOf(g) : g \in Filters}
           /\ ticket.answer.rows \in Seq(RowOf(ticket.filters))
           /\ ticket.answer.next \in CursorOf(ticket.filters)
<1>1. PICK f \in Filters : ticket \in TicketOf(f) BY DEF Ticket
<1>2. ticket.filters = f BY <1>1 DEF TicketOf
<1>3. QED BY <1>1, <1>2 DEF TicketOf

\* What a step of one request does to the requests.
Advanced(t, phase) ==
    /\ tickets' \in Seq(Ticket) /\ L!Tickets' = L!Tickets
    /\ \A u \in L!Tickets :
         /\ tickets'[u].kind = tickets[u].kind
         /\ tickets'[u].generation = tickets[u].generation
         /\ tickets'[u].filters = tickets[u].filters
         /\ u # t => tickets'[u] = tickets[u]
    /\ tickets'[t].phase = phase

LEMMA TicketAdvances ==
    ASSUME tickets \in Seq(Ticket), NEW t \in L!Tickets,
           NEW phase \in {"timer", "sent", "ok", "failed", "applied", "over"},
           NEW answer \in [rows : Seq(RowOf(tickets[t].filters)), next : CursorOf(tickets[t].filters)],
           tickets' = [tickets EXCEPT ![t] = [tickets[t] EXCEPT !.phase = phase, !.answer = answer]]
    PROVE  Advanced(t, phase)
<1>1. tickets \in [1..Len(tickets) -> Ticket] /\ L!Tickets = 1..Len(tickets)
  BY LenProperties DEF L!Tickets
<1> DEFINE new == [tickets[t] EXCEPT !.phase = phase, !.answer = answer]
<1>2. tickets[t] \in TicketOf(tickets[t].filters) /\ tickets[t].filters \in Filters
  BY <1>1, TicketFields
<1>3. new \in TicketOf(tickets[t].filters) BY <1>2 DEF TicketOf
<1>4. new \in Ticket BY <1>2, <1>3 DEF Ticket
<1>5. /\ new.kind = tickets[t].kind /\ new.generation = tickets[t].generation
      /\ new.filters = tickets[t].filters /\ new.phase = phase
  BY <1>2 DEF TicketOf
<1> HIDE DEF new
<1>6. tickets' = [tickets EXCEPT ![t] = new] BY DEF new
<1>7. tickets' \in [1..Len(tickets) -> Ticket] BY <1>1, <1>4, <1>6
<1>8. tickets' \in Seq(Ticket) /\ L!Tickets' = L!Tickets
  BY <1>1, <1>7, SeqDef, LenProperties DEF L!Tickets
<1>9. \A u \in L!Tickets : tickets'[u] = IF u = t THEN new ELSE tickets[u] BY <1>1, <1>6
<1>10. QED BY <1>5, <1>8, <1>9 DEF Advanced

LEMMA AdvanceAdvances ==
    ASSUME tickets \in Seq(Ticket), NEW t \in L!Tickets,
           NEW phase \in {"timer", "sent", "ok", "failed", "applied", "over"},
           L!Advance(t, phase)
    PROVE  Advanced(t, phase)
<1> DEFINE answer == tickets[t].answer
<1>1. tickets[t] \in Ticket BY ElementOfSeq, LenProperties DEF L!Tickets
<1>2. answer \in [rows : Seq(RowOf(tickets[t].filters)), next : CursorOf(tickets[t].filters)]
  BY <1>1, TicketFields DEF TicketOf
<1>3. [tickets[t] EXCEPT !.phase = phase] =
        [tickets[t] EXCEPT !.phase = phase, !.answer = answer]
  BY <1>1, TicketFields DEF TicketOf
<1>4. tickets' = [tickets EXCEPT ![t] = [tickets[t] EXCEPT !.phase = phase]]
  BY DEF L!Advance
<1> HIDE DEF answer
<1>5. tickets' = [tickets EXCEPT ![t] = [tickets[t] EXCEPT !.phase = phase, !.answer = answer]]
  BY <1>3, <1>4
<1>6. QED BY <1>2, <1>5, TicketAdvances

\* A controller stays that of a running request when the requests go on.
LEMMA StillRunning ==
    ASSUME NEW t, NEW kind, IsRunning(t, kind),
           L!Tickets \subseteq L!Tickets',
           tickets'[t].kind = tickets[t].kind, tickets'[t].phase # "over",
           tickets'[t].generation = tickets[t].generation,
           tickets'[t].filters = tickets[t].filters,
           t \notin aborted', UNCHANGED generation,
           effectDue' \/ UNCHANGED <<effectDue, filters>>
    PROVE  IsRunning(t, kind)'
BY DEF IsRunning

\* A step of a request that goes on.
LEMMA RequestGoesOn ==
    ASSUME ListInv, NEW t \in L!Tickets, NEW phase, phase # "over", Advanced(t, phase),
           UNCHANGED <<epoch, live, filters, effectDue, cleanup, L!coordinator, loading, loadingMore>>,
           cursor' \in UNION {CursorOf(f) : f \in Filters}
    PROVE  ListTypeOK' /\ ControllersOK'
<1> USE DEF L!coordinator
<1>1. ListTypeOK' BY DEF ListInv, ListTypeOK, Advanced
<1>2. ASSUME NEW u, NEW kind, IsRunning(u, kind) PROVE IsRunning(u, kind)'
  <2>1. u \in L!Tickets BY <1>2 DEF IsRunning
  <2>2. tickets'[u].phase # "over" BY <1>2, <2>1 DEF IsRunning, Advanced
  <2>3. QED BY <1>2, <2>1, <2>2, StillRunning DEF Advanced, IsRunning
<1>3. ControllersOK' BY <1>2 DEF ListInv, ControllersOK
<1>4. QED BY <1>1, <1>3

LEMMA IsCurrentRequest ==
    ASSUME ListInv, NEW t \in L!Tickets, L!IsCurrent(t)
    PROVE  /\ t # L!None /\ (~effectDue => tickets[t].filters = filters)
           /\ tickets[t].kind = "primary" => t = primaryController
           /\ tickets[t].kind = "page" => t = pageController
<1>1. tickets \in Seq(Ticket) BY DEF ListInv, ListTypeOK
<1>2. t \in 1..Len(tickets) BY <1>1, LenProperties DEF L!Tickets
<1>3. t # L!None BY <1>1, <1>2, LenProperties DEF L!None
<1>4. tickets[t].kind \in {"primary", "page"} BY <1>1, <1>2, ElementOfSeq, TicketFields
<1>5. t = IF tickets[t].kind = "primary" THEN primaryController ELSE pageController
  BY DEF L!IsCurrent
<1>6. IsRunning(t, tickets[t].kind) BY <1>3, <1>4, <1>5 DEF ListInv, ControllersOK
<1>7. QED BY <1>3, <1>5, <1>6 DEF IsRunning

LEMMA TimerOrErrorInv ==
    ASSUME ListInv, NEW t \in L!Tickets, L!TimerFires(t) \/ L!AnswerError(t)
    PROVE  ListInv'
<1> USE DEF L!coordinator, L!view
<1>1. \E phase \in {"sent", "failed"} : L!Advance(t, phase)
  BY DEF L!TimerFires, L!AnswerError
<1>2. UNCHANGED <<epoch, live, filters, renders, effectDue, cleanup, L!coordinator, L!view>>
  BY DEF L!TimerFires, L!AnswerError
<1>3. \E phase \in {"sent", "failed"} : Advanced(t, phase)
  BY <1>1, AdvanceAdvances DEF ListInv, ListTypeOK
<1>4. ListTypeOK' /\ ControllersOK' BY <1>2, <1>3, RequestGoesOn DEF ListInv, ListTypeOK
<1>5. RowsOK' BY <1>2 DEF ListInv, RowsOK
<1>6. QED BY <1>4, <1>5 DEF ListInv

\* A page of what the filters match, and where it ends.
LEMMA PagesAreOfTheFilters ==
    ASSUME epoch \in DOMAIN Lists, NEW f \in Filters, NEW offset \in Nat
    PROVE  L!Page(f, offset) \in [rows : Seq(RowOf(f)), next : CursorOf(f)]
<1> DEFINE list == Lists[epoch][f]
           start == IF offset > Len(list) THEN Len(list) ELSE offset
           end == IF start + Limit < Len(list) THEN start + Limit ELSE Len(list)
           rows == [i \in 1..(end - start) |-> [id |-> list[start + i], of |-> f]]
           next == IF end < Len(list) THEN [offset |-> end, filters |-> f] ELSE L!NoCursor
<1>1. Lists[epoch] \in [Filters -> Seq(STRING)]
  BY PanelAssumption, LenProperties, ElementOfSeq
<1>2. list \in Seq(STRING) BY <1>1
<1>3. Len(list) \in Nat /\ \A i \in 1..Len(list) : list[i] \in STRING
  BY <1>2, LenProperties, ElementOfSeq
<1>4. L!Page(f, offset) = [rows |-> rows, next |-> next] BY Zenon DEF L!Page
<1> HIDE DEF list
<1>5. Limit \in Nat BY PanelAssumption
<1>6. start \in 0..Len(list) BY <1>3
<1>7. end \in start..Len(list) BY <1>3, <1>5, <1>6
<1>8. next \in CursorOf(f) BY <1>3, <1>6, <1>7 DEF CursorOf
<1> HIDE DEF start, end
<1>9. end - start \in Nat BY <1>3, <1>6, <1>7
<1>10. \A i \in 1..(end - start) : start + i \in 1..Len(list) BY <1>3, <1>6, <1>7
<1>11. rows \in [1..(end - start) -> RowOf(f)] BY <1>3, <1>10 DEF RowOf
<1>12. rows \in Seq(RowOf(f)) BY <1>9, <1>11, SeqDef
<1>13. QED BY <1>4, <1>8, <1>12

LEMMA AnswerInv ==
    ASSUME ListInv, NEW t \in L!Tickets, L!Answer(t)
    PROVE  ListInv'
<1> USE DEF L!coordinator, L!view
<1>1. tickets \in Seq(Ticket) BY DEF ListInv, ListTypeOK
<1>2. tickets[t] \in Ticket BY <1>1, ElementOfSeq, LenProperties DEF L!Tickets
<1> DEFINE answer == L!Page(tickets[t].filters, tickets[t].cursor.offset)
<1>3. tickets[t].cursor.offset \in Nat BY <1>2, TicketFields DEF CursorOf, L!NoCursor
<1>4. answer \in [rows : Seq(RowOf(tickets[t].filters)), next : CursorOf(tickets[t].filters)]
  BY <1>2, <1>3, TicketFields, PagesAreOfTheFilters DEF ListInv, ListTypeOK
<1>5. tickets' = [tickets EXCEPT ![t].phase = "ok", ![t].answer = answer] BY DEF L!Answer
<1> HIDE DEF answer
<1>6. tickets' = [tickets EXCEPT ![t] = [tickets[t] EXCEPT !.phase = "ok", !.answer = answer]]
  <2>1. tickets \in [1..Len(tickets) -> Ticket] /\ t \in 1..Len(tickets)
    BY <1>1, LenProperties DEF L!Tickets
  <2>2. QED BY <1>5, <2>1
<1>7. Advanced(t, "ok") BY <1>1, <1>4, <1>6, TicketAdvances
<1>8. UNCHANGED <<epoch, live, filters, renders, effectDue, cleanup, L!coordinator, L!view>>
  BY DEF L!Answer
<1>9. ListTypeOK' /\ ControllersOK' BY <1>7, <1>8, RequestGoesOn DEF ListInv, ListTypeOK
<1>10. RowsOK' BY <1>8 DEF ListInv, RowsOK
<1>11. QED BY <1>9, <1>10 DEF ListInv

\* Some places of a page, in order.
LEMMA RowsAtPlaces ==
    ASSUME NEW S, NEW page \in Seq(S), NEW places \in SUBSET DOMAIN page
    PROVE  \E n \in Nat, f \in [1..Cardinality(places) -> places] :
             /\ n = Cardinality(places)
             /\ \A i, j \in 1..n : i < j => f[i] < f[j]
             /\ L!RowsAt(page, places) = [k \in 1..n |-> page[f[k]]]
<1> DEFINE n == L!Cardinality(places)
           placing == CHOOSE f \in [1..n -> places] : \A i, j \in 1..n : i < j => f[i] < f[j]
<1>1. DOMAIN page = 1..Len(page) /\ Len(page) \in Nat BY LenProperties
<1>2. IsFiniteSet(places)
  <2>1. IsFiniteSet(1..Len(page)) BY <1>1, FS_Interval
  <2>2. QED BY <1>1, <2>1, FS_Subset
<1>3. n = Cardinality(places) BY Zenon DEF L!Cardinality, Cardinality
<1>4. L!RowsAt(page, places) = [k \in 1..n |-> page[placing[k]]] BY Zenon DEF L!RowsAt
<1> HIDE DEF n
<1>5. n \in Nat /\ ExistsBijection(1..n, places) BY <1>2, <1>3, FS_CardinalityType
<1>6. PICK b : b \in Bijection(1..n, places) BY <1>5 DEF ExistsBijection
<1>7. b \in [1..n -> places] /\ \A i, j \in 1..n : b[i] = b[j] => i = j
  BY <1>6, Fun_BijectionProperties
<1>8. \A i \in 1..n : b[i] \in Int BY <1>1, <1>7
<1> DEFINE R == {p \in (1..n) \X (1..n) : b[p[1]] < b[p[2]]}
<1>9. \A i, j \in 1..n : <<i, j>> \in R <=> b[i] < b[j] OBVIOUS
<1>10. \A i, j \in 1..n : i # j => b[i] < b[j] \/ b[j] < b[i] BY <1>7, <1>8
<1>11. \A i, j, k \in 1..n : b[i] < b[j] /\ b[j] < b[k] => b[i] < b[k] BY <1>8
<1>12. \A i \in 1..n : ~(b[i] < b[i]) BY <1>8
<1> HIDE DEF R
<1>13. \E f \in [1..n -> 1..n] : \A i, j \in 1..n : i < j => <<f[i], f[j]>> \in R
  BY <1>5, <1>9, <1>10, <1>11, <1>12, Arrangement
<1>14. PICK a \in [1..n -> 1..n] : \A i, j \in 1..n : i < j => b[a[i]] < b[a[j]]
  BY <1>9, <1>13
<1>15. \E f \in [1..n -> places] : \A i, j \in 1..n : i < j => f[i] < f[j]
  <2> DEFINE f == [k \in 1..n |-> b[a[k]]]
  <2>1. f \in [1..n -> places] BY <1>7
  <2>2. \A i, j \in 1..n : i < j => f[i] < f[j] BY <1>14
  <2>3. QED BY <2>1, <2>2
<1>16. placing \in [1..n -> places] /\ \A i, j \in 1..n : i < j => placing[i] < placing[j] BY <1>15
<1> HIDE DEF placing
<1>17. QED BY <1>3, <1>4, <1>5, <1>16

LEMMA MergedRowsAreRows ==
    ASSUME NEW S, NEW rows \in Seq(S), NEW page \in Seq(S)
    PROVE  L!MergePages(rows, page) \in Seq(S)
<1> DEFINE places == {i \in DOMAIN page : page[i].id \notin {rows[k].id : k \in DOMAIN rows}}
<1>1. places \in SUBSET DOMAIN page OBVIOUS
<1>2. L!MergePages(rows, page) = rows \o L!RowsAt(page, places) BY DEF L!MergePages
<1> HIDE DEF places
<1>3. PICK n \in Nat, f \in [1..Cardinality(places) -> places] :
        n = Cardinality(places) /\ L!RowsAt(page, places) = [k \in 1..n |-> page[f[k]]]
  BY <1>1, RowsAtPlaces
<1>4. \A i \in DOMAIN page : page[i] \in S BY LenProperties, ElementOfSeq
<1>5. L!RowsAt(page, places) \in [1..n -> S] BY <1>1, <1>3, <1>4
<1>6. L!RowsAt(page, places) \in Seq(S) BY <1>5, SeqDef
<1>7. QED BY <1>2, <1>6, ConcatProperties

\* The answer of the current request is of the filters now set.
LEMMA CurrentAnswer ==
    ASSUME ListInv, NEW t \in L!Tickets
    PROVE  /\ tickets[t].answer.next \in UNION {CursorOf(f) : f \in Filters}
           /\ L!IsCurrent(t) /\ ~effectDue =>
                /\ tickets[t].answer.rows \in Seq(RowOf(filters))
                /\ tickets[t].answer.next \in CursorOf(filters)
<1>1. tickets[t] \in Ticket
  BY ElementOfSeq, LenProperties DEF ListInv, ListTypeOK, L!Tickets
<1>2. L!IsCurrent(t) /\ ~effectDue => tickets[t].filters = filters BY IsCurrentRequest
<1>3. QED BY <1>1, <1>2, TicketFields

LEMMA CallbackAppliesInv ==
    ASSUME ListInv, NEW t \in L!Tickets,
           L!PrimaryAnswer(t) \/ L!PrimaryError(t) \/ L!PageAnswer(t) \/ L!PageError(t)
    PROVE  ListInv'
<1> USE DEF L!coordinator, L!view
<1>1. Advanced(t, "applied")
  BY AdvanceAdvances DEF ListInv, ListTypeOK, L!PrimaryAnswer, L!PrimaryError, L!PageAnswer, L!PageError
<1>2. UNCHANGED <<epoch, live, filters, effectDue, cleanup, L!coordinator, loading, loadingMore>>
  BY DEF L!PrimaryAnswer, L!PrimaryError, L!PageAnswer, L!PageError
<1>3. cursor' \in {cursor, L!NoCursor, tickets[t].answer.next}
  BY DEF L!PrimaryAnswer, L!PrimaryError, L!PageAnswer, L!PageError
<1>4. filters \in Filters /\ cursor \in UNION {CursorOf(f) : f \in Filters}
  BY DEF ListInv, ListTypeOK
<1>5. cursor' \in UNION {CursorOf(f) : f \in Filters}
  BY <1>3, <1>4, NoCursorIsACursor, CurrentAnswer
<1>6. ListTypeOK' /\ ControllersOK' BY <1>1, <1>2, <1>5, RequestGoesOn
<1>7. RowsOK'
  <2> SUFFICES ASSUME liveResourceApiReady', ~effectDue'
               PROVE  resources' \in Seq(RowOf(filters)) /\ cursor' \in CursorOf(filters)
    BY <1>2 DEF RowsOK
  <2>1. ~effectDue BY <1>2
  <2>2. CASE UNCHANGED <<resources, cursor, liveResourceApiReady>>
    BY <2>1, <2>2 DEF ListInv, RowsOK
  <2>3. CASE L!PrimaryAnswer(t) /\ L!IsCurrent(t)
    BY <2>1, <2>3, CurrentAnswer DEF L!PrimaryAnswer
  <2>4. CASE L!PageAnswer(t) /\ L!IsCurrent(t)
    <3>1. resources \in Seq(RowOf(filters)) BY <2>1, <2>4 DEF ListInv, RowsOK, L!PageAnswer
    <3>2. QED BY <2>1, <2>4, <3>1, CurrentAnswer, MergedRowsAreRows DEF L!PageAnswer
  <2>5. CASE L!PrimaryError(t) /\ L!IsCurrent(t) BY <2>5 DEF L!PrimaryError
  <2>6. QED
    BY <2>2, <2>3, <2>4, <2>5 DEF L!PrimaryAnswer, L!PrimaryError, L!PageAnswer, L!PageError
<1>8. QED BY <1>6, <1>7 DEF ListInv

\* finish() of a request that is not current changes no flag, and no request that is
\* current ends without it.
LEMMA FinishInv ==
    ASSUME ListInv, NEW t \in L!Tickets, L!Finish(t)
    PROVE  ListInv'
<1> USE DEF L!coordinator
<1>1. tickets' = [tickets EXCEPT ![t].phase = "over"] BY DEF L!Finish
<1>2. Advanced(t, "over")
  BY <1>1, AdvanceAdvances DEF ListInv, ListTypeOK, L!Advance
<1>3. UNCHANGED <<epoch, live, filters, effectDue, cleanup, generation, aborted,
                  resources, cursor, liveResourceApiReady>>
  BY DEF L!Finish
<1>4. ListTypeOK' BY <1>2, <1>3 DEF ListInv, ListTypeOK, Advanced
<1>5. ASSUME NEW u, NEW kind, u # t, IsRunning(u, kind) PROVE IsRunning(u, kind)'
  BY <1>2, <1>3, <1>5 DEF IsRunning, Advanced
<1>6. CASE ~L!IsCurrent(t)
  <2>1. UNCHANGED <<primaryController, pageController, loading, loadingMore>>
    BY <1>6 DEF L!Finish
  <2>2. primaryController # L!None => primaryController # t
    BY <1>6 DEF ListInv, ControllersOK, IsRunning, L!IsCurrent
  <2>3. pageController # L!None => pageController # t
    BY <1>6 DEF ListInv, ControllersOK, IsRunning, L!IsCurrent
  <2>4. ControllersOK' BY <1>5, <2>1, <2>2, <2>3 DEF ListInv, ControllersOK
  <2>5. QED BY <1>3, <1>4, <2>4 DEF ListInv, RowsOK
<1>7. CASE L!IsCurrent(t) /\ tickets[t].kind = "primary"
  <2>1. /\ primaryController' = L!None /\ loading' = FALSE
        /\ UNCHANGED <<pageController, loadingMore>>
    BY <1>7 DEF L!Finish
  <2>2. pageController # L!None => pageController # t
    BY <1>7 DEF ListInv, ControllersOK, IsRunning
  <2>3. ControllersOK' BY <1>5, <2>1, <2>2 DEF ListInv, ControllersOK
  <2>4. QED BY <1>3, <1>4, <2>3 DEF ListInv, RowsOK
<1>8. CASE L!IsCurrent(t) /\ tickets[t].kind # "primary"
  <2>1. /\ pageController' = L!None /\ loadingMore' = FALSE
        /\ UNCHANGED <<primaryController, loading>>
    BY <1>8 DEF L!Finish
  <2>2. primaryController # L!None => primaryController # t
    BY <1>8 DEF ListInv, ControllersOK, IsRunning
  <2>3. ControllersOK' BY <1>5, <2>1, <2>2 DEF ListInv, ControllersOK
  <2>4. QED BY <1>3, <1>4, <2>3 DEF ListInv, RowsOK
<1>9. QED BY <1>6, <1>7, <1>8

LEMMA RenderInv ==
    ASSUME ListInv, L!ChangeFilters \/ L!ChangeSource \/ L!NewSnapshot
    PROVE  ListInv'
<1> USE DEF L!coordinator, L!view
<1>1. /\ effectDue' = TRUE /\ filters' \in Filters /\ live' \in BOOLEAN
      /\ UNCHANGED <<epoch, cleanup, L!coordinator, tickets, L!view>>
  BY DEF ListInv, ListTypeOK, L!ChangeFilters, L!ChangeSource, L!NewSnapshot, L!Render
<1>2. ListTypeOK' BY <1>1 DEF ListInv, ListTypeOK, L!Tickets
<1>3. ControllersOK' BY <1>1 DEF ListInv, ControllersOK, IsRunning, L!Tickets
<1>4. RowsOK' BY <1>1 DEF RowsOK
<1>5. QED BY <1>2, <1>3, <1>4 DEF ListInv

LEMMA ServerRefreshInv ==
    ASSUME ListInv, L!ServerRefresh
    PROVE  ListInv'
<1> USE DEF L!coordinator, L!view
<1>1. ListTypeOK' BY DEF ListInv, ListTypeOK, L!ServerRefresh, L!Tickets
<1>2. ControllersOK' BY DEF ListInv, ControllersOK, IsRunning, L!Tickets, L!ServerRefresh
<1>3. RowsOK' BY DEF ListInv, RowsOK, L!ServerRefresh
<1>4. QED BY <1>1, <1>2, <1>3 DEF ListInv

LEMMA CancelledTickets ==
    ASSUME tickets \in Seq(Ticket)
    PROVE  L!Cancelled \in [1..Len(tickets) -> Ticket] /\ L!Tickets = 1..Len(tickets)
<1>1. tickets \in [1..Len(tickets) -> Ticket] /\ L!Tickets = 1..Len(tickets)
  BY LenProperties DEF L!Tickets
<1>2. ASSUME NEW u \in 1..Len(tickets) PROVE [tickets[u] EXCEPT !.phase = "over"] \in Ticket
  <2>1. tickets[u] \in TicketOf(tickets[u].filters) /\ tickets[u].filters \in Filters
    BY <1>1, TicketFields
  <2>2. [tickets[u] EXCEPT !.phase = "over"] \in TicketOf(tickets[u].filters)
    BY <2>1 DEF TicketOf
  <2>3. QED BY <2>1, <2>2 DEF Ticket
<1>3. L!Cancelled = tickets
        \/ L!Cancelled = [tickets EXCEPT ![cleanup] = [tickets[cleanup] EXCEPT !.phase = "over"]]
  BY DEF L!Cancelled
<1>4. QED BY <1>1, <1>2, <1>3

LEMMA ShowLocalInv ==
    ASSUME ListInv, L!ShowLocal
    PROVE  ListInv'
<1>1. tickets \in Seq(Ticket) /\ generation \in Nat BY DEF ListInv, ListTypeOK
<1>2. tickets' \in Seq(Ticket) /\ L!Tickets' = L!Tickets
  BY <1>1, CancelledTickets, SeqDef, LenProperties DEF L!ShowLocal, L!Tickets
<1>3. generation' \in Nat BY <1>1 DEF L!ShowLocal, L!CancelledGeneration
<1>4. aborted' \subseteq L!Tickets' BY <1>2 DEF ListInv, ListTypeOK, L!ShowLocal, L!Controllers
<1>5. cursor' \in UNION {CursorOf(f) : f \in Filters}
  BY NoCursorIsACursor DEF ListInv, ListTypeOK, L!ShowLocal
<1>6. ListTypeOK' BY <1>2, <1>3, <1>4, <1>5 DEF ListInv, ListTypeOK, L!ShowLocal
<1>7. ControllersOK' BY DEF L!ShowLocal, ControllersOK
<1>8. RowsOK' BY DEF L!ShowLocal, RowsOK
<1>9. QED BY <1>6, <1>7, <1>8 DEF ListInv

LEMMA NewTicketIsATicket ==
    ASSUME filters \in Filters, tickets \in Seq(Ticket),
           NEW kind \in {"primary", "page"}, NEW gen \in Nat,
           NEW from \in UNION {CursorOf(f) : f \in Filters}, NEW phase \in {"timer", "sent"}
    PROVE  /\ L!NewTicket(kind, gen, from, phase) \in Seq(Ticket)
           /\ DOMAIN L!NewTicket(kind, gen, from, phase) = 1..(Len(tickets) + 1)
           /\ \A u \in 1..Len(tickets) : L!NewTicket(kind, gen, from, phase)[u] = tickets[u]
           /\ LET new == L!NewTicket(kind, gen, from, phase)[Len(tickets) + 1]
              IN  /\ new.kind = kind /\ new.generation = gen
                  /\ new.filters = filters /\ new.phase = phase
<1> DEFINE new == [kind |-> kind, generation |-> gen, filters |-> filters, cursor |-> from,
                   phase |-> phase, answer |-> [rows |-> <<>>, next |-> L!NoCursor]]
<1>1. <<>> \in Seq(RowOf(filters)) /\ L!NoCursor \in CursorOf(filters)
  BY EmptyIsASeq, NoCursorIsACursor
<1>2. new \in Ticket
  <2>1. new \in TicketOf(filters) BY <1>1 DEF TicketOf
  <2>2. QED BY <2>1 DEF Ticket
<1>3. /\ new.kind = kind /\ new.generation = gen /\ new.filters = filters
      /\ new.phase = phase
  OBVIOUS
<1>4. L!NewTicket(kind, gen, from, phase) = Append(tickets, new) BY DEF L!NewTicket
<1> HIDE DEF new
<1>5. QED BY <1>2, <1>3, <1>4, AppendProperties, LenProperties

LEMMA BeginPrimaryInv ==
    ASSUME ListInv, L!BeginPrimary
    PROVE  ListInv'
<1> DEFINE gen == L!CancelledGeneration + 1
           ticket == L!NewTicket("primary", gen, L!NoCursor, "timer")
           n == Len(tickets)
<1>1. tickets \in Seq(Ticket) /\ generation \in Nat /\ filters \in Filters
  BY DEF ListInv, ListTypeOK
<1>2. n \in Nat /\ L!Tickets = 1..n /\ L!Cancelled \in [1..n -> Ticket]
  BY <1>1, CancelledTickets, LenProperties
<1>3. gen \in Nat BY <1>1 DEF L!CancelledGeneration
<1>4. L!NoCursor \in UNION {CursorOf(f) : f \in Filters} BY <1>1, NoCursorIsACursor
<1>5. tickets' = [t \in DOMAIN ticket |-> IF t \in L!Tickets THEN L!Cancelled[t] ELSE ticket[t]]
  BY DEF L!BeginPrimary
<1>6. generation' = gen BY DEF L!BeginPrimary
<1> HIDE DEF gen
<1>7. /\ ticket \in Seq(Ticket) /\ DOMAIN ticket = 1..(n + 1)
      /\ ticket[n + 1].kind = "primary" /\ ticket[n + 1].generation = gen
      /\ ticket[n + 1].filters = filters /\ ticket[n + 1].phase = "timer"
  BY <1>1, <1>3, <1>4, NewTicketIsATicket
<1> HIDE DEF ticket, n
<1>8. ticket[n + 1] \in Ticket BY <1>2, <1>7, ElementOfSeq, LenProperties
<1>9. tickets' \in [1..(n + 1) -> Ticket] /\ tickets'[n + 1] = ticket[n + 1]
  BY <1>2, <1>5, <1>7, <1>8
<1>10. tickets' \in Seq(Ticket) /\ L!Tickets' = 1..(n + 1)
  BY <1>2, <1>9, SeqDef, LenProperties DEF L!Tickets
<1>11. aborted' \subseteq L!Tickets
  BY DEF ListInv, ListTypeOK, L!BeginPrimary, L!Controllers
<1>12. ListTypeOK'
  <2>1. effectDue' = FALSE /\ UNCHANGED <<epoch, live, filters, cursor>>
    BY DEF L!BeginPrimary
  <2>2. generation' \in Nat BY <1>3, <1>6
  <2>3. aborted' \subseteq L!Tickets' BY <1>2, <1>10, <1>11
  <2>4. QED BY <1>10, <2>1, <2>2, <2>3 DEF ListInv, ListTypeOK
<1>13. /\ primaryController' = n + 1 /\ pageController' = L!None
       /\ loadingMore' = FALSE /\ UNCHANGED filters /\ liveResourceApiReady' = FALSE
  BY DEF L!BeginPrimary, n
<1>14. IsRunning(primaryController, "primary")'
  BY <1>2, <1>6, <1>7, <1>9, <1>10, <1>11, <1>13 DEF IsRunning
<1>15. ControllersOK'
  <2>1. n + 1 # L!None BY <1>2 DEF L!None
  <2>2. QED BY <1>13, <1>14, <2>1 DEF ControllersOK
<1>16. QED BY <1>12, <1>13, <1>15 DEF ListInv, RowsOK

LEMMA LoadMoreInv ==
    ASSUME ListInv, L!LoadMore
    PROVE  ListInv'
<1> DEFINE n == Len(tickets)
<1>1. tickets \in Seq(Ticket) /\ generation \in Nat /\ filters \in Filters
      /\ cursor \in UNION {CursorOf(f) : f \in Filters}
  BY DEF ListInv, ListTypeOK
<1>2. n \in Nat /\ L!Tickets = 1..n BY <1>1, LenProperties DEF L!Tickets
<1>3. tickets' = L!NewTicket("page", generation, cursor, "sent") BY DEF L!LoadMore
<1>4. /\ tickets' \in Seq(Ticket) /\ L!Tickets' = 1..(n + 1)
      /\ \A u \in 1..n : tickets'[u] = tickets[u]
      /\ tickets'[n + 1].kind = "page" /\ tickets'[n + 1].generation = generation
      /\ tickets'[n + 1].filters = filters /\ tickets'[n + 1].phase = "sent"
  BY <1>1, <1>3, NewTicketIsATicket DEF L!Tickets
<1>5. /\ pageController' = n + 1 /\ aborted' = aborted \cup (L!Tickets \cap {pageController})
      /\ UNCHANGED <<epoch, live, filters, effectDue, cleanup, generation, primaryController,
                     resources, cursor, liveResourceApiReady, loading>>
  BY DEF L!LoadMore
<1> HIDE DEF n
<1>6. aborted' \subseteq L!Tickets BY <1>5 DEF ListInv, ListTypeOK
<1>7. ListTypeOK' BY <1>2, <1>4, <1>5, <1>6 DEF ListInv, ListTypeOK
<1>8. IsRunning(pageController, "page")'
  BY <1>2, <1>4, <1>5, <1>6 DEF IsRunning
<1>9. primaryController # L!None => IsRunning(primaryController, "primary")'
  <2> SUFFICES ASSUME primaryController # L!None
               PROVE  IsRunning(primaryController, "primary")'
    OBVIOUS
  <2>1. IsRunning(primaryController, "primary") BY DEF ListInv, ControllersOK
  <2>2. primaryController \in L!Tickets BY <2>1 DEF IsRunning
  <2>3. primaryController # pageController \/ pageController = L!None
    BY <2>1 DEF ListInv, ControllersOK, IsRunning
  <2>4. primaryController \notin aborted' BY <1>5, <2>1, <2>3 DEF IsRunning
  <2>5. QED BY <1>2, <1>4, <1>5, <2>1, <2>2, <2>4 DEF IsRunning
<1>10. ControllersOK'
  <2>1. n + 1 # L!None BY <1>2 DEF L!None
  <2>2. QED BY <1>5, <1>8, <1>9, <2>1 DEF ListInv, ControllersOK
<1>11. RowsOK' BY <1>5 DEF ListInv, RowsOK
<1>12. QED BY <1>7, <1>10, <1>11 DEF ListInv

LEMMA ListInitInv == L!Init => ListInv
<1> SUFFICES ASSUME L!Init PROVE ListInv
  OBVIOUS
<1>1. 1 \in DOMAIN Lists BY PanelAssumption, EmptySeq, LenProperties
<1>2. ListTypeOK
  BY <1>1, EmptyIsASeq, NoCursorIsACursor DEF L!Init, ListTypeOK
<1>3. ControllersOK /\ RowsOK BY DEF L!Init, ControllersOK, RowsOK
<1>4. QED BY <1>2, <1>3 DEF ListInv

LEMMA ListNextInv ==
    ASSUME ListInv, L!Next
    PROVE  ListInv'
<1>1. CASE L!ServerRefresh \/ L!Effect \/ L!User
  BY <1>1, ServerRefreshInv, ShowLocalInv, BeginPrimaryInv, RenderInv, LoadMoreInv
  DEF L!Effect, L!User
<1>2. CASE \E t \in L!Tickets : L!Network(t) \/ L!Callback(t)
  BY <1>2, TimerOrErrorInv, AnswerInv, CallbackAppliesInv, FinishInv DEF L!Network, L!Callback
<1>3. QED BY <1>1, <1>2 DEF L!Next

----------------------------------------------------------------------------
(* The panels together *)

\* What is shown with its requests, part by part.
PanelInv ==
    /\ part = "logs" => IInv /\ SpinnerHasARequest
    /\ part = "events" => EventsInv
    /\ part = "list" => ListInv

LEMMA LogSpinner ==
    ASSUME IInv, SpinnerHasARequest, [Next]_vars
    PROVE  SpinnerHasARequest'
<1>1. CASE UNCHANGED <<loading, fetches>> BY <1>1 DEF SpinnerHasARequest
<1>2. CASE loading' = FALSE BY <1>2 DEF SpinnerHasARequest
<1>3. CASE \E f \in Fetches : FetchLogs(f)
  <2>1. PICK f \in Fetches : FetchLogs(f) BY <1>3
  <2>2. fetches'[f] = [state |-> "sent", of |-> Selection]
    BY <2>1 DEF FetchLogs, IInv, FetchesOK
  <2>3. fetches'[f].state = "sent" BY <2>2
  <2>4. QED BY <2>3 DEF SpinnerHasARequest
<1>4. Browser => \/ UNCHANGED <<loading, fetches>>
                 \/ loading' = FALSE
                 \/ \E f \in Fetches : FetchLogs(f)
  BY DEF Browser, SelectResource, Remount, ResetState, SetLive, ChangeContainer, ChangePrevious,
     StartStream, StopStream, Pause, Resume, requests
<1>5. Network => UNCHANGED <<loading, fetches>> \/ loading' = FALSE
  BY DEF Network, FetchAnswer, FetchFails, FetchOver, LineArrives, StreamOver
<1>6. UNCHANGED vars => UNCHANGED <<loading, fetches>> BY DEF vars, requests
<1>7. QED BY <1>1, <1>2, <1>3, <1>4, <1>5, <1>6 DEF Next

LEMMA LogsNextInv ==
    ASSUME IInv, [Next]_vars
    PROVE  IInv'
<1>1. CASE Browser
  BY <1>1, SelectResourceIInv, RemountIInv, SetLiveIInv, ChangeContainerIInv,
     ChangePreviousIInv, FetchLogsIInv, StartStreamIInv, StopStreamIInv, PauseIInv,
     ResumeIInv DEF Browser
<1>2. CASE Network
  BY <1>2, FetchAnswerIInv, FetchFailsIInv, LineArrivesIInv, StreamOverIInv DEF Network
<1>3. CASE UNCHANGED vars BY <1>3, StutterIInv
<1>4. QED BY <1>1, <1>2, <1>3 DEF Next

LEMMA PanelsStutter ==
    ASSUME PanelInv, UNCHANGED panels
    PROVE  PanelInv'
<1> USE DEF panels, eventsOnly, listOnly, logOnly, shared
<1>1. UNCHANGED vars BY DEF vars, selection, lines, requests
<1>2. part = "logs" => (IInv /\ SpinnerHasARequest)'
  BY <1>1, StutterIInv, LogSpinner DEF PanelInv
<1>3. part = "events" => EventsInv'
  <2> SUFFICES ASSUME EventsInv PROVE EventsInv'
    BY DEF PanelInv
  <2>1. EventRequestsOK' BY DEF EventsInv, EventRequestsOK
  <2>2. E!MarkersFitTheEvents'
    BY DEF EventsInv, EventMarksOK, E!MarkersFitTheEvents, E!Keys
  <2>3. EventMarksOK' BY <2>2 DEF EventsInv, EventMarksOK
  <2>4. QED BY <2>1, <2>3 DEF EventsInv
<1>4. part = "list" => ListInv'
  <2> SUFFICES ASSUME ListInv PROVE ListInv'
    BY DEF PanelInv
  <2>1. ListTypeOK' BY DEF ListInv, ListTypeOK, L!Tickets
  <2>2. ControllersOK' BY DEF ListInv, ControllersOK, IsRunning, L!Tickets
  <2>3. RowsOK' BY DEF ListInv, RowsOK
  <2>4. QED BY <2>1, <2>2, <2>3 DEF ListInv
<1>5. UNCHANGED part OBVIOUS
<1>6. QED BY <1>2, <1>3, <1>4, <1>5 DEF PanelInv

\* The invariant of the panels: of each, the one that its steps preserve.
THEOREM PanelInductive == PanelSpec => []PanelInv
<1>1. PanelInit => PanelInv
  <2> SUFFICES ASSUME PanelInit PROVE PanelInv
    OBVIOUS
  <2>1. part = "logs" => Init BY DEF PanelInit
  <2>2. Init => SpinnerHasARequest BY DEF Init, SpinnerHasARequest
  <2>3. part = "events" => E!Init BY DEF PanelInit
  <2>4. part = "list" => L!Init BY DEF PanelInit
  <2>5. QED BY <2>1, <2>2, <2>3, <2>4, InitIInv, EventsInitInv, ListInitInv DEF PanelInv
<1>2. PanelInv /\ [PanelNext]_panels => PanelInv'
  <2> SUFFICES ASSUME PanelInv, PanelNext PROVE PanelInv'
    BY PanelsStutter
  <2>1. UNCHANGED part BY DEF PanelNext
  <2>2. part = "logs" => Next BY DEF PanelNext
  <2>3. part = "events" => E!Next BY DEF PanelNext
  <2>4. part = "list" => L!Next BY DEF PanelNext
  <2>5. part = "logs" => (IInv /\ SpinnerHasARequest)'
    BY <2>2, LogsNextInv, LogSpinner DEF PanelInv
  <2>6. part = "events" => EventsInv' BY <2>3, EventsNextInv DEF PanelInv
  <2>7. part = "list" => ListInv' BY <2>4, ListNextInv DEF PanelInv
  <2>8. QED BY <2>1, <2>5, <2>6, <2>7 DEF PanelInv
<1>3. QED BY <1>1, <1>2, PTL DEF PanelSpec

\* Followed lines are of the Pod selected, the events of the resource shown with marks that
\* fit, the rows of a live list and its cursor of the filters now set (useResourceLogs-,
\* -Events- and -ListController), whatever changed while they were asked for.
THEOREM PanelsShowWhatIsSelected == PanelSpec => []AnswersMatchTheSelection
<1>1. PanelInv => AnswersMatchTheSelection
  <2> SUFFICES ASSUME PanelInv PROVE AnswersMatchTheSelection
    OBVIOUS
  <2>1. ASSUME part = "events" PROVE E!EventsAreOfTheResource /\ E!MarkersFitTheEvents
    <3>1. EventMarksOK BY <2>1 DEF PanelInv, EventsInv
    <3>2. \A i \in DOMAIN events : events[i] \in EventsOf(resource)
      BY <3>1, LenProperties, ElementOfSeq DEF EventMarksOK
    <3>3. \A i \in DOMAIN events : events[i].of = resource BY <3>2 DEF EventsOf
    <3>4. QED BY <3>1, <3>3 DEF EventMarksOK, E!EventsAreOfTheResource
  <2>2. ASSUME part = "list" PROVE L!ShownMatchesFilters
    <3> SUFFICES ASSUME liveResourceApiReady, ~effectDue
                 PROVE  /\ \A i \in DOMAIN resources : resources[i].of = filters
                        /\ cursor \in {L!NoCursor, [cursor EXCEPT !.filters = filters]}
      BY DEF L!ShownMatchesFilters
    <3>1. resources \in Seq(RowOf(filters)) /\ cursor \in CursorOf(filters)
      BY <2>2 DEF PanelInv, ListInv, RowsOK
    <3>2. \A i \in DOMAIN resources : resources[i] \in RowOf(filters)
      BY <3>1, LenProperties, ElementOfSeq
    <3>3. cursor # L!NoCursor => cursor = [cursor EXCEPT !.filters = filters]
      BY <3>1 DEF CursorOf
    <3>4. QED BY <3>2, <3>3 DEF RowOf
  <2>3. part = "logs" => FollowedLinesMatchSelection BY FollowedLines DEF PanelInv
  <2>4. QED BY <2>1, <2>2, <2>3 DEF AnswersMatchTheSelection
<1>2. QED BY <1>1, PanelInductive, PTL

\* A panel that shows a spinner has a request under way that will put it down, however
\* selections, mounts, refusals, aborts and failures interleave (the three controllers).
THEOREM SpinnersComeDown == PanelSpec => []SpinnersHaveRequests
<1>1. PanelInv => SpinnersHaveRequests
  <2> SUFFICES ASSUME PanelInv PROVE SpinnersHaveRequests
    OBVIOUS
  <2>1. part = "logs" => SpinnerHasARequest BY DEF PanelInv
  <2>2. ASSUME part = "events" PROVE E!SpinnerHasARequest
    <3>1. EventRequestsOK BY <2>2 DEF PanelInv, EventsInv
    <3>2. loading <=> eventsRequest # 0 BY <3>1 DEF EventRequestsOK
    <3>3. eventsRequest # 0 => eventRequests[eventsRequest].of = resource
      BY <3>1 DEF EventRequestsOK
    <3>4. QED BY <3>1, <3>2, <3>3 DEF EventRequestsOK, E!SpinnerHasARequest
  <2>3. ASSUME part = "list" PROVE L!SpinnersHaveRequests
    <3>1. ControllersOK BY <2>3 DEF PanelInv, ListInv
    <3>2. primaryController # L!None =>
            L!IsCurrent(primaryController) /\ tickets[primaryController].phase # "over"
      BY <3>1 DEF ControllersOK, IsRunning, L!IsCurrent
    <3>3. pageController # L!None =>
            L!IsCurrent(pageController) /\ tickets[pageController].phase # "over"
      BY <3>1 DEF ControllersOK, IsRunning, L!IsCurrent
    <3>4. QED BY <3>1, <3>2, <3>3 DEF ControllersOK, L!SpinnersHaveRequests
  <2>4. QED BY <2>1, <2>2, <2>3 DEF SpinnersHaveRequests
<1>2. QED BY <1>1, PanelInductive, PTL

\* With notifications on, a refresh marks every warning that the known list did not
\* have and unmarks none (updateEventNotificationState).
THEOREM WarningsAreMarked == PanelSpec => NewWarningsAreMarked
<1>1. PanelInv /\ [PanelNext]_panels => [part = "events" => E!WarningsAreMarked]_panels
  <2> SUFFICES ASSUME PanelInv, PanelNext, part = "events" PROVE E!WarningsAreMarked
    OBVIOUS
  <2>1. E!Next BY DEF PanelNext
  <2>2. QED BY <2>1, EventsNextInv DEF PanelInv
<1>2. QED BY <1>1, PanelInductive, PTL DEF PanelSpec, NewWarningsAreMarked

\* A refresh of the same resource keeps what the reader opened, filtered and expanded,
\* another resource starts without it (the effects on resource.id).
THEOREM ReaderStateIsKept == PanelSpec => ReaderStateIsTheResources
<1>1. ASSUME D!Next PROVE D!ReaderStateStays
  <2> USE DEF D!shownResource, D!sections, D!attention, D!relations, D!safe
  <2>1. ASSUME D!StartOver PROVE D!Fresh' BY <2>1 DEF D!StartOver, D!Fresh, D!DefaultSections
  <2>2. ASSUME NEW r \in Resources, D!Appear(r) \/ D!SelectRow(r) \/ D!SelectRelation(r)
        PROVE  resource' # resource /\ D!Fresh'
    <3>1. D!StartOver /\ resource' = r
      BY <2>2 DEF D!Appear, D!SelectRow, D!SelectRelation, D!Show
    <3>2. r # resource
      BY <2>2, PanelAssumption DEF D!Appear, D!SelectRow, D!SelectRelation
    <3>3. QED BY <2>1, <3>1, <3>2
  <2>3. CASE \E r \in Resources : D!Appear(r) \/ D!SelectRow(r) \/ D!SelectRelation(r)
    BY <2>2, <2>3 DEF D!ReaderStateStays
  <2>4. CASE D!Deselect BY <2>1, <2>4 DEF D!Deselect, D!ReaderStateStays
  <2>5. CASE D!Refresh BY <2>5 DEF D!Refresh, D!Show, D!ReaderStateStays
  <2>6. ASSUME UNCHANGED D!shownResource PROVE D!ReaderStateStays
    BY <2>6 DEF D!ReaderStateStays
  <2>7. D!RequestFocus \/ D!Key \/ D!OpenOrClose \/ D!Navigate \/ D!Jump \/ D!InRelations \/ D!InSafe
          \/ D!Frame => UNCHANGED D!shownResource
    BY DEF D!RequestFocus, D!Key, D!OpenOrClose, D!Navigate, D!Jump, D!InRelations, D!InSafe,
         D!Frame, D!Go, D!OpenThese, D!Within
  <2>8. ASSUME NEW x, D!PointAt(x) \/ D!ToggleSection(x) PROVE UNCHANGED D!shownResource
    BY <2>8 DEF D!PointAt, D!ToggleSection, D!OpenThese, D!Within
  <2>9. QED BY <1>1, <2>3, <2>4, <2>5, <2>6, <2>7, <2>8 DEF D!Next, D!RowsChange, D!Panel
<1>2. [PanelNext]_panels => [part = "detail" => D!ReaderStateStays]_panels
  BY <1>1 DEF PanelNext
<1>3. QED BY <1>2, PTL DEF PanelSpec, ReaderStateIsTheResources
=============================================================================
