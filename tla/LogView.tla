------------------------------- MODULE LogView -------------------------------
(***************************************************************************)
(* What the detail panel does with the log lines it holds: the search with *)
(* its active match, time range, sort order, copy and download             *)
(* (useResourceLogsController, useResourceLogsSectionController,           *)
(* ResourceLogsSection and the log helpers of resourceDetailActivity.ts).  *)
(* How the lines come in is the subject of PodLogs; here they may be       *)
(* replaced, added to or cleared at any time.                              *)
(*                                                                         *)
(* A line is its time (0: no timestamp that can be parsed), whether the    *)
(* one search text that is tried is found in it, and how many matches are  *)
(* highlighted (a raw timestamp is found and not highlighted).  A time     *)
(* range is the oldest time it lets through (0: all).  A callback and the  *)
(* effects it sets off are one action; the clipboard answers when it likes.*)
(***************************************************************************)
EXTENDS Integers, Sequences, SequencesExt

CONSTANTS
    Lines,      \* the lines a log can have
    Ranges,     \* the time ranges tried, 0 among them
    MaxVisible  \* maxVisibleLogLines

VARIABLES
    lines,      \* logLines
    searching,  \* logFilter is the search text
    since,      \* logTimeRangeFilter
    order,      \* logSortOrder
    match,      \* activeLogMatchIndex
    status,     \* logCopyStatus: the number of lines in it, Refused or None
    copying     \* the number of lines the clipboard was given and has not answered for

vars == <<lines, searching, since, order, match, status, copying>>

None == -1
Refused == -2

Passes(line) == since = 0 \/ (line.time # 0 /\ line.time >= since)

FoundIn(line) == searching => line.found

\* By time, those without one last, equal ones as they came.
Before(i, j) ==
    LET s == lines[i].time
        t == lines[j].time
    IN  CASE order = "received" \/ s = t -> i < j
          [] s = 0 \/ t = 0 -> t = 0
          [] order = "newest" -> s > t
          [] OTHER -> s < t

\* filteredLogLines, as places in the lines.
Shown ==
    SetToSortSeq({i \in DOMAIN lines : Passes(lines[i]) /\ FoundIn(lines[i])}, Before)

\* logSearchMatches: the places once for each match.
MatchesOf(s) ==
    IF searching THEN FlattenSeq([k \in DOMAIN s |-> [h \in 1..lines[s[k]].hits |-> s[k]]])
    ELSE <<>>

Matches == MatchesOf(Shown)

ControlsActive == searching \/ since # 0 \/ order # "received"

CanCopyAll == ControlsActive /\ lines # <<>>

Init ==
    /\ lines = <<>> /\ searching = FALSE /\ since = 0 /\ order = "received"
    /\ match = 0 /\ status = None /\ copying = None

\* The effect that runs when the number of matches changes.
Unclamped(m) == m

Clamped(m) ==
    LET count == Len(Matches')
    IN  IF m < count THEN m ELSE IF count = 0 THEN 0 ELSE count - 1

----------------------------------------------------------------------------
(* The lines come and go *)

controls == <<searching, since, order>>

\* A line that is followed, or the ones kept back while paused: the oldest leave.
Arrive(line) ==
    /\ lines' = LET all == Append(lines, line)
                IN  IF Len(all) > MaxVisible THEN Tail(all) ELSE all
    /\ UNCHANGED <<controls, status, copying>>
    /\ match' = Clamped(match)

\* fetchLogs, toggleLogStream: at their start match and status go, later the lines.
Ask ==
    /\ match' = 0 /\ status' = None
    /\ UNCHANGED <<lines, controls, copying>>

Answer(s) ==
    /\ lines' = s
    /\ UNCHANGED <<controls, status, copying>>
    /\ match' = Clamped(match)

\* resetResourceLogState, clearLogOutput: the clipboard is not recalled.
ClearOutput ==
    /\ lines' = <<>> /\ searching' = FALSE /\ since' = 0 /\ order' = "received"
    /\ match' = 0 /\ status' = None
    /\ UNCHANGED copying

----------------------------------------------------------------------------
(* The section's controls, which are there while there are lines *)

ChangeFilter(b) ==
    /\ searching' = b /\ match' = 0 /\ status' = None
    /\ UNCHANGED <<lines, since, order, copying>>

ChangeTimeRange(t) ==
    /\ since' = t /\ match' = 0 /\ status' = None
    /\ UNCHANGED <<lines, searching, order, copying>>

ChangeSortOrder(o) ==
    /\ order' = o /\ match' = 0 /\ status' = None
    /\ UNCHANGED <<lines, searching, since, copying>>

ResetControls ==
    /\ ControlsActive
    /\ searching' = FALSE /\ since' = 0 /\ order' = "received"
    /\ match' = 0 /\ status' = None
    /\ UNCHANGED <<lines, copying>>

\* moveActiveLogMatch, an arrow or Enter: round and round.
MoveMatch(offset) ==
    LET count == Len(Matches)
    IN  /\ count > 0
        /\ match' = (match + offset + count) % count
        /\ status' = None
        /\ UNCHANGED <<lines, controls, copying>>

Taken(mode) == IF mode = "all" THEN Len(lines) ELSE Len(Shown)

\* One copy at a time is followed to its answer.
Copy(mode) ==
    /\ mode = "all" => CanCopyAll
    /\ Taken(mode) > 0 /\ copying = None
    /\ copying' = Taken(mode)
    /\ UNCHANGED <<lines, controls, match, status>>

Download(mode) ==
    /\ mode = "all" => CanCopyAll
    /\ Taken(mode) > 0
    /\ status' = Taken(mode)
    /\ UNCHANGED <<lines, controls, match, copying>>

Copied ==
    /\ copying # None
    /\ status' \in {copying, Refused}
    /\ copying' = None
    /\ UNCHANGED <<lines, controls, match>>

\* The timer of the notice.
NoticeGoes ==
    /\ status # None
    /\ status' = None
    /\ UNCHANGED <<lines, controls, match, copying>>

----------------------------------------------------------------------------
Incoming ==
    \/ \E line \in Lines : Arrive(line)
    \/ Ask
    \/ \E n \in 0..MaxVisible : \E s \in [1..n -> Lines] : Answer(s)
    \/ ClearOutput

Section ==
    /\ lines # <<>>
    /\ \/ \E b \in BOOLEAN : ChangeFilter(b)
       \/ \E t \in Ranges : ChangeTimeRange(t)
       \/ \E o \in {"received", "newest", "oldest"} : ChangeSortOrder(o)
       \/ ResetControls
       \/ \E offset \in {-1, 1} : MoveMatch(offset)
       \/ \E mode \in {"visible", "all"} : Copy(mode) \/ Download(mode)

Next == Incoming \/ Section \/ Copied \/ NoticeGoes

Spec == Init /\ [][Next]_vars

----------------------------------------------------------------------------
\* Whatever comes in and whatever is cut off while a search is under way, the active
\* match is one of the matches on the screen, so that the counter, the highlighted row
\* and the arrows agree; without matches they start from the first one again.
ActiveLogMatchExists == match = 0 \/ match < Len(Matches)

\* In each order the lines with a time come first and in that order, those without a
\* time after them, and equal ones as they came in.
LogLinesInOrder ==
    \A i, j \in DOMAIN Shown :
        LET a == lines[Shown[i]]
            b == lines[Shown[j]]
        IN  i < j =>
            /\ order # "received" /\ a.time = 0 => b.time = 0
            /\ order = "newest" /\ b.time # 0 => a.time >= b.time
            /\ order = "oldest" /\ b.time # 0 => a.time <= b.time
            /\ order = "received" \/ a.time = b.time => Shown[i] < Shown[j]

\* Where the screen does not show the log as it came in, the buttons that take all of
\* it are offered: no range, search or order leaves lines that cannot be saved.
WholeLogWithinReach ==
    Shown # [i \in DOMAIN lines |-> i] => CanCopyAll
=============================================================================
