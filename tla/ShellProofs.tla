------------------------------ MODULE ShellProofs ------------------------------
(***************************************************************************)
(* Theorems about MCShell: the source on the screen, the live session, the *)
(* address bar and the history of snapshots, for any events in any order;  *)
(* and the comparison, for any two snapshots.                              *)
(***************************************************************************)
EXTENDS MCShell, SequenceTheorems, FiniteSetTheorems, TLAPS

----------------------------------------------------------------------------
(* The inductive invariant *)

Entries == [view : Views, mode : Modes, rf : Filters]

\* The screen and every entry of the address bar show a view and a source there are.
ScreenOK ==
    /\ view \in Views /\ mode \in Modes /\ rf \in Filters /\ stored \in Modes
    /\ urls \in Seq(Entries) /\ at \in 1..Len(urls)
    /\ \A j \in jobs : j.kind \in {"unlock", "upload"} => j.view \in Views /\ j.rf \in Filters

RanOK == ran = [topology |-> ran.topology, status |-> ran.status, capability |-> ran.capability]

\* A session that is not unlocked has no token; a connector has state only since its effect
\* last ran in a live session.
SessionOK ==
    /\ unlocked \in BOOLEAN
    /\ ~unlocked => token = NoToken
    /\ status = "off" \/ ran.status = TRUE
    /\ capability = "off" \/ ran.capability = TRUE

\* What is asked and shown when the topology's effect last ran with these dependencies.
ShownFor(u, m, b) ==
    IF u /\ m = "live"
    THEN /\ \A r, s \in requests : r = s
         /\ requests # {} => loading
         /\ loading => error = NoError
         /\ ~loading => shown = IF error = NoError THEN "live" ELSE "locked"
    ELSE /\ requests = {} /\ ~loading
         /\ shown = CASE m = "mock" -> "mock" [] m = "upload" -> b [] OTHER -> "locked"

TopologyOK ==
    /\ loading \in BOOLEAN
    /\ \/ ran.topology = <<>> /\ requests = {} /\ ~loading
       \/ /\ ran.topology = <<ran.topology[1], ran.topology[2], ran.topology[3]>>
          /\ ran.topology[1] \in BOOLEAN /\ ran.topology[2] \in Modes
          /\ ShownFor(ran.topology[1], ran.topology[2], ran.topology[3])

HistoryOK == Len(history) \in Nat /\ history = [i \in 1..Len(history) |-> history[i]]

ShellInv == ScreenOK /\ RanOK /\ SessionOK /\ TopologyOK /\ HistoryOK
----------------------------------------------------------------------------
(* The address bar *)

LEMMA PathsAreEntries ==
    ASSUME NEW e \in Entries
    PROVE  Path(e) \in Entries /\ Path(Path(e)) = Path(e)
BY DashboardAssumption DEF Path, Entries

\* An address that is written is the one at which the tab stands.
LEMMA UrlIsWritten ==
    ASSUME ScreenOK, NEW e \in Entries, NEW how, WriteUrl(e, how)
    PROVE  urls' \in Seq(Entries) /\ at' \in 1..Len(urls') /\ Path(urls'[at']) = Path(e)
<1>1. urls \in Seq(Entries) /\ at \in 1..Len(urls) /\ Len(urls) \in Nat BY DEF ScreenOK
<1>2. CASE how = "replace" \/ Path(e) = Path(urls[at])
  <2>1. urls' = [urls EXCEPT ![at] = e] /\ at' = at BY <1>2 DEF WriteUrl
  <2>2. urls' \in Seq(Entries) /\ Len(urls') = Len(urls) /\ urls'[at] = e BY <1>1, <2>1, ExceptSeq
  <2>3. QED BY <1>1, <2>1, <2>2
<1>3. CASE ~(how = "replace" \/ Path(e) = Path(urls[at]))
  <2> DEFINE s == SubSeq(urls, 1, at)
  <2>1. urls' = Append(s, e) /\ at' = at + 1 BY <1>3 DEF WriteUrl
  <2>2. s \in Seq(Entries) /\ Len(s) = at BY <1>1
  <2> HIDE DEF s
  <2>3. urls' \in Seq(Entries) /\ Len(urls') = at + 1 /\ urls'[at + 1] = e
    BY <2>1, <2>2, AppendProperties
  <2>4. QED BY <1>1, <2>1, <2>3
<1>4. QED BY <1>2, <1>3

\* What leaves the screen and the address alone keeps them in step.
LEMMA ScreenKept ==
    ASSUME ScreenOK, UNCHANGED <<view, mode, rf, stored, urls, at>>,
           \A j \in jobs' : j.kind \in {"unlock", "upload"} => j.view \in Views /\ j.rf \in Filters
    PROVE  ScreenOK' /\ KeepsTheAddress
<1>1. ScreenOK' BY DEF ScreenOK
<1>2. UrlInSync' = UrlInSync BY DEF UrlInSync, Path, Screen
<1>3. QED BY <1>1, <1>2 DEF KeepsTheAddress

\* What writes the address of the new screen keeps them in step.
LEMMA ScreenWritten ==
    ASSUME ScreenOK, NEW e \in Entries, NEW how, WriteUrl(e, how),
           e = [view |-> view', mode |-> mode', rf |-> rf'], stored' \in Modes, UNCHANGED jobs
    PROVE  ScreenOK' /\ KeepsTheAddress
<1>1. urls' \in Seq(Entries) /\ at' \in 1..Len(urls') /\ Path(urls'[at']) = Path(e) BY UrlIsWritten
<1>2. view' \in Views /\ mode' \in Modes /\ rf' \in Filters BY DEF Entries
<1>3. ScreenOK' BY <1>1, <1>2 DEF ScreenOK
<1>4. UrlInSync' BY <1>1 DEF UrlInSync, Path, Screen
<1>5. QED BY <1>3, <1>4 DEF KeepsTheAddress

\* A handler that ends after an await writes what its closure saw.
LEMMA ScreenWrittenLate ==
    ASSUME ScreenOK, NEW j \in jobs, j.kind \in {"unlock", "upload"}, jobs' = jobs \ {j},
           NEW m \in Modes, SetMode(m), WriteUrl([view |-> j.view, mode |-> m, rf |-> j.rf], "push"),
           UNCHANGED <<view, rf>>
    PROVE  ScreenOK' /\ KeepsTheAddress
<1> DEFINE e == [view |-> j.view, mode |-> m, rf |-> j.rf]
<1>1. e \in Entries BY DEF ScreenOK, Entries
<1>2. urls' \in Seq(Entries) /\ at' \in 1..Len(urls') /\ Path(urls'[at']) = Path(e)
  BY <1>1, UrlIsWritten
<1>3. mode' = m /\ stored' = m BY DEF SetMode
<1>4. ScreenOK' BY <1>2, <1>3 DEF ScreenOK
<1>5. <<j.view, j.rf>> = <<view, rf>> => UrlInSync'
  BY <1>2, <1>3 DEF UrlInSync, Path, Screen
<1>6. j \in jobs \ jobs' /\ j.kind # "baseline" OBVIOUS
<1>7. QED BY <1>4, <1>5, <1>6 DEF KeepsTheAddress

LEMMA ScreenStep ==
    ASSUME ScreenOK, Next
    PROVE  ScreenOK' /\ KeepsTheAddress
<1>1. ASSUME \/ Effects
             \/ \E fails \in BOOLEAN : \/ \E r \in requests : TopologyAnswered(r, fails)
                                      \/ StatusAnswered(fails) \/ CapabilityAnswered(fails)
             \/ Refresh \/ RefreshTick \/ ToggleAutoRefresh \/ RefreshCapabilities
             \/ \E t \in Tokens : RotateToken(t)
             \/ \E f \in Filters : FiltersChange(f)
             \/ \E n \in NodesOf(shown) : SelectNode(n)
             \/ ResetFilters \/ CaptureSnapshot \/ ClearHistory
             \/ \E j \in jobs : BaselineImported(j)
             \/ \E id \in Ids \cup {NoEntry} : SelectBaseline(id) \/ SelectCurrent(id) \/ DeleteEntry(id)
      PROVE  UNCHANGED <<view, mode, rf, stored, urls, at>> /\ jobs' \subseteq jobs
  <2>1. CASE Effects
    BY <2>1 DEF Effects, TopologyEffect, StatusEffect, CapabilityEffect, AutoRefreshOff, LockOn401,
                SelectFirstNode, DropStaleSelection, url
  <2>2. CASE \E fails \in BOOLEAN : \/ \E r \in requests : TopologyAnswered(r, fails)
                                   \/ StatusAnswered(fails) \/ CapabilityAnswered(fails)
    BY <2>2 DEF TopologyAnswered, StatusAnswered, CapabilityAnswered, url
  <2>3. CASE \/ Refresh \/ RefreshTick \/ ToggleAutoRefresh \/ RefreshCapabilities
             \/ \E t \in Tokens : RotateToken(t)
    BY <2>3 DEF Refresh, RefreshTick, ToggleAutoRefresh, RefreshCapabilities, RotateToken, url
  <2>4. CASE \/ \E f \in Filters : FiltersChange(f)
             \/ \E n \in NodesOf(shown) : SelectNode(n)
             \/ ResetFilters
    BY <2>4 DEF FiltersChange, SelectNode, ResetFilters, url
  <2>5. CASE \/ CaptureSnapshot \/ ClearHistory
             \/ \E j \in jobs : BaselineImported(j)
             \/ \E id \in Ids \cup {NoEntry} : SelectBaseline(id) \/ SelectCurrent(id) \/ DeleteEntry(id)
    BY <2>5 DEF CaptureSnapshot, ClearHistory, BaselineImported, SelectBaseline, SelectCurrent,
                DeleteEntry, url
  <2>6. QED BY <1>1, <2>1, <2>2, <2>3, <2>4, <2>5
<1>2. ASSUME UNCHANGED <<view, mode, rf, stored, urls, at>>, jobs' \subseteq jobs
      PROVE  ScreenOK' /\ KeepsTheAddress
  BY <1>2, ScreenKept DEF ScreenOK
<1>3. ASSUME \/ \E t \in Tokens : LiveUnlock(t)
             \/ \E u \in Uploads : UploadFiles(u)
             \/ ImportBaseline
      PROVE  ScreenOK' /\ KeepsTheAddress
  <2>1. UNCHANGED <<view, mode, rf, stored, urls, at>>
    BY <1>3 DEF LiveUnlock, UploadFiles, ImportBaseline, url
  <2>2. \E j : /\ j.kind \in {"unlock", "upload"} => j.view = view /\ j.rf = rf
               /\ jobs' = jobs \cup {j}
    BY <1>3 DEF LiveUnlock, UploadFiles, ImportBaseline, Await
  <2>3. QED BY <2>1, <2>2, ScreenKept DEF ScreenOK
<1>4. ASSUME LiveLock PROVE ScreenOK' /\ KeepsTheAddress
  <2>1. CASE mode = "live"
    <3> DEFINE e == [view |-> view, mode |-> "upload", rf |-> rf]
    <3>1. [Screen EXCEPT !.mode = "upload"] = e BY DEF Screen
    <3>2. SetMode("upload") /\ WriteUrl(e, "push") /\ UNCHANGED <<view, rf, jobs>>
      BY <1>4, <2>1, <3>1 DEF LiveLock
    <3>3. mode' = "upload" /\ stored' = "upload" /\ "upload" \in Modes BY <3>2 DEF SetMode, Modes
    <3>4. e \in Entries /\ e = [view |-> view', mode |-> mode', rf |-> rf']
      BY <3>2, <3>3 DEF Entries, ScreenOK
    <3> HIDE DEF e
    <3>5. QED BY <3>2, <3>3, <3>4, ScreenWritten
  <2>2. CASE mode # "live"
    BY <1>2, <1>4, <2>2 DEF LiveLock, url
  <2>3. QED BY <2>1, <2>2
<1>5. ASSUME NEW m \in Modes, SourceModeChange(m) PROVE ScreenOK' /\ KeepsTheAddress
  <2> DEFINE e == [view |-> view, mode |-> m, rf |-> rf]
  <2>1. WriteUrl(e, "push") /\ mode' = m /\ stored' = m /\ UNCHANGED <<view, rf, jobs>>
    BY <1>5 DEF SourceModeChange, ChangeMode, SetMode
  <2>2. e \in Entries /\ e = [view |-> view', mode |-> mode', rf |-> rf']
    BY <2>1 DEF Entries, ScreenOK
  <2> HIDE DEF e
  <2>3. QED BY <2>1, <2>2, ScreenWritten
<1>6. ASSUME NEW j \in jobs, LiveUnlocked(j) PROVE ScreenOK' /\ KeepsTheAddress
  <2>1. j.kind = "unlock" /\ jobs' = jobs \ {j} /\ UNCHANGED <<view, rf>> BY <1>6 DEF LiveUnlocked
  <2>2. CASE j.token = good
    <3>1. SetMode("live") /\ WriteUrl([view |-> j.view, mode |-> "live", rf |-> j.rf], "push")
      BY <1>6, <2>2 DEF LiveUnlocked, ChangeMode
    <3>2. "live" \in Modes BY DEF Modes
    <3>3. QED BY <2>1, <3>1, <3>2, ScreenWrittenLate
  <2>3. CASE j.token # good
    BY <1>2, <1>6, <2>1, <2>3 DEF LiveUnlocked, url
  <2>4. QED BY <2>2, <2>3
<1>7. ASSUME NEW j \in jobs, NEW fails \in BOOLEAN, UploadParsed(j, fails)
      PROVE  ScreenOK' /\ KeepsTheAddress
  <2>1. j.kind = "upload" /\ jobs' = jobs \ {j} /\ UNCHANGED <<view, rf>> BY <1>7 DEF UploadParsed
  <2>2. CASE fails BY <1>2, <1>7, <2>1, <2>2 DEF UploadParsed, url
  <2>3. CASE ~fails
    <3>1. SetMode("upload") /\ WriteUrl([view |-> j.view, mode |-> "upload", rf |-> j.rf], "push")
      BY <1>7, <2>3 DEF UploadParsed
    <3>2. "upload" \in Modes BY DEF Modes
    <3>3. QED BY <2>1, <3>1, <3>2, ScreenWrittenLate
  <2>4. QED BY <2>2, <2>3
<1>8. ASSUME NEW v \in Views, ViewModeChange(v) PROVE ScreenOK' /\ KeepsTheAddress
  <2> DEFINE e == [view |-> v, mode |-> mode, rf |-> rf]
             how == IF v = view THEN "replace" ELSE "push"
  <2>1. [Screen EXCEPT !.view = v] = e BY DEF Screen
  <2>2. WriteUrl(e, how) /\ view' = v /\ UNCHANGED <<mode, rf, stored, jobs>>
    BY <1>8, <2>1 DEF ViewModeChange
  <2>3. e \in Entries /\ e = [view |-> view', mode |-> mode', rf |-> rf'] /\ stored' \in Modes
    BY <2>2 DEF Entries, ScreenOK
  <2> HIDE DEF e, how
  <2>4. QED BY <2>2, <2>3, ScreenWritten
<1>9. ASSUME NEW f \in Filters, ResourceFiltersChange(f) PROVE ScreenOK' /\ KeepsTheAddress
  <2> DEFINE e == [view |-> view, mode |-> mode, rf |-> f]
  <2>1. [Screen EXCEPT !.rf = f] = e BY DEF Screen
  <2>2. WriteUrl(e, "replace") /\ rf' = f /\ UNCHANGED <<view, mode, stored, jobs>>
    BY <1>9, <2>1 DEF ResourceFiltersChange
  <2>3. e \in Entries /\ e = [view |-> view', mode |-> mode', rf |-> rf'] /\ stored' \in Modes
    BY <2>2 DEF Entries, ScreenOK
  <2> HIDE DEF e
  <2>4. QED BY <2>2, <2>3, ScreenWritten
<1>10. ASSUME NEW n, OpenTopologyNode(n) PROVE ScreenOK' /\ KeepsTheAddress
  <2> DEFINE e == [view |-> "topology", mode |-> mode, rf |-> rf]
  <2>1. [Screen EXCEPT !.view = "topology"] = e BY DEF Screen
  <2>2. WriteUrl(e, "push") /\ view' = "topology" /\ UNCHANGED <<mode, rf, stored, jobs>>
    BY <1>10, <2>1 DEF OpenTopologyNode
  <2>3. e \in Entries /\ e = [view |-> view', mode |-> mode', rf |-> rf'] /\ stored' \in Modes
    BY <2>2, DashboardAssumption DEF Entries, ScreenOK
  <2> HIDE DEF e
  <2>4. QED BY <2>2, <2>3, ScreenWritten
<1>11. ASSUME NEW i \in 1..Len(urls), PopState(i) PROVE ScreenOK' /\ KeepsTheAddress
  <2> DEFINE p == Path(urls[i])
  <2>1. urls[i] \in Entries BY DEF ScreenOK
  <2>2. p \in Entries /\ Path(p) = p BY <2>1, PathsAreEntries
  <2>3. /\ at' = i /\ view' = p.view /\ rf' = p.rf /\ mode' = p.mode
        /\ stored' = p.mode \/ stored' = stored
        /\ UNCHANGED <<urls, jobs>>
    BY <1>11 DEF PopState
  <2>4. Path(urls'[at']) = p BY <2>3
  <2> HIDE DEF p
  <2>5. ScreenOK' BY <2>2, <2>3 DEF ScreenOK, Entries
  <2>6. [view |-> p.view, mode |-> p.mode, rf |-> p.rf] = p BY <2>2 DEF Entries
  <2>7. Screen' = p BY <2>3, <2>6 DEF Screen
  <2>8. \A s : s = Screen' => Path(Screen)' = Path(s) BY DEF Path
  <2>9. UrlInSync' BY <2>2, <2>4, <2>7, <2>8 DEF UrlInSync, Path
  <2>10. QED BY <2>5, <2>9 DEF KeepsTheAddress
<1>12. ASSUME Reload PROVE ScreenOK' /\ KeepsTheAddress
  <2> DEFINE p == Path(urls[at])
             m == InitialMode(urls[at])
             e == [view |-> p.view, mode |-> m, rf |-> p.rf]
  <2>1. urls[at] \in Entries BY DEF ScreenOK
  <2>2. p \in Entries BY <2>1, PathsAreEntries
  <2>3. m \in Modes BY <2>1 DEF InitialMode, ScreenOK, Entries
  <2>4. /\ view' = p.view /\ rf' = p.rf /\ mode' = m /\ stored' = m
        /\ urls' = [urls EXCEPT ![at] = e] /\ at' = at /\ jobs' = {}
    BY <1>12 DEF Reload, SetMode
  <2> HIDE DEF p, m
  <2>5. e \in Entries BY <2>2, <2>3 DEF Entries
  <2>6. urls' \in Seq(Entries) /\ Len(urls') = Len(urls) /\ urls'[at] = e
    BY <2>4, <2>5, ExceptSeq DEF ScreenOK
  <2>7. ScreenOK' BY <2>2, <2>3, <2>4, <2>6 DEF ScreenOK, Entries
  <2>8. urls'[at'] = Screen' BY <2>4, <2>6 DEF Screen
  <2>9. UrlInSync' BY <2>8 DEF UrlInSync, Path
  <2>10. QED BY <2>7, <2>9 DEF KeepsTheAddress
<1>13. QED
  BY <1>1, <1>2, <1>3, <1>4, <1>5, <1>6, <1>7, <1>8, <1>9, <1>10, <1>11, <1>12
     DEF Next, Answers, LiveEvents, Header, SourceModeBar, ScreenEvents, FilterBar, HistoryEvents, SnapshotHistoryControls
----------------------------------------------------------------------------
(* The live session *)

LEMMA SessionKept ==
    ASSUME RanOK, SessionOK, UNCHANGED <<ran, unlocked, token, status, capability>>
    PROVE  RanOK' /\ SessionOK'
BY DEF RanOK, SessionOK

LEMMA LiveIsBoolean == LiveActive \in BOOLEAN
BY DEF LiveActive

LEMMA SessionStep ==
    ASSUME RanOK, SessionOK, Next
    PROVE  RanOK' /\ SessionOK'
<1>1. ASSUME TopologyEffect PROVE RanOK' /\ SessionOK'
  <2>1. ran' = [ran EXCEPT !.topology = TopologyDeps] /\ UNCHANGED <<unlocked, token, status, capability>>
    BY <1>1 DEF TopologyEffect, live, conn
  <2>2. ran' = [topology |-> TopologyDeps, status |-> ran.status, capability |-> ran.capability]
    BY <2>1 DEF RanOK
  <2>3. QED BY <2>1, <2>2 DEF RanOK, SessionOK
<1>2. ASSUME StatusEffect PROVE RanOK' /\ SessionOK'
  <2>1. /\ ran' = [ran EXCEPT !.status = LiveActive]
        /\ status' = IF LiveActive THEN "asking" ELSE "off"
        /\ UNCHANGED <<unlocked, token, capability>>
    BY <1>2 DEF StatusEffect, live
  <2>2. ran' = [topology |-> ran.topology, status |-> LiveActive, capability |-> ran.capability]
    BY <2>1 DEF RanOK
  <2>3. RanOK' /\ ran'.status = LiveActive /\ ran'.capability = ran.capability BY <2>2 DEF RanOK
  <2>4. status' = "off" \/ ran'.status = TRUE BY <2>1, <2>3, LiveIsBoolean
  <2>5. QED BY <2>1, <2>3, <2>4 DEF SessionOK
<1>3. ASSUME CapabilityEffect PROVE RanOK' /\ SessionOK'
  <2>1. /\ ran' = [ran EXCEPT !.capability = LiveActive]
        /\ capability' = IF LiveActive THEN "asking" ELSE "off"
        /\ UNCHANGED <<unlocked, token, status>>
    BY <1>3 DEF CapabilityEffect, live
  <2>2. ran' = [topology |-> ran.topology, status |-> ran.status, capability |-> LiveActive]
    BY <2>1 DEF RanOK
  <2>3. RanOK' /\ ran'.capability = LiveActive /\ ran'.status = ran.status BY <2>2 DEF RanOK
  <2>4. capability' = "off" \/ ran'.capability = TRUE BY <2>1, <2>3, LiveIsBoolean
  <2>5. QED BY <2>1, <2>3, <2>4 DEF SessionOK
<1>4. ASSUME AutoRefreshOff \/ SelectFirstNode \/ DropStaleSelection
      PROVE  UNCHANGED <<ran, unlocked, token, status, capability>>
  BY <1>4 DEF AutoRefreshOff, SelectFirstNode, DropStaleSelection, live, conn
<1>5. ASSUME LockOn401 \/ LiveLock PROVE RanOK' /\ SessionOK'
  <2>1. token' = NoToken /\ unlocked' = FALSE /\ UNCHANGED <<ran, status, capability>>
    BY <1>5 DEF LockOn401, LiveLock, EndSession, conn
  <2>2. QED BY <2>1 DEF RanOK, SessionOK
<1>6. ASSUME NEW fails \in BOOLEAN, StatusAnswered(fails) PROVE RanOK' /\ SessionOK'
  <2>1. status = "asking" /\ UNCHANGED <<ran, unlocked, token, capability>>
    BY <1>6 DEF StatusAnswered, live
  <2>2. QED BY <2>1 DEF RanOK, SessionOK
<1>7. ASSUME NEW fails \in BOOLEAN, CapabilityAnswered(fails) PROVE RanOK' /\ SessionOK'
  <2>1. capability = "asking" /\ UNCHANGED <<ran, unlocked, token, status>>
    BY <1>7 DEF CapabilityAnswered, live
  <2>2. QED BY <2>1 DEF RanOK, SessionOK
<1>8. ASSUME \E fails \in BOOLEAN :
                \/ \E r \in requests : TopologyAnswered(r, fails)
                \/ \E j \in jobs : UploadParsed(j, fails)
      PROVE  UNCHANGED <<ran, unlocked, token, status, capability>>
  BY <1>8 DEF TopologyAnswered, UploadParsed, live, conn
<1>9. ASSUME \/ Refresh \/ RefreshTick \/ ToggleAutoRefresh \/ RefreshCapabilities
             \/ \E t \in Tokens : LiveUnlock(t) \/ RotateToken(t)
             \/ \E m \in Modes : SourceModeChange(m)
             \/ \E u \in Uploads : UploadFiles(u)
      PROVE  UNCHANGED <<ran, unlocked, token, status, capability>>
  BY <1>9 DEF Refresh, RefreshTick, ToggleAutoRefresh, RefreshCapabilities, LiveUnlock, RotateToken,
              SourceModeChange, UploadFiles, live, conn
<1>10. ASSUME NEW j \in jobs, LiveUnlocked(j) PROVE RanOK' /\ SessionOK'
  <2>1. UNCHANGED <<ran, status, capability>> /\ (unlocked' = TRUE \/ UNCHANGED <<unlocked, token>>)
    BY <1>10 DEF LiveUnlocked, conn
  <2>2. QED BY <2>1 DEF RanOK, SessionOK
<1>11. ASSUME \/ \E v \in Views : ViewModeChange(v)
              \/ \E f \in Filters : ResourceFiltersChange(f) \/ FiltersChange(f)
              \/ \E n \in NodesOf(shown) : OpenTopologyNode(n) \/ SelectNode(n)
              \/ \E i \in 1..Len(urls) : PopState(i)
              \/ ResetFilters
       PROVE  UNCHANGED <<ran, unlocked, token, status, capability>>
  BY <1>11 DEF ViewModeChange, ResourceFiltersChange, FiltersChange, OpenTopologyNode, SelectNode,
               PopState, ResetFilters, live, conn
<1>12. ASSUME Reload PROVE RanOK' /\ SessionOK'
  <2>1. /\ ran' = [topology |-> <<>>, status |-> FALSE, capability |-> FALSE]
        /\ unlocked' = (token # NoToken) /\ token' = token
        /\ status' = "off" /\ capability' = "off"
    BY <1>12 DEF Reload
  <2>2. unlocked' \in BOOLEAN /\ (~unlocked' => token' = NoToken) BY <2>1
  <2>3. QED BY <2>1, <2>2 DEF RanOK, SessionOK
<1>13. ASSUME HistoryEvents PROVE UNCHANGED <<ran, unlocked, token, status, capability>>
  BY <1>13 DEF HistoryEvents, SnapshotHistoryControls, CaptureSnapshot, ImportBaseline, ClearHistory, BaselineImported,
               SelectBaseline, SelectCurrent, DeleteEntry, live, conn
<1>14. QED
  BY <1>1, <1>2, <1>3, <1>4, <1>5, <1>6, <1>7, <1>8, <1>9, <1>10, <1>11, <1>12, <1>13, SessionKept
     DEF Next, Effects, Answers, LiveEvents, Header, SourceModeBar, ScreenEvents, FilterBar
----------------------------------------------------------------------------
(* The snapshot on the screen *)

LEMMA ErrorsAreNamed == NoError \notin {"failed", "401"}
BY Zenon DEF NoError

LEMMA TopologyKept ==
    ASSUME TopologyOK, ran'.topology = ran.topology, UNCHANGED <<requests, loading, shown, error>>
    PROVE  TopologyOK'
BY DEF TopologyOK, ShownFor

LEMMA TopologyStep ==
    ASSUME ScreenOK, RanOK, SessionOK, TopologyOK, Next
    PROVE  TopologyOK'
<1>1. ASSUME TopologyEffect PROVE TopologyOK'
  <2>1. /\ ran' = [ran EXCEPT !.topology = TopologyDeps] /\ error' = NoError
        /\ IF LiveActive
           THEN requests' = {[force |-> forced, token |-> token]} /\ loading' = TRUE
           ELSE /\ requests' = {} /\ loading' = FALSE
                /\ shown' = CASE mode = "mock" -> "mock" [] mode = "upload" -> uploaded [] OTHER -> "locked"
    BY <1>1 DEF TopologyEffect, Aborted
  <2>2. ran'.topology = <<unlocked, mode, uploaded>> BY <2>1 DEF RanOK, TopologyDeps
  <2>3. /\ ran'.topology[1] = unlocked /\ ran'.topology[2] = mode /\ ran'.topology[3] = uploaded
        /\ unlocked \in BOOLEAN /\ mode \in Modes
    BY <2>2 DEF ScreenOK, SessionOK
  <2>5. CASE LiveActive
    <3>1. unlocked /\ mode = "live" BY <2>5 DEF LiveActive
    <3>2. loading' = TRUE /\ error' = NoError /\ \A r, s \in requests' : r = s BY <2>1, <2>5
    <3>3. QED BY <2>2, <2>3, <3>1, <3>2 DEF TopologyOK, ShownFor
  <2>6. CASE ~LiveActive
    <3>1. ~(unlocked /\ mode = "live") BY <2>6 DEF LiveActive
    <3>2. /\ requests' = {} /\ loading' = FALSE
          /\ shown' = CASE mode = "mock" -> "mock" [] mode = "upload" -> uploaded [] OTHER -> "locked"
      BY <2>1, <2>6
    <3>3. QED BY <2>2, <2>3, <3>1, <3>2 DEF TopologyOK, ShownFor
  <2>7. QED BY <2>5, <2>6
<1>2. ASSUME NEW r \in requests, NEW fails \in BOOLEAN, TopologyAnswered(r, fails) PROVE TopologyOK'
  <2>1. /\ UNCHANGED ran /\ requests' = requests \ {r} /\ loading' = FALSE
        /\ \/ shown' = "locked" /\ error' \in {"failed", "401"}
           \/ shown' = "live" /\ error' = error
    BY <1>2 DEF TopologyAnswered
  <2>2. /\ ran.topology = <<ran.topology[1], ran.topology[2], ran.topology[3]>>
        /\ ran.topology[1] \in BOOLEAN /\ ran.topology[2] \in Modes
        /\ ran.topology[1] /\ ran.topology[2] = "live"
        /\ \A s \in requests : r = s
        /\ error = NoError
    BY <1>2 DEF TopologyOK, ShownFor
  <2>3. requests' = {} BY <2>1, <2>2
  <2>4. shown' = IF error' = NoError THEN "live" ELSE "locked" BY <2>1, <2>2, ErrorsAreNamed
  <2>5. QED BY <2>1, <2>2, <2>3, <2>4 DEF TopologyOK, ShownFor
<1>3. ASSUME StatusEffect \/ CapabilityEffect PROVE TopologyOK'
  <2>1. ran'.topology = ran.topology /\ UNCHANGED <<requests, loading, shown, error>>
    BY <1>3 DEF StatusEffect, CapabilityEffect, RanOK, topo
  <2>2. QED BY <2>1, TopologyKept
<1>4. ASSUME AutoRefreshOff \/ LockOn401 \/ SelectFirstNode \/ DropStaleSelection
      PROVE  UNCHANGED <<ran, requests, loading, shown, error>>
  BY <1>4 DEF AutoRefreshOff, LockOn401, SelectFirstNode, DropStaleSelection, topo
<1>5. ASSUME \E fails \in BOOLEAN :
                \/ StatusAnswered(fails) \/ CapabilityAnswered(fails)
                \/ \E j \in jobs : UploadParsed(j, fails)
      PROVE  UNCHANGED <<ran, requests, loading, shown, error>>
  BY <1>5 DEF StatusAnswered, CapabilityAnswered, UploadParsed, topo
<1>6. ASSUME LiveEvents PROVE UNCHANGED <<ran, requests, loading, shown, error>>
  BY <1>6 DEF LiveEvents, Header, SourceModeBar, ResetFilters, ViewModeChange, Refresh, RefreshTick, ToggleAutoRefresh, RefreshCapabilities, LiveLock, LiveUnlock,
              RotateToken, LiveUnlocked, SourceModeChange, UploadFiles, topo
<1>7. ASSUME \/ \E v \in Views : ViewModeChange(v)
             \/ \E f \in Filters : ResourceFiltersChange(f) \/ FiltersChange(f)
             \/ \E n \in NodesOf(shown) : OpenTopologyNode(n) \/ SelectNode(n)
             \/ \E i \in 1..Len(urls) : PopState(i)
             \/ ResetFilters
      PROVE  UNCHANGED <<ran, requests, loading, shown, error>>
  BY <1>7 DEF ViewModeChange, ResourceFiltersChange, FiltersChange, OpenTopologyNode, SelectNode,
              PopState, ResetFilters, topo
<1>8. ASSUME Reload PROVE TopologyOK'
  <2>1. /\ ran' = [topology |-> <<>>, status |-> FALSE, capability |-> FALSE]
        /\ requests' = {} /\ loading' = FALSE
    BY <1>8 DEF Reload
  <2>2. QED BY <2>1 DEF TopologyOK
<1>9. ASSUME HistoryEvents PROVE UNCHANGED <<ran, requests, loading, shown, error>>
  BY <1>9 DEF HistoryEvents, SnapshotHistoryControls, CaptureSnapshot, ImportBaseline, ClearHistory, BaselineImported,
              SelectBaseline, SelectCurrent, DeleteEntry, topo
<1>10. QED
  BY <1>1, <1>2, <1>3, <1>4, <1>5, <1>6, <1>7, <1>8, <1>9, TopologyKept
     DEF Next, Effects, Answers, ScreenEvents, FilterBar
----------------------------------------------------------------------------
(* The history of snapshots *)

Rank(I, i) == Cardinality({k \in I : k <= i})

LEMMA RanksDiffer ==
    ASSUME NEW n \in Nat, NEW I, I \subseteq 1..n
    PROVE  /\ IsFiniteSet(I) /\ Cardinality(I) \in Nat
           /\ \A i \in I : Rank(I, i) \in 1..Cardinality(I)
           /\ \A i, j \in I : Rank(I, i) = Rank(I, j) => i = j
<1>0. \A k \in I : k \in Int OBVIOUS
<1>1. IsFiniteSet(I)
  <2>1. 1 \in Int /\ n \in Int OBVIOUS
  <2>2. IsFiniteSet(1..n) BY <2>1, FS_Interval
  <2>3. QED BY <2>2, FS_Subset
<1>2. Cardinality(I) \in Nat BY <1>1, FS_CardinalityType
<1>3. \A i \in I : /\ IsFiniteSet({k \in I : k <= i})
                   /\ Rank(I, i) \in Nat /\ Rank(I, i) <= Cardinality(I)
  BY <1>1, FS_Subset, FS_CardinalityType DEF Rank
<1>4. ASSUME NEW i \in I PROVE Rank(I, i) # 0
  <2>1. i \in {k \in I : k <= i} BY <1>0
  <2>2. QED BY <1>3, <2>1, FS_EmptySet DEF Rank
<1>5. ASSUME NEW i \in I, NEW j \in I, i < j PROVE Rank(I, i) # Rank(I, j)
  <2>1. {k \in I : k <= i} \subseteq {k \in I : k <= j}
    <3>1. i \in Int /\ j \in Int BY <1>0
    <3>2. \A k \in I : k <= i => k <= j BY <1>0, <1>5, <3>1
    <3>3. QED BY <3>2
  <2>2. j \in {k \in I : k <= j} /\ j \notin {k \in I : k <= i} BY <1>0, <1>5
  <2>3. QED BY <1>3, <2>1, <2>2, FS_Subset DEF Rank
<1>6. ASSUME NEW i \in I, NEW j \in I, Rank(I, i) = Rank(I, j) PROVE i = j
  <2>1. ~(i < j) /\ ~(j < i) BY <1>5, <1>6
  <2>2. QED BY <1>0, <2>1
<1>7. \A i \in I : Rank(I, i) \in 1..Cardinality(I)
  <2>1. \A i \in I : Rank(I, i) \in Nat /\ Rank(I, i) <= Cardinality(I) /\ Rank(I, i) # 0 BY <1>3, <1>4
  <2>2. QED BY <1>2, <2>1
<1>8. QED BY <1>1, <1>2, <1>6, <1>7

\* The elements at some positions of a sequence are a sequence of all of them.
LEMMA PositionsKept ==
    ASSUME NEW S, NEW s \in Seq(S), NEW I, I \subseteq 1..Len(s), NEW t, t = AtPositions(s, I)
    PROVE  /\ Len(t) \in Nat /\ t = [n \in 1..Len(t) |-> t[n]]
           /\ \A i \in I : \E n \in 1..Len(t) : t[n] = s[i]
<1> DEFINE c == Cardinality(I)
           nth(n) == CHOOSE i \in I : Rank(I, i) = n
<1>1. Len(s) \in Nat OBVIOUS
<1>2. /\ c \in Nat
      /\ \A i \in I : Rank(I, i) \in 1..c
      /\ \A i, j \in I : Rank(I, i) = Rank(I, j) => i = j
  BY <1>1, RanksDiffer
<1>3. t = [n \in 1..c |-> s[nth(n)]] BY DEF AtPositions, Rank
<1>4. \A i \in I : nth(Rank(I, i)) = i
  <2> SUFFICES ASSUME NEW i \in I PROVE nth(Rank(I, i)) = i
    OBVIOUS
  <2>1. nth(Rank(I, i)) \in I /\ Rank(I, nth(Rank(I, i))) = Rank(I, i) OBVIOUS
  <2>2. QED BY <1>2, <2>1
<1> HIDE DEF c, nth
<1>5. Len(t) = c /\ t = [n \in 1..c |-> t[n]]
  <2> DEFINE T == {s[nth(n)] : n \in 1..c}
  <2>1. t \in [1..c -> T] BY <1>3
  <2> HIDE DEF T
  <2>2. QED BY <1>2, <2>1
<1>6. ASSUME NEW i \in I PROVE \E n \in 1..c : t[n] = s[i]
  <2>1. Rank(I, i) \in 1..c BY <1>2
  <2>2. t[Rank(I, i)] = s[i] BY <1>3, <1>4, <2>1
  <2>3. QED BY <2>1, <2>2
<1>7. QED BY <1>2, <1>5, <1>6

LEMMA HistoryIsASequence ==
    ASSUME HistoryOK
    PROVE  history \in Seq({history[i] : i \in 1..Len(history)}) /\ Len(history) \in Nat
BY DEF HistoryOK

\* An added entry is a sequence of what was kept, with every protected entry that was there.
LEMMA EntryAdded ==
    ASSUME HistoryOK, NEW entry, NEW protected, AddEntry(entry, protected)
    PROVE  HistoryOK' /\ protected \cap Ids \subseteq {history'[i].id : i \in 1..Len(history')}
<1> DEFINE n == Len(history)
           S == {history[i] : i \in 1..n} \cup {entry}
           next == <<entry>> \o history
           held == {k \in 1..Len(next) : next[k].id \in protected}
           others(i) == {k \in 1..i : ~(next[k].id \in protected)}
           I == {i \in 1..Len(next) :
                   next[i].id \in protected \/ Cardinality(others(i)) + Cardinality(held) <= MaxHistory}
<1>1. history \in Seq(S) /\ n \in Nat
  <2>1. history \in Seq({history[i] : i \in 1..n}) /\ n \in Nat BY HistoryIsASequence
  <2>2. QED BY <2>1
<1>2. entry \in S OBVIOUS
<1> HIDE DEF S
<1>3. next \in Seq(S) /\ Len(next) = n + 1 /\ \A i \in 1..n : next[i + 1] = history[i]
  BY <1>1, <1>2
<1>4. history' = AtPositions(next, I) BY DEF AddEntry, Kept
<1> HIDE DEF n, next
<1>5. I \subseteq 1..Len(next) OBVIOUS
<1>6. \A i \in 1..n : history[i].id \in protected => i + 1 \in I
  BY <1>1, <1>3
<1> HIDE DEF I
<1>7. /\ HistoryOK'
      /\ \A i \in I : \E k \in 1..Len(history') : history'[k] = next[i]
  BY <1>3, <1>4, <1>5, PositionsKept DEF HistoryOK
<1>8. ASSUME NEW id \in protected \cap Ids PROVE id \in {history'[i].id : i \in 1..Len(history')}
  <2>1. PICK i \in 1..n : history[i].id = id BY DEF Ids, n
  <2>2. next[i + 1] = history[i] /\ i + 1 \in I BY <1>3, <1>6, <2>1
  <2>3. PICK k \in 1..Len(history') : history'[k] = next[i + 1] BY <1>7, <2>2
  <2>4. QED BY <2>1, <2>2, <2>3
<1>9. QED BY <1>7, <1>8

LEMMA HistoryStep ==
    ASSUME HistoryOK, Next
    PROVE  HistoryOK'
<1>1. ASSUME UNCHANGED history PROVE HistoryOK'
  BY <1>1 DEF HistoryOK
<1>2. ASSUME Effects \/ Answers \/ LiveEvents PROVE UNCHANGED history
  <2>1. CASE Effects
    BY <2>1 DEF Effects, TopologyEffect, StatusEffect, CapabilityEffect, AutoRefreshOff, LockOn401,
                SelectFirstNode, DropStaleSelection, hist
  <2>2. CASE Answers
    BY <2>2 DEF Answers, TopologyAnswered, StatusAnswered, CapabilityAnswered, UploadParsed, hist
  <2>3. CASE LiveEvents
    BY <2>3 DEF LiveEvents, Header, SourceModeBar, ResetFilters, ViewModeChange, Refresh, RefreshTick, ToggleAutoRefresh, RefreshCapabilities, LiveLock,
                LiveUnlock, RotateToken, LiveUnlocked, SourceModeChange, UploadFiles, hist
  <2>4. QED BY <1>2, <2>1, <2>2, <2>3
<1>3. ASSUME ScreenEvents, ~Reload PROVE UNCHANGED history
  BY <1>3 DEF ScreenEvents, FilterBar, ResourceFiltersChange, FiltersChange, OpenTopologyNode, SelectNode, PopState, hist
<1>4. ASSUME Reload \/ ClearHistory PROVE HistoryOK'
  <2>1. history' = <<>> BY <1>4 DEF Reload, ClearHistory
  <2>2. QED BY <2>1 DEF HistoryOK
<1>5. ASSUME CaptureSnapshot PROVE HistoryOK'
  BY <1>5, EntryAdded DEF CaptureSnapshot
<1>6. ASSUME NEW j \in jobs, BaselineImported(j) PROVE HistoryOK'
  BY <1>6, EntryAdded DEF BaselineImported
<1>7. ASSUME ImportBaseline \/ \E id \in Ids \cup {NoEntry} : SelectBaseline(id) \/ SelectCurrent(id)
      PROVE  UNCHANGED history
  BY <1>7 DEF ImportBaseline, SelectBaseline, SelectCurrent, hist
<1>8. ASSUME NEW id, DeleteEntry(id) PROVE HistoryOK'
  <2> DEFINE I == {i \in 1..Len(history) : history[i].id # id}
             S == {history[i] : i \in 1..Len(history)}
  <2>1. history' = AtPositions(history, I) BY <1>8 DEF DeleteEntry
  <2>2. I \subseteq 1..Len(history) OBVIOUS
  <2>3. history \in Seq(S) BY HistoryIsASequence
  <2> HIDE DEF I, S
  <2>4. QED BY <2>1, <2>2, <2>3, PositionsKept DEF HistoryOK
<1>9. QED
  BY <1>1, <1>2, <1>3, <1>4, <1>5, <1>6, <1>7, <1>8 DEF Next, HistoryEvents, SnapshotHistoryControls
----------------------------------------------------------------------------
(* The shell's theorems *)

\* The shell's inductive invariant: what is asked, shown and kept is what the effects made of
\* the dependencies they ran with last (App.tsx, useTopology.ts).
THEOREM ShellInductive == ShellSpec => [](part = "shell" => ShellInv)
<1>1. ShellInit => (part = "shell" => ShellInv)
  <2> SUFFICES ASSUME ShellInit, part = "shell" PROVE ShellInv
    OBVIOUS
  <2>1. Init BY DEF ShellInit
  <2>2. view \in Views /\ mode \in Modes /\ rf = "all" /\ rf \in Filters
    BY <2>1, DashboardAssumption DEF Init
  <2>3. ScreenOK
    <3> DEFINE e == [view |-> view, mode |-> mode, rf |-> "all"]
    <3>1. e \in Entries BY <2>2 DEF Entries
    <3>2. urls = <<e>> /\ at = 1 /\ stored = mode /\ jobs = {} BY <2>1 DEF Init
    <3> HIDE DEF e
    <3>3. urls \in Seq(Entries) /\ at \in 1..Len(urls) BY <3>1, <3>2
    <3>4. QED BY <2>2, <3>2, <3>3 DEF ScreenOK
  <2>4. ran = [topology |-> <<FALSE, mode, Nothing>>, status |-> FALSE, capability |-> FALSE]
    BY <2>1 DEF Init
  <2>5. RanOK BY <2>4 DEF RanOK
  <2>6. SessionOK BY <2>1 DEF Init, SessionOK
  <2>7. TopologyOK
    <3>1. requests = {} /\ loading = FALSE /\ shown = FirstShown(mode) BY <2>1 DEF Init
    <3>2. ShownFor(FALSE, mode, Nothing) BY <3>1 DEF ShownFor, FirstShown
    <3>3. /\ ran.topology = <<FALSE, mode, Nothing>>
          /\ ran.topology[1] = FALSE /\ ran.topology[2] = mode /\ ran.topology[3] = Nothing
      BY <2>4
    <3>4. QED BY <2>2, <3>1, <3>2, <3>3 DEF TopologyOK
  <2>8. HistoryOK BY <2>1 DEF Init, HistoryOK
  <2>9. QED BY <2>3, <2>5, <2>6, <2>7, <2>8 DEF ShellInv
<1>2. (part = "shell" => ShellInv) /\ [ShellNext]_browser => (part = "shell" => ShellInv)'
  <2> SUFFICES ASSUME part = "shell" => ShellInv, [ShellNext]_browser, part' = "shell"
               PROVE  ShellInv'
    OBVIOUS
  <2>1. part = "shell" /\ ShellInv BY DEF ShellNext, browser
  <2>2. CASE Next
    BY <2>1, <2>2, ScreenStep, SessionStep, TopologyStep, HistoryStep DEF ShellInv
  <2>3. CASE UNCHANGED browser
    <3>1. UNCHANGED <<view, mode, rf, stored, urls, at, jobs, ran, unlocked, token, status, capability,
                      requests, loading, shown, error, history>>
      BY <2>3 DEF browser, shellOnly, live, topo, conn, hist, url
    <3>2. ScreenOK' BY <2>1, <3>1 DEF ShellInv, ScreenOK
    <3>3. RanOK' /\ SessionOK' BY <2>1, <3>1, SessionKept DEF ShellInv
    <3>4. TopologyOK' BY <2>1, <3>1, TopologyKept DEF ShellInv
    <3>5. HistoryOK' BY <2>1, <3>1 DEF ShellInv, HistoryOK
    <3>6. QED BY <3>2, <3>3, <3>4, <3>5 DEF ShellInv
  <2>4. QED BY <2>1, <2>2, <2>3 DEF ShellNext
<1>3. QED BY <1>1, <1>2, PTL DEF ShellSpec

\* Once a request is answered or abandoned the screen shows a snapshot of the chosen source and
\* of no other, in whatever order modes, locks, uploads and answers came (useTopology.ts).
THEOREM SourceIsShown == ShellSpec => []ShownIsOfTheSource
<1>1. ScreenOK /\ SessionOK /\ TopologyOK => ShownIsOfItsSource
  <2> SUFFICES ASSUME ScreenOK, SessionOK, TopologyOK, Settled, ~loading
               PROVE  CASE mode = "mock"   -> shown = "mock"
                        [] mode = "upload" -> shown = uploaded
                        [] OTHER           -> shown = IF unlocked /\ error = NoError THEN "live" ELSE "locked"
    BY DEF ShownIsOfItsSource
  <2>1. ran.topology = <<unlocked, mode, uploaded>> BY DEF Settled, TopologyDue, TopologyDeps
  <2>2. ShownFor(unlocked, mode, uploaded) BY <2>1 DEF TopologyOK
  <2>3. mode \in {"upload", "live", "mock"} BY DEF ScreenOK, Modes
  <2>4. QED BY <2>2, <2>3 DEF ShownFor
<1>2. (part = "shell" => ShellInv) => ShownIsOfTheSource BY <1>1 DEF ShellInv, ShownIsOfTheSource
<1>3. QED BY <1>2, ShellInductive, PTL

\* A locked session is over: its token is gone and nothing is asked, polled or kept for it,
\* whether its user locked it or a 401 did (App.tsx, handleLiveLock and the effect on 401).
THEOREM LockedSessionsEnd == ShellSpec => []LockEndsTheSession
<1>1. SessionOK /\ TopologyOK => LockedSessionIsOver
  <2> SUFFICES ASSUME SessionOK, TopologyOK, Settled, ~unlocked
               PROVE  /\ token = NoToken
                      /\ requests = {} /\ ~loading /\ ~autoRefresh
                      /\ status = "off" /\ capability = "off"
    BY DEF LockedSessionIsOver
  <2>1. ~LiveActive BY DEF LiveActive
  <2>2. ~autoRefresh BY <2>1 DEF Settled, AutoOffDue
  <2>3. ran.status = LiveActive /\ ran.capability = LiveActive
    BY DEF Settled, StatusDue, CapabilityDue
  <2>4. status = "off" /\ capability = "off" BY <2>1, <2>3 DEF SessionOK
  <2>5. ran.topology = <<unlocked, mode, uploaded>> BY DEF Settled, TopologyDue, TopologyDeps
  <2>6. requests = {} /\ ~loading BY <2>5 DEF TopologyOK, ShownFor
  <2>7. QED BY <2>2, <2>4, <2>6 DEF SessionOK
<1>2. (part = "shell" => ShellInv) => LockEndsTheSession BY <1>1 DEF ShellInv, LockEndsTheSession
<1>3. QED BY <1>2, ShellInductive, PTL

\* The address bar falls out of step with the screen only when a handler ends after an await
\* with another view or other filters than it saw when it began (App.tsx, writeAppUrlState).
THEOREM AddressIsWritten == ShellSpec => AddressFollowsTheScreen
<1>1. (part = "shell" => ShellInv) /\ [ShellNext]_browser => [part = "shell" => KeepsTheAddress]_browser
  BY ScreenStep DEF ShellInv, ShellNext
<1>2. QED BY <1>1, ShellInductive, PTL DEF ShellSpec, AddressFollowsTheScreen

\* A capture never pushes the selected baseline or comparison out of the bounded history,
\* however small its bound (snapshotHistory.ts, addSnapshotHistoryEntry).
THEOREM SelectedAreKept == ShellSpec => CapturesKeepTheSelection
<1>1. HistoryOK => CaptureKeepsTheSelection
  <2> SUFFICES ASSUME HistoryOK, CaptureSnapshot
               PROVE  {baseline, current} \ {NoEntry} \subseteq {history'[i].id : i \in 1..Len(history')}
    BY DEF CaptureKeepsTheSelection
  <2>1. Settled BY DEF CaptureSnapshot, Event
  <2>2. {baseline, current} \ {NoEntry} \subseteq Ids BY <2>1 DEF Settled, HistoryDue
  <2>3. PICK entry : AddEntry(entry, {baseline, current}) BY DEF CaptureSnapshot
  <2>4. {baseline, current} \cap Ids \subseteq {history'[i].id : i \in 1..Len(history')}
    BY <2>3, EntryAdded
  <2>5. QED BY <2>2, <2>4
<1>2. (part = "shell" => ShellInv) /\ [ShellNext]_browser
      => [part = "shell" => CaptureKeepsTheSelection]_browser
  BY <1>1 DEF ShellInv, CaptureKeepsTheSelection
<1>3. QED BY <1>2, ShellInductive, PTL DEF ShellSpec, CapturesKeepTheSelection
----------------------------------------------------------------------------
(* The comparison *)

ComparisonInv ==
    /\ baseline \in ComparedSnapshots /\ current \in ComparedSnapshots
    /\ scope \in C!Scopes /\ changeFilter \in C!Types \cup {"all"}

LEMMA ComparisonInductive == ShellSpec => [](part = "comparison" => ComparisonInv)
<1>1. ShellInit => (part = "comparison" => ComparisonInv)
  BY DEF ShellInit, ComparisonInv, C!Init, C!Scopes
<1>2. (part = "comparison" => ComparisonInv) /\ [ShellNext]_browser => (part = "comparison" => ComparisonInv)'
  <2> SUFFICES ASSUME part = "comparison" => ComparisonInv, [ShellNext]_browser, part' = "comparison"
               PROVE  ComparisonInv'
    OBVIOUS
  <2>1. part = "comparison" /\ ComparisonInv BY DEF ShellNext, browser
  <2>2. CASE UNCHANGED browser BY <2>1, <2>2 DEF browser, comparisonOnly, ComparisonInv
  <2>3. CASE C!Retain \/ \E r \in C!RelationTypes : C!ToggleRelationType(r)
    BY <2>1, <2>3 DEF C!Retain, C!ToggleRelationType, C!pair, C!filters, ComparisonInv
  <2>4. CASE C!ClearRelationTypes
    BY <2>1, <2>4 DEF C!ClearRelationTypes, C!pair, C!filters, ComparisonInv
  <2>5. CASE \/ \E s \in C!Scopes : C!SetScope(s)
             \/ \E s \in C!Types \cup {"all"} : C!SetChangeFilter(s)
             \/ \E q \in Queries : C!SetQuery(q)
    BY <2>1, <2>5 DEF C!SetScope, C!SetChangeFilter, C!SetQuery, C!pair, ComparisonInv
  <2>6. CASE \E s \in ComparedSnapshots : C!SetBaseline(s) \/ C!SetCurrent(s)
    BY <2>1, <2>6 DEF C!SetBaseline, C!SetCurrent, C!filters, ComparisonInv
  <2>7. QED BY <2>1, <2>2, <2>3, <2>4, <2>5, <2>6 DEF ShellNext, C!Next, C!Panel
<1>3. QED BY <1>1, <1>2, PTL DEF ShellSpec

\* The list holds what F says happened to the ids of D.
IsListOf(list, D, F) ==
    /\ IsFiniteSet(D)
    /\ \A id \in D : F[id].id = id
    /\ \A id \in D : F[id].change # "none" => F[id] \in list
    /\ \A x \in list : x.id \in D /\ x = F[x.id] /\ x.change # "none"

\* The list of what happened to finitely many ids has each id once, under what happened to it.
LEMMA ListsOfChanges ==
    ASSUME NEW D, NEW F, NEW list, IsListOf(list, D, F)
    PROVE  /\ \A t : t # "none" => C!Listed(list, t) = {id \in D : F[id].change = t}
           /\ Cardinality(list) = Cardinality({x.id : x \in list})
<1>1. /\ IsFiniteSet(D)
      /\ \A id \in D : F[id].id = id
      /\ \A id \in D : F[id].change # "none" => F[id] \in list
  BY DEF IsListOf
<1>2. \A x \in list : x.id \in D /\ x = F[x.id] BY DEF IsListOf
<1>3. ASSUME NEW t, t # "none" PROVE C!Listed(list, t) = {id \in D : F[id].change = t}
  <2>1. ASSUME NEW id \in C!Listed(list, t) PROVE id \in D /\ F[id].change = t
    <3>1. PICK x \in list : x.change = t /\ x.id = id BY DEF C!Listed
    <3>2. QED BY <1>2, <3>1
  <2>2. ASSUME NEW id \in D, F[id].change = t PROVE id \in C!Listed(list, t)
    <3>1. F[id] \in list /\ F[id].id = id BY <1>1, <1>3, <2>2
    <3>2. QED BY <2>2, <3>1 DEF C!Listed
  <2>3. QED BY <2>1, <2>2
<1>4. Cardinality(list) = Cardinality({x.id : x \in list})
  <2> DEFINE T == {x.id : x \in list}
             g == [i \in T |-> F[i]]
  <2>1. T \in SUBSET D BY <1>2
  <2>2. IsFiniteSet(T) BY <1>1, <2>1, FS_Subset
  <2>3. \A i \in T : F[i] \in list /\ F[i].id = i BY <1>1, <1>2
  <2>4. g \in [T -> list] BY <2>3
  <2>5. \A x \in list : x.id \in T /\ g[x.id] = x BY <1>2
  <2>6. \A i \in T : g[i] = F[i] OBVIOUS
  <2> HIDE DEF T, g
  <2>7. \A i, j \in T : g[i] = g[j] => i = j BY <2>3, <2>6
  <2>8. g \in Bijection(T, list) BY <2>4, <2>5, <2>7 DEF Bijection, Injection, Surjection, IsInjective
  <2>9. ExistsBijection(T, list) BY <2>8 DEF ExistsBijection
  <2>10. Cardinality(list) = Cardinality(T) BY <2>2, <2>9, FS_Bijection
  <2>11. QED BY <2>10 DEF T
<1>5. QED BY <1>3, <1>4

\* What Change says of an id.
LEMMA ChangesAreNamed ==
    ASSUME NEW b, NEW c, NEW id \in DOMAIN b \cup DOMAIN c, NEW fields
    PROVE  LET x == C!Change(b, c, id, fields)
           IN /\ x = "added" <=> id \in DOMAIN c \ DOMAIN b
              /\ x = "removed" <=> id \in DOMAIN b \ DOMAIN c
              /\ x = "changed" <=> id \in DOMAIN b \cap DOMAIN c /\ fields # {}
              /\ x \in {"added", "removed", "changed", "none"}
BY DEF C!Change

\* The list compares b with c: F says what happened to an id, fields what differs of it in both.
IsComparison(list, b, c, F, fields) ==
    /\ IsListOf(list, DOMAIN b \cup DOMAIN c, F)
    /\ \A id \in DOMAIN b \cup DOMAIN c : F[id].change = C!Change(b, c, id, fields[id])

\* What such a list tells.
Tells(list, b, c, fields) ==
    /\ C!Listed(list, "added") = DOMAIN c \ DOMAIN b
    /\ C!Listed(list, "removed") = DOMAIN b \ DOMAIN c
    /\ C!Listed(list, "changed") = {id \in DOMAIN b \cap DOMAIN c : fields[id] # {}}
    /\ Cardinality(list) = Cardinality({x.id : x \in list})
    /\ DOMAIN b = DOMAIN c /\ (\A id \in DOMAIN b : fields[id] = {}) => list = {}

LEMMA ComparisonsAreLists ==
    ASSUME NEW b, NEW c, NEW F, NEW fields, NEW list, IsComparison(list, b, c, F, fields)
    PROVE  Tells(list, b, c, fields)
<1> DEFINE D == DOMAIN b \cup DOMAIN c
<1>1. /\ \A t : t # "none" => C!Listed(list, t) = {id \in D : F[id].change = t}
      /\ Cardinality(list) = Cardinality({x.id : x \in list})
  BY ListsOfChanges DEF IsComparison
<1>2. ASSUME NEW id \in D
      PROVE  /\ F[id].change = "added" <=> id \in DOMAIN c \ DOMAIN b
             /\ F[id].change = "removed" <=> id \in DOMAIN b \ DOMAIN c
             /\ F[id].change = "changed" <=> id \in DOMAIN b \cap DOMAIN c /\ fields[id] # {}
             /\ F[id].change \in {"added", "removed", "changed", "none"}
  <2>1. F[id].change = C!Change(b, c, id, fields[id]) BY DEF IsComparison
  <2> DEFINE theFields == fields[id]
  <2> HIDE DEF theFields
  <2>2. /\ C!Change(b, c, id, theFields) = "added" <=> id \in DOMAIN c \ DOMAIN b
        /\ C!Change(b, c, id, theFields) = "removed" <=> id \in DOMAIN b \ DOMAIN c
        /\ C!Change(b, c, id, theFields) = "changed" <=> id \in DOMAIN b \cap DOMAIN c /\ theFields # {}
        /\ C!Change(b, c, id, theFields) \in {"added", "removed", "changed", "none"}
    BY ChangesAreNamed
  <2>3. QED BY <2>1, <2>2 DEF theFields
<1>3. C!Listed(list, "added") = DOMAIN c \ DOMAIN b BY <1>1, <1>2
<1>4. C!Listed(list, "removed") = DOMAIN b \ DOMAIN c BY <1>1, <1>2
<1>5. C!Listed(list, "changed") = {id \in DOMAIN b \cap DOMAIN c : fields[id] # {}} BY <1>1, <1>2
<1>6. ASSUME DOMAIN b = DOMAIN c, \A id \in DOMAIN b : fields[id] = {} PROVE list = {}
  <2>1. \A id \in D : F[id].change = "none" BY <1>2, <1>6
  <2>2. QED BY <2>1 DEF IsComparison, IsListOf
<1>7. QED BY <1>1, <1>3, <1>4, <1>5, <1>6 DEF Tells

\* When no field differs exactly where the two are equal, the list leaves nothing out.
LEMMA ComparisonsAreComplete ==
    ASSUME NEW b, NEW c, NEW F, NEW fields, NEW list, IsComparison(list, b, c, F, fields),
           \A id \in DOMAIN b \cap DOMAIN c : fields[id] = {} <=> b[id] = c[id]
    PROVE  C!Same(b, c, list) /\ (b = c => list = {})
<1>1. Tells(list, b, c, fields) BY ComparisonsAreLists
<1>2. \A id \in DOMAIN b \cap DOMAIN c : id \notin C!Listed(list, "changed") => b[id] = c[id]
  BY <1>1 DEF Tells
<1>3. C!Same(b, c, list) BY <1>1, <1>2 DEF Tells, C!Same
<1>4. b = c => list = {} BY <1>1 DEF Tells
<1>5. QED BY <1>3, <1>4

LEMMA ComparedAreSnapshots ==
    ASSUME ComparisonInv
    PROVE  IsSnapshot(baseline) /\ IsSnapshot(current)
BY ComparedAssumption DEF ComparisonInv

LEMMA EdgesAreCompared ==
    ASSUME ComparisonInv, NEW b, b = baseline.edges, NEW c, c = current.edges
    PROVE  \E F, fields :
              /\ IsComparison(C!EdgeChanges, b, c, F, fields)
              /\ \A id \in DOMAIN b \cap DOMAIN c : fields[id] = C!ChangedEdgeFields(b[id], c[id])
<1> DEFINE D == DOMAIN b \cup DOMAIN c
           F == [id \in D |-> C!EdgeChange(id)]
           fields == [id \in D |-> IF id \in DOMAIN b \cap DOMAIN c THEN C!ChangedEdgeFields(b[id], c[id]) ELSE {}]
<1>1. IsFiniteSet(D)
  <2>1. IsFiniteSet(DOMAIN b) /\ IsFiniteSet(DOMAIN c) BY ComparedAreSnapshots DEF IsSnapshot
  <2>2. QED BY <2>1, FS_Union
<1>2. \A id \in D : F[id].id = id /\ F[id].change = C!Change(b, c, id, fields[id]) BY DEF C!EdgeChange
<1>3. C!EdgeChanges = C!Real({C!EdgeChange(id) : id \in D}) BY DEF C!EdgeChanges
<1>4. \A id \in D : F[id] = C!EdgeChange(id) OBVIOUS
<1>5. \A id \in DOMAIN b \cap DOMAIN c : fields[id] = C!ChangedEdgeFields(b[id], c[id]) OBVIOUS
<1> HIDE DEF F, fields
<1>6. IsListOf(C!EdgeChanges, D, F)
  <2> HIDE DEF D
  <2>1. \A id \in D : F[id].change # "none" => F[id] \in C!EdgeChanges BY <1>3, <1>4 DEF C!Real
  <2>2. \A x \in C!EdgeChanges : \E id \in D : x = F[id] /\ x.change # "none" BY <1>3, <1>4 DEF C!Real
  <2>3. QED BY <1>1, <1>2, <2>1, <2>2 DEF IsListOf
<1>7. IsComparison(C!EdgeChanges, b, c, F, fields) BY <1>2, <1>6 DEF IsComparison
<1>8. QED BY <1>5, <1>7

LEMMA ClustersAreCompared ==
    ASSUME ComparisonInv, NEW b, b = baseline.clusters, NEW c, c = current.clusters
    PROVE  \E F, fields :
              /\ IsComparison(C!ClusterChanges, b, c, F, fields)
              /\ \A id \in DOMAIN b \cap DOMAIN c : fields[id] = C!ChangedClusterFields(b[id], c[id])
<1> DEFINE D == DOMAIN b \cup DOMAIN c
           F == [id \in D |-> C!ClusterChange(id)]
           fields == [id \in D |-> IF id \in DOMAIN b \cap DOMAIN c THEN C!ChangedClusterFields(b[id], c[id]) ELSE {}]
<1>1. IsFiniteSet(D)
  <2>1. IsFiniteSet(DOMAIN b) /\ IsFiniteSet(DOMAIN c) BY ComparedAreSnapshots DEF IsSnapshot
  <2>2. QED BY <2>1, FS_Union
<1>2. \A id \in D : F[id].id = id /\ F[id].change = C!Change(b, c, id, fields[id]) BY DEF C!ClusterChange
<1>3. C!ClusterChanges = C!Real({C!ClusterChange(id) : id \in D}) BY DEF C!ClusterChanges
<1>4. \A id \in D : F[id] = C!ClusterChange(id) OBVIOUS
<1>5. \A id \in DOMAIN b \cap DOMAIN c : fields[id] = C!ChangedClusterFields(b[id], c[id]) OBVIOUS
<1> HIDE DEF F, fields
<1>6. IsListOf(C!ClusterChanges, D, F)
  <2> HIDE DEF D
  <2>1. \A id \in D : F[id].change # "none" => F[id] \in C!ClusterChanges BY <1>3, <1>4 DEF C!Real
  <2>2. \A x \in C!ClusterChanges : \E id \in D : x = F[id] /\ x.change # "none" BY <1>3, <1>4 DEF C!Real
  <2>3. QED BY <1>1, <1>2, <2>1, <2>2 DEF IsListOf
<1>7. IsComparison(C!ClusterChanges, b, c, F, fields) BY <1>2, <1>6 DEF IsComparison
<1>8. QED BY <1>5, <1>7

LEMMA NodesAreCompared ==
    ASSUME ComparisonInv, NEW b, b = baseline.nodes, NEW c, c = current.nodes
    PROVE  \E F, fields :
              /\ IsComparison(C!NodeChanges, b, c, F, fields)
              /\ \A id \in DOMAIN b \cap DOMAIN c : fields[id] = C!ChangedNodeFields(b[id], c[id])
<1> DEFINE D == DOMAIN b \cup DOMAIN c
           F == [id \in D |-> C!NodeChange(id)]
           fields == [id \in D |-> IF id \in DOMAIN b \cap DOMAIN c THEN C!ChangedNodeFields(b[id], c[id]) ELSE {}]
<1>1. IsFiniteSet(D)
  <2>1. IsFiniteSet(DOMAIN b) /\ IsFiniteSet(DOMAIN c) BY ComparedAreSnapshots DEF IsSnapshot
  <2>2. QED BY <2>1, FS_Union
<1>2. \A id \in D : F[id].id = id /\ F[id].change = C!Change(b, c, id, fields[id]) BY DEF C!NodeChange
<1>3. C!NodeChanges = C!Real({C!NodeChange(id) : id \in D}) BY DEF C!NodeChanges
<1>4. \A id \in D : F[id] = C!NodeChange(id) OBVIOUS
<1>5. \A id \in DOMAIN b \cap DOMAIN c : fields[id] = C!ChangedNodeFields(b[id], c[id]) OBVIOUS
<1> HIDE DEF F, fields
<1>6. IsListOf(C!NodeChanges, D, F)
  <2> HIDE DEF D
  <2>1. \A id \in D : F[id].change # "none" => F[id] \in C!NodeChanges BY <1>3, <1>4 DEF C!Real
  <2>2. \A x \in C!NodeChanges : \E id \in D : x = F[id] /\ x.change # "none" BY <1>3, <1>4 DEF C!Real
  <2>3. QED BY <1>1, <1>2, <2>1, <2>2 DEF IsListOf
<1>7. IsComparison(C!NodeChanges, b, c, F, fields) BY <1>2, <1>6 DEF IsComparison
<1>8. QED BY <1>5, <1>7

\* No compared field differs exactly where the two objects are equal.
LEMMA EdgeFieldsTell ==
    ASSUME ComparisonInv, NEW id \in DOMAIN baseline.edges \cap DOMAIN current.edges
    PROVE  C!ChangedEdgeFields(baseline.edges[id], current.edges[id]) = {}
           <=> baseline.edges[id] = current.edges[id]
<1> DEFINE p == baseline.edges[id]
           q == current.edges[id]
<1>1. /\ p = [source |-> p.source, target |-> p.target, type |-> p.type,
              confidence |-> p.confidence, sourceField |-> p.sourceField]
      /\ q = [source |-> q.source, target |-> q.target, type |-> q.type,
              confidence |-> q.confidence, sourceField |-> q.sourceField]
  BY ComparedAreSnapshots DEF IsSnapshot
<1> HIDE DEF p, q
<1>2. C!ChangedEdgeFields(p, q) = {}
      <=> \A f \in {"source", "target", "type", "confidence", "sourceField"} : p[f] = q[f]
  BY DEF C!ChangedEdgeFields, C!Differing
<1>3. C!ChangedEdgeFields(p, q) = {} <=> p = q BY <1>1, <1>2
<1>4. QED BY <1>3 DEF p, q

LEMMA ClusterFieldsTell ==
    ASSUME ComparisonInv, NEW id \in DOMAIN baseline.clusters \cap DOMAIN current.clusters
    PROVE  C!ChangedClusterFields(baseline.clusters[id], current.clusters[id]) = {}
           <=> baseline.clusters[id] = current.clusters[id]
<1> DEFINE p == baseline.clusters[id]
           q == current.clusters[id]
<1>1. /\ p = [name |-> p.name, version |-> p.version, podWarning |-> p.podWarning]
      /\ q = [name |-> q.name, version |-> q.version, podWarning |-> q.podWarning]
  BY ComparedAreSnapshots DEF IsSnapshot
<1> HIDE DEF p, q
<1>2. C!ChangedClusterFields(p, q) = {} <=> \A f \in {"name", "version", "podWarning"} : p[f] = q[f]
  BY DEF C!ChangedClusterFields, C!Differing
<1>3. C!ChangedClusterFields(p, q) = {} <=> p = q BY <1>1, <1>2
<1>4. QED BY <1>3 DEF p, q

\* A field of a node differs exactly when what may be told of it does.
LEMMA NodeFieldsTell ==
    ASSUME ComparisonInv, NEW id \in DOMAIN baseline.nodes \cap DOMAIN current.nodes
    PROVE  C!ChangedNodeFields(baseline.nodes[id], current.nodes[id]) = {}
           <=> C!Told(baseline.nodes[id]) = C!Told(current.nodes[id])
<1> DEFINE p == baseline.nodes[id]
           q == current.nodes[id]
           Shape(n) == n = [kind |-> n.kind, name |-> n.name, status |-> n.status, labels |-> n.labels,
                            owners |-> n.owners, annotations |-> n.annotations, summary |-> n.summary]
           told(n) == [kind |-> n.kind, name |-> n.name, status |-> n.status, labels |-> n.labels,
                       owners |-> n.owners, annotations |-> n.annotations.keys,
                       summary |-> IF n.kind = "Secret" THEN n.summary.keys ELSE n.summary]
<1>1. Shape(p) /\ Shape(q) BY ComparedAreSnapshots DEF IsSnapshot
<1>2. p.kind = q.kind /\ p.name = q.name BY ComparedAssumption DEF ComparisonInv, SameNode
<1>3. ASSUME NEW n, Shape(n) PROVE C!Told(n) = told(n)
  <2> DEFINE e == [n EXCEPT !.annotations = n.annotations.keys]
             s == IF n.kind = "Secret" THEN n.summary.keys ELSE n.summary
  <2>1. e = [kind |-> n.kind, name |-> n.name, status |-> n.status, labels |-> n.labels,
             owners |-> n.owners, annotations |-> n.annotations.keys, summary |-> n.summary]
    BY <1>3
  <2>2. C!Told(n) = [e EXCEPT !.summary = s] BY <2>1 DEF C!Told
  <2> HIDE DEF e, s
  <2>3. [e EXCEPT !.summary = s]
          = [kind |-> n.kind, name |-> n.name, status |-> n.status, labels |-> n.labels,
             owners |-> n.owners, annotations |-> n.annotations.keys, summary |-> s]
    BY <2>1
  <2>4. QED BY <2>2, <2>3 DEF s
<1>4. C!Told(p) = told(p) /\ C!Told(q) = told(q) BY <1>1, <1>3
<1> HIDE DEF p, q
<1>5. C!ChangedNodeFields(p, q) = {}
      <=> /\ \A f \in {"status", "labels", "owners"} : p[f] = q[f]
          /\ p.annotations.keys = q.annotations.keys
          /\ C!SafeSummary(p) = C!SafeSummary(q)
  BY DEF C!ChangedNodeFields, C!Differing
<1>6. told(p) = told(q)
      <=> /\ p.status = q.status /\ p.labels = q.labels /\ p.owners = q.owners
          /\ p.annotations.keys = q.annotations.keys
          /\ C!SafeSummary(p) = C!SafeSummary(q)
  BY <1>2 DEF C!SafeSummary
<1>7. C!ChangedNodeFields(p, q) = {} <=> C!Told(p) = C!Told(q) BY <1>4, <1>5, <1>6
<1>8. QED BY <1>7 DEF p, q
----------------------------------------------------------------------------
(* The comparison's theorems *)

\* The comparison's Cardinality is the library's.
LEMMA SameCardinality == \A S : C!Cardinality(S) = Cardinality(S)
BY Zenon DEF C!Cardinality, Cardinality

LEMMA NothingLeftOut ==
    ASSUME ComparisonInv
    PROVE  C!NothingIsLeftOut
<1>1. /\ C!Same(baseline.edges, current.edges, C!EdgeChanges)
      /\ Cardinality(C!EdgeChanges) = Cardinality({x.id : x \in C!EdgeChanges})
      /\ baseline = current => C!EdgeChanges = {}
  <2> DEFINE b == baseline.edges
             c == current.edges
  <2>1. PICK F, fields : /\ IsComparison(C!EdgeChanges, b, c, F, fields)
                        /\ \A id \in DOMAIN b \cap DOMAIN c : fields[id] = C!ChangedEdgeFields(b[id], c[id])
    BY EdgesAreCompared
  <2>2. \A id \in DOMAIN b \cap DOMAIN c : fields[id] = {} <=> b[id] = c[id] BY <2>1, EdgeFieldsTell
  <2>3. baseline = current => b = c OBVIOUS
  <2> HIDE DEF b, c
  <2>4. C!Same(b, c, C!EdgeChanges) /\ (b = c => C!EdgeChanges = {}) BY <2>1, <2>2, ComparisonsAreComplete
  <2>5. Tells(C!EdgeChanges, b, c, fields) BY <2>1, ComparisonsAreLists
  <2>6. QED BY <2>3, <2>4, <2>5 DEF Tells, b, c
<1>2. /\ C!Same(baseline.clusters, current.clusters, C!ClusterChanges)
      /\ Cardinality(C!ClusterChanges) = Cardinality({x.id : x \in C!ClusterChanges})
      /\ baseline = current => C!ClusterChanges = {}
  <2> DEFINE b == baseline.clusters
             c == current.clusters
  <2>1. PICK F, fields : /\ IsComparison(C!ClusterChanges, b, c, F, fields)
                        /\ \A id \in DOMAIN b \cap DOMAIN c : fields[id] = C!ChangedClusterFields(b[id], c[id])
    BY ClustersAreCompared
  <2>2. \A id \in DOMAIN b \cap DOMAIN c : fields[id] = {} <=> b[id] = c[id] BY <2>1, ClusterFieldsTell
  <2>3. baseline = current => b = c OBVIOUS
  <2> HIDE DEF b, c
  <2>4. C!Same(b, c, C!ClusterChanges) /\ (b = c => C!ClusterChanges = {}) BY <2>1, <2>2, ComparisonsAreComplete
  <2>5. Tells(C!ClusterChanges, b, c, fields) BY <2>1, ComparisonsAreLists
  <2>6. QED BY <2>3, <2>4, <2>5 DEF Tells, b, c
<1>3. /\ Cardinality(C!NodeChanges) = Cardinality({x.id : x \in C!NodeChanges})
      /\ baseline = current => C!NodeChanges = {}
  <2> DEFINE b == baseline.nodes
             c == current.nodes
  <2>1. PICK F, fields : /\ IsComparison(C!NodeChanges, b, c, F, fields)
                        /\ \A id \in DOMAIN b \cap DOMAIN c : fields[id] = C!ChangedNodeFields(b[id], c[id])
    BY NodesAreCompared
  <2>2. baseline = current => b = c /\ \A id \in DOMAIN b : fields[id] = {} BY <2>1, NodeFieldsTell
  <2> HIDE DEF b, c
  <2>3. Tells(C!NodeChanges, b, c, fields) BY <2>1, ComparisonsAreLists
  <2>4. QED BY <2>2, <2>3 DEF Tells
<1>4. QED BY <1>1, <1>2, <1>3, SameCardinality DEF C!NothingIsLeftOut

LEMMA EndsNamed ==
    ASSUME ComparisonInv
    PROVE  C!EndsAreNamed
<1> SUFFICES ASSUME NEW x \in C!EdgeChanges PROVE "Unknown" \notin {x.source.kind, x.target.kind}
  BY DEF C!EndsAreNamed
<1>1. PICK id \in DOMAIN baseline.edges \cup DOMAIN current.edges : x = C!EdgeChange(id)
  BY DEF C!EdgeChanges, C!Real
<1> DEFINE s == IF id \in DOMAIN current.edges THEN current ELSE baseline
           e == s.edges[id]
<1>2. IsSnapshot(s) /\ id \in DOMAIN s.edges BY <1>1, ComparedAreSnapshots
<1>3. x.source = C!Identity(e.source, s.nodes) /\ x.target = C!Identity(e.target, s.nodes)
  BY <1>1 DEF C!EdgeChange, C!EndsOf
<1> HIDE DEF s
<1>4. e.source \in DOMAIN s.nodes /\ e.target \in DOMAIN s.nodes BY <1>2 DEF IsSnapshot
<1>5. s.nodes[e.source].kind # "Unknown" /\ s.nodes[e.target].kind # "Unknown" BY <1>2, <1>4 DEF IsSnapshot
<1>6. QED BY <1>3, <1>4, <1>5 DEF C!Identity

LEMMA ForgottenFilters == C!ForgottenFiltersHideNothing
<1> SUFFICES ASSUME C!Settled
             PROVE  /\ selected \subseteq C!RelationTypes
                    /\ C!MatchingEdges # {} => C!VisibleEdges # {}
  BY DEF C!ForgottenFiltersHideNothing
<1>1. selected \subseteq C!RelationTypes BY DEF C!Settled, C!RetainedSelection
<1>2. CASE selected = {} BY <1>1, <1>2 DEF C!VisibleEdges
<1>3. CASE selected # {}
  <2>1. PICK x \in C!MatchingEdges : x.relation \in selected BY <1>1, <1>3 DEF C!RelationTypes
  <2>2. QED BY <1>1, <2>1 DEF C!VisibleEdges
<1>4. QED BY <1>2, <1>3

\* A node is listed as changed exactly when something that may be told of it changed: nobody
\* learns that a Secret's or an annotation's value did (compareSnapshots.ts, safeSummary).
LEMMA OnlySafeTold == ComparisonInv => C!OnlySafeFieldsAreCompared
<1> SUFFICES ASSUME ComparisonInv,
                    NEW id \in DOMAIN baseline.nodes \cap DOMAIN current.nodes
             PROVE  id \in C!Listed(C!NodeChanges, "changed")
                    <=> C!Told(baseline.nodes[id]) # C!Told(current.nodes[id])
  BY DEF C!OnlySafeFieldsAreCompared
<1> DEFINE b == baseline.nodes
           c == current.nodes
<1>1. PICK F, fields : /\ IsComparison(C!NodeChanges, b, c, F, fields)
                      /\ \A i \in DOMAIN b \cap DOMAIN c : fields[i] = C!ChangedNodeFields(b[i], c[i])
  BY NodesAreCompared
<1>2. fields[id] = {} <=> C!Told(b[id]) = C!Told(c[id]) BY <1>1, NodeFieldsTell
<1> HIDE DEF b, c
<1>3. Tells(C!NodeChanges, b, c, fields) BY <1>1, ComparisonsAreLists
<1>4. id \in DOMAIN b \cap DOMAIN c BY DEF b, c
<1>5. id \in C!Listed(C!NodeChanges, "changed") <=> fields[id] # {} BY <1>3, <1>4 DEF Tells
<1>6. QED BY <1>2, <1>5 DEF b, c

\* The lists of changes leave nothing out, name both ends of every relation, and no filter chosen
\* for another comparison hides what there is to show; and no value is told that must not be
\* (compareSnapshots.ts).
THEOREM ComparisonsTellAll == ShellSpec => []ChangesAreComplete
<1>1. (part = "comparison" => ComparisonInv) => ChangesAreComplete
  BY NothingLeftOut, EndsNamed, ForgottenFilters, OnlySafeTold DEF ChangesAreComplete
<1>2. QED BY <1>1, ComparisonInductive, PTL

\* What is exported within the limits of an import, on the bytes of the file, the number of
\* changes and relation types and the length of texts, is accepted when it is imported, whatever
\* filters were left from another scope (exportSnapshotDiff.ts, importSnapshotDiff.ts).
THEOREM ReportsAreAccepted == ShellSpec => []ReportsImport
<1>1. ComparisonInv => C!ReportsImport
  <2> SUFFICES ASSUME ComparisonInv, C!WithinLimits(C!Report)
               PROVE  C!Accepted(C!Report)
    BY DEF C!ReportsImport
  <2> DEFINE r == C!Report
  <2>1. /\ r.scope = scope /\ r.changeType = changeFilter /\ r.items = C!Visible
        /\ r.relationTypes = IF scope = "relations" THEN selected ELSE {}
        /\ r.counts.exported = C!Cardinality(C!Visible)
    BY DEF C!Report, C!ReportOf
  <2>2. \A x \in C!NodeChanges \cup C!EdgeChanges \cup C!ClusterChanges : x.change \in C!Types
    <3>1. \A b, c, id, fields : C!Change(b, c, id, fields) \in {"added", "removed", "changed", "none"}
      BY DEF C!Change
    <3>2. \A x \in C!NodeChanges : x.change # "none" /\ \E b, c, id, fields : x.change = C!Change(b, c, id, fields)
      BY DEF C!NodeChanges, C!Real, C!NodeChange
    <3>3. \A x \in C!EdgeChanges : x.change # "none" /\ \E b, c, id, fields : x.change = C!Change(b, c, id, fields)
      BY DEF C!EdgeChanges, C!Real, C!EdgeChange
    <3>4. \A x \in C!ClusterChanges : x.change # "none" /\ \E b, c, id, fields : x.change = C!Change(b, c, id, fields)
      BY DEF C!ClusterChanges, C!Real, C!ClusterChange
    <3>5. QED BY <3>1, <3>2, <3>3, <3>4 DEF C!Types
  <2>3. ASSUME NEW x \in C!EdgeChanges PROVE x.confidence \in {"observed", "inferred"}
    <3>1. PICK id \in DOMAIN baseline.edges \cup DOMAIN current.edges : x = C!EdgeChange(id)
      BY DEF C!EdgeChanges, C!Real
    <3>2. x.confidence = (IF id \in DOMAIN current.edges THEN current ELSE baseline).edges[id].confidence
      BY <3>1 DEF C!EdgeChange
    <3>3. QED BY <3>1, <3>2, ComparedAreSnapshots DEF IsSnapshot
  <2>4. ASSUME NEW x \in C!ClusterChanges
        PROVE  /\ x.change \in {"added", "changed"} => x.after # {}
               /\ x.change \in {"removed", "changed"} => x.before # {}
    <3>1. PICK id \in DOMAIN baseline.clusters \cup DOMAIN current.clusters : x = C!ClusterChange(id)
      BY DEF C!ClusterChanges, C!Real
    <3>2. /\ x.before = {baseline.clusters[i] : i \in {id} \cap DOMAIN baseline.clusters}
          /\ x.after = {current.clusters[i] : i \in {id} \cap DOMAIN current.clusters}
          /\ \E fields : x.change = C!Change(baseline.clusters, current.clusters, id, fields)
      BY <3>1 DEF C!ClusterChange
    <3>3. /\ x.change \in {"added", "changed"} => id \in DOMAIN current.clusters
          /\ x.change \in {"removed", "changed"} => id \in DOMAIN baseline.clusters
      BY <3>1, <3>2 DEF C!Change
    <3>4. QED BY <3>2, <3>3
  <2>5. scope \in {"resources", "relations", "clusters"} BY DEF ComparisonInv, C!Scopes
  <2>6. \A x \in C!Visible : C!ItemAccepted(scope, x)
    <3>1. CASE scope = "resources"
      BY <2>2, <3>1 DEF C!Visible, C!ItemAccepted
    <3>2. CASE scope = "relations"
      BY <2>2, <2>3, <3>2 DEF C!Visible, C!VisibleEdges, C!MatchingEdges, C!ItemAccepted
    <3>3. CASE scope = "clusters"
      BY <2>2, <2>4, <3>3 DEF C!Visible, C!ItemAccepted
    <3>4. QED BY <2>5, <3>1, <3>2, <3>3
  <2>7. C!WithinLimits(r) BY DEF r
  <2> HIDE DEF r
  <2>8. C!Accepted(r) BY <2>1, <2>6, <2>7 DEF C!Accepted, ComparisonInv
  <2>9. QED BY <2>8 DEF r
<1>2. (part = "comparison" => ComparisonInv) => ReportsImport BY <1>1 DEF ReportsImport
<1>3. QED BY <1>2, ComparisonInductive, PTL
=============================================================================
