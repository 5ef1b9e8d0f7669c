---------------------------- MODULE DesktopProofs ----------------------------
(***************************************************************************)
(* Theorems about MCDesktop: the SSH sessions of the desktop and the list  *)
(* of them in the browser, for any sessions and any number of commands     *)
(* under way.                                                              *)
(***************************************************************************)
EXTENDS MCDesktop, SequenceTheorems, FiniteSetTheorems, TLAPS

----------------------------------------------------------------------------
(* The inductive invariant *)

Ops == Presses \cup {"list", "runtime", "import", "delete", "bulk", "delete-key"}
Replacing == {"list", "delete", "bulk"}
Upserting == {"save", "import", "import-key", "check", "delete-key"}

Runtimes == {"stopped", "active", "unhealthy", "lost"}

\* The desktop's state is well formed and calls no session active but that of its tunnel.
DesktopOK(d) ==
    /\ d = [sessions |-> d.sessions, selected |-> d.selected, profile |-> d.profile, child |-> d.child,
            tracked |-> d.tracked, secrets |-> d.secrets, used |-> d.used]
    /\ DOMAIN d.sessions \subseteq Ids
    /\ d.sessions \in [DOMAIN d.sessions -> [cred : BOOLEAN, runtime : Runtimes]]
    /\ \A i \in DOMAIN d.sessions : d.sessions[i].runtime = "active" => d.profile = i

Marked(d) == {d.selected} \cap DOMAIN d.sessions

\* What an answer makes of the ids in the list and of the marks.
NewList(c, r, list) ==
    IF ~r.ok THEN list
    ELSE IF c.op \in Replacing THEN DOMAIN r.sessions
    ELSE IF c.op \in Upserting THEN list \cup {c.id}
    ELSE list

NewMarks(c, r, list, marks) ==
    IF ~r.ok THEN marks
    ELSE IF c.op \in Replacing THEN Marked(r)
    ELSE IF c.op \in Upserting THEN (marks \ {c.id}) \cup ({r.selected} \cap {c.id})
    ELSE IF c.op = "select" THEN {c.id}
    ELSE IF c.op = "start" THEN {c.id} \cap list
    ELSE marks

CallsOK ==
    /\ Len(calls) \in Nat /\ calls = [k \in 1..Len(calls) |-> calls[k]]
    /\ \A k \in DOMAIN calls :
         /\ calls[k] = [op |-> calls[k].op, id |-> calls[k].id, prev |-> calls[k].prev,
                        rest |-> calls[k].rest, reply |-> calls[k].reply]
         /\ calls[k].op \in Ops /\ calls[k].id \in Ids \cup {NoId}
         /\ calls[k].rest \in Seq(Ids \cup {NoId})
         /\ calls[k].reply # <<>> =>
              /\ DOMAIN calls[k].reply[1].sessions \subseteq Ids
              /\ \A j \in 1..(k - 1) : calls[j].reply # <<>>

Reply(k) == calls[k].reply[1]

\* The list and the marks that the answer of call k will meet.
ListBefore(k) == IF k = 1 THEN DOMAIN shown ELSE DOMAIN Reply(k - 1).sessions
MarksBefore(k) == IF k = 1 THEN flagged ELSE Marked(Reply(k - 1))

\* Each answer makes what the desktop had then of what the one before made.
AnswersFollow ==
    \A k \in DOMAIN calls : calls[k].reply # <<>> =>
        /\ NewList(calls[k], Reply(k), ListBefore(k)) = DOMAIN Reply(k).sessions
        /\ NewMarks(calls[k], Reply(k), ListBefore(k), MarksBefore(k)) = Marked(Reply(k))

\* The command that is served next meets what the desktop has, unless it asks for the list.
LatestIsTrue ==
    \A k \in 1..(Len(calls) + 1) :
        /\ k = 1 \/ calls[k - 1].reply # <<>>
        /\ k \in DOMAIN calls => calls[k].reply = <<>> /\ calls[k].op # "list"
        => ListBefore(k) = DOMAIN sessions /\ MarksBefore(k) = {selected} \cap DOMAIN sessions

ShownOK == DOMAIN shown \subseteq Ids /\ flagged \subseteq DOMAIN shown

BulkOK == picked \subseteq Ids /\ (bulkConfirm => picked \subseteq announced)

SessionsInv == DesktopOK(Desktop) /\ CallsOK /\ AnswersFollow /\ LatestIsTrue /\ ShownOK /\ BulkOK
----------------------------------------------------------------------------
(* What the commands do to the desktop *)

SessionRecord == [cred : BOOLEAN, runtime : Runtimes]

\* Neither the sessions there are nor the one that is selected changes.
SameList(d, e) == DOMAIN e.sessions = DOMAIN d.sessions /\ e.selected = d.selected

LEMMA RebuiltIsOK ==
    ASSUME NEW e, NEW S, NEW p, e.sessions = S, e.profile = p,
           e = [sessions |-> S, selected |-> e.selected, profile |-> p, child |-> e.child,
                tracked |-> e.tracked, secrets |-> e.secrets, used |-> e.used],
           DOMAIN S \subseteq Ids, S \in [DOMAIN S -> SessionRecord],
           \A i \in DOMAIN S : S[i].runtime = "active" => p = i
    PROVE  DesktopOK(e)
BY DEF DesktopOK, SessionRecord

IsDesktop(d) ==
    d = [sessions |-> d.sessions, selected |-> d.selected, profile |-> d.profile, child |-> d.child,
         tracked |-> d.tracked, secrets |-> d.secrets, used |-> d.used]

LEMMA WithoutTunnel ==
    ASSUME NEW d, IsDesktop(d)
    PROVE  NoTunnel(d) = [sessions |-> d.sessions, selected |-> d.selected, profile |-> NoId,
                          child |-> "none", tracked |-> {}, secrets |-> d.secrets, used |-> d.used]
<1> DEFINE e == [d EXCEPT !.profile = NoId]
           f == [e EXCEPT !.child = "none"]
<1>1. NoTunnel(d) = [f EXCEPT !.tracked = {}] BY DEF NoTunnel
<1>2. e = [sessions |-> d.sessions, selected |-> d.selected, profile |-> NoId, child |-> d.child,
           tracked |-> d.tracked, secrets |-> d.secrets, used |-> d.used]
  BY DEF IsDesktop
<1> HIDE DEF e
<1>3. f = [sessions |-> d.sessions, selected |-> d.selected, profile |-> NoId, child |-> "none",
           tracked |-> d.tracked, secrets |-> d.secrets, used |-> d.used]
  BY <1>2
<1> HIDE DEF f
<1>4. QED BY <1>1, <1>3

LEMMA MarkedIsOK ==
    ASSUME NEW d, DesktopOK(d), NEW i, NEW r \in Runtimes, r = "active" => d.profile = i
    PROVE  DesktopOK(Mark(d, i, r)) /\ SameList(d, Mark(d, i, r)) /\ Mark(d, i, r).profile = d.profile
<1>1. CASE ~Has(d, i) BY <1>1 DEF Mark, SameList
<1>2. CASE Has(d, i)
  <2> DEFINE S == [d.sessions EXCEPT ![i] = [cred |-> d.sessions[i].cred, runtime |-> r]]
             e == [sessions |-> S, selected |-> d.selected, profile |-> d.profile, child |-> d.child,
                   tracked |-> d.tracked, secrets |-> d.secrets, used |-> d.used]
  <2>1. i \in DOMAIN d.sessions /\ d.sessions[i] \in SessionRecord
    BY <1>2 DEF Has, DesktopOK, SessionRecord
  <2>2. [d.sessions[i] EXCEPT !.runtime = r] = [cred |-> d.sessions[i].cred, runtime |-> r]
    BY <2>1 DEF SessionRecord
  <2>3. Mark(d, i, r) = [d EXCEPT !.sessions[i].runtime = r] BY <1>2 DEF Mark
  <2>4. Mark(d, i, r) = e
    <3>1. [d EXCEPT !.sessions[i].runtime = r] = [d EXCEPT !.sessions = [d.sessions EXCEPT ![i] = [d.sessions[i] EXCEPT !.runtime = r]]]
      OBVIOUS
    <3>2. [d EXCEPT !.sessions[i].runtime = r] = [d EXCEPT !.sessions = S] BY <2>2, <3>1
    <3>3. [d EXCEPT !.sessions = S] = e BY DEF DesktopOK
    <3>4. QED BY <2>3, <3>2, <3>3
  <2>5. DOMAIN S = DOMAIN d.sessions /\ S \in [DOMAIN S -> SessionRecord]
    BY <2>1 DEF DesktopOK, SessionRecord
  <2>6. \A j \in DOMAIN S : S[j].runtime = "active" => d.profile = j
    BY <2>1, <2>5 DEF DesktopOK
  <2>7. DesktopOK(e) BY <2>5, <2>6, RebuiltIsOK DEF DesktopOK
  <2>8. QED BY <2>4, <2>5, <2>7 DEF SameList
<1>3. QED BY <1>1, <1>2

\* The tunnel is given up and its session called something else than active.
LEMMA GivenUpIsOK ==
    ASSUME NEW d, DesktopOK(d), NEW r \in Runtimes \ {"active"}
    PROVE  LET m == Mark(NoTunnel(d), d.profile, r)
           IN DesktopOK(m) /\ SameList(d, m)
<1> DEFINE e == NoTunnel(d)
           i == d.profile
           m == Mark(e, i, r)
<1> SUFFICES DesktopOK(m) /\ SameList(d, m)
  OBVIOUS
<1>1. e = [sessions |-> d.sessions, selected |-> d.selected, profile |-> NoId, child |-> "none",
           tracked |-> {}, secrets |-> d.secrets, used |-> d.used]
  BY WithoutTunnel DEF DesktopOK, IsDesktop
<1>3. DOMAIN d.sessions \subseteq Ids /\ d.sessions \in [DOMAIN d.sessions -> SessionRecord]
      /\ \A j \in DOMAIN d.sessions : d.sessions[j].runtime = "active" => j = i
  BY DEF DesktopOK, SessionRecord
<1> HIDE DEF i
<1>4. CASE i \notin DOMAIN d.sessions
  <2>1. m = e BY <1>1, <1>4 DEF Mark, Has
  <2>2. \A j \in DOMAIN d.sessions : d.sessions[j].runtime # "active" BY <1>3, <1>4
  <2>3. DesktopOK(e) BY <1>1, <1>3, <2>2, RebuiltIsOK
  <2>4. QED BY <1>1, <2>1, <2>3 DEF SameList
<1>5. CASE i \in DOMAIN d.sessions
  <2> DEFINE S == [d.sessions EXCEPT ![i] = [cred |-> d.sessions[i].cred, runtime |-> r]]
             f == [sessions |-> S, selected |-> d.selected, profile |-> NoId, child |-> "none",
                   tracked |-> {}, secrets |-> d.secrets, used |-> d.used]
  <2>1. d.sessions[i] \in SessionRecord BY <1>3, <1>5
  <2>2. [d.sessions[i] EXCEPT !.runtime = r] = [cred |-> d.sessions[i].cred, runtime |-> r]
    BY <2>1 DEF SessionRecord
  <2>3. m = f
    <3>1. Mark(e, i, r) = [e EXCEPT !.sessions[i].runtime = r] BY <1>1, <1>5 DEF Mark, Has
    <3>2. [e EXCEPT !.sessions[i].runtime = r]
            = [e EXCEPT !.sessions = [e.sessions EXCEPT ![i] = [e.sessions[i] EXCEPT !.runtime = r]]]
      OBVIOUS
    <3>3. e.sessions = d.sessions BY <1>1
    <3>4. m = [e EXCEPT !.sessions = S] BY <2>2, <3>1, <3>2, <3>3
    <3> HIDE DEF S
    <3>5. [e EXCEPT !.sessions = S] = f
      <4> HIDE DEF e
      <4>1. QED BY <1>1
    <3>6. QED BY <3>4, <3>5
  <2>4. DOMAIN S = DOMAIN d.sessions /\ S \in [DOMAIN S -> SessionRecord]
    <3>1. r \in Runtimes OBVIOUS
    <3>2. S[i] \in SessionRecord BY <1>3, <1>5, <2>1, <3>1 DEF SessionRecord
    <3>3. \A j \in DOMAIN d.sessions : S[j] \in SessionRecord BY <1>3, <3>2
    <3>4. QED BY <1>3, <3>3
  <2>5. \A j \in DOMAIN S : S[j].runtime # "active"
    BY <1>3, <1>5, <2>4
  <2>6. DesktopOK(f) BY <1>3, <2>4, <2>5, RebuiltIsOK
  <2>7. QED BY <2>3, <2>4, <2>6 DEF SameList
<1>6. QED BY <1>4, <1>5

LEMMA StoppedIsOK ==
    ASSUME NEW d, DesktopOK(d)
    PROVE  DesktopOK(Stopped(d)) /\ SameList(d, Stopped(d))
<1>1. "stopped" \in Runtimes \ {"active"} BY DEF Runtimes
<1>2. QED BY <1>1, GivenUpIsOK DEF Stopped

LEMMA StoppedIfActiveIsOK ==
    ASSUME NEW d, DesktopOK(d), NEW i
    PROVE  DesktopOK(StoppedIfActive(d, i)) /\ SameList(d, StoppedIfActive(d, i))
BY StoppedIsOK DEF StoppedIfActive, SameList

\* The outcome of a command: what it leaves is well formed, and the answer that shows it makes
\* of the ids and marks that were there those that are there now.
Follows(d, op, i, result) ==
    /\ DesktopOK(result.d) /\ result.ok \in BOOLEAN
    /\ \A c, r : /\ c.op = op /\ c.id = i /\ r.ok = result.ok
                /\ r.sessions = result.d.sessions /\ r.selected = result.d.selected
                => /\ op # "list" => NewList(c, r, DOMAIN d.sessions) = DOMAIN r.sessions
                   /\ op # "list" => NewMarks(c, r, DOMAIN d.sessions, Marked(d)) = Marked(r)
                   /\ op = "list" => NewList(c, r, {}) = DOMAIN r.sessions /\ r.ok

\* The session of a command is in the list, and the list and the selection are as they were.
LEMMA SameListFollows ==
    ASSUME NEW d, NEW op \in Ops, NEW i, NEW result, DesktopOK(result.d), SameList(d, result.d),
           \/ result = Fail(result.d) /\ op # "list"
           \/ /\ result = Done(result.d)
              /\ op \in Upserting => i \in DOMAIN d.sessions
              /\ op = "select" => i \in DOMAIN d.sessions /\ d.selected = i
              /\ op = "start" => d.selected = i
    PROVE  Follows(d, op, i, result)
<1>0. /\ \A e : Fail(e).ok = FALSE /\ Done(e).ok = TRUE
      /\ op = "list" => result.ok = TRUE
  BY DEF Fail, Done
<1>1. result.ok = TRUE \/ result.ok = FALSE BY <1>0
<1>2. result.ok \in BOOLEAN BY <1>1
<1> SUFFICES ASSUME NEW c, NEW r, c.op = op, c.id = i, r.ok = result.ok,
                    r.sessions = result.d.sessions, r.selected = result.d.selected
             PROVE  /\ op # "list" => NewList(c, r, DOMAIN d.sessions) = DOMAIN r.sessions
                    /\ op # "list" => NewMarks(c, r, DOMAIN d.sessions, Marked(d)) = Marked(r)
                    /\ op = "list" => NewList(c, r, {}) = DOMAIN r.sessions /\ r.ok
  BY <1>2 DEF Follows
<1>3. DOMAIN r.sessions = DOMAIN d.sessions /\ r.selected = d.selected /\ Marked(r) = Marked(d)
  BY DEF SameList, Marked
<1>4. CASE result = Fail(result.d) /\ op # "list"
  BY <1>0, <1>3, <1>4 DEF NewList, NewMarks
<1>5. CASE result = Done(result.d) /\ op \in Upserting
  BY <1>0, <1>3, <1>5 DEF NewList, NewMarks, Marked, Upserting, Replacing
<1>6. CASE result = Done(result.d) /\ op \notin Upserting
  BY <1>0, <1>3, <1>6 DEF NewList, NewMarks, Marked, Replacing
<1>7. QED BY <1>4, <1>5, <1>6

LEMMA FailsFollow ==
    ASSUME NEW d, NEW op \in Ops \ {"list"}, NEW i, NEW e, DesktopOK(e), SameList(d, e)
    PROVE  Follows(d, op, i, Fail(e))
<1>1. Fail(e).d = e /\ Fail(e) = Fail(Fail(e).d) BY DEF Fail
<1>2. op \in Ops /\ op # "list" OBVIOUS
<1> HIDE DEF Fail
<1>3. QED BY <1>1, <1>2, SameListFollows

LEMMA DoneFollows ==
    ASSUME NEW d, NEW op \in Ops, NEW i, NEW e, DesktopOK(e), SameList(d, e),
           op \in Upserting => i \in DOMAIN d.sessions,
           op \notin {"select", "start"}
    PROVE  Follows(d, op, i, Done(e))
<1>1. Done(e).d = e /\ Done(e) = Done(Done(e).d) BY DEF Done
<1>2. QED BY <1>1, SameListFollows

LEMMA SaveFollows ==
    ASSUME NEW d, DesktopOK(d), NEW i \in Ids, NEW fails \in BOOLEAN, NEW op \in {"save", "import"}
    PROVE  Follows(d, op, i, Save(d, i, fails))
<1> DEFINE e == StoppedIfActive(d, i)
           s == [cred |-> i \in d.secrets /\ ~fails, runtime |-> "stopped"]
           S == [j \in DOMAIN e.sessions \cup {i} |-> IF j = i THEN s ELSE e.sessions[j]]
           f == [e EXCEPT !.sessions = S]
           g == [f EXCEPT !.used = f.used \cup {i}]
<1>1. DesktopOK(e) /\ SameList(d, e) BY StoppedIfActiveIsOK
<1>2. Save(d, i, fails) = Done(g) BY DEF Save, Put
<1>3. s \in SessionRecord /\ s.runtime = "stopped"
  <2>1. (i \in d.secrets /\ ~fails) \in BOOLEAN OBVIOUS
  <2>2. "stopped" \in Runtimes BY DEF Runtimes
  <2>3. QED BY <2>1, <2>2 DEF SessionRecord
<1> HIDE DEF e, s
<1>4. DOMAIN S = DOMAIN d.sessions \cup {i} /\ DOMAIN S \subseteq Ids
      /\ S \in [DOMAIN S -> SessionRecord]
      /\ \A j \in DOMAIN S : S[j].runtime = "active" => e.profile = j
  BY <1>1, <1>3 DEF DesktopOK, SameList, SessionRecord
<1> HIDE DEF S
<1>5. f = [sessions |-> S, selected |-> e.selected, profile |-> e.profile, child |-> e.child,
           tracked |-> e.tracked, secrets |-> e.secrets, used |-> e.used]
  BY <1>1 DEF DesktopOK
<1> HIDE DEF f
<1>6. g = [sessions |-> S, selected |-> e.selected, profile |-> e.profile, child |-> e.child,
           tracked |-> e.tracked, secrets |-> e.secrets, used |-> f.used \cup {i}]
  BY <1>5
<1>7. DesktopOK(g) /\ g.sessions = S /\ g.selected = d.selected
  <2>1. DesktopOK(g) BY <1>4, <1>6, RebuiltIsOK
  <2>2. QED BY <1>1, <1>6, <2>1 DEF SameList
<1> HIDE DEF g
<1>8. Done(g).d = g /\ Done(g).ok = TRUE BY DEF Done
<1>9. ASSUME NEW c, NEW r, c.op = op, c.id = i, r.ok = TRUE, r.sessions = g.sessions, r.selected = g.selected
      PROVE  /\ NewList(c, r, DOMAIN d.sessions) = DOMAIN r.sessions
             /\ NewMarks(c, r, DOMAIN d.sessions, Marked(d)) = Marked(r)
  BY <1>4, <1>7, <1>9 DEF NewList, NewMarks, Marked, Replacing, Upserting
<1>10. QED BY <1>2, <1>7, <1>8, <1>9 DEF Follows

LEMMA SelectFollows ==
    ASSUME NEW d, DesktopOK(d), NEW i
    PROVE  Follows(d, "select", i, Select(d, i))
<1>1. CASE ~Has(d, i)
  <2>1. Select(d, i) = Fail(d) BY <1>1 DEF Select
  <2>2. "select" \in Ops \ {"list"} BY DEF Ops, Presses
  <2>3. QED BY <2>1, <2>2, FailsFollow DEF SameList
<1>2. CASE Has(d, i)
  <2> DEFINE R(j) == IF j = i /\ d.profile = i THEN "active" ELSE "stopped"
             S == [j \in DOMAIN d.sessions |-> [d.sessions[j] EXCEPT !.runtime = R(j)]]
             f == [d EXCEPT !.selected = i]
             g == [f EXCEPT !.sessions = S]
  <2>1. Select(d, i) = Done(g) BY <1>2 DEF Select
  <2>2. \A j \in DOMAIN d.sessions : /\ S[j] \in SessionRecord /\ S[j].runtime = R(j)
    <3> SUFFICES ASSUME NEW j \in DOMAIN d.sessions PROVE S[j] \in SessionRecord /\ S[j].runtime = R(j)
      OBVIOUS
    <3>1. d.sessions[j] \in SessionRecord BY DEF DesktopOK, SessionRecord
    <3>2. R(j) \in Runtimes BY DEF Runtimes
    <3> HIDE DEF R
    <3>3. QED BY <3>1, <3>2 DEF SessionRecord
  <2>3. DOMAIN S = DOMAIN d.sessions /\ S \in [DOMAIN S -> SessionRecord]
        /\ DOMAIN S \subseteq Ids /\ i \in DOMAIN d.sessions
        /\ \A j \in DOMAIN S : S[j].runtime = "active" => d.profile = j
    BY <1>2, <2>2 DEF DesktopOK, Has
  <2> HIDE DEF S
  <2>4. f = [sessions |-> d.sessions, selected |-> i, profile |-> d.profile, child |-> d.child,
             tracked |-> d.tracked, secrets |-> d.secrets, used |-> d.used]
    BY DEF DesktopOK
  <2> HIDE DEF f
  <2>5. g = [sessions |-> S, selected |-> i, profile |-> d.profile, child |-> d.child,
             tracked |-> d.tracked, secrets |-> d.secrets, used |-> d.used]
    BY <2>4
  <2>6. DesktopOK(g) /\ g.sessions = S /\ g.selected = i BY <2>3, <2>5, RebuiltIsOK
  <2> HIDE DEF g
  <2>7. Done(g).d = g /\ Done(g).ok = TRUE BY DEF Done
  <2>8. ASSUME NEW c, NEW r, c.op = "select", c.id = i, r.ok = TRUE, r.sessions = g.sessions, r.selected = g.selected
        PROVE  /\ NewList(c, r, DOMAIN d.sessions) = DOMAIN r.sessions
               /\ NewMarks(c, r, DOMAIN d.sessions, Marked(d)) = Marked(r)
    BY <2>3, <2>6, <2>8 DEF NewList, NewMarks, Marked, Replacing, Upserting
  <2>9. QED BY <2>1, <2>6, <2>7, <2>8 DEF Follows
<1>3. QED BY <1>1, <1>2

LEMMA DeleteFollows ==
    ASSUME NEW d, DesktopOK(d), NEW i, NEW fails \in BOOLEAN, NEW op \in {"delete", "bulk"}
    PROVE  Follows(d, op, i, Delete(d, i, fails))
<1> DEFINE e == StoppedIfActive(d, i)
<1>1. DesktopOK(e) /\ SameList(d, e) BY StoppedIfActiveIsOK
<1> HIDE DEF e
<1>2. CASE ~Has(d, i) \/ (e.sessions[i].cred /\ fails)
  <2>1. Delete(d, i, fails) = Fail(e) BY <1>2 DEF Delete, e
  <2>2. op \in Ops \ {"list"} BY DEF Ops, Presses
  <2>3. QED BY <1>1, <2>1, <2>2, FailsFollow
<1>3. CASE ~(~Has(d, i) \/ (e.sessions[i].cred /\ fails))
  <2> DEFINE S == [j \in DOMAIN e.sessions \ {i} |-> e.sessions[j]]
             f == [e EXCEPT !.sessions = S]
             g == [f EXCEPT !.secrets = IF fails THEN f.secrets ELSE f.secrets \ {i}]
             h == [g EXCEPT !.selected = IF g.selected = i THEN NoId ELSE g.selected]
  <2>1. Delete(d, i, fails) = Done(h) BY <1>3 DEF Delete, e
  <2>2. DOMAIN S \subseteq Ids /\ S \in [DOMAIN S -> SessionRecord]
        /\ \A j \in DOMAIN S : S[j].runtime = "active" => e.profile = j
    BY <1>1 DEF DesktopOK, SessionRecord
  <2> HIDE DEF S
  <2>3. f = [sessions |-> S, selected |-> e.selected, profile |-> e.profile, child |-> e.child,
             tracked |-> e.tracked, secrets |-> e.secrets, used |-> e.used]
    BY <1>1 DEF DesktopOK
  <2> HIDE DEF f
  <2>4. g = [sessions |-> S, selected |-> e.selected, profile |-> e.profile, child |-> e.child,
             tracked |-> e.tracked, secrets |-> IF fails THEN f.secrets ELSE f.secrets \ {i}, used |-> e.used]
    BY <2>3
  <2> HIDE DEF g
  <2>5. h = [sessions |-> S, selected |-> IF g.selected = i THEN NoId ELSE g.selected,
             profile |-> e.profile, child |-> e.child, tracked |-> e.tracked,
             secrets |-> IF fails THEN f.secrets ELSE f.secrets \ {i}, used |-> e.used]
    BY <2>4
  <2> HIDE DEF h
  <2>6. DesktopOK(h) BY <2>2, <2>5, RebuiltIsOK
  <2>7. Done(h).d = h /\ Done(h).ok = TRUE BY DEF Done
  <2>8. ASSUME NEW c, NEW r, c.op = op, r.ok = TRUE
        PROVE  /\ NewList(c, r, DOMAIN d.sessions) = DOMAIN r.sessions
               /\ NewMarks(c, r, DOMAIN d.sessions, Marked(d)) = Marked(r)
    BY <2>8 DEF NewList, NewMarks, Replacing
  <2>9. QED BY <2>1, <2>6, <2>7, <2>8 DEF Follows
<1>4. QED BY <1>2, <1>3

\* One session's record is made anew, and it is not called active unless it was.
LEMMA RecordReplaced ==
    ASSUME NEW d, DesktopOK(d), NEW i \in DOMAIN d.sessions, NEW s \in SessionRecord,
           s.runtime = "active" => d.sessions[i].runtime = "active"
    PROVE  /\ DesktopOK([d EXCEPT !.sessions = [d.sessions EXCEPT ![i] = s]])
           /\ SameList(d, [d EXCEPT !.sessions = [d.sessions EXCEPT ![i] = s]])
<1> DEFINE S == [d.sessions EXCEPT ![i] = s]
           e == [d EXCEPT !.sessions = S]
<1>1. DOMAIN S = DOMAIN d.sessions /\ DOMAIN S \subseteq Ids /\ S \in [DOMAIN S -> SessionRecord]
      /\ \A j \in DOMAIN S : S[j].runtime = "active" => d.profile = j
  BY DEF DesktopOK, SessionRecord
<1> HIDE DEF S
<1>2. e = [sessions |-> S, selected |-> d.selected, profile |-> d.profile, child |-> d.child,
           tracked |-> d.tracked, secrets |-> d.secrets, used |-> d.used]
  BY DEF DesktopOK
<1> HIDE DEF e
<1>3. DesktopOK(e) BY <1>1, <1>2, RebuiltIsOK
<1>4. SameList(d, e) BY <1>1, <1>2 DEF SameList
<1>5. QED BY <1>3, <1>4 DEF e, S

LEMMA KeysReplaced ==
    ASSUME NEW d, DesktopOK(d), NEW keys
    PROVE  /\ DesktopOK([d EXCEPT !.secrets = keys]) /\ SameList(d, [d EXCEPT !.secrets = keys])
           /\ [d EXCEPT !.secrets = keys].sessions = d.sessions
<1> DEFINE e == [d EXCEPT !.secrets = keys]
<1>1. e = [sessions |-> d.sessions, selected |-> d.selected, profile |-> d.profile, child |-> d.child,
           tracked |-> d.tracked, secrets |-> keys, used |-> d.used]
  BY DEF DesktopOK
<1>2. DOMAIN d.sessions \subseteq Ids /\ d.sessions \in [DOMAIN d.sessions -> SessionRecord]
      /\ \A j \in DOMAIN d.sessions : d.sessions[j].runtime = "active" => d.profile = j
  BY DEF DesktopOK, SessionRecord
<1> HIDE DEF e
<1>3. DesktopOK(e) BY <1>1, <1>2, RebuiltIsOK
<1>4. QED BY <1>1, <1>3 DEF SameList, e

LEMMA CredReplaced ==
    ASSUME NEW d, DesktopOK(d), NEW i \in DOMAIN d.sessions, NEW cred \in BOOLEAN
    PROVE  /\ DesktopOK([d EXCEPT !.sessions[i].cred = cred])
           /\ SameList(d, [d EXCEPT !.sessions[i].cred = cred])
<1> DEFINE s == [cred |-> cred, runtime |-> d.sessions[i].runtime]
<1>1. d.sessions[i] \in SessionRecord BY DEF DesktopOK, SessionRecord
<1>2. [d.sessions[i] EXCEPT !.cred = cred] = s /\ s \in SessionRecord BY <1>1 DEF SessionRecord
<1>3. [d EXCEPT !.sessions[i].cred = cred]
        = [d EXCEPT !.sessions = [d.sessions EXCEPT ![i] = [d.sessions[i] EXCEPT !.cred = cred]]]
  OBVIOUS
<1>4. s.runtime = d.sessions[i].runtime OBVIOUS
<1> HIDE DEF s
<1>5. QED BY <1>2, <1>3, <1>4, RecordReplaced

LEMMA KeyCommandsFollow ==
    ASSUME NEW d, DesktopOK(d), NEW i, NEW fails \in BOOLEAN
    PROVE  /\ Follows(d, "import-key", i, ImportKey(d, i, fails))
           /\ Follows(d, "delete-key", i, DeleteKey(d, i, fails))
           /\ Follows(d, "check", i, CheckSession(d, i, fails))
<1>1. \A op \in {"import-key", "delete-key", "check"} :
          op \in Ops /\ op \in Ops \ {"list"} /\ op \notin {"select", "start"}
  BY DEF Ops, Presses
<1>2. Follows(d, "import-key", i, ImportKey(d, i, fails))
  <2> DEFINE e == [d EXCEPT !.secrets = d.secrets \cup {i}]
             f == [e EXCEPT !.sessions[i].cred = TRUE]
  <2>1. DesktopOK(e) /\ SameList(d, e) /\ e.sessions = d.sessions BY KeysReplaced
  <2>2. ImportKey(d, i, fails) = IF fails THEN Fail(d) ELSE IF ~Has(d, i) THEN Fail(e) ELSE Done(f)
    BY DEF ImportKey
  <2> HIDE DEF e
  <2>3. CASE fails \/ ~Has(d, i)
    <3>1. SameList(d, d) BY DEF SameList
    <3>2. QED BY <1>1, <2>1, <2>2, <2>3, <3>1, FailsFollow
  <2>4. CASE ~fails /\ Has(d, i)
    <3>1. i \in DOMAIN d.sessions /\ i \in DOMAIN e.sessions BY <2>1, <2>4 DEF Has
    <3>2. DesktopOK(f) /\ SameList(e, f) BY <2>1, <3>1, CredReplaced
    <3> HIDE DEF f
    <3>3. SameList(d, f) BY <2>1, <3>2 DEF SameList
    <3>4. QED BY <1>1, <2>2, <2>4, <3>1, <3>2, <3>3, DoneFollows
  <2>5. QED BY <2>3, <2>4
<1>3. Follows(d, "delete-key", i, DeleteKey(d, i, fails))
  <2> DEFINE e == StoppedIfActive(d, i)
             f == [e EXCEPT !.secrets = e.secrets \ {i}]
             s == [cred |-> FALSE, runtime |-> "stopped"]
             g == [f EXCEPT !.sessions = [f.sessions EXCEPT ![i] = s]]
  <2>1. DesktopOK(e) /\ SameList(d, e) BY StoppedIfActiveIsOK
  <2>2. DeleteKey(d, i, fails) = IF fails THEN Fail(e) ELSE IF ~Has(d, i) THEN Fail(f)
                                 ELSE Done([f EXCEPT !.sessions[i] = s])
    BY DEF DeleteKey
  <2> HIDE DEF e
  <2>3. DesktopOK(f) /\ SameList(e, f) BY <2>1, KeysReplaced
  <2> HIDE DEF f
  <2>4. SameList(d, f) BY <2>1, <2>3 DEF SameList
  <2>5. CASE fails \/ ~Has(d, i) BY <1>1, <2>1, <2>2, <2>3, <2>4, <2>5, FailsFollow
  <2>6. CASE ~fails /\ Has(d, i)
    <3>1. i \in DOMAIN d.sessions /\ i \in DOMAIN f.sessions BY <2>4, <2>6 DEF Has, SameList
    <3>2. s \in SessionRecord /\ s.runtime # "active"
      BY DEF SessionRecord, Runtimes
    <3> HIDE DEF s
    <3>3. DesktopOK(g) /\ SameList(f, g) BY <2>3, <3>1, <3>2, RecordReplaced
    <3>4. [f EXCEPT !.sessions[i] = s] = g OBVIOUS
    <3> HIDE DEF g
    <3>5. SameList(d, g) BY <2>4, <3>3 DEF SameList
    <3>6. QED BY <1>1, <2>2, <2>6, <3>1, <3>3, <3>4, <3>5, DoneFollows
  <2>7. QED BY <2>5, <2>6
<1>4. Follows(d, "check", i, CheckSession(d, i, fails))
  <2>1. CASE ~Has(d, i)
    <3>1. CheckSession(d, i, fails) = Fail(d) /\ SameList(d, d) BY <2>1 DEF CheckSession, SameList
    <3>2. QED BY <1>1, <3>1, FailsFollow
  <2>2. CASE Has(d, i)
    <3> DEFINE cred == i \in d.secrets /\ ~fails
               e == [d EXCEPT !.sessions[i].cred = cred]
    <3>1. CheckSession(d, i, fails) = Done(e) BY <2>2 DEF CheckSession
    <3>2. cred \in BOOLEAN OBVIOUS
    <3> HIDE DEF cred
    <3>3. i \in DOMAIN d.sessions BY <2>2 DEF Has
    <3>4. DesktopOK(e) /\ SameList(d, e) BY <3>2, <3>3, CredReplaced
    <3> HIDE DEF e
    <3>5. QED BY <1>1, <3>1, <3>3, <3>4, DoneFollows
  <2>3. QED BY <2>1, <2>2
<1>5. QED BY <1>2, <1>3, <1>4

LEMMA StartFollows ==
    ASSUME NEW d, DesktopOK(d), NEW i, NEW fault
    PROVE  Follows(d, "start", i, Start(d, i, fault))
<1> DEFINE e == Stopped(d)
           Rested(s) == IF s.runtime = "active" THEN [s EXCEPT !.runtime = "stopped"] ELSE s
           S == [j \in DOMAIN e.sessions |->
                    IF j = i THEN [cred |-> TRUE, runtime |-> "active"] ELSE Rested(e.sessions[j])]
           f == [e EXCEPT !.profile = i]
           g == [f EXCEPT !.child = "running"]
           h == [g EXCEPT !.tracked = {i}]
           k == [h EXCEPT !.selected = i]
           l == [k EXCEPT !.sessions = S]
<1>1. DesktopOK(e) /\ SameList(d, e) /\ SameList(d, d) BY StoppedIsOK DEF SameList
<1>2. "start" \in Ops /\ "start" \in Ops \ {"list"} BY DEF Ops, Presses
<1>3. CASE ~Has(d, i) \/ i \notin d.secrets \/ fault = "store"
  <2>1. Start(d, i, fault) = Fail(d) BY <1>3 DEF Start
  <2>2. QED BY <1>1, <1>2, <2>1, FailsFollow
<1>4. CASE ~(~Has(d, i) \/ i \notin d.secrets \/ fault = "store") /\ fault # "none"
  <2>1. Start(d, i, fault) = Fail(Mark(e, i, "unhealthy")) BY <1>4 DEF Start
  <2>2. "unhealthy" \in Runtimes /\ "unhealthy" # "active" BY DEF Runtimes
  <2> HIDE DEF e
  <2>3. DesktopOK(Mark(e, i, "unhealthy")) /\ SameList(e, Mark(e, i, "unhealthy"))
    BY <1>1, <2>2, MarkedIsOK
  <2>4. SameList(d, Mark(e, i, "unhealthy")) BY <1>1, <2>3 DEF SameList
  <2>5. QED BY <1>2, <2>1, <2>3, <2>4, FailsFollow
<1>5. CASE ~(~Has(d, i) \/ i \notin d.secrets \/ fault = "store") /\ fault = "none"
  <2>1. Start(d, i, fault) = Done(l) BY <1>5 DEF Start
  <2> HIDE DEF e
  <2>2. \A j \in DOMAIN e.sessions : e.sessions[j] \in SessionRecord
    BY <1>1 DEF DesktopOK, SessionRecord
  <2>3. ASSUME NEW s \in SessionRecord PROVE Rested(s) \in SessionRecord /\ Rested(s).runtime # "active"
    BY <2>3 DEF SessionRecord, Runtimes
  <2>4. [cred |-> TRUE, runtime |-> "active"] \in SessionRecord BY DEF SessionRecord, Runtimes
  <2> HIDE DEF Rested
  <2>5. \A j \in DOMAIN e.sessions : S[j] \in SessionRecord /\ (S[j].runtime = "active" => j = i)
    BY <2>2, <2>3, <2>4
  <2>6. DOMAIN S = DOMAIN d.sessions /\ DOMAIN S = DOMAIN e.sessions /\ DOMAIN S \subseteq Ids
    BY <1>1 DEF SameList, DesktopOK
  <2>7. S \in [DOMAIN S -> SessionRecord] /\ \A j \in DOMAIN S : S[j].runtime = "active" => i = j
    BY <2>5, <2>6
  <2> HIDE DEF S
  <2>8. f = [sessions |-> e.sessions, selected |-> e.selected, profile |-> i, child |-> e.child,
             tracked |-> e.tracked, secrets |-> e.secrets, used |-> e.used]
    BY <1>1 DEF DesktopOK
  <2> HIDE DEF f
  <2>9. g = [sessions |-> e.sessions, selected |-> e.selected, profile |-> i, child |-> "running",
             tracked |-> e.tracked, secrets |-> e.secrets, used |-> e.used]
    BY <2>8
  <2> HIDE DEF g
  <2>10. h = [sessions |-> e.sessions, selected |-> e.selected, profile |-> i, child |-> "running",
              tracked |-> {i}, secrets |-> e.secrets, used |-> e.used]
    BY <2>9
  <2> HIDE DEF h
  <2>11. k = [sessions |-> e.sessions, selected |-> i, profile |-> i, child |-> "running",
              tracked |-> {i}, secrets |-> e.secrets, used |-> e.used]
    BY <2>10
  <2> HIDE DEF k
  <2>12. l = [sessions |-> S, selected |-> i, profile |-> i, child |-> "running",
              tracked |-> {i}, secrets |-> e.secrets, used |-> e.used]
    BY <2>11
  <2>13. DesktopOK(l) /\ l.sessions = S /\ l.selected = i BY <2>6, <2>7, <2>12, RebuiltIsOK
  <2> HIDE DEF l
  <2>14. Done(l).d = l /\ Done(l).ok = TRUE BY DEF Done
  <2>15. ASSUME NEW c, NEW r, c.op = "start", c.id = i, r.ok = TRUE, r.sessions = l.sessions, r.selected = l.selected
         PROVE  /\ NewList(c, r, DOMAIN d.sessions) = DOMAIN r.sessions
                /\ NewMarks(c, r, DOMAIN d.sessions, Marked(d)) = Marked(r)
    BY <2>6, <2>13, <2>15 DEF NewList, NewMarks, Marked, Replacing, Upserting
  <2>16. QED BY <2>1, <2>13, <2>14, <2>15 DEF Follows
<1>6. QED BY <1>3, <1>4, <1>5

LEMMA RuntimeChecksFollow ==
    ASSUME NEW d, DesktopOK(d), NEW i, NEW healthy \in BOOLEAN, NEW op \in {"runtime", "check-runtime"}
    PROVE  Follows(d, op, i, CheckRuntime(d, healthy))
<1>1. op \in Ops /\ op \notin Upserting /\ op \notin {"select", "start"} BY DEF Ops, Presses, Upserting
<1>2. ASSUME NEW e, DesktopOK(e), SameList(d, e), CheckRuntime(d, healthy) = Done(e)
      PROVE  Follows(d, op, i, CheckRuntime(d, healthy))
  BY <1>1, <1>2, DoneFollows
<1>3. CASE d.profile = NoId
  BY <1>2, <1>3 DEF CheckRuntime, SameList
<1>4. CASE d.profile # NoId /\ d.child # "running"
  <2> DEFINE f == Mark(NoTunnel(d), d.profile, "lost")
  <2>1. CheckRuntime(d, healthy) = Done(f) BY <1>4 DEF CheckRuntime
  <2>2. "lost" \in Runtimes \ {"active"} BY DEF Runtimes
  <2>3. DesktopOK(f) /\ SameList(d, f) BY <2>2, GivenUpIsOK
  <2> HIDE DEF f
  <2>4. QED BY <1>2, <2>1, <2>3
<1>5. CASE d.profile # NoId /\ d.child = "running"
  <2> DEFINE r == IF healthy THEN "active" ELSE "unhealthy"
             f == Mark(d, d.profile, r)
  <2>1. CheckRuntime(d, healthy) = Done(f) BY <1>5 DEF CheckRuntime
  <2>2. r \in Runtimes BY DEF Runtimes
  <2> HIDE DEF r
  <2>3. DesktopOK(f) /\ SameList(d, f) BY <2>2, MarkedIsOK
  <2> HIDE DEF f
  <2>4. QED BY <1>2, <2>1, <2>3
<1>6. QED BY <1>3, <1>4, <1>5

LEMMA RunFollows ==
    ASSUME NEW d, DesktopOK(d), NEW c, c.op \in Ops, NEW i, NEW fault,
           c.op \in {"save", "import"} => i \in Ids
    PROVE  Follows(d, c.op, i, Run(d, c, i, fault))
<1>1. (fault = "store") \in BOOLEAN /\ (fault = "none") \in BOOLEAN OBVIOUS
<1>2. CASE c.op \in {"save", "import"} BY <1>1, <1>2, SaveFollows DEF Run
<1>3. CASE c.op = "select" BY <1>3, SelectFollows DEF Run
<1>4. CASE c.op \in {"delete", "bulk"} BY <1>1, <1>4, DeleteFollows DEF Run
<1>5. CASE c.op \in {"import-key", "delete-key", "check"} BY <1>1, <1>5, KeyCommandsFollow DEF Run
<1>6. CASE c.op = "start" BY <1>6, StartFollows DEF Run
<1>7. CASE c.op = "stop"
  <2>1. Run(d, c, i, fault) = Done(Stopped(d)) BY <1>7 DEF Run
  <2>2. "stop" \in Ops /\ "stop" \notin Upserting /\ "stop" \notin {"select", "start"}
    BY DEF Ops, Presses, Upserting
  <2>3. QED BY <1>7, <2>1, <2>2, StoppedIsOK, DoneFollows
<1>8. CASE c.op \in {"runtime", "check-runtime"} BY <1>1, <1>8, RuntimeChecksFollow DEF Run
<1>9. CASE c.op = "list"
  <2>1. Run(d, c, i, fault) = Done(d) BY <1>9 DEF Run
  <2>2. "list" \in Ops /\ "list" \notin Upserting /\ "list" \notin {"select", "start"}
    BY DEF Ops, Presses, Upserting
  <2>3. SameList(d, d) BY DEF SameList
  <2>4. QED BY <1>9, <2>1, <2>2, <2>3, DoneFollows
<1>10. QED
  BY <1>2, <1>3, <1>4, <1>5, <1>6, <1>7, <1>8, <1>9 DEF Ops, Presses
----------------------------------------------------------------------------
(* The commands under way *)

LEMMA CallsAreASequence ==
    ASSUME CallsOK
    PROVE  /\ calls \in Seq({calls[k] : k \in 1..Len(calls)})
           /\ DOMAIN calls = 1..Len(calls) /\ Len(calls) \in Nat
BY DEF CallsOK

LEMMA SequencesAreLists ==
    ASSUME NEW S, NEW s \in Seq(S)
    PROVE  Len(s) \in Nat /\ s = [k \in 1..Len(s) |-> s[k]] /\ DOMAIN s = 1..Len(s)
OBVIOUS

WellFormed(c) ==
    /\ c = [op |-> c.op, id |-> c.id, prev |-> c.prev, rest |-> c.rest, reply |-> c.reply]
    /\ c.op \in Ops /\ c.id \in Ids \cup {NoId} /\ c.rest \in Seq(Ids \cup {NoId})

\* A command that is invoked is served after all that are under way.
LEMMA CallAdded ==
    ASSUME CallsOK, AnswersFollow, LatestIsTrue, NEW c, WellFormed(c), c.reply = <<>>,
           calls' = Append(calls, c), UNCHANGED <<sessions, selected, shown, flagged>>
    PROVE  CallsOK' /\ AnswersFollow' /\ LatestIsTrue'
<1> DEFINE n == Len(calls)
           S == {calls[k] : k \in 1..n} \cup {c}
<1>1. calls \in Seq(S) /\ n \in Nat /\ DOMAIN calls = 1..n
  <2>1. calls \in Seq({calls[k] : k \in 1..n}) /\ DOMAIN calls = 1..n /\ n \in Nat BY CallsAreASequence
  <2>2. QED BY <2>1
<1> HIDE DEF S
<1>2. /\ Len(calls') = n + 1 /\ calls'[n + 1] = c /\ \A k \in 1..n : calls'[k] = calls[k]
      /\ calls' \in Seq(S)
  <2>1. c \in S BY DEF S
  <2>2. QED BY <1>1, <2>1, AppendProperties
<1>3. DOMAIN calls' = 1..(n + 1) /\ calls' = [k \in 1..Len(calls') |-> calls'[k]] /\ Len(calls') \in Nat
  BY <1>1, <1>2, SequencesAreLists
<1> HIDE DEF n
<1>4. CallsOK'
  <2>1. ASSUME NEW k \in DOMAIN calls'
        PROVE  /\ WellFormed(calls'[k])
               /\ calls'[k].reply # <<>> =>
                    /\ DOMAIN calls'[k].reply[1].sessions \subseteq Ids
                    /\ \A j \in 1..(k - 1) : calls'[j].reply # <<>>
    <3>1. CASE k = n + 1 BY <1>2, <3>1
    <3>2. CASE k \in 1..n BY <1>1, <1>2, <3>2 DEF CallsOK, WellFormed
    <3>3. QED BY <1>1, <1>3, <3>1, <3>2
  <2>2. QED BY <1>3, <2>1 DEF CallsOK, WellFormed
<1>5. \A k \in 1..(n + 1) : ListBefore(k)' = ListBefore(k) /\ MarksBefore(k)' = MarksBefore(k)
  <2> SUFFICES ASSUME NEW k \in 1..(n + 1)
               PROVE  ListBefore(k)' = ListBefore(k) /\ MarksBefore(k)' = MarksBefore(k)
    OBVIOUS
  <2>1. CASE k = 1 BY <2>1 DEF ListBefore, MarksBefore
  <2>2. CASE k # 1
    <3>1. k - 1 \in 1..n BY <1>1, <2>2
    <3>2. calls'[k - 1] = calls[k - 1] BY <1>2, <3>1
    <3>3. QED BY <2>2, <3>2 DEF ListBefore, MarksBefore, Reply, Marked
  <2>3. QED BY <2>1, <2>2
<1>6. AnswersFollow'
  <2> SUFFICES ASSUME NEW k \in DOMAIN calls', calls'[k].reply # <<>>
               PROVE  /\ NewList(calls'[k], Reply(k)', ListBefore(k)') = DOMAIN Reply(k)'.sessions
                      /\ NewMarks(calls'[k], Reply(k)', ListBefore(k)', MarksBefore(k)') = Marked(Reply(k)')
    BY DEF AnswersFollow, NewList, NewMarks, Marked
  <2>1. k \in 1..n BY <1>1, <1>2, <1>3
  <2>2. calls'[k] = calls[k] /\ Reply(k)' = Reply(k) BY <1>2, <2>1 DEF Reply
  <2>3. k \in 1..(n + 1) BY <1>1, <2>1
  <2>4. QED BY <1>1, <1>5, <2>1, <2>2, <2>3 DEF AnswersFollow
<1>7. LatestIsTrue'
  <2> SUFFICES ASSUME NEW k \in 1..(Len(calls') + 1), k = 1 \/ calls'[k - 1].reply # <<>>,
                      k \in DOMAIN calls' => calls'[k].reply = <<>> /\ calls'[k].op # "list"
               PROVE  ListBefore(k)' = DOMAIN sessions' /\ MarksBefore(k)' = {selected'} \cap DOMAIN sessions'
    BY DEF LatestIsTrue
  <2>1. k \in 1..(n + 1)
    <3>1. k # n + 2 BY <1>1, <1>2
    <3>2. QED BY <1>1, <1>2, <3>1
  <2>2. k = 1 \/ calls[k - 1].reply # <<>>
    <3>1. k # 1 => k - 1 \in 1..n BY <1>1, <2>1
    <3>2. QED BY <1>2, <3>1
  <2>3. k \in DOMAIN calls => calls[k].reply = <<>> /\ calls[k].op # "list" BY <1>1, <1>2, <1>3
  <2>4. ListBefore(k) = DOMAIN sessions /\ MarksBefore(k) = {selected} \cap DOMAIN sessions
    BY <2>1, <2>2, <2>3 DEF LatestIsTrue, n
  <2>5. QED BY <1>5, <2>1, <2>4
<1>8. QED BY <1>4, <1>6, <1>7

\* A command is served: its answer shows the desktop as it leaves it.
LEMMA ServeStep ==
    ASSUME SessionsInv, NEW k, NEW fault, Serve(k, fault)
    PROVE  SessionsInv'
<1> DEFINE n == Len(calls)
<1>1. /\ k \in DOMAIN calls /\ calls[k].reply = <<>> /\ \A j \in 1..(k - 1) : calls[j].reply # <<>>
      /\ UNCHANGED <<shown, flagged, picked, bulkConfirm, announced>>
  BY DEF Serve, copies, panel
<1>2. n \in Nat /\ DOMAIN calls = 1..n /\ k \in 1..n /\ calls = [j \in 1..n |-> calls[j]]
  BY <1>1, CallsAreASequence DEF SessionsInv, CallsOK
<1>3. WellFormed(calls[k]) BY <1>1 DEF SessionsInv, CallsOK, WellFormed
<1>4. PICK i \in IF calls[k].op \in {"save", "import"} /\ calls[k].id = NoId THEN Ids \ used ELSE {calls[k].id} :
        LET r == Run(Desktop, calls[k], i, fault) IN
        /\ sessions' = r.d.sessions /\ selected' = r.d.selected
        /\ profile' = r.d.profile /\ child' = r.d.child /\ tracked' = r.d.tracked
        /\ secrets' = r.d.secrets /\ used' = r.d.used
        /\ calls' = [calls EXCEPT ![k].id = i,
                         ![k].reply = <<[ok |-> r.ok, sessions |-> r.d.sessions, selected |-> r.d.selected, profile |-> r.d.profile]>>]
  BY DEF Serve
<1> DEFINE result == Run(Desktop, calls[k], i, fault)
           answer == [ok |-> result.ok, sessions |-> result.d.sessions, selected |-> result.d.selected,
                      profile |-> result.d.profile]
           c == [op |-> calls[k].op, id |-> i, prev |-> calls[k].prev, rest |-> calls[k].rest, reply |-> <<answer>>]
<1>5. i \in Ids \cup {NoId} /\ (calls[k].op \in {"save", "import"} => i \in Ids)
  BY <1>3, <1>4 DEF WellFormed
<1>6. Follows(Desktop, calls[k].op, i, result)
  BY <1>3, <1>5, RunFollows DEF SessionsInv, WellFormed
<1> HIDE DEF result
<1>7. /\ sessions' = result.d.sessions /\ selected' = result.d.selected
      /\ profile' = result.d.profile /\ child' = result.d.child /\ tracked' = result.d.tracked
      /\ secrets' = result.d.secrets /\ used' = result.d.used
      /\ calls' = [calls EXCEPT ![k].id = i, ![k].reply = <<answer>>]
  BY <1>4 DEF result
<1>8. answer.ok = result.ok /\ answer.sessions = sessions' /\ answer.selected = selected'
  BY <1>7
<1> HIDE DEF answer
<1>9. /\ calls'[k] = c /\ \A j \in 1..n \ {k} : calls'[j] = calls[j]
      /\ Len(calls') = n /\ DOMAIN calls' = 1..n /\ calls' = [j \in 1..n |-> calls'[j]]
  <2>1. calls' = [calls EXCEPT ![k] = [[calls[k] EXCEPT !.id = i] EXCEPT !.reply = <<answer>>]]
    BY <1>2, <1>7
  <2>2. DOMAIN calls' = 1..n /\ calls' = [j \in 1..n |-> calls'[j]] BY <1>2, <2>1
  <2>3. calls' \in Seq({calls'[j] : j \in 1..n}) BY <1>2, <2>2
  <2>4. Len(calls') = n BY <1>2, <2>2, <2>3, SequencesAreLists
  <2> DEFINE e == [calls[k] EXCEPT !.id = i]
  <2>5. calls'[k] = [e EXCEPT !.reply = <<answer>>] BY <1>2, <2>1
  <2>6. e = [op |-> calls[k].op, id |-> i, prev |-> calls[k].prev, rest |-> calls[k].rest, reply |-> calls[k].reply]
    BY <1>3 DEF WellFormed
  <2> HIDE DEF e
  <2>7. calls'[k] = c BY <2>5, <2>6
  <2>8. QED BY <1>2, <2>1, <2>2, <2>4, <2>7
<1>10. c.op = calls[k].op /\ c.id = i /\ c.reply = <<answer>> /\ WellFormed(c) /\ c.reply # <<>> /\ c.reply[1] = answer
  BY <1>3, <1>5 DEF WellFormed
<1> HIDE DEF c, n
<1>11. DesktopOK(Desktop')
  <2>1. DesktopOK(result.d) BY <1>6 DEF Follows
  <2>2. Desktop' = result.d BY <1>7, <2>1 DEF Desktop, DesktopOK
  <2>3. QED BY <2>1, <2>2
<1>12. DOMAIN sessions' \subseteq Ids BY <1>7, <1>6 DEF Follows, DesktopOK
<1>13. CallsOK'
  <2>1. ASSUME NEW j \in DOMAIN calls'
        PROVE  /\ WellFormed(calls'[j])
               /\ calls'[j].reply # <<>> =>
                    /\ DOMAIN calls'[j].reply[1].sessions \subseteq Ids
                    /\ \A h \in 1..(j - 1) : calls'[h].reply # <<>>
    <3>1. CASE j = k
      <4>1. calls'[j] = c /\ calls'[j].reply[1].sessions = sessions' BY <1>8, <1>9, <1>10, <3>1
      <4>2. \A h \in 1..(j - 1) : h \in 1..n \ {k} BY <1>2, <3>1
      <4>3. \A h \in 1..(j - 1) : calls'[h].reply # <<>> BY <1>1, <1>9, <3>1, <4>2
      <4>4. QED BY <1>10, <1>12, <4>1, <4>3
    <3>2. CASE j # k
      <4>1. j \in DOMAIN calls /\ calls'[j] = calls[j] BY <1>2, <1>9, <3>2
      <4>2. WellFormed(calls[j]) BY <4>1 DEF SessionsInv, CallsOK, WellFormed
      <4>3. calls[j].reply # <<>> => /\ DOMAIN calls[j].reply[1].sessions \subseteq Ids
                                     /\ \A h \in 1..(j - 1) : calls[h].reply # <<>>
        BY <4>1 DEF SessionsInv, CallsOK
      <4>4. \A h \in 1..(j - 1) : h \in 1..n BY <1>2, <4>1
      <4>5. \A h \in 1..n : calls[h].reply # <<>> => calls'[h].reply # <<>> BY <1>9, <1>10
      <4>6. QED BY <4>1, <4>2, <4>3, <4>4, <4>5
    <3>3. QED BY <3>1, <3>2
  <2>2. QED BY <1>2, <1>9, <2>1 DEF CallsOK, WellFormed
<1>14. \A j \in 1..k : ListBefore(j)' = ListBefore(j) /\ MarksBefore(j)' = MarksBefore(j)
  <2> SUFFICES ASSUME NEW j \in 1..k
               PROVE  ListBefore(j)' = ListBefore(j) /\ MarksBefore(j)' = MarksBefore(j)
    OBVIOUS
  <2>1. CASE j = 1 BY <1>1, <2>1 DEF ListBefore, MarksBefore
  <2>2. CASE j # 1
    <3>1. j - 1 \in 1..n \ {k} BY <1>2, <2>2
    <3>2. calls'[j - 1] = calls[j - 1] BY <1>9, <3>1
    <3>3. QED BY <2>2, <3>2 DEF ListBefore, MarksBefore, Reply, Marked
  <2>3. QED BY <2>1, <2>2
<1>15. calls[k].op # "list" => ListBefore(k) = DOMAIN sessions /\ MarksBefore(k) = {selected} \cap DOMAIN sessions
  <2>1. k \in 1..(n + 1) BY <1>2
  <2>2. k = 1 \/ calls[k - 1].reply # <<>>
    <3>1. k # 1 => k - 1 \in 1..(k - 1) BY <1>2
    <3>2. QED BY <1>1, <3>1
  <2>3. QED BY <1>1, <2>1, <2>2 DEF SessionsInv, LatestIsTrue, n
<1>16. AnswersFollow'
  <2> SUFFICES ASSUME NEW j \in DOMAIN calls', calls'[j].reply # <<>>
               PROVE  /\ NewList(calls'[j], Reply(j)', ListBefore(j)') = DOMAIN Reply(j)'.sessions
                      /\ NewMarks(calls'[j], Reply(j)', ListBefore(j)', MarksBefore(j)') = Marked(Reply(j)')
    BY DEF AnswersFollow, NewList, NewMarks, Marked
  <2>1. j \in 1..k
    <3>1. ASSUME j > k PROVE FALSE
      <4>1. j \in 1..n /\ k \in 1..(j - 1) /\ j # k BY <1>2, <1>9, <3>1
      <4>2. calls[j].reply # <<>> BY <1>9, <4>1
      <4>3. calls[k].reply # <<>> BY <1>2, <4>1, <4>2 DEF SessionsInv, CallsOK
      <4>4. QED BY <1>1, <4>3
    <3>2. QED BY <1>2, <1>9, <3>1
  <2>2. CASE j # k
    <3>1. calls'[j] = calls[j] /\ Reply(j)' = Reply(j) BY <1>2, <1>9, <2>1, <2>2 DEF Reply
    <3>2. j \in DOMAIN calls BY <1>2, <2>1
    <3>3. QED BY <1>14, <2>1, <3>1, <3>2 DEF SessionsInv, AnswersFollow
  <2>3. CASE j = k
    <3>1. calls'[j] = c /\ Reply(j)' = answer BY <1>9, <1>10, <2>3 DEF Reply
    <3>2. ListBefore(j)' = ListBefore(k) /\ MarksBefore(j)' = MarksBefore(k) BY <1>14, <2>1, <2>3
    <3>3. /\ c.op # "list" => NewList(c, answer, DOMAIN sessions) = DOMAIN answer.sessions
          /\ c.op # "list" => NewMarks(c, answer, DOMAIN sessions, {selected} \cap DOMAIN sessions) = Marked(answer)
          /\ c.op = "list" => answer.ok
      <4>1. Desktop.sessions = sessions /\ Marked(Desktop) = {selected} \cap DOMAIN sessions
        BY DEF Desktop, Marked
      <4>2. answer.sessions = result.d.sessions /\ answer.selected = result.d.selected BY <1>7, <1>8
      <4>3. \A e, r : /\ e.op = calls[k].op /\ e.id = i /\ r.ok = result.ok
                      /\ r.sessions = result.d.sessions /\ r.selected = result.d.selected
                      => /\ calls[k].op # "list" => NewList(e, r, DOMAIN sessions) = DOMAIN r.sessions
                         /\ calls[k].op # "list" => NewMarks(e, r, DOMAIN sessions, {selected} \cap DOMAIN sessions) = Marked(r)
                         /\ calls[k].op = "list" => r.ok
        BY <1>6, <4>1, Zenon DEF Follows
      <4>4. QED BY <1>8, <1>10, <4>2, <4>3
    <3>4. CASE c.op # "list" BY <1>10, <1>15, <3>1, <3>2, <3>3, <3>4
    <3>5. CASE c.op = "list" BY <3>1, <3>3, <3>5 DEF NewList, NewMarks, Replacing
    <3>6. QED BY <3>4, <3>5
  <2>4. QED BY <2>2, <2>3
<1>17. LatestIsTrue'
  <2> SUFFICES ASSUME NEW j \in 1..(Len(calls') + 1), j = 1 \/ calls'[j - 1].reply # <<>>,
                      j \in DOMAIN calls' => calls'[j].reply = <<>> /\ calls'[j].op # "list"
               PROVE  ListBefore(j)' = DOMAIN sessions' /\ MarksBefore(j)' = {selected'} \cap DOMAIN sessions'
    BY DEF LatestIsTrue
  <2>1. j = k + 1
    <3>1. j \in 1..(n + 1) BY <1>9
    <3>2. j # k BY <1>2, <1>9, <1>10
    <3>3. ASSUME j > k + 1 PROVE FALSE
      <4>1. j - 1 \in 1..n \ {k} /\ k \in 1..(j - 1 - 1) BY <1>2, <3>1, <3>3
      <4>2. calls[j - 1].reply # <<>> BY <1>2, <1>9, <4>1
      <4>3. calls[k].reply # <<>> BY <1>2, <4>1, <4>2 DEF SessionsInv, CallsOK
      <4>4. QED BY <1>1, <4>3
    <3>4. ASSUME j < k PROVE FALSE
      <4>1. j \in 1..n \ {k} /\ j \in 1..(k - 1) BY <1>2, <3>1, <3>4
      <4>2. QED BY <1>1, <1>9, <4>1
    <3>5. QED BY <1>2, <3>1, <3>2, <3>3, <3>4
  <2>2. j - 1 = k /\ j # 1 BY <1>2, <2>1
  <2>3. calls'[k].reply[1] = answer BY <1>9, <1>10
  <2>4. ListBefore(j)' = DOMAIN answer.sessions /\ MarksBefore(j)' = Marked(answer)
    BY <2>2, <2>3 DEF ListBefore, MarksBefore, Reply, Marked
  <2>5. QED BY <1>8, <2>4 DEF Marked
<1>18. ShownOK' /\ BulkOK' BY <1>1 DEF SessionsInv, ShownOK, BulkOK
<1>19. QED BY <1>11, <1>13, <1>16, <1>17, <1>18 DEF SessionsInv

\* An answer does to the list and the marks what NewList and NewMarks say.
LEMMA AnswerIsApplied ==
    ASSUME NEW c, NEW r, c.op \in Ops, IF r.ok THEN Applied(c, r) ELSE UNCHANGED copies
    PROVE  /\ DOMAIN shown' = NewList(c, r, DOMAIN shown)
           /\ flagged' = NewMarks(c, r, DOMAIN shown, flagged)
<1>1. CASE ~r.ok BY <1>1 DEF copies, NewList, NewMarks
<1>2. CASE r.ok
  <2>1. Applied(c, r) BY <1>2
  <2>2. CASE c.op = "list"
    BY <1>2, <2>1, <2>2 DEF Applied, ReplaceAll, NewList, NewMarks, Replacing, Marked
  <2>3. CASE c.op = "runtime"
    BY <1>2, <2>1, <2>3 DEF Applied, NewList, NewMarks, Replacing, Upserting
  <2>4. CASE c.op \in {"save", "import", "import-key", "check"}
    BY <1>2, <2>1, <2>4 DEF Applied, Upsert, NewList, NewMarks, Replacing, Upserting
  <2>5. CASE c.op = "select"
    BY <1>2, <2>1, <2>5 DEF Applied, Selected, NewList, NewMarks, Replacing, Upserting
  <2>6. CASE c.op \in {"delete", "bulk"}
    BY <1>2, <2>1, <2>6 DEF Applied, ReplaceAll, NewList, NewMarks, Replacing, Marked
  <2>7. CASE c.op = "delete-key"
    BY <1>2, <2>1, <2>7 DEF Applied, Upsert, NewList, NewMarks, Replacing, Upserting
  <2>8. CASE c.op = "start"
    BY <1>2, <2>1, <2>8 DEF Applied, Started, SetRuntimes, NewList, NewMarks, Replacing, Upserting
  <2>9. CASE c.op = "stop"
    BY <1>2, <2>1, <2>9 DEF Applied, StoppedShown, SetRuntimes, NewList, NewMarks, Replacing, Upserting
  <2>10. CASE c.op = "check-runtime"
    BY <1>2, <2>1, <2>10 DEF Applied, Checked, SetRuntimes, NewList, NewMarks, Replacing, Upserting
  <2>11. QED
    BY <2>2, <2>3, <2>4, <2>5, <2>6, <2>7, <2>8, <2>9, <2>10 DEF Ops, Presses
<1>3. QED BY <1>1, <1>2

\* The first command goes and the others move up; its loop may go on behind them.
LEMMA CallsMoveUp ==
    ASSUME CallsOK, AnswersFollow, LatestIsTrue, ShownOK, calls # <<>>, calls[1].reply # <<>>,
           DOMAIN shown' = DOMAIN Reply(1).sessions, flagged' = Marked(Reply(1)),
           UNCHANGED <<sessions, selected>>,
           NEW c, WellFormed(c), c.reply = <<>>,
           calls' = Tail(calls) \/ calls' = Append(Tail(calls), c)
    PROVE  CallsOK' /\ AnswersFollow' /\ LatestIsTrue' /\ ShownOK'
<1> DEFINE n == Len(calls)
           m == Len(calls')
           S == {calls[k] : k \in 1..n} \cup {c}
<1>1. calls \in Seq(S) /\ n \in Nat /\ DOMAIN calls = 1..n /\ n # 0
  <2>1. calls \in Seq({calls[k] : k \in 1..n}) /\ DOMAIN calls = 1..n /\ n \in Nat BY CallsAreASequence
  <2>2. QED BY <2>1
<1>2. c \in S OBVIOUS
<1> HIDE DEF S
<1>3. Tail(calls) \in Seq(S) /\ Len(Tail(calls)) = n - 1 /\ \A k \in 1..(n - 1) : Tail(calls)[k] = calls[k + 1]
  BY <1>1
<1>4. /\ calls' \in Seq(S) /\ \A k \in 1..(n - 1) : calls'[k] = calls[k + 1]
      /\ m = n - 1 \/ (m = n /\ calls'[n] = c)
  <2>1. CASE calls' = Tail(calls) BY <1>3, <2>1
  <2>2. CASE calls' = Append(Tail(calls), c)
    <3> DEFINE s == Tail(calls)
    <3>1. s \in Seq(S) /\ Len(s) = n - 1 /\ n - 1 \in Nat BY <1>1, <1>3
    <3> HIDE DEF s
    <3>2. /\ Append(s, c) \in Seq(S) /\ Len(Append(s, c)) = Len(s) + 1
          /\ \A k \in 1..Len(s) : Append(s, c)[k] = s[k]
          /\ Append(s, c)[Len(s) + 1] = c
      BY <1>2, <3>1, AppendProperties
    <3>3. n - 1 + 1 = n BY <1>1
    <3>4. QED BY <1>3, <2>2, <3>1, <3>2, <3>3 DEF s
  <2>3. QED BY <2>1, <2>2
<1>5. DOMAIN calls' = 1..m /\ calls' = [k \in 1..m |-> calls'[k]] /\ m \in Nat
  BY <1>4, SequencesAreLists
<1> HIDE DEF n, m
<1>6. \A k \in DOMAIN calls' : k \in 1..(n - 1) \/ (k = n /\ m = n /\ calls'[n] = c)
  BY <1>1, <1>4, <1>5
<1>7. \A k \in 1..(n - 1) : k + 1 \in DOMAIN calls /\ k \in DOMAIN calls' BY <1>1, <1>4, <1>5
<1>8. CallsOK'
  <2>1. ASSUME NEW k \in DOMAIN calls'
        PROVE  /\ WellFormed(calls'[k])
               /\ calls'[k].reply # <<>> =>
                    /\ DOMAIN calls'[k].reply[1].sessions \subseteq Ids
                    /\ \A j \in 1..(k - 1) : calls'[j].reply # <<>>
    <3>1. CASE k = n /\ calls'[n] = c BY <3>1
    <3>2. CASE k \in 1..(n - 1)
      <4>1. calls'[k] = calls[k + 1] /\ k + 1 \in DOMAIN calls BY <1>4, <1>7, <3>2
      <4>2. WellFormed(calls[k + 1]) BY <4>1 DEF CallsOK, WellFormed
      <4>3. calls[k + 1].reply # <<>> => /\ DOMAIN calls[k + 1].reply[1].sessions \subseteq Ids
                                        /\ \A j \in 1..k : calls[j].reply # <<>>
        <5>1. (k + 1) - 1 = k BY <1>1, <3>2
        <5>2. QED BY <4>1, <5>1 DEF CallsOK
      <4>4. \A j \in 1..(k - 1) : j + 1 \in 1..k /\ calls'[j] = calls[j + 1] BY <1>1, <1>4, <3>2
      <4>5. QED BY <4>1, <4>2, <4>3, <4>4
    <3>3. QED BY <1>6, <3>1, <3>2
  <2>2. QED BY <1>5, <2>1 DEF CallsOK, WellFormed, m
<1>9. \A k \in 1..n : ListBefore(k)' = ListBefore(k + 1) /\ MarksBefore(k)' = MarksBefore(k + 1)
  <2> SUFFICES ASSUME NEW k \in 1..n
               PROVE  ListBefore(k)' = ListBefore(k + 1) /\ MarksBefore(k)' = MarksBefore(k + 1)
    OBVIOUS
  <2>1. k + 1 # 1 /\ (k + 1) - 1 = k BY <1>1
  <2>2. ListBefore(k + 1) = DOMAIN Reply(k).sessions /\ MarksBefore(k + 1) = Marked(Reply(k))
    BY <2>1 DEF ListBefore, MarksBefore
  <2>3. CASE k = 1 BY <2>2, <2>3 DEF ListBefore, MarksBefore
  <2>4. CASE k # 1
    <3>1. k - 1 \in 1..(n - 1) /\ (k - 1) + 1 = k BY <1>1, <2>4
    <3>2. calls'[k - 1] = calls[k] BY <1>4, <3>1
    <3>3. QED BY <2>2, <2>4, <3>2 DEF ListBefore, MarksBefore, Reply, Marked
  <2>5. QED BY <2>3, <2>4
<1>10. AnswersFollow'
  <2> SUFFICES ASSUME NEW k \in DOMAIN calls', calls'[k].reply # <<>>
               PROVE  /\ NewList(calls'[k], Reply(k)', ListBefore(k)') = DOMAIN Reply(k)'.sessions
                      /\ NewMarks(calls'[k], Reply(k)', ListBefore(k)', MarksBefore(k)') = Marked(Reply(k)')
    BY DEF AnswersFollow, NewList, NewMarks, Marked
  <2>1. k \in 1..(n - 1) BY <1>6
  <2>2. calls'[k] = calls[k + 1] /\ Reply(k)' = Reply(k + 1) /\ k + 1 \in DOMAIN calls
    BY <1>4, <1>7, <2>1 DEF Reply
  <2>3. k \in 1..n BY <1>1, <2>1
  <2>4. QED BY <1>9, <2>2, <2>3 DEF AnswersFollow
<1>11. LatestIsTrue'
  <2> SUFFICES ASSUME NEW k \in 1..(m + 1), k = 1 \/ calls'[k - 1].reply # <<>>,
                      k \in DOMAIN calls' => calls'[k].reply = <<>> /\ calls'[k].op # "list"
               PROVE  ListBefore(k)' = DOMAIN sessions' /\ MarksBefore(k)' = {selected'} \cap DOMAIN sessions'
    BY DEF LatestIsTrue, m
  <2>1. k \in 1..n
    <3>1. ASSUME m = n, calls'[n] = c, k = n + 1 PROVE FALSE
      <4>1. k - 1 = n /\ k # 1 BY <1>1, <3>1
      <4>2. QED BY <3>1, <4>1
    <3>2. QED BY <1>1, <1>4, <1>5, <3>1
  <2>2. calls[(k + 1) - 1].reply # <<>>
    <3>1. (k + 1) - 1 = k BY <1>1, <2>1
    <3>2. CASE k = 1 BY <3>1, <3>2
    <3>3. CASE k # 1
      <4>1. k - 1 \in 1..(n - 1) /\ (k - 1) + 1 = k BY <1>1, <2>1, <3>3
      <4>2. QED BY <1>4, <3>1, <3>3, <4>1
    <3>4. QED BY <3>2, <3>3
  <2>3. k + 1 \in DOMAIN calls => calls[k + 1].reply = <<>> /\ calls[k + 1].op # "list"
    BY <1>1, <1>4, <1>7, <2>1
  <2>4. k + 1 \in 1..(n + 1) BY <1>1, <2>1
  <2>5. ListBefore(k + 1) = DOMAIN sessions /\ MarksBefore(k + 1) = {selected} \cap DOMAIN sessions
    BY <2>2, <2>3, <2>4 DEF LatestIsTrue, n
  <2>6. QED BY <1>9, <2>1, <2>5
<1>12. ShownOK'
  <2>1. 1 \in DOMAIN calls BY <1>1
  <2>2. QED BY <2>1 DEF ShownOK, CallsOK, Reply, Marked
<1>13. QED BY <1>8, <1>10, <1>11, <1>12

LEMMA DeliverStep ==
    ASSUME SessionsInv, Deliver
    PROVE  SessionsInv'
<1> DEFINE c == calls[1]
           r == c.reply[1]
           next == [op |-> c.op, id |-> Head(c.rest), prev |-> c.prev, rest |-> Tail(c.rest), reply |-> <<>>]
<1>1. /\ calls # <<>> /\ Head(calls) = c /\ c.reply # <<>> /\ 1 \in DOMAIN calls
      /\ UNCHANGED <<desktop, asks>>
  BY CallsAreASequence DEF Deliver, SessionsInv
<1>2. WellFormed(c) /\ r = Reply(1) BY <1>1 DEF SessionsInv, CallsOK, WellFormed, Reply
<1>3. IF r.ok THEN Applied(c, r) ELSE UNCHANGED copies BY <1>1 DEF Deliver
<1>4. \/ calls' = Tail(calls)
      \/ c.rest # <<>> /\ calls' = Append(Tail(calls), [c EXCEPT !.id = Head(c.rest), !.rest = Tail(c.rest), !.reply = <<>>])
  BY <1>1 DEF Deliver
<1>5. Picked(picked, bulkConfirm) \/ Picked({}, FALSE) BY <1>1 DEF Deliver
<1> HIDE DEF c, r
<1>6. DOMAIN shown' = DOMAIN Reply(1).sessions /\ flagged' = Marked(Reply(1))
  <2>1. DOMAIN shown' = NewList(c, r, DOMAIN shown) /\ flagged' = NewMarks(c, r, DOMAIN shown, flagged)
    BY <1>2, <1>3, AnswerIsApplied DEF WellFormed
  <2>2. ListBefore(1) = DOMAIN shown /\ MarksBefore(1) = flagged BY DEF ListBefore, MarksBefore
  <2>3. QED BY <1>1, <1>2, <2>1, <2>2 DEF SessionsInv, AnswersFollow, c
<1>7. UNCHANGED <<sessions, selected>> /\ Desktop' = Desktop
  BY <1>1 DEF desktop, tunnel, Desktop
<1>8. c.rest # <<>> =>
        /\ [c EXCEPT !.id = Head(c.rest), !.rest = Tail(c.rest), !.reply = <<>>] = next
        /\ WellFormed(next)
  <2> SUFFICES ASSUME c.rest # <<>>
               PROVE  /\ [c EXCEPT !.id = Head(c.rest), !.rest = Tail(c.rest), !.reply = <<>>] = next
                      /\ WellFormed(next)
    OBVIOUS
  <2> DEFINE e == [c EXCEPT !.id = Head(c.rest)]
             f == [e EXCEPT !.rest = Tail(c.rest)]
  <2>1. [c EXCEPT !.id = Head(c.rest), !.rest = Tail(c.rest), !.reply = <<>>] = [f EXCEPT !.reply = <<>>]
    OBVIOUS
  <2>2. e = [op |-> c.op, id |-> Head(c.rest), prev |-> c.prev, rest |-> c.rest, reply |-> c.reply]
    BY <1>2 DEF WellFormed
  <2> HIDE DEF e
  <2>3. f = [op |-> c.op, id |-> Head(c.rest), prev |-> c.prev, rest |-> Tail(c.rest), reply |-> c.reply]
    BY <2>2
  <2> HIDE DEF f
  <2>4. [f EXCEPT !.reply = <<>>] = next BY <2>3
  <2>5. Head(c.rest) \in Ids \cup {NoId} /\ Tail(c.rest) \in Seq(Ids \cup {NoId})
    BY <1>2 DEF WellFormed
  <2>6. WellFormed(next) BY <1>2, <2>5 DEF WellFormed
  <2>7. QED BY <2>1, <2>4, <2>6
<1>9. CallsOK' /\ AnswersFollow' /\ LatestIsTrue' /\ ShownOK'
  <2> DEFINE idle == [op |-> c.op, id |-> c.id, prev |-> c.prev, rest |-> c.rest, reply |-> <<>>]
  <2>1. WellFormed(idle) /\ idle.reply = <<>> BY <1>2 DEF WellFormed
  <2>2. next.reply = <<>> OBVIOUS
  <2>3. calls[1].reply # <<>> BY <1>1 DEF c
  <2> HIDE DEF idle, next
  <2>4. CASE calls' = Tail(calls)
    BY <1>1, <1>6, <1>7, <2>1, <2>3, <2>4, CallsMoveUp DEF SessionsInv
  <2>5. CASE c.rest # <<>> /\ calls' = Append(Tail(calls), next)
    BY <1>1, <1>6, <1>7, <1>8, <2>2, <2>3, <2>5, CallsMoveUp DEF SessionsInv
  <2>6. QED BY <1>4, <1>8, <2>4, <2>5
<1>10. BulkOK'
  <2>1. picked' \subseteq picked BY <1>5 DEF Picked
  <2>2. bulkConfirm' => bulkConfirm /\ announced' = announced BY <1>5 DEF Picked
  <2>3. QED BY <2>1, <2>2 DEF SessionsInv, BulkOK
<1>11. QED BY <1>7, <1>9, <1>10 DEF SessionsInv
----------------------------------------------------------------------------
(* The page and its panel *)

LEMMA SessionsInit == Init => SessionsInv
<1> SUFFICES ASSUME Init PROVE SessionsInv
  OBVIOUS
<1> DEFINE asked   == [op |-> "list", id |-> NoId, prev |-> NoId, rest |-> <<>>, reply |-> <<>>]
           watched == [op |-> "runtime", id |-> NoId, prev |-> NoId, rest |-> <<>>, reply |-> <<>>]
<1>1. calls = <<asked, watched>> BY DEF Init
<1>2. WellFormed(asked) /\ WellFormed(watched) /\ asked.reply = <<>> /\ watched.reply = <<>> /\ asked.op = "list"
  BY DEF WellFormed, Ops, Presses
<1> HIDE DEF asked, watched
<1>3. /\ Len(calls) = 2 /\ DOMAIN calls = 1..2 /\ calls[1] = asked /\ calls[2] = watched
      /\ calls = [k \in 1..2 |-> calls[k]]
  BY <1>1
<1>4. \A k \in DOMAIN calls : k = 1 \/ k = 2 BY <1>3
<1>5. CallsOK BY <1>2, <1>3, <1>4 DEF CallsOK, WellFormed
<1>6. AnswersFollow BY <1>2, <1>3, <1>4 DEF AnswersFollow
<1>7. LatestIsTrue
  <2> SUFFICES ASSUME NEW k \in 1..(Len(calls) + 1), k = 1 \/ calls[k - 1].reply # <<>>,
                      k \in DOMAIN calls => calls[k].reply = <<>> /\ calls[k].op # "list"
               PROVE  FALSE
    BY DEF LatestIsTrue
  <2>1. k \in 1..3 BY <1>3
  <2>2. CASE k = 1 BY <1>2, <1>3, <2>2
  <2>3. CASE k # 1
    <3>1. k - 1 \in 1..2 BY <2>1, <2>3
    <3>2. k - 1 = 1 \/ k - 1 = 2 BY <3>1
    <3>3. QED BY <1>2, <1>3, <2>3, <3>2
  <2>4. QED BY <2>2, <2>3
<1>8. DesktopOK(Desktop)
  <2> DEFINE S == [i \in Saved |-> [cred |-> TRUE, runtime |-> IF i = profile THEN "active" ELSE "stopped"]]
  <2>1. sessions = S BY DEF Init
  <2>2. DOMAIN S = Saved /\ S \in [Saved -> SessionRecord] BY DEF SessionRecord, Runtimes
  <2>3. \A i \in Saved : S[i].runtime = "active" => profile = i OBVIOUS
  <2>4. Saved \subseteq Ids BY SessionsAssumption
  <2> HIDE DEF S
  <2>5. QED BY <2>1, <2>2, <2>3, <2>4, RebuiltIsOK DEF Desktop
<1>9. ShownOK /\ BulkOK BY DEF Init, ShownOK, BulkOK
<1>10. QED BY <1>5, <1>6, <1>7, <1>8, <1>9 DEF SessionsInv

\* A press that invokes a command, or leaves the commands as they are.
LEMMA PressIsSafe ==
    ASSUME SessionsInv, UNCHANGED <<desktop, copies>>, BulkOK',
           \/ UNCHANGED calls
           \/ \E c : WellFormed(c) /\ c.reply = <<>> /\ calls' = Append(calls, c)
    PROVE  SessionsInv'
<1>1. /\ Desktop' = Desktop
      /\ UNCHANGED <<sessions, selected, shown, flagged>>
  BY DEF desktop, copies, tunnel, Desktop
<1>2. DesktopOK(Desktop') /\ ShownOK' BY <1>1 DEF SessionsInv, ShownOK
<1>3. CASE UNCHANGED calls
  <2>1. CallsOK' BY <1>3 DEF SessionsInv, CallsOK
  <2>2. AnswersFollow'
    BY <1>1, <1>3 DEF SessionsInv, AnswersFollow, NewList, NewMarks, Marked, Reply, ListBefore, MarksBefore
  <2>3. LatestIsTrue' BY <1>1, <1>3 DEF SessionsInv, LatestIsTrue, ListBefore, MarksBefore, Reply, Marked
  <2>4. QED BY <1>1, <1>2, <2>1, <2>2, <2>3 DEF SessionsInv
<1>4. CASE ~UNCHANGED calls
  <2>1. PICK c : WellFormed(c) /\ c.reply = <<>> /\ calls' = Append(calls, c) BY <1>4
  <2>2. CallsOK' /\ AnswersFollow' /\ LatestIsTrue' BY <1>1, <2>1, CallAdded DEF SessionsInv
  <2>3. QED BY <1>1, <1>2, <2>2 DEF SessionsInv
<1>5. QED BY <1>3, <1>4

LEMMA CallsAreWellFormed ==
    ASSUME NEW op \in Ops, NEW i \in Ids \cup {NoId}
    PROVE  WellFormed(Call(op, i)) /\ Call(op, i).reply = <<>>
<1>1. <<>> \in Seq(Ids \cup {NoId}) OBVIOUS
<1>2. QED BY <1>1 DEF WellFormed, Call

\* A loop over several sessions is the command for the first, with the others behind it.
Loop(op, i, rest) == [Call(op, i) EXCEPT !.rest = rest]

LEMMA LoopsAreWellFormed ==
    ASSUME NEW op \in Ops, NEW i \in Ids \cup {NoId}, NEW rest \in Seq(Ids \cup {NoId})
    PROVE  LET c == Loop(op, i, rest)
           IN WellFormed(c) /\ c.reply = <<>> /\ c.id = i /\ c.rest = rest
BY DEF WellFormed, Call, Loop

LEMMA PanelStep ==
    ASSUME SessionsInv,
           \/ \E op \in Presses, i \in Ids \cup {NoId} : Press(op, i)
           \/ \E i \in Ids : PressDelete(i) \/ PressDeleteKey(i)
           \/ \E items \in Bundles : ImportSessions(items)
           \/ \E P \in Picks : P # picked /\ Pick(P)
    PROVE  SessionsInv'
<1>1. ASSUME NEW op \in Presses, NEW i \in Ids \cup {NoId}, Press(op, i) PROVE SessionsInv'
  <2>1. op \in Ops BY DEF Ops
  <2>2. calls' = Append(calls, Call(op, i)) /\ UNCHANGED <<desktop, copies, panel>>
    BY <1>1 DEF Press, Invoke
  <2>3. BulkOK' BY <2>2 DEF SessionsInv, BulkOK, panel
  <2>4. WellFormed(Call(op, i)) /\ Call(op, i).reply = <<>> BY <2>1, CallsAreWellFormed
  <2> HIDE DEF Call
  <2>5. QED BY <2>2, <2>3, <2>4, PressIsSafe
<1>2. ASSUME NEW i \in Ids, PressDelete(i) \/ PressDeleteKey(i) PROVE SessionsInv'
  <2>1. /\ UNCHANGED <<desktop, copies, picked, bulkConfirm, announced>>
        /\ UNCHANGED calls \/ \E op \in {"delete", "delete-key"} : calls' = Append(calls, Call(op, i))
    BY <1>2 DEF PressDelete, PressDeleteKey, Invoke
  <2>2. BulkOK' BY <2>1 DEF SessionsInv, BulkOK
  <2>3. \A op \in {"delete", "delete-key"} : WellFormed(Call(op, i)) /\ Call(op, i).reply = <<>>
    BY CallsAreWellFormed DEF Ops
  <2>4. QED BY <2>1, <2>2, <2>3, PressIsSafe
<1>3. ASSUME NEW items \in Bundles, ImportSessions(items) PROVE SessionsInv'
  <2>1. PICK x \in Ids \cup {NoId} : items = <<x, NoId>> BY DEF Bundles
  <2>2. items[1] \in Ids \cup {NoId} /\ Tail(items) \in Seq(Ids \cup {NoId}) BY <2>1
  <2>3. /\ calls' = Append(calls, Loop("import", items[1], Tail(items)))
        /\ UNCHANGED <<desktop, copies, panel>>
    BY <1>3 DEF ImportSessions, Invoke, Loop
  <2>4. BulkOK' BY <2>3 DEF SessionsInv, BulkOK, panel
  <2>5. "import" \in Ops BY DEF Ops
  <2> DEFINE c == Loop("import", items[1], Tail(items))
  <2>6. WellFormed(c) /\ c.reply = <<>> BY <2>2, <2>5, LoopsAreWellFormed
  <2> HIDE DEF c
  <2>7. calls' = Append(calls, c) BY <2>3 DEF c
  <2>8. QED BY <2>3, <2>4, <2>6, <2>7, PressIsSafe
<1>4. ASSUME NEW P \in Picks, Pick(P) PROVE SessionsInv'
  <2>1. UNCHANGED <<desktop, copies, calls>> /\ picked' = P /\ bulkConfirm' = FALSE BY <1>4 DEF Pick
  <2>2. P \subseteq Ids BY DEF Picks, SessionsInv, ShownOK
  <2>3. BulkOK' BY <2>1, <2>2 DEF BulkOK
  <2>4. QED BY <2>1, <2>3, PressIsSafe
<1>5. QED BY <1>1, <1>2, <1>3, <1>4

\* The loop of the second press names each of the sessions that are picked, and no other.
LEMMA LoopOverThePicked ==
    ASSUME NEW P, P \subseteq Ids, P # {}, NEW order \in [1..Cardinality(P) -> P], Range(order) = P
    PROVE  /\ order[1] \in P /\ Tail(order) \in Seq(P)
           /\ {order[1]} \cup Range(Tail(order)) \subseteq P
<1> DEFINE n == Cardinality(P)
<1>1. IsFiniteSet(P) BY SessionsAssumption, FS_Subset
<1>2. n \in Nat /\ n # 0 BY <1>1, FS_CardinalityType, FS_EmptySet
<1> HIDE DEF n
<1>3. order \in [1..n -> P] BY DEF n
<1>4. order \in Seq(P) /\ Len(order) = n BY <1>2, <1>3
<1>5. order # <<>> BY <1>2, <1>4
<1>6. order[1] \in P
  <2>1. 1 \in 1..n BY <1>2
  <2>2. QED BY <1>3, <2>1
<1>7. Tail(order) \in Seq(P) BY <1>4, <1>5
<1>8. Range(Tail(order)) \subseteq P
  <2> DEFINE s == Tail(order)
  <2>1. s \in Seq(P) BY <1>7
  <2> HIDE DEF s
  <2>2. \A k \in DOMAIN s : s[k] \in P BY <2>1
  <2>3. Range(s) \subseteq P BY <2>2 DEF Range
  <2>4. QED BY <2>3 DEF s
<1>9. QED BY <1>6, <1>7, <1>8

LEMMA DeletePickedStep ==
    ASSUME SessionsInv, DeletePicked
    PROVE  SessionsInv' /\ (calls' # calls => BulkDeleteWasAnnounced)
<1>1. UNCHANGED <<desktop, copies, picked>> /\ picked # {} /\ picked \subseteq Ids
  BY DEF DeletePicked, SessionsInv, BulkOK
<1>2. CASE ~bulkConfirm
  <2>1. bulkConfirm' /\ announced' = picked /\ UNCHANGED calls BY <1>2 DEF DeletePicked
  <2>2. BulkOK' BY <1>1, <2>1 DEF BulkOK
  <2>3. QED BY <1>1, <2>1, <2>2, PressIsSafe
<1>3. CASE bulkConfirm
  <2>1. /\ UNCHANGED <<bulkConfirm, announced>>
        /\ \E order \in [1..Cardinality(picked) -> picked] :
              /\ Range(order) = picked
              /\ calls' = Append(calls, Loop("bulk", order[1], Tail(order)))
    BY <1>3 DEF DeletePicked, Invoke, Loop
  <2>2. PICK order \in [1..Cardinality(picked) -> picked] :
            /\ Range(order) = picked
            /\ calls' = Append(calls, Loop("bulk", order[1], Tail(order)))
    BY <2>1
  <2> DEFINE c == Loop("bulk", order[1], Tail(order))
  <2>3. /\ order[1] \in picked /\ Tail(order) \in Seq(picked)
        /\ {order[1]} \cup Range(Tail(order)) \subseteq picked
    BY <1>1, <2>2, LoopOverThePicked
  <2>4. order[1] \in Ids \cup {NoId} /\ Tail(order) \in Seq(Ids \cup {NoId}) /\ "bulk" \in Ops
    <3>1. \A s \in Seq(picked) : s \in Seq(Ids \cup {NoId}) BY <1>1
    <3>2. QED BY <1>1, <2>3, <3>1 DEF Ops
  <2>5. WellFormed(c) /\ c.reply = <<>> /\ c.id = order[1] /\ c.rest = Tail(order)
    BY <2>4, LoopsAreWellFormed
  <2> HIDE DEF c
  <2>6. calls' = Append(calls, c) BY <2>2 DEF c
  <2>7. BulkOK' BY <1>1, <2>1 DEF SessionsInv, BulkOK
  <2>8. SessionsInv' BY <1>1, <2>5, <2>6, <2>7, PressIsSafe
  <2>9. calls'[Len(calls')] = c
    <3> DEFINE S == {calls[k] : k \in 1..Len(calls)} \cup {c}
    <3>1. calls \in Seq(S) /\ c \in S
      <4>1. calls \in Seq({calls[k] : k \in 1..Len(calls)}) BY CallsAreASequence DEF SessionsInv
      <4>2. QED BY <4>1
    <3> HIDE DEF S
    <3>2. QED BY <2>6, <3>1, AppendProperties
  <2>10. picked \subseteq announced BY <1>3 DEF SessionsInv, BulkOK
  <2>11. {c.id} \cup Range(c.rest) \subseteq announced BY <2>3, <2>5, <2>10
  <2>12. QED BY <2>8, <2>9, <2>11 DEF BulkDeleteWasAnnounced
<1>4. QED BY <1>2, <1>3

LEMMA ChildExitsStep ==
    ASSUME SessionsInv, ChildExits
    PROVE  SessionsInv'
<1>1. UNCHANGED <<sessions, selected, profile, tracked, secrets, used, shown, flagged, calls,
                  picked, bulkConfirm, announced>>
  BY DEF ChildExits, copies, panel
<1>2. DesktopOK(Desktop')
  <2>1. /\ DOMAIN sessions \subseteq Ids /\ sessions \in [DOMAIN sessions -> SessionRecord]
        /\ \A i \in DOMAIN sessions : sessions[i].runtime = "active" => profile = i
    BY DEF SessionsInv, DesktopOK, Desktop, SessionRecord
  <2>2. /\ Desktop'.sessions = sessions /\ Desktop'.profile = profile
        /\ Desktop' = [sessions |-> sessions, selected |-> Desktop'.selected, profile |-> profile,
                       child |-> Desktop'.child, tracked |-> Desktop'.tracked,
                       secrets |-> Desktop'.secrets, used |-> Desktop'.used]
    BY <1>1 DEF Desktop
  <2> HIDE DEF Desktop
  <2>3. QED BY <2>1, <2>2, RebuiltIsOK
<1>3. CallsOK' BY <1>1 DEF SessionsInv, CallsOK
<1>4. AnswersFollow'
  BY <1>1 DEF SessionsInv, AnswersFollow, NewList, NewMarks, Marked, Reply, ListBefore, MarksBefore
<1>5. LatestIsTrue' BY <1>1 DEF SessionsInv, LatestIsTrue, ListBefore, MarksBefore, Reply, Marked
<1>6. ShownOK' /\ BulkOK' BY <1>1 DEF SessionsInv, ShownOK, BulkOK
<1>7. QED BY <1>2, <1>3, <1>4, <1>5, <1>6 DEF SessionsInv

LEMMA SessionsStep ==
    ASSUME SessionsInv, [Next]_vars
    PROVE  SessionsInv'
<1>1. CASE UNCHANGED vars
  <2>1. UNCHANGED <<desktop, copies, calls, picked, bulkConfirm, announced>> BY <1>1 DEF vars, panel
  <2>2. BulkOK' BY <2>1 DEF SessionsInv, BulkOK
  <2>3. QED BY <2>1, <2>2, PressIsSafe
<1>2. CASE Next
  <2>1. CASE \E k \in DOMAIN calls, fault \in Faults : Serve(k, fault) BY <2>1, ServeStep
  <2>2. CASE Deliver BY <2>2, DeliverStep
  <2>3. CASE ChildExits BY <2>3, ChildExitsStep
  <2>4. CASE DeletePicked BY <2>4, DeletePickedStep
  <2>5. CASE \/ \E op \in Presses, i \in Ids \cup {NoId} : Press(op, i)
             \/ \E i \in Ids : PressDelete(i) \/ PressDeleteKey(i)
             \/ \E items \in Bundles : ImportSessions(items)
             \/ \E P \in Picks : P # picked /\ Pick(P)
    BY <2>5, PanelStep
  <2>6. QED BY <1>2, <2>1, <2>2, <2>3, <2>4, <2>5 DEF Next
<1>3. QED BY <1>1, <1>2
----------------------------------------------------------------------------
(* The theorems *)

\* The sessions' inductive invariant: every answer on its way makes the browser's list and marks
\* what the desktop's were when the command ran, and the answers follow one another
\* (useDesktopCmSessionController.ts, main.rs).
THEOREM SessionsInductive == DesktopSpec => [](part = "sessions" => SessionsInv)
<1>1. DesktopInit => (part = "sessions" => SessionsInv)
  BY SessionsInit DEF DesktopInit
<1>2. (part = "sessions" => SessionsInv) /\ [DesktopNext]_everything => (part = "sessions" => SessionsInv)'
  <2> SUFFICES ASSUME part = "sessions" => SessionsInv, [DesktopNext]_everything, part' = "sessions"
               PROVE  SessionsInv'
    OBVIOUS
  <2>1. part = "sessions" BY DEF DesktopNext, everything
  <2>2. [Next]_vars BY <2>1 DEF DesktopNext, everything, sessionsOnly, vars
  <2>3. QED BY <2>1, <2>2, SessionsStep
<1>3. QED BY <1>1, <1>2, PTL DEF DesktopSpec

\* The desktop calls a session active only while it keeps its tunnel, whatever command failed at
\* whatever point; and when no command is under way the browser lists the desktop's sessions and
\* marks the one that is selected, in whatever order the buttons were pressed while others were
\* still being answered.
THEOREM SessionsStayTrue == DesktopSpec => []SessionsAreTrue
<1>1. SessionsInv => ActiveIsTheTunnels /\ ListsAgree
  <2> SUFFICES ASSUME SessionsInv PROVE ActiveIsTheTunnels /\ ListsAgree
    OBVIOUS
  <2>1. ActiveIsTheTunnels BY DEF SessionsInv, DesktopOK, Desktop, ActiveIsTheTunnels
  <2>2. ListsAgree
    <3> SUFFICES ASSUME calls = <<>> PROVE DOMAIN shown = DOMAIN sessions /\ flagged = {selected} \cap DOMAIN sessions
      BY DEF ListsAgree
    <3>1. Len(calls) = 0 /\ 1 \in 1..(Len(calls) + 1) /\ 1 \notin DOMAIN calls OBVIOUS
    <3>2. ListBefore(1) = DOMAIN sessions /\ MarksBefore(1) = {selected} \cap DOMAIN sessions
      BY <3>1 DEF SessionsInv, LatestIsTrue
    <3>3. QED BY <3>2 DEF ListBefore, MarksBefore
  <2>3. QED BY <2>1, <2>2
<1>2. (part = "sessions" => SessionsInv) => SessionsAreTrue BY <1>1 DEF SessionsAreTrue
<1>3. QED BY <1>2, SessionsInductive, PTL

\* The second press deletes no session that the first one did not name, however the list changed
\* in between (DesktopCmSessionPanel.tsx, handleDeleteSelectedSessions).
THEOREM DeletesAreAnnounced == DesktopSpec => BulkDeletesAreAnnounced
<1>1. (part = "sessions" => SessionsInv) /\ [DesktopNext]_everything
      => [part = "sessions" => BulkDeleteWasAnnounced]_everything
  BY DeletePickedStep DEF BulkDeleteWasAnnounced
<1>2. QED BY <1>1, SessionsInductive, PTL DEF DesktopSpec, BulkDeletesAreAnnounced
=============================================================================
