--------------------------- MODULE DesktopSessions ---------------------------
(***************************************************************************)
(* The SSH sessions of the desktop application.                            *)
(*                                                                         *)
(* The desktop side (main.rs) keeps the sessions, at most one tunnel (a    *)
(* profile, a child process and its private key file) and the keys in the  *)
(* credential store of the operating system.  A command runs on the main   *)
(* thread from its start to its end, so serving one is one step.           *)
(*                                                                         *)
(* The browser side (useDesktopCmSessionController and the panel that      *)
(* drives it) has copies: it invokes commands and, when the answer comes,  *)
(* changes the copies with what its closure saw (prev, the profile when    *)
(* the handler started).  A button is disabled only while its own action   *)
(* is the busy one, so several commands may be under way; they are served  *)
(* and answered in the order they were invoked.                            *)
(*                                                                         *)
(* A session is its id, whether it has a credential and the state of its   *)
(* runtime; names, endpoints, diagnostics and messages are left out.       *)
(***************************************************************************)
EXTENDS Naturals, Sequences, FiniteSets, Functions

CONSTANTS
    Ids,            \* ids of sessions, NoId is none of them
    Saved,          \* bound: the sessions, with a credential, at the start
    NoId,           \* no session
    MaxAsks,        \* bound: what the user does
    MaxCalls        \* bound: commands under way

ASSUME SessionsAssumption == IsFiniteSet(Ids) /\ Saved \subseteq Ids /\ NoId \notin Ids

VARIABLES
    \* the desktop side
    sessions,       \* cm_sessions: id -> credential and runtime
    selected,       \* selected_cm_session_id
    profile,        \* cm_runtime_profile's session
    child,          \* cm_runtime_child: none, running or exited
    tracked,        \* cm_runtime_temp_files: sessions whose key file is tracked
    secrets,        \* the credential store
    used,           \* ids given out: a generated id has the time in it
    \* the browser side
    shown, flagged, \* sessions and those marked as selected
    shownProfile,   \* runtimeProfile, and the profile in the session storage
    calls,          \* commands under way, in order
    busy,           \* busyAction
    deleteConfirm, keyConfirm,              \* the second press of the two buttons
    picked, bulkConfirm, announced,         \* selectedBulkSessionIds, bulkDeleteConfirm and what it named
    asks

tunnel  == <<profile, child, tracked>>
desktop == <<sessions, selected, tunnel, secrets, used>>
copies  == <<shown, flagged, shownProfile>>
panel   == <<deleteConfirm, keyConfirm, picked, bulkConfirm, announced>>
vars    == <<desktop, copies, calls, busy, panel, asks>>

Idle     == <<>>

Call(op, id) == [op |-> op, id |-> id, prev |-> shownProfile, rest |-> <<>>, reply |-> <<>>]

\* The page is opened, or opened again while a tunnel runs.
Init ==
    /\ profile \in Saved \cup {NoId}
    /\ selected \in IF profile = NoId THEN Saved \cup {NoId} ELSE {profile}
    /\ sessions = [i \in Saved |-> [cred |-> TRUE, runtime |-> IF i = profile THEN "active" ELSE "stopped"]]
    /\ child = IF profile = NoId THEN "none" ELSE "running"
    /\ tracked = {profile} \ {NoId}
    /\ secrets = Saved /\ used = Saved
    /\ shown = <<>> /\ flagged = {} /\ shownProfile = NoId
    /\ calls = <<[op |-> "list", id |-> NoId, prev |-> NoId, rest |-> <<>>, reply |-> <<>>],
                 [op |-> "runtime", id |-> NoId, prev |-> NoId, rest |-> <<>>, reply |-> <<>>]>>
    /\ busy = Idle /\ deleteConfirm = NoId /\ keyConfirm = NoId
    /\ picked = {} /\ bulkConfirm = FALSE /\ announced = {} /\ asks = 0

(***************************** the commands ********************************)
\* The state of the desktop as one value, which a command maps to another and to its outcome.
Desktop == [sessions |-> sessions, selected |-> selected, profile |-> profile, child |-> child,
            tracked |-> tracked, secrets |-> secrets, used |-> used]

Fail(d)   == [d |-> d, ok |-> FALSE]
Done(d)   == [d |-> d, ok |-> TRUE]
Has(d, i) == i \in DOMAIN d.sessions

Put(d, i, s)   == [d EXCEPT !.sessions = [j \in DOMAIN d.sessions \cup {i} |-> IF j = i THEN s ELSE d.sessions[j]]]
Mark(d, i, r)  == IF Has(d, i) THEN [d EXCEPT !.sessions[i].runtime = r] ELSE d

\* The profile, the process and the key files are given up.
NoTunnel(d) == [d EXCEPT !.profile = NoId, !.child = "none", !.tracked = {}]

\* stop_cm_session_runtime_state
Stopped(d) == Mark(NoTunnel(d), d.profile, "stopped")

StoppedIfActive(d, i) == IF d.profile = i THEN Stopped(d) ELSE d

\* desktop_save_cm_session: the record is made anew; the credential is looked up in the store.
Save(d, i, storeFails) ==
    LET e == StoppedIfActive(d, i) IN
    Done([Put(e, i, [cred |-> i \in d.secrets /\ ~storeFails, runtime |-> "stopped"]) EXCEPT !.used = @ \cup {i}])

\* desktop_select_cm_session
Select(d, i) ==
    IF ~Has(d, i) THEN Fail(d)
    ELSE Done([d EXCEPT !.selected = i,
                        !.sessions = [j \in DOMAIN d.sessions |-> [d.sessions[j] EXCEPT
                            !.runtime = IF j = i /\ d.profile = i THEN "active" ELSE "stopped"]]])

\* desktop_delete_cm_session: the credential must go, unless the session is not known to have one.
Delete(d, i, storeFails) ==
    LET e == StoppedIfActive(d, i) IN
    IF ~Has(d, i) \/ (e.sessions[i].cred /\ storeFails) THEN Fail(e)
    ELSE Done([e EXCEPT !.sessions = [j \in DOMAIN e.sessions \ {i} |-> e.sessions[j]],
                        !.secrets = IF storeFails THEN @ ELSE @ \ {i},
                        !.selected = IF @ = i THEN NoId ELSE @])

\* desktop_import_cm_session_private_key: the key is stored before the session is looked for.
ImportKey(d, i, storeFails) ==
    LET e == [d EXCEPT !.secrets = @ \cup {i}] IN
    IF storeFails THEN Fail(d) ELSE IF ~Has(d, i) THEN Fail(e)
    ELSE Done([e EXCEPT !.sessions[i].cred = TRUE])

\* desktop_delete_cm_session_credential
DeleteKey(d, i, storeFails) ==
    LET e == StoppedIfActive(d, i)
        f == [e EXCEPT !.secrets = @ \ {i}] IN
    IF storeFails THEN Fail(e) ELSE IF ~Has(d, i) THEN Fail(f)
    ELSE Done([f EXCEPT !.sessions[i] = [cred |-> FALSE, runtime |-> "stopped"]])

\* desktop_check_cm_session
CheckSession(d, i, storeFails) ==
    IF ~Has(d, i) THEN Fail(d) ELSE Done([d EXCEPT !.sessions[i].cred = i \in d.secrets /\ ~storeFails])

\* desktop_start_cm_session_runtime: the running tunnel is stopped first, whatever comes of the new
\* one, which fails without a key, or later for want of a local port or a process.
Start(d, i, fault) ==
    LET e == Stopped(d)
        Rested(s) == IF s.runtime = "active" THEN [s EXCEPT !.runtime = "stopped"] ELSE s IN
    IF ~Has(d, i) \/ i \notin d.secrets \/ fault = "store" THEN Fail(d)
    ELSE IF fault # "none" THEN Fail(Mark(e, i, "unhealthy"))
    ELSE Done([e EXCEPT !.profile = i, !.child = "running", !.tracked = {i}, !.selected = i,
                        !.sessions = [j \in DOMAIN e.sessions |->
                            IF j = i THEN [cred |-> TRUE, runtime |-> "active"] ELSE Rested(e.sessions[j])]])

\* check_cm_session_runtime_state
CheckRuntime(d, healthy) ==
    IF d.profile = NoId THEN Done(d)
    ELSE IF d.child # "running" THEN Done(Mark(NoTunnel(d), d.profile, "lost"))
    ELSE Done(Mark(d, d.profile, IF healthy THEN "active" ELSE "unhealthy"))

Faults == {"none", "store", "process"}

Run(d, c, i, fault) ==
    CASE c.op \in {"save", "import"}    -> Save(d, i, fault = "store")
      [] c.op = "select"                -> Select(d, i)
      [] c.op \in {"delete", "bulk"}    -> Delete(d, i, fault = "store")
      [] c.op = "import-key"            -> ImportKey(d, i, fault = "store")
      [] c.op = "delete-key"            -> DeleteKey(d, i, fault = "store")
      [] c.op = "check"                 -> CheckSession(d, i, fault = "store")
      [] c.op = "start"                 -> Start(d, i, fault)
      [] c.op = "stop"                  -> Done(Stopped(d))
      [] c.op \in {"runtime", "check-runtime"} -> CheckRuntime(d, fault = "none")
      [] OTHER                          -> Done(d)

\* The next command is run: a save without an id gets a new one.
Serve(k, fault) ==
    /\ k \in DOMAIN calls /\ calls[k].reply = <<>> /\ \A j \in 1..(k - 1) : calls[j].reply # <<>>
    /\ \E i \in (IF calls[k].op \in {"save", "import"} /\ calls[k].id = NoId THEN Ids \ used ELSE {calls[k].id}) :
        LET r == Run(Desktop, calls[k], i, fault) IN
        /\ sessions' = r.d.sessions /\ selected' = r.d.selected
        /\ profile' = r.d.profile /\ child' = r.d.child /\ tracked' = r.d.tracked
        /\ secrets' = r.d.secrets /\ used' = r.d.used
        /\ calls' = [calls EXCEPT ![k].id = i,
                         ![k].reply = <<[ok |-> r.ok, sessions |-> r.d.sessions, selected |-> r.d.selected, profile |-> r.d.profile]>>]
    /\ UNCHANGED <<copies, busy, panel, asks>>

\* The ssh process ends by itself.
ChildExits ==
    /\ child = "running"
    /\ child' = "exited"
    /\ UNCHANGED <<sessions, selected, profile, tracked, secrets, used, copies, calls, busy, panel, asks>>

(***************************** the answers *********************************)
\* upsertDesktopCmSession with the session of the answer.
Upsert(i, r) ==
    /\ shown' = [j \in DOMAIN shown \cup {i} |-> IF j = i THEN r.sessions[i] ELSE shown[j]]
    /\ flagged' = (flagged \ {i}) \cup ({r.selected} \cap {i})

ReplaceAll(r) == shown' = r.sessions /\ flagged' = {r.selected} \cap DOMAIN r.sessions

SetRuntimes(f) == shown' = [j \in DOMAIN shown |-> [shown[j] EXCEPT !.runtime = f[j]]]

ForgetIfOwn(c) == shownProfile' = IF c.prev = c.id THEN NoId ELSE shownProfile

\* Mutant: the session that was selected before keeps its mark.
SelectedAdded(c) == flagged' = flagged \cup {c.id} /\ UNCHANGED <<shown, shownProfile>>
\* selectSession
Selected(c) == flagged' = {c.id} /\ UNCHANGED <<shown, shownProfile>>

\* startRuntime
Started(c) ==
    /\ shownProfile' = c.id
    /\ SetRuntimes([j \in DOMAIN shown |-> IF j = c.id THEN "active" ELSE "stopped"])
    /\ flagged' = {c.id} \cap DOMAIN shown

\* stopRuntime
StoppedShown(c) ==
    /\ shownProfile' = NoId
    /\ SetRuntimes([j \in DOMAIN shown |-> IF j = c.prev THEN "stopped" ELSE shown[j].runtime])
    /\ UNCHANGED flagged

\* checkRuntime
Checked(c, r) ==
    /\ shownProfile' = r.profile
    /\ IF r.profile = NoId
       THEN SetRuntimes([j \in DOMAIN shown |-> IF j = c.prev THEN "lost" ELSE shown[j].runtime])
       ELSE SetRuntimes([j \in DOMAIN shown |-> IF j = r.profile THEN r.sessions[j].runtime ELSE shown[j].runtime])
    /\ UNCHANGED flagged

Applied(c, r) ==
    CASE c.op = "list"                       -> ReplaceAll(r) /\ UNCHANGED shownProfile
      [] c.op = "runtime"                    -> shownProfile' = r.profile /\ UNCHANGED <<shown, flagged>>
      [] c.op \in {"save", "import", "import-key", "check"} -> Upsert(c.id, r) /\ UNCHANGED shownProfile
      [] c.op = "select"                     -> Selected(c)
      [] c.op \in {"delete", "bulk"}         -> ReplaceAll(r) /\ ForgetIfOwn(c)
      [] c.op = "delete-key"                 -> Upsert(c.id, r) /\ ForgetIfOwn(c)
      [] c.op = "start"                      -> Started(c)
      [] c.op = "stop"                       -> StoppedShown(c)
      [] OTHER                               -> Checked(c, r)

\* The panel's part of a handler after its await: confirmations are reset when it succeeded.
AfterSuccess(c) ==
    /\ deleteConfirm' = IF c.op \in {"delete", "bulk"} THEN NoId ELSE deleteConfirm
    /\ keyConfirm' = IF c.op \in {"import-key", "delete-key", "bulk"} THEN NoId ELSE keyConfirm

\* The effects on the sessions keep only existing sessions picked, and no confirmation for none.
Picked(P, confirm) ==
    /\ picked' = P \cap DOMAIN shown'
    /\ bulkConfirm' = (confirm /\ picked' # {})
    /\ announced' = IF bulkConfirm' THEN announced ELSE {}

\* An answer arrives.  The loops over an import and over a selection go on with the next command
\* (its closure is the loop's), and stop at the first that fails.
Deliver ==
    /\ calls # <<>> /\ Head(calls).reply # <<>>
    /\ LET c == Head(calls)
           r == c.reply[1] IN
       /\ IF r.ok THEN Applied(c, r) ELSE UNCHANGED copies
       /\ IF r.ok /\ c.rest # <<>>
          THEN /\ calls' = Append(Tail(calls), [c EXCEPT !.id = Head(c.rest), !.rest = Tail(c.rest), !.reply = <<>>])
               /\ busy' = busy
               /\ UNCHANGED <<deleteConfirm, keyConfirm>>
               /\ Picked(picked, bulkConfirm)
          ELSE /\ calls' = Tail(calls)
               /\ busy' = IF c.op \in {"list", "runtime"} THEN busy ELSE Idle
               /\ IF r.ok THEN AfterSuccess(c) ELSE UNCHANGED <<deleteConfirm, keyConfirm>>
               /\ IF r.ok /\ c.op = "bulk" THEN Picked({}, FALSE) ELSE Picked(picked, bulkConfirm)
    /\ UNCHANGED <<desktop, asks>>

(***************************** the panel ***********************************)
Event == asks < MaxAsks /\ asks' = asks + 1

Invoke(call, name) == Len(calls) < MaxCalls /\ calls' = Append(calls, call) /\ busy' = name

NotBusy(op, i) == busy # <<op, i>>

\* The actions of one press: each invokes its command for a session of the list.
Press(op, i) ==
    /\ Event
    /\ CASE op = "save"                -> i = NoId \/ i \in DOMAIN shown
         [] op = "start"               -> i \in DOMAIN shown /\ shown[i].cred /\ i # shownProfile
         [] op \in {"stop", "check-runtime"} -> i = NoId /\ shownProfile \in DOMAIN shown
         [] OTHER                      -> i \in DOMAIN shown
    /\ op = "select" \/ NotBusy(op, i)
    /\ Invoke(Call(op, i), <<op, i>>)
    /\ UNCHANGED <<desktop, copies, panel>>

\* handleDelete and handleCredentialDelete: the second press invokes the command.
PressDelete(i) ==
    /\ Event /\ i \in DOMAIN shown
    /\ NotBusy("delete", i) /\ NotBusy("select", i)
    /\ IF deleteConfirm # i
       THEN deleteConfirm' = i /\ UNCHANGED <<calls, busy>>
       ELSE deleteConfirm' = deleteConfirm /\ Invoke(Call("delete", i), <<"delete", i>>)
    /\ UNCHANGED <<desktop, copies, keyConfirm, picked, bulkConfirm, announced>>

PressDeleteKey(i) ==
    /\ Event /\ i \in DOMAIN shown /\ shown[i].cred /\ NotBusy("delete-key", i)
    /\ IF keyConfirm # i
       THEN keyConfirm' = i /\ UNCHANGED <<calls, busy>>
       ELSE keyConfirm' = keyConfirm /\ Invoke(Call("delete-key", i), <<"delete-key", i>>)
    /\ UNCHANGED <<desktop, copies, deleteConfirm, picked, bulkConfirm, announced>>

\* handleImportSessions: each item is a save, of the session its endpoint is known by or of a new one.
ImportSessions(items) ==
    /\ Event /\ NotBusy("import", NoId)
    /\ \A k \in DOMAIN items : items[k] = NoId \/ items[k] \in DOMAIN shown
    /\ Invoke([Call("import", items[1]) EXCEPT !.rest = Tail(items)], <<"import", NoId>>)
    /\ UNCHANGED <<desktop, copies, panel>>

\* Mutant: a pick keeps the confirmation.
PickKeepingConfirm(P) ==
    /\ picked' = P /\ bulkConfirm' = (bulkConfirm /\ P # {}) /\ announced' = announced
    /\ UNCHANGED <<desktop, copies, calls, busy, deleteConfirm, keyConfirm, asks>>

\* One session, a group, all the visible ones or none are picked, as often as one likes; the
\* confirmation is taken back.
Pick(P) ==
    /\ picked' = P /\ bulkConfirm' = FALSE /\ announced' = {}
    /\ UNCHANGED <<desktop, copies, calls, busy, deleteConfirm, keyConfirm, asks>>

\* handleDeleteSelectedSessions
DeletePicked ==
    /\ Event /\ picked # {} /\ NotBusy("bulk", NoId)
    /\ IF ~bulkConfirm
       THEN bulkConfirm' = TRUE /\ announced' = picked /\ UNCHANGED <<calls, busy>>
       ELSE /\ UNCHANGED <<bulkConfirm, announced>>
            /\ \E order \in [1..Cardinality(picked) -> picked] :
                  /\ Range(order) = picked
                  /\ Invoke([Call("bulk", order[1]) EXCEPT !.rest = Tail(order)], <<"bulk", NoId>>)
    /\ UNCHANGED <<desktop, copies, deleteConfirm, keyConfirm, picked>>

-----------------------------------------------------------------------------
Presses == {"save", "select", "import-key", "check", "start", "stop", "check-runtime"}
\* Bounds: the selected session (or none) or all are picked; a bundle has two items.
Picks   == {flagged, DOMAIN shown}
Bundles == {<<x, NoId>> : x \in Ids \cup {NoId}}     \* the last item is always a new one

Next ==
    \/ \E k \in DOMAIN calls, fault \in Faults : Serve(k, fault)
    \/ Deliver \/ ChildExits \/ DeletePicked
    \/ \E op \in Presses, i \in Ids \cup {NoId} : Press(op, i)
    \/ \E i \in Ids : PressDelete(i) \/ PressDeleteKey(i)
    \/ \E items \in Bundles : ImportSessions(items)
    \/ \E P \in Picks : P # picked /\ Pick(P)

Spec == Init /\ [][Next]_vars

(***************************** properties **********************************)
\* The desktop calls a session's runtime active only while it is the one whose tunnel it keeps:
\* saving, selecting, deleting, losing the key, another start, a failed start and a lost process
\* all leave no other session active.
ActiveIsTheTunnels ==
    \A i \in DOMAIN sessions : sessions[i].runtime = "active" => profile = i

\* When no command is under way the browser lists the desktop's sessions and marks the selected
\* one, whatever was saved, imported, deleted, selected or started at the same time.
ListsAgree ==
    calls = <<>> => DOMAIN shown = DOMAIN sessions /\ flagged = {selected} \cap DOMAIN sessions

\* The second press deletes no session that the first one did not name.
BulkDeleteWasAnnounced ==
    DeletePicked /\ calls' # calls =>
        LET c == calls'[Len(calls')] IN {c.id} \cup Range(c.rest) \subseteq announced
=============================================================================
