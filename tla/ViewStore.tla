----------------------------- MODULE ViewStore -----------------------------
(***************************************************************************)
(* The team's saved views on the server: handleResourceViewsPresets        *)
(* (httpapi/server.go) over memoryResourceViewStore or                     *)
(* fileResourceViewStore (httpapi/resource_views.go).                      *)
(*                                                                         *)
(* A call is one HTTP request.  Saves to the file are made of steps that   *)
(* can fail one by one, and the server process can stop between any two.   *)
(***************************************************************************)
EXTENDS Integers, Sequences, FiniteSets

CONSTANTS
    MaxPresets, \* maxResourceViewPresets
    MaxNameLen, \* maxResourceViewNameLen
    Calls,      \* the requests
    Puts,       \* bodies of PUT requests: sequences of inputs
    OldFiles,   \* what the file may hold when the server is first started
    Storages,   \* the stores newResourceViewStore may choose: "file", "memory"
    MaxNow,     \* the clock shows 1..MaxNow
    MaxRestarts \* bound on the restarts of a behaviour

ASSUME PresetAssumption == MaxPresets \in Nat \ {0} /\ MaxNameLen \in Nat \ {0}

ASSUME StoreAssumption ==
    /\ Storages \subseteq {"file", "memory"}
    /\ MaxNow \in Nat \ {0} /\ MaxRestarts \in Nat

----------------------------------------------------------------------------
(* sanitizeResourceViewPresetInputs: what the server makes of a list of views it is sent, *)
(* or reads back. An input is a record: name, a sequence of characters of which " " is    *)
(* the blank; view, standing for the group and the filters; order, 0 when it is missing,  *)
(* not a number or not positive.                                                          *)

TrimSpace(text) ==
    LET letters == {i \in DOMAIN text : text[i] # " "}
    IN IF letters = {} THEN <<>>
       ELSE SubSeq(text, CHOOSE i \in letters : \A j \in letters : i <= j,
                         CHOOSE i \in letters : \A j \in letters : i >= j)

TruncateString(text) ==
    IF Len(text) <= MaxNameLen THEN text ELSE SubSeq(text, 1, MaxNameLen)

\* The blanks go before the text is cut, so a cut can end in a blank.
PresetName(input) == TruncateString(TrimSpace(input.name))

\* The inputs that count: named, and the first of their name.
Distinct(inputs) ==
    {i \in DOMAIN inputs :
        /\ PresetName(inputs[i]) # <<>>
        /\ \A j \in 1..(i - 1) : PresetName(inputs[j]) # PresetName(inputs[i])}

Position(inputs, i) == Cardinality({j \in Distinct(inputs) : j <= i})

\* The limit cuts in the order of the inputs, before they are sorted.
FirstPresets(inputs) == {i \in Distinct(inputs) : Position(inputs, i) <= MaxPresets}

OrderInput(inputs, i) ==
    IF inputs[i].order > 0 THEN inputs[i].order ELSE Position(inputs, i)

\* Stable sort by order; the place in the result is the new order.
SanitizeInputs(inputs) ==
    LET kept == FirstPresets(inputs)
        order == [i \in kept |-> OrderInput(inputs, i)]
        Before(i, j) == order[i] < order[j] \/ (order[i] = order[j] /\ i < j)
        Place(i) == Cardinality({j \in kept : Before(j, i)}) + 1
        Preset(i) == [name |-> PresetName(inputs[i]), view |-> inputs[i].view]
    IN [n \in 1..Cardinality(kept) |-> Preset(CHOOSE i \in kept : Place(i) = n)]

\* A list of views written with its orders and read again.
Reread(presets) ==
    SanitizeInputs([n \in DOMAIN presets |->
        [name |-> presets[n].name, view |-> presets[n].view, order |-> n]])
----------------------------------------------------------------------------
NoFile == [text |-> "none"]            \* os.ErrNotExist
Malformed == [text |-> "malformed"]    \* what encoding/json rejects
NoReply == [error |-> "none"]
Error(code) == [error |-> code]
NoPresets == [items |-> <<>>, version |-> 0]

VARIABLES
    storage,    \* the store chosen when the server was configured
    now,        \* time.Now().UnixMilli(); the wall clock may be set back
    stored,     \* file: the text at path; memory: the items and metadata
    tmp,        \* the text of .<base>.tmp
    mu,         \* the call that holds mu, "none" when it is free
    pc,         \* pc[c]: where in the handler
    request,    \* request[c]: the method and the sanitized presets
    reply,      \* reply[c]: the answer, NoReply before it is known
    restarts    \* how often the server was restarted

vars == <<storage, now, stored, tmp, mu, pc, request, reply, restarts>>

Errors == {Error("invalid_resource_views"), Error("resource_views_unavailable")}

OldSnapshots == OldFiles \ {NoFile, Malformed}

Sanitized == {SanitizeInputs(inputs) : inputs \in Puts}

\* What each list of views the file can hold is read as.
RereadOf ==
    [items \in Sanitized \cup {text.items : text \in OldSnapshots} |-> Reread(items)]

\* Lists of views as they are saved and as they are read.
Lists == Sanitized \cup {<<>>} \cup {RereadOf[items] : items \in DOMAIN RereadOf}

Snapshots ==
    [items : Lists,
     version : 0..(MaxNow + Cardinality(Calls))
               \cup {text.version : text \in OldSnapshots}]

Init ==
    /\ storage \in Storages
    /\ now = 1
    /\ stored \in IF storage = "file" THEN OldFiles ELSE {NoPresets}
    /\ tmp = NoFile
    /\ mu = "none"
    /\ pc = [c \in Calls |-> "new"]
    /\ request = [c \in Calls |-> [method |-> "GET", presets |-> <<>>]]
    /\ reply = [c \in Calls |-> NoReply]
    /\ restarts = 0
----------------------------------------------------------------------------
GoTo(c, label) == pc' = [pc EXCEPT ![c] = label]
Respond(c, result) == GoTo(c, "respond") /\ reply' = [reply EXCEPT ![c] = result]

Get(c) ==
    /\ pc[c] = "new"
    /\ GoTo(c, "lock")
    /\ UNCHANGED <<storage, now, stored, tmp, mu, request, reply, restarts>>

\* The body is decoded and sanitized before the store is touched.
Put(c) ==
    /\ pc[c] = "new"
    /\ \E inputs \in Puts :
           request' = [request EXCEPT ![c] =
                          [method |-> "PUT", presets |-> SanitizeInputs(inputs)]]
    /\ GoTo(c, "lock")
    /\ UNCHANGED <<storage, now, stored, tmp, mu, reply, restarts>>

PutMalformed(c) ==
    /\ pc[c] = "new"
    /\ Respond(c, Error("invalid_resource_views"))
    /\ UNCHANGED <<storage, now, stored, tmp, mu, request, restarts>>

Lock(c) ==
    /\ pc[c] = "lock" /\ mu = "none"
    /\ mu' = c
    /\ GoTo(c, IF request[c].method = "GET" THEN "list" ELSE "save")
    /\ UNCHANGED <<storage, now, stored, tmp, request, reply, restarts>>

\* The deferred Unlock: every way out of List and Save passes here.
Leave(c, result) == mu' = "none" /\ Respond(c, result)

\* Mutant: the version is the time.
NextVersionNow(current) == now

\* nextResourceViewStoreMetadata
NextVersion(current) == IF current >= now THEN current + 1 ELSE now

\* List of the file store reads, decodes and sanitizes the text again.
ReadBack(text) ==
    IF text = NoFile THEN NoPresets
    ELSE [items |-> RereadOf[text.items], version |-> text.version]

List(c) ==
    /\ pc[c] = "list"
    /\ IF storage = "memory" THEN Leave(c, stored)
       ELSE IF stored = Malformed THEN Leave(c, Error("resource_views_unavailable"))
       ELSE Leave(c, ReadBack(stored))
    /\ UNCHANGED <<storage, now, stored, tmp, request, restarts>>

\* os.Open fails for another reason than a missing file.
ListFails(c) ==
    /\ pc[c] = "list" /\ storage = "file"
    /\ Leave(c, Error("resource_views_unavailable"))
    /\ UNCHANGED <<storage, now, stored, tmp, request, restarts>>

SaveInMemory(c) ==
    /\ pc[c] = "save" /\ storage = "memory"
    /\ stored' = [items |-> request[c].presets, version |-> NextVersion(stored.version)]
    /\ Leave(c, stored')
    /\ UNCHANGED <<storage, now, tmp, request, restarts>>

\* MkdirAll and OpenFile with O_TRUNC.  The version is taken here, from the
\* time alone: the file store does not look at the version it replaces.
OpenTmp(c) ==
    /\ pc[c] = "save" /\ storage = "file"
    /\ tmp' = Malformed
    /\ reply' = [reply EXCEPT ![c] = [items |-> request[c].presets, version |-> NextVersion(0)]]
    /\ GoTo(c, "write")
    /\ UNCHANGED <<storage, now, stored, mu, request, restarts>>

\* MkdirAll, MarshalIndent or OpenFile fails: there is no file to remove.
OpenTmpFails(c) ==
    /\ pc[c] = "save" /\ storage = "file"
    /\ Leave(c, Error("resource_views_unavailable"))
    /\ UNCHANGED <<storage, now, stored, tmp, request, restarts>>

WriteAndClose(c) ==
    /\ pc[c] = "write"
    /\ tmp' = reply[c]
    /\ GoTo(c, "rename")
    /\ UNCHANGED <<storage, now, stored, mu, request, reply, restarts>>

\* Mutant: the file is written in place, by steps that can be interrupted.
RenameInPlace(c) ==
    /\ pc[c] = "rename"
    /\ IF stored = Malformed
       THEN stored' = tmp /\ tmp' = NoFile /\ Leave(c, reply[c])
       ELSE stored' = Malformed /\ UNCHANGED <<tmp, mu, pc, reply>>
    /\ UNCHANGED <<storage, now, request, restarts>>

Rename(c) ==
    /\ pc[c] = "rename"
    /\ stored' = tmp /\ tmp' = NoFile
    /\ Leave(c, reply[c])
    /\ UNCHANGED <<storage, now, request, restarts>>

\* Write, Close or Rename fails: the deferred Remove, then Unlock.
SaveFails(c) ==
    /\ pc[c] \in {"write", "rename"}
    /\ tmp' = NoFile
    /\ Leave(c, Error("resource_views_unavailable"))
    /\ UNCHANGED <<storage, now, stored, request, restarts>>

Done(c) ==
    /\ pc[c] = "respond"
    /\ GoTo(c, "done")
    /\ UNCHANGED <<storage, now, stored, tmp, mu, request, reply, restarts>>

\* The server process stops, at any moment, and is started again.
Restart ==
    /\ restarts < MaxRestarts
    /\ restarts' = restarts + 1
    /\ pc' = [c \in Calls |-> IF pc[c] \in {"new", "done"} THEN pc[c] ELSE "lost"]
    /\ mu' = "none"
    /\ stored' = IF storage = "memory" THEN NoPresets ELSE stored
    /\ UNCHANGED <<storage, now, tmp, request, reply>>

SetClock ==
    /\ \E time \in 1..MaxNow : now' = time
    /\ UNCHANGED <<storage, stored, tmp, mu, pc, request, reply, restarts>>
----------------------------------------------------------------------------
Step(c) ==
    \/ Lock(c) \/ List(c) \/ ListFails(c) \/ SaveInMemory(c) \/ OpenTmp(c)
    \/ OpenTmpFails(c) \/ WriteAndClose(c) \/ Rename(c) \/ SaveFails(c) \/ Done(c)

Arrive(c) == Get(c) \/ Put(c) \/ PutMalformed(c)

Next == (\E c \in Calls : Arrive(c) \/ Step(c)) \/ Restart \/ SetClock

Spec == Init /\ [][Next]_vars
----------------------------------------------------------------------------
\* Calls that got a list of views for an answer.
Answered == {c \in Calls : pc[c] \in {"respond", "done"} /\ reply[c] \in Snapshots}

\* Whoever sent what, and whatever an old file held: the views of an answer
\* have names, no two the same, and are at most maxResourceViewPresets
\* (sanitizeResourceViewPresetInputs).
AnswersAreWellFormed ==
    \A c \in Answered :
        /\ Len(reply[c].items) <= MaxPresets
        /\ \A i, j \in DOMAIN reply[c].items :
               /\ reply[c].items[i].name # <<>>
               /\ i # j => reply[c].items[i].name # reply[c].items[j].name

\* The mutex is held by exactly the call that is in List or Save: two saves
\* never overlap, and no error path leaves it locked behind a call that has gone.
MutexHeldInside ==
    \A c \in Calls : mu = c <=> pc[c] \in {"list", "save", "write", "rename"}

\* Save leaves no temporary file, on any of its error paths (the deferred
\* os.Remove); only a process that stopped in the middle does.
NoStrayFiles == tmp # NoFile => mu # "none" \/ restarts > 0

\* Two answers of one process with the same version show the same views, even
\* when the wall clock is set back: the reason nextResourceViewStoreMetadata
\* looks at the version it replaces.  Only the memory store passes it on.
VersionTellsViewsApart ==
    storage = "memory" /\ restarts = 0 =>
        \A c, d \in Answered :
            reply[c].version = reply[d].version => reply[c].items = reply[d].items

\* TestResourceViewPresetsFileStore: what a PUT answered is what is read back.
SavedViewsReadBack ==
    \A c \in Answered :
        request[c].method = "PUT" /\ stored = reply[c] => ReadBack(stored) = reply[c]

\* What the register the endpoint is shows of the store.
Visible ==
    IF stored = Malformed \/ storage = "memory" THEN stored ELSE ReadBack(stored)

StatusOf(label) ==
    CASE label = "new" -> "new"
      [] label \in {"lock", "list", "save", "write", "rename"} -> "open"
      [] label = "respond" -> "effective"
      [] label = "done" -> "answered"
      [] label = "lost" -> "lost"

Progress == [c \in Calls |-> StatusOf(pc[c])]

Replies == [c \in Calls |-> IF pc[c] \in {"respond", "done"} THEN reply[c] ELSE NoReply]

\* The register (MCViews: ImplementsRegister).
Register == INSTANCE ViewRegister
    WITH Values <- Snapshots, Empty <- NoPresets, Unreadable <- Malformed, NoAnswer <- NoReply,
         durable <- storage = "file", value <- Visible, status <- Progress, answer <- Replies
==============================================================================
