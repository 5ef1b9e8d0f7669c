--------------------------- MODULE PipelineProofs ---------------------------
(***************************************************************************)
(* Theorems about MCPipeline: a list request (KubeList) of any collection, *)
(* limits and API versions, against honest and faulty servers; a snapshot  *)
(* (SnapshotCollection) of any lists with any concurrency; and the graph   *)
(* (SnapshotGraph) of any lists of objects and EndpointSlices.             *)
(***************************************************************************)
EXTENDS MCPipeline, SequenceTheorems, FiniteSetTheorems, FunctionTheorems, TLAPS

----------------------------------------------------------------------------
(* A list request *)

ItemList == Seq([version : STRING, page : Nat])

ListTypeOK ==
    /\ collection \in Collections /\ honest \in BOOLEAN
    /\ attempt \in DOMAIN Versions
    /\ pageIndex \in 0..MaxPages
    /\ nextToken \in DOMAIN collection \cup {L!NoToken}
    /\ items \in ItemList /\ out \in ItemList
    /\ count \in 0..MaxItems /\ totalBytes \in 0..MaxTotalBytes
    /\ requested \in Seq(Int)

\* One page is asked for and appended per turn of the loop.
TurnsOK ==
    /\ Len(items) <= MaxPages /\ Len(requested) <= MaxPages
    /\ result = "running" => Len(items) = pageIndex /\ Len(requested) = pageIndex
    /\ result # "found" => out = <<>>
    /\ result = "found" => out = items

\* What is sent next was not sent before: everything sent is remembered.
TokensOK ==
    /\ L!NoTokenSentTwice
    /\ result = "running" =>
         /\ nextToken \in seenTokens \cup {L!NoToken}
         /\ \A i \in DOMAIN requested :
              requested[i] \in seenTokens \cup {L!NoToken} /\ requested[i] # nextToken

Prefix == [p \in 1..pageIndex |-> L!Received(p)]

\* An honest server is read page by page, from the first.
HonestOK ==
    honest =>
        /\ result = "running" =>
             /\ items = Prefix
             /\ nextToken = IF pageIndex = 0 THEN L!NoToken ELSE pageIndex + 1
        /\ result = "found" => out = [p \in L!Pages |-> L!Received(p)]

ListInv == ListTypeOK /\ TurnsOK /\ TokensOK /\ HonestOK

LEMMA Limits ==
    /\ MaxPages \in Nat /\ MaxItems \in Nat /\ MaxPageBytes \in Nat /\ MaxTotalBytes \in Nat
    /\ Len(Versions) \in Nat \ {0} /\ DOMAIN Versions = 1..Len(Versions)
    /\ \A v \in DOMAIN Versions : Versions[v] \in STRING
BY PipelineAssumption, EmptySeq, LenProperties, ElementOfSeq

LEMMA CollectionPages ==
    ASSUME NEW c \in Collections
    PROVE  /\ Len(c) \in Nat \ {0} /\ DOMAIN c = 1..Len(c)
           /\ \A p \in 1..Len(c) : c[p].items \in Nat /\ c[p].bytes \in Nat
<1>1. c \in Seq([items : Nat, bytes : Nat]) /\ c # <<>> BY PipelineAssumption
<1>2. Len(c) \in Nat \ {0} /\ DOMAIN c = 1..Len(c) BY <1>1, EmptySeq, LenProperties
<1>3. \A p \in 1..Len(c) : c[p] \in [items : Nat, bytes : Nat] BY <1>1, ElementOfSeq
<1>4. QED BY <1>2, <1>3

LEMMA ListInitInv == L!Init => ListInv
<1> SUFFICES ASSUME L!Init PROVE ListInv
  OBVIOUS
<1>1. /\ items = <<>> /\ out = <<>> /\ requested = <<>> /\ Len(<<>>) = 0
      /\ \A S : <<>> \in Seq(S)
  BY EmptySeq DEF L!Init
<1>2. ListTypeOK BY <1>1, Limits DEF L!Init, ListTypeOK, ItemList
<1>3. TurnsOK BY <1>1, Limits DEF L!Init, TurnsOK
<1>4. TokensOK BY <1>1 DEF L!Init, TokensOK, L!NoTokenSentTwice
<1>5. HonestOK
  <2>1. Prefix = <<>> BY DEF L!Init, Prefix
  <2>2. QED BY <1>1, <2>1 DEF L!Init, HonestOK
<1>6. QED BY <1>2, <1>3, <1>4, <1>5 DEF ListInv

\* A request is sent: its token is new.
LEMMA Sent ==
    ASSUME ListInv, result = "running", pageIndex < MaxPages,
           requested' = Append(requested, nextToken)
    PROVE  /\ requested' \in Seq(Int) /\ Len(requested') = pageIndex + 1
           /\ Len(requested') <= MaxPages
           /\ L!NoTokenSentTwice'
           /\ \A i \in DOMAIN requested' : requested'[i] \in seenTokens \cup {L!NoToken}
<1>1. nextToken \in Int
  BY CollectionPages DEF ListInv, ListTypeOK, L!NoToken
<1>2. /\ requested \in Seq(Int) /\ Len(requested) = pageIndex /\ pageIndex \in Nat
      /\ MaxPages \in Nat
  BY Limits DEF ListInv, ListTypeOK, TurnsOK
<1>3. /\ requested' \in Seq(Int) /\ Len(requested') = pageIndex + 1
      /\ DOMAIN requested' = 1..(pageIndex + 1) /\ DOMAIN requested = 1..pageIndex
      /\ \A i \in 1..pageIndex : requested'[i] = requested[i]
      /\ requested'[pageIndex + 1] = nextToken
  BY <1>1, <1>2, AppendProperties, LenProperties
<1>4. \A i \in 1..pageIndex : requested[i] \in seenTokens \cup {L!NoToken}
                              /\ requested[i] # nextToken
  BY <1>3 DEF ListInv, TokensOK
<1>5. \A i, j \in 1..pageIndex : i # j => requested[i] # requested[j]
  BY <1>3 DEF ListInv, TokensOK, L!NoTokenSentTwice
<1>6. L!NoTokenSentTwice' BY <1>2, <1>3, <1>4, <1>5 DEF L!NoTokenSentTwice
<1>7. nextToken \in seenTokens \cup {L!NoToken} BY DEF ListInv, TokensOK
<1>8. QED BY <1>2, <1>3, <1>4, <1>6, <1>7

LEMMA FailInv ==
    ASSUME ListInv, L!Requesting, NEW reason, reason \notin {"running", "found"},
           L!Fail(reason)
    PROVE  ListInv'
<1>1. result = "running" /\ pageIndex < MaxPages BY DEF L!Requesting
<1>2. /\ requested' = Append(requested, nextToken) /\ result' = reason
      /\ UNCHANGED <<collection, honest, attempt, pageIndex, nextToken, seenTokens, items,
                     count, totalBytes, out>>
  BY DEF L!Fail, L!server
<1>3. ListTypeOK' BY <1>1, <1>2, Sent DEF ListInv, ListTypeOK
<1>4. TurnsOK' BY <1>1, <1>2, Sent DEF ListInv, TurnsOK
<1>5. TokensOK' BY <1>1, <1>2, Sent DEF TokensOK
<1>6. HonestOK' BY <1>2 DEF HonestOK
<1>7. QED BY <1>3, <1>4, <1>5, <1>6 DEF ListInv

LEMMA NextVersionInv ==
    ASSUME ListInv, L!NextVersion
    PROVE  ListInv'
<1>1. /\ items' = <<>> /\ out' = <<>> /\ requested' = <<>> /\ Len(<<>>) = 0
      /\ \A S : <<>> \in Seq(S)
  BY EmptySeq DEF L!NextVersion
<1>2. attempt' \in DOMAIN Versions BY Limits DEF L!NextVersion, ListInv, ListTypeOK
<1>3. ListTypeOK'
  BY <1>1, <1>2, Limits DEF L!NextVersion, L!server, ListInv, ListTypeOK, ItemList
<1>4. TurnsOK' BY <1>1, Limits DEF L!NextVersion, L!Requesting, TurnsOK
<1>5. TokensOK' BY <1>1 DEF L!NextVersion, TokensOK, L!NoTokenSentTwice
<1>6. HonestOK'
  <2>1. Prefix' = <<>> BY DEF L!NextVersion, Prefix
  <2>2. QED BY <1>1, <2>1 DEF L!NextVersion, L!Requesting, HonestOK
<1>7. QED BY <1>3, <1>4, <1>5, <1>6 DEF ListInv

\* What an accepted page adds.
LEMMA Accepted ==
    ASSUME ListInv, NEW c, L!Accept(c)
    PROVE  /\ result = "running" /\ pageIndex < MaxPages
           /\ L!CurrentPage \in L!Pages /\ L!CurrentPage \in Nat
           /\ items' \in ItemList /\ Len(items') = pageIndex + 1
           /\ count' \in 0..MaxItems /\ totalBytes' \in 0..MaxTotalBytes
           /\ c \notin seenTokens
           /\ honest => /\ L!CurrentPage = pageIndex + 1
                        /\ items' = [p \in 1..(pageIndex + 1) |-> L!Received(p)]
<1>1. result = "running" /\ pageIndex < MaxPages BY DEF L!Accept, L!Requesting
<1>2. pageIndex \in Nat /\ MaxPages \in Nat BY Limits DEF ListInv, ListTypeOK
<1>3. L!CurrentPage \in L!Pages /\ L!CurrentPage \in Nat
  BY CollectionPages DEF ListInv, ListTypeOK, L!CurrentPage, L!Pages, L!NoToken
<1>4. /\ L!Rejection(c) = "none"
      /\ totalBytes + collection[L!CurrentPage].bytes <= MaxTotalBytes
      /\ count + collection[L!CurrentPage].items <= MaxItems
      /\ c \notin seenTokens
  <2>1. L!Rejection(c) = "none" BY DEF L!Accept
  <2>2. /\ collection[L!CurrentPage].bytes \in Nat /\ collection[L!CurrentPage].items \in Nat
    BY <1>3, CollectionPages DEF ListInv, ListTypeOK, L!Pages
  <2>3. /\ totalBytes \in Nat /\ count \in Nat
        /\ MaxPageBytes \in Nat /\ MaxTotalBytes \in Nat /\ MaxItems \in Nat
    BY Limits DEF ListInv, ListTypeOK
  <2>4. QED BY <2>1, <2>2, <2>3 DEF L!Rejection
<1>5. count' \in 0..MaxItems /\ totalBytes' \in 0..MaxTotalBytes
  <2>1. /\ collection[L!CurrentPage].bytes \in Nat /\ collection[L!CurrentPage].items \in Nat
    BY <1>3, CollectionPages DEF ListInv, ListTypeOK, L!Pages
  <2>2. /\ count' = count + collection[L!CurrentPage].items
        /\ totalBytes' = totalBytes + collection[L!CurrentPage].bytes
    BY DEF L!Accept
  <2>3. count \in Nat /\ totalBytes \in Nat BY Limits DEF ListInv, ListTypeOK
  <2>4. count' \in 0..MaxItems BY <1>4, <2>1, <2>2, <2>3, Limits
  <2>5. totalBytes' \in 0..MaxTotalBytes BY <1>4, <2>1, <2>2, <2>3, Limits
  <2>6. QED BY <2>4, <2>5
<1> DEFINE new == L!PageOf(Versions[attempt], L!CurrentPage)
<1>6. /\ items' \in ItemList /\ Len(items') = pageIndex + 1
      /\ DOMAIN items' = 1..(pageIndex + 1)
      /\ \A p \in 1..pageIndex : items'[p] = items[p]
      /\ items'[pageIndex + 1] = new
  <2>1. new \in [version : STRING, page : Nat]
    BY <1>3, Limits DEF L!PageOf, ListInv, ListTypeOK
  <2>2. items' = Append(items, new) BY DEF L!Accept
  <2>3. items \in ItemList /\ Len(items) = pageIndex
    BY <1>1 DEF ListInv, ListTypeOK, TurnsOK
  <2> HIDE DEF new
  <2>4. QED BY <1>2, <2>1, <2>2, <2>3, AppendProperties, LenProperties DEF ItemList
<1>7. ASSUME honest
      PROVE  /\ L!CurrentPage = pageIndex + 1
             /\ items' = [p \in 1..(pageIndex + 1) |-> L!Received(p)]
  <2>1. L!CurrentPage = pageIndex + 1
    <3>1. nextToken = IF pageIndex = 0 THEN 0 ELSE pageIndex + 1
      BY <1>1, <1>7 DEF ListInv, HonestOK, L!NoToken
    <3>2. QED BY <1>2, <3>1 DEF L!CurrentPage, L!NoToken
  <2>2. \A p \in 1..pageIndex : items[p] = L!Received(p)
    BY <1>1, <1>7 DEF ListInv, HonestOK, Prefix
  <2>3. items'[pageIndex + 1] = L!Received(pageIndex + 1) BY <1>6, <2>1 DEF L!Received
  <2>4. \A p \in 1..(pageIndex + 1) : items'[p] = L!Received(p)
    BY <1>2, <1>6, <2>2, <2>3
  <2>5. items' \in [1..Len(items') -> [version : STRING, page : Nat]]
    BY <1>6, LenProperties DEF ItemList
  <2>6. QED BY <1>6, <2>1, <2>4, <2>5
<1>8. QED BY <1>1, <1>3, <1>4, <1>5, <1>6, <1>7

LEMMA LastPageInv ==
    ASSUME ListInv, L!NoToken \in L!ServerTokens, L!LastPage
    PROVE  ListInv'
<1>1. L!Accept(L!NoToken) BY DEF L!LastPage
<1>2. /\ out' = items' /\ result' = "found" /\ requested' = Append(requested, nextToken)
      /\ UNCHANGED <<collection, honest, attempt, pageIndex, nextToken, seenTokens>>
  BY <1>1 DEF L!LastPage, L!Accept, L!server
<1>3. ListTypeOK' BY <1>1, <1>2, Accepted, Sent DEF ListInv, ListTypeOK
<1>4. TurnsOK'
  <2>1. Len(items') <= MaxPages BY <1>1, Accepted, Limits DEF ListInv, ListTypeOK
  <2>2. QED BY <1>1, <1>2, <2>1, Accepted, Sent DEF TurnsOK
<1>5. TokensOK' BY <1>1, <1>2, Accepted, Sent DEF TokensOK
<1>6. HonestOK'
  <2> SUFFICES ASSUME honest PROVE out' = [p \in L!Pages |-> L!Received(p)]
    BY <1>2 DEF HonestOK, L!Pages, L!Received
  <2>1. L!CurrentPage = Len(collection)
    BY <1>1, Accepted DEF L!ServerTokens, L!NoToken
  <2>2. L!Pages = 1..(pageIndex + 1)
    BY <1>1, <2>1, Accepted, CollectionPages DEF ListInv, ListTypeOK, L!Pages
  <2>3. QED BY <1>1, <1>2, <2>2, Accepted
<1>7. QED BY <1>3, <1>4, <1>5, <1>6 DEF ListInv

LEMMA MiddlePageInv ==
    ASSUME ListInv, NEW c \in L!ServerTokens \ {L!NoToken, L!LongToken}, L!MiddlePage(c)
    PROVE  ListInv'
<1>1. L!Accept(c) BY DEF L!MiddlePage
<1>2. /\ nextToken' = c /\ pageIndex' = pageIndex + 1 /\ seenTokens' = seenTokens \cup {c}
      /\ requested' = Append(requested, nextToken)
      /\ UNCHANGED <<collection, honest, attempt, out, result>>
  BY <1>1 DEF L!MiddlePage, L!Accept, L!server
<1>3. pageIndex \in Nat /\ MaxPages \in Nat BY Limits DEF ListInv, ListTypeOK
<1>4. c \in L!Pages
  <2>1. CASE honest
    BY <1>1, <2>1, Accepted, CollectionPages DEF L!ServerTokens, L!Pages, ListInv, ListTypeOK
  <2>2. CASE ~honest BY <2>2 DEF L!ServerTokens
  <2>3. QED BY <2>1, <2>2
<1>5. ListTypeOK'
  BY <1>1, <1>2, <1>3, <1>4, Accepted, Sent DEF ListInv, ListTypeOK, L!Pages
<1>6. TurnsOK'
  BY <1>1, <1>2, <1>3, Accepted, Sent DEF ListInv, TurnsOK
<1>7. TokensOK'
  <2>1. \A i \in DOMAIN requested' : requested'[i] \in seenTokens \cup {L!NoToken}
    BY <1>1, <1>2, Accepted, Sent
  <2>2. c \notin seenTokens \cup {L!NoToken} BY <1>1, Accepted
  <2>3. QED BY <1>1, <1>2, <2>1, <2>2, Accepted, Sent DEF TokensOK
<1>8. HonestOK'
  <2> SUFFICES ASSUME honest
               PROVE  items' = Prefix' /\ c = pageIndex + 2
    BY <1>1, <1>2, <1>3, Accepted DEF HonestOK
  <2>1. items' = Prefix' BY <1>1, <1>2, Accepted DEF Prefix, L!Received
  <2>2. c = L!CurrentPage + 1 BY DEF L!ServerTokens
  <2>3. QED BY <1>1, <1>3, <2>1, <2>2, Accepted
<1>9. QED BY <1>5, <1>6, <1>7, <1>8 DEF ListInv

LEMMA PageLimitInv ==
    ASSUME ListInv, L!PageLimit
    PROVE  ListInv'
<1> USE DEF L!PageLimit, L!server, ListInv
<1>1. ListTypeOK' BY DEF ListTypeOK
<1>2. TurnsOK' BY DEF TurnsOK
<1>3. TokensOK' BY DEF TokensOK, L!NoTokenSentTwice
<1>4. HonestOK' BY DEF HonestOK
<1>5. QED BY <1>1, <1>2, <1>3, <1>4

LEMMA ListStepInv ==
    ASSUME ListInv, L!Next
    PROVE  ListInv'
<1>1. CASE L!Refused BY <1>1, FailInv DEF L!Refused
<1>2. CASE L!NotFound BY <1>2, FailInv DEF L!NotFound
<1>3. CASE L!NextVersion BY <1>3, NextVersionInv
<1>4. CASE L!RequestFails BY <1>4, FailInv DEF L!RequestFails
<1>5. CASE L!PageLimit BY <1>5, PageLimitInv
<1>6. CASE L!NoToken \in L!ServerTokens /\ L!LastPage BY <1>6, LastPageInv
<1>7. ASSUME NEW c \in L!ServerTokens, L!PageRejected(c)
      PROVE  ListInv'
  <2>1. L!Rejection(c) \notin {"running", "found"} BY DEF L!Rejection
  <2>2. QED BY <1>7, <2>1, FailInv DEF L!PageRejected
<1>8. ASSUME NEW c \in L!ServerTokens \ {L!NoToken, L!LongToken}, L!MiddlePage(c)
      PROVE  ListInv'
  BY <1>8, MiddlePageInv
<1>9. QED BY <1>1, <1>2, <1>3, <1>4, <1>5, <1>6, <1>7, <1>8 DEF L!Next
LEMMA ListStutterInv ==
    ASSUME ListInv, UNCHANGED <<listOnly, result>>
    PROVE  ListInv'
<1> USE DEF listOnly, ListInv
<1>1. ListTypeOK' BY DEF ListTypeOK
<1>2. TurnsOK' BY DEF TurnsOK
<1>3. TokensOK' BY DEF TokensOK, L!NoTokenSentTwice
<1>4. HonestOK' BY DEF HonestOK, Prefix, L!Pages, L!Received
<1>5. QED BY <1>1, <1>2, <1>3, <1>4

----------------------------------------------------------------------------
(* A snapshot *)

CollectionTypeOK ==
    /\ concurrency \in Int
    /\ phase \in {"required", "optional", "custom", "returned"}
    /\ goroutine \in [AllTasks -> {"none", "waiting", "fetching", "finished"}]
    /\ taskError \in [AllTasks -> Reasons \cup {"nil"}]
    /\ list \in [AllTasks -> {"empty", "complete"}]
    /\ refused \in [AllTasks -> Refusals \cup {"no"}]
    /\ defined \subseteq CustomTasks
    /\ ctxDone \in BOOLEAN
    /\ diagnostics \subseteq [id : Tasks \cup {CustomResources}, reason : Reasons, count : Nat]
    /\ result \in {"none", "snapshot", "error"}

\* A group is started when the one before it has finished.
PhasesOK ==
    /\ phase = "required" => \A t \in AllTasks : goroutine[t] = "none"
    /\ phase = "optional" =>
         /\ \A t \in Tasks : goroutine[t] # "none"
         /\ \A t \in CustomTasks : goroutine[t] = "none"
    /\ phase = "custom" =>
         /\ \A t \in Tasks : goroutine[t] = "finished"
         /\ \A t \in defined \cap Listable : goroutine[t] # "none"
    /\ phase = "returned" =>
         \A t \in AllTasks : goroutine[t] \in {"none", "finished"}
    /\ result = "snapshot" => phase = "returned"

\* A list has at most one outcome. Only a goroutine that gives up leaves no trace of its
\* list, and then the context is over.
OutcomesOK ==
    \A t \in AllTasks :
        /\ goroutine[t] # "finished" =>
             list[t] = "empty" /\ refused[t] = "no" /\ taskError[t] = "nil"
        /\ goroutine[t] = "finished" =>
             list[t] = "complete" \/ refused[t] # "no" \/ taskError[t] # "nil" \/ ctxDone
        /\ taskError[t] # "nil" => list[t] = "empty" /\ refused[t] = "no"

Known(t) == list[t] = "complete" \/ Silent(t) \/ Reported(t)

\* What the diagnostics say at each stage.
ReportsOK ==
    /\ phase \in {"required", "optional", "custom"} =>
         \A d \in diagnostics : d.id # CustomResources
    /\ phase = "custom" => \A t \in Tasks : Known(t)
    /\ \A t \in Tasks : Reported(t) => taskError[t] # "nil"
    /\ FailedListsAreReported /\ CountsAddUp

CollectionInv ==
    CollectionTypeOK /\ PhasesOK /\ OutcomesOK /\ ReportsOK /\ BoundedConcurrency

LEMMA TasksAreFinite ==
    /\ IsFiniteSet(AllTasks)
    /\ \A S \in SUBSET AllTasks : IsFiniteSet(S) /\ Cardinality(S) \in Nat
BY CollectionAssumption, FS_Union, FS_Subset, FS_CardinalityType DEF AllTasks

LEMMA CollectionInitInv == Init => CollectionInv
<1> SUFFICES ASSUME Init PROVE CollectionInv
  OBVIOUS
<1>1. CollectionTypeOK BY CollectionAssumption DEF Init, CollectionTypeOK
<1>2. PhasesOK BY DEF Init, PhasesOK
<1>3. OutcomesOK BY DEF Init, OutcomesOK
<1>4. ReportsOK BY DEF Init, ReportsOK, Reported, FailedListsAreReported, CountsAddUp
<1>5. BoundedConcurrency
  <2>1. Fetching = {} BY DEF Init, Fetching
  <2>2. QED BY <1>1, <2>1, FS_EmptySet DEF BoundedConcurrency, CollectionTypeOK
<1>6. QED BY <1>1, <1>2, <1>3, <1>4, <1>5 DEF CollectionInv

\* The properties of the result hold while there is none.
LEMMA NoSnapshotYet ==
    ASSUME result # "snapshot"
    PROVE  FailedListsAreReported /\ CountsAddUp
BY DEF FailedListsAreReported, CountsAddUp

\* A step that changes neither a list nor the diagnostics changes no report.
LEMMA SameReports ==
    ASSUME ReportsOK, UNCHANGED <<diagnostics, refused, defined, taskError, list>>,
           phase' = "custom" => phase = "custom",
           phase' \in {"required", "optional", "custom"} =>
             phase \in {"required", "optional", "custom"},
           result' # "snapshot"
    PROVE  ReportsOK'
<1>1. \A t \in Tasks : (Known(t)' <=> Known(t)) /\ (Reported(t)' <=> Reported(t))
  BY DEF Known, Silent, Reported
<1>2. QED BY <1>1 DEF ReportsOK, FailedListsAreReported, CountsAddUp

\* Fewer fetches, at the same concurrency.
LEMMA FewerFetches ==
    ASSUME CollectionTypeOK, BoundedConcurrency, UNCHANGED concurrency, Fetching' \subseteq Fetching
    PROVE  BoundedConcurrency'
<1>1. Fetching \in SUBSET AllTasks BY DEF Fetching
<1>2. IsFiniteSet(Fetching) /\ Cardinality(Fetching) \in Nat BY <1>1, TasksAreFinite
<1>3. Cardinality(Fetching') <= Cardinality(Fetching) /\ Cardinality(Fetching') \in Nat
  BY <1>1, <1>2, FS_Subset, FS_CardinalityType
<1>4. QED BY <1>2, <1>3 DEF BoundedConcurrency, CollectionTypeOK

LEMMA ReturnErrorInv ==
    ASSUME CollectionInv, ReturnError, \A t \in AllTasks : goroutine[t] \in {"none", "finished"}
    PROVE  CollectionInv'
<1> USE DEF ReturnError, CollectionInv
<1>1. CollectionTypeOK' BY DEF CollectionTypeOK
<1>2. PhasesOK' BY DEF PhasesOK
<1>3. OutcomesOK' BY DEF OutcomesOK
<1>4. ReportsOK' BY SameReports
<1>5. BoundedConcurrency' BY FewerFetches DEF Fetching
<1>6. QED BY <1>1, <1>2, <1>3, <1>4, <1>5

LEMMA ContextEndsInv ==
    ASSUME CollectionInv, ContextEnds
    PROVE  CollectionInv'
<1> USE DEF ContextEnds, CollectionInv
<1>1. CollectionTypeOK' BY DEF CollectionTypeOK
<1>2. PhasesOK' BY DEF PhasesOK
<1>3. OutcomesOK' BY DEF OutcomesOK
<1>4. ReportsOK' BY SameReports DEF PhasesOK
<1>5. BoundedConcurrency' BY FewerFetches DEF Fetching
<1>6. QED BY <1>1, <1>2, <1>3, <1>4, <1>5

LEMMA RequiredListsInv ==
    ASSUME CollectionInv, RequiredListRead \/ RequiredListFails
    PROVE  CollectionInv'
<1>1. CASE RequiredListFails
  <2>1. ReturnError /\ phase = "required" BY <1>1 DEF RequiredListFails
  <2>2. QED BY <2>1, ReturnErrorInv DEF CollectionInv, PhasesOK
<1>2. CASE RequiredListRead
  <2> USE <1>2 DEF RequiredListRead, CollectionInv
  <2>1. CollectionTypeOK' BY DEF CollectionTypeOK
  <2>2. PhasesOK' BY DEF PhasesOK
  <2>3. OutcomesOK' BY DEF OutcomesOK
  <2>4. ReportsOK' BY SameReports DEF PhasesOK
  <2>5. BoundedConcurrency' BY FewerFetches DEF Fetching
  <2>6. QED BY <2>1, <2>2, <2>3, <2>4, <2>5
<1>3. QED BY <1>1, <1>2

LEMMA StartOptionalInv ==
    ASSUME CollectionInv, StartOptional
    PROVE  CollectionInv'
<1> USE DEF StartOptional, Spawn, CollectionInv
<1>1. CollectionTypeOK' BY DEF CollectionTypeOK
<1>2. PhasesOK' BY CollectionAssumption DEF PhasesOK, AllTasks
<1>3. OutcomesOK' BY DEF OutcomesOK, PhasesOK
<1>4. ReportsOK' BY SameReports DEF PhasesOK
<1>5. BoundedConcurrency' BY FewerFetches DEF Fetching
<1>6. QED BY <1>1, <1>2, <1>3, <1>4, <1>5

\* A task of the current group, started.
LEMMA ActiveTask ==
    ASSUME CollectionInv, NEW t \in AllTasks, goroutine[t] \in {"waiting", "fetching"}
    PROVE  phase \in {"optional", "custom"} /\ result # "snapshot"
BY DEF CollectionInv, CollectionTypeOK, PhasesOK

LEMMA AcquireInv ==
    ASSUME CollectionInv, NEW t \in AllTasks, Acquire(t)
    PROVE  CollectionInv'
<1> USE DEF Acquire, CollectionInv
<1>0. phase \in {"optional", "custom"} /\ result # "snapshot" BY ActiveTask
<1>1. CollectionTypeOK' BY DEF CollectionTypeOK
<1>2. PhasesOK' BY <1>0, CollectionAssumption DEF PhasesOK, CollectionTypeOK, AllTasks
<1>3. OutcomesOK' BY DEF OutcomesOK, CollectionTypeOK
<1>4. ReportsOK' BY <1>0, SameReports
<1>5. BoundedConcurrency'
  <2>1. Fetching' = Fetching \cup {t}
    <3>1. \A u \in AllTasks : goroutine'[u] = IF u = t THEN "fetching" ELSE goroutine[u]
      BY DEF CollectionTypeOK
    <3>2. QED BY <3>1 DEF Fetching
  <2>2. Fetching \in SUBSET AllTasks BY DEF Fetching
  <2>3. IsFiniteSet(Fetching) /\ Cardinality(Fetching) \in Nat BY <2>2, TasksAreFinite
  <2>4. Cardinality(Fetching') = Cardinality(Fetching) + 1
    <3>1. t \notin Fetching BY DEF Fetching
    <3>2. Cardinality(Fetching \cup {t}) = Cardinality(Fetching) + 1 BY <2>3, <3>1, FS_AddElement
    <3>3. QED BY <2>1, <3>2
  <2>5. Started \in SUBSET AllTasks BY DEF Started, Group, AllTasks
  <2>6. Cardinality(Started) \in Nat BY <2>5, TasksAreFinite
  <2>7. concurrency \in Int BY DEF CollectionTypeOK
  <2>8. Slots <= IF concurrency < 1 THEN 1 ELSE concurrency BY <2>6, <2>7 DEF Slots
  <2>9. Slots \in Int BY <2>6, <2>7 DEF Slots
  <2>10. Cardinality(Fetching) < Slots OBVIOUS
  <2>11. QED BY <2>3, <2>4, <2>7, <2>8, <2>9, <2>10 DEF BoundedConcurrency
<1>6. QED BY <1>1, <1>2, <1>3, <1>4, <1>5

\* A goroutine ends, with or without an outcome.
LEMMA TaskEndsInv ==
    ASSUME CollectionInv, NEW t \in AllTasks,
           \/ GiveUp(t) \/ FetchComplete(t)
           \/ \E why \in Refusals : FetchRefused(t, why)
           \/ \E reason \in Reasons : FetchFails(t, reason)
    PROVE  CollectionInv'
<1> USE DEF GiveUp, FetchComplete, FetchRefused, FetchFails, Finish, CollectionInv
<1>0. /\ phase \in {"optional", "custom"} /\ result # "snapshot"
      /\ goroutine' = [goroutine EXCEPT ![t] = "finished"]
      /\ goroutine[t] \in {"waiting", "fetching"}
      /\ UNCHANGED <<concurrency, phase, required, defined, ctxDone, diagnostics, result>>
  BY ActiveTask
<1>1. CollectionTypeOK' BY CollectionAssumption DEF CollectionTypeOK, Refusals
<1>2. PhasesOK' BY <1>0, CollectionAssumption DEF PhasesOK, CollectionTypeOK, AllTasks
<1>3. OutcomesOK' BY CollectionAssumption DEF OutcomesOK, CollectionTypeOK, Refusals
<1>4. ReportsOK'
  <2>1. ASSUME NEW u \in Tasks, Known(u) PROVE Known(u)'
    BY <1>0, <2>1, CollectionAssumption
    DEF Known, Silent, Reported, CollectionTypeOK, AllTasks, Refusals
  <2>2. \A u \in Tasks : Reported(u) => goroutine[u] = "finished"
    BY DEF ReportsOK, OutcomesOK, AllTasks
  <2>3. \A u \in AllTasks : u # t => taskError'[u] = taskError[u] BY DEF CollectionTypeOK
  <2>4. \A u \in Tasks : Reported(u)' => taskError'[u] # "nil"
    BY <1>0, <2>2, <2>3 DEF Reported, ReportsOK, AllTasks
  <2>5. QED BY <1>0, <2>1, <2>4, NoSnapshotYet
    DEF ReportsOK, FailedListsAreReported, CountsAddUp
<1>5. BoundedConcurrency'
  <2>1. Fetching' \subseteq Fetching BY <1>0 DEF Fetching, CollectionTypeOK
  <2>2. QED BY <1>0, <2>1, FewerFetches
<1>6. QED BY <1>1, <1>2, <1>3, <1>4, <1>5

LEMMA OptionalDoneInv ==
    ASSUME CollectionInv, NEW found \in SUBSET CustomTasks, OptionalDone(found)
    PROVE  CollectionInv'
<1> USE DEF OptionalDone, Spawn, CollectionInv
<1>0. \A t \in Tasks : goroutine[t] = "finished"
  BY DEF PhasesOK, AllFinished, Started, Group
<1>1. CollectionTypeOK'
  <2>1. OptionalDiagnostics \subseteq
          [id : Tasks \cup {CustomResources}, reason : Reasons, count : Nat]
    BY DEF OptionalDiagnostics, Failed, Started, Group, CollectionTypeOK, AllTasks
  <2>2. QED BY <2>1 DEF CollectionTypeOK
<1>2. PhasesOK' BY <1>0, CollectionAssumption DEF PhasesOK, AllTasks
<1>3. OutcomesOK'
  <2>1. \A t \in AllTasks : goroutine'[t] = goroutine[t] \/ goroutine[t] = "none"
    BY DEF PhasesOK, AllTasks
  <2>2. \A t \in AllTasks : goroutine'[t] = "finished" <=> goroutine[t] = "finished"
    BY CollectionAssumption DEF PhasesOK, AllTasks
  <2>3. QED BY <2>2 DEF OutcomesOK
<1>4. ReportsOK'
  <2>1. \A d \in diagnostics' : d.id # CustomResources
    BY CollectionAssumption DEF ReportsOK, OptionalDiagnostics, Failed, Started, Group
  <2>2. ASSUME NEW t \in Tasks PROVE Known(t)'
    <3>1. list[t] = "complete" \/ refused[t] # "no" \/ taskError[t] # "nil"
      BY <1>0 DEF OutcomesOK, AllTasks
    <3>2. CASE taskError[t] # "nil"
      <4>1. t \in Failed BY <1>0, <3>2 DEF Failed, Started, Group
      <4>2. [id |-> t, reason |-> taskError[t], count |-> 1] \in diagnostics'
        BY <4>1 DEF OptionalDiagnostics
      <4>3. QED BY <4>2 DEF Known, Reported
    <3>3. QED BY <3>1, <3>2 DEF Known, Silent
  <2>3. \A t \in Tasks : Reported(t)' => taskError'[t] # "nil"
    <3>1. \A d \in OptionalDiagnostics : taskError[d.id] # "nil"
      BY DEF OptionalDiagnostics, Failed
    <3>2. QED BY <3>1 DEF Reported, ReportsOK
  <2>4. result' # "snapshot" BY DEF PhasesOK
  <2>5. QED BY <2>1, <2>2, <2>3, <2>4 DEF ReportsOK, FailedListsAreReported, CountsAddUp
<1>5. BoundedConcurrency' BY FewerFetches DEF Fetching
<1>6. QED BY <1>1, <1>2, <1>3, <1>4, <1>5
FailedWith(x) == {t \in Failed : taskError[t] = x}

Told(x) == [id |-> CustomResources, reason |-> x, count |-> Cardinality(FailedWith(x))]

LEMMA CustomDiagnosticsAre ==
    \A d : d \in CustomDiagnostics <=> \E x \in {taskError[t] : t \in Failed} : d = Told(x)
BY Zenon DEF CustomDiagnostics, Told, FailedWith

LEMMA ToldFields == \A x : Told(x).id = CustomResources /\ Told(x).reason = x
BY DEF Told

LEMMA BuildInv ==
    ASSUME CollectionInv, Build
    PROVE  CollectionInv'
<1> USE DEF Build, CollectionInv
<1>0. /\ Started = {t \in CustomTasks : goroutine[t] # "none"}
      /\ \A t \in Started : goroutine[t] = "finished"
      /\ phase = "custom" /\ \A t \in Tasks : goroutine[t] = "finished"
  BY DEF AllFinished, Started, Group, PhasesOK
<1>1. CollectionTypeOK'
  <2>1. CustomDiagnostics \subseteq
          [id : Tasks \cup {CustomResources}, reason : Reasons, count : Nat]
    <3> SUFFICES ASSUME NEW x \in {taskError[t] : t \in Failed}
                 PROVE  Told(x) \in [id : Tasks \cup {CustomResources}, reason : Reasons,
                                     count : Nat]
      BY CustomDiagnosticsAre
    <3>1. x \in Reasons BY <1>0 DEF Failed, CollectionTypeOK, AllTasks
    <3>2. FailedWith(x) \in SUBSET AllTasks BY <1>0 DEF FailedWith, Failed, AllTasks
    <3>3. Cardinality(FailedWith(x)) \in Nat BY <3>2, TasksAreFinite
    <3>4. QED BY <3>1, <3>3 DEF Told
  <2>2. QED BY <2>1 DEF CollectionTypeOK
<1>2. PhasesOK' BY <1>0 DEF PhasesOK, AllTasks
<1>3. OutcomesOK' BY DEF OutcomesOK
<1>4. \A t \in Tasks : Reported(t)' => taskError'[t] # "nil"
  <2>1. \A d \in CustomDiagnostics : d.id = CustomResources BY CustomDiagnosticsAre, ToldFields
  <2>2. \A t \in Tasks : Reported(t)' => Reported(t) BY <2>1, CollectionAssumption DEF Reported
  <2>3. QED BY <2>2 DEF ReportsOK
<1>5. FailedListsAreReported'
  <2>1. ASSUME NEW t \in Tasks PROVE Known(t)'
    <3>1. Known(t) BY <1>0 DEF ReportsOK
    <3>2. QED BY <3>1 DEF Known, Silent, Reported
  <2>2. ASSUME NEW t \in defined, t \in Listable PROVE Known(t)'
    <3>1. t \in Started /\ ~ctxDone /\ t \in CustomTasks /\ t \notin Tasks
      BY <1>0, <2>2, CollectionAssumption DEF PhasesOK, CollectionTypeOK
    <3>2. list[t] = "complete" \/ refused[t] # "no" \/ taskError[t] # "nil"
      BY <1>0, <3>1 DEF OutcomesOK, AllTasks
    <3>3. CASE taskError[t] # "nil"
      <4>1. taskError[t] \in {taskError[u] : u \in Failed} BY <3>1, <3>3 DEF Failed
      <4>2. \E d \in CustomDiagnostics : d.id = CustomResources
        BY <4>1, CustomDiagnosticsAre, ToldFields
      <4>3. QED BY <3>1, <4>2 DEF Known, Reported
    <3>4. QED BY <3>2, <3>3 DEF Known, Silent
  <2>3. ASSUME NEW t \in defined, t \notin Listable PROVE Known(t)'
    BY <2>3 DEF Known, Silent
  <2>4. ASSUME NEW t \in Tasks, Reported(t)' PROVE (list[t] = "empty" /\ ~Silent(t))'
    <3>1. taskError[t] # "nil" BY <1>4, <2>4
    <3>2. list[t] = "empty" /\ refused[t] = "no" BY <3>1 DEF OutcomesOK, AllTasks
    <3>3. t \notin defined BY CollectionAssumption DEF CollectionTypeOK
    <3>4. QED BY <3>2, <3>3 DEF Silent
  <2>5. \A t \in (Tasks \cup defined)' : Known(t)' BY <2>1, <2>2, <2>3
  <2>6. QED BY <2>4, <2>5 DEF FailedListsAreReported, Known
<1>6. CountsAddUp'
  <2> SUFFICES ASSUME NEW reason \in Reasons
               PROVE  LET failed == {t \in CustomTasks : taskError[t] = reason}
                          custom == {d \in diagnostics' : /\ d.id = CustomResources
                                                          /\ d.reason = reason}
                      IN  IF failed = {} THEN custom = {}
                          ELSE \E d \in custom : custom = {d} /\ d.count = Cardinality(failed)
    BY DEF CountsAddUp
  <2> DEFINE failed == {t \in CustomTasks : taskError[t] = reason}
             custom == {d \in diagnostics' : d.id = CustomResources /\ d.reason = reason}
  <2>1. failed = FailedWith(reason)
    <3>1. reason # "nil" BY CollectionAssumption
    <3>2. \A t \in failed : t \in Started BY <1>0, <3>1 DEF OutcomesOK, AllTasks
    <3>3. QED BY <1>0, <3>1, <3>2 DEF Failed, FailedWith
  <2>2. custom = {d \in CustomDiagnostics : d.reason = reason}
    <3>1. \A d \in CustomDiagnostics : d.id = CustomResources
      BY CustomDiagnosticsAre, ToldFields
    <3>2. QED BY <1>0, <3>1 DEF ReportsOK
  <2>3. CASE failed = {}
    <3>1. \A d \in CustomDiagnostics : d.reason \in {taskError[t] : t \in Failed}
      BY CustomDiagnosticsAre, ToldFields
    <3>2. reason \notin {taskError[t] : t \in Failed} BY <2>1, <2>3 DEF FailedWith
    <3>3. custom = {} BY <2>2, <3>1, <3>2
    <3>4. QED BY <2>3, <3>3
  <2>4. CASE failed # {}
    <3>1. reason \in {taskError[t] : t \in Failed} BY <2>1, <2>4 DEF FailedWith
    <3>2. Told(reason) \in CustomDiagnostics BY <3>1, CustomDiagnosticsAre
    <3>3. \A d \in CustomDiagnostics : d.reason = reason => d = Told(reason)
      BY CustomDiagnosticsAre, ToldFields
    <3>4. custom = {Told(reason)} BY <2>2, <3>2, <3>3, ToldFields
    <3>5. Told(reason).count = Cardinality(failed) BY <2>1 DEF Told
    <3>6. \E d \in custom : custom = {d} /\ d.count = Cardinality(failed)
      <4> HIDE DEF custom, failed
      <4>1. QED BY <3>4, <3>5
    <3>7. QED BY Zenon, <2>4, <3>6
  <2>5. QED BY <2>3, <2>4
<1>7. ReportsOK' BY <1>4, <1>5, <1>6 DEF ReportsOK
<1>8. BoundedConcurrency' BY FewerFetches DEF Fetching
<1>9. QED BY <1>1, <1>2, <1>3, <1>7, <1>8

LEMMA CollectionStepInv ==
    ASSUME CollectionInv, Next
    PROVE  CollectionInv'
<1>1. CASE ContextEnds BY <1>1, ContextEndsInv
<1>2. CASE RequiredListRead \/ RequiredListFails BY <1>2, RequiredListsInv
<1>3. CASE StartOptional BY <1>3, StartOptionalInv
<1>4. CASE ContextError
  <2>1. \A t \in AllTasks : goroutine[t] \in {"none", "finished"}
    BY <1>4 DEF ContextError, AllFinished, Started, Group, CollectionInv, PhasesOK, AllTasks
  <2>2. QED BY <1>4, <2>1, ReturnErrorInv DEF ContextError
<1>5. ASSUME NEW found \in SUBSET CustomTasks, OptionalDone(found)
      PROVE  CollectionInv'
  BY <1>5, OptionalDoneInv
<1>6. CASE Build BY <1>6, BuildInv
<1>7. ASSUME NEW t \in AllTasks, Goroutine(t)
      PROVE  CollectionInv'
  BY <1>7, AcquireInv, TaskEndsInv DEF Goroutine
<1>8. QED BY <1>1, <1>2, <1>3, <1>4, <1>5, <1>6, <1>7 DEF Next, Main

LEMMA CollectionStutterInv ==
    ASSUME CollectionInv, UNCHANGED <<collectionOnly, result>>
    PROVE  CollectionInv'
<1> USE DEF collectionOnly, CollectionInv
<1>1. CollectionTypeOK' BY DEF CollectionTypeOK
<1>2. PhasesOK' BY DEF PhasesOK
<1>3. OutcomesOK' BY DEF OutcomesOK
<1>4. ReportsOK'
  BY DEF ReportsOK, Known, Silent, Reported, FailedListsAreReported, CountsAddUp
<1>5. BoundedConcurrency' BY DEF BoundedConcurrency, Fetching
<1>6. QED BY <1>1, <1>2, <1>3, <1>4, <1>5

----------------------------------------------------------------------------
(* A first element *)

Preceding(K, R, i) == {j \in K : <<j, i>> \in R}

\* A finite set with a strict total order has a first element.
LEMMA FirstElement ==
    ASSUME NEW K, IsFiniteSet(K), K # {}, NEW R,
           \A i \in K : <<i, i>> \notin R,
           \A i, j, k \in K : <<i, j>> \in R /\ <<j, k>> \in R => <<i, k>> \in R,
           \A i, j \in K : i # j => <<i, j>> \in R \/ <<j, i>> \in R
    PROVE  \E i \in K : \A j \in K : i = j \/ <<i, j>> \in R
<1> DEFINE n == Cardinality(K)
           before(i) == Preceding(K, R, i)
           rank == [i \in K |-> Cardinality(before(i)) + 1]
<1>1. n \in Nat /\ n # 0 BY FS_CardinalityType, FS_EmptySet
<1>2. \A i, j \in K : j \in before(i) <=> <<j, i>> \in R BY DEF Preceding
<1>3. \A i \in K : before(i) \in SUBSET K BY DEF Preceding
<1> HIDE DEF before
<1>4. ASSUME NEW i \in K PROVE IsFiniteSet(before(i)) /\ Cardinality(before(i)) \in 0..(n - 1)
  <2>1. before(i) \in SUBSET K /\ before(i) # K BY <1>2, <1>3
  <2>2. /\ IsFiniteSet(before(i)) /\ Cardinality(before(i)) <= n
        /\ Cardinality(before(i)) # n
    BY <2>1, FS_Subset
  <2>3. Cardinality(before(i)) \in Nat BY <2>2, FS_CardinalityType
  <2>4. QED BY <1>1, <2>2, <2>3
<1>5. ASSUME NEW i \in K, NEW j \in K, <<i, j>> \in R
      PROVE  Cardinality(before(i)) # Cardinality(before(j))
  <2>1. before(i) \in SUBSET before(j)
    <3>1. \A k \in K : <<k, i>> \in R => <<k, j>> \in R BY <1>5
    <3>2. QED BY <1>2, <1>3, <3>1
  <2>2. i \in before(j) /\ i \notin before(i) BY <1>2, <1>5
  <2>3. QED BY <1>4, <2>1, <2>2, FS_Subset
<1>6. rank \in [K -> 1..n] /\ \A i \in K : rank[i] = Cardinality(before(i)) + 1 BY <1>1, <1>4
<1> HIDE DEF rank
<1>7. ASSUME NEW i \in K, NEW j \in K, rank[i] = rank[j] PROVE i = j
  <2>1. Cardinality(before(i)) = Cardinality(before(j)) BY <1>1, <1>4, <1>6, <1>7
  <2>2. ~(<<i, j>> \in R) /\ ~(<<j, i>> \in R) BY <1>5, <2>1
  <2>3. QED BY <2>2
<1>8. rank \in Injection(K, 1..n) BY <1>6, <1>7, Fun_IsInj
<1>9. IsFiniteSet(1..n) /\ Cardinality(1..n) = n BY <1>1, FS_Interval
<1>10. rank \in Surjection(K, 1..n) BY <1>8, <1>9, FS_Injection
<1>11. \A k \in 1..n : \E i \in K : rank[i] = k BY <1>10, Fun_SurjectionProperties
<1>12. PICK i \in K : rank[i] = 1
  <2>1. 1 \in 1..n BY <1>1
  <2>2. QED BY <1>11, <2>1
<1>13. before(i) = {}
  <2>1. Cardinality(before(i)) = 0 BY <1>1, <1>4, <1>6, <1>12
  <2>2. QED BY <1>4, <2>1, FS_EmptySet
<1>14. \A j \in K : i = j \/ <<i, j>> \in R BY <1>2, <1>13
<1>15. QED BY <1>14

LEMMA LeastNumber ==
    ASSUME NEW T \in SUBSET Nat, T # {}
    PROVE  \E n \in T : \A m \in T : n <= m
<1>1. PICK t \in T : TRUE OBVIOUS
<1> DEFINE U == {n \in T : n <= t}
           R == {p \in U \X U : p[1] < p[2]}
<1>2. IsFiniteSet(U) /\ U # {}
  <2>1. t \in Nat /\ t <= t OBVIOUS
  <2>2. U \in SUBSET Nat /\ \A n \in U : n <= t OBVIOUS
  <2> HIDE DEF U
  <2>3. IsFiniteSet(U) BY <2>1, <2>2, FS_BoundedSetOfNaturals
  <2>4. QED BY <2>1, <2>3 DEF U
<1>3. U \in SUBSET Nat OBVIOUS
<1>4. \A i, j \in U : <<i, j>> \in R <=> i < j OBVIOUS
<1> HIDE DEF R, U
<1>5. \A i \in U : <<i, i>> \notin R BY <1>3, <1>4
<1>6. \A i, j, k \in U : <<i, j>> \in R /\ <<j, k>> \in R => <<i, k>> \in R BY <1>3, <1>4
<1>7. \A i, j \in U : i # j => <<i, j>> \in R \/ <<j, i>> \in R BY <1>3, <1>4
<1>8. PICK n \in U : \A m \in U : n = m \/ <<n, m>> \in R BY <1>2, <1>5, <1>6, <1>7, FirstElement
<1>9. ASSUME NEW m \in T PROVE n <= m
  <2>1. n \in Nat /\ m \in Nat /\ t \in Nat /\ n <= t BY <1>3 DEF U
  <2>2. CASE m <= t
    <3>1. m \in U BY <2>2 DEF U
    <3>2. n \in U /\ (n = m \/ <<n, m>> \in R) BY <1>8, <3>1
    <3>3. n = m \/ n < m BY <1>4, <3>1, <3>2
    <3>4. QED BY <2>1, <3>3
  <2>3. CASE ~(m <= t) BY <2>1, <2>3
  <2>4. QED BY <2>2, <2>3
<1>10. n \in T BY DEF U
<1>11. QED BY <1>9, <1>10

----------------------------------------------------------------------------
(* The loops of SnapshotGraph in their order *)

\* What is used of NodeOrder and EdgeOrder.
LEMMA Loops ==
    /\ G!NodeLoops = 1..25 /\ G!EdgeLoops = 26..43 /\ G!LastLoop = 44
    /\ \A n \in 1..25 : G!PassOf(n) = "node" /\ G!KindOf(n) = G!NodeOrder[n]
    /\ \A n \in 26..43 : G!PassOf(n) = G!EdgeOrder[n - 25]
    /\ \A n \in 26..43 : G!KindOf(n) = IF G!PassOf(n) = "PodOwners" THEN "Pod" ELSE G!PassOf(n)
    /\ G!PassOf(44) = "endpoints" /\ G!KindOf(44) = "endpoints"
<1>1. Len(G!NodeOrder) = 25 /\ DOMAIN G!NodeOrder = 1..25 BY DEF G!NodeOrder
<1>2. Len(G!EdgeOrder) = 18 /\ DOMAIN G!EdgeOrder = 1..18 BY DEF G!EdgeOrder
<1>3. G!NodeLoops = 1..25 /\ G!LastLoop = 44 BY <1>1, <1>2 DEF G!NodeLoops, G!LastLoop
<1>4. G!EdgeLoops = 26..43
  <2>1. G!EdgeLoops = {25 + n : n \in 1..18} BY <1>1, <1>2 DEF G!EdgeLoops
  <2>2. ASSUME NEW m \in 26..43 PROVE m \in {25 + n : n \in 1..18}
    <3>1. m - 25 \in 1..18 /\ 25 + (m - 25) = m OBVIOUS
    <3>2. QED BY <3>1
  <2>3. QED BY <2>1, <2>2
<1>5. QED BY <1>1, <1>3, <1>4 DEF G!PassOf, G!KindOf

\* Every kind has one loop of nodes, every pass one loop of edges.
LEMMA OneLoopPerKind == \A m, n \in 1..25 : G!NodeOrder[m] = G!NodeOrder[n] => m = n
  BY SMTT(120) DEF G!NodeOrder

LEMMA OneLoopPerPass == \A m, n \in 26..43 : G!PassOf(m) = G!PassOf(n) => m = n
<1>1. \A m, n \in 1..18 : G!EdgeOrder[m] = G!EdgeOrder[n] => m = n
  BY SMTT(120) DEF G!EdgeOrder
<1>2. \A m \in 26..43 : m - 25 \in 1..18 OBVIOUS
<1>3. \A m, n \in 26..43 : m - 25 = n - 25 => m = n OBVIOUS
<1>4. QED BY <1>1, <1>2, <1>3, Loops

LEMMA KindsOfLoops ==
    /\ \A o : G!IsObject(o) <=>
        /\ \E n \in 1..25 : o.kind = G!NodeOrder[n]
        /\ {o.named, o.ok, o.spec} \subseteq BOOLEAN
        /\ \A r \in o.refs :
            G!Makes(o.kind, r.via) /\ (r.via = "crd" => r.kind = "CustomResourceDefinition")
        /\ \A p \in o.peers : p.direction \in {"allows-ingress", "allows-egress"}
    /\ \A n \in 1..25 : G!NodeOrder[n] \notin {"Cluster", "endpoints", "PodOwners", "node", "placeholder"}
    /\ \A n \in 26..43 : G!PassOf(n) \notin {"endpoints", "node"}
    /\ G!NodeOrder[1] = "Namespace" /\ G!NodeOrder[13] = "CustomResourceDefinition"
    /\ G!NodeOrder[14] = "CustomResource" /\ G!NodeOrder[25] = "Pod"
<1>1. DOMAIN G!NodeOrder = 1..25 BY DEF G!NodeOrder
<1>2. ASSUME NEW o PROVE o.kind \in G!ToSet(G!NodeOrder) <=> \E n \in 1..25 : o.kind = G!NodeOrder[n]
  BY <1>1 DEF G!ToSet
<1>3. \A n \in 1..25 : G!NodeOrder[n] \notin {"Cluster", "endpoints", "PodOwners", "node", "placeholder"}
  BY DEF G!NodeOrder
<1>4. \A n \in 1..18 : G!EdgeOrder[n] \notin {"endpoints", "node"} BY DEF G!EdgeOrder
<1>5. \A m \in 26..43 : m - 25 \in 1..18 OBVIOUS
<1>6. \A n \in 26..43 : G!PassOf(n) \notin {"endpoints", "node"} BY <1>4, <1>5, Loops
<1>7. /\ G!NodeOrder[1] = "Namespace" /\ G!NodeOrder[13] = "CustomResourceDefinition"
      /\ G!NodeOrder[14] = "CustomResource" /\ G!NodeOrder[25] = "Pod"
  BY DEF G!NodeOrder
<1>8. QED BY <1>2, <1>3, <1>6, <1>7 DEF G!IsObject

LEMMA ListingIs ==
    ASSUME NEW listing, G!IsListing(listing)
    PROVE  /\ Len(listing) \in Nat /\ DOMAIN listing = 1..Len(listing)
           /\ \A i \in DOMAIN listing : G!IsObject(listing[i])
           /\ \A i, j \in DOMAIN listing :
                G!Id(listing[i]) = G!Id(listing[j]) => listing[i].named = listing[j].named
<1>1. listing \in Seq(G!ToSet(listing)) BY DEF G!IsListing
<1>2. Len(listing) \in Nat /\ DOMAIN listing = 1..Len(listing) BY <1>1, LenProperties
<1>3. \A i \in DOMAIN listing : listing[i] \in G!ToSet(listing) BY DEF G!ToSet
<1>4. QED BY <1>2, <1>3 DEF G!IsListing

LEMMA JobsAre ==
    ASSUME NEW listing, G!IsListing(listing)
    PROVE  /\ \A job \in G!Jobs(listing) :
                \/ job = <<44, 0>>
                \/ /\ job[1] \in 1..43 /\ job[2] \in DOMAIN listing /\ job = <<job[1], job[2]>>
                   /\ listing[job[2]].kind = G!KindOf(job[1])
           /\ \A n \in 1..43, i \in DOMAIN listing :
                <<n, i>> \in G!Jobs(listing) <=> listing[i].kind = G!KindOf(n)
           /\ <<44, 0>> \in G!Jobs(listing)
           /\ IsFiniteSet(G!Jobs(listing))
<1> DEFINE S == (1..44) \X (0..Len(listing))
<1>1. Len(listing) \in Nat /\ DOMAIN listing = 1..Len(listing) BY ListingIs
<1>2. G!Jobs(listing) = {job \in (1..43) \X DOMAIN listing : listing[job[2]].kind = G!KindOf(job[1])}
                            \cup {<<44, 0>>}
  <2>1. (1..25) \cup (26..43) = 1..43 OBVIOUS
  <2>2. QED BY <2>1, Loops DEF G!Jobs
<1>3. G!Jobs(listing) \in SUBSET S BY <1>1, <1>2
<1>4. IsFiniteSet(S)
  <2>1. 1 \in Int /\ 44 \in Int /\ 0 \in Int /\ Len(listing) \in Int BY <1>1
  <2>2. IsFiniteSet(1..44) BY <2>1, FS_Interval
  <2>3. IsFiniteSet(0..Len(listing)) BY <2>1, FS_Interval
  <2>4. QED BY <2>2, <2>3, FS_Product
<1> HIDE DEF S
<1>5. IsFiniteSet(G!Jobs(listing)) BY <1>3, <1>4, FS_Subset
<1>6. QED BY <1>2, <1>5

\* Of the jobs that are left one is first.
LEMMA CurrentIsFirst ==
    ASSUME G!IsListing(objects), todo \in SUBSET G!Jobs(objects), todo # {}
    PROVE  /\ G!Current \in todo
           /\ \A job \in todo : job = G!Current \/ G!Before(G!Current, job)
<1> DEFINE R == {p \in todo \X todo : G!Before(p[1], p[2])}
<1>1. Len(objects) \in Nat /\ DOMAIN objects = 1..Len(objects) BY ListingIs
<1>2. IsFiniteSet(todo) BY JobsAre, FS_Subset
<1>3. ASSUME NEW job \in todo PROVE job[1] \in Nat /\ job[2] \in Nat /\ job = <<job[1], job[2]>>
  <2>1. \/ job = <<44, 0>>
        \/ job[1] \in 1..43 /\ job[2] \in DOMAIN objects /\ job = <<job[1], job[2]>>
    BY JobsAre
  <2>2. CASE job = <<44, 0>> BY <2>2
  <2>3. CASE job[1] \in 1..43 /\ job[2] \in DOMAIN objects /\ job = <<job[1], job[2]>>
    <3>1. job[2] \in 1..Len(objects) BY <1>1, <2>3
    <3>2. job[2] \in Nat
      <4> DEFINE size == Len(objects)
                 place == job[2]
      <4>1. size \in Nat /\ place \in 1..size BY <1>1, <3>1
      <4> HIDE DEF size, place
      <4>2. place \in Nat BY <4>1
      <4>3. QED BY <4>2 DEF place
    <3>3. job[1] \in 1..43 /\ job = <<job[1], job[2]>> BY <2>3
    <3>4. job[1] \in Nat BY <3>3
    <3>5. QED BY <3>2, <3>3, <3>4
  <2>4. QED BY <2>1, <2>2, <2>3
<1>4. \A i, j \in todo : <<i, j>> \in R <=> G!Before(i, j) OBVIOUS
<1> HIDE DEF R
<1>5. \A i \in todo : <<i, i>> \notin R BY <1>3, <1>4 DEF G!Before
<1>6. \A i, j, k \in todo : <<i, j>> \in R /\ <<j, k>> \in R => <<i, k>> \in R
  BY <1>3, <1>4 DEF G!Before
<1>7. \A i, j \in todo : i # j => <<i, j>> \in R \/ <<j, i>> \in R
  <2> TAKE i, j \in todo
  <2>1. i # j => i[1] # j[1] \/ i[2] # j[2] BY <1>3
  <2>2. QED BY <1>3, <1>4, <2>1 DEF G!Before
<1>8. PICK i \in todo : \A j \in todo : i = j \/ <<i, j>> \in R
  BY <1>2, <1>5, <1>6, <1>7, FirstElement
<1>9. \A j \in todo : i = j \/ G!Before(i, j) BY <1>4, <1>8
<1>10. G!Current \in todo /\ \A j \in todo : G!Current = j \/ G!Before(G!Current, j)
  BY <1>9 DEF G!Current
<1>11. QED BY <1>10

----------------------------------------------------------------------------
(* Which loops are over *)

Input ==
    /\ G!IsListing(objects) /\ G!IsSlicing(slices)
    /\ endpoints = G!Endpoints(objects, slices)

\* What has been done precedes what is left.
InOrder ==
    /\ todo \in SUBSET G!Jobs(objects)
    /\ \A job \in G!Jobs(objects) \ todo, other \in todo : G!Before(job, other)

\* The object at a place has been made a node; an edge loop has read it.
Passed(i) == \E n \in 1..25 : objects[i].kind = G!NodeOrder[n] /\ <<n, i>> \notin todo
ReadBy(n, i) == objects[i].kind = G!KindOf(n) /\ <<n, i>> \notin todo

LEMMA ListedKinds ==
    ASSUME G!IsListing(objects)
    PROVE  /\ \A i \in DOMAIN objects : i \in Nat
           /\ \A i \in DOMAIN objects : \E n \in 1..25 : objects[i].kind = G!NodeOrder[n]
           /\ \A i \in DOMAIN objects : G!IsObject(objects[i])
           /\ \A i, j \in DOMAIN objects :
                G!Id(objects[i]) = G!Id(objects[j]) => objects[i].named = objects[j].named
<1> DEFINE size == Len(objects)
<1>1. size \in Nat /\ DOMAIN objects = 1..size BY ListingIs
<1> HIDE DEF size
<1>2. \A i \in DOMAIN objects : i \in Nat BY <1>1
<1>3. \A i \in DOMAIN objects : G!IsObject(objects[i]) BY ListingIs
<1>4. \A i, j \in DOMAIN objects :
        G!Id(objects[i]) = G!Id(objects[j]) => objects[i].named = objects[j].named
  BY ListingIs
<1>5. \A i \in DOMAIN objects : \E n \in 1..25 : objects[i].kind = G!NodeOrder[n]
  BY <1>3, KindsOfLoops
<1>6. QED BY <1>2, <1>3, <1>4, <1>5

\* A job is done if and only if it precedes the current one.
LEMMA DoneIsBefore ==
    ASSUME Input, InOrder, todo # {}
    PROVE  /\ G!Current \in todo
           /\ \A job \in G!Jobs(objects) : job \notin todo <=> G!Before(job, G!Current)
           /\ \/ G!Current = <<44, 0>>
              \/ /\ G!Current[1] \in 1..43 /\ G!Current[2] \in DOMAIN objects
                 /\ G!Current = <<G!Current[1], G!Current[2]>>
                 /\ objects[G!Current[2]].kind = G!KindOf(G!Current[1])
<1>1. G!IsListing(objects) /\ todo \in SUBSET G!Jobs(objects) BY DEF Input, InOrder
<1>2. G!Current \in todo /\ \A job \in todo : job = G!Current \/ G!Before(G!Current, job)
  BY <1>1, CurrentIsFirst
<1>3. \A job \in G!Jobs(objects) : job = <<44, 0>> \/ (job[1] \in 1..43 /\ job[2] \in Nat)
  BY <1>1, JobsAre, ListedKinds
<1>4. ASSUME NEW job \in G!Jobs(objects) PROVE job[1] \in Nat /\ job[2] \in Nat
  <2>1. CASE job = <<44, 0>> BY <2>1
  <2>2. CASE job[1] \in 1..43 /\ job[2] \in Nat BY <2>2
  <2>3. QED BY <1>3, <2>1, <2>2
<1>5. ASSUME NEW job \in G!Jobs(objects), job \notin todo PROVE G!Before(job, G!Current)
  BY <1>2, <1>5 DEF InOrder
<1>6. ASSUME NEW job \in G!Jobs(objects), G!Before(job, G!Current) PROVE job \notin todo
  <2>1. G!Current \in G!Jobs(objects) BY <1>1, <1>2
  <2>2. ~G!Before(G!Current, job) /\ job # G!Current BY <1>4, <1>6, <2>1 DEF G!Before
  <2>3. QED BY <1>2, <2>2
<1>7. G!Current \in G!Jobs(objects) BY <1>1, <1>2
<1>8. \/ G!Current = <<44, 0>>
      \/ /\ G!Current[1] \in 1..43 /\ G!Current[2] \in DOMAIN objects
         /\ G!Current = <<G!Current[1], G!Current[2]>>
         /\ objects[G!Current[2]].kind = G!KindOf(G!Current[1])
  BY <1>1, <1>7, JobsAre
<1>9. QED BY <1>2, <1>5, <1>6, <1>8

\* The jobs that are done while the current one is the one of a loop and a place.
LEMMA DoneAre ==
    ASSUME Input, InOrder, todo # {}, NEW n \in 1..43, NEW i, G!Current = <<n, i>>
    PROVE  /\ i \in DOMAIN objects /\ objects[i].kind = G!KindOf(n)
           /\ <<44, 0>> \in todo
           /\ \A m \in 1..43, j \in DOMAIN objects :
                objects[j].kind = G!KindOf(m) =>
                    (<<m, j>> \notin todo <=> m < n \/ (m = n /\ j < i))
<1>1. G!IsListing(objects) BY DEF Input
<1>2. i \in DOMAIN objects /\ objects[i].kind = G!KindOf(n)
  <2>1. G!Current[1] = n /\ G!Current[2] = i /\ n # 44 OBVIOUS
  <2>2. G!Current # <<44, 0>> BY <2>1
  <2>3. QED BY <2>1, <2>2, DoneIsBefore
<1>3. <<44, 0>> \in G!Jobs(objects) BY <1>1, JobsAre
<1>4. ~G!Before(<<44, 0>>, <<n, i>>) BY DEF G!Before
<1>5. <<44, 0>> \in todo BY <1>3, <1>4, DoneIsBefore
<1>6. ASSUME NEW m \in 1..43, NEW j \in DOMAIN objects, objects[j].kind = G!KindOf(m)
      PROVE  <<m, j>> \notin todo <=> m < n \/ (m = n /\ j < i)
  <2>1. <<m, j>> \in G!Jobs(objects) BY <1>1, <1>6, JobsAre
  <2>2. <<m, j>> \notin todo <=> G!Before(<<m, j>>, <<n, i>>) BY <2>1, DoneIsBefore
  <2>3. QED BY <2>2 DEF G!Before
<1>7. QED BY <1>2, <1>5, <1>6

\* What is done while an object is made a node, and after it.
LEMMA NodeTurn ==
    ASSUME Input, InOrder, todo # {}, NEW n \in 1..25, NEW i, G!Current = <<n, i>>,
           objects' = objects, todo' = todo \ {G!Current}
    PROVE  /\ i \in DOMAIN objects /\ objects[i].kind = G!NodeOrder[n]
           /\ \A m \in 1..25, j \in DOMAIN objects :
                objects[j].kind = G!NodeOrder[m] => (Passed(j) <=> m < n \/ (m = n /\ j < i))
           /\ \A m \in 26..43, j \in DOMAIN objects : ~ReadBy(m, j)
           /\ \A j \in DOMAIN objects : Passed(j)' <=> Passed(j) \/ j = i
           /\ \A m \in 26..43, j \in DOMAIN objects : ~ReadBy(m, j)'
           /\ <<44, 0>> \in todo'
<1>1. n \in 1..43 /\ \A m \in 1..25 : m \in 1..43 OBVIOUS
<1>2. /\ i \in DOMAIN objects /\ objects[i].kind = G!KindOf(n)
      /\ <<44, 0>> \in todo
      /\ \A m \in 1..43, j \in DOMAIN objects :
            objects[j].kind = G!KindOf(m) => (<<m, j>> \notin todo <=> m < n \/ (m = n /\ j < i))
  BY <1>1, DoneAre
<1>3. objects[i].kind = G!NodeOrder[n] BY <1>2, Loops
<1>4. ASSUME NEW m \in 1..25, NEW j \in DOMAIN objects, objects[j].kind = G!NodeOrder[m]
      PROVE  /\ Passed(j) <=> <<m, j>> \notin todo
             /\ Passed(j)' <=> <<m, j>> \notin todo'
             /\ <<m, j>> \notin todo <=> m < n \/ (m = n /\ j < i)
  <2>1. \A k \in 1..25 : objects[j].kind = G!NodeOrder[k] => k = m BY <1>4, OneLoopPerKind
  <2>2. objects[j].kind = G!KindOf(m) BY <1>4, Loops
  <2>3. QED BY <1>1, <1>2, <1>4, <2>1, <2>2 DEF Passed
<1>5. ASSUME NEW m \in 26..43, NEW j \in DOMAIN objects PROVE ~ReadBy(m, j) /\ ~ReadBy(m, j)'
  <2>1. m \in 1..43 /\ ~(m < n \/ (m = n /\ j < i)) OBVIOUS
  <2>2. objects[j].kind = G!KindOf(m) => <<m, j>> \in todo BY <1>2, <2>1
  <2>3. <<m, j>> # G!Current OBVIOUS
  <2>4. QED BY <2>2, <2>3 DEF ReadBy
<1>6. ASSUME NEW j \in DOMAIN objects PROVE Passed(j)' <=> Passed(j) \/ j = i
  <2>1. PICK m \in 1..25 : objects[j].kind = G!NodeOrder[m] BY ListedKinds DEF Input
  <2>2. <<m, j>> = <<n, i>> <=> j = i
    <3>1. j = i => m = n BY <1>3, <2>1, OneLoopPerKind
    <3>2. QED BY <3>1
  <2>3. QED BY <1>4, <2>1, <2>2
<1>7. <<44, 0>> \in todo'
  <2>1. <<44, 0>> # G!Current OBVIOUS
  <2>2. QED BY <1>2, <2>1
<1>8. QED BY <1>2, <1>3, <1>4, <1>5, <1>6, <1>7

\* What is done while an edge loop reads an object, and after it.
LEMMA EdgeTurn ==
    ASSUME Input, InOrder, todo # {}, NEW n \in 26..43, NEW i, G!Current = <<n, i>>,
           objects' = objects, todo' = todo \ {G!Current}
    PROVE  /\ i \in DOMAIN objects /\ objects[i].kind = G!KindOf(n) /\ ~ReadBy(n, i)
           /\ \A j \in DOMAIN objects : Passed(j) /\ Passed(j)'
           /\ \A j \in DOMAIN objects : objects[j].kind = G!KindOf(n) /\ j < i => ReadBy(n, j)
           /\ \A m \in 26..43, j \in DOMAIN objects :
                ReadBy(m, j)' <=> ReadBy(m, j) \/ (m = n /\ j = i)
           /\ <<44, 0>> \in todo'
<1>1. n \in 1..43 /\ \A m \in 1..25 : m \in 1..43 OBVIOUS
<1>2. /\ i \in DOMAIN objects /\ objects[i].kind = G!KindOf(n)
      /\ <<44, 0>> \in todo
      /\ \A m \in 1..43, j \in DOMAIN objects :
            objects[j].kind = G!KindOf(m) => (<<m, j>> \notin todo <=> m < n \/ (m = n /\ j < i))
  BY <1>1, DoneAre
<1>3. ASSUME NEW j \in DOMAIN objects PROVE Passed(j) /\ Passed(j)'
  <2>1. PICK m \in 1..25 : objects[j].kind = G!NodeOrder[m] BY ListedKinds DEF Input
  <2>2. objects[j].kind = G!KindOf(m) /\ m < n BY <2>1, Loops
  <2>3. <<m, j>> \notin todo BY <1>1, <1>2, <2>2
  <2>4. QED BY <2>1, <2>3 DEF Passed
<1>4. ASSUME NEW j \in DOMAIN objects, objects[j].kind = G!KindOf(n), j < i PROVE ReadBy(n, j)
  BY <1>1, <1>2, <1>4 DEF ReadBy
<1>5. ASSUME NEW m \in 26..43, NEW j \in DOMAIN objects
      PROVE  ReadBy(m, j)' <=> ReadBy(m, j) \/ (m = n /\ j = i)
  <2>1. <<m, j>> = G!Current <=> m = n /\ j = i OBVIOUS
  <2>2. QED BY <1>2, <2>1 DEF ReadBy
<1>6. <<44, 0>> # G!Current /\ ~ReadBy(n, i)
  <2>1. G!Current \in todo BY DoneIsBefore
  <2>2. QED BY <2>1 DEF ReadBy
<1>7. QED BY <1>2, <1>3, <1>4, <1>5, <1>6

\* The endpoints are last.
LEMMA LastTurn ==
    ASSUME Input, InOrder, todo # {}, G!Current = <<44, 0>>,
           objects' = objects, todo' = todo \ {G!Current}
    PROVE  /\ todo' = {}
           /\ \A j \in DOMAIN objects : Passed(j) /\ Passed(j)'
           /\ \A m \in 26..43, j \in DOMAIN objects :
                objects[j].kind = G!KindOf(m) => ReadBy(m, j) /\ ReadBy(m, j)'
<1>1. ASSUME NEW job \in G!Jobs(objects), job # <<44, 0>> PROVE job \notin todo
  <2>1. job[1] \in 1..43 BY <1>1, JobsAre DEF Input
  <2>2. G!Before(job, <<44, 0>>) BY <2>1 DEF G!Before
  <2>3. QED BY <2>2, DoneIsBefore
<1>2. todo' = {} BY <1>1 DEF InOrder
<1>3. ASSUME NEW m \in 1..43, NEW j \in DOMAIN objects, objects[j].kind = G!KindOf(m)
      PROVE  <<m, j>> \notin todo /\ <<m, j>> \notin todo'
  <2>1. <<m, j>> \in G!Jobs(objects) BY <1>3, JobsAre DEF Input
  <2>2. <<m, j>> # <<44, 0>> OBVIOUS
  <2>3. QED BY <1>1, <1>2, <2>1, <2>2
<1>4. ASSUME NEW j \in DOMAIN objects PROVE Passed(j) /\ Passed(j)'
  <2>1. PICK m \in 1..25 : objects[j].kind = G!NodeOrder[m] BY ListedKinds DEF Input
  <2>2. m \in 1..43 /\ objects[j].kind = G!KindOf(m) BY <2>1, Loops
  <2>3. <<m, j>> \notin todo /\ <<m, j>> \notin todo' BY <1>3, <2>2
  <2>4. QED BY <2>1, <2>3 DEF Passed
<1>5. ASSUME NEW m \in 26..43, NEW j \in DOMAIN objects, objects[j].kind = G!KindOf(m)
      PROVE  ReadBy(m, j) /\ ReadBy(m, j)'
  <2>1. m \in 1..43 OBVIOUS
  <2>2. <<m, j>> \notin todo /\ <<m, j>> \notin todo' BY <1>3, <1>5, <2>1
  <2>3. QED BY <1>5, <2>2 DEF ReadBy
<1>6. QED BY <1>2, <1>4, <1>5

\* The order is kept by every step.
LEMMA OrderIsKept ==
    ASSUME Input, InOrder, todo # {}, objects' = objects, todo' = todo \ {G!Current}
    PROVE  InOrder'
<1>1. todo' \in SUBSET todo OBVIOUS
<1>2. ASSUME NEW job \in G!Jobs(objects) \ todo', NEW other \in todo' PROVE G!Before(job, other)
  <2>1. CASE job \notin todo BY <1>1, <1>2, <2>1 DEF InOrder
  <2>2. CASE job \in todo
    <3>1. job = G!Current /\ other \in todo /\ other # G!Current BY <2>2
    <3>2. QED BY <3>1, CurrentIsFirst DEF Input, InOrder
  <2>3. QED BY <2>1, <2>2
<1>3. QED BY <1>1, <1>2 DEF InOrder

----------------------------------------------------------------------------
(* The three shapes of a step *)

\* The edges a loop of nodes draws at once.
EarlyEdges(o) ==
    IF o.kind = "Namespace" THEN {G!Edge(G!ClusterId, G!Id(o), "owns")}
    ELSE IF o.kind = "CustomResource" /\ G!Accepted(o) THEN G!OwnersOfCustomResource(o)
    ELSE {}

Tallies == [G!Counters -> Nat]

Faultless(o) == o.ok \/ o.kind \in G!Unjudged

NodeStep ==
    /\ todo # {} /\ G!Current[1] \in 1..25 /\ G!Proceed /\ G!Show(G!This) /\ claimed' = claimed
    /\ \E e \in Nat :
        /\ issues' = G!Recorded(G!This.kind, e)
        /\ e = 0 <=> G!Accepted(G!This) /\ Faultless(G!This)
    /\ G!Tally(G!This)
    /\ edges' = edges \cup G!Drawable(EarlyEdges(G!This), DOMAIN shown')

\* What an edge loop draws, without and with a placeholder.
Plain(pass, o) ==
    IF pass = "CustomResource" THEN G!EdgesOf(o, G!Via(o, {"references"}))
    ELSE IF pass \in G!Workloads \cup {"PodOwners"} THEN G!OwnerEdges(o)
    ELSE IF pass = "Pod" THEN G!EdgesOf(o, G!Via(o, {"scheduled-on"}))
    ELSE IF pass \in {"PersistentVolumeClaim", "PersistentVolume"} /\ o.spec
        THEN G!EdgesOf(o, G!Via(o, {"binds-storage"}))
    ELSE IF pass = "Ingress" /\ o.spec THEN G!EdgesOf(o, G!Via(o, {"routes-to"}))
    ELSE IF pass = "NetworkPolicy"
        THEN G!PolicyEdges(o, G!FirstListed("Pod"), G!FirstListed("Namespace"))
    ELSE {}

Ensured(pass, o) ==
    IF pass = "Pod" \/ (pass \in G!Workloads /\ o.spec) THEN G!Via(o, G!PodReferences)
    ELSE IF pass \in G!Routes /\ o.spec THEN G!Via(o, {"attaches-to", "routes-to-backend"})
    ELSE IF pass = "HorizontalPodAutoscaler" /\ o.spec THEN G!Via(o, {"targets-scale"})
    ELSE {}

EdgeStep ==
    /\ todo # {} /\ G!Current[1] \in 26..43
    /\ G!Draw(G!PassOf(G!Current[1]), Plain(G!PassOf(G!Current[1]), G!This),
              Ensured(G!PassOf(G!Current[1]), G!This))

LastStep == todo # {} /\ G!Current = <<44, 0>> /\ G!DrawEndpoints

LEMMA NodeSteps ==
    ASSUME Input, InOrder, summary \in Tallies, G!AddObject
    PROVE  NodeStep
<1> DEFINE n == G!Current[1]
           o == G!This
<1>1. todo # {} /\ G!PassOf(n) = "node"
  BY DEF G!AddObject, G!AddNamespace, G!AddNode, G!AddPod, G!AddCounted, G!AddResource,
         G!AddUnjudged, G!AddCustomResource, G!Doing
<1>2. n \in 1..25 /\ o.kind = G!KindOf(n)
  <2>1. G!Current # <<44, 0>>
    <3>1. G!Current = <<44, 0>> => n = 44 OBVIOUS
    <3>2. QED BY <1>1, <3>1, Loops
  <2>2. n \in 1..43 /\ o.kind = G!KindOf(n) BY <1>1, <2>1, DoneIsBefore DEF G!This
  <2>3. n \in 26..43 => G!PassOf(n) # "node" BY KindsOfLoops
  <2> HIDE DEF n
  <2>4. n \in 1..25 \/ n \in 26..43 BY <2>2
  <2>5. QED BY <1>1, <2>2, <2>3, <2>4
<1>3. ASSUME summary' = summary, o.kind \notin {"Namespace", "Node", "Pod"} PROVE G!Tally(o)
  <2>1. ASSUME NEW c \in G!Counters PROVE ~G!AddsTo(o, c) BY <1>3, Zenon DEF G!AddsTo
  <2>2. summary = [c \in G!Counters |-> summary[c]] /\ \A c \in G!Counters : summary[c] \in Nat
    BY DEF Tallies
  <2>3. QED BY <1>3, <2>1, <2>2 DEF G!Tally
<1>4. G!Drawable({}, DOMAIN shown') = {} BY DEF G!Drawable
<1> DEFINE Shape(e) ==
        /\ e \in Nat /\ issues' = G!Recorded(o.kind, e)
        /\ e = 0 <=> G!Accepted(o) /\ Faultless(o)
        Joined == edges' = edges \cup G!Drawable(EarlyEdges(o), DOMAIN shown')
        Rest == G!Proceed /\ G!Show(o) /\ claimed' = claimed
        bad == IF G!Accepted(o) THEN 0 ELSE 1
<1> HIDE DEF n, o
<1> SUFFICES Rest /\ G!Tally(o) /\ Joined /\ \E e : Shape(e)
  BY <1>1, <1>2 DEF NodeStep, n, o
<1>5. CASE G!AddNamespace
  <2>1. o.kind = "Namespace" /\ Rest /\ issues' = G!Recorded("Namespace", bad)
    BY <1>2, <1>5 DEF G!AddNamespace, G!Doing, o, n
  <2>2. Shape(bad) BY <2>1 DEF Faultless, G!Unjudged
  <2>3. G!Tally(o) BY <1>5 DEF G!AddNamespace, o
  <2>4. Joined BY <1>5, <2>1 DEF G!AddNamespace, EarlyEdges, o
  <2>5. QED BY <2>1, <2>2, <2>3, <2>4
<1>6. CASE G!AddNode
  <2> DEFINE e == bad + (IF o.ok THEN 0 ELSE 1)
  <2>1. o.kind = "Node" /\ Rest /\ issues' = G!Recorded("Node", e)
    BY <1>2, <1>6 DEF G!AddNode, G!AddCounted, G!Doing, o, n
  <2>2. Shape(e) BY <2>1 DEF Faultless, G!Unjudged
  <2>3. G!Tally(o) BY <1>6 DEF G!AddNode, G!AddCounted, o
  <2>4. Joined BY <1>4, <1>6, <2>1 DEF G!AddNode, G!AddCounted, EarlyEdges, o
  <2>5. QED BY <2>1, <2>2, <2>3, <2>4
<1>7. CASE G!AddPod
  <2> DEFINE e == bad + (IF o.ok THEN 0 ELSE 1)
  <2>1. o.kind = "Pod" /\ Rest /\ issues' = G!Recorded("Pod", e)
    BY <1>2, <1>7 DEF G!AddPod, G!AddCounted, G!Doing, o, n
  <2>2. Shape(e) BY <2>1 DEF Faultless, G!Unjudged
  <2>3. G!Tally(o) BY <1>7 DEF G!AddPod, G!AddCounted, o
  <2>4. Joined BY <1>4, <1>7, <2>1 DEF G!AddPod, G!AddCounted, EarlyEdges, o
  <2>5. QED BY <2>1, <2>2, <2>3, <2>4
<1>8. CASE G!AddResource
  <2> DEFINE e == IF G!Accepted(o) /\ o.ok THEN 0 ELSE 1
  <2>1. /\ o.kind \notin G!Unjudged \cup {"Node", "Pod"} /\ Rest /\ issues' = G!Recorded(o.kind, e)
        /\ summary' = summary /\ edges' = edges
    BY <1>2, <1>8 DEF G!AddResource, G!Doing, o, n
  <2>2. Shape(e) BY <2>1 DEF Faultless
  <2>3. G!Tally(o) BY <1>3, <2>1 DEF G!Unjudged
  <2>4. Joined BY <1>4, <2>1 DEF EarlyEdges, G!Unjudged
  <2>5. QED BY <2>1, <2>2, <2>3, <2>4
<1>9. CASE G!AddUnjudged
  <2>1. /\ o.kind \in G!Unjudged \ {"Namespace", "CustomResource"} /\ Rest /\ issues' = G!Recorded(o.kind, bad)
        /\ summary' = summary /\ edges' = edges
    BY <1>2, <1>9 DEF G!AddUnjudged, G!Doing, o, n
  <2>2. Shape(bad) BY <2>1 DEF Faultless
  <2>3. G!Tally(o) BY <1>3, <2>1 DEF G!Unjudged
  <2>4. Joined BY <1>4, <2>1 DEF EarlyEdges
  <2>5. QED BY <2>1, <2>2, <2>3, <2>4
<1>10. CASE G!AddCustomResource
  <2>1. o.kind = "CustomResource" /\ Rest /\ issues' = G!Recorded("CustomResource", bad)
        /\ summary' = summary
    BY <1>2, <1>10 DEF G!AddCustomResource, G!Doing, o, n
  <2>2. Shape(bad) BY <2>1 DEF Faultless, G!Unjudged
  <2>3. G!Tally(o) BY <1>3, <2>1
  <2>4. Joined
    <3>1. edges' = IF G!Accepted(o)
                   THEN edges \cup G!Drawable(G!OwnersOfCustomResource(o), DOMAIN shown')
                   ELSE edges
      BY <1>10 DEF G!AddCustomResource, o
    <3>2. QED BY <1>4, <2>1, <3>1 DEF EarlyEdges
  <2>5. QED BY <2>1, <2>2, <2>3, <2>4
<1>11. QED BY <1>5, <1>6, <1>7, <1>8, <1>9, <1>10 DEF G!AddObject

LEMMA EdgeSteps ==
    ASSUME Input, InOrder, G!DrawObject
    PROVE  EdgeStep
<1> DEFINE o == G!This
           pass == G!PassOf(G!Current[1])
           Drawn(p, es, ensured) ==
               todo # {} /\ pass = p /\ G!Draw(p, es, ensured)
<1>1. ASSUME NEW p \in G!Workloads \cup G!Routes \cup
                  {"CustomResource", "PodOwners", "Pod", "PersistentVolumeClaim", "PersistentVolume",
                   "Ingress", "HorizontalPodAutoscaler", "NetworkPolicy"},
             Drawn(p, Plain(p, o), Ensured(p, o))
      PROVE  EdgeStep
  <2>1. pass \notin {"node", "endpoints"} BY <1>1 DEF G!Workloads, G!Routes
  <2>2. G!Current # <<44, 0>>
    <3>1. G!Current = <<44, 0>> => G!Current[1] = 44 OBVIOUS
    <3>2. QED BY <2>1, <3>1, Loops
  <2>3. G!Current[1] \in 1..43 BY <1>1, <2>2, DoneIsBefore
  <2>4. G!Current[1] \in 1..25 => pass = "node" BY Loops
  <2>5. G!Current[1] \in 26..43
    <3> DEFINE n == G!Current[1]
    <3>1. n \in 1..43 /\ ~(n \in 1..25) BY <2>1, <2>3, <2>4
    <3> HIDE DEF n
    <3>2. n \in 26..43 BY <3>1
    <3>3. QED BY <3>2 DEF n
  <2>6. QED BY <1>1, <2>5 DEF EdgeStep
<1> HIDE DEF o, pass
<1>2. CASE G!DrawCustomResource
  <2> DEFINE p == "CustomResource"
  <2>1. Drawn(p, G!EdgesOf(o, G!Via(o, {"references"})), {})
    BY <1>2 DEF G!DrawCustomResource, G!Doing, o, pass
  <2>2. Plain(p, o) = G!EdgesOf(o, G!Via(o, {"references"})) /\ Ensured(p, o) = {}
    BY DEF Plain, Ensured, G!Workloads, G!Routes
  <2>3. QED BY <1>1, <2>1, <2>2
<1>3. CASE G!DrawWorkload
  <2>1. PICK p \in G!Workloads :
            Drawn(p, G!OwnerEdges(o), IF o.spec THEN G!Via(o, G!PodReferences) ELSE {})
    BY <1>3 DEF G!DrawWorkload, G!Doing, o, pass
  <2>2. /\ Plain(p, o) = G!OwnerEdges(o)
        /\ Ensured(p, o) = IF o.spec THEN G!Via(o, G!PodReferences) ELSE {}
    BY DEF Plain, Ensured, G!Workloads, G!Routes
  <2>3. QED BY <1>1, <2>1, <2>2
<1>4. CASE G!DrawPodOwners
  <2> DEFINE p == "PodOwners"
  <2>1. Drawn(p, G!OwnerEdges(o), {}) BY <1>4 DEF G!DrawPodOwners, G!Doing, o, pass
  <2>2. Plain(p, o) = G!OwnerEdges(o) /\ Ensured(p, o) = {}
    BY DEF Plain, Ensured, G!Workloads, G!Routes
  <2>3. QED BY <1>1, <2>1, <2>2
<1>5. CASE G!DrawPod
  <2> DEFINE p == "Pod"
  <2>1. Drawn(p, G!EdgesOf(o, G!Via(o, {"scheduled-on"})), G!Via(o, G!PodReferences))
    BY <1>5 DEF G!DrawPod, G!Doing, o, pass
  <2>2. /\ Plain(p, o) = G!EdgesOf(o, G!Via(o, {"scheduled-on"}))
        /\ Ensured(p, o) = G!Via(o, G!PodReferences)
    BY DEF Plain, Ensured, G!Workloads
  <2>3. QED BY <1>1, <2>1, <2>2
<1>6. CASE G!DrawStorage
  <2>1. PICK p \in {"PersistentVolumeClaim", "PersistentVolume"} :
            Drawn(p, IF o.spec THEN G!EdgesOf(o, G!Via(o, {"binds-storage"})) ELSE {}, {})
    BY <1>6 DEF G!DrawStorage, G!Doing, o, pass
  <2>2. /\ Plain(p, o) = IF o.spec THEN G!EdgesOf(o, G!Via(o, {"binds-storage"})) ELSE {}
        /\ Ensured(p, o) = {}
    BY DEF Plain, Ensured, G!Workloads, G!Routes
  <2>3. QED BY <1>1, <2>1, <2>2
<1>7. CASE G!DrawIngress
  <2> DEFINE p == "Ingress"
  <2>1. Drawn(p, IF o.spec THEN G!EdgesOf(o, G!Via(o, {"routes-to"})) ELSE {}, {})
    BY <1>7 DEF G!DrawIngress, G!Doing, o, pass
  <2>2. /\ Plain(p, o) = IF o.spec THEN G!EdgesOf(o, G!Via(o, {"routes-to"})) ELSE {}
        /\ Ensured(p, o) = {}
    BY DEF Plain, Ensured, G!Workloads, G!Routes
  <2>3. QED BY <1>1, <2>1, <2>2
<1>8. CASE G!DrawRoute
  <2>1. PICK p \in G!Routes :
            Drawn(p, {}, IF o.spec THEN G!Via(o, {"attaches-to", "routes-to-backend"}) ELSE {})
    BY <1>8 DEF G!DrawRoute, G!Doing, o, pass
  <2>2. /\ Plain(p, o) = {}
        /\ Ensured(p, o) = IF o.spec THEN G!Via(o, {"attaches-to", "routes-to-backend"}) ELSE {}
    BY DEF Plain, Ensured, G!Workloads, G!Routes
  <2>3. QED BY <1>1, <2>1, <2>2
<1>9. CASE G!DrawAutoscaler
  <2> DEFINE p == "HorizontalPodAutoscaler"
  <2>1. Drawn(p, {}, IF o.spec THEN G!Via(o, {"targets-scale"}) ELSE {})
    BY <1>9 DEF G!DrawAutoscaler, G!Doing, o, pass
  <2>2. /\ Plain(p, o) = {}
        /\ Ensured(p, o) = IF o.spec THEN G!Via(o, {"targets-scale"}) ELSE {}
    BY DEF Plain, Ensured, G!Workloads, G!Routes
  <2>3. QED BY <1>1, <2>1, <2>2
<1>10. CASE G!DrawPolicy
  <2> DEFINE p == "NetworkPolicy"
             es == G!PolicyEdges(o, G!FirstListed("Pod"), G!FirstListed("Namespace"))
  <2>1. Drawn(p, es, {}) BY <1>10 DEF G!DrawPolicy, G!Doing, o, pass
  <2>2. Plain(p, o) = es /\ Ensured(p, o) = {} BY DEF Plain, Ensured, G!Workloads, G!Routes
  <2>3. QED BY <1>1, <2>1, <2>2
<1>11. QED BY <1>2, <1>3, <1>4, <1>5, <1>6, <1>7, <1>8, <1>9, <1>10 DEF G!DrawObject

\* Every step has one of the three shapes, and none touches what was listed.
LEMMA StepsAre ==
    ASSUME Input, InOrder, summary \in Tallies, G!Next
    PROVE  /\ NodeStep \/ EdgeStep \/ LastStep
           /\ todo # {} /\ G!Proceed
<1>1. CASE G!AddObject
  <2>1. NodeStep BY <1>1, NodeSteps
  <2>2. QED BY <2>1 DEF NodeStep
<1>2. CASE G!DrawObject
  <2>1. EdgeStep BY <1>2, EdgeSteps
  <2>2. QED BY <2>1 DEF EdgeStep, G!Draw
<1>3. CASE G!DrawEndpoints
  <2>1. todo # {} /\ G!PassOf(G!Current[1]) = "endpoints" BY <1>3 DEF G!DrawEndpoints, G!Doing
  <2>2. G!Current = <<44, 0>>
    <3> DEFINE n == G!Current[1]
    <3>1. n \in 1..25 => G!PassOf(n) = "node" BY Loops
    <3>2. n \in 26..43 => G!PassOf(n) # "endpoints" BY KindsOfLoops
    <3>3. G!Current = <<44, 0>> \/ n \in 1..43 BY <2>1, DoneIsBefore
    <3>4. G!PassOf(n) = "endpoints" BY <2>1
    <3> HIDE DEF n
    <3>5. n \in 1..43 => n \in 1..25 \/ n \in 26..43 OBVIOUS
    <3>6. QED BY <3>1, <3>2, <3>3, <3>4, <3>5
  <2>3. QED BY <1>3, <2>1, <2>2 DEF LastStep, G!DrawEndpoints
<1>4. QED BY <1>1, <1>2, <1>3 DEF G!Next

----------------------------------------------------------------------------
(* The object that stands for an id *)

LEMMA SameIdSameKind == \A o, p : G!Id(o) = G!Id(p) => o.kind = p.kind
  BY DEF G!Id

LEMMA OriginalIs ==
    ASSUME G!IsListing(objects), NEW i \in DOMAIN objects, objects[i].named
    PROVE  \E j \in DOMAIN objects :
            /\ G!Original(G!Id(objects[i])) = objects[j]
            /\ objects[j].named /\ G!Id(objects[j]) = G!Id(objects[i]) /\ j <= i
            /\ \A k \in DOMAIN objects : k < j => G!Id(objects[k]) # G!Id(objects[i])
<1> DEFINE id == G!Id(objects[i])
           places == {k \in DOMAIN objects : objects[k].named /\ G!Id(objects[k]) = id}
           j == CHOOSE k \in places : \A l \in places : k <= l
<1>1. places \in SUBSET Nat /\ i \in places BY ListedKinds
<1>2. \E k \in places : \A l \in places : k <= l
  <2> HIDE DEF places
  <2>1. places # {} BY <1>1
  <2>2. QED BY <1>1, <2>1, LeastNumber
<1>3. j \in places /\ \A l \in places : j <= l BY <1>2
<1>4. G!Original(id) = objects[j] BY DEF G!Original
<1> HIDE DEF j
<1>5. ASSUME NEW k \in DOMAIN objects, k < j PROVE G!Id(objects[k]) # id
  <2>1. j \in Nat /\ k \in Nat BY <1>1, <1>3, ListedKinds
  <2>2. k \notin places BY <1>3, <1>5, <2>1
  <2>3. G!Id(objects[k]) = id => objects[k].named BY ListedKinds
  <2>4. QED BY <2>2, <2>3
<1>6. j \in DOMAIN objects /\ objects[j].named /\ G!Id(objects[j]) = id /\ j <= i BY <1>1, <1>3
<1>7. QED BY <1>4, <1>5, <1>6

LEMMA FirstIsOriginal ==
    ASSUME G!IsListing(objects), NEW i \in DOMAIN objects, objects[i].named,
           \A k \in DOMAIN objects : k < i => G!Id(objects[k]) # G!Id(objects[i])
    PROVE  G!Original(G!Id(objects[i])) = objects[i]
<1>1. PICK j \in DOMAIN objects :
        /\ G!Original(G!Id(objects[i])) = objects[j]
        /\ G!Id(objects[j]) = G!Id(objects[i]) /\ j <= i
  BY OriginalIs
<1>2. i \in Nat /\ j \in Nat BY ListedKinds
<1>3. ~(j < i) BY <1>1
<1>4. QED BY <1>1, <1>2, <1>3

\* What depends on the lists alone stays as it is.
LEMMA SameInput ==
    ASSUME G!Proceed
    PROVE  /\ objects' = objects /\ slices' = slices /\ endpoints' = endpoints
           /\ todo' = todo \ {G!Current}
           /\ \A id : G!Original(id)' = G!Original(id)
           /\ G!Originals' = G!Originals
           /\ \A o : G!Relations(o)' = G!Relations(o)
           /\ G!EndpointRelations' = G!EndpointRelations
           /\ (Input => Input')
<1>1. objects' = objects /\ slices' = slices /\ endpoints' = endpoints /\ todo' = todo \ {G!Current}
  BY DEF G!Proceed
<1>2. \A id : G!Original(id)' = G!Original(id) BY <1>1 DEF G!Original
<1>3. G!Originals' = G!Originals BY <1>1, <1>2 DEF G!Originals, G!Items
<1>4. \A o : G!Relations(o)' = G!Relations(o) BY <1>3 DEF G!Relations
<1>5. G!EndpointRelations' = G!EndpointRelations BY <1>1 DEF G!EndpointRelations
<1>6. Input => Input' BY <1>1 DEF Input
<1>7. QED BY <1>1, <1>2, <1>3, <1>4, <1>5, <1>6

----------------------------------------------------------------------------
(* The nodes *)

\* The resource nodes are the named objects that were passed.
ResourcesAre ==
    \A id : id \in resources <=>
        \E i \in DOMAIN objects : objects[i].named /\ G!Id(objects[i]) = id /\ Passed(i)

\* Each shows the first object of its id; other nodes come only after all objects are nodes.
NodesAre ==
    /\ G!ClusterId \in DOMAIN shown
    /\ \A id \in resources : id \in DOMAIN shown /\ shown[id] = G!Original(id)
    /\ (\E i \in DOMAIN objects : ~Passed(i)) => DOMAIN shown = resources \cup {G!ClusterId}

\* The turn of the object at place i in the n-th loop of nodes.
NodeTurnOf(n, i) ==
    /\ G!Current = <<n, i>> /\ G!This = objects[i] /\ objects[i].kind = G!NodeOrder[n] /\ ~Passed(i)
    /\ \A m \in 1..25, j \in DOMAIN objects :
        objects[j].kind = G!NodeOrder[m] => (Passed(j) <=> m < n \/ (m = n /\ j < i))
    /\ \A j \in DOMAIN objects : Passed(j)' <=> Passed(j) \/ j = i
    /\ \A m \in 26..43, j \in DOMAIN objects : ~ReadBy(m, j) /\ ~ReadBy(m, j)'
    /\ <<44, 0>> \in todo'

LEMMA NodeStepIs ==
    ASSUME Input, InOrder, NodeStep
    PROVE  \E n \in 1..25, i \in DOMAIN objects : NodeTurnOf(n, i)
<1>1. G!IsListing(objects) /\ todo # {} BY DEF Input, NodeStep
<1>2. objects' = objects /\ todo' = todo \ {G!Current} BY DEF NodeStep, G!Proceed
<1>3. PICK n \in 1..25, i \in DOMAIN objects : G!Current = <<n, i>> /\ G!This = objects[i]
  <2>1. G!Current[1] \in 1..25 BY DEF NodeStep
  <2>2. G!Current # <<44, 0>>
    <3>1. G!Current = <<44, 0>> => G!Current[1] = 44 OBVIOUS
    <3>2. QED BY <2>1, <3>1
  <2>3. QED BY <1>1, <2>1, <2>2, DoneIsBefore DEF G!This
<1>4. ~(n < n) /\ ~(i < i) BY <1>1, ListedKinds
<1>5. /\ objects[i].kind = G!NodeOrder[n]
      /\ \A m \in 1..25, j \in DOMAIN objects :
            objects[j].kind = G!NodeOrder[m] => (Passed(j) <=> m < n \/ (m = n /\ j < i))
      /\ \A m \in 26..43, j \in DOMAIN objects : ~ReadBy(m, j)
      /\ \A j \in DOMAIN objects : Passed(j)' <=> Passed(j) \/ j = i
      /\ \A m \in 26..43, j \in DOMAIN objects : ~ReadBy(m, j)'
      /\ <<44, 0>> \in todo'
  BY <1>1, <1>2, <1>3, NodeTurn
<1>6. ~Passed(i) BY <1>4, <1>5
<1>7. NodeTurnOf(n, i) BY <1>3, <1>5, <1>6 DEF NodeTurnOf
<1>8. QED BY <1>7

\* Who is accepted as a node is the first one with its id.
LEMMA AcceptedIsFirst ==
    ASSUME Input, InOrder, ResourcesAre, NodeStep
    PROVE  /\ G!Accepted(G!This) => G!Original(G!Id(G!This)) = G!This
           /\ G!Accepted(G!This) <=>
                /\ G!This.named
                /\ \A j \in DOMAIN objects :
                    Passed(j) /\ objects[j].kind = G!This.kind => G!Id(objects[j]) # G!Id(G!This)
<1>1. G!IsListing(objects) /\ todo # {} BY DEF Input, NodeStep
<1>2. objects' = objects /\ todo' = todo \ {G!Current} BY DEF NodeStep, G!Proceed
<1>3. PICK n \in 1..25, i \in DOMAIN objects : NodeTurnOf(n, i)
  BY NodeStepIs
<1>4. /\ G!Current = <<n, i>> /\ G!This = objects[i] /\ objects[i].kind = G!NodeOrder[n] /\ ~Passed(i)
      /\ \A m \in 1..25, j \in DOMAIN objects :
            objects[j].kind = G!NodeOrder[m] => (Passed(j) <=> m < n \/ (m = n /\ j < i))
      /\ \A j \in DOMAIN objects : Passed(j)' <=> Passed(j) \/ j = i
  BY <1>3 DEF NodeTurnOf
<1>5. \A j \in DOMAIN objects : objects[j].kind = G!NodeOrder[n] => (Passed(j) <=> j < i) BY <1>4
<1>6. G!Accepted(G!This) <=>
        /\ G!This.named
        /\ \A j \in DOMAIN objects :
            Passed(j) /\ objects[j].kind = G!This.kind => G!Id(objects[j]) # G!Id(G!This)
  <2>1. G!Accepted(G!This) <=> objects[i].named /\ G!Id(objects[i]) \notin resources
    BY <1>4 DEF G!Accepted
  <2>2. \A j \in DOMAIN objects : G!Id(objects[j]) = G!Id(objects[i]) =>
            objects[j].named = objects[i].named /\ objects[j].kind = objects[i].kind
    BY <1>1, ListedKinds, SameIdSameKind
  <2>3. QED BY <1>4, <2>1, <2>2 DEF ResourcesAre
<1>7. ASSUME G!Accepted(G!This) PROVE G!Original(G!Id(G!This)) = G!This
  <2>1. \A k \in DOMAIN objects : k < i => G!Id(objects[k]) # G!Id(objects[i])
    BY <1>4, <1>5, <1>6, <1>7, SameIdSameKind
  <2>2. objects[i].named BY <1>4, <1>7 DEF G!Accepted
  <2>3. QED BY <1>1, <1>4, <2>1, <2>2, FirstIsOriginal
<1>8. QED BY <1>6, <1>7

LEMMA NodeStepNodes ==
    ASSUME Input, InOrder, ResourcesAre, NodesAre, NodeStep
    PROVE  ResourcesAre' /\ NodesAre' /\ DOMAIN shown' = resources' \cup {G!ClusterId}
<1>1. G!IsListing(objects) /\ todo # {} /\ G!Proceed BY DEF Input, NodeStep
<1>2. objects' = objects /\ todo' = todo \ {G!Current} /\ \A id : G!Original(id)' = G!Original(id)
  BY <1>1, SameInput
<1>3. PICK n \in 1..25, i \in DOMAIN objects : NodeTurnOf(n, i)
  BY NodeStepIs
<1>4. /\ G!Current = <<n, i>> /\ G!This = objects[i] /\ objects[i].kind = G!NodeOrder[n] /\ ~Passed(i)
      /\ \A m \in 1..25, j \in DOMAIN objects :
            objects[j].kind = G!NodeOrder[m] => (Passed(j) <=> m < n \/ (m = n /\ j < i))
      /\ \A j \in DOMAIN objects : Passed(j)' <=> Passed(j) \/ j = i
  BY <1>3 DEF NodeTurnOf
<1>5. /\ resources' = IF objects[i].named THEN resources \cup {G!Id(objects[i])} ELSE resources
      /\ shown' = IF objects[i].named THEN G!WithNodes({G!Id(objects[i])}, objects[i]) ELSE shown
  BY <1>4 DEF NodeStep, G!Show
<1>6. ResourcesAre' BY <1>2, <1>4, <1>5 DEF ResourcesAre
<1>7. DOMAIN shown = resources \cup {G!ClusterId} BY <1>4 DEF NodesAre
<1>8. G!Id(objects[i]) # G!ClusterId
  <2>1. G!NodeOrder[n] # "Cluster" BY KindsOfLoops
  <2>2. QED BY <1>4, <2>1 DEF G!Id, G!ClusterId
<1>9. DOMAIN shown' = resources' \cup {G!ClusterId}
  BY <1>5, <1>7 DEF G!WithNodes
<1>10. ASSUME NEW id \in resources' PROVE id \in DOMAIN shown' /\ shown'[id] = G!Original(id)
  <2>1. CASE id \in resources
    <3>1. id \in DOMAIN shown /\ shown[id] = G!Original(id) BY <2>1 DEF NodesAre
    <3>2. QED BY <1>5, <1>9, <1>10, <3>1 DEF G!WithNodes
  <2>2. CASE id \notin resources
    <3>1. objects[i].named /\ id = G!Id(objects[i]) BY <1>5, <1>10, <2>2
    <3>2. id \notin DOMAIN shown BY <1>7, <1>8, <2>2, <3>1
    <3>3. shown'[id] = objects[i] BY <1>5, <3>1, <3>2 DEF G!WithNodes
    <3>4. G!Accepted(G!This) BY <1>4, <2>2, <3>1 DEF G!Accepted
    <3>5. G!Original(id) = objects[i] BY <1>4, <3>1, <3>4, AcceptedIsFirst
    <3>6. QED BY <1>9, <1>10, <3>3, <3>5
  <2>3. QED BY <2>1, <2>2
<1>11. NodesAre' BY <1>2, <1>9, <1>10 DEF NodesAre
<1>12. QED BY <1>6, <1>9, <1>11

----------------------------------------------------------------------------
(* The edge loops *)

\* The turn of the object at place i in the n-th loop.
EdgeTurnOf(n, i) ==
    /\ G!Current = <<n, i>> /\ G!This = objects[i] /\ objects[i].kind = G!KindOf(n) /\ ~ReadBy(n, i)
    /\ \A j \in DOMAIN objects : Passed(j) /\ Passed(j)'
    /\ \A j \in DOMAIN objects : objects[j].kind = G!KindOf(n) /\ j < i => ReadBy(n, j)
    /\ \A m \in 26..43, j \in DOMAIN objects : ReadBy(m, j)' <=> ReadBy(m, j) \/ (m = n /\ j = i)
    /\ <<44, 0>> \in todo'
    /\ G!Draw(G!PassOf(n), Plain(G!PassOf(n), objects[i]), Ensured(G!PassOf(n), objects[i]))

LEMMA EdgeStepIs ==
    ASSUME Input, InOrder, EdgeStep
    PROVE  \E n \in 26..43, i \in DOMAIN objects : EdgeTurnOf(n, i)
<1>1. G!IsListing(objects) /\ todo # {} BY DEF Input, EdgeStep
<1>2. objects' = objects /\ todo' = todo \ {G!Current} BY DEF EdgeStep, G!Draw, G!Proceed
<1>3. PICK n \in 26..43, i \in DOMAIN objects : G!Current = <<n, i>> /\ G!This = objects[i]
  <2>1. G!Current[1] \in 26..43 BY DEF EdgeStep
  <2>2. G!Current # <<44, 0>>
    <3>1. G!Current = <<44, 0>> => G!Current[1] = 44 OBVIOUS
    <3>2. QED BY <2>1, <3>1
  <2>3. QED BY <1>1, <2>1, <2>2, DoneIsBefore DEF G!This
<1>4. /\ objects[i].kind = G!KindOf(n) /\ ~ReadBy(n, i)
      /\ \A j \in DOMAIN objects : Passed(j) /\ Passed(j)'
      /\ \A j \in DOMAIN objects : objects[j].kind = G!KindOf(n) /\ j < i => ReadBy(n, j)
      /\ \A m \in 26..43, j \in DOMAIN objects :
            ReadBy(m, j)' <=> ReadBy(m, j) \/ (m = n /\ j = i)
      /\ <<44, 0>> \in todo'
  BY <1>1, <1>2, <1>3, EdgeTurn
<1>5. G!Draw(G!PassOf(n), Plain(G!PassOf(n), objects[i]), Ensured(G!PassOf(n), objects[i]))
  <2>1. G!Current[1] = n BY <1>3
  <2>2. QED BY <1>3, <2>1 DEF EdgeStep
<1>6. EdgeTurnOf(n, i) BY <1>3, <1>4, <1>5 DEF EdgeTurnOf
<1>7. QED BY <1>6

\* What a loop has claimed: the ids of the nodes it has read.
ClaimedAre ==
    \A n \in 26..43 : \A id :
        <<G!PassOf(n), id>> \in claimed <=>
            id \in resources /\ \E i \in DOMAIN objects : ReadBy(n, i) /\ G!Id(objects[i]) = id

\* The object a loop works on is the first one of its id.
LEMMA ClaimingIsFirst ==
    ASSUME Input, ResourcesAre, ClaimedAre, NEW n \in 26..43, NEW i \in DOMAIN objects,
           EdgeTurnOf(n, i), G!Claims(G!PassOf(n))
    PROVE  /\ objects[i].named /\ G!Id(objects[i]) \in resources
           /\ G!Original(G!Id(objects[i])) = objects[i]
<1> DEFINE id == G!Id(objects[i])
<1>1. G!IsListing(objects) BY DEF Input
<1>2. G!This = objects[i] BY DEF EdgeTurnOf
<1>3. id \in resources /\ <<G!PassOf(n), id>> \notin claimed BY <1>2 DEF G!Claims
<1>4. objects[i].named BY <1>1, <1>3, ListedKinds DEF ResourcesAre
<1>5. ASSUME NEW k \in DOMAIN objects, k < i PROVE G!Id(objects[k]) # id
  <2>1. ASSUME G!Id(objects[k]) = id PROVE FALSE
    <3>1. objects[k].kind = G!KindOf(n) BY <2>1, SameIdSameKind DEF EdgeTurnOf
    <3>2. ReadBy(n, k) BY <1>5, <3>1 DEF EdgeTurnOf
    <3>3. QED BY <1>3, <2>1, <3>2 DEF ClaimedAre
  <2>2. QED BY <2>1
<1>6. G!Original(id) = objects[i] BY <1>1, <1>4, <1>5, FirstIsOriginal
<1>7. QED BY <1>3, <1>4, <1>6

LEMMA NodeStepClaims ==
    ASSUME Input, InOrder, ClaimedAre, NodeStep
    PROVE  ClaimedAre' /\ \A n \in 26..43 : \A id : <<G!PassOf(n), id>> \notin claimed'
<1>1. PICK n \in 1..25, i \in DOMAIN objects : NodeTurnOf(n, i) BY NodeStepIs
<1>2. objects' = objects /\ claimed' = claimed BY DEF NodeStep, G!Proceed
<1>3. \A m \in 26..43, j \in DOMAIN objects : ~ReadBy(m, j) /\ ~ReadBy(m, j)' BY <1>1 DEF NodeTurnOf
<1>4. \A m \in 26..43 : \A id : <<G!PassOf(m), id>> \notin claimed BY <1>3 DEF ClaimedAre
<1>5. QED BY <1>2, <1>3, <1>4 DEF ClaimedAre

LEMMA EdgeStepNodes ==
    ASSUME Input, ResourcesAre, NodesAre, ClaimedAre,
           NEW n \in 26..43, NEW i \in DOMAIN objects, EdgeTurnOf(n, i)
    PROVE  ResourcesAre' /\ NodesAre' /\ ClaimedAre' /\ resources' = resources
<1> DEFINE pass == G!PassOf(n)
           id == G!Id(objects[i])
<1>1. G!Proceed /\ resources' = resources BY DEF EdgeTurnOf, G!Draw
<1>2. objects' = objects /\ \A o : G!Original(o)' = G!Original(o) BY <1>1, SameInput
<1>3. \A j \in DOMAIN objects : Passed(j) /\ Passed(j)' BY DEF EdgeTurnOf
<1>4. ResourcesAre' BY <1>1, <1>2, <1>3 DEF ResourcesAre
<1>5. /\ DOMAIN shown \in SUBSET DOMAIN shown'
      /\ \A o \in DOMAIN shown : shown'[o] = shown[o]
  <2>1. \/ shown' = shown
        \/ \E ids : shown' = G!WithNodes(ids, G!Placeholder)
    BY DEF EdgeTurnOf, G!Draw
  <2>2. QED BY <2>1 DEF G!WithNodes
<1>6. NodesAre' BY <1>1, <1>2, <1>3, <1>5 DEF NodesAre
<1>7. ClaimedAre'
  <2> SUFFICES ASSUME NEW m \in 26..43, NEW a
               PROVE  <<G!PassOf(m), a>> \in claimed' <=>
                        /\ a \in resources'
                        /\ \E j \in DOMAIN objects' : ReadBy(m, j)' /\ G!Id(objects'[j]) = a
    BY DEF ClaimedAre
  <2>1. claimed' = IF G!Claims(pass) THEN claimed \cup {<<pass, id>>} ELSE claimed
    BY DEF EdgeTurnOf, G!Draw
  <2>2. G!Claims(pass) <=> id \in resources /\ <<pass, id>> \notin claimed
    BY DEF EdgeTurnOf, G!Claims
  <2>3. <<G!PassOf(m), a>> = <<pass, id>> <=> m = n /\ a = id
    <3>1. G!PassOf(m) = pass <=> m = n BY OneLoopPerPass
    <3>2. QED BY <3>1
  <2>4. <<G!PassOf(m), a>> \in claimed' <=>
            <<G!PassOf(m), a>> \in claimed \/ (m = n /\ a = id /\ id \in resources)
    BY <2>1, <2>2, <2>3
  <2>5. (\E j \in DOMAIN objects : ReadBy(m, j)' /\ G!Id(objects[j]) = a) <=>
            \/ \E j \in DOMAIN objects : ReadBy(m, j) /\ G!Id(objects[j]) = a
            \/ m = n /\ a = id
    BY DEF EdgeTurnOf
  <2>6. <<G!PassOf(m), a>> \in claimed <=>
            a \in resources /\ \E j \in DOMAIN objects : ReadBy(m, j) /\ G!Id(objects[j]) = a
    BY DEF ClaimedAre
  <2> HIDE DEF id, pass
  <2>7. QED BY <1>1, <1>2, <2>4, <2>5, <2>6
<1>8. QED BY <1>1, <1>4, <1>6, <1>7

LEMMA LastStepNodes ==
    ASSUME Input, InOrder, ResourcesAre, NodesAre, ClaimedAre, LastStep
    PROVE  ResourcesAre' /\ NodesAre' /\ ClaimedAre' /\ resources' = resources /\ todo' = {}
<1>1. /\ G!Proceed /\ resources' = resources /\ shown' = shown /\ claimed' = claimed
      /\ todo # {} /\ G!Current = <<44, 0>>
  BY DEF LastStep, G!DrawEndpoints
<1>2. objects' = objects /\ todo' = todo \ {G!Current} /\ \A o : G!Original(o)' = G!Original(o)
  BY <1>1, SameInput
<1>3. /\ todo' = {}
      /\ \A j \in DOMAIN objects : Passed(j) /\ Passed(j)'
      /\ \A m \in 26..43, j \in DOMAIN objects :
            objects[j].kind = G!KindOf(m) => ReadBy(m, j) /\ ReadBy(m, j)'
  BY <1>1, <1>2, LastTurn
<1>4. \A m \in 26..43, j \in DOMAIN objects : ReadBy(m, j)' <=> ReadBy(m, j)
  BY <1>2, <1>3 DEF ReadBy
<1>5. ResourcesAre' BY <1>1, <1>2, <1>3 DEF ResourcesAre
<1>6. NodesAre' BY <1>1, <1>2, <1>3 DEF NodesAre
<1>7. ClaimedAre' BY <1>1, <1>2, <1>4 DEF ClaimedAre
<1>8. QED BY <1>1, <1>3, <1>5, <1>6, <1>7

----------------------------------------------------------------------------
(* The issues and the summary *)

\* A kind has no issue if and only if nothing was wrong with what was passed of it.
IssuesAre ==
    /\ issues \in [G!Kinds -> Nat]
    /\ \A kind \in G!Kinds :
        issues[kind] = 0 <=>
            /\ \A i \in DOMAIN objects :
                objects[i].kind = kind /\ Passed(i) => objects[i].named /\ Faultless(objects[i])
            /\ \A i, j \in DOMAIN objects :
                /\ objects[i].kind = kind /\ objects[j].kind = kind /\ Passed(i) /\ Passed(j)
                /\ G!Id(objects[i]) = G!Id(objects[j])
                => i = j

LEMMA NodeStepIssues ==
    ASSUME Input, InOrder, ResourcesAre, IssuesAre, NodeStep
    PROVE  IssuesAre'
<1>1. PICK n \in 1..25, i \in DOMAIN objects : NodeTurnOf(n, i) BY NodeStepIs
<1>2. objects' = objects BY DEF NodeStep, G!Proceed
<1> DEFINE o == objects[i]
<1>3. o = G!This /\ ~Passed(i) /\ \A j \in DOMAIN objects : Passed(j)' <=> Passed(j) \/ j = i
  BY <1>1 DEF NodeTurnOf
<1>4. o.kind \in G!Kinds
  <2>1. G!IsObject(o) BY ListedKinds DEF Input
  <2>2. QED BY <2>1 DEF G!IsObject, G!Kinds
<1>5. PICK e \in Nat : /\ issues' = G!Recorded(o.kind, e)
                       /\ e = 0 <=> G!Accepted(o) /\ Faultless(o)
  BY <1>3 DEF NodeStep
<1>6. G!Accepted(o) <=>
        /\ o.named
        /\ \A j \in DOMAIN objects : Passed(j) /\ objects[j].kind = o.kind => G!Id(objects[j]) # G!Id(o)
  BY <1>3, AcceptedIsFirst
<1>7. /\ issues' \in [G!Kinds -> Nat]
      /\ \A kind \in G!Kinds : kind # o.kind => issues'[kind] = issues[kind]
      /\ issues'[o.kind] = 0 <=> issues[o.kind] = 0 /\ e = 0
  <2>1. MaxIssues \in Nat /\ MaxIssues > 0 BY GraphAssumption
  <2> HIDE DEF o
  <2>2. QED BY <1>4, <1>5, <2>1 DEF IssuesAre, G!Recorded
<1>8. ASSUME NEW kind \in G!Kinds
      PROVE  issues'[kind] = 0 <=>
                /\ \A j \in DOMAIN objects :
                    objects[j].kind = kind /\ Passed(j)' => objects[j].named /\ Faultless(objects[j])
                /\ \A j, k \in DOMAIN objects :
                    /\ objects[j].kind = kind /\ objects[k].kind = kind /\ Passed(j)' /\ Passed(k)'
                    /\ G!Id(objects[j]) = G!Id(objects[k])
                    => j = k
  <2>1. issues[kind] = 0 <=>
            /\ \A j \in DOMAIN objects :
                objects[j].kind = kind /\ Passed(j) => objects[j].named /\ Faultless(objects[j])
            /\ \A j, k \in DOMAIN objects :
                /\ objects[j].kind = kind /\ objects[k].kind = kind /\ Passed(j) /\ Passed(k)
                /\ G!Id(objects[j]) = G!Id(objects[k])
                => j = k
    BY DEF IssuesAre
  <2>2. CASE kind # o.kind
    <3>1. \A j \in DOMAIN objects : objects[j].kind = kind => (Passed(j)' <=> Passed(j)) BY <1>3, <2>2
    <3>2. QED BY <1>7, <2>1, <2>2, <3>1
  <2>3. CASE kind = o.kind
    <3>1. (\A j \in DOMAIN objects :
                objects[j].kind = kind /\ Passed(j)' => objects[j].named /\ Faultless(objects[j]))
            <=> /\ \A j \in DOMAIN objects :
                    objects[j].kind = kind /\ Passed(j) => objects[j].named /\ Faultless(objects[j])
                /\ o.named /\ Faultless(o)
      BY <1>3, <2>3
    <3>2. (\A j, k \in DOMAIN objects :
                /\ objects[j].kind = kind /\ objects[k].kind = kind /\ Passed(j)' /\ Passed(k)'
                /\ G!Id(objects[j]) = G!Id(objects[k])
                => j = k)
            <=> /\ \A j, k \in DOMAIN objects :
                    /\ objects[j].kind = kind /\ objects[k].kind = kind /\ Passed(j) /\ Passed(k)
                    /\ G!Id(objects[j]) = G!Id(objects[k])
                    => j = k
                /\ \A j \in DOMAIN objects :
                    Passed(j) /\ objects[j].kind = kind => G!Id(objects[j]) # G!Id(o)
      BY <1>3, <2>3
    <3>3. QED BY <1>5, <1>6, <1>7, <2>1, <2>3, <3>1, <3>2
  <2>4. QED BY <2>2, <2>3
<1>9. G!Kinds' = G!Kinds BY DEF G!Kinds
<1>10. QED BY <1>2, <1>7, <1>8, <1>9 DEF IssuesAre

\* The nodes that add to a counter.
Counted(c) == {id \in resources : G!AddsTo(G!Original(id), c)}

SummaryIs ==
    /\ IsFiniteSet(resources)
    /\ summary = [c \in G!Counters |-> Cardinality(Counted(c))]

LEMMA CountedType ==
    ASSUME IsFiniteSet(resources), NEW c
    PROVE  IsFiniteSet(Counted(c)) /\ Cardinality(Counted(c)) \in Nat
<1>1. Counted(c) \in SUBSET resources BY DEF Counted
<1>2. IsFiniteSet(Counted(c)) BY <1>1, FS_Subset
<1>3. QED BY <1>2, FS_CardinalityType

LEMMA SummaryType == SummaryIs => summary \in Tallies
BY CountedType DEF SummaryIs, Tallies

LEMMA NodeStepSummary ==
    ASSUME Input, InOrder, ResourcesAre, SummaryIs, NodeStep
    PROVE  SummaryIs'
<1> DEFINE o == G!This
           One(c) == IF G!Accepted(o) /\ G!AddsTo(o, c) THEN 1 ELSE 0
<1>1. resources' = IF G!Accepted(o) THEN resources \cup {G!Id(o)} ELSE resources
  <2>1. resources' = IF o.named THEN resources \cup {G!Id(o)} ELSE resources BY DEF NodeStep, G!Show
  <2>2. QED BY <2>1 DEF G!Accepted
<1>2. IsFiniteSet(resources) /\ IsFiniteSet(resources') BY <1>1, FS_AddElement DEF SummaryIs
<1>3. \A id : G!Original(id)' = G!Original(id) BY SameInput DEF NodeStep
<1>4. G!Accepted(o) => G!Original(G!Id(o)) = o BY AcceptedIsFirst DEF NodeStep
<1>5. summary' = [c \in G!Counters |-> summary[c] + One(c)] BY DEF NodeStep, G!Tally
<1> HIDE DEF o
<1>6. ASSUME NEW c PROVE Cardinality(Counted(c)') = Cardinality(Counted(c)) + One(c)
  <2>1. Counted(c)' = {id \in resources' : G!AddsTo(G!Original(id), c)}
    BY <1>3 DEF Counted, G!AddsTo
  <2>2. CASE G!Accepted(o) /\ G!AddsTo(o, c)
    <3>1. Counted(c)' = Counted(c) \cup {G!Id(o)} BY <1>1, <1>4, <2>1, <2>2 DEF Counted
    <3>2. G!Id(o) \notin Counted(c) BY <2>2 DEF Counted, G!Accepted
    <3>3. IsFiniteSet(Counted(c)) BY <1>2, CountedType
    <3>4. Cardinality(Counted(c) \cup {G!Id(o)}) = Cardinality(Counted(c)) + 1
      BY <3>2, <3>3, FS_AddElement
    <3>5. QED BY <2>2, <3>1, <3>4
  <2>3. CASE ~(G!Accepted(o) /\ G!AddsTo(o, c))
    <3>1. Counted(c)' = Counted(c) BY <1>1, <1>4, <2>1, <2>3 DEF Counted
    <3>2. Cardinality(Counted(c)) \in Nat BY <1>2, CountedType
    <3>3. QED BY <2>3, <3>1, <3>2
  <2>4. QED BY <2>2, <2>3
<1>7. \A c \in G!Counters : summary[c] = Cardinality(Counted(c)) BY DEF SummaryIs
<1> HIDE DEF One
<1>8. summary' = [c \in G!Counters |-> Cardinality(Counted(c)')] BY <1>5, <1>6, <1>7
<1>9. QED BY <1>2, <1>8 DEF SummaryIs

----------------------------------------------------------------------------
(* What the edge loops draw are the relations of the objects that are shown *)

AllPassed == \A j \in DOMAIN objects : Passed(j)

LEMMA OriginalsAre ==
    ASSUME G!IsListing(objects)
    PROVE  /\ \A o \in G!Originals : /\ G!IsObject(o) /\ o.named /\ G!Original(G!Id(o)) = o
                                     /\ \E i \in DOMAIN objects : objects[i] = o
           /\ \A i \in DOMAIN objects : objects[i].named =>
                /\ G!Original(G!Id(objects[i])) \in G!Originals
                /\ G!Id(G!Original(G!Id(objects[i]))) = G!Id(objects[i])
<1>1. ASSUME NEW o \in G!Originals
      PROVE  /\ G!IsObject(o) /\ o.named /\ G!Original(G!Id(o)) = o
             /\ \E i \in DOMAIN objects : objects[i] = o
  <2>1. PICK i \in DOMAIN objects : objects[i].named /\ o = G!Original(G!Id(objects[i]))
    BY DEF G!Originals, G!Items, G!ToSet
  <2>2. PICK j \in DOMAIN objects :
            /\ o = objects[j] /\ objects[j].named /\ G!Id(objects[j]) = G!Id(objects[i])
    BY <2>1, OriginalIs
  <2>3. G!IsObject(objects[j]) BY ListedKinds
  <2>4. QED BY <2>1, <2>2, <2>3
<1>2. ASSUME NEW i \in DOMAIN objects, objects[i].named
      PROVE  /\ G!Original(G!Id(objects[i])) \in G!Originals
             /\ G!Id(G!Original(G!Id(objects[i]))) = G!Id(objects[i])
  <2>1. objects[i] \in {p \in G!Items : p.named} BY <1>2 DEF G!Items, G!ToSet
  <2>2. G!Original(G!Id(objects[i])) \in G!Originals BY <2>1 DEF G!Originals
  <2>3. G!Id(G!Original(G!Id(objects[i]))) = G!Id(objects[i]) BY <1>2, OriginalIs
  <2>4. QED BY <2>2, <2>3
<1>3. QED BY <1>1, <1>2

\* The nodes there are when all objects were passed.
LEMMA ResourcesAtTheEnd ==
    ASSUME G!IsListing(objects), ResourcesAre, AllPassed
    PROVE  /\ \A o \in G!Originals : G!Id(o) \in resources
           /\ \A id \in resources : G!Original(id) \in G!Originals /\ G!Id(G!Original(id)) = id
<1>1. \A o \in G!Originals : G!Id(o) \in resources
  BY OriginalsAre DEF ResourcesAre, AllPassed
<1>2. \A id \in resources : G!Original(id) \in G!Originals /\ G!Id(G!Original(id)) = id
  BY OriginalsAre DEF ResourcesAre
<1>3. QED BY <1>1, <1>2

LEMMA FirstListedAre ==
    ASSUME G!IsListing(objects), ResourcesAre, AllPassed, NEW kind
    PROVE  G!FirstListed(kind) = {o \in G!Originals : o.kind = kind}
<1>1. ASSUME NEW o \in G!FirstListed(kind) PROVE o \in G!Originals /\ o.kind = kind
  <2>1. PICK i \in DOMAIN objects :
            /\ o = objects[i] /\ objects[i].kind = kind /\ G!Id(objects[i]) \in resources
            /\ \A k \in DOMAIN objects :
                objects[k].kind = kind /\ k < i => G!Id(objects[k]) # G!Id(objects[i])
    BY DEF G!FirstListed, G!Listed
  <2>2. objects[i].named BY <2>1, ListedKinds DEF ResourcesAre
  <2>3. \A k \in DOMAIN objects : k < i => G!Id(objects[k]) # G!Id(objects[i])
    BY <2>1, SameIdSameKind
  <2>4. G!Original(G!Id(objects[i])) = objects[i] BY <2>2, <2>3, FirstIsOriginal
  <2>5. QED BY <2>1, <2>2, <2>4, OriginalsAre
<1>2. ASSUME NEW o \in G!Originals, o.kind = kind PROVE o \in G!FirstListed(kind)
  <2>1. PICK i \in DOMAIN objects : objects[i].named /\ o = G!Original(G!Id(objects[i]))
    BY DEF G!Originals, G!Items, G!ToSet
  <2>2. PICK j \in DOMAIN objects :
            /\ o = objects[j] /\ objects[j].named /\ G!Id(objects[j]) = G!Id(objects[i])
            /\ \A k \in DOMAIN objects : k < j => G!Id(objects[k]) # G!Id(objects[i])
    BY <2>1, OriginalIs
  <2>3. G!Id(objects[j]) \in resources BY <2>2 DEF ResourcesAre, AllPassed
  <2>4. objects[j].kind = kind BY <1>2, <2>2
  <2>5. QED BY <2>2, <2>3, <2>4 DEF G!FirstListed, G!Listed
<1>3. QED BY <1>1, <1>2

\* All that a loop draws for an object.
LoopEdges(pass, o) == Plain(pass, o) \cup G!EdgesOf(o, Ensured(pass, o))

LEMMA MoreReferences ==
    ASSUME NEW o, NEW A, NEW B, A \subseteq B
    PROVE  G!EdgesOf(o, G!Via(o, A)) \subseteq G!EdgesOf(o, G!Via(o, B))
  BY DEF G!EdgesOf, G!Via

Checked == {"binds-storage", "routes-to", "attaches-to", "routes-to-backend", "targets-scale"}

LEMMA RelationsAre ==
    ASSUME G!IsListing(objects), ResourcesAre, AllPassed, NEW o
    PROVE  G!Relations(o) =
                G!OwnerEdges(o)
                \cup G!EdgesOf(o, G!Via(o, {"references", "scheduled-on"}))
                \cup (IF o.spec THEN G!EdgesOf(o, G!Via(o, Checked)) ELSE {})
                \cup (IF o.spec \/ o.kind = "Pod" THEN G!EdgesOf(o, G!Via(o, G!PodReferences)) ELSE {})
                \cup (IF o.kind = "Namespace" THEN {G!Edge(G!ClusterId, G!Id(o), "owns")} ELSE {})
                \cup (IF o.kind = "CustomResource" THEN G!OwnersOfCustomResource(o) ELSE {})
                \cup (IF o.kind = "NetworkPolicy"
                      THEN G!PolicyEdges(o, G!FirstListed("Pod"), G!FirstListed("Namespace")) ELSE {})
<1>1. G!FirstListed("Pod") = {p \in G!Originals : p.kind = "Pod"} BY FirstListedAre
<1>2. G!FirstListed("Namespace") = {p \in G!Originals : p.kind = "Namespace"} BY FirstListedAre
<1>3. QED BY <1>1, <1>2, Zenon DEF G!Relations, Checked

LEMMA LoopsDrawRelations ==
    ASSUME G!IsListing(objects), ResourcesAre, AllPassed, NEW o,
           NEW n \in 26..43, o.kind = G!KindOf(n)
    PROVE  LoopEdges(G!PassOf(n), o) \subseteq G!Relations(o)
<1> DEFINE pass == G!PassOf(n)
           rel == G!Relations(o)
<1>1. o.kind = IF pass = "PodOwners" THEN "Pod" ELSE pass BY Loops
<1>2. /\ G!OwnerEdges(o) \subseteq rel
      /\ G!EdgesOf(o, G!Via(o, {"references", "scheduled-on"})) \subseteq rel
      /\ o.spec => G!EdgesOf(o, G!Via(o, Checked)) \subseteq rel
      /\ o.spec \/ o.kind = "Pod" => G!EdgesOf(o, G!Via(o, G!PodReferences)) \subseteq rel
      /\ o.kind = "NetworkPolicy" =>
            G!PolicyEdges(o, G!FirstListed("Pod"), G!FirstListed("Namespace")) \subseteq rel
  BY RelationsAre
<1>3. /\ G!EdgesOf(o, G!Via(o, {"references"})) \subseteq rel
      /\ G!EdgesOf(o, G!Via(o, {"scheduled-on"})) \subseteq rel
  BY <1>2, MoreReferences
<1>4. ASSUME o.spec
      PROVE  /\ G!EdgesOf(o, G!Via(o, {"binds-storage"})) \subseteq rel
             /\ G!EdgesOf(o, G!Via(o, {"routes-to"})) \subseteq rel
             /\ G!EdgesOf(o, G!Via(o, {"attaches-to", "routes-to-backend"})) \subseteq rel
             /\ G!EdgesOf(o, G!Via(o, {"targets-scale"})) \subseteq rel
  <2>1. {"binds-storage"} \subseteq Checked /\ {"routes-to"} \subseteq Checked
        /\ {"attaches-to", "routes-to-backend"} \subseteq Checked /\ {"targets-scale"} \subseteq Checked
    BY DEF Checked
  <2>2. \A A : A \subseteq Checked => G!EdgesOf(o, G!Via(o, A)) \subseteq G!EdgesOf(o, G!Via(o, Checked))
    BY MoreReferences
  <2>3. QED BY <1>2, <1>4, <2>1, <2>2
<1> HIDE DEF rel, pass
<1>5. Plain(pass, o) \subseteq rel BY <1>1, <1>2, <1>3, <1>4 DEF Plain
<1>6. G!EdgesOf(o, {}) = {} BY DEF G!EdgesOf
<1>7. G!EdgesOf(o, Ensured(pass, o)) \subseteq rel
  BY <1>1, <1>2, <1>4, <1>6 DEF Ensured
<1>8. QED BY <1>5, <1>7 DEF LoopEdges, rel, pass

LEMMA LoopOfPass ==
    \A p \in G!Workloads \cup G!Routes \cup
             {"CustomResource", "PodOwners", "Pod", "PersistentVolumeClaim", "PersistentVolume",
              "Ingress", "HorizontalPodAutoscaler", "NetworkPolicy"} :
        \E n \in 26..43 : /\ G!PassOf(n) = p
                          /\ G!KindOf(n) = IF p = "PodOwners" THEN "Pod" ELSE p
<1>1. \A n \in 1..18 : G!PassOf(25 + n) = G!EdgeOrder[n]
  <2> TAKE n \in 1..18
  <2>1. 25 + n \in 26..43 /\ (25 + n) - 25 = n OBVIOUS
  <2>2. QED BY <2>1, Loops
<1>2. \A p \in G!Workloads \cup G!Routes \cup
             {"CustomResource", "PodOwners", "Pod", "PersistentVolumeClaim", "PersistentVolume",
              "Ingress", "HorizontalPodAutoscaler", "NetworkPolicy"} :
        \E n \in 1..18 : G!EdgeOrder[n] = p
  BY SMTT(60) DEF G!EdgeOrder, G!Workloads, G!Routes
<1>3. \A n \in 1..18 : 25 + n \in 26..43 OBVIOUS
<1>4. \A n \in 26..43 : G!KindOf(n) = IF G!PassOf(n) = "PodOwners" THEN "Pod" ELSE G!PassOf(n) BY Loops
<1>5. QED BY <1>1, <1>2, <1>3, <1>4

\* A relation is drawn by a loop, or when its object is made a node.
LEMMA RelationsHaveLoops ==
    ASSUME G!IsListing(objects), ResourcesAre, AllPassed, NEW o \in G!Originals, NEW e \in G!Relations(o)
    PROVE  \/ \E n \in 26..43 : G!KindOf(n) = o.kind /\ e \in LoopEdges(G!PassOf(n), o)
           \/ o.kind = "Namespace" /\ e = G!Edge(G!ClusterId, G!Id(o), "owns")
           \/ o.kind = "CustomResource" /\ e \in G!OwnersOfCustomResource(o)
<1> DEFINE Drawn(p) == e \in Plain(p, o) \/ e \in G!EdgesOf(o, Ensured(p, o))
<1>1. G!IsObject(o) BY OriginalsAre
<1>2. \A r \in o.refs : G!Makes(o.kind, r.via) BY <1>1 DEF G!IsObject
<1>3. ASSUME NEW p \in G!Workloads \cup G!Routes \cup
                 {"CustomResource", "PodOwners", "Pod", "PersistentVolumeClaim", "PersistentVolume",
                  "Ingress", "HorizontalPodAutoscaler", "NetworkPolicy"},
             o.kind = (IF p = "PodOwners" THEN "Pod" ELSE p), Drawn(p)
      PROVE  \E n \in 26..43 : G!KindOf(n) = o.kind /\ e \in LoopEdges(G!PassOf(n), o)
  <2>1. PICK n \in 26..43 : /\ G!PassOf(n) = p
                            /\ G!KindOf(n) = IF p = "PodOwners" THEN "Pod" ELSE p
    BY LoopOfPass
  <2>2. e \in LoopEdges(p, o) BY <1>3 DEF LoopEdges
  <2>3. QED BY <1>3, <2>1, <2>2
<1>4. CASE e \in G!OwnerEdges(o)
  <2>1. PICK r \in o.refs : r.via = "owner" BY <1>4 DEF G!OwnerEdges, G!Via
  <2>2. G!Makes(o.kind, "owner") BY <1>2, <2>1
  <2>3. o.kind \in G!Workloads \cup {"Pod"} BY <2>2 DEF G!Makes, G!PodReferences
  <2>4. CASE o.kind \in G!Workloads
    <3>1. Drawn(o.kind) /\ o.kind # "PodOwners" BY <1>4, <2>4 DEF Plain, G!Workloads
    <3>2. QED BY <1>3, <2>4, <3>1
  <2>5. CASE o.kind = "Pod"
    <3>1. Drawn("PodOwners") BY <1>4 DEF Plain, G!Workloads
    <3>2. QED BY <1>3, <2>5, <3>1
  <2>6. QED BY <2>3, <2>4, <2>5
<1>5. CASE e \in G!EdgesOf(o, G!Via(o, {"references", "scheduled-on"}))
  <2>1. PICK r \in o.refs : /\ r.via \in {"references", "scheduled-on"}
                            /\ e = G!Edge(G!Id(o), G!Target(o, r), r.via)
    BY <1>5 DEF G!EdgesOf, G!Via
  <2>2. G!Makes(o.kind, r.via) BY <1>2
  <2>3. CASE r.via = "references"
    <3>1. o.kind = "CustomResource" BY <2>2, <2>3 DEF G!Makes, G!PodReferences
    <3>2. e \in G!EdgesOf(o, G!Via(o, {"references"})) BY <2>1, <2>3 DEF G!EdgesOf, G!Via
    <3>3. Drawn("CustomResource") BY <3>2 DEF Plain
    <3>4. QED BY <1>3, <3>1, <3>3
  <2>4. CASE r.via = "scheduled-on"
    <3>1. o.kind = "Pod" BY <2>2, <2>4 DEF G!Makes, G!PodReferences
    <3>2. e \in G!EdgesOf(o, G!Via(o, {"scheduled-on"})) BY <2>1, <2>4 DEF G!EdgesOf, G!Via
    <3>3. Drawn("Pod") BY <3>2 DEF Plain, G!Workloads
    <3>4. QED BY <1>3, <3>1, <3>3
  <2>5. QED BY <2>1, <2>3, <2>4
<1>6. CASE o.spec /\ e \in G!EdgesOf(o, G!Via(o, Checked))
  <2>1. PICK r \in o.refs : /\ r.via \in Checked
                            /\ e = G!Edge(G!Id(o), G!Target(o, r), r.via)
    BY <1>6 DEF G!EdgesOf, G!Via
  <2>2. G!Makes(o.kind, r.via) BY <1>2
  <2>3. \A A : r.via \in A => e \in G!EdgesOf(o, G!Via(o, A)) BY <2>1 DEF G!EdgesOf, G!Via
  <2>4. CASE r.via = "binds-storage"
    <3>1. o.kind \in {"PersistentVolumeClaim", "PersistentVolume"}
      BY <2>2, <2>4 DEF G!Makes, G!PodReferences
    <3>2. e \in G!EdgesOf(o, G!Via(o, {"binds-storage"})) BY <2>3, <2>4
    <3>3. Drawn(o.kind) BY <1>6, <3>1, <3>2 DEF Plain, G!Workloads
    <3>4. QED BY <1>3, <3>1, <3>3
  <2>5. CASE r.via = "routes-to"
    <3>1. o.kind = "Ingress" BY <2>2, <2>5 DEF G!Makes, G!PodReferences
    <3>2. e \in G!EdgesOf(o, G!Via(o, {"routes-to"})) BY <2>3, <2>5
    <3>3. Drawn("Ingress") BY <1>6, <3>2 DEF Plain, G!Workloads
    <3>4. QED BY <1>3, <3>1, <3>3
  <2>6. CASE r.via \in {"attaches-to", "routes-to-backend"}
    <3>1. o.kind \in G!Routes BY <2>2, <2>6 DEF G!Makes, G!PodReferences
    <3>2. e \in G!EdgesOf(o, G!Via(o, {"attaches-to", "routes-to-backend"})) BY <2>3, <2>6
    <3>3. Drawn(o.kind) /\ o.kind # "PodOwners" BY <1>6, <3>1, <3>2 DEF Ensured, G!Workloads, G!Routes
    <3>4. QED BY <1>3, <3>1, <3>3
  <2>7. CASE r.via = "targets-scale"
    <3>1. o.kind = "HorizontalPodAutoscaler" BY <2>2, <2>7 DEF G!Makes, G!PodReferences
    <3>2. e \in G!EdgesOf(o, G!Via(o, {"targets-scale"})) BY <2>3, <2>7
    <3>3. Drawn("HorizontalPodAutoscaler") BY <1>6, <3>2 DEF Ensured, G!Workloads, G!Routes
    <3>4. QED BY <1>3, <3>1, <3>3
  <2>8. QED BY <2>1, <2>4, <2>5, <2>6, <2>7 DEF Checked
<1>7. CASE (o.spec \/ o.kind = "Pod") /\ e \in G!EdgesOf(o, G!Via(o, G!PodReferences))
  <2>1. PICK r \in o.refs : r.via \in G!PodReferences BY <1>7 DEF G!EdgesOf, G!Via
  <2>2. o.kind \in G!Workloads \cup {"Pod"}
    <3>1. G!Makes(o.kind, r.via) BY <1>2
    <3>2. QED BY <2>1, <3>1 DEF G!Makes, G!PodReferences
  <2>3. CASE o.kind = "Pod"
    <3>1. Drawn("Pod") BY <1>7 DEF Ensured
    <3>2. QED BY <1>3, <2>3, <3>1
  <2>4. CASE o.kind \in G!Workloads /\ o.kind # "Pod"
    <3>1. Drawn(o.kind) /\ o.kind # "PodOwners" BY <1>7, <2>4 DEF Ensured, G!Workloads
    <3>2. QED BY <1>3, <2>4, <3>1
  <2>5. QED BY <2>2, <2>3, <2>4
<1>8. CASE /\ o.kind = "NetworkPolicy"
           /\ e \in G!PolicyEdges(o, G!FirstListed("Pod"), G!FirstListed("Namespace"))
  <2>1. Drawn("NetworkPolicy") BY <1>8 DEF Plain, G!Workloads
  <2>2. QED BY <1>3, <1>8, <2>1
<1> HIDE DEF Drawn
<1>9. \/ e \in G!OwnerEdges(o)
      \/ e \in G!EdgesOf(o, G!Via(o, {"references", "scheduled-on"}))
      \/ o.spec /\ e \in G!EdgesOf(o, G!Via(o, Checked))
      \/ (o.spec \/ o.kind = "Pod") /\ e \in G!EdgesOf(o, G!Via(o, G!PodReferences))
      \/ o.kind = "Namespace" /\ e = G!Edge(G!ClusterId, G!Id(o), "owns")
      \/ o.kind = "CustomResource" /\ e \in G!OwnersOfCustomResource(o)
      \/ /\ o.kind = "NetworkPolicy"
         /\ e \in G!PolicyEdges(o, G!FirstListed("Pod"), G!FirstListed("Namespace"))
  BY RelationsAre
<1>10. QED BY <1>4, <1>5, <1>6, <1>7, <1>8, <1>9

----------------------------------------------------------------------------
(* The edges *)

Nodes == resources \cup {G!ClusterId}

\* Every edge is a relation of an object that is shown.
EdgesAre ==
    \A e \in edges : e \in G!EndpointRelations \/ \E o \in G!Originals : e \in G!Relations(o)

EndsAre ==
    \A id \in DOMAIN shown \ {G!ClusterId} : id \notin resources => \E e \in edges : e.to = id

\* What the loops of nodes, the edge loops and the last one have drawn.
OwnersDrawn ==
    \A id \in resources :
        /\ G!Original(id).kind = "Namespace" => G!Edge(G!ClusterId, id, "owns") \in edges
        /\ G!Original(id).kind = "CustomResource" =>
                G!Drawable(G!OwnersOfCustomResource(G!Original(id)), Nodes) \subseteq edges

LoopsDrawn ==
    \A n \in 26..43 : \A id :
        <<G!PassOf(n), id>> \in claimed =>
            G!Drawable(LoopEdges(G!PassOf(n), G!Original(id)), Nodes) \subseteq edges

EndpointsDrawn == <<44, 0>> \notin todo => G!Drawable(G!EndpointRelations, Nodes) \subseteq edges

LEMMA EarlyRelations ==
    \A o : /\ o.kind = "Namespace" => G!Edge(G!ClusterId, G!Id(o), "owns") \in G!Relations(o)
           /\ o.kind = "CustomResource" => G!OwnersOfCustomResource(o) \subseteq G!Relations(o)
<1> TAKE o
<1>1. ASSUME o.kind = "Namespace" PROVE G!Edge(G!ClusterId, G!Id(o), "owns") \in G!Relations(o)
  BY <1>1, Zenon DEF G!Relations
<1>2. ASSUME o.kind = "CustomResource" PROVE G!OwnersOfCustomResource(o) \subseteq G!Relations(o)
  BY <1>2, Zenon DEF G!Relations
<1>3. QED BY <1>1, <1>2

\* The owners of a custom resource were nodes before it.
LEMMA OwnersAre ==
    ASSUME NEW o, G!IsObject(o), NEW e \in G!OwnersOfCustomResource(o)
    PROVE  /\ e.to = G!Id(o)
           /\ e.from[1] \in {"Namespace", "CustomResourceDefinition"}
<1>1. PICK id \in G!Targets(o, G!Via(o, {"crd"}))
                    \cup (IF o.ns = "" THEN {} ELSE {<<"Namespace", "", o.ns>>}) :
            e = G!Edge(id, G!Id(o), "owns")
  BY DEF G!OwnersOfCustomResource
<1>2. e.to = G!Id(o) /\ e.from = id BY <1>1 DEF G!Edge
<1>3. CASE id \in G!Targets(o, G!Via(o, {"crd"}))
  <2>1. PICK r \in o.refs : r.via = "crd" /\ id = G!Target(o, r)
    BY <1>3 DEF G!Targets, G!Via
  <2>2. r.kind = "CustomResourceDefinition" BY <2>1 DEF G!IsObject
  <2>3. id[1] = r.kind BY <2>1 DEF G!Target
  <2>4. QED BY <1>2, <2>2, <2>3
<1>4. CASE id \in (IF o.ns = "" THEN {} ELSE {<<"Namespace", "", o.ns>>})
  <2>1. id = <<"Namespace", "", o.ns>> BY <1>4
  <2>2. id[1] = "Namespace" BY <2>1
  <2>3. QED BY <1>2, <2>2
<1>5. QED BY <1>1, <1>3, <1>4

LEMMA NodeStepEdges ==
    ASSUME Input, InOrder, ResourcesAre, NodesAre, ClaimedAre, EdgesAre, EndsAre, OwnersDrawn, NodeStep
    PROVE  EdgesAre' /\ EndsAre' /\ OwnersDrawn' /\ LoopsDrawn' /\ EndpointsDrawn'
<1>1. G!IsListing(objects) /\ todo # {} /\ G!Proceed BY DEF Input, NodeStep
<1>2. /\ objects' = objects /\ G!Originals' = G!Originals
      /\ \A id : G!Original(id)' = G!Original(id)
      /\ \A o : G!Relations(o)' = G!Relations(o)
      /\ G!EndpointRelations' = G!EndpointRelations
  BY <1>1, SameInput
<1>3. PICK n \in 1..25, i \in DOMAIN objects : NodeTurnOf(n, i) BY NodeStepIs
<1>4. /\ G!This = objects[i] /\ objects[i].kind = G!NodeOrder[n]
      /\ \A m \in 1..25, j \in DOMAIN objects :
            objects[j].kind = G!NodeOrder[m] => (Passed(j) <=> m < n \/ (m = n /\ j < i))
      /\ <<44, 0>> \in todo'
  BY <1>3 DEF NodeTurnOf
<1> DEFINE o == objects[i]
<1>5. /\ resources' = IF o.named THEN resources \cup {G!Id(o)} ELSE resources
      /\ edges' = edges \cup G!Drawable(EarlyEdges(o), DOMAIN shown')
  BY <1>4 DEF NodeStep, G!Show
<1>6. ResourcesAre' /\ DOMAIN shown' = resources' \cup {G!ClusterId} BY NodeStepNodes
<1>7. G!Id(o) # G!ClusterId /\ G!Id(o)[1] = o.kind
  <2>1. G!NodeOrder[n] # "Cluster" BY KindsOfLoops
  <2>2. QED BY <1>4, <2>1 DEF G!Id, G!ClusterId
<1>8. ASSUME NEW e \in G!Drawable(EarlyEdges(o), DOMAIN shown')
      PROVE  \E p \in G!Originals : e \in G!Relations(p)
  <2>1. e \in EarlyEdges(o) /\ e.from \in DOMAIN shown' /\ e.to \in DOMAIN shown'
    BY <1>8 DEF G!Drawable
  <2>2. CASE o.kind = "Namespace"
    <3>1. e = G!Edge(G!ClusterId, G!Id(o), "owns") /\ e.to = G!Id(o)
      BY <2>1, <2>2 DEF EarlyEdges, G!Edge
    <3>2. G!Id(o) \in resources' BY <1>6, <1>7, <2>1, <3>1
    <3>3. o.named BY <1>1, <1>2, <1>6, <3>2, ListedKinds DEF ResourcesAre
    <3> DEFINE p == G!Original(G!Id(o))
    <3>4. p \in G!Originals /\ G!Id(p) = G!Id(o) BY <1>1, <3>3, OriginalsAre
    <3>5. p.kind = "Namespace" BY <2>2, <3>4, SameIdSameKind
    <3> HIDE DEF p
    <3>6. e \in G!Relations(p) BY <3>1, <3>4, <3>5, EarlyRelations
    <3>7. QED BY <3>4, <3>6
  <2>3. CASE o.kind # "Namespace"
    <3>1. o.kind = "CustomResource" /\ G!Accepted(o) /\ e \in G!OwnersOfCustomResource(o)
      BY <2>1, <2>3 DEF EarlyEdges
    <3>2. G!Original(G!Id(o)) = o /\ o.named BY <1>4, <3>1, AcceptedIsFirst DEF G!Accepted
    <3>3. o \in G!Originals BY <1>1, <3>2, OriginalsAre
    <3>4. QED BY <3>1, <3>3, EarlyRelations
  <2>4. QED BY <2>2, <2>3
<1>9. EdgesAre' BY <1>2, <1>5, <1>8 DEF EdgesAre
<1>10. EndsAre' BY <1>6 DEF EndsAre
<1>11. ASSUME NEW id \in resources'
       PROVE  /\ G!Original(id).kind = "Namespace" => G!Edge(G!ClusterId, id, "owns") \in edges'
              /\ G!Original(id).kind = "CustomResource" =>
                    G!Drawable(G!OwnersOfCustomResource(G!Original(id)), Nodes') \subseteq edges'
  <2> DEFINE p == G!Original(id)
  <2>1. PICK j \in DOMAIN objects : objects[j].named /\ G!Id(objects[j]) = id /\ Passed(j)'
    BY <1>2, <1>6, <1>11 DEF ResourcesAre
  <2>2. p \in G!Originals /\ G!Id(p) = id /\ G!IsObject(p) BY <1>1, <2>1, OriginalsAre
  <2>3. CASE id \in resources
    <3>1. p.kind = "Namespace" => G!Edge(G!ClusterId, id, "owns") \in edges' BY <1>5, <2>3 DEF OwnersDrawn
    <3>2. ASSUME p.kind = "CustomResource", NEW e \in G!Drawable(G!OwnersOfCustomResource(p), Nodes')
          PROVE  e \in edges'
      <4>1. e \in G!OwnersOfCustomResource(p) /\ e.from \in Nodes' BY <3>2 DEF G!Drawable
      <4>2. e.to = id /\ e.from[1] \in {"Namespace", "CustomResourceDefinition"}
        BY <2>2, <4>1, OwnersAre
      <4>3. e.from \in resources
        <5>1. ASSUME e.from = G!Id(o) PROVE FALSE
          <6>1. G!NodeOrder[n] \in {"Namespace", "CustomResourceDefinition"} BY <1>4, <1>7, <4>2, <5>1
          <6>2. n = 1 \/ n = 13
            <7>1. 1 \in 1..25 /\ 13 \in 1..25 OBVIOUS
            <7>2. QED BY <6>1, <7>1, KindsOfLoops, OneLoopPerKind
          <6>3. PICK k \in DOMAIN objects : G!Id(objects[k]) = id /\ Passed(k) BY <2>3 DEF ResourcesAre
          <6>4. objects[k].kind = G!NodeOrder[14] BY <2>2, <3>2, <6>3, SameIdSameKind, KindsOfLoops
          <6>5. 14 \in 1..25 OBVIOUS
          <6>6. 14 < n \/ (14 = n /\ k < i) BY <1>4, <6>3, <6>4, <6>5
          <6>7. QED BY <6>2, <6>6
        <5>2. e.from # G!ClusterId
          <6>1. G!ClusterId[1] = "Cluster" BY DEF G!ClusterId
          <6>2. QED BY <4>2, <6>1
        <5>3. QED BY <1>5, <4>1, <5>1, <5>2 DEF Nodes
      <4>4. e \in G!Drawable(G!OwnersOfCustomResource(p), Nodes)
        BY <2>3, <4>1, <4>2, <4>3 DEF G!Drawable, Nodes
      <4>5. G!Drawable(G!OwnersOfCustomResource(p), Nodes) \subseteq edges BY <2>3, <3>2 DEF OwnersDrawn
      <4>6. QED BY <1>5, <4>4, <4>5
    <3>3. QED BY <3>1, <3>2
  <2>4. CASE id \notin resources
    <3>1. o.named /\ id = G!Id(o) BY <1>5, <1>11, <2>4
    <3>2. G!Accepted(o) /\ p = o
      <4>1. G!Accepted(o) BY <2>4, <3>1 DEF G!Accepted
      <4>2. QED BY <1>4, <3>1, <4>1, AcceptedIsFirst
    <3>3. Nodes' \subseteq DOMAIN shown' BY <1>6 DEF Nodes
    <3>4. ASSUME p.kind = "Namespace" PROVE G!Edge(G!ClusterId, id, "owns") \in edges'
      <4>1. G!Edge(G!ClusterId, id, "owns") \in EarlyEdges(o) BY <3>1, <3>2, <3>4 DEF EarlyEdges
      <4>2. G!Edge(G!ClusterId, id, "owns") \in G!Drawable(EarlyEdges(o), DOMAIN shown')
        BY <1>6, <1>11, <4>1 DEF G!Drawable, G!Edge
      <4>3. QED BY <1>5, <4>2
    <3>5. ASSUME p.kind = "CustomResource"
          PROVE  G!Drawable(G!OwnersOfCustomResource(p), Nodes') \subseteq edges'
      <4>1. EarlyEdges(o) = G!OwnersOfCustomResource(p) BY <3>2, <3>5 DEF EarlyEdges
      <4>2. QED BY <1>5, <3>3, <4>1 DEF G!Drawable
    <3>6. QED BY <3>4, <3>5
  <2>5. QED BY <2>3, <2>4
<1>12. OwnersDrawn' BY <1>2, <1>11 DEF OwnersDrawn
<1>13. LoopsDrawn' BY NodeStepClaims DEF LoopsDrawn
<1>14. EndpointsDrawn' BY <1>4 DEF EndpointsDrawn
<1>15. QED BY <1>9, <1>10, <1>12, <1>13, <1>14

LEMMA SameLoops ==
    ASSUME objects' = objects, resources' = resources
    PROVE  \A pass, o : LoopEdges(pass, o)' = LoopEdges(pass, o)
<1>1. \A kind : G!FirstListed(kind)' = G!FirstListed(kind) BY DEF G!FirstListed, G!Listed
<1> TAKE pass, o
<1>2. Plain(pass, o)' = Plain(pass, o) BY <1>1 DEF Plain
<1>3. Ensured(pass, o)' = Ensured(pass, o) BY DEF Ensured
<1>4. QED BY <1>2, <1>3 DEF LoopEdges

LEMMA EdgeStepEdges ==
    ASSUME Input, ResourcesAre, NodesAre, ClaimedAre, EdgesAre, EndsAre, OwnersDrawn, LoopsDrawn,
           NEW n \in 26..43, NEW i \in DOMAIN objects, EdgeTurnOf(n, i)
    PROVE  EdgesAre' /\ EndsAre' /\ OwnersDrawn' /\ LoopsDrawn' /\ EndpointsDrawn'
<1> DEFINE pass == G!PassOf(n)
           o == objects[i]
           id == G!Id(o)
<1>1. G!IsListing(objects) /\ G!Proceed /\ resources' = resources /\ <<44, 0>> \in todo'
  BY DEF Input, EdgeTurnOf, G!Draw
<1>2. /\ objects' = objects /\ G!Originals' = G!Originals
      /\ \A a : G!Original(a)' = G!Original(a)
      /\ \A p : G!Relations(p)' = G!Relations(p)
      /\ G!EndpointRelations' = G!EndpointRelations
  BY <1>1, SameInput
<1>3. \A p, q : LoopEdges(p, q)' = LoopEdges(p, q) BY <1>1, <1>2, SameLoops
<1>4. AllPassed /\ G!This = o /\ o.kind = G!KindOf(n) BY DEF AllPassed, EdgeTurnOf
<1>5. Nodes' = Nodes /\ Nodes \subseteq DOMAIN shown BY <1>1 DEF Nodes, NodesAre
<1>6. EndpointsDrawn' BY <1>1 DEF EndpointsDrawn
<1>7. CASE ~G!Claims(pass)
  <2>1. claimed' = claimed /\ shown' = shown /\ edges' = edges BY <1>7 DEF EdgeTurnOf, G!Draw
  <2>2. EdgesAre' BY <1>2, <2>1 DEF EdgesAre
  <2>3. EndsAre' BY <1>1, <2>1 DEF EndsAre
  <2>4. OwnersDrawn' BY <1>1, <1>2, <1>5, <2>1 DEF OwnersDrawn
  <2>5. LoopsDrawn' BY <1>2, <1>3, <1>5, <2>1 DEF LoopsDrawn
  <2>6. QED BY <1>6, <2>2, <2>3, <2>4, <2>5
<1>8. CASE G!Claims(pass)
  <2> DEFINE plain == G!Drawable(Plain(pass, o), DOMAIN shown)
             ensured == G!Drawable(G!EdgesOf(o, Ensured(pass, o)), DOMAIN shown')
  <2>1. /\ claimed' = claimed \cup {<<pass, id>>}
        /\ shown' = G!WithNodes(G!Targets(o, Ensured(pass, o)), G!Placeholder)
        /\ edges' = (edges \cup plain) \cup ensured
    BY <1>4, <1>8 DEF EdgeTurnOf, G!Draw
  <2>2. DOMAIN shown' = DOMAIN shown \cup G!Targets(o, Ensured(pass, o)) BY <2>1 DEF G!WithNodes
  <2>3. id \in resources /\ G!Original(id) = o /\ o \in G!Originals
    <3>1. o.named /\ id \in resources /\ G!Original(id) = o BY <1>8, ClaimingIsFirst
    <3>2. QED BY <1>1, <3>1, OriginalsAre
  <2>4. LoopEdges(pass, o) \subseteq G!Relations(o) BY <1>1, <1>4, LoopsDrawRelations
  <2>5. plain \subseteq LoopEdges(pass, o) /\ ensured \subseteq LoopEdges(pass, o)
    BY DEF LoopEdges, G!Drawable
  <2>6. EdgesAre' BY <1>2, <2>1, <2>3, <2>4, <2>5 DEF EdgesAre
  <2>7. EndsAre'
    <3> SUFFICES ASSUME NEW a \in DOMAIN shown' \ {G!ClusterId}, a \notin resources'
                 PROVE  \E e \in edges' : e.to = a
      BY DEF EndsAre
    <3>1. CASE a \in DOMAIN shown
      <4>1. \E e \in edges : e.to = a BY <1>1, <3>1 DEF EndsAre
      <4>2. QED BY <2>1, <4>1
    <3>2. CASE a \notin DOMAIN shown
      <4>1. PICK r \in Ensured(pass, o) : a = G!Target(o, r) BY <2>2, <3>2 DEF G!Targets
      <4> DEFINE e == G!Edge(id, a, r.via)
      <4>2. e \in G!EdgesOf(o, Ensured(pass, o)) BY <4>1 DEF G!EdgesOf
      <4>3. e.from = id /\ e.to = a BY DEF G!Edge
      <4>4. id \in DOMAIN shown' /\ a \in DOMAIN shown' BY <1>5, <2>2, <2>3 DEF Nodes
      <4> HIDE DEF e
      <4>5. e \in ensured BY <4>2, <4>3, <4>4 DEF G!Drawable
      <4>6. QED BY <2>1, <4>3, <4>5
    <3>3. QED BY <3>1, <3>2
  <2>8. OwnersDrawn' BY <1>1, <1>2, <1>5, <2>1 DEF OwnersDrawn
  <2>9. LoopsDrawn'
    <3> SUFFICES ASSUME NEW m \in 26..43, NEW a, <<G!PassOf(m), a>> \in claimed'
                 PROVE  G!Drawable(LoopEdges(G!PassOf(m), G!Original(a)), Nodes) \subseteq edges'
      BY <1>2, <1>3, <1>5 DEF LoopsDrawn
    <3>1. CASE <<G!PassOf(m), a>> \in claimed
      <4>1. G!Drawable(LoopEdges(G!PassOf(m), G!Original(a)), Nodes) \subseteq edges
        BY <3>1 DEF LoopsDrawn
      <4>2. QED BY <2>1, <4>1
    <3>2. CASE <<G!PassOf(m), a>> \notin claimed
      <4>1. G!PassOf(m) = pass /\ a = id BY <2>1, <3>2
      <4>2. Nodes \subseteq DOMAIN shown' BY <1>5, <2>2
      <4>3. G!Drawable(LoopEdges(pass, o), Nodes) \subseteq plain \cup ensured
        BY <1>5, <4>2 DEF LoopEdges, G!Drawable
      <4> HIDE DEF plain, ensured
      <4>4. QED BY <2>1, <2>3, <4>1, <4>3
    <3>3. QED BY <3>1, <3>2
  <2>10. QED BY <1>6, <2>6, <2>7, <2>8, <2>9
<1>9. QED BY <1>7, <1>8

LEMMA LastStepEdges ==
    ASSUME Input, InOrder, NodesAre, EdgesAre, EndsAre, OwnersDrawn, LoopsDrawn, LastStep
    PROVE  EdgesAre' /\ EndsAre' /\ OwnersDrawn' /\ LoopsDrawn' /\ EndpointsDrawn'
<1>1. /\ G!Proceed /\ resources' = resources /\ shown' = shown /\ claimed' = claimed
      /\ edges' = edges \cup G!Drawable(G!EndpointRelations, DOMAIN shown)
  BY DEF LastStep, G!DrawEndpoints, G!EndpointRelations
<1>2. /\ objects' = objects /\ G!Originals' = G!Originals
      /\ \A a : G!Original(a)' = G!Original(a)
      /\ \A p : G!Relations(p)' = G!Relations(p)
      /\ G!EndpointRelations' = G!EndpointRelations
  BY <1>1, SameInput
<1>3. \A p, q : LoopEdges(p, q)' = LoopEdges(p, q) BY <1>1, <1>2, SameLoops
<1>4. Nodes' = Nodes /\ Nodes \subseteq DOMAIN shown BY <1>1 DEF Nodes, NodesAre
<1>5. EdgesAre' BY <1>1, <1>2 DEF EdgesAre, G!Drawable
<1>6. EndsAre' BY <1>1 DEF EndsAre
<1>7. OwnersDrawn' BY <1>1, <1>2, <1>4 DEF OwnersDrawn
<1>8. LoopsDrawn' BY <1>1, <1>2, <1>3, <1>4 DEF LoopsDrawn
<1>9. EndpointsDrawn'
  <2>1. G!Drawable(G!EndpointRelations, Nodes) \subseteq G!Drawable(G!EndpointRelations, DOMAIN shown)
    BY <1>4 DEF G!Drawable
  <2>2. QED BY <1>1, <1>2, <1>4, <2>1 DEF EndpointsDrawn
<1>10. QED BY <1>5, <1>6, <1>7, <1>8, <1>9

----------------------------------------------------------------------------
(* The invariant of the graph *)

GraphInv ==
    /\ Input /\ InOrder
    /\ ResourcesAre /\ NodesAre /\ IssuesAre /\ SummaryIs
    /\ ClaimedAre /\ EdgesAre /\ EndsAre /\ OwnersDrawn /\ LoopsDrawn /\ EndpointsDrawn

LEMMA GraphStarts ==
    ASSUME G!Init
    PROVE  GraphInv
<1>1. /\ todo = G!Jobs(objects) /\ resources = {} /\ edges = {} /\ claimed = {}
      /\ shown = [id \in {G!ClusterId} |-> G!ClusterNode]
      /\ issues = [k \in G!ToSet(G!NodeOrder) |-> 0]
      /\ summary = [c \in G!Counters |-> 0]
  BY DEF G!Init
<1>2. Input BY GraphAssumption DEF G!Init, Input
<1>3. \A m \in 1..43, j \in DOMAIN objects :
        objects[j].kind = G!KindOf(m) => <<m, j>> \in todo
  BY <1>1, <1>2, JobsAre DEF Input
<1>4. \A j \in DOMAIN objects : ~Passed(j)
  <2>1. \A m \in 1..25 : m \in 1..43 /\ G!KindOf(m) = G!NodeOrder[m] BY Loops
  <2>2. QED BY <1>3, <2>1 DEF Passed
<1>5. \A m \in 26..43, j \in DOMAIN objects : ~ReadBy(m, j)
  <2>1. \A m \in 26..43 : m \in 1..43 OBVIOUS
  <2>2. QED BY <1>3, <2>1 DEF ReadBy
<1>6. InOrder BY <1>1 DEF InOrder
<1>7. ResourcesAre BY <1>1, <1>4 DEF ResourcesAre
<1>8. NodesAre BY <1>1 DEF NodesAre
<1>9. IssuesAre BY <1>1, <1>4 DEF IssuesAre, G!Kinds
<1>10. SummaryIs
  <2>1. \A c : Counted(c) = {} BY <1>1 DEF Counted
  <2>2. QED BY <1>1, <2>1, FS_EmptySet DEF SummaryIs
<1>11. ClaimedAre BY <1>1 DEF ClaimedAre
<1>12. EdgesAre BY <1>1 DEF EdgesAre
<1>13. EndsAre BY <1>1 DEF EndsAre
<1>14. OwnersDrawn BY <1>1 DEF OwnersDrawn
<1>15. LoopsDrawn BY <1>1 DEF LoopsDrawn
<1>16. EndpointsDrawn
  <2>1. <<44, 0>> \in todo BY <1>1, <1>2, JobsAre DEF Input
  <2>2. QED BY <2>1 DEF EndpointsDrawn
<1>17. QED BY <1>2, <1>6, <1>7, <1>8, <1>9, <1>10, <1>11, <1>12, <1>13, <1>14, <1>15, <1>16 DEF GraphInv

\* Steps after all objects were passed leave the issues and the summary alone.
LEMMA SameIssues ==
    ASSUME IssuesAre, SummaryIs, objects' = objects, resources' = resources, issues' = issues,
           summary' = summary, \A j \in DOMAIN objects : Passed(j)' <=> Passed(j)
    PROVE  IssuesAre' /\ SummaryIs'
<1>1. G!Kinds' = G!Kinds BY DEF G!Kinds
<1>2. IssuesAre' BY <1>1 DEF IssuesAre
<1>3. \A id : G!Original(id)' = G!Original(id) BY DEF G!Original
<1>4. \A c : Counted(c)' = Counted(c) BY <1>3 DEF Counted, G!AddsTo
<1>5. SummaryIs' BY <1>4 DEF SummaryIs
<1>6. QED BY <1>2, <1>5

LEMMA GraphGoesOn ==
    ASSUME GraphInv, G!Next
    PROVE  GraphInv'
<1>1. /\ Input /\ InOrder /\ ResourcesAre /\ NodesAre /\ IssuesAre /\ SummaryIs
      /\ ClaimedAre /\ EdgesAre /\ EndsAre /\ OwnersDrawn /\ LoopsDrawn /\ EndpointsDrawn
  BY DEF GraphInv
<1>2. (NodeStep \/ EdgeStep \/ LastStep) /\ todo # {} /\ G!Proceed BY <1>1, StepsAre, SummaryType
<1>3. objects' = objects /\ todo' = todo \ {G!Current} /\ Input' BY <1>1, <1>2, SameInput
<1>4. InOrder' BY <1>1, <1>2, <1>3, OrderIsKept
<1>5. CASE NodeStep
  <2>1. ResourcesAre' /\ NodesAre' BY <1>1, <1>5, NodeStepNodes
  <2>2. IssuesAre' BY <1>1, <1>5, NodeStepIssues
  <2>3. SummaryIs' BY <1>1, <1>5, NodeStepSummary
  <2>4. ClaimedAre' BY <1>1, <1>5, NodeStepClaims
  <2>5. EdgesAre' /\ EndsAre' /\ OwnersDrawn' /\ LoopsDrawn' /\ EndpointsDrawn'
    BY <1>1, <1>5, NodeStepEdges
  <2>6. QED BY <1>3, <1>4, <2>1, <2>2, <2>3, <2>4, <2>5 DEF GraphInv
<1>6. CASE EdgeStep
  <2>1. PICK n \in 26..43, i \in DOMAIN objects : EdgeTurnOf(n, i) BY <1>1, <1>6, EdgeStepIs
  <2>2. ResourcesAre' /\ NodesAre' /\ ClaimedAre' /\ resources' = resources
    BY <1>1, <2>1, EdgeStepNodes
  <2>3. issues' = issues /\ summary' = summary /\ \A j \in DOMAIN objects : Passed(j)' <=> Passed(j)
    BY <2>1 DEF EdgeTurnOf, G!Draw
  <2>4. IssuesAre' /\ SummaryIs' BY <1>1, <1>3, <2>2, <2>3, SameIssues
  <2>5. EdgesAre' /\ EndsAre' /\ OwnersDrawn' /\ LoopsDrawn' /\ EndpointsDrawn'
    BY <1>1, <2>1, EdgeStepEdges
  <2>6. QED BY <1>3, <1>4, <2>2, <2>4, <2>5 DEF GraphInv
<1>7. CASE LastStep
  <2>1. ResourcesAre' /\ NodesAre' /\ ClaimedAre' /\ resources' = resources
    BY <1>1, <1>7, LastStepNodes
  <2>2. issues' = issues /\ summary' = summary BY <1>7 DEF LastStep, G!DrawEndpoints
  <2>3. \A j \in DOMAIN objects : Passed(j)' <=> Passed(j)
    <3>1. G!Current = <<44, 0>> BY <1>7 DEF LastStep
    <3>2. QED BY <1>1, <1>2, <1>3, <3>1, LastTurn
  <2>4. IssuesAre' /\ SummaryIs' BY <1>1, <1>3, <2>1, <2>2, <2>3, SameIssues
  <2>5. EdgesAre' /\ EndsAre' /\ OwnersDrawn' /\ LoopsDrawn' /\ EndpointsDrawn'
    BY <1>1, <1>7, LastStepEdges
  <2>6. QED BY <1>3, <1>4, <2>1, <2>4, <2>5 DEF GraphInv
<1>8. QED BY <1>2, <1>5, <1>6, <1>7

LEMMA GraphStays ==
    ASSUME GraphInv, UNCHANGED graphOnly
    PROVE  GraphInv'
<1>1. /\ objects' = objects /\ slices' = slices /\ todo' = todo /\ shown' = shown
      /\ resources' = resources /\ edges' = edges /\ claimed' = claimed /\ issues' = issues
      /\ summary' = summary /\ endpoints' = endpoints
  BY DEF graphOnly
<1>2. \A id : G!Original(id)' = G!Original(id) BY <1>1 DEF G!Original
<1>3. G!Originals' = G!Originals BY <1>1, <1>2 DEF G!Originals, G!Items
<1>4. \A o : G!Relations(o)' = G!Relations(o) BY <1>3 DEF G!Relations
<1>5. G!EndpointRelations' = G!EndpointRelations BY <1>1 DEF G!EndpointRelations
<1>6. \A j : Passed(j)' <=> Passed(j) BY <1>1 DEF Passed
<1>7. \A n, j : ReadBy(n, j)' <=> ReadBy(n, j) BY <1>1 DEF ReadBy
<1>8. \A p, o : LoopEdges(p, o)' = LoopEdges(p, o) BY <1>1, SameLoops
<1>9. Nodes' = Nodes BY <1>1 DEF Nodes
<1>10. Input' /\ InOrder' BY <1>1 DEF GraphInv, Input, InOrder
<1>11. ResourcesAre' BY <1>1, <1>6 DEF GraphInv, ResourcesAre
<1>12. NodesAre' BY <1>1, <1>2, <1>6 DEF GraphInv, NodesAre
<1>13. IssuesAre' /\ SummaryIs' BY <1>1, <1>6, SameIssues DEF GraphInv
<1>14. ClaimedAre' BY <1>1, <1>7 DEF GraphInv, ClaimedAre
<1>15. EdgesAre' BY <1>1, <1>3, <1>4, <1>5 DEF GraphInv, EdgesAre
<1>16. EndsAre' BY <1>1 DEF GraphInv, EndsAre
<1>17. OwnersDrawn' BY <1>1, <1>2, <1>9 DEF GraphInv, OwnersDrawn
<1>18. LoopsDrawn' BY <1>1, <1>2, <1>8, <1>9 DEF GraphInv, LoopsDrawn
<1>19. EndpointsDrawn' BY <1>1, <1>5, <1>9 DEF GraphInv, EndpointsDrawn
<1>20. QED BY <1>10, <1>11, <1>12, <1>13, <1>14, <1>15, <1>16, <1>17, <1>18, <1>19 DEF GraphInv

\* At the end every object is accounted for, and no relation is missing.
LEMMA ShownAtTheEnd ==
    ASSUME GraphInv
    PROVE  G!EveryObjectIsShownOrCounted
<1> SUFFICES ASSUME todo = {}
             PROVE  /\ \A o \in G!Originals : G!Id(o) \in resources /\ shown[G!Id(o)] = o
                    /\ \A kind \in G!Kinds :
                        issues[kind] = 0 <=>
                            /\ \A i \in G!Listed(kind) :
                                objects[i].named /\ (objects[i].ok \/ kind \in G!Unjudged)
                            /\ \A i, j \in G!Listed(kind) : G!Id(objects[i]) = G!Id(objects[j]) => i = j
  BY DEF G!EveryObjectIsShownOrCounted, G!Done
<1>1. G!IsListing(objects) /\ ResourcesAre /\ NodesAre /\ IssuesAre BY DEF GraphInv, Input
<1>2. AllPassed BY <1>1, ListedKinds DEF AllPassed, Passed
<1>3. ASSUME NEW o \in G!Originals PROVE G!Id(o) \in resources /\ shown[G!Id(o)] = o
  <2>1. G!Id(o) \in resources BY <1>1, <1>2, ResourcesAtTheEnd
  <2>2. G!Original(G!Id(o)) = o BY <1>1, OriginalsAre
  <2>3. QED BY <1>1, <2>1, <2>2 DEF NodesAre
<1>4. QED BY <1>1, <1>2, <1>3 DEF IssuesAre, AllPassed, G!Listed, Faultless

LEMMA NoneIsLost ==
    ASSUME GraphInv
    PROVE  G!NoRelationIsLost
<1> SUFFICES ASSUME todo = {}, NEW e \in G!Drawable(G!AllRelations, Nodes)
             PROVE  e \in edges
  BY DEF G!NoRelationIsLost, G!Done, Nodes
<1>1. /\ G!IsListing(objects) /\ ResourcesAre /\ ClaimedAre /\ OwnersDrawn /\ LoopsDrawn
      /\ EndpointsDrawn
  BY DEF GraphInv, Input
<1>2. AllPassed BY <1>1, ListedKinds DEF AllPassed, Passed
<1>3. e \in G!AllRelations /\ {e.from, e.to} \subseteq Nodes BY DEF G!Drawable
<1>4. CASE e \in G!EndpointRelations
  <2>1. e \in G!Drawable(G!EndpointRelations, Nodes) BY <1>3, <1>4 DEF G!Drawable
  <2>2. QED BY <1>1, <2>1 DEF EndpointsDrawn
<1>5. CASE e \notin G!EndpointRelations
  <2>1. PICK o \in G!Originals : e \in G!Relations(o) BY <1>3, <1>5 DEF G!AllRelations
  <2> DEFINE id == G!Id(o)
  <2>2. id \in resources /\ G!Original(id) = o BY <1>1, <1>2, OriginalsAre, ResourcesAtTheEnd
  <2>3. CASE \E n \in 26..43 : G!KindOf(n) = o.kind /\ e \in LoopEdges(G!PassOf(n), o)
    <3>1. PICK n \in 26..43 : G!KindOf(n) = o.kind /\ e \in LoopEdges(G!PassOf(n), o) BY <2>3
    <3>2. PICK i \in DOMAIN objects : objects[i] = o BY <1>1, OriginalsAre
    <3>3. ReadBy(n, i) BY <3>1, <3>2 DEF ReadBy
    <3>4. <<G!PassOf(n), id>> \in claimed BY <1>1, <2>2, <3>2, <3>3 DEF ClaimedAre
    <3>5. e \in G!Drawable(LoopEdges(G!PassOf(n), o), Nodes) BY <1>3, <3>1 DEF G!Drawable
    <3>6. QED BY <1>1, <2>2, <3>4, <3>5 DEF LoopsDrawn
  <2>4. CASE o.kind = "Namespace" /\ e = G!Edge(G!ClusterId, G!Id(o), "owns")
    BY <1>1, <2>2, <2>4 DEF OwnersDrawn
  <2>5. CASE o.kind = "CustomResource" /\ e \in G!OwnersOfCustomResource(o)
    <3>1. e \in G!Drawable(G!OwnersOfCustomResource(o), Nodes) BY <1>3, <2>5 DEF G!Drawable
    <3>2. QED BY <1>1, <2>2, <2>5, <3>1 DEF OwnersDrawn
  <2>6. QED BY <1>1, <1>2, <2>1, <2>3, <2>4, <2>5, RelationsHaveLoops
<1>6. QED BY <1>4, <1>5

----------------------------------------------------------------------------
(* The endpoints: what analyzeEndpointSlices keeps *)

IsList(l) == Len(l) \in Nat /\ l \in [1..Len(l) -> {l[i] : i \in 1..Len(l)}]

LEMMA NoneInList == IsList(<<>>) /\ Len(<<>>) = 0 /\ DOMAIN <<>> = {}
  BY DEF IsList

LEMMA ListDomain ==
    ASSUME NEW l, IsList(l)
    PROVE  DOMAIN l = 1..Len(l) /\ Len(l) \in Nat /\ \A i \in DOMAIN l : i \in Nat
<1> DEFINE size == Len(l)
           elements == {l[i] : i \in 1..Len(l)}
<1>1. size \in Nat /\ l \in [1..size -> elements] BY DEF IsList
<1> HIDE DEF size, elements
<1>2. DOMAIN l = 1..size BY <1>1
<1>3. \A i \in DOMAIN l : i \in Nat BY <1>1, <1>2
<1>4. QED BY <1>1, <1>2, <1>3 DEF size

LEMMA ListAppended ==
    ASSUME NEW l, IsList(l), NEW e
    PROVE  /\ IsList(Append(l, e)) /\ Len(Append(l, e)) = Len(l) + 1
           /\ \A i \in DOMAIN Append(l, e) : i \in DOMAIN l \/ i = Len(l) + 1
           /\ \A i \in DOMAIN l : i \in DOMAIN Append(l, e) /\ Append(l, e)[i] = l[i] /\ i # Len(l) + 1
           /\ Len(l) + 1 \in DOMAIN Append(l, e) /\ Append(l, e)[Len(l) + 1] = e
<1> DEFINE S == {l[i] : i \in 1..Len(l)} \cup {e}
           size == Len(l)
           new == Append(l, e)
<1>1. size \in Nat /\ DOMAIN l = 1..size BY ListDomain
<1>2. l \in Seq(S) /\ e \in S
  <2>1. Len(l) \in Nat /\ l \in [1..Len(l) -> S] BY DEF IsList
  <2>2. QED BY <2>1
<1> HIDE DEF S
<1>3. /\ new \in Seq(S) /\ Len(new) = size + 1
      /\ \A i \in 1..size : new[i] = l[i]
      /\ new[size + 1] = e
  BY <1>2, AppendProperties
<1> HIDE DEF new, size
<1>4. DOMAIN new = 1..(size + 1) /\ size + 1 \in Nat BY <1>1, <1>3, LenProperties
<1>5. IsList(new)
  <2>1. Len(new) \in Nat /\ DOMAIN new = 1..Len(new) BY <1>3, <1>4
  <2>2. new = [i \in DOMAIN new |-> new[i]] BY <1>3
  <2>3. QED BY <2>1, <2>2 DEF IsList
<1>6. \A i \in 1..(size + 1) : i \in 1..size \/ i = size + 1 BY <1>1
<1>7. \A i \in 1..size : i \in 1..(size + 1) /\ i # size + 1 BY <1>1
<1>8. size + 1 \in 1..(size + 1) BY <1>1
<1>9. QED BY <1>1, <1>3, <1>4, <1>5, <1>6, <1>7, <1>8 DEF new, size

\* No Pod is listed for a Service twice.
OncePerPod(l) ==
    \A i, j \in DOMAIN l : l[i].service = l[j].service /\ l[i].pod = l[j].pod => i = j

LEMMA OnceMore ==
    ASSUME NEW l, IsList(l), OncePerPod(l), NEW r,
           \A i \in DOMAIN l : ~(l[i].service = r.service /\ l[i].pod = r.pod)
    PROVE  OncePerPod(Append(l, r))
<1> DEFINE new == Append(l, r)
<1>1. /\ \A i \in DOMAIN new : i \in DOMAIN l \/ i = Len(l) + 1
      /\ \A i \in DOMAIN l : new[i] = l[i]
      /\ new[Len(l) + 1] = r
  BY ListAppended
<1> HIDE DEF new
<1>2. ASSUME NEW i \in DOMAIN new, NEW j \in DOMAIN new,
             new[i].service = new[j].service, new[i].pod = new[j].pod
      PROVE  i = j
  <2>1. CASE i \in DOMAIN l /\ j \in DOMAIN l
    <3>1. new[i] = l[i] /\ new[j] = l[j] BY <1>1, <2>1
    <3>2. QED BY <1>2, <2>1, <3>1 DEF OncePerPod
  <2>2. CASE i \in DOMAIN l /\ j = Len(l) + 1
    <3>1. new[i] = l[i] /\ new[j] = r BY <1>1, <2>2
    <3>2. QED BY <1>2, <2>2, <3>1
  <2>3. CASE i = Len(l) + 1 /\ j \in DOMAIN l
    <3>1. new[j] = l[j] /\ new[i] = r BY <1>1, <2>3
    <3>2. QED BY <1>2, <2>3, <3>1
  <2>4. QED BY <1>1, <2>1, <2>2, <2>3
<1>3. QED BY <1>2 DEF OncePerPod, new

\* A reference that an endpoint of a slice stands for.
ObservedIn(r, slicing) ==
    /\ r.confidence = "observed"
    /\ \E s \in G!ToSet(slicing) :
        /\ s.ok /\ r.service = G!SliceKey(s)
        /\ \E p \in G!ToSet(s.endpoints) : p.ok /\ r.pod = p.pod

AnalysisIs(a, slicing, keys) ==
    /\ a = [counts |-> a.counts, references |-> a.references, invalid |-> a.invalid,
            limited |-> a.limited, stopped |-> a.stopped, slices |-> a.slices,
            endpoints |-> a.endpoints, pods |-> a.pods, visits |-> a.visits]
    /\ a.counts = [k \in keys |-> a.counts[k]]
    /\ \A k \in keys : a.counts[k].total \in Nat
    /\ IsList(a.references) /\ OncePerPod(a.references)
    /\ \A i \in DOMAIN a.references :
        /\ ObservedIn(a.references[i], slicing)
        /\ a.references[i].service \in keys /\ a.counts[a.references[i].service].total > 0
        /\ <<a.references[i].service, a.references[i].pod>> \in a.pods

LEMMA AnalysisStarts ==
    ASSUME NEW slicing, NEW keys
    PROVE  AnalysisIs(G!NoAnalysis(keys), slicing, keys)
<1> DEFINE a == G!NoAnalysis(keys)
<1>1. /\ a.counts = [k \in keys |-> [total |-> 0, ready |-> 0]] /\ a.references = <<>>
      /\ a = [counts |-> a.counts, references |-> a.references, invalid |-> a.invalid,
              limited |-> a.limited, stopped |-> a.stopped, slices |-> a.slices,
              endpoints |-> a.endpoints, pods |-> a.pods, visits |-> a.visits]
  BY DEF G!NoAnalysis, G!NoEndpoints
<1>2. \A k \in keys : a.counts[k].total = 0 BY <1>1
<1> HIDE DEF a
<1>3. a.counts = [k \in keys |-> a.counts[k]] BY <1>1
<1>4. OncePerPod(a.references) BY <1>1, NoneInList DEF OncePerPod
<1>5. AnalysisIs(a, slicing, keys) BY <1>1, <1>2, <1>3, <1>4, NoneInList DEF AnalysisIs
<1>6. QED BY <1>5 DEF a

\* The parts of an analysis that are changed apart from the counts and the references.
LEMMA AnalysisKept ==
    ASSUME NEW a, NEW slicing, NEW keys, AnalysisIs(a, slicing, keys), NEW b,
           b = [counts |-> b.counts, references |-> b.references, invalid |-> b.invalid,
                limited |-> b.limited, stopped |-> b.stopped, slices |-> b.slices,
                endpoints |-> b.endpoints, pods |-> b.pods, visits |-> b.visits],
           b.counts = a.counts, b.references = a.references, b.pods = a.pods
    PROVE  AnalysisIs(b, slicing, keys)
  BY DEF AnalysisIs

LEMMA EndpointVisited ==
    ASSUME NEW a, NEW slicing, NEW keys, AnalysisIs(a, slicing, keys),
           NEW s \in G!ToSet(slicing), s.ok, G!SliceKey(s) \in keys, NEW p \in G!ToSet(s.endpoints)
    PROVE  AnalysisIs(G!VisitEndpoint(a, s, p), slicing, keys)
<1> DEFINE key == G!SliceKey(s)
           b == G!VisitEndpoint(a, s, p)
           counted == [a EXCEPT !.endpoints = @ \cup {<<key, p.id>>},
                                !.counts[key] = G!Counted(@, p.ready)]
           r == G!Reference(key, p.pod, p.ready, "observed")
           Shape(x) == x = [counts |-> x.counts, references |-> x.references, invalid |-> x.invalid,
                            limited |-> x.limited, stopped |-> x.stopped, slices |-> x.slices,
                            endpoints |-> x.endpoints, pods |-> x.pods, visits |-> x.visits]
<1>1. Shape(a) BY DEF AnalysisIs
<1>2. /\ Shape(counted) /\ counted.references = a.references /\ counted.pods = a.pods
      /\ counted.counts = [a.counts EXCEPT ![key] = G!Counted(@, p.ready)]
  <2> DEFINE more == a.endpoints \cup {<<key, p.id>>}
             new == G!Counted(a.counts[key], p.ready)
             mid == [a EXCEPT !.endpoints = more]
  <2>1. counted = [a EXCEPT !.endpoints = more, !.counts[key] = new] OBVIOUS
  <2> HIDE DEF counted, new, key, more
  <2>2. [a EXCEPT !.endpoints = more, !.counts[key] = new] = [mid EXCEPT !.counts[key] = new] OBVIOUS
  <2>3. /\ Shape(mid) /\ mid.references = a.references /\ mid.pods = a.pods /\ mid.counts = a.counts
    BY <1>1
  <2> HIDE DEF mid
  <2>4. /\ Shape(counted) /\ counted.references = a.references /\ counted.pods = a.pods
        /\ counted.counts = [a.counts EXCEPT ![key] = new]
    BY <2>1, <2>2, <2>3
  <2>5. QED BY <2>4 DEF new
<1>3. AnalysisIs(counted, slicing, keys)
  <2> HIDE DEF counted
  <2>1. \A k \in keys : counted.counts[k].total \in Nat /\ counted.counts[k].total >= a.counts[k].total
    BY <1>2 DEF AnalysisIs, G!Counted
  <2>2. counted.counts = [k \in keys |-> counted.counts[k]] BY <1>2 DEF AnalysisIs
  <2>3. ASSUME NEW i \in DOMAIN a.references
        PROVE  counted.counts[a.references[i].service].total > 0
    <3> DEFINE k == a.references[i].service
    <3>1. k \in keys /\ a.counts[k].total > 0 /\ a.counts[k].total \in Nat BY DEF AnalysisIs
    <3>2. counted.counts[k].total \in Nat /\ counted.counts[k].total >= a.counts[k].total BY <2>1, <3>1
    <3> HIDE DEF k
    <3>3. counted.counts[k].total > 0 BY <3>1, <3>2
    <3>4. QED BY <3>3 DEF k
  <2> HIDE DEF Shape
  <2>4. QED BY <1>2, <2>1, <2>2, <2>3 DEF AnalysisIs, Shape
<1>4. counted.counts[key].total > 0
  <2>1. a.counts[key].total \in Nat /\ key \in DOMAIN a.counts BY DEF AnalysisIs
  <2>2. counted.counts[key].total = a.counts[key].total + 1 BY <1>2, <2>1 DEF G!Counted
  <2>3. QED BY <2>1, <2>2
<1> HIDE DEF key
<1>5. CASE ~p.ok \/ <<key, p.id>> \in a.endpoints
  <2>1. b = [a EXCEPT !.invalid = @ + 1] BY <1>5 DEF G!VisitEndpoint, key
  <2>2. Shape(b) /\ b.counts = a.counts /\ b.references = a.references /\ b.pods = a.pods
    BY <1>1, <2>1
  <2> HIDE DEF b
  <2>3. QED BY <2>2, AnalysisKept DEF b
<1>6. CASE p.ok /\ <<key, p.id>> \notin a.endpoints
  <2>1. CASE p.pod = NoPod \/ <<key, p.pod>> \in a.pods \/ a.limited
    <3>1. b = counted BY <1>6, <2>1 DEF G!VisitEndpoint, key
    <3>2. QED BY <1>3, <3>1
  <2>2. CASE ~(p.pod = NoPod \/ <<key, p.pod>> \in a.pods \/ a.limited)
    <3>1. CASE Len(a.references) >= MaxReferences
      <4>1. b = [counted EXCEPT !.references = <<>>, !.limited = TRUE]
        BY <1>6, <2>2, <3>1 DEF G!VisitEndpoint, key
      <4> HIDE DEF counted
      <4>2. Shape(b) /\ b.counts = counted.counts /\ b.references = <<>> BY <1>2, <4>1
      <4>3. OncePerPod(b.references) BY <4>2, NoneInList DEF OncePerPod
      <4> HIDE DEF b
      <4>4. AnalysisIs(b, slicing, keys) BY <1>3, <4>2, <4>3, NoneInList DEF AnalysisIs
      <4>5. QED BY <4>4 DEF b
    <3>2. CASE ~(Len(a.references) >= MaxReferences)
      <4>1. b = [counted EXCEPT !.pods = @ \cup {<<key, p.pod>>}, !.references = Append(@, r)]
        BY <1>6, <2>2, <3>2 DEF G!VisitEndpoint, key
      <4> HIDE DEF counted
      <4>2. /\ Shape(b) /\ b.counts = counted.counts /\ b.references = Append(a.references, r)
            /\ b.pods = a.pods \cup {<<key, p.pod>>}
        BY <1>2, <4>1
      <4>3. IsList(a.references) /\ OncePerPod(a.references) BY DEF AnalysisIs
      <4>4. r.service = key /\ r.pod = p.pod /\ r.confidence = "observed" BY DEF G!Reference
      <4>5. ObservedIn(r, slicing) BY <1>6, <4>4 DEF ObservedIn, key
      <4> HIDE DEF b, r
      <4>6. \A i \in DOMAIN a.references :
                ~(a.references[i].service = r.service /\ a.references[i].pod = r.pod)
        BY <2>2, <4>4 DEF AnalysisIs
      <4>7. IsList(b.references) /\ OncePerPod(b.references)
        BY <4>2, <4>3, <4>6, ListAppended, OnceMore
      <4>8. ASSUME NEW i \in DOMAIN b.references
            PROVE  /\ ObservedIn(b.references[i], slicing)
                   /\ b.references[i].service \in keys /\ b.counts[b.references[i].service].total > 0
                   /\ <<b.references[i].service, b.references[i].pod>> \in b.pods
        <5>1. \/ i \in DOMAIN a.references /\ b.references[i] = a.references[i]
              \/ b.references[i] = r
          BY <4>2, <4>3, ListAppended
        <5>2. CASE i \in DOMAIN a.references /\ b.references[i] = a.references[i]
          <6>1. /\ ObservedIn(a.references[i], slicing)
                /\ a.references[i].service \in keys /\ counted.counts[a.references[i].service].total > 0
                /\ <<a.references[i].service, a.references[i].pod>> \in a.pods
            BY <1>2, <1>3, <5>2 DEF AnalysisIs
          <6>2. QED BY <4>2, <5>2, <6>1
        <5>3. CASE b.references[i] = r BY <1>4, <4>2, <4>4, <4>5, <5>3 DEF key
        <5>4. QED BY <5>1, <5>2, <5>3
      <4>9. AnalysisIs(b, slicing, keys) BY <1>3, <4>2, <4>7, <4>8 DEF AnalysisIs
      <4>10. QED BY <4>9 DEF b
    <3>3. QED BY <3>1, <3>2
  <2>3. QED BY <2>1, <2>2
<1>7. QED BY <1>5, <1>6

\* The analysis after each endpoint of a slice; there is one however many endpoints it has: a
\* first number without one would be a step after one with.
Visits(g, a, s, n) ==
    g = [m \in 0..n |-> IF m = 0 THEN a ELSE G!VisitEndpoint(g[m - 1], s, s.endpoints[m])]

LEMMA VisitsAreThere ==
    ASSUME NEW a, NEW s
    PROVE  \A n \in Nat : \E g : Visits(g, a, s, n)
<1> DEFINE T == {n \in Nat : ~\E g : Visits(g, a, s, n)}
<1> SUFFICES ASSUME T # {} PROVE FALSE
  OBVIOUS
<1>1. T \in SUBSET Nat OBVIOUS
<1>2. PICK n \in T : \A m \in T : n <= m BY <1>1, LeastNumber
<1>3. CASE n = 0
  <2> DEFINE g == [m \in 0..0 |-> a]
             h == [m \in 0..0 |-> IF m = 0 THEN a ELSE G!VisitEndpoint(g[m - 1], s, s.endpoints[m])]
  <2>1. g = h OBVIOUS
  <2>2. Visits(g, a, s, 0) BY <2>1, Zenon DEF Visits
  <2>3. QED BY <1>3, <2>2
<1>4. CASE n # 0
  <2>1. n - 1 \in Nat /\ ~(n <= n - 1) BY <1>4
  <2>2. n - 1 \notin T BY <1>2, <2>1
  <2>3. PICK g : Visits(g, a, s, n - 1) BY <2>1, <2>2
  <2> DEFINE next == G!VisitEndpoint(g[n - 1], s, s.endpoints[n])
             h == [m \in 0..n |-> IF m = n THEN next ELSE g[m]]
             k == [m \in 0..n |-> IF m = 0 THEN a ELSE G!VisitEndpoint(h[m - 1], s, s.endpoints[m])]
  <2>4. DOMAIN h = 0..n /\ DOMAIN k = 0..n OBVIOUS
  <2>5. ASSUME NEW m \in 0..n PROVE h[m] = k[m]
    <3>1. CASE m = n
      <4>1. h[m - 1] = g[n - 1] BY <1>4, <3>1
      <4>2. k[m] = G!VisitEndpoint(h[m - 1], s, s.endpoints[m]) BY <1>4, <3>1
      <4>3. QED BY <3>1, <4>1, <4>2
    <3>2. CASE m # n
      <4>1. m \in 0..(n - 1) /\ m \in Int BY <3>2
      <4>2. g[m] = IF m = 0 THEN a ELSE G!VisitEndpoint(g[m - 1], s, s.endpoints[m])
        BY <2>3, <4>1 DEF Visits
      <4>3. m # 0 => h[m - 1] = g[m - 1] BY <3>2, <4>1
      <4>4. h[m] = g[m] BY <3>2
      <4>5. k[m] = IF m = 0 THEN a ELSE G!VisitEndpoint(h[m - 1], s, s.endpoints[m]) OBVIOUS
      <4> HIDE DEF h, k
      <4>6. QED BY <4>2, <4>3, <4>4, <4>5
    <3>3. QED BY <3>1, <3>2
  <2>6. h = k
    <3>1. h = [m \in 0..n |-> h[m]] /\ k = [m \in 0..n |-> k[m]] OBVIOUS
    <3> HIDE DEF h, k
    <3>2. QED BY <2>5, <3>1
  <2>7. Visits(h, a, s, n) BY <2>6, Zenon DEF Visits
  <2>8. QED BY <2>7
<1>5. QED BY <1>3, <1>4

LEMMA EndpointsVisited ==
    ASSUME NEW slicing, G!IsSlicing(slicing), NEW keys, NEW a, AnalysisIs(a, slicing, keys),
           NEW s \in G!ToSet(slicing), s.ok, G!SliceKey(s) \in keys
    PROVE  AnalysisIs(G!VisitEndpoints(a, s), slicing, keys)
<1> DEFINE size == Len(s.endpoints)
           after == CHOOSE g : g = [n \in 0..size |->
                        IF n = 0 THEN a ELSE G!VisitEndpoint(g[n - 1], s, s.endpoints[n])]
           Good(b) == AnalysisIs(b, slicing, keys)
<1>1. G!VisitEndpoints(a, s) = after[size] BY DEF G!VisitEndpoints
<1>2. size \in Nat /\ \A n \in 1..size : s.endpoints[n] \in G!ToSet(s.endpoints)
  <2>1. s.endpoints \in Seq(G!ToSet(s.endpoints)) BY DEF G!IsSlicing
  <2>2. size \in Nat /\ DOMAIN s.endpoints = 1..size BY <2>1, LenProperties
  <2>3. QED BY <2>2 DEF G!ToSet
<1>3. Visits(after, a, s, size)
  <2>1. \E g : Visits(g, a, s, size) BY <1>2, VisitsAreThere
  <2>2. QED BY <2>1 DEF Visits
<1> HIDE DEF after, size
<1> DEFINE T == {n \in 0..size : ~Good(after[n])}
<1>4. T = {}
  <2> SUFFICES ASSUME T # {} PROVE FALSE
    OBVIOUS
  <2>1. T \in SUBSET Nat BY <1>2
  <2>2. PICK n \in T : \A m \in T : n <= m BY <2>1, LeastNumber
  <2>3. n \in 0..size /\ n \in Int BY <1>2
  <2>4. after[n] = IF n = 0 THEN a ELSE G!VisitEndpoint(after[n - 1], s, s.endpoints[n])
    BY <1>3, <2>3 DEF Visits
  <2>5. CASE n = 0 BY <2>4, <2>5
  <2>6. CASE n # 0
    <3>1. n - 1 \in 0..size /\ n \in 1..size /\ ~(n <= n - 1) BY <1>2, <2>3, <2>6
    <3>2. Good(after[n - 1]) BY <2>2, <3>1
    <3>3. Good(after[n]) BY <1>2, <2>4, <2>6, <3>1, <3>2, EndpointVisited
    <3>4. QED BY <3>3
  <2>7. QED BY <2>5, <2>6
<1>5. size \in 0..size BY <1>2
<1>6. QED BY <1>1, <1>4, <1>5

LEMMA SliceVisited ==
    ASSUME NEW slicing, G!IsSlicing(slicing), NEW keys, NEW a, AnalysisIs(a, slicing, keys),
           NEW s \in G!ToSet(slicing), G!SliceKey(s) \in keys
    PROVE  AnalysisIs(G!VisitSlice(a, s), slicing, keys)
<1> DEFINE b == G!VisitSlice(a, s)
           visits == a.visits + Len(s.endpoints)
           known == a.slices \cup {G!Key(s)}
           visiting == [a EXCEPT !.slices = known, !.visits = visits]
           Shape(x) == x = [counts |-> x.counts, references |-> x.references, invalid |-> x.invalid,
                            limited |-> x.limited, stopped |-> x.stopped, slices |-> x.slices,
                            endpoints |-> x.endpoints, pods |-> x.pods, visits |-> x.visits]
<1>1. Shape(a) BY DEF AnalysisIs
<1>2. AnalysisIs(visiting, slicing, keys)
  <2> HIDE DEF known, visits
  <2> DEFINE mid == [a EXCEPT !.slices = known]
  <2>1. visiting = [mid EXCEPT !.visits = visits] OBVIOUS
  <2>2. Shape(mid) /\ mid.references = a.references /\ mid.pods = a.pods /\ mid.counts = a.counts
    BY <1>1
  <2> HIDE DEF mid, visiting
  <2>3. /\ Shape(visiting) /\ visiting.references = a.references /\ visiting.pods = a.pods
        /\ visiting.counts = a.counts
    BY <2>1, <2>2
  <2>4. QED BY <2>3, AnalysisKept
<1>3. CASE a.stopped
  <2>1. b = a BY <1>3 DEF G!VisitSlice
  <2>2. QED BY <2>1
<1>4. CASE ~a.stopped /\ (~s.ok \/ G!Key(s) \in a.slices)
  <2>1. b = [a EXCEPT !.invalid = @ + 1] BY <1>4 DEF G!VisitSlice
  <2> HIDE DEF b
  <2>2. Shape(b) /\ b.counts = a.counts /\ b.references = a.references /\ b.pods = a.pods
    BY <1>1, <2>1
  <2>3. AnalysisIs(b, slicing, keys) BY <2>2, AnalysisKept
  <2>4. QED BY <2>3 DEF b
<1>5. CASE ~a.stopped /\ ~(~s.ok \/ G!Key(s) \in a.slices) /\ visits > MaxVisits
  <2> DEFINE none == [k \in DOMAIN a.counts |-> G!NoEndpoints]
             first == [a EXCEPT !.counts = none]
             second == [first EXCEPT !.references = <<>>]
             yes == TRUE
             third == [second EXCEPT !.limited = yes]
  <2>1. b = [a EXCEPT !.counts = none, !.references = <<>>, !.limited = yes, !.stopped = yes]
    BY <1>5 DEF G!VisitSlice
  <2> HIDE DEF b, none, yes
  <2>2. [a EXCEPT !.counts = none, !.references = <<>>, !.limited = yes, !.stopped = yes]
            = [third EXCEPT !.stopped = yes]
    OBVIOUS
  <2>3. Shape(first) /\ first.counts = none BY <1>1
  <2> HIDE DEF first
  <2>4. Shape(second) /\ second.counts = none /\ second.references = <<>> BY <2>3
  <2> HIDE DEF second
  <2>5. Shape(third) /\ third.counts = none /\ third.references = <<>> BY <2>4
  <2> HIDE DEF third
  <2>6. Shape(b) /\ b.counts = none /\ b.references = <<>> BY <2>1, <2>2, <2>5
  <2>7. b.counts = [k \in keys |-> b.counts[k]] /\ \A k \in keys : b.counts[k].total \in Nat
    BY <2>6 DEF none, AnalysisIs, G!NoEndpoints
  <2>8. OncePerPod(b.references) BY <2>6, NoneInList DEF OncePerPod
  <2>9. AnalysisIs(b, slicing, keys) BY <2>6, <2>7, <2>8, NoneInList DEF AnalysisIs
  <2>10. QED BY <2>9 DEF b
<1>6. CASE ~a.stopped /\ ~(~s.ok \/ G!Key(s) \in a.slices) /\ ~(visits > MaxVisits)
  <2>1. b = G!VisitEndpoints(visiting, s) BY <1>6 DEF G!VisitSlice
  <2> HIDE DEF visiting
  <2>2. AnalysisIs(G!VisitEndpoints(visiting, s), slicing, keys) BY <1>2, <1>6, EndpointsVisited
  <2>3. QED BY <2>1, <2>2
<1>7. QED BY <1>3, <1>4, <1>5, <1>6

\* The analysis after each slice.
Analyses(g, start, slicing, n) ==
    g = [m \in 0..n |-> IF m = 0 THEN start ELSE G!VisitSlice(g[m - 1], slicing[m])]

LEMMA AnalysesAreThere ==
    ASSUME NEW start, NEW slicing
    PROVE  \A n \in Nat : \E g : Analyses(g, start, slicing, n)
<1> DEFINE T == {n \in Nat : ~\E g : Analyses(g, start, slicing, n)}
<1> SUFFICES ASSUME T # {} PROVE FALSE
  OBVIOUS
<1>1. T \in SUBSET Nat OBVIOUS
<1>2. PICK n \in T : \A m \in T : n <= m BY <1>1, LeastNumber
<1>3. CASE n = 0
  <2> DEFINE g == [m \in 0..0 |-> start]
             h == [m \in 0..0 |-> IF m = 0 THEN start ELSE G!VisitSlice(g[m - 1], slicing[m])]
  <2>1. g = h OBVIOUS
  <2>2. Analyses(g, start, slicing, 0) BY <2>1, Zenon DEF Analyses
  <2>3. QED BY <1>3, <2>2
<1>4. CASE n # 0
  <2>1. n - 1 \in Nat /\ ~(n <= n - 1) BY <1>4
  <2>2. n - 1 \notin T BY <1>2, <2>1
  <2>3. PICK g : Analyses(g, start, slicing, n - 1) BY <2>1, <2>2
  <2> DEFINE next == G!VisitSlice(g[n - 1], slicing[n])
             h == [m \in 0..n |-> IF m = n THEN next ELSE g[m]]
             k == [m \in 0..n |-> IF m = 0 THEN start ELSE G!VisitSlice(h[m - 1], slicing[m])]
  <2>4. DOMAIN h = 0..n /\ DOMAIN k = 0..n OBVIOUS
  <2>5. ASSUME NEW m \in 0..n PROVE h[m] = k[m]
    <3>1. CASE m = n
      <4>1. h[m - 1] = g[n - 1] BY <1>4, <3>1
      <4>2. k[m] = G!VisitSlice(h[m - 1], slicing[m]) BY <1>4, <3>1
      <4>3. QED BY <3>1, <4>1, <4>2
    <3>2. CASE m # n
      <4>1. m \in 0..(n - 1) /\ m \in Int BY <3>2
      <4>2. g[m] = IF m = 0 THEN start ELSE G!VisitSlice(g[m - 1], slicing[m])
        BY <2>3, <4>1 DEF Analyses
      <4>3. m # 0 => h[m - 1] = g[m - 1] BY <3>2, <4>1
      <4>4. h[m] = g[m] BY <3>2
      <4>5. k[m] = IF m = 0 THEN start ELSE G!VisitSlice(h[m - 1], slicing[m]) OBVIOUS
      <4> HIDE DEF h, k
      <4>6. QED BY <4>2, <4>3, <4>4, <4>5
    <3>3. QED BY <3>1, <3>2
  <2>6. h = k
    <3>1. h = [m \in 0..n |-> h[m]] /\ k = [m \in 0..n |-> k[m]] OBVIOUS
    <3> HIDE DEF h, k
    <3>2. QED BY <2>5, <3>1
  <2>7. Analyses(h, start, slicing, n) BY <2>6, Zenon DEF Analyses
  <2>8. QED BY <2>7
<1>5. QED BY <1>3, <1>4

LEMMA SlicesAnalyzed ==
    ASSUME NEW slicing, G!IsSlicing(slicing), NEW keys,
           \A s \in G!ToSet(slicing) : G!SliceKey(s) \in keys
    PROVE  AnalysisIs(G!AnalyzeEndpointSlices(slicing, keys), slicing, keys)
<1> DEFINE size == Len(slicing)
           start == G!NoAnalysis(keys)
           after == CHOOSE g : g = [n \in 0..size |->
                        IF n = 0 THEN start ELSE G!VisitSlice(g[n - 1], slicing[n])]
           Good(b) == AnalysisIs(b, slicing, keys)
<1>1. G!AnalyzeEndpointSlices(slicing, keys) = after[size] BY DEF G!AnalyzeEndpointSlices
<1>2. size \in Nat /\ \A n \in 1..size : slicing[n] \in G!ToSet(slicing)
  <2>1. slicing \in Seq(G!ToSet(slicing)) BY DEF G!IsSlicing
  <2>2. size \in Nat /\ DOMAIN slicing = 1..size BY <2>1, LenProperties
  <2>3. QED BY <2>2 DEF G!ToSet
<1>3. Analyses(after, start, slicing, size)
  <2>1. \E g : Analyses(g, start, slicing, size) BY <1>2, AnalysesAreThere
  <2>2. QED BY <2>1 DEF Analyses
<1>4. Good(start) BY AnalysisStarts
<1> HIDE DEF after, size, start
<1> DEFINE T == {n \in 0..size : ~Good(after[n])}
<1>5. T = {}
  <2> SUFFICES ASSUME T # {} PROVE FALSE
    OBVIOUS
  <2>1. T \in SUBSET Nat BY <1>2
  <2>2. PICK n \in T : \A m \in T : n <= m BY <2>1, LeastNumber
  <2>3. n \in 0..size /\ n \in Int BY <1>2
  <2>4. after[n] = IF n = 0 THEN start ELSE G!VisitSlice(after[n - 1], slicing[n])
    BY <1>3, <2>3 DEF Analyses
  <2>5. CASE n = 0 BY <1>4, <2>4, <2>5
  <2>6. CASE n # 0
    <3>1. n - 1 \in 0..size /\ n \in 1..size /\ ~(n <= n - 1) BY <1>2, <2>3, <2>6
    <3>2. Good(after[n - 1]) BY <2>2, <3>1
    <3>3. Good(after[n]) BY <1>2, <2>4, <2>6, <3>1, <3>2, SliceVisited
    <3>4. QED BY <3>3
  <2>7. QED BY <2>5, <2>6
<1>6. size \in 0..size BY <1>2
<1>7. QED BY <1>1, <1>5, <1>6

----------------------------------------------------------------------------
(* The endpoints: what a selector adds *)

\* A reference that the selector of a Service and the labels of a Pod stand for.
InferredIn(r, list_) ==
    /\ r.confidence = "inferred"
    /\ \E s \in G!ToSet(list_) :
        /\ s.kind = "Service" /\ G!SupportsSelectorInference(s) /\ r.service = G!Key(s)
        /\ \E i \in G!UniqueValidPods(list_) :
            /\ list_[i].ns = s.ns /\ r.pod = list_[i].name
            /\ G!Matches(s.selector, list_[i].labels)

ReferencesAre(l, observed, list_) ==
    /\ IsList(l) /\ OncePerPod(l)
    /\ \A i \in DOMAIN l : l[i] \in G!ToSet(observed) \/ InferredIn(l[i], list_)

InferenceIs(f, observed, list_) ==
    /\ f = [references |-> f.references, services |-> f.services, comparisons |-> f.comparisons,
            gaveUp |-> f.gaveUp]
    /\ ReferencesAre(f.references, observed, list_)

LEMMA PodInferred ==
    ASSUME NEW observed, NEW list_, NEW f, InferenceIs(f, observed, list_),
           NEW s \in G!ToSet(list_), s.kind = "Service", G!SupportsSelectorInference(s),
           NEW i \in G!UniqueValidPods(list_)
    PROVE  InferenceIs(G!InferPod(f, s, list_[i]), observed, list_)
<1> DEFINE pod == list_[i]
           g == G!InferPod(f, s, pod)
           comparing == [f EXCEPT !.comparisons = @ + 1]
           known == \E r \in G!ToSet(f.references) : r.service = G!Key(s) /\ r.pod = pod.name
           new == G!Reference(G!Key(s), pod.name, pod.ready, "inferred")
           Shape(x) == x = [references |-> x.references, services |-> x.services,
                            comparisons |-> x.comparisons, gaveUp |-> x.gaveUp]
           yes == TRUE
<1>1. Shape(f) /\ ReferencesAre(f.references, observed, list_) BY DEF InferenceIs
<1>2. Shape(comparing) /\ comparing.references = f.references BY <1>1
<1>3. InferenceIs(comparing, observed, list_)
  <2> HIDE DEF comparing
  <2>1. QED BY <1>1, <1>2 DEF InferenceIs
<1>4. [comparing EXCEPT !.gaveUp = yes].references = f.references /\ Shape([comparing EXCEPT !.gaveUp = yes])
  <2> HIDE DEF comparing, yes
  <2>1. QED BY <1>2
<1>5. InferenceIs([comparing EXCEPT !.gaveUp = yes], observed, list_)
  <2> DEFINE h == [comparing EXCEPT !.gaveUp = yes]
  <2>1. Shape(h) /\ h.references = f.references BY <1>4
  <2> HIDE DEF h
  <2>2. InferenceIs(h, observed, list_) BY <1>1, <2>1 DEF InferenceIs
  <2>3. QED BY <2>2 DEF h
<1>6. CASE f.gaveUp \/ pod.ns # s.ns
  <2>1. g = f BY <1>6 DEF G!InferPod
  <2>2. QED BY <2>1
<1>7. CASE ~(f.gaveUp \/ pod.ns # s.ns)
  <2>1. CASE comparing.comparisons > MaxComparisons
    <3>1. g = [comparing EXCEPT !.gaveUp = yes] BY <1>7, <2>1 DEF G!InferPod
    <3>2. QED BY <1>5, <3>1
  <2>2. CASE ~(comparing.comparisons > MaxComparisons)
    <3>1. CASE ~G!Matches(s.selector, pod.labels) \/ known
      <4>1. g = comparing BY <1>7, <2>2, <3>1 DEF G!InferPod
      <4>2. QED BY <1>3, <4>1
    <3>2. CASE ~(~G!Matches(s.selector, pod.labels) \/ known)
      <4>1. CASE Len(f.references) >= MaxReferences
        <5>1. g = [comparing EXCEPT !.gaveUp = yes] BY <1>7, <2>2, <3>2, <4>1 DEF G!InferPod
        <5>2. QED BY <1>5, <5>1
      <4>2. CASE ~(Len(f.references) >= MaxReferences)
        <5>1. g = [comparing EXCEPT !.references = Append(@, new)]
          BY <1>7, <2>2, <3>2, <4>2 DEF G!InferPod
        <5> HIDE DEF comparing, new
        <5>2. Shape(g) /\ g.references = Append(f.references, new) BY <1>2, <5>1
        <5> HIDE DEF g
        <5>3. new.service = G!Key(s) /\ new.pod = pod.name /\ new.confidence = "inferred"
          BY DEF new, G!Reference
        <5>4. IsList(f.references) /\ OncePerPod(f.references) BY <1>1 DEF ReferencesAre
        <5>5. InferredIn(new, list_) BY <1>7, <3>2, <5>3 DEF InferredIn
        <5>6. ASSUME NEW j \in DOMAIN f.references
              PROVE  ~(f.references[j].service = new.service /\ f.references[j].pod = new.pod)
          <6>1. f.references[j] \in G!ToSet(f.references) BY DEF G!ToSet
          <6>2. QED BY <3>2, <5>3, <6>1
        <5>7. IsList(g.references) /\ OncePerPod(g.references)
          BY <5>2, <5>4, <5>6, ListAppended, OnceMore
        <5>8. \A j \in DOMAIN g.references :
                (j \in DOMAIN f.references /\ g.references[j] = f.references[j]) \/ g.references[j] = new
          BY <5>2, <5>4, ListAppended
        <5>9. ReferencesAre(g.references, observed, list_)
          BY <1>1, <5>5, <5>7, <5>8 DEF ReferencesAre
        <5>10. InferenceIs(g, observed, list_) BY <5>2, <5>9 DEF InferenceIs
        <5>11. QED BY <5>10 DEF g
      <4>3. QED BY <4>1, <4>2
    <3>3. QED BY <3>1, <3>2
  <2>3. QED BY <2>1, <2>2
<1>8. QED BY <1>6, <1>7

\* The inference for a Service after each item.
Inferences(g, start, s, list_, n) ==
    g = [m \in 0..n |-> IF m = 0 THEN start ELSE IF m \in G!UniqueValidPods(list_) THEN G!InferPod(g[m - 1], s, list_[m]) ELSE g[m - 1]]

LEMMA InferencesAreThere ==
    ASSUME NEW start, NEW s, NEW list_
    PROVE  \A n \in Nat : \E g : Inferences(g, start, s, list_, n)
<1> DEFINE T == {n \in Nat : ~\E g : Inferences(g, start, s, list_, n)}
<1> SUFFICES ASSUME T # {} PROVE FALSE
  OBVIOUS
<1>1. T \in SUBSET Nat OBVIOUS
<1>2. PICK n \in T : \A m \in T : n <= m BY <1>1, LeastNumber
<1>3. CASE n = 0
  <2> DEFINE g == [m \in 0..0 |-> start]
             h == [m \in 0..0 |-> IF m = 0 THEN start ELSE IF m \in G!UniqueValidPods(list_) THEN G!InferPod(g[m - 1], s, list_[m]) ELSE g[m - 1]]
  <2>1. g = h OBVIOUS
  <2>2. Inferences(g, start, s, list_, 0) BY <2>1, Zenon DEF Inferences
  <2>3. QED BY <1>3, <2>2
<1>4. CASE n # 0
  <2>1. n - 1 \in Nat /\ ~(n <= n - 1) BY <1>4
  <2>2. n - 1 \notin T BY <1>2, <2>1
  <2>3. PICK g : Inferences(g, start, s, list_, n - 1) BY <2>1, <2>2
  <2> DEFINE next == IF n \in G!UniqueValidPods(list_) THEN G!InferPod(g[n - 1], s, list_[n]) ELSE g[n - 1]
             h == [m \in 0..n |-> IF m = n THEN next ELSE g[m]]
             k == [m \in 0..n |-> IF m = 0 THEN start ELSE IF m \in G!UniqueValidPods(list_) THEN G!InferPod(h[m - 1], s, list_[m]) ELSE h[m - 1]]
  <2>4. DOMAIN h = 0..n /\ DOMAIN k = 0..n OBVIOUS
  <2>5. ASSUME NEW m \in 0..n PROVE h[m] = k[m]
    <3>1. CASE m = n
      <4>1. h[m - 1] = g[n - 1] BY <1>4, <3>1
      <4>2. k[m] = IF m \in G!UniqueValidPods(list_) THEN G!InferPod(h[m - 1], s, list_[m]) ELSE h[m - 1] BY <1>4, <3>1
      <4>3. QED BY <3>1, <4>1, <4>2
    <3>2. CASE m # n
      <4>1. m \in 0..(n - 1) /\ m \in Int BY <3>2
      <4>2. g[m] = IF m = 0 THEN start ELSE IF m \in G!UniqueValidPods(list_) THEN G!InferPod(g[m - 1], s, list_[m]) ELSE g[m - 1]
        BY <2>3, <4>1 DEF Inferences
      <4>3. m # 0 => h[m - 1] = g[m - 1] BY <3>2, <4>1
      <4>4. h[m] = g[m] BY <3>2
      <4>5. k[m] = IF m = 0 THEN start ELSE IF m \in G!UniqueValidPods(list_) THEN G!InferPod(h[m - 1], s, list_[m]) ELSE h[m - 1] OBVIOUS
      <4> HIDE DEF h, k
      <4>6. QED BY <4>2, <4>3, <4>4, <4>5
    <3>3. QED BY <3>1, <3>2
  <2>6. h = k
    <3>1. h = [m \in 0..n |-> h[m]] /\ k = [m \in 0..n |-> k[m]] OBVIOUS
    <3> HIDE DEF h, k
    <3>2. QED BY <2>5, <3>1
  <2>7. Inferences(h, start, s, list_, n) BY <2>6, Zenon DEF Inferences
  <2>8. QED BY <2>7
<1>5. QED BY <1>3, <1>4

LEMMA ServiceInferred ==
    ASSUME NEW observed, NEW list_, Len(list_) \in Nat, NEW f, InferenceIs(f, observed, list_),
           NEW s \in G!ToSet(list_), s.kind = "Service"
    PROVE  InferenceIs(G!InferService(f, s, list_), observed, list_)
<1> DEFINE size == Len(list_)
           start == [f EXCEPT !.services = @ \cup {G!Key(s)}]
           after == CHOOSE g : g = [n \in 0..size |->
                        IF n = 0 THEN start
                        ELSE IF n \in G!UniqueValidPods(list_) THEN G!InferPod(g[n - 1], s, list_[n])
                        ELSE g[n - 1]]
           Good(b) == InferenceIs(b, observed, list_)
<1>1. CASE G!Key(s) \in f.services \/ ~G!SupportsSelectorInference(s)
  <2>1. G!InferService(f, s, list_) = f BY <1>1 DEF G!InferService
  <2>2. QED BY <2>1
<1>2. CASE ~(G!Key(s) \in f.services) /\ G!SupportsSelectorInference(s)
  <2>1. G!InferService(f, s, list_) = after[size] BY <1>2 DEF G!InferService
  <2>2. Inferences(after, start, s, list_, size)
    <3>1. \E g : Inferences(g, start, s, list_, size) BY InferencesAreThere
    <3>2. QED BY <3>1 DEF Inferences
  <2>3. Good(start)
    <3> DEFINE more == f.services \cup {G!Key(s)}
    <3>1. start = [f EXCEPT !.services = more] OBVIOUS
    <3> HIDE DEF more, start
    <3>2. /\ start = [references |-> start.references, services |-> start.services,
                      comparisons |-> start.comparisons, gaveUp |-> start.gaveUp]
          /\ start.references = f.references
      BY <3>1 DEF InferenceIs
    <3>3. ReferencesAre(f.references, observed, list_) BY DEF InferenceIs
    <3>4. QED BY <3>2, <3>3 DEF InferenceIs
  <2>4. size \in Nat OBVIOUS
  <2> HIDE DEF after, size, start
  <2> DEFINE T == {n \in 0..size : ~Good(after[n])}
  <2>5. T = {}
    <3> SUFFICES ASSUME T # {} PROVE FALSE
      OBVIOUS
    <3>1. T \in SUBSET Nat BY <2>4
    <3>2. PICK n \in T : \A m \in T : n <= m BY <3>1, LeastNumber
    <3>3. n \in 0..size /\ n \in Int BY <2>4
    <3>4. after[n] = IF n = 0 THEN start
                     ELSE IF n \in G!UniqueValidPods(list_) THEN G!InferPod(after[n - 1], s, list_[n])
                     ELSE after[n - 1]
      BY <2>2, <3>3 DEF Inferences
    <3>5. CASE n = 0 BY <2>3, <3>4, <3>5
    <3>6. CASE n # 0
      <4>1. n - 1 \in 0..size /\ ~(n <= n - 1) BY <2>4, <3>3, <3>6
      <4>2. Good(after[n - 1]) BY <3>2, <4>1
      <4>3. n \in G!UniqueValidPods(list_) => Good(G!InferPod(after[n - 1], s, list_[n]))
        BY <1>2, <4>2, PodInferred
      <4>4. Good(after[n]) BY <3>4, <3>6, <4>2, <4>3
      <4>5. QED BY <4>4
    <3>7. QED BY <3>5, <3>6
  <2>6. size \in 0..size BY <2>4
  <2>7. QED BY <2>1, <2>5, <2>6
<1>3. QED BY <1>1, <1>2

\* The inference after each Service.
AllInferences(g, start, list_, n) ==
    g = [m \in 0..n |-> IF m = 0 THEN start ELSE IF list_[m].kind = "Service" THEN G!InferService(g[m - 1], list_[m], list_) ELSE g[m - 1]]

LEMMA AllInferencesAreThere ==
    ASSUME NEW start, NEW list_
    PROVE  \A n \in Nat : \E g : AllInferences(g, start, list_, n)
<1> DEFINE T == {n \in Nat : ~\E g : AllInferences(g, start, list_, n)}
<1> SUFFICES ASSUME T # {} PROVE FALSE
  OBVIOUS
<1>1. T \in SUBSET Nat OBVIOUS
<1>2. PICK n \in T : \A m \in T : n <= m BY <1>1, LeastNumber
<1>3. CASE n = 0
  <2> DEFINE g == [m \in 0..0 |-> start]
             h == [m \in 0..0 |-> IF m = 0 THEN start ELSE IF list_[m].kind = "Service" THEN G!InferService(g[m - 1], list_[m], list_) ELSE g[m - 1]]
  <2>1. g = h OBVIOUS
  <2>2. AllInferences(g, start, list_, 0) BY <2>1, Zenon DEF AllInferences
  <2>3. QED BY <1>3, <2>2
<1>4. CASE n # 0
  <2>1. n - 1 \in Nat /\ ~(n <= n - 1) BY <1>4
  <2>2. n - 1 \notin T BY <1>2, <2>1
  <2>3. PICK g : AllInferences(g, start, list_, n - 1) BY <2>1, <2>2
  <2> DEFINE next == IF list_[n].kind = "Service" THEN G!InferService(g[n - 1], list_[n], list_) ELSE g[n - 1]
             h == [m \in 0..n |-> IF m = n THEN next ELSE g[m]]
             k == [m \in 0..n |-> IF m = 0 THEN start ELSE IF list_[m].kind = "Service" THEN G!InferService(h[m - 1], list_[m], list_) ELSE h[m - 1]]
  <2>4. DOMAIN h = 0..n /\ DOMAIN k = 0..n OBVIOUS
  <2>5. ASSUME NEW m \in 0..n PROVE h[m] = k[m]
    <3>1. CASE m = n
      <4>1. h[m - 1] = g[n - 1] BY <1>4, <3>1
      <4>2. k[m] = IF list_[m].kind = "Service" THEN G!InferService(h[m - 1], list_[m], list_) ELSE h[m - 1] BY <1>4, <3>1
      <4>3. QED BY <3>1, <4>1, <4>2
    <3>2. CASE m # n
      <4>1. m \in 0..(n - 1) /\ m \in Int BY <3>2
      <4>2. g[m] = IF m = 0 THEN start ELSE IF list_[m].kind = "Service" THEN G!InferService(g[m - 1], list_[m], list_) ELSE g[m - 1]
        BY <2>3, <4>1 DEF AllInferences
      <4>3. m # 0 => h[m - 1] = g[m - 1] BY <3>2, <4>1
      <4>4. h[m] = g[m] BY <3>2
      <4>5. k[m] = IF m = 0 THEN start ELSE IF list_[m].kind = "Service" THEN G!InferService(h[m - 1], list_[m], list_) ELSE h[m - 1] OBVIOUS
      <4> HIDE DEF h, k
      <4>6. QED BY <4>2, <4>3, <4>4, <4>5
    <3>3. QED BY <3>1, <3>2
  <2>6. h = k
    <3>1. h = [m \in 0..n |-> h[m]] /\ k = [m \in 0..n |-> k[m]] OBVIOUS
    <3> HIDE DEF h, k
    <3>2. QED BY <2>5, <3>1
  <2>7. AllInferences(h, start, list_, n) BY <2>6, Zenon DEF AllInferences
  <2>8. QED BY <2>7
<1>5. QED BY <1>3, <1>4

LEMMA EndpointReferencesAre ==
    ASSUME NEW observed, IsList(observed), OncePerPod(observed), NEW list_, Len(list_) \in Nat,
           DOMAIN list_ = 1..Len(list_)
    PROVE  ReferencesAre(G!EndpointReferences(observed, list_), observed, list_)
<1> DEFINE size == Len(list_)
           start == [references |-> observed, services |-> {}, comparisons |-> 0, gaveUp |-> FALSE]
           after == CHOOSE g : g = [n \in 0..size |->
                        IF n = 0 THEN start
                        ELSE IF list_[n].kind = "Service" THEN G!InferService(g[n - 1], list_[n], list_)
                        ELSE g[n - 1]]
           Good(b) == InferenceIs(b, observed, list_)
<1>1. G!EndpointReferences(observed, list_) =
        IF after[size].gaveUp THEN observed ELSE after[size].references
  BY DEF G!EndpointReferences
<1>2. AllInferences(after, start, list_, size)
  <2>1. \E g : AllInferences(g, start, list_, size) BY AllInferencesAreThere
  <2>2. QED BY <2>1 DEF AllInferences
<1>3. ReferencesAre(observed, observed, list_) BY DEF ReferencesAre, G!ToSet
<1>4. Good(start) BY <1>3 DEF InferenceIs
<1>5. size \in Nat /\ \A n \in 1..size : list_[n] \in G!ToSet(list_) BY DEF G!ToSet
<1> HIDE DEF after, size, start
<1> DEFINE T == {n \in 0..size : ~Good(after[n])}
<1>6. T = {}
  <2> SUFFICES ASSUME T # {} PROVE FALSE
    OBVIOUS
  <2>1. T \in SUBSET Nat BY <1>5
  <2>2. PICK n \in T : \A m \in T : n <= m BY <2>1, LeastNumber
  <2>3. n \in 0..size /\ n \in Int BY <1>5
  <2>4. after[n] = IF n = 0 THEN start
                   ELSE IF list_[n].kind = "Service" THEN G!InferService(after[n - 1], list_[n], list_)
                   ELSE after[n - 1]
    BY <1>2, <2>3 DEF AllInferences
  <2>5. CASE n = 0 BY <1>4, <2>4, <2>5
  <2>6. CASE n # 0
    <3>1. n - 1 \in 0..size /\ n \in 1..size /\ ~(n <= n - 1) BY <1>5, <2>3, <2>6
    <3>2. Good(after[n - 1]) BY <2>2, <3>1
    <3>3. list_[n].kind = "Service" => Good(G!InferService(after[n - 1], list_[n], list_))
      BY <1>5, <3>1, <3>2, ServiceInferred
    <3>4. Good(after[n]) BY <2>4, <2>6, <3>2, <3>3
    <3>5. QED BY <3>4
  <2>7. QED BY <2>5, <2>6
<1>7. size \in 0..size BY <1>5
<1>8. Good(after[size]) BY <1>6, <1>7
<1>9. QED BY <1>1, <1>3, <1>8 DEF InferenceIs

----------------------------------------------------------------------------
(* The endpoints: the counts *)

\* The counts after each reference.
Merges(g, counts, refs, n) ==
    g = [m \in 0..n |-> IF m = 0 THEN counts ELSE IF refs[m].confidence = "inferred" /\ counts[refs[m].service].total = 0 THEN [g[m - 1] EXCEPT ![refs[m].service] = G!Counted(@, refs[m].ready)] ELSE g[m - 1]]

LEMMA MergesAreThere ==
    ASSUME NEW counts, NEW refs
    PROVE  \A n \in Nat : \E g : Merges(g, counts, refs, n)
<1> DEFINE T == {n \in Nat : ~\E g : Merges(g, counts, refs, n)}
<1> SUFFICES ASSUME T # {} PROVE FALSE
  OBVIOUS
<1>1. T \in SUBSET Nat OBVIOUS
<1>2. PICK n \in T : \A m \in T : n <= m BY <1>1, LeastNumber
<1>3. CASE n = 0
  <2> DEFINE g == [m \in 0..0 |-> counts]
             h == [m \in 0..0 |-> IF m = 0 THEN counts ELSE IF refs[m].confidence = "inferred" /\ counts[refs[m].service].total = 0 THEN [g[m - 1] EXCEPT ![refs[m].service] = G!Counted(@, refs[m].ready)] ELSE g[m - 1]]
  <2>1. g = h OBVIOUS
  <2>2. Merges(g, counts, refs, 0) BY <2>1, Zenon DEF Merges
  <2>3. QED BY <1>3, <2>2
<1>4. CASE n # 0
  <2>1. n - 1 \in Nat /\ ~(n <= n - 1) BY <1>4
  <2>2. n - 1 \notin T BY <1>2, <2>1
  <2>3. PICK g : Merges(g, counts, refs, n - 1) BY <2>1, <2>2
  <2> DEFINE next == IF refs[n].confidence = "inferred" /\ counts[refs[n].service].total = 0 THEN [g[n - 1] EXCEPT ![refs[n].service] = G!Counted(@, refs[n].ready)] ELSE g[n - 1]
             h == [m \in 0..n |-> IF m = n THEN next ELSE g[m]]
             k == [m \in 0..n |-> IF m = 0 THEN counts ELSE IF refs[m].confidence = "inferred" /\ counts[refs[m].service].total = 0 THEN [h[m - 1] EXCEPT ![refs[m].service] = G!Counted(@, refs[m].ready)] ELSE h[m - 1]]
  <2>4. DOMAIN h = 0..n /\ DOMAIN k = 0..n OBVIOUS
  <2>5. ASSUME NEW m \in 0..n PROVE h[m] = k[m]
    <3>1. CASE m = n
      <4>1. h[m - 1] = g[n - 1] BY <1>4, <3>1
      <4>2. k[m] = IF refs[m].confidence = "inferred" /\ counts[refs[m].service].total = 0 THEN [h[m - 1] EXCEPT ![refs[m].service] = G!Counted(@, refs[m].ready)] ELSE h[m - 1] BY <1>4, <3>1
      <4>3. QED BY <3>1, <4>1, <4>2
    <3>2. CASE m # n
      <4>1. m \in 0..(n - 1) /\ m \in Int BY <3>2
      <4>2. g[m] = IF m = 0 THEN counts ELSE IF refs[m].confidence = "inferred" /\ counts[refs[m].service].total = 0 THEN [g[m - 1] EXCEPT ![refs[m].service] = G!Counted(@, refs[m].ready)] ELSE g[m - 1]
        BY <2>3, <4>1 DEF Merges
      <4>3. m # 0 => h[m - 1] = g[m - 1] BY <3>2, <4>1
      <4>4. h[m] = g[m] BY <3>2
      <4>5. k[m] = IF m = 0 THEN counts ELSE IF refs[m].confidence = "inferred" /\ counts[refs[m].service].total = 0 THEN [h[m - 1] EXCEPT ![refs[m].service] = G!Counted(@, refs[m].ready)] ELSE h[m - 1] OBVIOUS
      <4> HIDE DEF h, k
      <4>6. QED BY <4>2, <4>3, <4>4, <4>5
    <3>3. QED BY <3>1, <3>2
  <2>6. h = k
    <3>1. h = [m \in 0..n |-> h[m]] /\ k = [m \in 0..n |-> k[m]] OBVIOUS
    <3> HIDE DEF h, k
    <3>2. QED BY <2>5, <3>1
  <2>7. Merges(h, counts, refs, n) BY <2>6, Zenon DEF Merges
  <2>8. QED BY <2>7
<1>5. QED BY <1>3, <1>4

\* A Service without observed endpoints counts the references to it.
LEMMA CountsMerged ==
    ASSUME NEW keys, NEW counts, counts = [k \in keys |-> counts[k]],
           NEW refs, IsList(refs), \A i \in DOMAIN refs : refs[i].service \in keys,
           NEW key \in keys, counts[key].total = 0,
           \A i \in DOMAIN refs : refs[i].service = key => refs[i].confidence = "inferred"
    PROVE  G!MergeReferenceCounts(counts, refs)[key].total
                = Cardinality({i \in DOMAIN refs : refs[i].service = key})
<1> DEFINE size == Len(refs)
           after == CHOOSE g : g = [n \in 0..size |->
                        IF n = 0 THEN counts
                        ELSE IF refs[n].confidence = "inferred" /\ counts[refs[n].service].total = 0
                        THEN [g[n - 1] EXCEPT ![refs[n].service] = G!Counted(@, refs[n].ready)]
                        ELSE g[n - 1]]
           Upto(n) == {i \in 1..n : refs[i].service = key}
           Good(n) == /\ after[n] = [k \in keys |-> after[n][k]]
                      /\ after[n][key].total = Cardinality(Upto(n))
<1>1. G!MergeReferenceCounts(counts, refs) = after[size] BY DEF G!MergeReferenceCounts
<1>2. size \in Nat /\ DOMAIN refs = 1..size BY ListDomain
<1>3. Merges(after, counts, refs, size)
  <2>1. \E g : Merges(g, counts, refs, size) BY <1>2, MergesAreThere
  <2>2. QED BY <2>1 DEF Merges
<1> HIDE DEF after, size
<1>4. \A n \in Nat : IsFiniteSet(Upto(n)) /\ Cardinality(Upto(n)) \in Nat
  <2> TAKE n \in Nat
  <2>1. IsFiniteSet(1..n)
    <3>1. 1 \in Int /\ n \in Int OBVIOUS
    <3>2. QED BY <3>1, FS_Interval
  <2>2. Upto(n) \subseteq 1..n OBVIOUS
  <2> HIDE DEF Upto
  <2>3. IsFiniteSet(Upto(n)) BY <2>1, <2>2, FS_Subset
  <2>4. QED BY <2>3, FS_CardinalityType
<1> DEFINE T == {n \in 0..size : ~Good(n)}
<1>5. T = {}
  <2> SUFFICES ASSUME T # {} PROVE FALSE
    OBVIOUS
  <2>1. T \in SUBSET Nat BY <1>2
  <2>2. PICK n \in T : \A m \in T : n <= m BY <2>1, LeastNumber
  <2>3. n \in 0..size /\ n \in Nat BY <1>2
  <2>4. after[n] = IF n = 0 THEN counts
                   ELSE IF refs[n].confidence = "inferred" /\ counts[refs[n].service].total = 0
                   THEN [after[n - 1] EXCEPT ![refs[n].service] = G!Counted(@, refs[n].ready)]
                   ELSE after[n - 1]
    BY <1>3, <2>3 DEF Merges
  <2>5. CASE n = 0
    <3>1. Upto(0) = {} OBVIOUS
    <3>2. after[0] = counts BY <2>4, <2>5
    <3>3. Good(0) BY <3>1, <3>2, FS_EmptySet
    <3>4. QED BY <2>5, <3>3
  <2>6. CASE n # 0
    <3>1. n - 1 \in 0..size /\ n - 1 \in Nat /\ n \in 1..size /\ ~(n <= n - 1) BY <1>2, <2>3, <2>6
    <3>2. Good(n - 1) BY <2>2, <3>1
    <3>3. refs[n].service \in keys BY <1>2, <3>1
    <3> DEFINE r == refs[n]
               old == after[n - 1]
    <3>4. CASE r.service = key
      <4>1. Upto(n) = Upto(n - 1) \cup {n} /\ n \notin Upto(n - 1) BY <2>3, <3>1, <3>4
      <4>2. Cardinality(Upto(n)) = Cardinality(Upto(n - 1)) + 1
        <5> DEFINE before == Upto(n - 1)
                   now == Upto(n)
        <5>1. IsFiniteSet(before) BY <1>4, <3>1
        <5>2. now = before \cup {n} /\ n \notin before BY <4>1
        <5> HIDE DEF before, now
        <5>3. Cardinality(now) = Cardinality(before) + 1 BY <5>1, <5>2, FS_AddElement
        <5>4. QED BY <5>3 DEF before, now
      <4>3. r.confidence = "inferred" BY <1>2, <3>1, <3>4
      <4>4. after[n] = [old EXCEPT ![key] = G!Counted(@, r.ready)] BY <2>4, <2>6, <3>4, <4>3
      <4> HIDE DEF Upto
      <4>5. old = [k \in keys |-> old[k]] /\ old[key].total = Cardinality(Upto(n - 1)) BY <3>2
      <4> HIDE DEF old, r
      <4>6. after[n] = [k \in keys |-> after[n][k]] /\ after[n][key] = G!Counted(old[key], r.ready)
        BY <4>4, <4>5
      <4>7. after[n][key].total = Cardinality(Upto(n)) BY <4>2, <4>5, <4>6 DEF G!Counted
      <4>8. Good(n) BY <4>6, <4>7
      <4>9. QED BY <4>8
    <3>5. CASE r.service # key
      <4>1. Upto(n) = Upto(n - 1) BY <2>3, <3>1, <3>5
      <4>2. after[n] = old \/ after[n] = [old EXCEPT ![r.service] = G!Counted(@, r.ready)]
        BY <2>4, <2>6
      <4> HIDE DEF Upto
      <4>3. old = [k \in keys |-> old[k]] /\ old[key].total = Cardinality(Upto(n - 1)) BY <3>2
      <4> HIDE DEF old
      <4>4. after[n] = [k \in keys |-> after[n][k]] /\ after[n][key] = old[key]
        BY <3>3, <3>5, <4>2, <4>3
      <4>5. Good(n) BY <4>1, <4>3, <4>4
      <4>6. QED BY <4>5
    <3>6. QED BY <3>4, <3>5
  <2>7. QED BY <2>5, <2>6
<1>6. size \in 0..size BY <1>2
<1>7. Good(size) BY <1>5, <1>6
<1>8. QED BY <1>1, <1>2, <1>7

----------------------------------------------------------------------------
(* The endpoints of a snapshot *)

Keys == G!EndpointKeys(objects, slices)

LEMMA EndpointsAre ==
    ASSUME Input
    PROVE  LET refs == endpoints.references IN
           /\ IsList(refs) /\ OncePerPod(refs)
           /\ \A i \in DOMAIN refs :
                /\ ObservedIn(refs[i], slices) \/ InferredIn(refs[i], objects)
                /\ refs[i].service \in Keys
           /\ \A key \in Keys : endpoints.observed[key].total = 0 =>
                /\ \A i \in DOMAIN refs : refs[i].service = key => InferredIn(refs[i], objects)
                /\ endpoints.counts[key].total = Cardinality({i \in DOMAIN refs : refs[i].service = key})
<1> DEFINE refs == endpoints.references
           analysis == G!AnalyzeEndpointSlices(slices, Keys)
           seen == analysis.references
<1>1. /\ G!IsListing(objects) /\ G!IsSlicing(slices) /\ endpoints = G!Endpoints(objects, slices)
      /\ Len(objects) \in Nat /\ DOMAIN objects = 1..Len(objects)
  BY ListingIs DEF Input
<1>2. /\ endpoints.observed = analysis.counts
      /\ refs = G!EndpointReferences(seen, objects)
      /\ endpoints.counts = G!MergeReferenceCounts(analysis.counts, refs)
  BY <1>1 DEF G!Endpoints, Keys
<1>3. \A s \in G!ToSet(slices) : G!SliceKey(s) \in Keys BY DEF Keys, G!EndpointKeys
<1>4. AnalysisIs(analysis, slices, Keys) BY <1>1, <1>3, SlicesAnalyzed
<1> HIDE DEF analysis
<1>5. IsList(seen) /\ OncePerPod(seen) BY <1>4 DEF AnalysisIs
<1>6. ReferencesAre(refs, seen, objects) BY <1>1, <1>2, <1>5, EndpointReferencesAre
<1>7. IsList(refs) /\ OncePerPod(refs) BY <1>6 DEF ReferencesAre
<1> HIDE DEF refs
<1>8. ASSUME NEW i \in DOMAIN refs
      PROVE  /\ refs[i].service \in Keys
             /\ InferredIn(refs[i], objects)
                \/ (ObservedIn(refs[i], slices) /\ analysis.counts[refs[i].service].total > 0)
  <2>1. CASE refs[i] \in G!ToSet(seen)
    <3>1. PICK j \in DOMAIN seen : refs[i] = seen[j] BY <2>1 DEF G!ToSet
    <3>2. /\ ObservedIn(seen[j], slices) /\ seen[j].service \in Keys
          /\ analysis.counts[seen[j].service].total > 0
      BY <1>4, <3>1 DEF AnalysisIs
    <3>3. QED BY <3>1, <3>2
  <2>2. CASE InferredIn(refs[i], objects)
    <3>1. PICK s \in G!ToSet(objects) : s.kind = "Service" /\ refs[i].service = G!Key(s)
      BY <2>2 DEF InferredIn
    <3>2. refs[i].service \in Keys BY <3>1 DEF Keys, G!EndpointKeys
    <3>3. QED BY <2>2, <3>2
  <2>3. QED BY <1>6, <2>1, <2>2 DEF ReferencesAre
<1>9. ASSUME NEW key \in Keys, endpoints.observed[key].total = 0
      PROVE  /\ \A i \in DOMAIN refs : refs[i].service = key => InferredIn(refs[i], objects)
             /\ endpoints.counts[key].total = Cardinality({i \in DOMAIN refs : refs[i].service = key})
  <2> DEFINE counts == analysis.counts
  <2>1. counts = [k \in Keys |-> counts[k]] BY <1>4 DEF AnalysisIs
  <2>2. counts[key].total = 0 BY <1>2, <1>9
  <2>3. ASSUME NEW i \in DOMAIN refs, refs[i].service = key PROVE InferredIn(refs[i], objects)
    <3>1. ~(counts[refs[i].service].total > 0) BY <2>2, <2>3
    <3>2. QED BY <1>8, <3>1
  <2>4. \A i \in DOMAIN refs : refs[i].service = key => refs[i].confidence = "inferred"
    BY <2>3 DEF InferredIn
  <2>5. \A i \in DOMAIN refs : refs[i].service \in Keys BY <1>8
  <2> HIDE DEF counts
  <2>6. G!MergeReferenceCounts(counts, refs)[key].total
            = Cardinality({i \in DOMAIN refs : refs[i].service = key})
    BY <1>7, <2>1, <2>2, <2>4, <2>5, CountsMerged
  <2>7. QED BY <1>2, <2>3, <2>6 DEF counts
<1>10. QED BY <1>7, <1>8, <1>9 DEF refs

\* Where the edge of a reference starts and ends.
LEMMA EndpointEdgeIs ==
    ASSUME Input, NEW i \in DOMAIN endpoints.references
    PROVE  LET r == endpoints.references[i] IN
           /\ G!EndpointEdge(r).from = <<"Service", r.service[1], r.service[2]>>
           /\ G!EndpointEdge(r).to = <<"Pod", r.service[1], r.pod>>
           /\ G!EndpointEdge(r).via = r.confidence
           /\ r.service = <<r.service[1], r.service[2]>>
           /\ r.confidence \in {"observed", "inferred"}
<1> DEFINE r == endpoints.references[i]
           e == G!EndpointEdge(r)
<1>1. /\ e.from = <<"Service", r.service[1], r.service[2]>>
      /\ e.to = <<"Pod", r.service[1], r.pod>> /\ e.via = r.confidence
  BY DEF G!EndpointEdge, G!Edge
<1> HIDE DEF e
<1>2. ObservedIn(r, slices) \/ InferredIn(r, objects) BY EndpointsAre
<1> HIDE DEF r
<1>3. r.confidence \in {"observed", "inferred"} BY <1>2 DEF ObservedIn, InferredIn
<1>4. \E a, b : r.service = <<a, b>>
  <2>1. CASE ObservedIn(r, slices)
    <3>1. PICK s \in G!ToSet(slices) : r.service = G!SliceKey(s) BY <2>1 DEF ObservedIn
    <3>2. QED BY <3>1 DEF G!SliceKey
  <2>2. CASE InferredIn(r, objects)
    <3>1. PICK s \in G!ToSet(objects) : r.service = G!Key(s) BY <2>2 DEF InferredIn
    <3>2. QED BY <3>1 DEF G!Key
  <2>3. QED BY <1>2, <2>1, <2>2
<1>5. r.service = <<r.service[1], r.service[2]>> BY <1>4
<1>6. QED BY <1>1, <1>3, <1>5 DEF r, e

\* The edge of a reference stands for an endpoint; the Pod of one that a selector added is
\* the object that is shown.
LEMMA InferredPod ==
    ASSUME Input, NEW r, InferredIn(r, objects)
    PROVE  \E s \in G!ToSet(objects), i \in DOMAIN objects :
            /\ s.kind = "Service" /\ s.named /\ G!SupportsSelectorInference(s)
            /\ r.service = <<s.ns, s.name>>
            /\ objects[i].kind = "Pod" /\ objects[i].named
            /\ G!Id(objects[i]) = <<"Pod", s.ns, r.pod>>
            /\ G!Original(G!Id(objects[i])) = objects[i]
            /\ G!Matches(s.selector, objects[i].labels)
<1>1. PICK s \in G!ToSet(objects) :
        /\ s.kind = "Service" /\ G!SupportsSelectorInference(s) /\ r.service = G!Key(s)
        /\ \E i \in G!UniqueValidPods(objects) :
            /\ objects[i].ns = s.ns /\ r.pod = objects[i].name
            /\ G!Matches(s.selector, objects[i].labels)
  BY DEF InferredIn
<1>2. PICK i \in G!UniqueValidPods(objects) :
        /\ objects[i].ns = s.ns /\ r.pod = objects[i].name
        /\ G!Matches(s.selector, objects[i].labels)
  BY <1>1
<1>3. /\ i \in DOMAIN objects /\ objects[i].kind = "Pod" /\ objects[i].named
      /\ \A j \in 1..(i - 1) :
            objects[j].kind = "Pod" /\ objects[j].named => G!Key(objects[j]) # G!Key(objects[i])
  BY DEF G!UniqueValidPods
<1>4. G!Id(objects[i]) = <<"Pod", s.ns, r.pod>> BY <1>2, <1>3 DEF G!Id
<1>5. s.named BY <1>1 DEF G!SupportsSelectorInference
<1>6. ASSUME NEW k \in DOMAIN objects, k < i PROVE G!Id(objects[k]) # G!Id(objects[i])
  <2> SUFFICES ASSUME G!Id(objects[k]) = G!Id(objects[i]) PROVE FALSE
    OBVIOUS
  <2>1. G!IsListing(objects) BY DEF Input
  <2>2. k \in Nat /\ i \in Nat /\ k \in 1..Len(objects) /\ Len(objects) \in Nat
    BY <2>1, <1>3, ListedKinds, ListingIs
  <2>3. k \in 1..(i - 1)
    <3> DEFINE size == Len(objects)
    <3>1. k \in 1..size /\ size \in Nat BY <2>2
    <3> HIDE DEF size
    <3>2. QED BY <1>6, <2>2, <3>1
  <2>4. objects[k].named BY <1>3, <2>1, ListedKinds
  <2>5. objects[k].kind = "Pod" /\ G!Key(objects[k]) = G!Key(objects[i])
    BY <1>3 DEF G!Id, G!Key
  <2>6. QED BY <1>3, <2>3, <2>4, <2>5
<1>7. G!Original(G!Id(objects[i])) = objects[i] BY <1>3, <1>6, FirstIsOriginal DEF Input
<1>8. r.service = <<s.ns, s.name>> BY <1>1 DEF G!Key
<1>9. QED BY <1>1, <1>2, <1>3, <1>4, <1>5, <1>7, <1>8

LEMMA EndpointEdgesAre ==
    ASSUME Input, NEW e \in G!EndpointRelations
    PROVE  G!IsEndpoint(e)
<1>1. PICK i \in DOMAIN endpoints.references : e = G!EndpointEdge(endpoints.references[i])
  BY DEF G!EndpointRelations, G!ToSet
<1> DEFINE r == endpoints.references[i]
<1>2. /\ e.from = <<"Service", r.service[1], r.service[2]>>
      /\ e.to = <<"Pod", r.service[1], r.pod>> /\ e.via = r.confidence
      /\ ObservedIn(r, slices) \/ InferredIn(r, objects)
  BY <1>1, EndpointEdgeIs, EndpointsAre
<1> HIDE DEF r
<1>3. CASE ObservedIn(r, slices)
  <2>1. PICK s \in G!ToSet(slices) :
            /\ s.ok /\ r.service = G!SliceKey(s)
            /\ \E p \in G!ToSet(s.endpoints) : p.ok /\ r.pod = p.pod
    BY <1>3 DEF ObservedIn
  <2>2. e.via = "observed" BY <1>2, <1>3 DEF ObservedIn
  <2>3. r.service[1] = s.ns /\ r.service[2] = s.service BY <2>1 DEF G!SliceKey
  <2>4. QED BY <1>2, <2>1, <2>2, <2>3 DEF G!IsEndpoint
<1>4. CASE InferredIn(r, objects)
  <2>1. PICK s \in G!ToSet(objects), k \in DOMAIN objects :
            /\ s.kind = "Service" /\ G!SupportsSelectorInference(s)
            /\ r.service = <<s.ns, s.name>>
            /\ G!Id(objects[k]) = <<"Pod", s.ns, r.pod>>
            /\ G!Original(G!Id(objects[k])) = objects[k]
            /\ G!Matches(s.selector, objects[k].labels)
    BY <1>4, InferredPod
  <2>2. e.via = "inferred" BY <1>2, <1>4 DEF InferredIn
  <2>3. e.from = G!Id(s) /\ e.to = G!Id(objects[k]) BY <1>2, <2>1 DEF G!Id
  <2>4. s \in G!Items /\ G!Matches(s.selector, G!Original(e.to).labels)
    BY <2>1, <2>3 DEF G!Items
  <2>5. QED BY <2>1, <2>2, <2>3, <2>4 DEF G!IsEndpoint
<1>5. QED BY <1>2, <1>3, <1>4

\* Nothing is drawn without a reason.
LEMMA NoneIsMadeUp ==
    ASSUME GraphInv
    PROVE  G!NoPhantoms
<1>1. Input /\ EdgesAre /\ EndsAre BY DEF GraphInv
<1>2. \A e \in edges : G!IsEndpoint(e) \/ \E o \in G!Originals : e \in G!Relations(o)
  BY <1>1, EndpointEdgesAre DEF EdgesAre
<1>3. QED BY <1>1, <1>2 DEF G!NoPhantoms, EndsAre

----------------------------------------------------------------------------
(* The counts of the graph *)

LEMMA SameCardinality == ASSUME NEW S PROVE G!Cardinality(S) = Cardinality(S)
  BY Zenon DEF G!Cardinality, Cardinality

\* No relation of an object looks like an endpoint.
LEMMA RelationsAreNotEndpoints ==
    ASSUME NEW o, G!IsObject(o), NEW e \in G!Relations(o)
    PROVE  e.via \notin {"observed", "inferred"}
<1> DEFINE Other(f) == f.via \notin {"observed", "inferred"}
           pods == {p \in G!Originals : p.kind = "Pod"}
           namespaces == {n \in G!Originals : n.kind = "Namespace"}
<1>1. \A r \in o.refs : r.via \notin {"observed", "inferred"}
  BY DEF G!IsObject, G!Makes, G!PodReferences
<1>2. \A A : \A f \in G!EdgesOf(o, G!Via(o, A)) : Other(f)
  BY <1>1 DEF G!EdgesOf, G!Via, G!Edge
<1>3. \A f \in G!OwnerEdges(o) : Other(f) BY DEF G!OwnerEdges, G!Edge
<1>4. \A f \in G!OwnersOfCustomResource(o) : Other(f)
  <2> TAKE f \in G!OwnersOfCustomResource(o)
  <2>1. \E id : f = G!Edge(id, G!Id(o), "owns") BY Zenon DEF G!OwnersOfCustomResource
  <2>2. QED BY <2>1 DEF G!Edge
<1>5. Other(G!Edge(G!ClusterId, G!Id(o), "owns")) BY DEF G!Edge
<1>6. \A f \in G!PolicyEdges(o, pods, namespaces) : Other(f)
  <2> TAKE f \in G!PolicyEdges(o, pods, namespaces)
  <2>1. CASE \E id : f = G!Edge(G!Id(o), id, "applies-to") BY <2>1 DEF G!Edge
  <2>2. CASE \E peer \in o.peers : f \in G!PeerEdges(o, peer, pods, namespaces)
    <3>1. PICK peer \in o.peers : f \in G!PeerEdges(o, peer, pods, namespaces) BY <2>2
    <3>2. f.via = peer.direction
      <4>1. \E id : f = G!Edge(G!Id(o), id, peer.direction) BY <3>1, Zenon DEF G!PeerEdges
      <4>2. QED BY <4>1 DEF G!Edge
    <3>3. peer.direction \in {"allows-ingress", "allows-egress"} BY <3>1 DEF G!IsObject
    <3>4. QED BY <3>2, <3>3
  <2>3. \/ \E id : f = G!Edge(G!Id(o), id, "applies-to")
        \/ \E peer \in o.peers : f \in G!PeerEdges(o, peer, pods, namespaces)
    <3> HIDE DEF pods, namespaces
    <3>1. QED BY Zenon DEF G!PolicyEdges
  <2>4. QED BY <2>1, <2>2, <2>3
<1>7. \/ e \in G!OwnerEdges(o)
      \/ \E A : e \in G!EdgesOf(o, G!Via(o, A))
      \/ e = G!Edge(G!ClusterId, G!Id(o), "owns")
      \/ e \in G!OwnersOfCustomResource(o)
      \/ e \in G!PolicyEdges(o, pods, namespaces)
  <2> DEFINE all == {"references", "scheduled-on"}
  <2>1. \/ e \in G!OwnerEdges(o)
        \/ e \in G!EdgesOf(o, G!Via(o, all))
        \/ o.spec /\ e \in G!EdgesOf(o, G!Via(o, Checked))
        \/ (o.spec \/ o.kind = "Pod") /\ e \in G!EdgesOf(o, G!Via(o, G!PodReferences))
        \/ o.kind = "Namespace" /\ e = G!Edge(G!ClusterId, G!Id(o), "owns")
        \/ o.kind = "CustomResource" /\ e \in G!OwnersOfCustomResource(o)
        \/ o.kind = "NetworkPolicy" /\ e \in G!PolicyEdges(o, pods, namespaces)
    BY Zenon DEF G!Relations, Checked
  <2> HIDE DEF all, pods, namespaces
  <2>2. QED BY <2>1, Zenon
<1> HIDE DEF pods, namespaces
<1>8. QED BY <1>2, <1>3, <1>4, <1>5, <1>6, <1>7

\* The edges that join a Service to Pods are those of its references.
EndpointsOf(id) == {e \in edges : e.from = id /\ e.via \in {"observed", "inferred"}}
ReferencesTo(key) == {i \in DOMAIN endpoints.references : endpoints.references[i].service = key}

LEMMA ServiceIdIs ==
    ASSUME Input, ResourcesAre, NEW id \in resources, id[1] = "Service"
    PROVE  <<id[2], id[3]>> \in Keys /\ id = <<"Service", id[2], id[3]>>
<1>1. PICK i \in DOMAIN objects : objects[i].named /\ G!Id(objects[i]) = id BY DEF ResourcesAre
<1> DEFINE o == objects[i]
<1>2. id = <<o.kind, o.ns, o.name>> BY <1>1 DEF G!Id
<1>3. o.kind = "Service" /\ o \in G!ToSet(objects) /\ <<id[2], id[3]>> = G!Key(o)
  BY <1>2 DEF G!ToSet, G!Key
<1> HIDE DEF o
<1>4. G!Key(o) \in Keys BY <1>3 DEF Keys, G!EndpointKeys
<1>5. QED BY <1>2, <1>3, <1>4

LEMMA EndpointsOfService ==
    ASSUME Input, EdgesAre, NEW id, id = <<"Service", id[2], id[3]>>, NEW e \in EndpointsOf(id)
    PROVE  \E i \in ReferencesTo(<<id[2], id[3]>>) : e = G!EndpointEdge(endpoints.references[i])
<1>1. e \in edges /\ e.from = id /\ e.via \in {"observed", "inferred"} BY DEF EndpointsOf
<1>2. e \in G!EndpointRelations
  <2>1. ASSUME NEW o \in G!Originals, e \in G!Relations(o) PROVE FALSE
    <3>1. G!IsObject(o) BY OriginalsAre DEF Input
    <3>2. QED BY <1>1, <2>1, <3>1, RelationsAreNotEndpoints
  <2>2. QED BY <1>1, <2>1 DEF EdgesAre
<1>3. PICK i \in DOMAIN endpoints.references : e = G!EndpointEdge(endpoints.references[i])
  BY <1>2 DEF G!EndpointRelations, G!ToSet
<1> DEFINE r == endpoints.references[i]
<1>4. e.from = <<"Service", r.service[1], r.service[2]>> /\ r.service = <<r.service[1], r.service[2]>>
  BY <1>3, EndpointEdgeIs
<1> HIDE DEF r
<1>5. r.service[1] = id[2] /\ r.service[2] = id[3]
  <2>1. <<"Service", r.service[1], r.service[2]>> = <<"Service", id[2], id[3]>> BY <1>1, <1>4
  <2>2. QED BY <2>1
<1>6. r.service = <<id[2], id[3]>> BY <1>4, <1>5
<1>7. QED BY <1>3, <1>6 DEF ReferencesTo, r

\* Of a kind, the ids of the nodes; and the summary they make.
NodesOf(kind) == {id \in resources : id[1] = kind}

Counts ==
    [namespaces |-> Cardinality(NodesOf("Namespace")),
     nodeTotal |-> Cardinality(NodesOf("Node")),
     nodeReady |-> Cardinality({id \in NodesOf("Node") : shown[id].ok /\ shown[id].ready}),
     podRunning |-> Cardinality({id \in NodesOf("Pod") : shown[id].ok /\ shown[id].running}),
     podWarning |-> Cardinality({id \in NodesOf("Pod") : ~shown[id].ready})]

LEMMA CountsMatch ==
    ASSUME GraphInv
    PROVE  G!CountsMatchTheGraph
<1> SUFFICES ASSUME todo = {}
             PROVE  /\ summary = Counts
                    /\ \A id \in NodesOf("Service") :
                        /\ endpoints.observed[<<id[2], id[3]>>].total = 0 =>
                            endpoints.counts[<<id[2], id[3]>>].total = Cardinality(EndpointsOf(id))
                        /\ \A e, f \in EndpointsOf(id) : e.to = f.to => e = f
  BY SameCardinality, Zenon DEF G!CountsMatchTheGraph, G!Done, Counts, NodesOf, EndpointsOf
<1>1. /\ Input /\ G!IsListing(objects) /\ ResourcesAre /\ NodesAre /\ EdgesAre
      /\ EndpointsDrawn /\ SummaryIs
  BY DEF GraphInv, Input
<1>2. AllPassed BY <1>1, ListedKinds DEF AllPassed, Passed
<1>3. ASSUME NEW id \in NodesOf("Service")
      PROVE  /\ endpoints.observed[<<id[2], id[3]>>].total = 0 =>
                    endpoints.counts[<<id[2], id[3]>>].total = Cardinality(EndpointsOf(id))
             /\ \A e, f \in EndpointsOf(id) : e.to = f.to => e = f
  <2> DEFINE refs == endpoints.references
             key == <<id[2], id[3]>>
             edge == [i \in ReferencesTo(key) |-> G!EndpointEdge(refs[i])]
  <2>1. id \in resources /\ key \in Keys /\ id = <<"Service", id[2], id[3]>>
    BY <1>1, ServiceIdIs DEF NodesOf
  <2>2. ASSUME NEW i \in ReferencesTo(key)
        PROVE  /\ i \in DOMAIN refs /\ refs[i].service = key
               /\ G!EndpointEdge(refs[i]).from = id
               /\ G!EndpointEdge(refs[i]).to = <<"Pod", id[2], refs[i].pod>>
               /\ G!EndpointEdge(refs[i]).via \in {"observed", "inferred"}
    <3>1. i \in DOMAIN refs /\ refs[i].service = key BY DEF ReferencesTo
    <3>2. /\ G!EndpointEdge(refs[i]).from = <<"Service", refs[i].service[1], refs[i].service[2]>>
          /\ G!EndpointEdge(refs[i]).to = <<"Pod", refs[i].service[1], refs[i].pod>>
          /\ G!EndpointEdge(refs[i]).via \in {"observed", "inferred"}
      BY <1>1, <3>1, EndpointEdgeIs
    <3>3. refs[i].service[1] = id[2] /\ refs[i].service[2] = id[3] BY <3>1
    <3>4. QED BY <2>1, <3>1, <3>2, <3>3
  <2>3. ASSUME NEW i \in ReferencesTo(key), NEW j \in ReferencesTo(key),
               G!EndpointEdge(refs[i]).to = G!EndpointEdge(refs[j]).to
        PROVE  i = j
    <3>1. /\ i \in DOMAIN refs /\ j \in DOMAIN refs /\ refs[i].service = refs[j].service
          /\ <<"Pod", id[2], refs[i].pod>> = <<"Pod", id[2], refs[j].pod>>
      BY <2>2, <2>3
    <3>2. refs[i].pod = refs[j].pod BY <3>1
    <3>3. OncePerPod(refs) BY <1>1, EndpointsAre
    <3>4. QED BY <3>1, <3>2, <3>3 DEF OncePerPod
  <2>4. ASSUME NEW e \in EndpointsOf(id)
        PROVE  \E i \in ReferencesTo(key) : e = G!EndpointEdge(refs[i])
    BY <1>1, <2>1, EndpointsOfService
  <2>5. \A e, f \in EndpointsOf(id) : e.to = f.to => e = f BY <2>3, <2>4
  <2>6. ASSUME endpoints.observed[key].total = 0
        PROVE  endpoints.counts[key].total = Cardinality(EndpointsOf(id))
    <3>1. /\ \A i \in DOMAIN refs : refs[i].service = key => InferredIn(refs[i], objects)
          /\ endpoints.counts[key].total = Cardinality(ReferencesTo(key))
          /\ IsList(refs)
      BY <1>1, <2>1, <2>6, EndpointsAre DEF ReferencesTo
    <3>2. ASSUME NEW i \in ReferencesTo(key) PROVE G!EndpointEdge(refs[i]) \in EndpointsOf(id)
      <4>1. InferredIn(refs[i], objects) /\ refs[i].service = key BY <2>2, <3>1
      <4>2. PICK s \in G!ToSet(objects), k \in DOMAIN objects :
                /\ refs[i].service = <<s.ns, s.name>> /\ objects[k].named
                /\ G!Id(objects[k]) = <<"Pod", s.ns, refs[i].pod>>
        BY <1>1, <4>1, InferredPod
      <4>3. s.ns = id[2] BY <4>1, <4>2
      <4>4. G!Id(objects[k]) \in resources BY <1>1, <1>2, <4>2 DEF ResourcesAre, AllPassed
      <4>5. G!EndpointEdge(refs[i]).to = G!Id(objects[k]) BY <2>2, <4>2, <4>3
      <4>6. G!EndpointEdge(refs[i]) \in G!EndpointRelations
        BY <2>2 DEF G!EndpointRelations, G!ToSet
      <4>7. G!EndpointEdge(refs[i]) \in G!Drawable(G!EndpointRelations, Nodes)
        BY <2>1, <2>2, <4>4, <4>5, <4>6 DEF G!Drawable, Nodes
      <4>8. G!EndpointEdge(refs[i]) \in edges BY <1>1, <4>7 DEF EndpointsDrawn
      <4>9. QED BY <2>2, <4>8 DEF EndpointsOf
    <3>3. edge \in Bijection(ReferencesTo(key), EndpointsOf(id))
      <4>1. edge \in [ReferencesTo(key) -> EndpointsOf(id)] BY <3>2
      <4>2. \A i, j \in ReferencesTo(key) : edge[i] = edge[j] => i = j BY <2>3
      <4>3. \A e \in EndpointsOf(id) : \E i \in ReferencesTo(key) : edge[i] = e BY <2>4
      <4> HIDE DEF edge, key
      <4>4. QED BY <4>1, <4>2, <4>3, Fun_IsBij
    <3>4. IsFiniteSet(ReferencesTo(key))
      <4>1. DOMAIN refs = 1..Len(refs) /\ Len(refs) \in Nat BY <3>1, ListDomain
      <4>2. IsFiniteSet(DOMAIN refs)
        <5> DEFINE size == Len(refs)
        <5>1. 1 \in Int /\ size \in Int BY <4>1
        <5> HIDE DEF size
        <5>2. IsFiniteSet(1..size) BY <5>1, FS_Interval
        <5>3. QED BY <4>1, <5>2 DEF size
      <4>3. ReferencesTo(key) \subseteq DOMAIN refs BY DEF ReferencesTo
      <4>4. QED BY <4>2, <4>3, FS_Subset
    <3>5. ExistsBijection(ReferencesTo(key), EndpointsOf(id)) BY <3>3 DEF ExistsBijection
    <3>6. Cardinality(EndpointsOf(id)) = Cardinality(ReferencesTo(key))
      BY <3>4, <3>5, FS_Bijection
    <3>7. QED BY <3>1, <3>6
  <2>7. QED BY <2>5, <2>6
<1>4. summary = Counts
  <2>1. ASSUME NEW id \in resources
        PROVE  shown[id] = G!Original(id) /\ G!Original(id).kind = id[1]
    <3>1. shown[id] = G!Original(id) BY <1>1 DEF NodesAre
    <3>2. G!Id(G!Original(id)) = id BY <1>1, <1>2, ResourcesAtTheEnd
    <3>3. QED BY <3>1, <3>2 DEF G!Id
  <2>2. Counted("namespaces") = NodesOf("Namespace")
    BY <2>1 DEF Counted, NodesOf, G!AddsTo
  <2>3. Counted("nodeTotal") = NodesOf("Node")
    BY <2>1 DEF Counted, NodesOf, G!AddsTo
  <2>4. Counted("nodeReady") = {id \in NodesOf("Node") : shown[id].ok /\ shown[id].ready}
    BY <2>1 DEF Counted, NodesOf, G!AddsTo
  <2>5. Counted("podRunning") = {id \in NodesOf("Pod") : shown[id].ok /\ shown[id].running}
    BY <2>1 DEF Counted, NodesOf, G!AddsTo
  <2>6. Counted("podWarning") = {id \in NodesOf("Pod") : ~shown[id].ready}
    BY <2>1 DEF Counted, NodesOf, G!AddsTo
  <2>7. summary = [c \in G!Counters |-> Cardinality(Counted(c))] BY <1>1 DEF SummaryIs
  <2>8. QED BY <2>2, <2>3, <2>4, <2>5, <2>6, <2>7 DEF Counts, G!Counters
<1>5. QED BY <1>3, <1>4

----------------------------------------------------------------------------
(* All three *)

PipelineInv ==
    /\ part \in {"list", "collection", "graph"}
    /\ part = "list" => ListInv
    /\ part = "collection" => CollectionInv
    /\ part = "graph" => GraphInv

\* The three keep their invariant: what a request under way may still do to a list, what each
\* task of a snapshot has left behind for the diagnostics, and what the loops that are over
\* have made of the objects they read.
THEOREM Inductive == PipelineSpec => []PipelineInv
<1>1. PipelineInit => PipelineInv
  BY ListInitInv, CollectionInitInv, GraphStarts DEF PipelineInit, PipelineInv
<1>2. PipelineInv /\ [PipelineNext]_pipeline => PipelineInv'
  <2> SUFFICES ASSUME PipelineInv, [PipelineNext]_pipeline PROVE PipelineInv'
    OBVIOUS
  <2>1. CASE ListStep BY <2>1, ListStepInv DEF PipelineInv, ListStep
  <2>2. CASE CollectionStep(Next) BY <2>2, CollectionStepInv DEF PipelineInv, CollectionStep
  <2>3. CASE GraphStep BY <2>3, GraphGoesOn DEF PipelineInv, GraphStep
  <2>4. CASE UNCHANGED pipeline
    BY <2>4, ListStutterInv, CollectionStutterInv, GraphStays DEF PipelineInv, pipeline
  <2>5. QED BY <2>1, <2>2, <2>3, <2>4 DEF PipelineNext
<1>3. QED BY <1>1, <1>2, PTL DEF PipelineSpec

\* A list reaches its caller complete and in order, or not at all.
THEOREM ListsAreWhole == PipelineSpec => []AllOrNothing
<1>1. PipelineInv => AllOrNothing
  BY DEF PipelineInv, AllOrNothing, ListInv, TurnsOK, HonestOK, L!AllOrNothing
<1>2. QED BY <1>1, Inductive, PTL

\* A snapshot says of every list that could not be read that it is missing, and how many of
\* the custom resources; it is silent on what the API server refused and on definitions
\* without a valid path, and on nothing else.
THEOREM FailuresAreReported == PipelineSpec => []OnlyRefusalsAreSilent
<1>1. PipelineInv => OnlyRefusalsAreSilent
  BY DEF PipelineInv, OnlyRefusalsAreSilent, CollectionInv, ReportsOK
<1>2. QED BY <1>1, Inductive, PTL

\* Pages, items, bytes and concurrent requests stay within their limits, whatever a server
\* sends, and no continue token is sent twice.
THEOREM LimitsAreKept == PipelineSpec => []LimitsHold
<1>1. ListInv => L!WithinLimits /\ L!NoTokenSentTwice
  <2> SUFFICES ASSUME ListInv PROVE L!WithinLimits /\ L!NoTokenSentTwice
    OBVIOUS
  <2>1. Len(<<>>) = 0 BY EmptySeq
  <2>2. count <= MaxItems /\ totalBytes <= MaxTotalBytes
    BY Limits DEF ListInv, ListTypeOK
  <2>3. Len(items) <= MaxPages /\ Len(requested) <= MaxPages /\ Len(out) <= MaxPages
    BY <2>1, Limits DEF ListInv, TurnsOK
  <2>4. result = "found" => out = items BY DEF ListInv, TurnsOK
  <2>5. L!NoTokenSentTwice BY DEF ListInv, TokensOK
  <2>6. QED BY <2>2, <2>3, <2>4, <2>5 DEF L!WithinLimits
<1>2. PipelineInv => LimitsHold
  BY <1>1 DEF PipelineInv, LimitsHold, CollectionInv
<1>3. QED BY <1>2, Inductive, PTL

\* However many objects and EndpointSlices a cluster lists, and in whatever order: each object
\* is the one its node shows, or its kind has a diagnostic; the summary counts the nodes; and a
\* Service without observed endpoints counts the Pods it is joined to, each once.
THEOREM NoObjectDisappears == PipelineSpec => []EveryObjectIsAccountedFor
<1>1. PipelineInv => EveryObjectIsAccountedFor
  BY ShownAtTheEnd, CountsMatch DEF PipelineInv, EveryObjectIsAccountedFor
<1>2. QED BY <1>1, Inductive, PTL

\* No relation between two listed objects is missing, and no edge is there but a relation of an
\* object that is shown, an endpoint of a slice or a Pod that a selector matches.
THEOREM RelationsAreTheEdges == PipelineSpec => []TheRelationsAreDrawn
<1>1. PipelineInv => TheRelationsAreDrawn
  BY NoneIsLost, NoneIsMadeUp DEF PipelineInv, TheRelationsAreDrawn
<1>2. QED BY <1>1, Inductive, PTL
=============================================================================
