# Verification of kuviewer

kuviewer is a read-only viewer of Kubernetes clusters: a Go server that reads a
cluster and serves its topology, a React application that draws it and explores
its resources, and a Tauri desktop shell that reaches private clusters through
SSH. This directory holds TLA+ models of the parts where the order of steps, a
failure half way, a limit or two implementations of one rule decide whether the
answer is right; the TLC runs that check them; and TLAPS proofs of what matters
most. `PROJECT.json` maps every definition to the lines it models and lists runs,
mutants (a plausible bug per property that TLC must catch), findings, hazards and
theorems.

Paths below are relative to `src/`; `provider/`, `httpapi/` stand for
`server/internal/provider/`, `server/internal/httpapi/`, and `features/`,
`components/`, `app/` for the directories of `website/src/`.

## 1. Inventory

| Component | State it keeps | What is hard, and what makes it correct |
|---|---|---|
| Server snapshot cache (`httpapi/snapshot_cache.go`) | one snapshot, its time, the load in flight | Overlapping hits, joined and forced loads; a failing, slow or panicking provider; clients that leave. One load at a time, no stale answer, no going back in time, nobody waits for ever. |
| Snapshot collection (`provider/kubernetes.go`, `kubernetes_snapshot_collection.go`) | lists and errors of one call | The context ends in the middle; lists fail separately. A list is missing without a diagnostic only where the API server refused it or its definition is skipped; bounded concurrency, it returns. |
| Kubernetes lists (`provider/kubernetes_pagination.go`) | pages read, tokens seen | A page fails late; tokens repeat; limits. All of a list or nothing. |
| Topology graph (`provider/kubernetes_snapshot_assembly.go`, `kubernetes_graph.go`, `kubernetes_references.go`) | nodes, edges, claims, issue counters | An edge needs both nodes at that moment; duplicates; placeholders; budgets. Everything is shown or counted, nothing is invented or depends on an order. |
| Upload parser (`features/upload`) | the graph under construction, warnings | The same graph a second time, from files in any order, with archives and Lists, guessed references and label selectors. |
| Validators of manifests (`features/upload/*Schema.ts`, `provider/kubernetes_*.go`) | none | One rule written by hand in two languages. Both readers accept the same and draw the same. |
| Team view store (`httpapi/resource_views.go`) | the views, in memory or in a file | Concurrent PUTs, every file operation can fail, a crash between two. A register. |
| Team views in the browser (`features/resources/useResourceViewPresetsController.ts`) | local views, previews, conflicts | State captured before an `await` is used after it; two-press operations; merges at the limit. |
| Resource filters, rows and selection (`components/ResourceExplorer.tsx`, `features/resources`, `app/App.tsx`) | filters, rows, two selections, the address, its history | Effects of two components that answer each other; Back, reload and a changed source. |
| Resource list requests (`features/resources/useResourceListController.ts`, `httpapi/resource_list.go`) | rows, cursor, spinners, requests | Late answers, aborts, effects after render, offsets into a list that changes. |
| Detail panel, events and logs (`components/resourceExplorer`) | sections, focus, searches, events with their marks, lines, streams | The selection changes with requests and streams under way; refreshes that shorten what is searched. |
| Browser shell and topology hook (`app/App.tsx`, `features/topology`, `features/status`, `features/auth`) | source, view, token, address, snapshot, snapshot history | A lock, a 401, a source change or a refresh while the server answers; handlers that end after an `await`. |
| Snapshot comparison (`features/snapshot`) | two snapshots, filters, reports | Filters that outlive what they filter; an export that its own import refuses; values that must not be told. |
| Desktop sessions and runtime (`desktop/src-tauri/src/main.rs`, `features/desktop`, `components/DesktopCmSessionPanel.tsx`) | sessions, one tunnel, credentials; the browser's copies | Several commands under way, steps that fail half way, a process that ends by itself. |
| Desktop session layouts (`features/desktop/*Layout*`, `components/desktopCm`) | presets in folders, what refers to them | A bounded list that is edited, imported into and reordered while things refer to its members. |
| Desktop session view (`components/DesktopCmSessionPanel.tsx`, `features/desktop/desktopCmSessionView.ts`) | groups, favourites, filters, the form, ticks, an import under way | The list changes by loads, answers and deletions while a form, a save and an import refer to its members. Nothing refers to what is gone, a save touches one session. |
| Topology map and request paths (`components/topology`, `components/TrafficFlowView.tsx`) | filters, two toggles, dragged places in the browser's storage | Places are counted on from the boxes before, which dragged nodes stretch; a storage key of all node ids. Nothing overlaps, a dragged node keeps its place, every Service is on a path. |
| Saved view collection (`components/resourceExplorer/ResourceViewPresetCollection.tsx`) | form, folders, search, selection, the list | One numbering of orders over all folders, counted anew by each operation. What an operation is not about stays where it is. |
| Events and capabilities on the server, server shell, import of a topology, rendering, summaries, scripts | configuration, nothing | Single requests, one pure validation, routing, drawing, formatting: no order to get wrong. |

How they interact: a handler asks the **cache**, which calls the **collection**,
which reads every **list** and hands the lists to the **graph**. Resource pages,
logs and events are served next to that snapshot. In the browser the **shell**
owns the source, asks for the snapshot and gives it to the **map**; the **explorer** and the shell hand
each other the filters and the selection through effects, and the explorer's
panels ask for their own parts; **team views** go to the **view store**; an
**upload** replaces the server as a source; the comparison gets two snapshots
from the shell's history. The desktop shell runs the tunnel and the same page.

## 2. Modules

| Module | Models | Kind |
|---|---|---|
| `SnapshotService` | what a handler may rely on: a call is answered once, with a snapshot as new as promised, or an error | abstract specification |
| `SnapshotCache`, `SnapshotCacheProofs` | `snapshotCache.get`, one action per critical section, channel wait and provider step; theorems | implements `SnapshotService`; TLAPS |
| `KubeList` | one paginated list and the gateway fallback | state machine |
| `SnapshotCollection` | `Snapshot()`: the caller, a goroutine per list, semaphore, context | concurrent |
| `ServiceEndpoints`, `SnapshotGraph` | EndpointSlice analysis (recursive functions); `buildKubernetesSnapshot`, one step per loop iteration | sequential |
| `TopologyCanvas`, `TrafficFlow` | the map: filters, display graph, layout, dragged places, both renderers; the request paths | state machine, functions |
| `Upload`, `ManifestReferences`, `ManifestCatalogue` | the upload parser, object by object; label selectors and guessed references; the files it is checked on | sequential, functions |
| `UploadVerdicts`, `LiveVerdicts`, `Manifests`, `ManifestCatalogue` | what each reader says of one manifest; the manifest edited field by field; the fields' values | functions, state machine |
| `ViewRegister` | a register that is read and written atomically, durable or not | abstract specification |
| `ViewStore` | sanitizing; the handler over both stores, one action per file operation | implements `ViewRegister` |
| `SavedViews`, `TeamViews`, `ViewCollection` | the operations on lists of views; the panel with its requests, imports and remounts; the collection with its form, folders, search, drags and bulk operations | functions, asynchronous, state machine |
| `ResourceExplorer` | filters, rows, selections, address and history with React's effects | asynchronous, liveness |
| `ResourceListRequests` | the list's effect and callbacks, coordinator, pages and cursors | asynchronous |
| `ResourceDetail`, `ResourceEvents`, `LogView`, `PodLogs` | sections, relations and Safe Preview; events; the view of log lines; fetches and streams | asynchronous |
| `Dashboard` | the app shell with the topology, status and capability hooks | asynchronous |
| `SnapshotComparison` | differences, filters, export and import of a report | asynchronous |
| `DesktopSessions` | the Tauri commands with their faults, the tunnel, the browser's copies | concurrent |
| `DesktopLayouts`, `SessionView` | the saved layouts with every handler of their panel; the panel's groups, filters, form, ticks and imports | asynchronous |
| `PipelineProofs`, `ViewsProofs`, `ResourceExplorerProofs`, `DetailPanelProofs`, `ShellProofs`, `DesktopProofs`, `DesktopViewProofs` | theorems about `MCPipeline`, `MCViews`, `ResourceExplorer`, `MCDetailPanel`, `MCShell`, `MCDesktop` (section 4) | TLAPS |
| `MC*` | values for the constants; `MCPipeline`, `MCTopology`, `MCViews`, `MCDetailPanel`, `MCShell` and `MCDesktop` put components side by side | instances |

How state and actions correspond to the code, where it is not one handler per action
with the state hooks as variables:

* **SnapshotCache.** `snapshot`, `cachedAt`, `hasValue`, `inFlight` are the struct's
  fields, `load[r]` the `snapshotLoad` that request r leads, `pc[r]` where r is in `get`.
  The clock is read (`Arrive`) before the lock is taken (`Hit`, `Join`, `Lead`), the load
  runs outside of it (`Collect`, `Publish`, `FailLoad`). `Panic` unwinds `get` without
  its last critical section, as there is no `defer`. `served` and `floor` are history.
* **KubeList.** A list is the sequence of pages it was put together from, so order,
  omission and mixed versions are visible. The server is honest or hands out any token.
* **SnapshotGraph, Upload.** One step is one iteration of one loop, in the order of the
  code. What validators say of an object is data of the object; `Manifests` models them. In
  `SnapshotGraph` what is left to do is a set of jobs, a loop and the place of an object, and
  `Current` is the first of them: all loops over nodes come before those over edges. `summary`
  has the five counters of the cluster summary, `issues` a bounded counter per kind.
* **Manifests.** A step edits one field of one manifest; the two verdicts are operators of
  it. The known differences of the readers are named conditions in the module.
* **TopologyCanvas.** A layout is a function of the graph on the map and of the places kept;
  every change of filters, toggles or snapshot computes it anew, as the code's `useMemo` does,
  and runs the effect that reads the storage of the new key. A drag is its end
  (`onNodeDragStop`). Names are numbers, ordered as the names are.
* **ViewCollection.** A step is one press, drop or input of the reader. `SetViewPresets` is
  the setter with the effect that follows it; `acted` is history. `filters` is what the
  explorer filters by, which applying a view changes.
* **ViewStore.** `pc[c]` follows a request through mutex, mkdir, open, write, close and
  rename. `file` and `tmp` survive a `Restart`, memory does not.
* **ResourceExplorer.** An effect is due when one of its dependencies changed. `Flush` runs
  all that are due, a child's before its parent's, with the values of one render; what
  they set makes others due. User events come between flushes.
* **ResourceListRequests.** A render changes what the user sees at once; its effect runs
  some steps later, and answers may come between.
* **Dashboard.** What a handler does after an `await` is a job that keeps the values its
  closure saw. Aborting a fetch is forgetting its request.
* **DesktopSessions.** A command runs on the main thread from start to end: `Serve` is one
  step with an outcome per fault. The answer (`Deliver`) changes the copies with what the
  caller's closure saw. The loops over an import and a bulk deletion go on in `Deliver`.
* **SessionView.** Whatever happens to the sessions (`Controller`) happens between two presses.
  `SaveReturns` and `ImportReturns` are what handlers do after an `await`: a save clears whatever
  form is open by then, an import goes on with the endpoints of the render it was started in, so
  that one started before the list is there takes them all as new.

The browser modules share one assumption: a callback of JavaScript runs to its end, and
React has rendered before the next user event.

**Side by side.** Where an `MC` module holds several components, a behaviour is one
component's (variable `part`), and what belongs to the others is idle. That is the
program's own structure: they share a selection, a snapshot or nothing, and none reads what
another one of them changes. Where one really uses another, the modules do: the graph
`ServiceEndpoints`, the map `TrafficFlow`, the panel and the collection of views
`SavedViews`, the upload `ManifestReferences`, the collection of a snapshot takes from a list what
`AllOrNothing` promises, and the team in `TeamViews` is the register that
`ImplementsRegister` shows the store to be.

## 3. Runs: what they check, bounds

Eight runs pass; four show a disagreement of the code with what the repository says
of it (section 5).

| Run | Properties | Bounds and why they are enough |
|---|---|---|
| `SnapshotCache` | `SingleFlight`, `CacheNeverRegresses`, `ImplementsService`, `EveryCallReturns` | 3 requests (one leads, one joins, one comes later), 3 clock values, TTL off, default or 2 (a hit, an expiry and a boundary). |
| `Pipeline` | `AllOrNothing`, `OnlyRefusalsAreSilent`, `LimitsHold`, `EveryObjectIsAccountedFor`, `TheRelationsAreDrawn`, `CallsEnd` | collections of up to 4 pages against a limit of 3, items and bytes on both sides of each limit, 2 API versions; 3 optional lists and 3 CRDs, one of them skipped, on 2 slots (one must wait) and with a concurrency of 0, any list failing or refused with a 404 or a 403. Graph: every listing of at most 3 objects of a catalogue with each kind, its invalid forms and duplicates (a relation has two ends; a duplicate or a namespace is the third), with 4 lists of EndpointSlices on both sides of each bound. |
| `Topology` | `UploadsAreWhole`, `ReadersAgree`, `TheMapIsReadable`, `EveryPathIsShown`, `PlacesAreKept` | every upload order of at most 3 objects of a catalogue, in files, Lists and archives; every schema's manifest with up to 4 fields edited over values on both sides of each guard. Map: 6 snapshots (a shop with all or all but one of 3 optional edges, a batch cluster without traffic, two clusters that share a namespace's name), 3 filter settings, 2 drags to negative and far places, both toggles and renderers, a storage that is empty or partly damaged. |
| `Views` | `ImplementsRegister`, `SavesDoNotMix`, `OneViewPerName`, `NothingWithoutConsent`, `MergesKeepTheirPromise`, `OthersStayPut` | store: 3 calls, 1 restart, a clock that can go back, files missing, malformed or edited by hand; panel: lists of 2 against a full one, 2 team calls or imports, 2 mounts; collection: 3 operations (choose two and move them; choose, ask, delete; type a name and save at the limit) on 4 lists of at most 3 views, which is the limit, in 2 folders, with every set of folded folders. |
| `ResourceExplorer` | `FiltersAgree`, `ChecksAreOnScreen`, `SelectionSettles` | 4 resources of which 3 topologies have some, 2 queries, 3 user events: a choice, a move in the history and a change of source. |
| `DetailPanel` | `OneStream`, `AnswersMatchTheSelection`, `SpinnersHaveRequests`, `ListsAreWholeAndInOrder`, `NewWarningsAreMarked`, `ReaderStateIsTheResources` | 2 resources for each panel, 2 or 3 requests (an answer of before, of now and a page can overlap), 2 streams of more lines than are kept, relations and entries around their cut-off, events whose timestamps are in another order as texts than as times. |
| `Shell` | `ShownIsOfTheSource`, `LockEndsTheSession`, `AddressFollowsTheScreen`, `CapturesKeepTheSelection`, `ChangesAreComplete`, `ReportsImport` | 3 user events with 2 handlers under way, 2 tokens, 3 kept snapshots; pairs of snapshots that differ in each field; reports on both sides of each limit of an import (changes, bytes, relation types, length of a text). |
| `Desktop` | `SessionsAreTrue`, `NothingStaleNothingLost`, `BulkDeletesAreAnnounced`, `MovesKeepTheRest` | 2 saved sessions and a new one, 3 presses with 2 commands under way and a fault in any; a full list of 3 layouts in 2 folders, 3 edits, an import of up to 4 items; the view of 2 sessions and 2 ids more, 3 presses, at most 2 saved filters, an import of up to 3 of 6 items (a known endpoint, a malformed one, one twice, one beyond the limit). |
| `SnapshotCache_panic`, `PodLogs_stale`, `ViewStore_readback`, `ResourceList_gap` | `PanicIsContained`, `LinesMatchSelection`, `SavedViewsReadBack`, `PagesAreContiguous` | 2 requests; the logs' bounds of `DetailPanel`; 2 calls and names that are cut; one content of 3 rows, 1 reload, 2 pages. |

Symmetry is used for calls (`Views`), tokens (`Shell`) and sessions (`Desktop`), in runs
without liveness. `CHECK_DEADLOCK FALSE` is set in every cfg: requests, events and calls of an
instance are used up, or the algorithm has ended.

### What the properties say

* **Cache.** At most one provider load; an answer is never older than one given before its
  request; it respects the TTL, a forced one its request; what is stored never goes back;
  every behaviour is one of `SnapshotService`, and every call returns.
* **Pipeline.** A list in the snapshot is complete; one that failed has a diagnostic with the
  right reason and count, so that one that is missing without any was refused by the API server
  (404 or 403), is of a definition that is skipped, or of definitions that were not listed;
  pages, items, bytes and concurrency are limited; every call ends. In the graph an object is a node or counted as an issue of its kind; the summary counts the nodes,
  and a Service whose endpoints were not observed the Pods it is joined to; a relation between
  two listed, valid objects is drawn whatever the order, and an edge has an object that asked
  for it.
* **Topology.** A document with a kind and a name is a node or warned of; the relations of an
  upload are drawn in every order of files and objects, and none is made up; both readers accept the same manifests, rate and connect them alike but for named differences. On
  the map no two boxes overlap that are not one in the other, every node has one place, in the
  box of its namespace and cluster; what is on screen is what the storage holds for these
  nodes; a change keeps the places of the nodes that stay; every Service has a request path,
  and what is on one is also shown by "traffic only".
* **Views.** A linearizable register, also over failing file operations and a crash; no two
  saves mix; names are unique and the list bounded on both ends; a team save was compared
  and a deletion announced before it happens; a merge does what its preview said. In the
  collection, views that an operation is not about keep folder, filters and relative order; a
  new view comes first; an exported file brings back what it was made of.
* **Explorer.** At rest the filters, the address, the history and the stored order agree, no
  value stays set that is not offered, only rows on the screen are checked; and the two
  selection effects come to rest.
* **Panels.** Events, rows and cursors belong to what is selected now; a spinner has a request
  that puts it down; lists are in the order their code promises (events in that of their
  timestamps' text), nothing twice, nothing out of reach; new warnings are marked; what a reader opened or searched survives a refresh and not a selection; one log
  stream at a time, of the Pod shown.
* **Shell.** The screen shows the chosen source; after a lock nothing of the session is left;
  the address follows the screen; a capture never evicts what is compared; a comparison is
  complete and tells no Secret, and an import refuses its report for its size or a long
  text only.
* **Desktop.** Only the session of the kept tunnel is active, and with no command under way the
  browser's list is the desktop's; the second press deletes what the first announced; layouts
  and the view of sessions: nothing refers to what is gone, an import accounts for every item, a
  move moves one thing, a save or an imported item touches one session.

### Fairness

* `SnapshotCache` (`FairSpec`): weak fairness of each goroutine's own steps. Go runs a
  goroutine that can run, a mutex is not held for ever, and a load ends because
  `loadContext` has 25 s (`FailLoad`). None on arrivals, disconnecting clients or a panic.
* `Pipeline`: weak fairness of the list's next step, of the caller and of each goroutine. A
  request ends because the HTTP client has a timeout. None on the context ending.
* `ResourceExplorer`: weak fairness of `Flush`, as React runs the effects of a render. None
  on user events or answers. `SelectionSettles` leaves out the states in which neither
  side's first choice is known to the other (`Disputed`): there the effects do set the
  selection in turns without end.
* All other specifications claim safety only and have none.

## 4. Proofs

TLAPS checks 46 theorems in 8 modules. A theorem is about the very specification that a run
checks on an instance: the `MC` module with its constants left open.

| Module | Theorem | States | Run |
|---|---|---|---|
| `SnapshotCacheProofs` | `OneLoadAtATime` | `SingleFlight` | `SnapshotCache` |
| | `CacheGrows` | `CacheNeverRegresses` | |
| | `Refinement` | `ImplementsService` | |
| | `ReadsAreMonotone`, `Freshness` | `MonotoneReads`, `AnswersAreFresh` | - |
| | `TypeCorrect`, `WaitersAreReleased` | `TypeOK`, `WaitersHaveALeader` | - |
| `PipelineProofs` | `ListsAreWhole` | `AllOrNothing` | `Pipeline` |
| | `FailuresAreReported` | `OnlyRefusalsAreSilent` | |
| | `LimitsAreKept` | `LimitsHold` | |
| | `NoObjectDisappears` | `EveryObjectIsAccountedFor` | |
| | `RelationsAreTheEdges` | `TheRelationsAreDrawn` | |
| `ViewsProofs` | `SavesStayApart` | `SavesDoNotMix` | `Views` |
| | `TheStoreIsARegister` | `ImplementsRegister` | |
| | `ConsentIsAsked` | `NothingWithoutConsent` | |
| | `NamesAreDifferent` | `OneViewPerName` | |
| | `PromisesAreKept` | `MergesKeepTheirPromise` | |
| | `OthersAreLeftAlone` | `OthersStayPut` | |
| `ResourceExplorerProofs` | `CheckedIsOnScreen` | `ChecksAreOnScreen` | `ResourceExplorer` |
| | `WhatIsFilteredIsAddressed` | `FiltersAgree` | |
| `DetailPanelProofs` | `OneStreamAtATime` (for `Spec` of `PodLogs`) | `OneStream` | `DetailPanel` |
| | `PanelsShowWhatIsSelected` | `AnswersMatchTheSelection` | |
| | `SpinnersComeDown` | `SpinnersHaveRequests` | |
| | `WarningsAreMarked` | `NewWarningsAreMarked` | |
| | `ReaderStateIsKept` | `ReaderStateIsTheResources` | |
| `ShellProofs` | `SourceIsShown` | `ShownIsOfTheSource` | `Shell` |
| | `LockedSessionsEnd` | `LockEndsTheSession` | |
| | `AddressIsWritten` | `AddressFollowsTheScreen` | |
| | `SelectedAreKept` | `CapturesKeepTheSelection` | |
| | `ComparisonsTellAll` | `ChangesAreComplete` | |
| | `ReportsAreAccepted` | `ReportsImport` | |
| `DesktopProofs` | `SessionsStayTrue` | `SessionsAreTrue` | `Desktop` |
| | `DeletesAreAnnounced` | `BulkDeletesAreAnnounced` | |
| `DesktopViewProofs` | `NothingStale` | `NothingStaleNothingLost` | |
| | `MovesAreMoves` | `MovesKeepTheRest` | |

The rest of the 46 are the inductive invariants these rest on (`Inductive`, `StoreInductive`,
`ExplorerInductive`, `PanelInductive`, `ShellInductive`, `SessionsInductive`, `ViewInductive`,
`LayoutsInductive`) and `SavesTouchOneSession`, a part of `MovesAreMoves`. No run
checks `MonotoneReads` and `AnswersAreFresh` again, as `ImplementsService` implies them;
`TypeOK` and `WaitersHaveALeader` are parts of the cache's invariant worth knowing.

### Assumptions

Each is an `ASSUME` in the module that declares the constants, and TLC evaluates it in the runs.

* `CacheAssumption`, `SessionsAssumption`, `DashboardAssumption`, `StoreAssumption`,
  `PresetAssumption`, `LogAssumption`: sets that are finite, names that are not used for
  "nothing", numbers that are numbers.
* `PipelineAssumption`, `CollectionAssumption`: a collection has a page, limits are natural
  numbers, the tasks of the two groups are apart. `GraphAssumption`: the bounds are numbers, a
  listing is a list of objects of the listed kinds whose references are of the sorts that the
  structs of their kind have fields for, and whether a name is valid depends on kind, namespace
  and name only (`validGraphNodeIdentity`); a slicing is a list of lists of endpoints. How many
  objects there are, which are valid, duplicates or labelled alike, is open. `ComparedAssumption`: a snapshot is well
  formed, and a node's id has its kind and its name in it, as the server and the upload make it.
  `PanelAssumption`: a server does not list an object twice, and what it answers on a resource is
  events of that resource.
* `DesktopAssumption`: limits are numbers; what the storage, the desktop and the files hold are
  sequences of records with the fields that are read, and the desktop knows no session twice.
  A transfer is any sequence, as its items are judged when it is read.
* `ViewsAssumption`: bodies are lists, orders are numbers, the first lists of the panel and of the
  collection have each name once, as the code that wrote them left them, the team's lists are
  within its limit, and the limit of the collection is not 0. Of files it asks nothing but that
  they hold views. It also says of the lists that are saved that they are read back as they were.
  `TheStoreIsARegister` is conditional on it: for a list with a name that the cut leaves with a
  blank at its end it is false, and that is what `ViewStore_readback` shows.

### The arguments

* **Cache.** `IInv == TypeOK /\ ValueOrder /\ LoadOrder /\ \A r : CallOrder(r) /\
  AnswerGood(r)`. That an answer is not older than an earlier one needs that nothing newer than
  the stored value was ever served, and that a load that is running will collect no earlier than
  that value. `ValueOrder` relates the stored snapshot, its publication, the clock and what was
  served; `LoadOrder` says that the load in flight is still open, and that what a finished load
  returned is at most as new as what is stored; `CallOrder` relates, per program counter, a
  call's clock reading and floor to the load it runs or waits for. `OtherCalls` is the frame
  lemma for requests that do not move. The refinement maps each action to `Ask`, `Answer` or a
  stutter of `SnapshotService`.
* **Pipeline.** Of a list, `HonestOK` says that the pages read are the first ones of the
  collection and that the token names the next, as long as the server is honest, and `TokensOK`
  that a token was not sent before; "whole" is then what a last page leaves. Of a collection,
  `OutcomesOK` says that a goroutine leaves one of three traces of its list (complete, refused, an
  error), and none only if it gave up after the end of the context, `PhasesOK` that a group starts
  when the one before has finished, and `ReportsOK` what the diagnostics say at each stage;
  without the first, the caller could build a snapshot from a task that never ran.
* **Graph.** `GraphInv` says what the loops that are over have made of the objects they read.
  `InOrder`: what is left to do comes after all that was done, so an object is passed when its
  node loop has been, and the first object with an id is the one that is accepted
  (`AcceptedIsFirst`). `ResourcesAre`, `NodesAre`, `IssuesAre`, `SummaryIs` give nodes, issues and
  counters as functions of the objects passed; `ClaimedAre` the claims; `EdgesAre` and `EndsAre`
  say that no edge or placeholder is made up, and `OwnersDrawn`, `LoopsDrawn`, `EndpointsDrawn`
  that a job that is done has drawn what its object asks for. Every action is one of three shapes
  of a step (`StepsAre`), and the invariant is proved part by part for the three. What the
  EndpointSlices come to is a function of functions that call themselves on n - 1: `EndpointsAre`
  and the lemmas before it prove what they keep for every length, by the least place at which it
  would fail, and `EndpointsOfService` with `FS_Bijection` turns the counts into cardinalities.
* **Store.** `HandlerOK` (who is inside the mutex), `RequestsOK` (what is saved was sanitized),
  `FileOK` (the temporary file is that of the save under way, or of one that a restart cut off).
  `MemoryOK` and `VersionsOK` bound a version by the clock and the calls that took effect, so
  that equal versions mean equal lists; a file has no such order, its clock may go back. The
  steps of the register are the critical sections: a read, a save in memory, a rename, or an error.
* **Team panel.** Consent is two statements about what the reader saw: what would be saved was
  compared with the team's list, and what would be deleted was announced. They hold after an answer because of
  `SpinnerOK`: a request to the team that this mount waits for is the only one, and while it is
  out the spinner is up and nothing is asked to be confirmed. `CallsOK` tells the mounts apart.
* **Lists of views.** `ListsOK` says that every list the panel holds, in its state, in a call or in
  an open conflict, is a list of views with each name once and within the limit, and that a
  comparison or a conflict was made of such lists; a merge is then the one that was previewed.
  `IsCollected` says of the collection that it is such a list and numbered in its order. Sorting has no
  recursion in `SavedViews`: `InOrder` is the order of places that rises with the orders, and at
  most one enumeration of a set of numbers rises, so that two lists which put the same views in
  the same order are equal (`SavedStayInOrder`, `SortedBack`). `ActedInv` says of the last
  operation that the views it was not about stay put (`StaysPut`), operation by operation; the
  list that is cut at its limit loses its last view only (`SavedComesFirst`).
* **Layouts.** `PresetsKept`: the presets are a list with each name once, in runs of one folder,
  and what the interface opened, ticked or drags is in it. `FileKept` and `ConflictsCounted`: an
  item of the file that was read is accepted, dropped or an open conflict. A move takes a part
  out of the list and puts it in elsewhere (`PutTogether`, `InsertPutsIn`, `AllButOne`); what is
  left keeps its order because, again, only one enumeration rises.
* **View of the sessions.** `ViewInv`: what refers to a session refers to a listed one
  (`SessionsListed`), the saved filters are few and different (`FiltersKept`), the items of a
  transfer are counted or still to do (`ImportCounted`), a save has a form it began with
  (`SaveWaits`). Nothing is lost by a save because an upsert keeps places.
* **Logs, events, list.** `StreamsOK`: the open stream is the current one and reads the log of
  the selection; without it the next line could be anybody's. `LinesOK`: both buffers hold lines that
  came by a fetch or are of the selection (`Cap` only drops lines: `CapKeepsElements`).
  `EventMarksOK`: the current request is of the resource shown, and a first one meets an empty
  list. Of the list, `ControllersOK` says that the two controllers are requests under way of
  the current generation, and `RowsOK` that rows and cursor are of the filters shown, unless the
  effect that follows a change of filters is still due.
* **Explorer.** The address agrees with the filters only once the effects have run; `AddressOK`
  says which effect is due as long as they differ, `StoredOK` and `OfferedOK` the same of the
  stored order and the choices. `HistoryOK` says that neighbouring entries of the history are
  of different sources, which is why the guard `applying` of the code never takes effect.
  `ChecksInv` is about the rows alone.
* **Shell.** `ShownFor` says, per values that the topology's effect last ran with, which
  requests may be out and what is on the screen; `SessionOK` that a session that is not
  unlocked has no token and that a connector has state only since its effect last ran in a live
  session. The comparison needs no history: `ComparisonInv` only says that both snapshots
  are well formed and the filters are ones there are, and that nothing is left out is proved
  from the operators, kind by kind.
* **Sessions.** `DesktopOK` is preserved by every sequence of faults inside a command, lemma by
  lemma of its parts. That the two lists agree in the end needs what the answers under way will do:
  `AnswersFollow` says that each makes what the desktop had then of what the one before made,
  `LatestIsTrue` that the next command to be served meets what the last answer will leave.
  `BulkOK`: what will be deleted is within what was announced, until the panel asks again.

### Only model-checked

* Liveness (`EveryCallReturns`, `CallsEnd`, `SelectionSettles`): fairness and `ENABLED` are out
  of the prover's reach.
* `ListsAreWholeAndInOrder`: the rows, events and lines of the panels are put in order by
  operators of the community modules (`SetToSortSeq`, `SelectSeq`, `FlattenSeq`, folds), which are
  recursive functions: what they compute needs induction over data.
* All of `MCTopology` (`UploadsAreWhole`, `ReadersAgree`, `TheMapIsReadable`, `EveryPathIsShown`,
  `PlacesAreKept`): `Upload` and `ManifestReferences` have `RECURSIVE` operators, and the loops of
  the layout and the rules of label selectors are folds.
* The four runs that show a disagreement.

## 5. Findings

1. **A provider panic blocks the cache** (`SnapshotCache_panic`). `get` calls `load` without
   a `defer`; `ServeHTTP` recovers and answers 500, but `inFlight` stays set and its
   channel open: each later miss waits until its client leaves. `httpapi/server_test.go:166`
   shows that panics are meant to be survived.
2. **Saved views may not read back** (`ViewStore_readback`). Names are trimmed, then cut; the
   cut can leave a blank at the end that the next read trims, so that two names become
   one and a view is dropped.
3. **A page of the old list behind the first page of the new** (`ResourceList_gap`). "Load
   more" during a reload keeps the old cursor and survives the reload's answer.
4. **Logs of another Pod** (`PodLogs_stale`). A fetch is not cancelled by a selection and its
   answer not compared with it: the lines are shown, and downloaded, under the wrong name.

Smaller observations, met while modelling and without a run of their own:

* Server: an optional list that answers 403 is treated as one that is not installed, without a
  diagnostic (`provider/kubernetes_client.go:231`), and so is every custom resource if their
  definitions may not be listed; a definition with an invalid path or kind is skipped
  (`provider/kubernetes_custom_resources.go:46`). `docs/NEXT_WORK.md:22` says that items
  that fail are shown as diagnostics; the code does not count these as failures, and
  `OnlyRefusalsAreSilent` says that there are no others. A placeholder that a later loop makes comes too late for the relations to it that
  an earlier loop draws (`provider/kubernetes_graph.go:158`); a Pod or Node that is a duplicate and has an invalid status is counted twice in the
  diagnostics (`provider/kubernetes_snapshot_assembly.go:267`); custom resources of one kind
  and name in two API groups share an id; a PUT of team views ignores the version its
  sender read, and versions can repeat; the file is not synced before the rename; a log stream
  lasts no longer than the client's 15 s timeout (`provider/kubernetes_client.go:142`); of a
  tail larger than 256 KiB the oldest lines are kept (`kubernetes_client.go:276`).
* Upload: objects without a name and Lists of typed kinds such as PodList are dropped without a
  warning (`features/upload/parseKubernetesFiles.ts:103`, `:716`); one broken archive fails all
  files; cluster-scoped owners are never drawn; an upload has no limit of its own, so that what is
  exported of it may be refused by an import, which takes 50,000 nodes and 100,000 edges and no
  blank names (`features/upload/importTopologySnapshot.ts:67`, `:225`).
* Saved views: the button says "update" whenever some view has the filters in use, whatever
  name is typed (`features/resources/useResourceViewPresetsController.ts:132`); the form's
  folder stays when a view is chosen, so that an update moves it (`:118`); a confirmed team
  save replaces what was edited locally while it was under way (`:397`); a drop on the next
  neighbour says that the order changed and leaves it (`:685`); a bulk move does not bring the
  chosen views first (`features/resources/resourceViewPresets.ts:366`), and a move into the
  folder of the first view puts it behind that one; an exported selection that is imported
  again conflicts in its orders.
* Map: when "traffic only" leaves nothing, the toggle that brings the rest back is not
  drawn (`components/topology/DesktopTopologyCanvas.tsx:126`, `:130`).
* Explorer: with a filter bar that hides every row's resource the two selection effects never
  rest; a click on a row hidden by that bar snaps back; Back across sources drops the entry's
  filters when the old list does not offer them; the server's query matches status and labels
  as text and the browser's second filter does not.
* Panels: which events are kept and shown first goes by the text of their timestamps
  (`components/resourceExplorer/useResourceEventsController.ts:102`), other parts of the panel by the
  time they mean; the server sends both seconds and fractions, and `...:05Z` is after
  `...:05.5Z` as a text. A pin is lost when a refresh shifts its event; lines kept back while a stream is
  paused are dropped when it ends; the number of focus requests outlives the panel, so that it
  may take the focus from the reader; a raw timestamp is found by the log search and not
  highlighted.
* Comparison: an export has none of the limits of an import. More than 5000 changes, a file over
  2,000,000 bytes (some 3500 relations), more than 100 relation types and over-long texts, such
  as a name of a missing node (its id), are exported and refused when they are imported
  (`features/snapshot/importSnapshotDiff.ts:39`, `:67`, `:92`, `:222`).
* Desktop: what the browser calls the running runtime may not be the one kept until the next
  check (`features/desktop/useDesktopCmSessionController.ts:119`); a key file stays when no
  local port is found (`main.rs:569`); with a full list of layouts "rename and keep both"
  pushes out the last one (`features/desktop/useDesktopCmSessionLayouts.ts:611`).

## 6. Limits of the models

* `SnapshotGraph`: a relation to a placeholder that a later loop makes can be missing, the
  code does not promise it. Labels, annotations and the caps on diagnostics are left out.
* `Upload`: an alias inside itself, YAML and zip syntax and the summaries of objects are left
  out. Documents without a kind or a name are in it, and the properties say nothing of them, as
  the code drops them. `Manifests`: the grammars of single texts (names, quantities, addresses) are good or
  bad; the differences that are excluded (`Explicit`, `WithinBoth`, `RatedAlike`) are of
  manifests that a cluster completes or that only one reader rates.
* `KubeList`, `SnapshotCollection`: JSON, TLS and URLs are left out; a panic in a fetch ends the
  process. Which definitions are skipped is a constant.
* `ViewStore`: group and filters are one value; a restart is the end of the process, not a
  power failure.
* `TeamViews`: drafts and messages are left out; folders and files of views are
  `ViewCollection`'s, which has no team and no requests.
* `TopologyCanvas`: the camera, gestures, colours and sizes of texts are left out; the effect
  that reads the storage of a new key runs with the change that causes it.
* `ResourceExplorer`: the cluster filter (it behaves as kind does), the 160-character cut of a
  query and the list's requests (a module of their own) are left out.
* `ResourceDetail`: of an entry only the number of matches is kept, not its text.
  `ResourceEvents`: an event has a timestamp's text and its time, which agree or not; the text
  filter and the export are left out. `LogView`, `PodLogs`: a time
  range is a number and is not evaluated again as time passes.
* `Dashboard`: names, themes and messages are left out; timers have no clock and may fire at
  any moment. `SnapshotComparison`: the order of a list of changes, CSV and comparing two
  imported reports are left out, and so are two report files read at a time. Of a report the
  size and the texts that are too long are constants; labels, times and the bounds of counts
  are left out.
* `DesktopSessions`: names, endpoints, diagnostics, groups and filters are left out; a missing
  local port is one of the process's faults. Picks of a bulk deletion are the selected session or
  all (a bound). `DesktopLayouts`: names are compared up to case and blanks, exports only read.

Not modelled, with the reason in `PROJECT.json`: events and capabilities on the server, the
server shell, the import of an exported topology, rendering, summaries of resources, report
comparison, scripts and deployment.

## 7. Plan

Done: every component of section 1 but the last row is modelled, and every property of the
cache, the pipeline, the store, the views, the explorer, the shell and the desktop is proved,
apart from liveness; of the panels all but one. Of the pipeline this includes the graph.

Next, each after TLC agreed on its inductive invariant:

1. `ResourceListRequests` and `ResourceDetail`: the parts of `ListsAreWholeAndInOrder` that
   need no fold: rows are injective, a cursor is behind its rows.
2. `TopologyCanvas`: `PlacesAreKept`, which is about the storage and not about the layout.

And for the models: how many references the upload's Gateway rules count and when they
stop; the profiles of desktop connections; the caps on diagnostics; the text filter of events.
