------------------------- MODULE SnapshotCollection -------------------------
(***************************************************************************)
(* KubernetesProvider.Snapshot (provider/kubernetes.go): the required      *)
(* lists one after the other, then the optional lists in goroutines that   *)
(* share a semaphore (collectSnapshotFetches), then, if the list of CRDs   *)
(* was read, the instances of each CRD in the same way.                    *)
(*                                                                         *)
(* A list is what getKubeListJSONStatus makes of it (module KubeList):     *)
(* complete, refused, or an error with nothing read.  Refused is a 404, an *)
(* API that is not installed, as well as a 403, a list that is there and   *)
(* that the service account may not read: the caller is told of neither.   *)
(***************************************************************************)
EXTENDS Integers, FiniteSets

CONSTANTS
    Required,       \* number of required lists
    Tasks,          \* the optional lists
    Crds,           \* the one that lists the custom resource definitions
    CustomTasks,    \* one for every definition the cluster may have
    Listable,       \* those of definitions with a valid path and kind
    Concurrencies,  \* the values of kubeSnapshotConcurrency to look at
    Reasons         \* snapshotDiagnosticReason(err)

CustomResources == "extensions/custom-resources"

ASSUME CollectionAssumption ==
    /\ Required \in Nat /\ Concurrencies \subseteq Int
    /\ IsFiniteSet(Tasks) /\ IsFiniteSet(CustomTasks)
    /\ Tasks \cap CustomTasks = {} /\ Crds \in Tasks /\ Listable \subseteq CustomTasks
    /\ CustomResources \notin Tasks /\ "nil" \notin Reasons

AllTasks == Tasks \cup CustomTasks

VARIABLES
    concurrency,    \* the provider's kubeSnapshotConcurrency
    phase,          \* "required", "optional", "custom", "returned"
    required,       \* required lists read so far
    goroutine,      \* goroutine[t] \in {"none", "waiting", "fetching", "finished"}
    taskError,      \* taskErrors[t], "nil" for none
    list,           \* what the fetch left in t's list: "empty" or "complete"
    refused,        \* history: refused[t], "no" or what a refusal of t meant
    defined,        \* history: the definitions found, also those that are skipped
    ctxDone,        \* has the context been cancelled or its deadline passed?
    diagnostics,    \* the diagnostics gathered so far
    result          \* "none", "snapshot" or "error"

vars == <<concurrency, phase, required, goroutine, taskError, list, refused, defined,
          ctxDone, diagnostics, result>>

\* What a 404 and a 403 mean; of two API versions, whether one of them is there.
Refusals == {"not_installed", "forbidden"}

Diagnostic == [id : Tasks \cup {CustomResources}, reason : Reasons,
               count : Nat \ {0}]

Init ==
    /\ concurrency \in Concurrencies
    /\ phase = "required" /\ required = 0
    /\ goroutine = [t \in AllTasks |-> "none"]
    /\ taskError = [t \in AllTasks |-> "nil"]
    /\ list = [t \in AllTasks |-> "empty"]
    /\ refused = [t \in AllTasks |-> "no"] /\ defined = {}
    /\ ctxDone = FALSE
    /\ diagnostics = {}
    /\ result = "none"
----------------------------------------------------------------------------
ReturnError ==
    /\ phase' = "returned" /\ result' = "error"
    /\ UNCHANGED <<concurrency, required, goroutine, taskError, list, refused, defined, ctxDone,
                   diagnostics>>

\* The 25 s of the snapshot cache pass or, without caching, the client leaves.
ContextEnds ==
    /\ ~ctxDone /\ phase # "returned"
    /\ ctxDone' = TRUE
    /\ UNCHANGED <<concurrency, phase, required, goroutine, taskError, list, refused,
                   defined, diagnostics, result>>

RequiredListRead ==
    /\ phase = "required" /\ required < Required
    /\ required' = required + 1
    /\ UNCHANGED <<concurrency, phase, goroutine, taskError, list, refused, defined, ctxDone,
                   diagnostics, result>>

\* Required lists may not even be refused.
RequiredListFails ==
    /\ phase = "required" /\ required < Required
    /\ ReturnError

\* A goroutine for every task of the group.
Spawn(group) ==
    goroutine' = [t \in AllTasks |-> IF t \in group THEN "waiting" ELSE goroutine[t]]

StartOptional ==
    /\ phase = "required" /\ required = Required
    /\ phase' = "optional"
    /\ Spawn(Tasks)
    /\ UNCHANGED <<concurrency, required, taskError, list, refused, defined, ctxDone,
                   diagnostics, result>>

Group == IF phase = "optional" THEN Tasks ELSE CustomTasks

\* The definitions found decide how many custom resource tasks there are.
Started == {t \in Group : goroutine[t] # "none"}

Fetching == {t \in AllTasks : goroutine[t] = "fetching"}

\* Mutant: the size of the semaphore is not clamped.
SlotsUnclamped == concurrency

\* concurrency, clamped to at least one and at most the number of tasks.
Slots ==
    LET wanted == IF concurrency < 1 THEN 1 ELSE concurrency
    IN  IF wanted > Cardinality(Started) THEN Cardinality(Started) ELSE wanted

Acquire(t) ==
    /\ t \in Started /\ goroutine[t] = "waiting"
    /\ Cardinality(Fetching) < Slots
    /\ goroutine' = [goroutine EXCEPT ![t] = "fetching"]
    /\ UNCHANGED <<concurrency, phase, required, taskError, list, refused, defined, ctxDone,
                   diagnostics, result>>

\* <-ctx.Done(): the goroutine leaves without recording an error.
GiveUp(t) ==
    /\ t \in Started /\ goroutine[t] = "waiting" /\ ctxDone
    /\ goroutine' = [goroutine EXCEPT ![t] = "finished"]
    /\ UNCHANGED <<concurrency, phase, required, taskError, list, refused, defined, ctxDone,
                   diagnostics, result>>

Finish(t) ==
    /\ goroutine[t] = "fetching"
    /\ goroutine' = [goroutine EXCEPT ![t] = "finished"]

FetchComplete(t) ==
    /\ Finish(t)
    /\ list' = [list EXCEPT ![t] = "complete"]
    /\ UNCHANGED <<concurrency, phase, required, taskError, refused, defined, ctxDone,
                   diagnostics, result>>

\* found is false and there is no error: the task succeeds with an empty list.
FetchRefused(t, why) ==
    /\ Finish(t)
    /\ refused' = [refused EXCEPT ![t] = why]
    /\ UNCHANGED <<concurrency, phase, required, taskError, list, defined, ctxDone, diagnostics,
                   result>>

FetchFails(t, reason) ==
    /\ Finish(t)
    /\ taskError' = [taskError EXCEPT ![t] = reason]
    /\ UNCHANGED <<concurrency, phase, required, list, refused, defined, ctxDone,
                   diagnostics, result>>

\* waitGroup.Wait() returns.
AllFinished == \A t \in Started : goroutine[t] = "finished"

Failed == {t \in Started : taskError[t] # "nil"}

\* One diagnostic for each list that failed.
OptionalDiagnostics ==
    {[id |-> t, reason |-> taskError[t], count |-> 1] : t \in Failed}

\* aggregateSnapshotDiagnostics: those of custom resources share an id.
CustomDiagnostics ==
    {[id |-> CustomResources, reason |-> x,
      count |-> Cardinality({t \in Failed : taskError[t] = x})] :
        x \in {taskError[t] : t \in Failed}}

\* ctx.Err() after the wait: the whole snapshot is given up.
ContextError ==
    /\ phase \in {"optional", "custom"} /\ Started # {} /\ AllFinished /\ ctxDone
    /\ ReturnError

\* Mutant: the context is not looked at after the wait.
OptionalDoneUnchecked(crds) ==
    /\ phase = "optional" /\ AllFinished
    /\ phase' = "custom"
    /\ crds # {} => list[Crds] = "complete"
    /\ defined' = crds
    /\ diagnostics' = diagnostics \cup OptionalDiagnostics
    /\ Spawn(crds \cap Listable)
    /\ UNCHANGED <<concurrency, required, taskError, list, refused, ctxDone, result>>

\* The optional lists are done; crds are the definitions that were listed.  One whose
\* path or kind is not valid is skipped.
OptionalDone(crds) ==
    /\ phase = "optional" /\ AllFinished /\ ~ctxDone
    /\ phase' = "custom"
    /\ crds # {} => list[Crds] = "complete"
    /\ defined' = crds
    /\ diagnostics' = diagnostics \cup OptionalDiagnostics
    /\ Spawn(crds \cap Listable)
    /\ UNCHANGED <<concurrency, required, taskError, list, refused, ctxDone, result>>

\* The snapshot is built.  Without custom resources the context is not looked
\* at again.
Build ==
    /\ phase = "custom" /\ AllFinished
    /\ Started = {} \/ ~ctxDone
    /\ diagnostics' = diagnostics \cup CustomDiagnostics
    /\ phase' = "returned" /\ result' = "snapshot"
    /\ UNCHANGED <<concurrency, required, goroutine, taskError, list, refused, defined, ctxDone>>

Goroutine(t) ==
    \/ Acquire(t) \/ GiveUp(t) \/ FetchComplete(t)
    \/ \E why \in Refusals : FetchRefused(t, why)
    \/ \E reason \in Reasons : FetchFails(t, reason)

Main ==
    \/ RequiredListRead \/ RequiredListFails \/ StartOptional \/ ContextError
    \/ \E crds \in SUBSET CustomTasks : OptionalDone(crds)
    \/ Build

Next == ContextEnds \/ Main \/ \E t \in AllTasks : Goroutine(t)

\* Requests end (http.Client.Timeout) and runnable goroutines run.
Spec == /\ Init /\ [][Next]_vars
        /\ WF_vars(Main) /\ \A t \in AllTasks : WF_vars(Goroutine(t))
----------------------------------------------------------------------------
Reported(t) == \E d \in diagnostics : d.id = IF t \in Tasks THEN t ELSE CustomResources

\* Nothing is said of a list that the API server refused, be it that there is none or
\* that it may not be read, and of a definition that is skipped.
Silent(t) == refused[t] # "no" \/ t \in defined \ Listable

\* A list that a snapshot lacks for any other reason is reported, although a goroutine
\* that gives up records nothing; and an optional list that was read, or refused, is not.
FailedListsAreReported ==
    result = "snapshot" =>
        /\ \A t \in Tasks \cup defined : list[t] = "complete" \/ Silent(t) \/ Reported(t)
        /\ \A t \in Tasks : Reported(t) => list[t] = "empty" /\ ~Silent(t)

\* The counts add up: as many custom resource lists are reported missing as
\* could not be read, and nothing that was read is reported.
CountsAddUp ==
    result = "snapshot" =>
        \A reason \in Reasons :
            LET failed == {t \in CustomTasks : taskError[t] = reason}
                custom == {d \in diagnostics : /\ d.id = CustomResources
                                               /\ d.reason = reason}
            IN  IF failed = {} THEN custom = {}
                ELSE \E d \in custom : custom = {d} /\ d.count = Cardinality(failed)

\* The cluster never sees more than concurrency requests of one snapshot.
BoundedConcurrency ==
    Cardinality(Fetching) =< (IF concurrency < 1 THEN 1 ELSE concurrency)

\* Snapshot always returns: no goroutine waits for a slot that is never freed.
Returns == <>(phase = "returned")
============================================================================
