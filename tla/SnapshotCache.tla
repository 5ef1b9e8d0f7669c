--------------------------- MODULE SnapshotCache ---------------------------
(***************************************************************************)
(* The server's snapshot cache: server/internal/httpapi/snapshot_cache.go. *)
(*                                                                         *)
(* Every HTTP handler that needs the topology calls get().  A call answers *)
(* from the cache, waits for the load another call has in flight, or       *)
(* becomes the leader of a load.  Each critical section of c.mu is one     *)
(* action; everything the Go code does outside the lock (reading the       *)
(* clock, loading, waiting on a channel, returning) is an action of its    *)
(* own, so other requests run in between.                                  *)
(*                                                                         *)
(* A snapshot is the instant at which its collection began (0: the empty   *)
(* snapshot).  Every request calls get once; a load is named by the        *)
(* request that leads it.                                                  *)
(***************************************************************************)
EXTENDS Integers

CONSTANTS
    Requests,           \* the HTTP requests
    NoLoad,             \* inFlight = nil
    ConfiguredTTLs,     \* the values of ServerConfig.SnapshotCacheTTL to look at
    DefaultTTL,         \* defaultSnapshotCacheTTL
    MaxClock            \* bound on the clock

ASSUME CacheAssumption ==
    /\ NoLoad \notin Requests
    /\ ConfiguredTTLs \subseteq Int
    /\ DefaultTTL \in Nat \ {0}
    /\ MaxClock \in Nat

\* newSnapshotCache: zero means the default, negative switches caching off.
EffectiveTTL(configured) == IF configured = 0 THEN DefaultTTL ELSE configured

VARIABLES
    \* the snapshotCache
    ttl, snapshot, cachedAt, hasValue, inFlight,
    \* load[r]: the snapshotLoad led by r
    load,
    \* the calls of get
    pc, force, now, joined, collected, answer,
    \* the clock, and two history variables: the most recent snapshot any
    \* request was given, and its value when a request entered
    clock, served, floor

cacheVars == <<ttl, snapshot, cachedAt, hasValue, inFlight, load>>
callVars == <<pc, force, now, joined, collected, answer>>
vars == <<cacheVars, callVars, clock, served, floor>>

NewLoad == [closed |-> FALSE, ok |-> FALSE, snapshot |-> 0, cachedAt |-> 0]

Statuses == {"hit", "shared", "miss", "disabled", "panic"}

Reply == [status : Statuses, ok : BOOLEAN, snapshot : Nat, cachedAt : Nat]

TypeOK ==
    /\ ttl \in Int \ {0}
    /\ snapshot \in Nat /\ cachedAt \in Nat /\ hasValue \in BOOLEAN
    /\ inFlight \in Requests \cup {NoLoad}
    /\ load \in [Requests -> [closed : BOOLEAN, ok : BOOLEAN,
                              snapshot : Nat, cachedAt : Nat]]
    /\ pc \in [Requests -> {"idle", "entered", "direct", "loading",
                            "waiting", "leaving", "done"}]
    /\ force \in [Requests -> BOOLEAN]
    /\ now \in [Requests -> Nat]
    /\ joined \in [Requests -> Requests \cup {NoLoad}]
    /\ collected \in [Requests -> Nat]
    /\ answer \in [Requests -> Reply]
    /\ clock \in Nat \ {0}
    /\ served \in Nat
    /\ floor \in [Requests -> Nat]

Init ==
    /\ ttl \in {EffectiveTTL(configured) : configured \in ConfiguredTTLs}
    /\ snapshot = 0 /\ cachedAt = 0 /\ hasValue = FALSE /\ inFlight = NoLoad
    /\ load = [r \in Requests |-> NewLoad]
    /\ pc = [r \in Requests |-> "idle"]
    /\ force = [r \in Requests |-> FALSE]
    /\ now = [r \in Requests |-> 0]
    /\ joined = [r \in Requests |-> NoLoad]
    /\ collected = [r \in Requests |-> 0]
    /\ answer = [r \in Requests |-> [status |-> "miss", ok |-> FALSE,
                                     snapshot |-> 0, cachedAt |-> 0]]
    /\ clock = 1 /\ served = 0
    /\ floor = [r \in Requests |-> 0]
----------------------------------------------------------------------------
\* A handler calls get.  The clock is read before the lock is taken; with
\* caching disabled the provider is called straight away.
Arrive(r, f) ==
    /\ pc[r] = "idle"
    /\ pc' = [pc EXCEPT ![r] = IF ttl < 0 THEN "direct" ELSE "entered"]
    /\ force' = [force EXCEPT ![r] = f]
    /\ now' = [now EXCEPT ![r] = clock]
    /\ floor' = [floor EXCEPT ![r] = served]
    /\ UNCHANGED <<cacheVars, joined, collected, answer, clock, served>>

\* Mutant: a refresh is served a hit.
FreshDespiteForce(r) == hasValue /\ now[r] - cachedAt < ttl

\* now.Sub(c.cachedAt) < c.ttl, with the clock value read before the lock.
Fresh(r) == ~force[r] /\ hasValue /\ now[r] - cachedAt < ttl

\* get returns to the handler; its locals are gone.
Return(r, a) ==
    /\ pc' = [pc EXCEPT ![r] = "done"]
    /\ answer' = [answer EXCEPT ![r] = a]
    /\ served' = IF a.ok /\ a.snapshot > served THEN a.snapshot ELSE served
    /\ joined' = [joined EXCEPT ![r] = NoLoad]
    /\ collected' = [collected EXCEPT ![r] = 0]
    /\ UNCHANGED <<cacheVars, force, now, clock, floor>>

Hit(r) ==
    /\ pc[r] = "entered" /\ Fresh(r)
    /\ Return(r, [status |-> "hit", ok |-> TRUE,
                  snapshot |-> snapshot, cachedAt |-> cachedAt])

\* Wait for the load in flight, forced or not.
Join(r) ==
    /\ pc[r] = "entered" /\ ~Fresh(r) /\ inFlight # NoLoad
    /\ pc' = [pc EXCEPT ![r] = "waiting"]
    /\ joined' = [joined EXCEPT ![r] = inFlight]
    /\ UNCHANGED <<cacheVars, force, now, collected, answer, clock, served, floor>>

Lead(r) ==
    /\ pc[r] = "entered" /\ ~Fresh(r) /\ inFlight = NoLoad
    /\ inFlight' = r
    /\ load' = [load EXCEPT ![r] = NewLoad]
    /\ pc' = [pc EXCEPT ![r] = "loading"]
    /\ UNCHANGED <<ttl, snapshot, cachedAt, hasValue, force, now, joined, collected,
                   answer, clock, served, floor>>

\* The provider begins to read the cluster: what it returns shows the cluster
\* from this instant on.
Collect(r) ==
    /\ pc[r] \in {"loading", "direct"} /\ collected[r] = 0
    /\ collected' = [collected EXCEPT ![r] = clock]
    /\ UNCHANGED <<cacheVars, pc, force, now, joined, answer, clock, served, floor>>

\* The load succeeded: the value is stored, the waiters are released.
Publish(r) ==
    /\ pc[r] = "loading" /\ collected[r] # 0
    /\ snapshot' = collected[r] /\ cachedAt' = clock /\ hasValue' = TRUE
    /\ load' = [load EXCEPT ![r] = [closed |-> TRUE, ok |-> TRUE,
                                    snapshot |-> collected[r], cachedAt |-> clock]]
    /\ inFlight' = NoLoad
    /\ pc' = [pc EXCEPT ![r] = "leaving"]
    /\ UNCHANGED <<ttl, force, now, joined, collected, answer, clock, served, floor>>

\* Mutants: the error is not looked at before the value is stored; the early
\* return on an error leaves the waiters' channel open.
FailLoadStores(r) ==
    /\ pc[r] = "loading"
    /\ snapshot' = 0 /\ cachedAt' = clock /\ hasValue' = TRUE
    /\ load' = [load EXCEPT ![r].closed = TRUE]
    /\ inFlight' = NoLoad
    /\ pc' = [pc EXCEPT ![r] = "leaving"]
    /\ UNCHANGED <<ttl, force, now, joined, collected, answer, clock, served, floor>>

FailLoadKeepsChannel(r) ==
    /\ pc[r] = "loading"
    /\ inFlight' = NoLoad
    /\ pc' = [pc EXCEPT ![r] = "leaving"]
    /\ UNCHANGED <<ttl, snapshot, cachedAt, hasValue, load, force, now, joined,
                   collected, answer, clock, served, floor>>

\* The provider returned an error or ran into the 25 s of loadContext; what
\* the cache held before stays.
FailLoad(r) ==
    /\ pc[r] = "loading"
    /\ load' = [load EXCEPT ![r].closed = TRUE]
    /\ inFlight' = NoLoad
    /\ pc' = [pc EXCEPT ![r] = "leaving"]
    /\ UNCHANGED <<ttl, snapshot, cachedAt, hasValue, force, now, joined, collected,
                   answer, clock, served, floor>>

\* The leader returns after it released the lock.  Its own client going away
\* does not shorten the load.
LeaderReturn(r) ==
    /\ pc[r] = "leaving"
    /\ Return(r, [status |-> "miss", ok |-> load[r].ok,
                  snapshot |-> load[r].snapshot, cachedAt |-> load[r].cachedAt])

WaiterReturn(r) ==
    /\ pc[r] = "waiting" /\ load[joined[r]].closed
    /\ LET l == load[joined[r]] IN
         Return(r, [status |-> "shared", ok |-> l.ok,
                    snapshot |-> l.snapshot, cachedAt |-> l.cachedAt])

\* Mutant: the call that gives up abandons the load for everybody.
WaiterCancelledAbandons(r) ==
    /\ pc[r] = "waiting"
    /\ inFlight' = NoLoad
    /\ pc' = [pc EXCEPT ![r] = "done"]
    /\ UNCHANGED <<ttl, snapshot, cachedAt, hasValue, load, force, now, joined,
                   collected, answer, clock, served, floor>>

\* The waiting client disconnects: ctx.Done().
WaiterCancelled(r) ==
    /\ pc[r] = "waiting"
    /\ Return(r, [status |-> "shared", ok |-> FALSE, snapshot |-> 0, cachedAt |-> 0])

DirectReturn(r) ==
    /\ pc[r] = "direct" /\ collected[r] # 0
    /\ Return(r, [status |-> "disabled", ok |-> TRUE,
                  snapshot |-> collected[r], cachedAt |-> 0])

\* A provider error, or the client of an uncached request disconnects.
DirectFail(r) ==
    /\ pc[r] = "direct"
    /\ Return(r, [status |-> "disabled", ok |-> FALSE, snapshot |-> 0, cachedAt |-> 0])

\* The provider panics: get is unwound without its last critical section and
\* ServeHTTP recovers, answering 500.
Panic(r) ==
    /\ pc[r] \in {"loading", "direct"}
    /\ Return(r, [status |-> "panic", ok |-> FALSE, snapshot |-> 0, cachedAt |-> 0])

Tick ==
    /\ clock < MaxClock
    /\ clock' = clock + 1
    /\ UNCHANGED <<cacheVars, callVars, served, floor>>

Step(r) ==
    \/ Hit(r) \/ Join(r) \/ Lead(r)
    \/ Collect(r) \/ Publish(r) \/ FailLoad(r) \/ LeaderReturn(r)
    \/ WaiterReturn(r) \/ WaiterCancelled(r)
    \/ DirectReturn(r) \/ DirectFail(r)
    \/ Panic(r)

Next ==
    \/ \E r \in Requests : (\E f \in BOOLEAN : Arrive(r, f)) \/ Step(r)
    \/ Tick

Spec == Init /\ [][Next]_vars

\* A goroutine that can run does; a load ends because loadContext expires.
\* Nothing forces a client to disconnect, to ask again, or a provider to panic.
Progress(r) ==
    \/ Hit(r) \/ Join(r) \/ Lead(r)
    \/ Collect(r) \/ Publish(r) \/ FailLoad(r) \/ LeaderReturn(r)
    \/ WaiterReturn(r) \/ DirectReturn(r) \/ DirectFail(r)

FairSpec == Spec /\ \A r \in Requests : WF_vars(Progress(r))
----------------------------------------------------------------------------
Panicked(r) == pc[r] = "done" /\ answer[r].status = "panic"

\* At most one load runs at a time, and it is the one the cache knows of.
SingleFlight ==
    \A r \in Requests : pc[r] = "loading" => inFlight = r

\* A waiter's load has ended, or somebody is still running it: there is a step
\* other than its own disconnection that will release it, unless the provider
\* panicked under the call that led the load.
WaitersHaveALeader ==
    \A r \in Requests : pc[r] = "waiting" =>
        LET l == joined[r] IN
        \/ load[l].closed
        \/ l = inFlight /\ (pc[l] = "loading" \/ Panicked(l))

\* No answer is older than an answer that was given before its request was
\* made: a client that polls never sees the topology go back in time, even
\* when hits, shared loads and forced refreshes of several requests overlap.
MonotoneReads ==
    \A r \in Requests : pc[r] = "done" /\ answer[r].ok => answer[r].snapshot >= floor[r]

\* With caching, an answer was published less than ttl before its request
\* entered, and no earlier than the request itself when it asked for a refresh,
\* although a forced request may join a load that began before it.
AnswersAreFresh ==
    \A r \in Requests :
        pc[r] = "done" /\ answer[r].ok /\ answer[r].status # "disabled" =>
            /\ now[r] - answer[r].cachedAt < ttl
            /\ force[r] => answer[r].cachedAt >= now[r]

\* The stored snapshot is only replaced by one that was collected later, and
\* once there is a value an error or a panic never takes it away.
CacheNeverRegresses ==
    [][ /\ snapshot' >= snapshot /\ cachedAt' >= cachedAt
        /\ hasValue => hasValue' ]_vars

\* Every call of get ends, a waiter's too, unless the provider panics: then
\* only the calls that were or will be waiting for its load are stuck.
EveryCallReturns ==
    \A r \in Requests :
        pc[r] \in {"entered", "direct"} ~>
            pc[r] = "done" \/ \E l \in Requests : joined[r] = l /\ Panicked(l)

\* What the recover of ServeHTTP is there for: a provider that panics costs the
\* request that called it, and every other call of get still returns.
PanicIsContained ==
    \A r \in Requests : pc[r] \in {"entered", "direct"} ~> pc[r] = "done"

\* The service the handlers rely on.
Phase(r) ==
    IF pc[r] = "idle" THEN "idle"
    ELSE IF pc[r] = "done" THEN "answered" ELSE "asked"

phase == [r \in Requests |-> Phase(r)]

Service == INSTANCE SnapshotService
               WITH asked <- now, forced <- force, reply <- answer

\* The cache implements the abstract service: hits, shared loads, misses,
\* failures and cancellations are answers the service allows.
ImplementsService == Service!Spec

----------------------------------------------------------------------------
\* For TLC: KUVIEWER_SNAPSHOT_CACHE_TTL switched off, unset (zero) or set.
OffDefaultAndTwo == {-1, 0, 2}
============================================================================
