------------------------ MODULE SnapshotCacheProofs ------------------------
(***************************************************************************)
(* Theorems about SnapshotCache for every set of requests, every TTL and   *)
(* every bound on the clock, with a provider that may fail or panic.       *)
(***************************************************************************)
EXTENDS SnapshotCache, TLAPS

\* Time and the cached value.  Without caching nothing is ever stored.
ValueOrder ==
    /\ snapshot =< cachedAt /\ cachedAt =< clock
    /\ served =< clock
    /\ ttl >= 0 => served =< snapshot

\* The load in flight is open and, unless its leader panicked, being run.
LoadOrder ==
    /\ \A l \in Requests : inFlight = l => ~load[l].closed
    /\ \A l \in Requests :
         load[l].ok => /\ load[l].closed
                       /\ load[l].snapshot =< snapshot
                       /\ load[l].snapshot =< load[l].cachedAt
                       /\ load[l].cachedAt =< clock

\* What load l returned is good for request r.
LoadServes(l, r) ==
    load[l].ok => floor[r] =< load[l].snapshot /\ now[r] =< load[l].cachedAt

CallOrder(r) ==
    /\ now[r] =< clock /\ floor[r] =< now[r] /\ floor[r] =< served
    /\ collected[r] # 0 =>
         /\ pc[r] \in {"loading", "leaving", "direct"}
         /\ now[r] =< collected[r] /\ collected[r] =< clock
    /\ load[r].closed => pc[r] \in {"leaving", "done"}
    /\ pc[r] = "direct" => ttl < 0
    /\ pc[r] \in {"entered", "loading", "waiting", "leaving"} => ttl >= 0
    /\ pc[r] = "loading" =>
         /\ inFlight = r /\ ~load[r].ok
         /\ collected[r] # 0 => snapshot =< collected[r]
    /\ pc[r] = "waiting" =>
         /\ joined[r] \in Requests
         /\ load[joined[r]].closed \/ inFlight = joined[r]
         /\ LoadServes(joined[r], r)
    /\ pc[r] = "leaving" => load[r].closed /\ LoadServes(r, r)

AnswerGood(r) ==
    pc[r] = "done" /\ answer[r].ok =>
        /\ floor[r] =< answer[r].snapshot
        /\ answer[r].status # "disabled" =>
              /\ now[r] - answer[r].cachedAt < ttl
              /\ force[r] => now[r] =< answer[r].cachedAt

\* The inductive invariant: the properties do not follow from themselves, the
\* value a waiter will be given has to be bounded while its load is running.
IInv ==
    /\ TypeOK
    /\ ValueOrder
    /\ LoadOrder
    /\ \A r \in Requests : CallOrder(r) /\ AnswerGood(r)

LEMMA InitIInv == Init => IInv
<1> SUFFICES ASSUME Init PROVE IInv
    OBVIOUS
<1> USE CacheAssumption
<1>1. snapshot = 0 /\ cachedAt = 0 /\ inFlight = NoLoad /\ clock = 1 /\ served = 0
      BY DEF Init
<1>2. TypeOK
  <2>0. ttl \in Int \ {0} BY DEF Init, EffectiveTTL
  <2>1. load \in [Requests -> [closed : BOOLEAN, ok : BOOLEAN,
                               snapshot : Nat, cachedAt : Nat]]
        BY DEF Init, NewLoad
  <2>2. answer \in [Requests -> Reply] BY DEF Init, Reply, Statuses
  <2>3. pc \in [Requests -> {"idle", "entered", "direct", "loading",
                             "waiting", "leaving", "done"}]
        BY DEF Init
  <2>4. /\ force \in [Requests -> BOOLEAN]
        /\ joined \in [Requests -> Requests \cup {NoLoad}]
        BY DEF Init
  <2>5. /\ now \in [Requests -> Nat] /\ collected \in [Requests -> Nat]
        /\ floor \in [Requests -> Nat]
        BY DEF Init
  <2>6. hasValue \in BOOLEAN BY DEF Init
  <2>7. QED BY <1>1, <2>0, <2>1, <2>2, <2>3, <2>4, <2>5, <2>6 DEF TypeOK
<1>3. ValueOrder BY <1>1 DEF ValueOrder
<1>4. LoadOrder BY <1>1 DEF Init, LoadOrder, NewLoad
<1>5. ASSUME NEW r \in Requests PROVE CallOrder(r) /\ AnswerGood(r)
  <2>1. /\ pc[r] = "idle" /\ now[r] = 0 /\ floor[r] = 0 /\ collected[r] = 0
        /\ ~load[r].closed
        BY DEF Init, NewLoad
  <2>2. QED BY <1>1, <2>1 DEF CallOrder, AnswerGood
<1>6. QED BY <1>2, <1>3, <1>4, <1>5 DEF IInv

\* A call that a step leaves alone keeps its invariant when the step does not
\* touch the cache, and time and the served snapshot only move forward.
SameCall(q) ==
    /\ pc'[q] = pc[q] /\ now'[q] = now[q] /\ floor'[q] = floor[q]
    /\ force'[q] = force[q] /\ joined'[q] = joined[q]
    /\ collected'[q] = collected[q] /\ answer'[q] = answer[q]

LEMMA OtherCalls ==
    ASSUME IInv, NEW q \in Requests, SameCall(q), UNCHANGED cacheVars,
           clock' \in Nat, served' \in Nat, clock =< clock', served =< served'
    PROVE  CallOrder(q)' /\ AnswerGood(q)'
<1> USE DEF IInv, SameCall, cacheVars
<1>1. CallOrder(q)' BY DEF TypeOK, CallOrder, LoadServes
<1>2. AnswerGood(q)' BY DEF AnswerGood
<1>3. QED BY <1>1, <1>2

LEMMA ArriveIInv ==
    ASSUME IInv, NEW r \in Requests, NEW f \in BOOLEAN, Arrive(r, f)
    PROVE  IInv'
<1> USE CacheAssumption DEF IInv, cacheVars
<1>1. TypeOK' BY DEF Arrive, TypeOK
<1>2. ValueOrder' BY DEF Arrive, ValueOrder
<1>3. LoadOrder' BY DEF Arrive, LoadOrder
<1>4. ASSUME NEW q \in Requests PROVE CallOrder(q)' /\ AnswerGood(q)'
  <2>1. CASE q # r
    <3>1. SameCall(q) BY <2>1 DEF Arrive, SameCall, TypeOK
    <3>2. QED BY <3>1, OtherCalls DEF Arrive, TypeOK
  <2>2. CASE q = r
    <3>1. /\ pc'[r] \in {"direct", "entered"}
          /\ pc'[r] = "direct" => ttl < 0
          /\ pc'[r] = "entered" => ttl >= 0
          BY DEF Arrive, TypeOK
    <3>2. /\ now'[r] = clock /\ floor'[r] = served
          /\ collected'[r] = collected[r] /\ clock' = clock /\ served' = served /\ ttl' = ttl
          BY DEF Arrive, TypeOK
    <3>3. collected[r] = 0 /\ ~load[r].closed /\ load' = load BY DEF Arrive, CallOrder
    <3>4. QED BY <2>2, <3>1, <3>2, <3>3 DEF CallOrder, AnswerGood, ValueOrder, TypeOK
  <2>3. QED BY <2>1, <2>2
<1>5. QED BY <1>1, <1>2, <1>3, <1>4

LEMMA JoinIInv ==
    ASSUME IInv, NEW r \in Requests, Join(r)
    PROVE  IInv'
<1> USE CacheAssumption DEF IInv, cacheVars
<1>1. TypeOK' BY DEF Join, TypeOK
<1>2. ValueOrder' BY DEF Join, ValueOrder
<1>3. LoadOrder' BY DEF Join, LoadOrder
<1>4. ASSUME NEW q \in Requests PROVE CallOrder(q)' /\ AnswerGood(q)'
  <2>1. CASE q # r
    <3>1. SameCall(q) BY <2>1 DEF Join, SameCall, TypeOK
    <3>2. QED BY <3>1, OtherCalls DEF Join, TypeOK
  <2>2. CASE q = r
    <3>1. pc'[r] = "waiting" /\ joined'[r] = inFlight /\ inFlight \in Requests
          BY DEF Join, TypeOK
    <3>2. ~load[inFlight].ok BY <3>1 DEF LoadOrder
    <3>3. collected[r] = 0 /\ ~load[r].closed BY DEF Join, CallOrder
    <3>4. /\ now' = now /\ floor' = floor /\ collected' = collected
          /\ clock' = clock /\ served' = served /\ load' = load /\ inFlight' = inFlight
          /\ ttl' = ttl
          BY DEF Join
    <3>5. ttl >= 0 BY DEF Join, CallOrder
    <3>6. QED BY <2>2, <3>1, <3>2, <3>3, <3>4, <3>5
              DEF CallOrder, AnswerGood, LoadServes, TypeOK
  <2>3. QED BY <2>1, <2>2
<1>5. QED BY <1>1, <1>2, <1>3, <1>4

LEMMA LeadIInv ==
    ASSUME IInv, NEW r \in Requests, Lead(r)
    PROVE  IInv'
<1> USE CacheAssumption DEF IInv
<1>1. /\ inFlight = NoLoad /\ inFlight' = r /\ pc[r] = "entered"
      /\ snapshot' = snapshot /\ cachedAt' = cachedAt /\ clock' = clock
      /\ served' = served /\ now' = now /\ floor' = floor /\ force' = force
      /\ joined' = joined /\ collected' = collected /\ answer' = answer
      /\ ttl' = ttl
      BY DEF Lead
<1>2. load'[r] = NewLoad /\ \A l \in Requests \ {r} : load'[l] = load[l]
      BY DEF Lead, TypeOK
<1>3. pc'[r] = "loading" /\ \A q \in Requests \ {r} : pc'[q] = pc[q]
      BY DEF Lead, TypeOK
<1>4. TypeOK' BY DEF Lead, TypeOK, NewLoad
<1>5. ValueOrder' BY <1>1 DEF ValueOrder
<1>6. LoadOrder' BY <1>1, <1>2 DEF LoadOrder, NewLoad
<1>7. ASSUME NEW q \in Requests PROVE CallOrder(q)' /\ AnswerGood(q)'
  <2>1. AnswerGood(q)' BY <1>1, <1>3 DEF AnswerGood
  <2>2. CallOrder(q)'
    <3>1. CASE q = r
          BY <3>1, <1>1, <1>2, <1>3 DEF CallOrder, NewLoad
    <3>2. CASE q # r /\ pc[q] = "waiting"
      <4>1. joined[q] \in Requests /\ joined'[q] = joined[q]
            BY <1>1, <3>2 DEF CallOrder
      <4>2. load[joined[q]].closed /\ LoadServes(joined[q], q)
            BY <1>1, <3>2 DEF CallOrder
      <4>3. CASE joined[q] = r
            \* r has not led a load before: its record is still open.
            BY <1>1, <4>2, <4>3 DEF CallOrder
      <4>4. CASE joined[q] # r
            BY <1>1, <1>2, <1>3, <3>2, <4>1, <4>2, <4>4 DEF CallOrder, LoadServes
      <4>5. QED BY <4>3, <4>4
    <3>3. CASE q # r /\ pc[q] # "waiting"
          BY <3>3, <1>1, <1>2, <1>3 DEF CallOrder, LoadServes
    <3>4. QED BY <3>1, <3>2, <3>3
  <2>3. QED BY <2>1, <2>2
<1>8. QED BY <1>4, <1>5, <1>6, <1>7

LEMMA CollectIInv ==
    ASSUME IInv, NEW r \in Requests, Collect(r)
    PROVE  IInv'
<1> USE CacheAssumption DEF IInv, cacheVars
<1>1. TypeOK' BY DEF Collect, TypeOK
<1>2. ValueOrder' BY DEF Collect, ValueOrder
<1>3. LoadOrder' BY DEF Collect, LoadOrder
<1>4. ASSUME NEW q \in Requests PROVE CallOrder(q)' /\ AnswerGood(q)'
  <2>1. CASE q # r
    <3>1. SameCall(q) BY <2>1 DEF Collect, SameCall, TypeOK
    <3>2. QED BY <3>1, OtherCalls DEF Collect, TypeOK
  <2>2. CASE q = r
    <3>1. collected'[r] = clock BY DEF Collect, TypeOK
    <3>2. /\ pc' = pc /\ now' = now /\ floor' = floor /\ joined' = joined
          /\ force' = force /\ answer' = answer /\ load' = load /\ inFlight' = inFlight
          /\ clock' = clock /\ served' = served /\ snapshot' = snapshot /\ ttl' = ttl
          /\ pc[r] \in {"loading", "direct"}
          BY DEF Collect
    <3>3. QED BY <2>2, <3>1, <3>2
              DEF CallOrder, AnswerGood, LoadServes, ValueOrder, TypeOK
  <2>3. QED BY <2>1, <2>2
<1>5. QED BY <1>1, <1>2, <1>3, <1>4

LEMMA PublishIInv ==
    ASSUME IInv, NEW r \in Requests, Publish(r)
    PROVE  IInv'
<1> USE CacheAssumption DEF IInv
<1>1. /\ pc[r] = "loading" /\ collected[r] # 0 /\ inFlight = r
      /\ ttl >= 0 /\ now[r] =< collected[r] /\ collected[r] =< clock
      /\ snapshot =< collected[r]
      BY DEF Publish, CallOrder
<1>2. /\ snapshot' = collected[r] /\ cachedAt' = clock /\ inFlight' = NoLoad
      /\ clock' = clock /\ served' = served /\ now' = now /\ floor' = floor
      /\ force' = force /\ joined' = joined /\ collected' = collected
      /\ answer' = answer /\ ttl' = ttl
      BY DEF Publish
<1>3. /\ load'[r] = [closed |-> TRUE, ok |-> TRUE,
                     snapshot |-> collected[r], cachedAt |-> clock]
      /\ \A l \in Requests \ {r} : load'[l] = load[l]
      BY DEF Publish, TypeOK
<1>4. pc'[r] = "leaving" /\ \A q \in Requests \ {r} : pc'[q] = pc[q]
      BY DEF Publish, TypeOK
<1>5. /\ snapshot \in Nat /\ cachedAt \in Nat /\ clock \in Nat /\ served \in Nat
      /\ \A q \in Requests : /\ floor[q] \in Nat /\ now[q] \in Nat /\ collected[q] \in Nat
                             /\ load[q].snapshot \in Nat /\ load[q].cachedAt \in Nat
      BY DEF TypeOK
<1>6. TypeOK' BY DEF Publish, TypeOK
<1>7. ValueOrder' BY <1>1, <1>2, <1>5 DEF ValueOrder
<1>8. LoadOrder'
  <2>1. ASSUME NEW l \in Requests, load'[l].ok
        PROVE  /\ load'[l].closed /\ load'[l].snapshot =< snapshot'
               /\ load'[l].snapshot =< load'[l].cachedAt /\ load'[l].cachedAt =< clock'
    <3>1. CASE l = r BY <3>1, <1>1, <1>2, <1>3, <1>5
    <3>2. CASE l # r BY <2>1, <3>2, <1>1, <1>2, <1>3, <1>5 DEF LoadOrder
    <3>3. QED BY <3>1, <3>2
  <2>2. QED BY <2>1, <1>2 DEF LoadOrder
<1>9. ASSUME NEW q \in Requests PROVE CallOrder(q)' /\ AnswerGood(q)'
  <2>1. AnswerGood(q)' BY <1>2, <1>4 DEF AnswerGood
  <2>2. floor[q] =< collected[r] /\ now[q] =< clock
        BY <1>1, <1>5 DEF CallOrder, ValueOrder
  <2>3. CallOrder(q)'
    <3>1. CASE q = r
          BY <3>1, <1>1, <1>2, <1>3, <1>4, <1>5, <2>2 DEF CallOrder, LoadServes
    <3>2. CASE q # r /\ pc[q] = "waiting"
      <4>1. joined[q] \in Requests /\ joined'[q] = joined[q]
            BY <1>2, <3>2 DEF CallOrder
      <4>2. LoadServes(joined[q], q)'
        <5>1. CASE joined[q] = r BY <5>1, <1>2, <1>3, <2>2 DEF LoadServes
        <5>2. CASE joined[q] # r
              BY <5>2, <1>2, <1>3, <4>1, <3>2 DEF CallOrder, LoadServes
        <5>3. QED BY <5>1, <5>2
      <4>3. load'[joined[q]].closed
            BY <1>1, <1>3, <3>2, <4>1 DEF CallOrder
      <4>4. load'[q].closed => pc'[q] \in {"leaving", "done"}
            BY <3>2, <1>3, <1>4 DEF CallOrder
      <4>5. QED BY <3>2, <4>1, <4>2, <4>3, <4>4, <1>2, <1>4 DEF CallOrder, LoadServes
    <3>3. CASE q # r /\ pc[q] # "waiting"
          BY <3>3, <1>1, <1>2, <1>3, <1>4 DEF CallOrder, LoadServes
    <3>4. QED BY <3>1, <3>2, <3>3
  <2>4. QED BY <2>1, <2>3
<1>10. QED BY <1>6, <1>7, <1>8, <1>9

LEMMA FailLoadIInv ==
    ASSUME IInv, NEW r \in Requests, FailLoad(r)
    PROVE  IInv'
<1> USE CacheAssumption DEF IInv
<1>1. pc[r] = "loading" /\ inFlight = r /\ ~load[r].ok
      BY DEF FailLoad, CallOrder
<1>2. /\ inFlight' = NoLoad /\ snapshot' = snapshot /\ cachedAt' = cachedAt
      /\ clock' = clock /\ served' = served /\ now' = now /\ floor' = floor
      /\ force' = force /\ joined' = joined /\ collected' = collected
      /\ answer' = answer /\ ttl' = ttl
      BY DEF FailLoad
<1>3. /\ load'[r].closed /\ ~load'[r].ok
      /\ \A l \in Requests \ {r} : load'[l] = load[l]
      BY <1>1 DEF FailLoad, TypeOK
<1>4. pc'[r] = "leaving" /\ \A q \in Requests \ {r} : pc'[q] = pc[q]
      BY DEF FailLoad, TypeOK
<1>5. TypeOK' BY DEF FailLoad, TypeOK
<1>6. ValueOrder' BY <1>2 DEF ValueOrder
<1>7. LoadOrder' BY <1>2, <1>3 DEF LoadOrder
<1>8. ASSUME NEW q \in Requests PROVE CallOrder(q)' /\ AnswerGood(q)'
  <2>1. AnswerGood(q)' BY <1>2, <1>4 DEF AnswerGood
  <2>2. CallOrder(q)'
    <3>1. CASE q = r BY <3>1, <1>1, <1>2, <1>3, <1>4 DEF CallOrder, LoadServes
    <3>2. CASE q # r /\ pc[q] = "waiting"
      <4>1. joined[q] \in Requests BY <3>2 DEF CallOrder
      <4>2. CASE joined[q] = r
            BY <4>1, <4>2, <3>2, <1>1, <1>2, <1>3, <1>4 DEF CallOrder, LoadServes
      <4>3. CASE joined[q] # r
            BY <4>1, <4>3, <3>2, <1>1, <1>2, <1>3, <1>4 DEF CallOrder, LoadServes
      <4>4. QED BY <4>2, <4>3
    <3>3. CASE q # r /\ pc[q] # "waiting"
          BY <3>3, <1>1, <1>2, <1>3, <1>4 DEF CallOrder, LoadServes
    <3>4. QED BY <3>1, <3>2, <3>3
  <2>3. QED BY <2>1, <2>2
<1>9. QED BY <1>5, <1>6, <1>7, <1>8

\* What every way of returning from get has in common.
Running(r) == pc[r] \notin {"idle", "done"}

GoodReturn(r, a) ==
    /\ a \in Reply
    /\ a.ok =>
         /\ floor[r] =< a.snapshot /\ a.snapshot =< clock
         /\ ttl < 0 => now[r] =< a.snapshot
         /\ ttl >= 0 => a.snapshot =< snapshot
         /\ a.status # "disabled" \/ ttl >= 0 =>
              /\ a.snapshot =< a.cachedAt
              /\ now[r] - a.cachedAt < ttl
              /\ force[r] => now[r] =< a.cachedAt

GetReturns(r) == \E a \in Reply : Running(r) /\ GoodReturn(r, a) /\ Return(r, a)

LEMMA ReturnIInv ==
    ASSUME IInv, NEW r \in Requests, GetReturns(r)
    PROVE  IInv'
<1> USE CacheAssumption DEF IInv, cacheVars
<1>1. PICK a \in Reply : Running(r) /\ GoodReturn(r, a) /\ Return(r, a)
      BY DEF GetReturns
<1>2. a.ok \in BOOLEAN /\ a.snapshot \in Nat /\ a.cachedAt \in Nat
      BY DEF Reply
<1>3. served' \in Nat /\ served =< served' /\ clock' = clock
      /\ served' = IF a.ok /\ a.snapshot > served THEN a.snapshot ELSE served
      BY <1>1, <1>2 DEF Return, TypeOK
<1>4. TypeOK' BY <1>1, <1>3 DEF Return, TypeOK
<1>5. ValueOrder' BY <1>1, <1>2, <1>3 DEF Return, GoodReturn, ValueOrder, TypeOK
<1>6. LoadOrder' BY <1>1 DEF Return, LoadOrder
<1>7. ASSUME NEW q \in Requests PROVE CallOrder(q)' /\ AnswerGood(q)'
  <2>1. CASE q # r
    <3>1. SameCall(q) BY <1>1, <2>1 DEF Return, SameCall, TypeOK
    <3>2. QED BY <1>1, <1>3, <3>1, OtherCalls DEF Return, TypeOK
  <2>2. CASE q = r
    <3>1. /\ pc'[r] = "done" /\ answer'[r] = a /\ collected'[r] = 0
          /\ now' = now /\ floor' = floor /\ force' = force /\ ttl' = ttl
          BY <1>1 DEF Return, TypeOK
    <3>2. CallOrder(r)' BY <3>1, <1>3 DEF CallOrder, TypeOK
    <3>3. AnswerGood(r)' BY <3>1, <1>1 DEF AnswerGood, GoodReturn
    <3>4. QED BY <2>2, <3>2, <3>3
  <2>3. QED BY <2>1, <2>2
<1>8. QED BY <1>4, <1>5, <1>6, <1>7

LEMMA ReturnsAreGood ==
    ASSUME IInv, NEW r \in Requests,
           \/ Hit(r) \/ LeaderReturn(r) \/ WaiterReturn(r) \/ WaiterCancelled(r)
           \/ DirectReturn(r) \/ DirectFail(r) \/ Panic(r)
    PROVE  GetReturns(r)
<1> USE CacheAssumption DEF IInv, GetReturns, Running
<1>1. CASE Hit(r)
  <2> DEFINE a == [status |-> "hit", ok |-> TRUE, snapshot |-> snapshot, cachedAt |-> cachedAt]
  <2>1. a \in Reply BY DEF Reply, Statuses, TypeOK
  <2>2. pc[r] = "entered" /\ Return(r, a) /\ Fresh(r) BY <1>1 DEF Hit
  <2>3. GoodReturn(r, a)
        BY <2>1, <2>2 DEF GoodReturn, Fresh, CallOrder, ValueOrder, TypeOK
  <2>4. QED BY <2>1, <2>2, <2>3
<1>2. CASE LeaderReturn(r)
  <2> DEFINE a == [status |-> "miss", ok |-> load[r].ok,
                   snapshot |-> load[r].snapshot, cachedAt |-> load[r].cachedAt]
  <2>1. a \in Reply BY DEF Reply, Statuses, TypeOK
  <2>2. pc[r] = "leaving" /\ Return(r, a) BY <1>2 DEF LeaderReturn
  <2>3. GoodReturn(r, a)
        BY <2>1, <2>2 DEF GoodReturn, CallOrder, LoadServes, LoadOrder, ValueOrder, TypeOK
  <2>4. QED BY <2>1, <2>2, <2>3
<1>3. CASE WaiterReturn(r)
  <2> DEFINE l == joined[r]
             a == [status |-> "shared", ok |-> load[l].ok,
                   snapshot |-> load[l].snapshot, cachedAt |-> load[l].cachedAt]
  <2>1. pc[r] = "waiting" /\ Return(r, a) /\ l \in Requests
        BY <1>3 DEF WaiterReturn, CallOrder
  <2>2. a \in Reply BY <2>1 DEF Reply, Statuses, TypeOK
  <2>3. GoodReturn(r, a)
        BY <2>1, <2>2 DEF GoodReturn, CallOrder, LoadServes, LoadOrder, ValueOrder, TypeOK
  <2>4. QED BY <2>1, <2>2, <2>3
<1>4. CASE WaiterCancelled(r)
      BY <1>4 DEF WaiterCancelled, GoodReturn, Reply, Statuses
<1>5. CASE DirectReturn(r)
  <2> DEFINE a == [status |-> "disabled", ok |-> TRUE, snapshot |-> collected[r], cachedAt |-> 0]
  <2>1. a \in Reply BY DEF Reply, Statuses, TypeOK
  <2>2. pc[r] = "direct" /\ collected[r] # 0 /\ Return(r, a) BY <1>5 DEF DirectReturn
  <2>3. GoodReturn(r, a) BY <2>1, <2>2 DEF GoodReturn, CallOrder, ValueOrder, TypeOK
  <2>4. QED BY <2>1, <2>2, <2>3
<1>6. CASE DirectFail(r)
      BY <1>6 DEF DirectFail, GoodReturn, Reply, Statuses
<1>7. CASE Panic(r)
      BY <1>7 DEF Panic, GoodReturn, Reply, Statuses
<1>8. QED BY <1>1, <1>2, <1>3, <1>4, <1>5, <1>6, <1>7

LEMMA TickIInv ==
    ASSUME IInv, Tick
    PROVE  IInv'
<1> USE CacheAssumption DEF IInv, cacheVars, callVars
<1>1. TypeOK' BY DEF Tick, TypeOK
<1>2. ValueOrder' BY DEF Tick, ValueOrder, TypeOK
<1>3. LoadOrder' BY DEF Tick, LoadOrder, TypeOK
<1>4. ASSUME NEW q \in Requests PROVE CallOrder(q)' /\ AnswerGood(q)'
      BY OtherCalls DEF Tick, SameCall, TypeOK
<1>5. QED BY <1>1, <1>2, <1>3, <1>4

LEMMA StutterIInv ==
    ASSUME IInv, UNCHANGED vars
    PROVE  IInv'
<1> USE DEF vars, cacheVars, callVars
<1>1. TypeOK' BY DEF IInv, TypeOK
<1>2. ValueOrder' /\ LoadOrder' BY DEF IInv, ValueOrder, LoadOrder
<1>3. ASSUME NEW q \in Requests PROVE CallOrder(q)' /\ AnswerGood(q)'
      BY DEF IInv, CallOrder, LoadServes, AnswerGood
<1>4. QED BY <1>1, <1>2, <1>3 DEF IInv

\* The steps of the cache, sorted by what they do to the abstract service.
LEMMA NextCases ==
    ASSUME IInv, [Next]_vars
    PROVE  \/ \E r \in Requests, f \in BOOLEAN : Arrive(r, f)
           \/ \E r \in Requests : Join(r) \/ Lead(r) \/ Collect(r)
           \/ \E r \in Requests : Publish(r) \/ FailLoad(r)
           \/ \E r \in Requests : GetReturns(r)
           \/ Tick
           \/ UNCHANGED vars
BY ReturnsAreGood DEF Next, Step

LEMMA NextIInv == IInv /\ [Next]_vars => IInv'
BY NextCases, ArriveIInv, JoinIInv, LeadIInv, CollectIInv, PublishIInv,
   FailLoadIInv, ReturnIInv, TickIInv, StutterIInv

\* The invariant of the cache holds in every state: who loads, who waits for it, and how
\* old the value and the answers may be.
THEOREM Inductive == Spec => []IInv
BY InitIInv, NextIInv, PTL DEF Spec

\* Every variable keeps its type, whatever the requests do.
THEOREM TypeCorrect == Spec => []TypeOK
<1>1. IInv => TypeOK BY DEF IInv
<1>2. QED BY <1>1, Inductive, PTL

\* Two loads never run at the same time.
THEOREM OneLoadAtATime == Spec => []SingleFlight
<1>1. IInv => SingleFlight BY DEF IInv, CallOrder, SingleFlight
<1>2. QED BY <1>1, Inductive, PTL

\* The topology never goes back in time for a client that waits for one answer
\* before it sends the next request.
THEOREM ReadsAreMonotone == Spec => []MonotoneReads
<1>1. IInv => MonotoneReads BY DEF IInv, TypeOK, Reply, AnswerGood, MonotoneReads
<1>2. QED BY <1>1, Inductive, PTL

\* An answer is younger than the TTL; a forced one is younger than its request.
THEOREM Freshness == Spec => []AnswersAreFresh
<1>1. IInv => AnswersAreFresh
      BY DEF IInv, TypeOK, Reply, AnswerGood, AnswersAreFresh
<1>2. QED BY <1>1, Inductive, PTL

\* What the cache holds is only replaced by something collected later.
THEOREM CacheGrows == Spec => CacheNeverRegresses
<1>1. ASSUME IInv, [Next]_vars
      PROVE  [ /\ snapshot' >= snapshot /\ cachedAt' >= cachedAt
               /\ hasValue => hasValue' ]_vars
  <2>1. CASE \E r \in Requests : Publish(r)
        BY <1>1, <2>1 DEF Publish, IInv, CallOrder, ValueOrder, TypeOK
  <2>2. CASE UNCHANGED <<snapshot, cachedAt, hasValue>>
        BY <1>1, <2>2 DEF IInv, TypeOK
  <2>3. QED BY <1>1, <2>1, <2>2
            DEF Next, Step, Arrive, Return, Hit, Join, Lead, Collect, FailLoad,
                LeaderReturn, WaiterReturn, WaiterCancelled, DirectReturn,
                DirectFail, Panic, Tick, vars, cacheVars
<1>2. QED BY <1>1, Inductive, PTL DEF Spec, CacheNeverRegresses
----------------------------------------------------------------------------
\* The load in flight is being run, unless the provider panicked under it.
LeaderRuns ==
    \A l \in Requests : inFlight = l => pc[l] = "loading" \/ Panicked(l)

LEMMA NextLeaderRuns ==
    ASSUME IInv, LeaderRuns, [Next]_vars
    PROVE  LeaderRuns'
<1> USE CacheAssumption DEF LeaderRuns, Panicked, cacheVars, callVars
<1>1. CASE \E r \in Requests, f \in BOOLEAN : Arrive(r, f)
      BY <1>1 DEF Arrive, IInv, TypeOK
<1>2. CASE \E r \in Requests : Join(r) \/ Lead(r) \/ Collect(r)
      BY <1>2 DEF Join, Lead, Collect, IInv, TypeOK
<1>3. CASE \E r \in Requests : Publish(r) \/ FailLoad(r)
      BY <1>3 DEF Publish, FailLoad, IInv, TypeOK
<1>4. ASSUME NEW r \in Requests, pc[r] \notin {"loading", "done"}, NEW a \in Reply, Return(r, a)
      PROVE  LeaderRuns'
      BY <1>4 DEF Return, IInv, TypeOK
<1>5. CASE \E r \in Requests : \/ Hit(r) \/ LeaderReturn(r) \/ WaiterReturn(r)
                               \/ WaiterCancelled(r) \/ DirectReturn(r) \/ DirectFail(r)
  <2>1. PICK r \in Requests : \/ Hit(r) \/ LeaderReturn(r) \/ WaiterReturn(r)
                              \/ WaiterCancelled(r) \/ DirectReturn(r) \/ DirectFail(r)
        BY <1>5
  <2>2. pc[r] \notin {"loading", "done"}
        BY <2>1 DEF Hit, LeaderReturn, WaiterReturn, WaiterCancelled, DirectReturn, DirectFail
  <2>3. GetReturns(r) BY <2>1, ReturnsAreGood
  <2>4. QED BY <2>2, <2>3, <1>4 DEF GetReturns
<1>6. CASE Tick \/ UNCHANGED vars
      BY <1>6 DEF Tick, vars
<1>7. CASE \E r \in Requests : Panic(r)
  <2>1. PICK r \in Requests : Panic(r) BY <1>7
  <2>2. /\ pc[r] \in {"loading", "direct"} /\ inFlight' = inFlight
        /\ pc' = [pc EXCEPT ![r] = "done"]
        /\ \E a \in Reply : a.status = "panic" /\ answer' = [answer EXCEPT ![r] = a]
        BY <2>1 DEF Panic, Return, Reply, Statuses
  <2>3. QED BY <2>2 DEF IInv, TypeOK
<1>8. QED BY <1>1, <1>2, <1>3, <1>5, <1>6, <1>7 DEF Next, Step

\* Every waiting request waits for a load that has ended, that somebody is
\* still running, or under which the provider panicked.
THEOREM WaitersAreReleased == Spec => []WaitersHaveALeader
<1>1. Init => LeaderRuns BY CacheAssumption DEF Init, LeaderRuns
<1>2. IInv /\ LeaderRuns => WaitersHaveALeader
      BY DEF IInv, CallOrder, LeaderRuns, WaitersHaveALeader
<1>3. IInv /\ LeaderRuns /\ [Next]_vars => LeaderRuns'
      BY NextLeaderRuns
<1>4. QED BY <1>1, <1>2, <1>3, Inductive, PTL DEF Spec
----------------------------------------------------------------------------
\* The cache implements the service the handlers rely on.
THEOREM Refinement == Spec => ImplementsService
<1> USE CacheAssumption
<1>1. Init => Service!Init
      BY DEF Init, EffectiveTTL, Service!Init, Service!NoReply, phase, Phase
<1>2. ASSUME IInv, [Next]_vars PROVE [Service!Next]_Service!vars
  <2> USE <1>2 DEF IInv
  <2>1. ASSUME NEW r \in Requests, NEW f \in BOOLEAN, Arrive(r, f)
        PROVE  Service!Ask(r, f)
    <3>1. pc[r] = "idle" /\ pc'[r] \in {"direct", "entered"} BY <2>1 DEF Arrive, TypeOK
    <3>2. phase[r] = "idle" /\ phase' = [phase EXCEPT ![r] = "asked"]
          BY <2>1, <3>1 DEF Arrive, TypeOK, phase, Phase
    <3>3. QED BY <2>1, <3>2 DEF Arrive, Service!Ask, cacheVars
  <2>2. ASSUME NEW r \in Requests, Join(r) \/ Lead(r) \/ Collect(r) \/ Publish(r) \/ FailLoad(r)
        PROVE  UNCHANGED Service!vars
    <3>1. phase' = phase
          BY <2>2 DEF Join, Lead, Collect, Publish, FailLoad, TypeOK, phase, Phase
    <3>2. QED BY <2>2, <3>1 DEF Join, Lead, Collect, Publish, FailLoad, Service!vars, cacheVars
  <2>3. ASSUME NEW r \in Requests, GetReturns(r)
        PROVE  Service!Answer(r)
    <3>1. PICK a \in Reply : Running(r) /\ GoodReturn(r, a) /\ Return(r, a)
          BY <2>3 DEF GetReturns
    <3>2. phase[r] = "asked" /\ phase' = [phase EXCEPT ![r] = "answered"]
          BY <3>1 DEF Running, Return, TypeOK, phase, Phase
    <3>3. answer'[r] = a /\ answer' = [answer EXCEPT ![r] = a] /\ a \in Service!Reply
          BY <3>1 DEF Return, TypeOK, Reply, Service!Reply, Statuses, Service!Statuses
    <3>4. Service!GoodReply(r, a) \/ Service!BadReply(a)
          BY <3>1 DEF Return, GoodReturn, Reply, TypeOK, Service!GoodReply, Service!BadReply, cacheVars
    <3>5. QED BY <3>1, <3>2, <3>3, <3>4 DEF Service!Answer, Return, cacheVars
  <2>4. ASSUME Tick PROVE Service!Tick
        BY <2>4 DEF Tick, Service!Tick, cacheVars, callVars, phase, Phase
  <2>5. ASSUME UNCHANGED vars PROVE UNCHANGED Service!vars
        BY <2>5 DEF vars, cacheVars, callVars, Service!vars, phase, Phase
  <2>6. QED BY <2>1, <2>2, <2>3, <2>4, <2>5, NextCases DEF Service!Next
<1>3. QED BY <1>1, <1>2, Inductive, PTL DEF Spec, ImplementsService, Service!Spec
============================================================================
