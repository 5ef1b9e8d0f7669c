-------------------------- MODULE SnapshotService --------------------------
(***************************************************************************)
(* What the HTTP handlers may rely on when they ask the server for a       *)
(* topology snapshot, said without any cache, lock or in-flight load.      *)
(*                                                                         *)
(* A snapshot is represented by the instant at which its collection from   *)
(* the cluster began, so a larger number is a more recent view of the      *)
(* cluster.  0 is the empty snapshot that accompanies an error.            *)
(***************************************************************************)
EXTENDS Integers

CONSTANTS
    Requests    \* the HTTP requests

Statuses == {"hit", "shared", "miss", "disabled", "panic"}

Reply == [status : Statuses, ok : BOOLEAN, snapshot : Nat, cachedAt : Nat]

NoReply == [status |-> "miss", ok |-> FALSE, snapshot |-> 0, cachedAt |-> 0]

VARIABLES
    ttl,        \* effective time to live; negative: no caching at all
    clock,      \* the time
    phase,      \* phase[r] \in {"idle", "asked", "answered"}
    asked,      \* asked[r]: when r entered
    forced,     \* forced[r]: r carries ?refresh=true
    floor,      \* floor[r]: the most recent snapshot served when r entered
    reply,      \* reply[r]: what r was answered
    served      \* the most recent snapshot served so far

vars == <<ttl, clock, phase, asked, forced, floor, reply, served>>

Init ==
    /\ ttl \in Int
    /\ clock = 1
    /\ phase = [r \in Requests |-> "idle"]
    /\ asked = [r \in Requests |-> 0]
    /\ forced = [r \in Requests |-> FALSE]
    /\ floor = [r \in Requests |-> 0]
    /\ reply = [r \in Requests |-> NoReply]
    /\ served = 0

Ask(r, f) ==
    /\ phase[r] = "idle"
    /\ phase' = [phase EXCEPT ![r] = "asked"]
    /\ asked' = [asked EXCEPT ![r] = clock]
    /\ forced' = [forced EXCEPT ![r] = f]
    /\ floor' = [floor EXCEPT ![r] = served]
    /\ UNCHANGED <<ttl, clock, reply, served>>

\* A good answer is never older than any answer given before the request was
\* made.  Without caching it was collected for this request; with caching it
\* became visible no longer than ttl before the request, and for a forced
\* refresh not before it.
GoodReply(r, a) ==
    /\ a.ok
    /\ floor[r] =< a.snapshot
    /\ a.snapshot =< clock
    /\ ttl < 0 => asked[r] =< a.snapshot
    /\ ttl >= 0 =>
         /\ a.snapshot =< a.cachedAt
         /\ asked[r] < a.cachedAt + ttl
         /\ forced[r] => asked[r] =< a.cachedAt
    /\ served' = IF a.snapshot > served THEN a.snapshot ELSE served

BadReply(a) == ~a.ok /\ UNCHANGED served

\* The answer is any reply with these properties (it is named by reply'[r],
\* which spares TLC an enumeration of Reply).
Answer(r) ==
    /\ phase[r] = "asked"
    /\ reply'[r] \in Reply
    /\ reply' = [reply EXCEPT ![r] = reply'[r]]
    /\ GoodReply(r, reply'[r]) \/ BadReply(reply'[r])
    /\ phase' = [phase EXCEPT ![r] = "answered"]
    /\ UNCHANGED <<ttl, clock, asked, forced, floor>>

Tick ==
    /\ clock' = clock + 1
    /\ UNCHANGED <<ttl, phase, asked, forced, floor, reply, served>>

Next ==
    \/ \E r \in Requests : (\E f \in BOOLEAN : Ask(r, f)) \/ Answer(r)
    \/ Tick

Spec == Init /\ [][Next]_vars
============================================================================
