---------------------------- MODULE ViewsProofs ----------------------------
(***************************************************************************)
(* Theorems about MCViews: the team's store on the server, for any calls,  *)
(* bodies, old files, clocks and restarts; the panel of one browser, for   *)
(* any lists, requests, imports and mounts; and the collection of saved    *)
(* views, for any lists, operations and limit.                             *)
(***************************************************************************)
EXTENDS MCViews, SequenceTheorems, FunctionTheorems, FiniteSetTheorems, TLAPS

----------------------------------------------------------------------------
(* The store *)

Inside == {"list", "save", "write", "rename"}

HandlerOK ==
    /\ storage \in {"file", "memory"} /\ now \in 1..MaxNow /\ restarts \in Nat
    /\ mu \in Calls \cup {"none"}
    /\ pc = [c \in Calls |-> pc[c]] /\ reply = [c \in Calls |-> reply[c]]
    /\ \A c \in Calls : pc[c] \in {"new", "lock", "respond", "done", "lost"} \cup Inside
    /\ MutexHeldInside

RequestsOK ==
    /\ request = [c \in Calls |-> request[c]]
    /\ \A c \in Calls :
         /\ request[c].method # "GET" => request[c].presets \in Sanitized
         /\ pc[c] \in {"save", "write", "rename"} => request[c].method # "GET"

\* What a save to the file writes.
Saves == [items : Sanitized, version : 1..MaxNow]

\* The temporary file is that of the save under way, or of one that a restart cut off.
FileOK ==
    /\ tmp # NoFile /\ restarts = 0 => mu # "none" /\ pc[mu] \in {"write", "rename"}
    /\ \A c \in Calls :
         /\ pc[c] \in {"write", "rename"} => storage = "file" /\ reply[c] \in Saves
         /\ pc[c] = "rename" => tmp = reply[c]
    /\ storage = "file" => stored \in OldFiles \cup Saves

\* Calls that a step of the store may have been taken for.
Past == {c \in Calls : pc[c] \in {"respond", "done", "lost"}}

\* What a memory store holds is newer than every answer with another version.
MemoryOK ==
    storage = "memory" =>
        /\ stored \in [items : Sanitized \cup {<<>>}, version : Nat]
        /\ stored.version <= MaxNow + Cardinality(Past)

IsAnswer(c) == pc[c] \in {"respond", "done"} /\ reply[c] \notin Errors

VersionsOK ==
    storage = "memory" /\ restarts = 0 =>
        /\ \A c \in Calls : IsAnswer(c) =>
             /\ reply[c].version \in 0..stored.version
             /\ reply[c].version = stored.version => reply[c].items = stored.items
        /\ \A c, d \in Calls : IsAnswer(c) /\ IsAnswer(d) /\ reply[c].version = reply[d].version
             => reply[c].items = reply[d].items

StoreInv == HandlerOK /\ RequestsOK /\ FileOK /\ MemoryOK /\ VersionsOK

LEMMA StoreConstants ==
    /\ IsFiniteSet(Calls) /\ "none" \notin Calls
    /\ MaxNow \in Nat \ {0} /\ MaxRestarts \in Nat /\ Storages \subseteq {"file", "memory"}
BY ViewsAssumption, StoreAssumption

LEMMA TextsDiffer ==
    /\ NoFile # Malformed
    /\ \A items, version : [items |-> items, version |-> version] \notin {NoFile, Malformed} \cup Errors
    /\ \A s \in Saves : s \notin {NoFile, Malformed} \cup Errors
    /\ NoReply \notin Errors
BY DEF NoFile, Malformed, Errors, Error, Saves, NoReply

\* A call that is somewhere else, when another one moves.
LEMMA OneMoves ==
    ASSUME pc = [c \in Calls |-> pc[c]], NEW c \in Calls, NEW label, GoTo(c, label)
    PROVE  /\ pc' = [d \in Calls |-> pc'[d]] /\ pc'[c] = label
           /\ \A d \in Calls : d # c => pc'[d] = pc[d]
BY DEF GoTo

LEMMA OneReplies ==
    ASSUME reply = [c \in Calls |-> reply[c]], NEW c \in Calls, NEW result,
           reply' = [reply EXCEPT ![c] = result]
    PROVE  /\ reply' = [d \in Calls |-> reply'[d]] /\ reply'[c] = result
           /\ \A d \in Calls : d # c => reply'[d] = reply[d]
OBVIOUS

LEMMA PastIsFinite ==
    IsFiniteSet(Past) /\ Cardinality(Past) \in Nat
<1>1. Past \in SUBSET Calls BY DEF Past
<1>2. QED BY <1>1, StoreConstants, FS_Subset, FS_CardinalityType

LEMMA StoreInitInv == Init => StoreInv
<1> SUFFICES ASSUME Init PROVE StoreInv
  OBVIOUS
<1>1. \A c \in Calls : pc[c] = "new" BY DEF Init
<1>2. HandlerOK BY <1>1, StoreConstants DEF Init, HandlerOK, MutexHeldInside
<1>3. RequestsOK BY <1>1 DEF Init, RequestsOK
<1>4. FileOK BY <1>1 DEF Init, FileOK
<1>5. MemoryOK
  <2> SUFFICES ASSUME storage = "memory" PROVE stored = [items |-> <<>>, version |-> 0]
    BY PastIsFinite, StoreConstants DEF MemoryOK
  <2>1. QED BY DEF Init, NoPresets
<1>6. VersionsOK BY <1>1 DEF VersionsOK, IsAnswer
<1>7. QED BY <1>2, <1>3, <1>4, <1>5, <1>6 DEF StoreInv

\* Every step keeps the mutex with the call that is inside.
LEMMA HandlerStep ==
    ASSUME HandlerOK, [Next]_vars
    PROVE  HandlerOK'
<1>1. ASSUME NEW c \in Calls, Get(c) PROVE HandlerOK'
  BY <1>1, HandlerOK, StoreConstants DEF Get, GoTo, HandlerOK, MutexHeldInside, Inside
<1>2. ASSUME NEW c \in Calls, Put(c) PROVE HandlerOK'
  BY <1>2, HandlerOK, StoreConstants DEF Put, GoTo, HandlerOK, MutexHeldInside, Inside
<1>3. ASSUME NEW c \in Calls, PutMalformed(c) PROVE HandlerOK'
  BY <1>3, HandlerOK, StoreConstants DEF PutMalformed, Respond, GoTo, HandlerOK, MutexHeldInside, Inside
<1>4. ASSUME NEW c \in Calls, Lock(c) PROVE HandlerOK'
  BY <1>4, HandlerOK, StoreConstants DEF Lock, GoTo, HandlerOK, MutexHeldInside, Inside
<1>5. ASSUME NEW c \in Calls, List(c) PROVE HandlerOK'
  BY <1>5, HandlerOK, StoreConstants DEF List, Leave, Respond, GoTo, HandlerOK, MutexHeldInside, Inside
<1>6. ASSUME NEW c \in Calls, ListFails(c) PROVE HandlerOK'
  BY <1>6, HandlerOK, StoreConstants DEF ListFails, Leave, Respond, GoTo, HandlerOK, MutexHeldInside, Inside
<1>7. ASSUME NEW c \in Calls, SaveInMemory(c) PROVE HandlerOK'
  BY <1>7, HandlerOK, StoreConstants DEF SaveInMemory, Leave, Respond, GoTo, HandlerOK, MutexHeldInside, Inside
<1>8. ASSUME NEW c \in Calls, OpenTmp(c) PROVE HandlerOK'
  BY <1>8, HandlerOK, StoreConstants DEF OpenTmp, GoTo, HandlerOK, MutexHeldInside, Inside
<1>9. ASSUME NEW c \in Calls, OpenTmpFails(c) PROVE HandlerOK'
  BY <1>9, HandlerOK, StoreConstants DEF OpenTmpFails, Leave, Respond, GoTo, HandlerOK, MutexHeldInside, Inside
<1>10. ASSUME NEW c \in Calls, WriteAndClose(c) PROVE HandlerOK'
  BY <1>10, HandlerOK, StoreConstants DEF WriteAndClose, GoTo, HandlerOK, MutexHeldInside, Inside
<1>11. ASSUME NEW c \in Calls, Rename(c) PROVE HandlerOK'
  BY <1>11, HandlerOK, StoreConstants DEF Rename, Leave, Respond, GoTo, HandlerOK, MutexHeldInside, Inside
<1>12. ASSUME NEW c \in Calls, SaveFails(c) PROVE HandlerOK'
  BY <1>12, HandlerOK, StoreConstants DEF SaveFails, Leave, Respond, GoTo, HandlerOK, MutexHeldInside, Inside
<1>13. ASSUME NEW c \in Calls, Done(c) PROVE HandlerOK'
  BY <1>13, HandlerOK, StoreConstants DEF Done, GoTo, HandlerOK, MutexHeldInside, Inside
<1>14. ASSUME Restart PROVE HandlerOK'
  BY <1>14, HandlerOK, StoreConstants DEF Restart, HandlerOK, MutexHeldInside, Inside
<1>15. ASSUME SetClock PROVE HandlerOK'
  BY <1>15, HandlerOK, StoreConstants DEF SetClock, HandlerOK, MutexHeldInside, Inside
<1>16. ASSUME UNCHANGED vars PROVE HandlerOK'
  BY <1>16, HandlerOK, StoreConstants DEF vars, HandlerOK, MutexHeldInside, Inside
<1>17. QED
  BY <1>1, <1>2, <1>3, <1>4, <1>5, <1>6, <1>7, <1>8, <1>9, <1>10, <1>11, <1>12, <1>13, <1>14, <1>15, <1>16 DEF Next, Arrive, Step

\* A PUT that reached the store has a sanitized body.
LEMMA RequestsStep ==
    ASSUME HandlerOK, RequestsOK, [Next]_vars
    PROVE  RequestsOK'
<1>1. ASSUME NEW c \in Calls, Get(c) PROVE RequestsOK'
  BY <1>1, HandlerOK, RequestsOK DEF Get, GoTo, HandlerOK, RequestsOK
<1>2. ASSUME NEW c \in Calls, Put(c) PROVE RequestsOK'
  BY <1>2, HandlerOK, RequestsOK DEF Put, GoTo, HandlerOK, RequestsOK, Sanitized
<1>3. ASSUME NEW c \in Calls, PutMalformed(c) PROVE RequestsOK'
  BY <1>3, HandlerOK, RequestsOK DEF PutMalformed, Respond, GoTo, HandlerOK, RequestsOK
<1>4. ASSUME NEW c \in Calls, Lock(c) PROVE RequestsOK'
  BY <1>4, HandlerOK, RequestsOK DEF Lock, GoTo, HandlerOK, RequestsOK
<1>5. ASSUME NEW c \in Calls, List(c) PROVE RequestsOK'
  BY <1>5, HandlerOK, RequestsOK DEF List, Leave, Respond, GoTo, HandlerOK, RequestsOK
<1>6. ASSUME NEW c \in Calls, ListFails(c) PROVE RequestsOK'
  BY <1>6, HandlerOK, RequestsOK DEF ListFails, Leave, Respond, GoTo, HandlerOK, RequestsOK
<1>7. ASSUME NEW c \in Calls, SaveInMemory(c) PROVE RequestsOK'
  BY <1>7, HandlerOK, RequestsOK DEF SaveInMemory, Leave, Respond, GoTo, HandlerOK, RequestsOK
<1>8. ASSUME NEW c \in Calls, OpenTmp(c) PROVE RequestsOK'
  BY <1>8, HandlerOK, RequestsOK DEF OpenTmp, GoTo, HandlerOK, RequestsOK
<1>9. ASSUME NEW c \in Calls, OpenTmpFails(c) PROVE RequestsOK'
  BY <1>9, HandlerOK, RequestsOK DEF OpenTmpFails, Leave, Respond, GoTo, HandlerOK, RequestsOK
<1>10. ASSUME NEW c \in Calls, WriteAndClose(c) PROVE RequestsOK'
  BY <1>10, HandlerOK, RequestsOK DEF WriteAndClose, GoTo, HandlerOK, RequestsOK
<1>11. ASSUME NEW c \in Calls, Rename(c) PROVE RequestsOK'
  BY <1>11, HandlerOK, RequestsOK DEF Rename, Leave, Respond, GoTo, HandlerOK, RequestsOK
<1>12. ASSUME NEW c \in Calls, SaveFails(c) PROVE RequestsOK'
  BY <1>12, HandlerOK, RequestsOK DEF SaveFails, Leave, Respond, GoTo, HandlerOK, RequestsOK
<1>13. ASSUME NEW c \in Calls, Done(c) PROVE RequestsOK'
  BY <1>13, HandlerOK, RequestsOK DEF Done, GoTo, HandlerOK, RequestsOK
<1>14. ASSUME Restart PROVE RequestsOK'
  BY <1>14, HandlerOK, RequestsOK DEF Restart, HandlerOK, RequestsOK
<1>15. ASSUME SetClock PROVE RequestsOK'
  BY <1>15, HandlerOK, RequestsOK DEF SetClock, HandlerOK, RequestsOK
<1>16. ASSUME UNCHANGED vars PROVE RequestsOK'
  BY <1>16, HandlerOK, RequestsOK DEF vars, HandlerOK, RequestsOK
<1>17. QED
  BY <1>1, <1>2, <1>3, <1>4, <1>5, <1>6, <1>7, <1>8, <1>9, <1>10, <1>11, <1>12, <1>13, <1>14, <1>15, <1>16 DEF Next, Arrive, Step

\* A save writes what it will answer, into a file of its own.
LEMMA FileStep ==
    ASSUME HandlerOK, RequestsOK, FileOK, [Next]_vars
    PROVE  FileOK'
<1>1. ASSUME NEW c \in Calls, Get(c) PROVE FileOK'
  BY <1>1, HandlerOK, RequestsOK, FileOK, StoreConstants DEF Get, GoTo, HandlerOK, RequestsOK, FileOK, MutexHeldInside, Inside, Saves
<1>2. ASSUME NEW c \in Calls, Put(c) PROVE FileOK'
  BY <1>2, HandlerOK, RequestsOK, FileOK, StoreConstants DEF Put, GoTo, HandlerOK, RequestsOK, FileOK, MutexHeldInside, Inside, Saves
<1>3. ASSUME NEW c \in Calls, PutMalformed(c) PROVE FileOK'
  BY <1>3, HandlerOK, RequestsOK, FileOK, StoreConstants DEF PutMalformed, Respond, GoTo, HandlerOK, RequestsOK, FileOK, MutexHeldInside, Inside, Saves
<1>4. ASSUME NEW c \in Calls, Lock(c) PROVE FileOK'
  BY <1>4, HandlerOK, RequestsOK, FileOK, StoreConstants DEF Lock, GoTo, HandlerOK, RequestsOK, FileOK, MutexHeldInside, Inside, Saves
<1>5. ASSUME NEW c \in Calls, List(c) PROVE FileOK'
  BY <1>5, HandlerOK, RequestsOK, FileOK, StoreConstants DEF List, Leave, Respond, GoTo, HandlerOK, RequestsOK, FileOK, MutexHeldInside, Inside, Saves
<1>6. ASSUME NEW c \in Calls, ListFails(c) PROVE FileOK'
  BY <1>6, HandlerOK, RequestsOK, FileOK, StoreConstants DEF ListFails, Leave, Respond, GoTo, HandlerOK, RequestsOK, FileOK, MutexHeldInside, Inside, Saves
<1>7. ASSUME NEW c \in Calls, SaveInMemory(c) PROVE FileOK'
  BY <1>7, HandlerOK, RequestsOK, FileOK, StoreConstants DEF SaveInMemory, Leave, Respond, GoTo, HandlerOK, RequestsOK, FileOK, MutexHeldInside, Inside, Saves
<1>8. ASSUME NEW c \in Calls, OpenTmp(c) PROVE FileOK'
  BY <1>8, HandlerOK, RequestsOK, FileOK, StoreConstants DEF OpenTmp, GoTo, HandlerOK, RequestsOK, FileOK, MutexHeldInside, Inside, Saves, NextVersion
<1>9. ASSUME NEW c \in Calls, OpenTmpFails(c) PROVE FileOK'
  BY <1>9, HandlerOK, RequestsOK, FileOK, StoreConstants DEF OpenTmpFails, Leave, Respond, GoTo, HandlerOK, RequestsOK, FileOK, MutexHeldInside, Inside, Saves
<1>10. ASSUME NEW c \in Calls, WriteAndClose(c) PROVE FileOK'
  BY <1>10, HandlerOK, RequestsOK, FileOK, StoreConstants DEF WriteAndClose, GoTo, HandlerOK, RequestsOK, FileOK, MutexHeldInside, Inside, Saves
<1>11. ASSUME NEW c \in Calls, Rename(c) PROVE FileOK'
  BY <1>11, HandlerOK, RequestsOK, FileOK, StoreConstants DEF Rename, Leave, Respond, GoTo, HandlerOK, RequestsOK, FileOK, MutexHeldInside, Inside, Saves
<1>12. ASSUME NEW c \in Calls, SaveFails(c) PROVE FileOK'
  BY <1>12, HandlerOK, RequestsOK, FileOK, StoreConstants DEF SaveFails, Leave, Respond, GoTo, HandlerOK, RequestsOK, FileOK, MutexHeldInside, Inside, Saves
<1>13. ASSUME NEW c \in Calls, Done(c) PROVE FileOK'
  BY <1>13, HandlerOK, RequestsOK, FileOK, StoreConstants DEF Done, GoTo, HandlerOK, RequestsOK, FileOK, MutexHeldInside, Inside, Saves
<1>14. ASSUME Restart PROVE FileOK'
  BY <1>14, HandlerOK, RequestsOK, FileOK, StoreConstants DEF Restart, HandlerOK, RequestsOK, FileOK, MutexHeldInside, Inside, Saves
<1>15. ASSUME SetClock PROVE FileOK'
  BY <1>15, HandlerOK, RequestsOK, FileOK, StoreConstants DEF SetClock, HandlerOK, RequestsOK, FileOK, MutexHeldInside, Inside, Saves
<1>16. ASSUME UNCHANGED vars PROVE FileOK'
  BY <1>16, HandlerOK, RequestsOK, FileOK, StoreConstants DEF vars, HandlerOK, RequestsOK, FileOK, MutexHeldInside, Inside, Saves
<1>17. QED
  BY <1>1, <1>2, <1>3, <1>4, <1>5, <1>6, <1>7, <1>8, <1>9, <1>10, <1>11, <1>12, <1>13, <1>14, <1>15, <1>16 DEF Next, Arrive, Step

LEMMA PastGrows ==
    ASSUME HandlerOK, [Next]_vars
    PROVE  Past \subseteq Past'
<1>1. \A c \in Past : pc'[c] \in {"respond", "done", "lost"}
  <2>1. ASSUME NEW c \in Calls, Arrive(c) \/ Step(c) PROVE \A d \in Past : pc'[d] \in {"respond", "done", "lost"}
    <3>1. pc[c] \notin {"done", "lost"} /\ (pc[c] = "respond" => GoTo(c, "done"))
      BY <2>1 DEF Arrive, Step, Get, Put, PutMalformed, Lock, List, ListFails, SaveInMemory, OpenTmp,
                  OpenTmpFails, WriteAndClose, Rename, SaveFails, Done
    <3>2. \E label : GoTo(c, label)
      <4>1. CASE Get(c) \/ Put(c) \/ PutMalformed(c) \/ Lock(c) \/ List(c) \/ ListFails(c)
        BY <4>1 DEF Get, Put, PutMalformed, Lock, List, ListFails, Leave, Respond
      <4>2. CASE SaveInMemory(c) \/ OpenTmp(c) \/ OpenTmpFails(c) \/ WriteAndClose(c)
        BY <4>2 DEF SaveInMemory, OpenTmp, OpenTmpFails, WriteAndClose, Leave, Respond
      <4>3. CASE Rename(c) \/ SaveFails(c) \/ Done(c)
        BY <4>3 DEF Rename, SaveFails, Done, Leave, Respond
      <4>4. QED BY <2>1, <4>1, <4>2, <4>3 DEF Arrive, Step
    <3>3. QED BY <3>1, <3>2 DEF GoTo, HandlerOK, Past
  <2>2. CASE Restart BY <2>2 DEF Restart, Past
  <2>3. CASE SetClock BY <2>3 DEF SetClock, Past
  <2>4. CASE UNCHANGED vars BY <2>4 DEF vars, Past
  <2>5. QED BY <2>1, <2>2, <2>3, <2>4 DEF Next
<1>2. QED BY <1>1 DEF Past

LEMMA PastAfter ==
    ASSUME HandlerOK, [Next]_vars
    PROVE  /\ Cardinality(Past) \in Nat /\ Cardinality(Past') \in Nat
           /\ Cardinality(Past) <= Cardinality(Past')
           /\ Past # Past' => Cardinality(Past) + 1 <= Cardinality(Past')
<1>1. Past \subseteq Past' BY PastGrows
<1>2. IsFiniteSet(Past') /\ Cardinality(Past') \in Nat
  <2>1. Past' \in SUBSET Calls BY DEF Past
  <2>2. QED BY <2>1, StoreConstants, FS_Subset, FS_CardinalityType
<1>3. Cardinality(Past) <= Cardinality(Past') BY <1>1, <1>2, FS_Subset
<1>4. Past # Past' => Cardinality(Past) # Cardinality(Past')
  BY <1>1, <1>2, FS_Subset
<1>5. QED BY <1>2, <1>3, <1>4, PastIsFinite

\* The version of a memory store is at most what the clock showed and the saves since.
LEMMA MemoryStep ==
    ASSUME HandlerOK, RequestsOK, FileOK, MemoryOK, [Next]_vars
    PROVE  MemoryOK'
<1> SUFFICES ASSUME storage' = "memory"
             PROVE  /\ stored' \in [items : Sanitized \cup {<<>>}, version : Nat]
                    /\ stored'.version <= MaxNow + Cardinality(Past')
  BY DEF MemoryOK
<1>1. storage = "memory"
  BY DEF Next, vars, Arrive, Step, Get, Put, PutMalformed, Lock, List, ListFails, SaveInMemory,
         OpenTmp, OpenTmpFails, WriteAndClose, Rename, SaveFails, Done, Restart, SetClock
<1>2. /\ stored \in [items : Sanitized \cup {<<>>}, version : Nat]
      /\ stored.version <= MaxNow + Cardinality(Past)
  BY <1>1 DEF MemoryOK
<1>3. ASSUME NEW c \in Calls, SaveInMemory(c)
      PROVE  /\ stored' \in [items : Sanitized \cup {<<>>}, version : Nat]
             /\ stored'.version <= MaxNow + Cardinality(Past')
  <2>1. c \in Past' /\ c \notin Past
    BY <1>3 DEF SaveInMemory, Leave, Respond, GoTo, Past, HandlerOK
  <2>2. stored'.version = NextVersion(stored.version) /\ stored'.items = request[c].presets
        /\ stored' \in [items : {request[c].presets}, version : {NextVersion(stored.version)}]
    BY <1>3 DEF SaveInMemory
  <2>3. request[c].presets \in Sanitized BY <1>3 DEF SaveInMemory, RequestsOK
  <2>4. NextVersion(stored.version) \in Nat /\ NextVersion(stored.version) <= MaxNow + Cardinality(Past')
    BY <1>2, <2>1, PastAfter, StoreConstants DEF NextVersion, HandlerOK
  <2>5. QED BY <2>2, <2>3, <2>4
<1>4. CASE Restart
  BY <1>4, <1>1, PastAfter, StoreConstants DEF Restart, NoPresets
<1>5. CASE UNCHANGED stored
  BY <1>5, <1>2, PastAfter, StoreConstants
<1>6. ASSUME NEW c \in Calls, Arrive(c) \/ Step(c) PROVE UNCHANGED stored \/ SaveInMemory(c)
  BY <1>6, <1>1 DEF FileOK, Arrive, Step, Get, Put, PutMalformed, Lock, List, ListFails,
     OpenTmp, OpenTmpFails, WriteAndClose, Rename, SaveFails, Done
<1>7. QED BY <1>3, <1>4, <1>5, <1>6 DEF Next, vars, SetClock

\* A save of the memory store gives a version that no answer has.
LEMMA VersionsStep ==
    ASSUME HandlerOK, RequestsOK, FileOK, MemoryOK, VersionsOK, [Next]_vars
    PROVE  VersionsOK'
<1> SUFFICES ASSUME storage' = "memory", restarts' = 0 PROVE VersionsOK'
  BY DEF VersionsOK
<1>1. storage = "memory"
  BY DEF Next, vars, Arrive, Step, Get, Put, PutMalformed, Lock, List, ListFails, SaveInMemory,
         OpenTmp, OpenTmpFails, WriteAndClose, Rename, SaveFails, Done, Restart, SetClock
<1>2. restarts = 0 /\ ~Restart
  BY DEF Next, vars, Arrive, Step, Get, Put, PutMalformed, Lock, List, ListFails, SaveInMemory,
         OpenTmp, OpenTmpFails, WriteAndClose, Rename, SaveFails, Done, Restart, SetClock, HandlerOK
<1>3. /\ stored.version \in Nat
      /\ \A c \in Calls : IsAnswer(c) =>
             /\ reply[c].version \in 0..stored.version
             /\ reply[c].version = stored.version => reply[c].items = stored.items
      /\ \A c, d \in Calls : IsAnswer(c) /\ IsAnswer(d) /\ reply[c].version = reply[d].version
             => reply[c].items = reply[d].items
  BY <1>1, <1>2 DEF MemoryOK, VersionsOK
<1>4. ASSUME NEW c \in Calls, SaveInMemory(c) PROVE VersionsOK'
  <2>1. /\ reply' = [reply EXCEPT ![c] = stored'] /\ GoTo(c, "respond")
        /\ stored'.version = NextVersion(stored.version)
    BY <1>4 DEF SaveInMemory, Leave, Respond
  <2>2. stored'.version \in Nat /\ stored'.version > stored.version
    BY <1>3, <2>1 DEF NextVersion, HandlerOK
  <2>3. reply'[c] = stored' /\ \A d \in Calls : d # c => reply'[d] = reply[d] /\ pc'[d] = pc[d]
    BY <2>1, OneReplies, OneMoves DEF HandlerOK
  <2>4. \A d \in Calls : d # c /\ IsAnswer(d)' => IsAnswer(d) /\ reply'[d].version \in 0..stored.version
    BY <2>3, <1>3 DEF IsAnswer
  <2>5. QED BY <1>3, <2>2, <2>3, <2>4 DEF VersionsOK
<1>5. ASSUME NEW c \in Calls, List(c) PROVE VersionsOK'
  <2>1. reply' = [reply EXCEPT ![c] = stored] /\ GoTo(c, "respond") /\ stored' = stored
    BY <1>1, <1>5 DEF List, Leave, Respond
  <2>2. reply'[c] = stored /\ \A d \in Calls : d # c => reply'[d] = reply[d] /\ pc'[d] = pc[d]
    BY <2>1, OneReplies, OneMoves DEF HandlerOK
  <2>3. \A d \in Calls : d # c /\ IsAnswer(d)' => IsAnswer(d) BY <2>2 DEF IsAnswer
  <2>4. QED BY <1>3, <2>1, <2>2, <2>3 DEF VersionsOK
<1>6. ASSUME \A d \in Calls : IsAnswer(d)' => IsAnswer(d) /\ reply'[d] = reply[d], stored' = stored
      PROVE  VersionsOK'
  BY <1>3, <1>6 DEF VersionsOK
<1>7. ASSUME NEW c \in Calls, Arrive(c) \/ Step(c)
      PROVE  \/ SaveInMemory(c) \/ List(c)
             \/ (\A d \in Calls : IsAnswer(d)' => IsAnswer(d) /\ reply'[d] = reply[d]) /\ stored' = stored
  <2>1. CASE Get(c) \/ Put(c) \/ Lock(c) \/ Done(c)
    BY <2>1, OneMoves DEF Get, Put, Lock, Done, IsAnswer, HandlerOK
  <2>2. ASSUME NEW e \in Errors, Respond(c, e), stored' = stored
        PROVE  (\A d \in Calls : IsAnswer(d)' => IsAnswer(d) /\ reply'[d] = reply[d]) /\ stored' = stored
    BY <2>2, OneMoves, OneReplies DEF IsAnswer, HandlerOK, Respond
  <2>3. CASE PutMalformed(c) \/ ListFails(c) \/ OpenTmpFails(c)
    BY <2>2, <2>3 DEF PutMalformed, ListFails, OpenTmpFails, Leave, Errors
  <2>4. CASE OpenTmp(c) \/ WriteAndClose(c) \/ Rename(c) \/ SaveFails(c)
    BY <2>4, <1>1 DEF OpenTmp, WriteAndClose, Rename, SaveFails, FileOK
  <2>5. QED BY <1>7, <2>1, <2>3, <2>4 DEF Arrive, Step
<1>8. CASE SetClock \/ UNCHANGED vars BY <1>3, <1>8 DEF SetClock, vars, VersionsOK, IsAnswer
<1>9. QED BY <1>2, <1>4, <1>5, <1>6, <1>7, <1>8 DEF Next

LEMMA StoreStep == StoreInv /\ [Next]_vars => StoreInv'
BY HandlerStep, RequestsStep, FileStep, MemoryStep, VersionsStep DEF StoreInv

LEMMA StoreIsSafe == StoreInv => MutexHeldInside /\ NoStrayFiles /\ VersionTellsViewsApart
<1> SUFFICES ASSUME StoreInv PROVE NoStrayFiles /\ VersionTellsViewsApart
  BY DEF StoreInv, HandlerOK
<1>1. NoStrayFiles BY DEF StoreInv, HandlerOK, FileOK, NoStrayFiles
<1>2. \A c \in Answered : c \in Calls /\ IsAnswer(c)
  BY TextsDiffer DEF Answered, IsAnswer, Snapshots
<1>3. VersionTellsViewsApart
  <2> SUFFICES ASSUME storage = "memory", restarts = 0, NEW c \in Answered, NEW d \in Answered,
                      reply[c].version = reply[d].version
               PROVE  reply[c].items = reply[d].items
    BY DEF VersionTellsViewsApart
  <2>1. QED BY <1>2 DEF StoreInv, VersionsOK
<1>4. QED BY <1>1, <1>3

\* The inductive invariant of the store: the mutex is with the call inside; a save writes what
\* it will answer, into a file that is nobody else's; and what a memory store holds is newer
\* than every answer that shows something else (resource_views.go).
THEOREM StoreInductive == ViewsSpec => [](part = "store" => StoreInv)
<1>1. ViewsInit => (part = "store" => StoreInv)
  BY StoreInitInv DEF ViewsInit
<1>2. (part = "store" => StoreInv) /\ [ViewsNext]_all => (part = "store" => StoreInv)'
  <2> SUFFICES ASSUME part = "store" => StoreInv, [ViewsNext]_all, part' = "store"
               PROVE  StoreInv'
    OBVIOUS
  <2>1. part = "store" BY DEF ViewsNext, all
  <2>2. [Next]_vars BY <2>1 DEF ViewsNext, all, storeOnly, vars
  <2>3. QED BY <2>1, <2>2, StoreStep
<1>3. QED BY <1>1, <1>2, PTL DEF ViewsSpec

\* The mutex is held by exactly the call inside the store and a temporary file is there only
\* while it is held, whichever step of a save failed; two answers of one memory store with one
\* version show the same views, however the clock was set (resource_views.go).
THEOREM SavesStayApart == ViewsSpec => []SavesDoNotMix
<1>1. (part = "store" => StoreInv) => SavesDoNotMix
  BY StoreIsSafe DEF SavesDoNotMix
<1>2. QED BY <1>1, StoreInductive, PTL
----------------------------------------------------------------------------
(* The store is the register *)

LEMMA StoreReadsAsAValue ==
    /\ \A items \in Sanitized : items \in Lists /\ RereadOf[items] = items
    /\ \A text \in OldSnapshots :
         /\ RereadOf[text.items] \in Lists
         /\ ReadBack(text) \in Snapshots
    /\ \A version \in 0..(MaxNow + Cardinality(Calls)), items \in Lists :
           [items |-> items, version |-> version] \in Snapshots
    /\ NoPresets \in Snapshots
<1>1. \A items \in Sanitized : items \in Lists /\ RereadOf[items] = items
  BY ViewsAssumption DEF Lists, RereadOf
<1>2. \A text \in OldSnapshots : RereadOf[text.items] \in Lists
  BY DEF Lists, RereadOf
<1>3. Cardinality(Calls) \in Nat BY StoreConstants, FS_CardinalityType
<1>4. \A version \in 0..(MaxNow + Cardinality(Calls)), items \in Lists :
           [items |-> items, version |-> version] \in Snapshots
  BY DEF Snapshots
<1>5. NoPresets \in Snapshots
  <2>1. <<>> \in Lists BY DEF Lists
  <2>2. 0 \in 0..(MaxNow + Cardinality(Calls)) BY <1>3, StoreConstants
  <2>3. QED BY <1>4, <2>1, <2>2 DEF NoPresets
<1>6. ASSUME NEW text \in OldSnapshots PROVE ReadBack(text) \in Snapshots
  <2>1. text # NoFile BY DEF OldSnapshots
  <2>2. text.version \in {old.version : old \in OldSnapshots} OBVIOUS
  <2>3. QED BY <1>2, <2>1, <2>2 DEF ReadBack, Snapshots
<1>7. QED BY <1>1, <1>2, <1>4, <1>5, <1>6

LEMMA RegisterInit == Init => Register!Init
<1> SUFFICES ASSUME Init PROVE Register!Init
  OBVIOUS
<1>1. Progress = [c \in Calls |-> "new"] /\ Replies = [c \in Calls |-> NoReply]
  BY DEF Init, Progress, Replies, StatusOf
<1>2. Visible \in Snapshots \cup {NoPresets, Malformed}
  <2>1. CASE storage = "memory" BY <2>1 DEF Init, Visible
  <2>2. CASE storage # "memory"
    <3>1. storage = "file" /\ stored \in OldFiles BY <2>2, StoreConstants DEF Init
    <3>2. CASE stored \in {NoFile, Malformed} BY <3>1, <3>2, TextsDiffer DEF Visible, ReadBack
    <3>3. CASE stored \in OldSnapshots BY <3>3, <3>1, StoreReadsAsAValue DEF Visible, OldSnapshots
    <3>4. QED BY <3>1, <3>2, <3>3 DEF OldSnapshots
  <2>3. QED BY <2>1, <2>2
<1>3. QED BY <1>1, <1>2 DEF Register!Init

LEMMA ProgressOfOne ==
    ASSUME HandlerOK, NEW c \in Calls, NEW label, GoTo(c, label)
    PROVE  /\ Progress' = [Progress EXCEPT ![c] = StatusOf(label)]
           /\ Progress[c] = StatusOf(pc[c])
<1>1. \A d \in Calls : pc'[d] = IF d = c THEN label ELSE pc[d]
  BY OneMoves DEF HandlerOK
<1>2. QED BY <1>1 DEF Progress

LEMMA AnswerOfOne ==
    ASSUME HandlerOK, NEW c \in Calls, NEW result, Respond(c, result)
    PROVE  /\ Progress' = [Progress EXCEPT ![c] = "effective"]
           /\ Replies' = [Replies EXCEPT ![c] = result]
<1>1. \A d \in Calls : pc'[d] = (IF d = c THEN "respond" ELSE pc[d])
                       /\ reply'[d] = (IF d = c THEN result ELSE reply[d])
  BY OneMoves, OneReplies DEF HandlerOK, Respond
<1>2. Replies' = [Replies EXCEPT ![c] = result] BY <1>1 DEF Replies
<1>3. Progress' = [Progress EXCEPT ![c] = "effective"] BY ProgressOfOne DEF Respond, StatusOf
<1>4. QED BY <1>2, <1>3

LEMMA ErrorIsAFailure ==
    ASSUME HandlerOK, NEW c \in Calls, NEW e \in Errors, Respond(c, e),
           StatusOf(pc[c]) \in {"new", "open"}, UNCHANGED <<stored, storage>>
    PROVE  Register!Fail(c)
<1>1. Progress[c] = StatusOf(pc[c]) BY DEF Progress
<1>2. Visible' = Visible BY DEF Visible, ReadBack
<1>3. QED BY <1>1, <1>2, AnswerOfOne DEF Register!Fail, Register!TakeEffect

LEMMA InsideIsOpen ==
    /\ \A label \in {"lock"} \cup Inside : StatusOf(label) = "open"
    /\ StatusOf("new") = "new" /\ StatusOf("respond") = "effective"
    /\ StatusOf("done") = "answered" /\ StatusOf("lost") = "lost"
BY DEF StatusOf, Inside

LEMMA ReadsAndErrors ==
    ASSUME StoreInv, NEW c \in Calls
    PROVE  /\ List(c) => Register!Read(c) \/ Register!Fail(c)
           /\ PutMalformed(c) \/ ListFails(c) \/ OpenTmpFails(c) \/ SaveFails(c) => Register!Fail(c)
<1>1. ASSUME List(c), stored # Malformed \/ storage = "memory" PROVE Register!Read(c)
  <2>1. Respond(c, Visible) /\ UNCHANGED <<stored, storage>> /\ pc[c] = "list"
    BY <1>1 DEF List, Leave, Visible
  <2>2. Visible' = Visible BY <2>1 DEF Visible, ReadBack
  <2>3. Visible # Malformed
    <3>1. CASE storage = "memory"
      BY <3>1, TextsDiffer DEF StoreInv, MemoryOK, Visible
    <3>2. CASE storage # "memory"
      BY <1>1, <3>2, TextsDiffer DEF Visible, ReadBack, NoPresets
    <3>3. QED BY <3>1, <3>2
  <2>4. Progress[c] = "open" BY <2>1, InsideIsOpen DEF Progress, Inside
  <2>5. QED BY <2>1, <2>2, <2>3, <2>4, AnswerOfOne DEF Register!Read, Register!TakeEffect, StoreInv
<1>2. ASSUME NEW e \in Errors, Leave(c, e) \/ Respond(c, e), UNCHANGED <<stored, storage>>,
             pc[c] \in {"new"} \cup Inside
      PROVE  Register!Fail(c)
  BY <1>2, ErrorIsAFailure, InsideIsOpen DEF Leave, StoreInv
<1>3. ASSUME List(c), stored = Malformed, storage # "memory" PROVE Register!Fail(c)
  BY <1>2, <1>3 DEF List, Errors, Inside
<1>4. ASSUME PutMalformed(c) \/ ListFails(c) \/ OpenTmpFails(c) \/ SaveFails(c) PROVE Register!Fail(c)
  BY <1>2, <1>4 DEF PutMalformed, ListFails, OpenTmpFails, SaveFails, Errors, Inside
<1>5. QED BY <1>1, <1>3, <1>4

LEMMA SavesAreWrites ==
    ASSUME StoreInv, NEW c \in Calls, [Next]_vars
    PROVE  SaveInMemory(c) \/ Rename(c) => Register!Write(c)
<1>1. Cardinality(Past') \in Nat /\ Cardinality(Calls) \in Nat /\ Cardinality(Past') <= Cardinality(Calls)
  <2>1. Past' \in SUBSET Calls BY DEF Past
  <2>2. QED BY <2>1, StoreConstants, FS_Subset, FS_CardinalityType, PastAfter DEF StoreInv
<1>2. ASSUME NEW items \in Sanitized, NEW version \in Nat,
             version <= MaxNow + Cardinality(Past') \/ version <= MaxNow,
             Visible' = [items |-> items, version |-> version], Respond(c, Visible'),
             UNCHANGED storage, pc[c] \in Inside
      PROVE  Register!Write(c)
  <2>1. version \in 0..(MaxNow + Cardinality(Calls)) BY <1>1, <1>2, StoreConstants
  <2>2. Visible' \in Snapshots BY <1>2, <2>1, StoreReadsAsAValue
  <2>3. Progress[c] = "open" BY <1>2, InsideIsOpen DEF Progress
  <2>4. QED BY <1>2, <2>2, <2>3, AnswerOfOne DEF Register!Write, Register!TakeEffect, StoreInv
<1>3. ASSUME SaveInMemory(c) PROVE Register!Write(c)
  <2>1. /\ storage = "memory" /\ storage' = storage /\ pc[c] = "save" /\ Respond(c, stored')
        /\ stored' = [items |-> request[c].presets, version |-> NextVersion(stored.version)]
    BY <1>3 DEF SaveInMemory, Leave
  <2>2. request[c].presets \in Sanitized BY <2>1 DEF StoreInv, RequestsOK
  <2>3. MemoryOK' BY MemoryStep DEF StoreInv
  <2>4. stored'.version \in Nat /\ stored'.version <= MaxNow + Cardinality(Past')
    BY <2>1, <2>3 DEF MemoryOK
  <2>5. Visible' = stored' BY <2>1 DEF Visible
  <2>6. QED BY <1>2, <2>1, <2>2, <2>4, <2>5 DEF Inside
<1>4. ASSUME Rename(c) PROVE Register!Write(c)
  <2>1. /\ pc[c] = "rename" /\ storage = "file" /\ storage' = "file" /\ Respond(c, reply[c])
        /\ stored' = reply[c] /\ reply[c] \in Saves
    BY <1>4 DEF Rename, Leave, StoreInv, FileOK
  <2>2. PICK items \in Sanitized, version \in 1..MaxNow :
             reply[c] = [items |-> items, version |-> version]
    BY <2>1 DEF Saves
  <2>3. Visible' = reply[c]
    BY <2>1, <2>2, TextsDiffer, StoreReadsAsAValue DEF Visible, ReadBack
  <2>4. version \in Nat /\ version <= MaxNow BY StoreConstants
  <2>5. QED BY <1>2, <2>1, <2>2, <2>3, <2>4 DEF Inside
<1>5. QED BY <1>3, <1>4

LEMMA StepsOfTheRegister ==
    ASSUME StoreInv, NEW c \in Calls
    PROVE  /\ Get(c) \/ Put(c) => Register!Invoke(c)
           /\ Done(c) => Register!Answer(c)
           /\ Lock(c) \/ OpenTmp(c) \/ WriteAndClose(c) => UNCHANGED Register!vars
<1>1. ASSUME NEW label, GoTo(c, label), label \notin {"respond", "done"}, pc[c] \notin {"respond", "done"},
             \A d \in Calls : d # c => reply'[d] = reply[d]
      PROVE  Replies' = Replies
  BY <1>1, OneMoves DEF Replies, StoreInv, HandlerOK
<1>2. ASSUME Get(c) \/ Put(c) PROVE Register!Invoke(c)
  <2>1. GoTo(c, "lock") /\ pc[c] = "new" /\ UNCHANGED <<stored, storage, reply>> BY <1>2 DEF Get, Put
  <2>2. Visible' = Visible BY <2>1 DEF Visible, ReadBack
  <2>3. Replies' = Replies BY <1>1, <2>1
  <2>4. QED BY <2>1, <2>2, <2>3, ProgressOfOne, InsideIsOpen DEF Register!Invoke, StoreInv
<1>3. ASSUME Done(c) PROVE Register!Answer(c)
  <2>1. GoTo(c, "done") /\ pc[c] = "respond" /\ UNCHANGED <<stored, storage, reply>> BY <1>3 DEF Done
  <2>2. Visible' = Visible BY <2>1 DEF Visible, ReadBack
  <2>3. Replies' = Replies BY <2>1, OneMoves DEF Replies, StoreInv, HandlerOK
  <2>4. QED BY <2>1, <2>2, <2>3, ProgressOfOne, InsideIsOpen DEF Register!Answer, StoreInv
<1>4. ASSUME Lock(c) \/ OpenTmp(c) \/ WriteAndClose(c) PROVE UNCHANGED Register!vars
  <2>1. PICK label \in Inside : GoTo(c, label)
    BY <1>4 DEF Lock, OpenTmp, WriteAndClose, Inside
  <2>2. /\ pc[c] \in {"lock"} \cup Inside /\ UNCHANGED <<stored, storage>>
        /\ \A d \in Calls : d # c => reply'[d] = reply[d]
    BY <1>4, OneReplies DEF Lock, OpenTmp, WriteAndClose, Inside, StoreInv, HandlerOK
  <2>3. Visible' = Visible BY <2>2 DEF Visible, ReadBack
  <2>4. Replies' = Replies BY <1>1, <2>1, <2>2 DEF Inside
  <2>5. Progress' = Progress
    <3>1. Progress' = [Progress EXCEPT ![c] = "open"] /\ Progress[c] = "open"
      BY <2>1, <2>2, ProgressOfOne, InsideIsOpen DEF StoreInv
    <3>2. Progress = [d \in Calls |-> Progress[d]] BY DEF Progress
    <3>3. QED BY <3>1, <3>2
  <2>6. QED BY <2>2, <2>3, <2>4, <2>5 DEF Register!vars
<1>5. QED BY <1>2, <1>3, <1>4

LEMMA RestartOfTheRegister ==
    ASSUME StoreInv, Restart
    PROVE  Register!Restart
<1>1. \A c \in Calls : pc'[c] = IF pc[c] \in {"new", "done"} THEN pc[c] ELSE "lost"
  BY DEF Restart
<1>2. Progress' = [c \in Calls |-> IF Progress[c] \in {"open", "effective"} THEN "lost" ELSE Progress[c]]
  <2>1. \A c \in Calls : pc[c] \in {"new", "lock", "respond", "done", "lost"} \cup Inside
    BY DEF StoreInv, HandlerOK
  <2>2. \A c \in Calls : StatusOf(pc'[c]) =
             IF StatusOf(pc[c]) \in {"open", "effective"} THEN "lost" ELSE StatusOf(pc[c])
    BY <1>1, <2>1, InsideIsOpen DEF Inside
  <2>3. QED BY <2>2 DEF Progress
<1>3. Replies' = [c \in Calls |-> IF Progress[c] \in {"open", "effective"} THEN NoReply ELSE Replies[c]]
  <2>1. \A c \in Calls : pc[c] \in {"new", "lock", "respond", "done", "lost"} \cup Inside
    BY DEF StoreInv, HandlerOK
  <2>2. UNCHANGED reply BY DEF Restart
  <2>3. ASSUME NEW c \in Calls
        PROVE  (IF pc'[c] \in {"respond", "done"} THEN reply'[c] ELSE NoReply) =
               IF Progress[c] \in {"open", "effective"} THEN NoReply ELSE Replies[c]
    <3>1. Progress[c] = StatusOf(pc[c]) /\ Replies[c] = IF pc[c] \in {"respond", "done"} THEN reply[c] ELSE NoReply
      BY DEF Progress, Replies
    <3>2. QED BY <1>1, <2>1, <2>2, <3>1, InsideIsOpen DEF Inside
  <2>4. QED BY <2>3 DEF Replies
<1>4. Visible' = IF storage = "file" THEN Visible ELSE NoPresets
  BY DEF Restart, Visible, ReadBack, StoreInv, HandlerOK
<1>5. QED BY <1>2, <1>3, <1>4 DEF Register!Restart, Restart

LEMMA RegisterStep ==
    ASSUME StoreInv, [Next]_vars
    PROVE  [Register!Next]_(Register!vars)
<1>1. ASSUME NEW c \in Calls, Arrive(c) \/ Step(c) PROVE [Register!Next]_(Register!vars)
  <2>1. \/ Register!Invoke(c) \/ Register!Read(c) \/ Register!Write(c) \/ Register!Fail(c)
        \/ Register!Answer(c) \/ UNCHANGED Register!vars
    BY <1>1, ReadsAndErrors, SavesAreWrites, StepsOfTheRegister DEF Arrive, Step
  <2>2. QED BY <2>1 DEF Register!Next
<1>2. CASE Restart BY <1>2, RestartOfTheRegister DEF Register!Next
<1>3. CASE SetClock \/ UNCHANGED vars
  <2>1. UNCHANGED <<storage, stored, pc, reply>> BY <1>3 DEF SetClock, vars
  <2>2. UNCHANGED Register!vars BY <2>1 DEF Register!vars, Visible, ReadBack, Progress, Replies
  <2>3. QED BY <2>2
<1>4. QED BY <1>1, <1>2, <1>3 DEF Next

\* GET and PUT of /api/resource-views, with the file store's three steps, its failures, the
\* clock and the restarts, are one register: a save takes effect when the file is renamed, an
\* error changes nothing, and a restart loses no acknowledged save of a file (resource_views.go).
\* It is under ViewsAssumption, whose last conjunct is what ViewStore_readback refutes.
THEOREM TheStoreIsARegister == ViewsSpec => ImplementsRegister
<1>1. ViewsInit => (part = "store" => Register!Init)
  BY RegisterInit DEF ViewsInit
<1>2. (part = "store" => StoreInv) /\ [ViewsNext]_all
        => [part = "store" => [Register!Next]_(Register!vars)]_all
  <2> SUFFICES ASSUME part = "store", StoreInv, [ViewsNext]_all
               PROVE  [Register!Next]_(Register!vars)
    OBVIOUS
  <2>1. [Next]_vars BY DEF ViewsNext, all, storeOnly, vars
  <2>2. QED BY <2>1, RegisterStep
<1>3. QED BY <1>1, <1>2, StoreInductive, PTL DEF ViewsSpec, ImplementsRegister
----------------------------------------------------------------------------
(* The panel *)

CallsOK ==
    /\ IsList(calls)
    /\ \A i \in DOMAIN calls :
         /\ calls[i] = [kind |-> calls[i].kind, mount |-> calls[i].mount, base |-> calls[i].base,
                        handled |-> calls[i].handled, answer |-> calls[i].answer]
         /\ calls[i].mount \in 0..mount

\* A request to the team's store that this panel waits for.
Awaited(i) == calls[i].kind # "import" /\ P!Here(i)

SpinnerOK ==
    \A i \in DOMAIN calls : Awaited(i) =>
        /\ teamLoading /\ ~saveConfirm
        /\ \A j \in DOMAIN calls : Awaited(j) => i = j

ConsentOK == P!SaveWasCompared /\ P!DeleteWasAnnounced

PanelInv == open \in BOOLEAN /\ mount \in Nat /\ CallsOK /\ SpinnerOK /\ ConsentOK

LEMMA ListsAreSequences ==
    ASSUME NEW s, IsList(s)
    PROVE  s \in Seq({s[i] : i \in 1..Len(s)}) /\ DOMAIN s = 1..Len(s)
BY DEF IsList

LEMMA SequencesAreLists ==
    ASSUME NEW S, NEW s \in Seq(S)
    PROVE  IsList(s)
BY DEF IsList

LEMMA PlacesAreNumbers ==
    ASSUME NEW s, IsList(s), NEW i \in DOMAIN s
    PROVE  i \in Nat
BY ListsAreSequences DEF IsList

LEMMA AppendedList ==
    ASSUME NEW s, IsList(s), NEW e
    PROVE  /\ IsList(Append(s, e)) /\ Len(Append(s, e)) = Len(s) + 1
           /\ Append(s, e)[Len(s) + 1] = e
           /\ \A i \in 1..Len(s) : Append(s, e)[i] = s[i]
<1> DEFINE S == {s[i] : i \in 1..Len(s)} \cup {e}
<1>1. s \in Seq(S)
  <2>1. \A i \in 1..Len(s) : s[i] \in S OBVIOUS
  <2>2. QED BY <2>1 DEF IsList
<1>2. e \in S OBVIOUS
<1> HIDE DEF S
<1>3. Append(s, e) \in Seq(S) BY <1>1, <1>2
<1>4. IsList(Append(s, e)) BY <1>3, SequencesAreLists
<1>5. /\ Len(Append(s, e)) = Len(s) + 1 /\ Append(s, e)[Len(s) + 1] = e
      /\ \A i \in 1..Len(s) : Append(s, e)[i] = s[i]
  BY <1>1, <1>2, AppendProperties
<1>6. QED BY <1>4, <1>5

LEMMA RemovedAt ==
    ASSUME NEW s, IsList(s), NEW c \in 1..Len(s)
    PROVE  /\ IsList(P!RemoveAt(s, c)) /\ Len(P!RemoveAt(s, c)) = Len(s) - 1
           /\ \A i \in 1..(Len(s) - 1) : P!RemoveAt(s, c)[i] = IF i < c THEN s[i] ELSE s[i + 1]
<1> DEFINE S == {s[i] : i \in 1..Len(s)}
           front == SubSeq(s, 1, c - 1)
           back == SubSeq(s, c + 1, Len(s))
<1>1. s \in Seq(S) BY ListsAreSequences
<1>2. Len(s) \in Nat BY DEF IsList
<1> HIDE DEF S
<1>3. front \in Seq(S) /\ Len(front) = c - 1 /\ \A i \in 1..(c - 1) : front[i] = s[i]
  BY <1>1, <1>2
<1>4. back \in Seq(S) /\ Len(back) = Len(s) - c /\ \A i \in 1..(Len(s) - c) : back[i] = s[c + i]
  BY <1>1, <1>2
<1> HIDE DEF front, back
<1>5. front \o back \in Seq(S) /\ Len(front \o back) = Len(s) - 1
  <2>1. front \o back \in Seq(S) /\ Len(front \o back) = Len(front) + Len(back)
    BY <1>3, <1>4, ConcatProperties
  <2>2. c - 1 + (Len(s) - c) = Len(s) - 1 BY <1>2
  <2>3. QED BY <1>3, <1>4, <2>1, <2>2
<1>6. ASSUME NEW i \in 1..(Len(s) - 1)
      PROVE  (front \o back)[i] = IF i < c THEN s[i] ELSE s[i + 1]
  <2>1. CASE i < c BY <2>1, <1>2, <1>3, <1>4
  <2>2. CASE ~(i < c)
    <3>1. (front \o back)[i] = back[i - (c - 1)] BY <2>2, <1>2, <1>3, <1>4
    <3>2. i - (c - 1) \in 1..(Len(s) - c) BY <2>2, <1>2
    <3>3. back[i - (c - 1)] = s[c + (i - (c - 1))] BY <1>4, <3>2
    <3>4. c + (i - (c - 1)) = i + 1 BY <1>2
    <3>5. QED BY <2>2, <3>1, <3>3, <3>4
  <2>3. QED BY <2>1, <2>2
<1>7. P!RemoveAt(s, c) = front \o back BY DEF P!RemoveAt, front, back
<1>8. QED BY <1>5, <1>6, <1>7, SequencesAreLists

\* What the user does to the lists and what he clicks sends nothing, and never brings a
\* question up that is not about what is shown.
LEMMA EditsAndClicks ==
    ASSUME ConsentOK, P!EditNext \/ P!ClickNext \/ P!OthersSave
    PROVE  UNCHANGED <<calls, open, mount, teamLoading>> /\ (saveConfirm' => saveConfirm) /\ ConsentOK'
<1> USE DEF ConsentOK, P!SaveWasCompared, P!DeleteWasAnnounced, P!requests, P!world
<1>1. ASSUME P!Edit PROVE UNCHANGED <<calls, open, mount, teamLoading>> BY <1>1 DEF P!Edit
<1>2. ASSUME NEW new, NEW chosen, P!SetViews(new, chosen) PROVE ~saveConfirm' /\ ~bulkConfirm'
  BY <1>2 DEF P!SetViews
<1>3. CASE P!SaveView BY <1>3, <1>1, <1>2 DEF P!SaveView
<1>4. CASE P!DeleteView BY <1>4, <1>1, <1>2 DEF P!DeleteView
<1>5. CASE P!BulkMove BY <1>5, <1>1, <1>2 DEF P!BulkMove
<1>6. CASE P!BulkDelete BY <1>6, <1>1, <1>2 DEF P!BulkDelete
<1>7. CASE P!CommitRename BY <1>7, <1>1, <1>2 DEF P!CommitRename
<1>8. CASE P!ChangeGroup BY <1>8, <1>1, <1>2 DEF P!ChangeGroup
<1>9. CASE P!MoveView BY <1>9, <1>1, <1>2 DEF P!MoveView
<1>10. CASE P!DropView BY <1>10, <1>1, <1>2 DEF P!DropView
<1>11. CASE P!ApplyTeamLoad
  <2>1. ~saveConfirm BY <1>11 DEF P!ApplyTeamLoad
  <2>2. P!TakeIn(views, compare.incoming, P!None) /\ UNCHANGED <<calls, open, mount, teamLoading>>
    BY <1>11 DEF P!ApplyTeamLoad
  <2>3. ~saveConfirm' /\ (bulkConfirm' => announced' = selected')
    BY <2>1, <2>2, <1>2 DEF P!TakeIn, P!picks
  <2>4. QED BY <2>2, <2>3
<1>12. CASE P!ResolveConflicts BY <1>12, <1>2 DEF P!ResolveConflicts
<1>13. ASSUME NEW chosen, P!Picking(chosen)
       PROVE  UNCHANGED <<calls, open, mount, teamLoading>> /\ (saveConfirm' => saveConfirm) /\ ConsentOK'
  BY <1>13 DEF P!Picking, P!preview
<1>14. CASE P!Toggle \/ P!ToggleShown \/ P!ClearSelection \/ P!ExportSelected
  BY <1>13, <1>14 DEF P!Toggle, P!ToggleShown, P!ClearSelection, P!ExportSelected
<1>15. CASE P!AskBulkDelete BY <1>15 DEF P!AskBulkDelete, P!preview
<1>16. CASE P!StartRename \/ P!CloseDialog \/ P!OthersSave
  BY <1>16 DEF P!StartRename, P!CloseDialog, P!OthersSave, P!preview, P!picks
<1>17. CASE P!Dismiss \/ P!SwitchSource BY <1>17 DEF P!Dismiss, P!SwitchSource, P!preview, P!picks
<1>18. QED
  BY <1>3, <1>4, <1>5, <1>6, <1>7, <1>8, <1>9, <1>10, <1>11, <1>12, <1>14, <1>15, <1>16, <1>17
     DEF P!EditNext, P!ClickNext

\* A new call is of this mount; one for the team is made only when none is awaited, and it
\* takes the question of the save button back or found none.
LEMMA CallsAreMade ==
    ASSUME PanelInv, P!CallNext
    PROVE  PanelInv'
<1>1. PICK kind \in {"load", "prepare", "confirm", "import"} :
          /\ P!Call(kind)
          /\ kind # "import" => ~teamLoading /\ teamLoading' /\ ~saveConfirm'
          /\ kind = "import" => UNCHANGED <<teamLoading, saveConfirm>>
          /\ UNCHANGED compare /\ (saveConfirm' => saveConfirm)
  <2>1. CASE P!LoadTeam BY <2>1 DEF P!LoadTeam, P!TeamCall
  <2>2. CASE P!PrepareSave BY <2>2 DEF P!PrepareSave, P!TeamCall, P!preview
  <2>3. CASE P!ConfirmSave BY <2>3 DEF P!ConfirmSave, P!TeamCall
  <2>4. CASE P!ImportFile BY <2>4 DEF P!ImportFile, P!preview
  <2>5. QED BY <2>1, <2>2, <2>3, <2>4 DEF P!CallNext
<1> DEFINE new == [kind |-> kind, mount |-> mount, base |-> views, handled |-> FALSE, answer |-> P!NoAnswer]
<1>2. /\ open /\ calls' = Append(calls, new) /\ UNCHANGED <<open, mount>>
      /\ UNCHANGED <<selected, bulkConfirm, announced>>
  BY <1>1 DEF P!Call, P!world, P!picks
<1>3. mount \in Nat /\ IsList(calls) /\ DOMAIN calls = 1..Len(calls) /\ Len(calls) \in Nat
  BY ListsAreSequences DEF PanelInv, CallsOK, IsList
<1>4. /\ IsList(calls') /\ Len(calls') = Len(calls) + 1 /\ calls'[Len(calls) + 1] = new
      /\ \A i \in 1..Len(calls) : calls'[i] = calls[i]
  BY <1>2, <1>3, AppendedList
<1>5. DOMAIN calls' = 1..(Len(calls) + 1) BY <1>4, ListsAreSequences
<1>6. CallsOK'
  <2> SUFFICES ASSUME NEW i \in DOMAIN calls'
               PROVE  /\ calls'[i] = [kind |-> calls'[i].kind, mount |-> calls'[i].mount, base |-> calls'[i].base,
                                      handled |-> calls'[i].handled, answer |-> calls'[i].answer]
                      /\ calls'[i].mount \in 0..mount
    BY <1>2, <1>4 DEF CallsOK
  <2>1. CASE i = Len(calls) + 1 BY <1>3, <1>4, <2>1
  <2>2. CASE i \in 1..Len(calls) BY <1>3, <1>4, <2>2 DEF PanelInv, CallsOK
  <2>3. QED BY <1>3, <1>5, <2>1, <2>2
<1>7. SpinnerOK'
  <2>1. \A i \in 1..Len(calls) : Awaited(i)' <=> Awaited(i)
    BY <1>2, <1>4 DEF Awaited, P!Here
  <2>2. \A i : i = Len(calls) + 1 => (Awaited(i)' <=> kind # "import") BY <1>2, <1>4 DEF Awaited, P!Here
  <2>3. \A i \in 1..Len(calls) : Awaited(i) => teamLoading /\ kind = "import"
                                   /\ \A j \in 1..Len(calls) : Awaited(j) => i = j
    BY <1>1, <1>3 DEF PanelInv, SpinnerOK
  <2>4. \A i \in DOMAIN calls' : i \in 1..Len(calls) \/ i = Len(calls) + 1 BY <1>3, <1>5
  <2>5. ASSUME NEW i \in DOMAIN calls', Awaited(i)' PROVE teamLoading' /\ ~saveConfirm'
    <3>1. CASE kind = "import"
      <4>1. i \in 1..Len(calls) /\ Awaited(i) BY <2>1, <2>2, <2>4, <2>5, <3>1
      <4>2. teamLoading /\ ~saveConfirm BY <1>3, <4>1 DEF PanelInv, SpinnerOK
      <4>3. QED BY <1>1, <3>1, <4>2
    <3>2. CASE kind # "import" BY <1>1, <3>2
    <3>3. QED BY <3>1, <3>2
  <2>6. ASSUME NEW i \in DOMAIN calls', Awaited(i)', NEW j \in DOMAIN calls', Awaited(j)' PROVE i = j
    BY <2>1, <2>2, <2>3, <2>4, <2>6
  <2>7. QED BY <2>5, <2>6 DEF SpinnerOK
<1>8. ConsentOK'
  BY <1>1, <1>2 DEF PanelInv, ConsentOK, P!SaveWasCompared, P!DeleteWasAnnounced
<1>9. QED BY <1>2, <1>6, <1>7, <1>8 DEF PanelInv

LEMMA HandledCalls ==
    ASSUME PanelInv, NEW c \in DOMAIN calls, P!Handle(c)
    PROVE  PanelInv'
<1>1. /\ IsList(calls) /\ DOMAIN calls = 1..Len(calls)
      /\ \A i \in DOMAIN calls :
           calls[i] = [kind |-> calls[i].kind, mount |-> calls[i].mount, base |-> calls[i].base,
                       handled |-> calls[i].handled, answer |-> calls[i].answer]
  BY ListsAreSequences DEF PanelInv, CallsOK
<1>2. PICK result : calls' = [calls EXCEPT ![c] = [calls[c] EXCEPT !.handled = TRUE, !.answer = result]]
  BY <1>1 DEF P!Handle
<1>3. UNCHANGED <<open, mount, teamLoading, saveConfirm, compare, bulkConfirm, announced, selected>>
  BY DEF P!Handle, P!preview, P!picks
<1>4. Len(calls') = Len(calls) /\ IsList(calls') /\ DOMAIN calls' = DOMAIN calls
  <2>1. DOMAIN calls' = 1..Len(calls) /\ calls' = [i \in 1..Len(calls) |-> calls'[i]] /\ Len(calls) \in Nat
    BY <1>1, <1>2 DEF IsList
  <2>2. calls' \in Seq({calls'[i] : i \in 1..Len(calls)}) BY <2>1
  <2>3. QED BY <1>1, <2>1, <2>2, SequencesAreLists, ListsAreSequences
<1>5. \A i \in DOMAIN calls : /\ calls'[i].kind = calls[i].kind /\ calls'[i].mount = calls[i].mount
            /\ calls'[i] = [kind |-> calls'[i].kind, mount |-> calls'[i].mount, base |-> calls'[i].base,
                            handled |-> calls'[i].handled, answer |-> calls'[i].answer]
  <2> SUFFICES ASSUME NEW i \in DOMAIN calls
               PROVE  /\ calls'[i].kind = calls[i].kind /\ calls'[i].mount = calls[i].mount
                      /\ calls'[i] = [kind |-> calls'[i].kind, mount |-> calls'[i].mount, base |-> calls'[i].base,
                                      handled |-> calls'[i].handled, answer |-> calls'[i].answer]
    OBVIOUS
  <2>1. CASE i = c
    <3>1. calls'[c] = [kind |-> calls[c].kind, mount |-> calls[c].mount, base |-> calls[c].base,
                       handled |-> TRUE, answer |-> result]
      <4>1. calls'[c] = [calls[c] EXCEPT !.handled = TRUE, !.answer = result]
        BY <1>1, <1>2 DEF IsList
      <4>2. PICK r : calls[c] = [kind |-> r.kind, mount |-> r.mount, base |-> r.base,
                                 handled |-> r.handled, answer |-> r.answer] /\ r = calls[c]
        BY <1>1
      <4>3. QED BY <4>1, <4>2
    <3>2. QED BY <2>1, <3>1
  <2>2. CASE i # c BY <1>1, <1>2, <2>2
  <2>3. QED BY <2>1, <2>2
<1>6. CallsOK' BY <1>3, <1>4, <1>5 DEF PanelInv, CallsOK
<1>7. SpinnerOK'
  <2>1. \A i \in DOMAIN calls : Awaited(i)' <=> Awaited(i) BY <1>3, <1>5 DEF Awaited, P!Here
  <2>2. QED BY <1>3, <1>4, <2>1 DEF PanelInv, SpinnerOK
<1>8. QED
  BY <1>3, <1>6, <1>7 DEF PanelInv, ConsentOK, P!SaveWasCompared, P!DeleteWasAnnounced

\* The calls that are left when one has ended, and what the panel still waits for.
LEMMA OneCallEnds ==
    ASSUME PanelInv, NEW c \in DOMAIN calls, P!End(c)
    PROVE  /\ UNCHANGED <<open, mount>> /\ CallsOK'
           /\ \A i \in DOMAIN calls' : Awaited(i)' =>
                \E k \in DOMAIN calls \ {c} : Awaited(k) /\ k = IF i < c THEN i ELSE i + 1
<1>1. UNCHANGED <<open, mount>> /\ calls' = P!RemoveAt(calls, c) BY DEF P!End, P!world
<1>2. IsList(calls) /\ DOMAIN calls = 1..Len(calls) /\ Len(calls) \in Nat /\ c \in 1..Len(calls)
  BY ListsAreSequences DEF PanelInv, CallsOK, IsList
<1>3. /\ IsList(calls') /\ Len(calls') = Len(calls) - 1
      /\ \A i \in 1..(Len(calls) - 1) : calls'[i] = IF i < c THEN calls[i] ELSE calls[i + 1]
  BY <1>1, <1>2, RemovedAt
<1>4. DOMAIN calls' = 1..(Len(calls) - 1) BY <1>3, ListsAreSequences
<1>5. \A i \in DOMAIN calls' : \E k \in DOMAIN calls \ {c} :
          k = (IF i < c THEN i ELSE i + 1) /\ calls'[i] = calls[k]
  <2> SUFFICES ASSUME NEW i \in DOMAIN calls'
               PROVE  \E k \in DOMAIN calls \ {c} : k = (IF i < c THEN i ELSE i + 1) /\ calls'[i] = calls[k]
    OBVIOUS
  <2>1. i \in 1..(Len(calls) - 1) BY <1>4
  <2>2. (IF i < c THEN i ELSE i + 1) \in (1..Len(calls)) \ {c} BY <1>2, <2>1
  <2>3. calls'[i] = calls[IF i < c THEN i ELSE i + 1] BY <1>3, <2>1
  <2>4. QED BY <1>2, <2>2, <2>3
<1>6. CallsOK'
  <2>1. ASSUME NEW i \in DOMAIN calls'
        PROVE  /\ calls'[i] = [kind |-> calls'[i].kind, mount |-> calls'[i].mount, base |-> calls'[i].base,
                               handled |-> calls'[i].handled, answer |-> calls'[i].answer]
               /\ calls'[i].mount \in 0..mount'
    <3>1. PICK k \in DOMAIN calls : calls'[i] = calls[k] BY <1>5, <2>1
    <3>2. QED BY <1>1, <3>1 DEF PanelInv, CallsOK
  <2>2. QED BY <1>3, <2>1 DEF CallsOK
<1>7. ASSUME NEW i \in DOMAIN calls', Awaited(i)'
      PROVE  \E k \in DOMAIN calls \ {c} : Awaited(k) /\ k = IF i < c THEN i ELSE i + 1
  <2>1. PICK k \in DOMAIN calls \ {c} : k = (IF i < c THEN i ELSE i + 1) /\ calls'[i] = calls[k] BY <1>5
  <2>2. Awaited(k) BY <1>1, <1>7, <2>1 DEF Awaited, P!Here
  <2>3. QED BY <2>1, <2>2
<1>8. QED BY <1>1, <1>6, <1>7

\* Once a team's call has ended, none is awaited if it was, and the spinner stays for another.
LEMMA TeamCallEnds ==
    ASSUME PanelInv, NEW c \in DOMAIN calls, P!EndTeamCall(c), calls[c].kind # "import",
           P!Here(c) \/ (saveConfirm' => saveConfirm)
    PROVE  SpinnerOK'
<1>1. P!End(c) /\ (teamLoading' = (teamLoading /\ ~P!Here(c))) BY DEF P!EndTeamCall
<1>2. CASE P!Here(c)
  <2>1. \A k \in DOMAIN calls \ {c} : ~Awaited(k) BY <1>2 DEF Awaited, PanelInv, SpinnerOK
  <2>2. \A i \in DOMAIN calls' : ~Awaited(i)' BY <1>1, <2>1, OneCallEnds
  <2>3. QED BY <2>2 DEF SpinnerOK
<1>3. CASE ~P!Here(c)
  <2>1. \A i \in DOMAIN calls' : Awaited(i)' => \E k \in DOMAIN calls : Awaited(k) BY <1>1, OneCallEnds
  <2>2. ASSUME NEW i \in DOMAIN calls', Awaited(i)' PROVE teamLoading' /\ ~saveConfirm'
    <3>1. teamLoading /\ ~saveConfirm BY <2>1, <2>2 DEF PanelInv, SpinnerOK
    <3>2. QED BY <1>1, <1>3, <3>1
  <2>3. ASSUME NEW i \in DOMAIN calls', Awaited(i)', NEW j \in DOMAIN calls', Awaited(j)' PROVE i = j
    <3>1. (IF i < c THEN i ELSE i + 1) = (IF j < c THEN j ELSE j + 1)
      BY <1>1, <2>3, OneCallEnds DEF PanelInv, SpinnerOK
    <3>2. i \in Nat /\ j \in Nat /\ c \in Nat
      <4>1. IsList(calls) /\ IsList(calls') BY <1>1, OneCallEnds DEF PanelInv, CallsOK
      <4>2. QED BY <4>1, PlacesAreNumbers
    <3>3. QED BY <3>1, <3>2
  <2>4. QED BY <2>2, <2>3 DEF SpinnerOK
<1>4. QED BY <1>2, <1>3

LEMMA ComparedStep ==
    ASSUME PanelInv, NEW c \in DOMAIN calls, P!Compared(c)
    PROVE  PanelInv'
<1>1. P!EndTeamCall(c) /\ P!End(c) /\ calls[c].kind \in {"load", "prepare"} BY DEF P!Compared, P!EndTeamCall
<1>2. P!Here(c) \/ (saveConfirm' => saveConfirm) BY DEF P!Compared, P!preview
<1>3. UNCHANGED <<selected, bulkConfirm, announced>> BY DEF P!Compared, P!picks
<1>4. P!SaveWasCompared'
  <2>1. CASE P!Here(c)
    <3>1. ~saveConfirm BY <1>1, <2>1 DEF PanelInv, SpinnerOK, Awaited
    <3>2. CASE calls[c].kind = "load"
      BY <2>1, <3>1, <3>2 DEF P!Compared, P!SaveWasCompared
    <3>3. CASE calls[c].kind = "prepare"
      BY <2>1, <3>3 DEF P!Compared, P!SaveWasCompared, P!ComparePreview
    <3>4. QED BY <1>1, <3>2, <3>3
  <2>2. CASE ~P!Here(c)
    BY <2>2 DEF P!Compared, P!preview, P!SaveWasCompared, PanelInv, ConsentOK
  <2>3. QED BY <2>1, <2>2
<1>5. SpinnerOK' BY <1>1, <1>2, TeamCallEnds
<1>6. UNCHANGED <<open, mount>> /\ CallsOK' BY <1>1, OneCallEnds
<1>7. QED BY <1>3, <1>4, <1>5, <1>6 DEF PanelInv, ConsentOK, P!DeleteWasAnnounced

LEMMA SavedStep ==
    ASSUME PanelInv, NEW c \in DOMAIN calls, P!Saved(c)
    PROVE  PanelInv'
<1>1. P!EndTeamCall(c) /\ P!End(c) /\ calls[c].kind = "confirm" BY DEF P!Saved, P!EndTeamCall
<1>2. (saveConfirm' => saveConfirm) /\ ConsentOK'
  <2>1. CASE P!Here(c)
    BY <2>1 DEF P!Saved, P!SetViews, ConsentOK, P!SaveWasCompared, P!DeleteWasAnnounced
  <2>2. CASE ~P!Here(c)
    BY <2>2 DEF P!Saved, P!picks, P!preview, ConsentOK, P!SaveWasCompared, P!DeleteWasAnnounced, PanelInv
  <2>3. QED BY <2>1, <2>2
<1>3. SpinnerOK' BY <1>1, <1>2, TeamCallEnds
<1>4. UNCHANGED <<open, mount>> /\ CallsOK' BY <1>1, OneCallEnds
<1>5. QED BY <1>2, <1>3, <1>4 DEF PanelInv

LEMMA FailedStep ==
    ASSUME PanelInv, NEW c \in DOMAIN calls, P!Fails(c)
    PROVE  PanelInv'
<1>1. P!EndTeamCall(c) /\ P!End(c) /\ calls[c].kind # "import" BY DEF P!Fails, P!EndTeamCall
<1>2. UNCHANGED <<selected, bulkConfirm, announced>> BY DEF P!Fails, P!picks
<1>3. (saveConfirm' => saveConfirm) /\ P!SaveWasCompared'
  <2>1. CASE P!Here(c)
    <3>1. ~saveConfirm BY <1>1, <2>1 DEF PanelInv, SpinnerOK, Awaited
    <3>2. QED BY <2>1, <3>1 DEF P!Fails, P!SaveWasCompared
  <2>2. CASE ~P!Here(c)
    BY <2>2 DEF P!Fails, P!preview, P!SaveWasCompared, PanelInv, ConsentOK
  <2>3. QED BY <2>1, <2>2
<1>4. SpinnerOK' BY <1>1, <1>3, TeamCallEnds
<1>5. UNCHANGED <<open, mount>> /\ CallsOK' BY <1>1, OneCallEnds
<1>6. QED BY <1>2, <1>3, <1>4, <1>5 DEF PanelInv, ConsentOK, P!DeleteWasAnnounced

LEMMA ImportedStep ==
    ASSUME PanelInv, NEW c \in DOMAIN calls, P!Imported(c)
    PROVE  PanelInv'
<1>1. P!End(c) /\ calls[c].kind = "import" /\ UNCHANGED teamLoading BY DEF P!Imported
<1>2. ASSUME NEW base, NEW incoming, P!TakeIn(base, incoming, compare)
      PROVE  (saveConfirm' => saveConfirm) /\ ConsentOK'
  BY <1>2 DEF P!TakeIn, P!SetViews, P!picks, ConsentOK, P!SaveWasCompared, P!DeleteWasAnnounced, PanelInv
<1>3. ASSUME UNCHANGED <<P!picks, P!preview>> PROVE (saveConfirm' => saveConfirm) /\ ConsentOK'
  BY <1>3 DEF P!picks, P!preview, ConsentOK, P!SaveWasCompared, P!DeleteWasAnnounced, PanelInv
<1>4. (saveConfirm' => saveConfirm) /\ ConsentOK'
  <2>1. CASE P!Here(c) BY <1>2, <1>3, <2>1 DEF P!Imported
  <2>2. CASE ~P!Here(c) BY <1>3, <2>2 DEF P!Imported
  <2>3. QED BY <2>1, <2>2
<1>5. UNCHANGED <<open, mount>> /\ CallsOK' BY <1>1, OneCallEnds
<1>6. SpinnerOK'
  <2>1. \A i \in DOMAIN calls' : Awaited(i)' => \E k \in DOMAIN calls : Awaited(k) BY <1>1, OneCallEnds
  <2>2. ASSUME NEW i \in DOMAIN calls', Awaited(i)' PROVE teamLoading' /\ ~saveConfirm'
    BY <1>1, <1>4, <2>1, <2>2 DEF PanelInv, SpinnerOK
  <2>3. ASSUME NEW i \in DOMAIN calls', Awaited(i)', NEW j \in DOMAIN calls', Awaited(j)' PROVE i = j
    <3>1. (IF i < c THEN i ELSE i + 1) = (IF j < c THEN j ELSE j + 1)
      BY <1>1, <2>3, OneCallEnds DEF PanelInv, SpinnerOK
    <3>2. i \in Nat /\ j \in Nat /\ c \in Nat
      <4>1. IsList(calls) /\ IsList(calls') BY <1>1, OneCallEnds DEF PanelInv, CallsOK
      <4>2. QED BY <4>1, PlacesAreNumbers
    <3>3. QED BY <3>1, <3>2
  <2>4. QED BY <2>2, <2>3 DEF SpinnerOK
<1>7. QED BY <1>4, <1>5, <1>6 DEF PanelInv

\* A panel that was left waits for nothing, and one that is opened again for nothing yet.
LEMMA MountsStep ==
    ASSUME PanelInv, P!Close \/ P!Reopen
    PROVE  PanelInv'
<1>1. calls' = calls /\ mount' \in Nat /\ open' \in BOOLEAN /\ (mount' = mount \/ mount' = mount + 1)
  <2>1. calls' = calls /\ (mount' = mount \/ mount' = mount + 1) BY DEF P!Close, P!Reopen, P!requests
  <2>2. open' = TRUE \/ open' = FALSE BY DEF P!Close, P!Reopen
  <2>3. open' \in BOOLEAN BY <2>2
  <2>4. mount \in Nat BY DEF PanelInv
  <2>5. mount' \in Nat BY <2>1, <2>4
  <2>6. QED BY <2>1, <2>3, <2>5
<1>2. CallsOK' BY <1>1 DEF PanelInv, CallsOK
<1>3. \A i \in DOMAIN calls : ~Awaited(i)'
  <2>1. CASE P!Close BY <2>1 DEF P!Close, Awaited, P!Here
  <2>2. CASE P!Reopen
    <3>1. mount' = mount + 1 BY <2>2 DEF P!Reopen
    <3>2. \A i \in DOMAIN calls : calls[i].mount # mount' BY <3>1 DEF PanelInv, CallsOK
    <3>3. QED BY <1>1, <3>2 DEF Awaited, P!Here
  <2>3. QED BY <2>1, <2>2
<1>4. SpinnerOK' BY <1>1, <1>3 DEF SpinnerOK
<1>5. ConsentOK'
  BY DEF P!Close, P!Reopen, P!picks, P!preview, PanelInv, ConsentOK, P!SaveWasCompared, P!DeleteWasAnnounced
<1>6. QED BY <1>1, <1>2, <1>4, <1>5 DEF PanelInv

LEMMA PanelStep == PanelInv /\ [P!Next]_(P!vars) => PanelInv'
<1> SUFFICES ASSUME PanelInv, [P!Next]_(P!vars) PROVE PanelInv'
  OBVIOUS
<1>1. ASSUME UNCHANGED <<calls, open, mount, teamLoading>>, saveConfirm' => saveConfirm, ConsentOK'
      PROVE  PanelInv'
  BY <1>1 DEF PanelInv, CallsOK, SpinnerOK, Awaited, P!Here
<1>2. CASE P!EditNext \/ P!ClickNext \/ P!OthersSave BY <1>1, <1>2, EditsAndClicks DEF PanelInv
<1>3. CASE P!CallNext BY <1>3, CallsAreMade
<1>4. CASE P!AnswerNext
  BY <1>4, HandledCalls, ComparedStep, SavedStep, FailedStep, ImportedStep DEF P!AnswerNext, P!Answered
<1>5. CASE P!Close \/ P!Reopen BY <1>5, MountsStep
<1>6. CASE UNCHANGED P!vars
  BY <1>1, <1>6 DEF P!vars, P!picks, P!preview, P!requests, P!world, PanelInv, ConsentOK,
                    P!SaveWasCompared, P!DeleteWasAnnounced
<1>7. QED BY <1>2, <1>3, <1>4, <1>5, <1>6 DEF P!Next

LEMMA PanelInit == P!Init => PanelInv
<1> SUFFICES ASSUME P!Init PROVE PanelInv
  OBVIOUS
<1>1. calls = <<>> /\ saveConfirm = FALSE /\ bulkConfirm = FALSE /\ open = TRUE /\ mount = 1 BY DEF P!Init
<1>2. IsList(<<>>) /\ DOMAIN <<>> = {} BY DEF IsList
<1>3. CallsOK /\ SpinnerOK BY <1>1, <1>2 DEF CallsOK, SpinnerOK
<1>4. ConsentOK BY <1>1 DEF ConsentOK, P!SaveWasCompared, P!DeleteWasAnnounced
<1>5. QED BY <1>1, <1>3, <1>4 DEF PanelInv

\* Two presses: nothing is saved for the team that was not compared with it, and nothing is
\* deleted that was not announced (useResourceViewPresetsController.ts). The panel waits for
\* at most one of the team's requests, and then the save button has not been pressed once.
THEOREM ConsentIsAsked == ViewsSpec => []NothingWithoutConsent
<1> DEFINE Inv == part = "panel" => PanelInv
<1>1. ViewsInit => Inv BY PanelInit DEF ViewsInit
<1>2. Inv /\ [ViewsNext]_all => Inv'
  <2> SUFFICES ASSUME Inv, [ViewsNext]_all, part' = "panel" PROVE PanelInv'
    OBVIOUS
  <2>1. part = "panel" BY DEF ViewsNext, all
  <2>2. [P!Next]_(P!vars)
    BY <2>1 DEF ViewsNext, all, panelOnly, P!vars, P!list, P!picks, P!preview, P!dialogs, P!requests, P!world
  <2>3. QED BY <2>1, <2>2, PanelStep
<1>3. Inv => NothingWithoutConsent BY DEF PanelInv, ConsentOK, NothingWithoutConsent
<1> HIDE DEF Inv
<1>4. QED BY <1>1, <1>2, <1>3, PTL DEF ViewsSpec

----------------------------------------------------------------------------
(* Places in order *)

Preceding(K, R, i) == {j \in K : <<j, i>> \in R}

\* In a finite set with a strict total order, a number before any element, and an element after
\* any number below the cardinality.
LEMMA Ranks ==
    ASSUME NEW K, IsFiniteSet(K), NEW R,
           \A i \in K : <<i, i>> \notin R,
           \A i, j, k \in K : <<i, j>> \in R /\ <<j, k>> \in R => <<i, k>> \in R,
           \A i, j \in K : i # j => <<i, j>> \in R \/ <<j, i>> \in R
    PROVE  /\ Cardinality(K) \in Nat
           /\ \A k \in 1..Cardinality(K) : \E i \in K : Cardinality(Preceding(K, R, i)) = k - 1
           /\ \A i \in K : Cardinality(Preceding(K, R, i)) \in 0..(Cardinality(K) - 1)
           /\ \A i, j \in K : <<i, j>> \in R =>
                Cardinality(Preceding(K, R, i)) < Cardinality(Preceding(K, R, j))
<1> DEFINE n == Cardinality(K)
           before(i) == Preceding(K, R, i)
           rank == [i \in K |-> Cardinality(before(i)) + 1]
<1>1. n \in Nat BY FS_CardinalityType
<1>2. \A i, j \in K : j \in before(i) <=> <<j, i>> \in R BY DEF Preceding
<1>3. \A i \in K : before(i) \in SUBSET K BY DEF Preceding
<1> HIDE DEF before
<1>4. ASSUME NEW i \in K PROVE IsFiniteSet(before(i)) /\ Cardinality(before(i)) \in 0..(n - 1)
  <2>1. before(i) \in SUBSET K /\ before(i) # K BY <1>2, <1>3
  <2>2. /\ IsFiniteSet(before(i)) /\ Cardinality(before(i)) <= n
        /\ Cardinality(before(i)) # n
    BY <2>1, FS_Subset
  <2>3. Cardinality(before(i)) \in Nat BY <2>2, FS_CardinalityType
  <2>4. QED BY <1>1, <2>2, <2>3
<1>5. ASSUME NEW i \in K, NEW j \in K, <<i, j>> \in R
      PROVE  Cardinality(before(i)) < Cardinality(before(j))
  <2>1. before(i) \in SUBSET before(j)
    <3>1. \A k \in K : <<k, i>> \in R => <<k, j>> \in R BY <1>5
    <3>2. QED BY <1>2, <1>3, <3>1
  <2>2. i \in before(j) /\ i \notin before(i) BY <1>2, <1>5
  <2>3. /\ Cardinality(before(i)) <= Cardinality(before(j))
        /\ Cardinality(before(i)) # Cardinality(before(j))
    BY <1>4, <2>1, <2>2, FS_Subset
  <2>4. QED BY <1>1, <1>4, <2>3
<1>6. rank \in [K -> 1..n] /\ \A i \in K : rank[i] = Cardinality(before(i)) + 1 BY <1>1, <1>4
<1> HIDE DEF rank
<1>7. ASSUME NEW i \in K, NEW j \in K, rank[i] = rank[j] PROVE i = j
  <2>1. Cardinality(before(i)) = Cardinality(before(j)) BY <1>1, <1>4, <1>6, <1>7
  <2>2. ~(<<i, j>> \in R) /\ ~(<<j, i>> \in R) BY <1>1, <1>4, <1>5, <2>1
  <2>3. QED BY <2>2
<1>8. rank \in Injection(K, 1..n) BY <1>6, <1>7, Fun_IsInj
<1>9. IsFiniteSet(1..n) /\ Cardinality(1..n) = n BY <1>1, FS_Interval
<1>10. rank \in Surjection(K, 1..n) BY <1>8, <1>9, FS_Injection
<1>11. \A k \in 1..n : \E i \in K : rank[i] = k BY <1>10, Fun_SurjectionProperties
<1>12. \A k \in 1..n : \E i \in K : Cardinality(before(i)) = k - 1
  <2> TAKE k \in 1..n
  <2>1. PICK i \in K : rank[i] = k BY <1>11
  <2>2. QED BY <1>1, <1>4, <1>6, <2>1
<1>13. QED BY <1>1, <1>4, <1>5, <1>12 DEF before

\* Numbers in the order of their keys, those with the same key in their own.
Sooner(key, i, j) == key[i] < key[j] \/ (key[i] = key[j] /\ i < j)
Ahead(K, key, i) == {j \in K : Sooner(key, j, i)}

\* All of some places, each once, in the order of their keys.
IsOrder(p, K, key) ==
    /\ \A n \in 1..Cardinality(K) : p[n] \in K
    /\ \A m, n \in 1..Cardinality(K) : m < n => Sooner(key, p[m], p[n])
    /\ \A i \in K : \E n \in 1..Cardinality(K) : p[n] = i

LEMMA ChosenInOrder ==
    ASSUME NEW K \in SUBSET Int, IsFiniteSet(K), NEW key, \A i \in K : key[i] \in Int, NEW p,
           \A n \in 1..Cardinality(K) : p[n] = CHOOSE i \in K : Cardinality(Ahead(K, key, i)) = n - 1
    PROVE  Cardinality(K) \in Nat /\ IsOrder(p, K, key)
<1> DEFINE R == {q \in K \X K : Sooner(key, q[1], q[2])}
           size == Cardinality(K)
           count == [i \in K |-> Cardinality(Ahead(K, key, i))]
<1>1. \A i, j \in K : <<i, j>> \in R <=> Sooner(key, i, j) OBVIOUS
<1> HIDE DEF R
<1>2. /\ \A i \in K : <<i, i>> \notin R
      /\ \A i, j, k \in K : <<i, j>> \in R /\ <<j, k>> \in R => <<i, k>> \in R
      /\ \A i, j \in K : i # j => <<i, j>> \in R \/ <<j, i>> \in R
  BY <1>1 DEF Sooner
<1>3. ASSUME NEW i \in K PROVE Cardinality(Preceding(K, R, i)) = count[i]
  <2>1. Preceding(K, R, i) = Ahead(K, key, i) BY <1>1 DEF Preceding, Ahead
  <2>2. QED BY <2>1
<1>4. /\ size \in Nat
      /\ \A k \in 1..size : \E i \in K : Cardinality(Preceding(K, R, i)) = k - 1
      /\ \A i \in K : Cardinality(Preceding(K, R, i)) \in 0..(size - 1)
      /\ \A i, j \in K : <<i, j>> \in R =>
           Cardinality(Preceding(K, R, i)) < Cardinality(Preceding(K, R, j))
  BY <1>2, Ranks
<1>5. \A n \in 1..size : p[n] \in K /\ count[p[n]] = n - 1
  <2> TAKE n \in 1..size
  <2>1. \E i \in K : Cardinality(Ahead(K, key, i)) = n - 1 BY <1>3, <1>4
  <2>2. QED BY <2>1
<1>6. \A i \in K : count[i] \in 0..(size - 1) BY <1>3, <1>4
<1>7. \A i, j \in K : Sooner(key, i, j) => count[i] < count[j] BY <1>1, <1>3, <1>4
<1> HIDE DEF size, count
<1>8. \A i, j \in K : count[i] = count[j] => i = j
  <2> TAKE i, j \in K
  <2>1. count[i] = count[j] => ~Sooner(key, i, j) /\ ~Sooner(key, j, i) BY <1>4, <1>6, <1>7
  <2>2. QED BY <2>1 DEF Sooner
<1>9. \A i \in K : \E n \in 1..size : p[n] = i
  <2> TAKE i \in K
  <2> DEFINE n == count[i] + 1
  <2>1. n \in 1..size /\ n - 1 = count[i] BY <1>4, <1>6
  <2> HIDE DEF n
  <2>2. p[n] \in K /\ count[p[n]] = count[i] BY <1>5, <2>1
  <2>3. QED BY <1>8, <2>1, <2>2
<1>10. ASSUME NEW m \in 1..size, NEW n \in 1..size, m < n PROVE Sooner(key, p[m], p[n])
  <2>1. p[m] \in K /\ p[n] \in K /\ count[p[m]] = m - 1 /\ count[p[n]] = n - 1 BY <1>5
  <2>2. m \in Int /\ n \in Int BY <1>4
  <2>3. ~Sooner(key, p[n], p[m]) /\ p[m] # p[n]
    <3>1. count[p[m]] < count[p[n]] /\ ~(count[p[n]] < count[p[m]]) BY <1>10, <2>1, <2>2
    <3>2. count[p[m]] \in Int BY <2>1, <2>2
    <3>3. Sooner(key, p[n], p[m]) => count[p[n]] < count[p[m]] BY <1>7, <2>1
    <3>4. QED BY <3>1, <3>2, <3>3
  <2>4. key[p[m]] \in Int /\ key[p[n]] \in Int /\ p[m] \in Int /\ p[n] \in Int BY <2>1
  <2>5. QED BY <2>3, <2>4 DEF Sooner
<1>11. QED BY <1>4, <1>5, <1>9, <1>10 DEF IsOrder, size

LEMMA PanelCardinality == ASSUME NEW S PROVE P!Cardinality(S) = Cardinality(S)
  BY Zenon DEF P!Cardinality, Cardinality

LEMMA PanelOrder ==
    ASSUME NEW K \in SUBSET Int, IsFiniteSet(K), NEW key, \A i \in K : key[i] \in Int
    PROVE  /\ IsOrder(P!InOrder(K, key), K, key) /\ Cardinality(K) \in Nat
           /\ DOMAIN P!InOrder(K, key) = 1..Cardinality(K)
<1> DEFINE p == P!InOrder(K, key)
           q == [n \in 1..Cardinality(K) |-> CHOOSE i \in K : Cardinality(Ahead(K, key, i)) = n - 1]
<1>1. \A n, i : P!Cardinality({j \in K : Sooner(key, j, i)}) = n - 1
                  <=> Cardinality(Ahead(K, key, i)) = n - 1
  BY PanelCardinality, Zenon DEF Ahead
<1>2. p = [n \in 1..Cardinality(K) |->
             CHOOSE i \in K : P!Cardinality({j \in K : Sooner(key, j, i)}) = n - 1]
  BY PanelCardinality, Zenon DEF P!InOrder, Sooner
<1>3. p = q BY <1>1, <1>2, Zenon
<1>4. \A n \in 1..Cardinality(K) : p[n] = CHOOSE i \in K : Cardinality(Ahead(K, key, i)) = n - 1
  BY <1>3, Zenon
<1>5. DOMAIN p = 1..Cardinality(K) BY <1>2, Zenon
<1> HIDE DEF p, q
<1>6. Cardinality(K) \in Nat /\ IsOrder(p, K, key) BY <1>4, ChosenInOrder
<1>7. QED BY <1>5, <1>6 DEF p

----------------------------------------------------------------------------
(* Lists of views *)

LEMMA UpTo == ASSUME NEW n \in Nat PROVE IsFiniteSet(1..n) /\ Cardinality(1..n) = n
  BY FS_Interval

LEMMA Places ==
    ASSUME NEW s, IsList(s), NEW K \in SUBSET DOMAIN s
    PROVE  /\ DOMAIN s = 1..Len(s) /\ Len(s) \in Nat /\ K \in SUBSET Int /\ IsFiniteSet(K)
           /\ Cardinality(K) \in Nat /\ Cardinality(K) <= Len(s)
<1>1. DOMAIN s = 1..Len(s) /\ Len(s) \in Nat BY DEF IsList
<1>2. IsFiniteSet(1..Len(s)) /\ Cardinality(1..Len(s)) = Len(s) BY <1>1, UpTo
<1>3. IsFiniteSet(K) /\ Cardinality(K) <= Len(s) BY <1>1, <1>2, FS_Subset
<1>4. Cardinality(K) \in Nat BY <1>3, FS_CardinalityType
<1>5. QED BY <1>1, <1>3, <1>4

\* A function on the first numbers is a list.
LEMMA FunctionsAreLists ==
    ASSUME NEW n \in Nat, NEW s, s = [i \in 1..n |-> s[i]]
    PROVE  IsList(s) /\ Len(s) = n /\ DOMAIN s = 1..n
<1>1. DOMAIN s = 1..n OBVIOUS
<1>2. s \in Seq({s[i] : i \in 1..n}) OBVIOUS
<1>3. Len(s) = n BY <1>1, <1>2
<1>4. QED BY <1>1, <1>3 DEF IsList

\* What is kept of a list: as many as there are places, in their order.
LEMMA KeptPlaces ==
    ASSUME NEW s, IsList(s), NEW K \in SUBSET DOMAIN s
    PROVE  /\ IsList(P!At(s, K)) /\ Len(P!At(s, K)) = Cardinality(K) /\ Cardinality(K) <= Len(s)
           /\ DOMAIN P!At(s, K) = 1..Cardinality(K)
           /\ \E p : /\ IsOrder(p, K, [i \in K |-> i])
                     /\ \A n \in 1..Cardinality(K) : P!At(s, K)[n] = s[p[n]]
<1> DEFINE key == [i \in K |-> i]
           p == P!InOrder(K, key)
           t == P!At(s, K)
<1>1. K \in SUBSET Int /\ IsFiniteSet(K) /\ Cardinality(K) \in Nat /\ Cardinality(K) <= Len(s) BY Places
<1>2. \A i \in K : key[i] \in Int BY <1>1
<1>3. t = [n \in 1..Cardinality(K) |-> s[p[n]]] BY PanelCardinality, Zenon DEF P!At
<1> HIDE DEF key
<1>4. IsOrder(p, K, key) BY <1>1, <1>2, PanelOrder
<1> HIDE DEF p, t
<1>5. \A n \in 1..Cardinality(K) : t[n] = s[p[n]] BY <1>3
<1>6. t = [n \in 1..Cardinality(K) |-> t[n]] BY <1>3
<1>7. IsList(t) /\ Len(t) = Cardinality(K) /\ DOMAIN t = 1..Cardinality(K)
  BY <1>1, <1>6, FunctionsAreLists
<1>8. QED BY <1>1, <1>4, <1>5, <1>7 DEF t, key

\* An order has every place once.
LEMMA OnceInOrder ==
    ASSUME NEW K \in SUBSET Int, NEW key, \A i \in K : key[i] \in Int, Cardinality(K) \in Nat,
           NEW p, IsOrder(p, K, key), NEW m \in 1..Cardinality(K), NEW n \in 1..Cardinality(K), p[m] = p[n]
    PROVE  m = n
<1>1. \A a, b \in 1..Cardinality(K) : a < b => p[a] # p[b]
  <2> SUFFICES ASSUME NEW a \in 1..Cardinality(K), NEW b \in 1..Cardinality(K), a < b, p[a] = p[b]
               PROVE FALSE
    OBVIOUS
  <2>1. Sooner(key, p[a], p[b]) /\ p[a] \in K BY DEF IsOrder
  <2>2. key[p[a]] \in Int /\ p[a] \in Int BY <2>1
  <2>3. QED BY <2>1, <2>2 DEF Sooner
<1>2. m \in Int /\ n \in Int OBVIOUS
<1>3. QED BY <1>1, <1>2

\* Some of a list of views.
LEMMA SomeOf ==
    ASSUME NEW l, IsViews(l), NEW K \in SUBSET DOMAIN l
    PROVE  /\ IsViews(P!At(l, K)) /\ Len(P!At(l, K)) = Cardinality(K) /\ Cardinality(K) <= Len(l)
           /\ P!Names(P!At(l, K)) = {l[i].name : i \in K}
           /\ (\A i, j \in K : l[i].name = l[j].name => i = j) => OncePerName(P!At(l, K))
<1> DEFINE t == P!At(l, K)
           size == Cardinality(K)
           key == [i \in K |-> i]
<1>1. IsList(l) BY DEF IsViews
<1>2. /\ K \in SUBSET Int /\ size \in Nat /\ IsList(t) /\ Len(t) = size /\ size <= Len(l)
      /\ DOMAIN t = 1..size
  BY <1>1, Places, KeptPlaces
<1>3. PICK p : IsOrder(p, K, key) /\ \A n \in 1..size : t[n] = l[p[n]] BY <1>1, KeptPlaces
<1>4. \A i \in K : key[i] \in Int BY <1>2
<1> HIDE DEF t, key
<1>5. \A n \in 1..size : p[n] \in K /\ t[n] = l[p[n]] BY <1>3 DEF IsOrder
<1>6. \A i \in K : \E n \in 1..size : p[n] = i BY <1>3 DEF IsOrder
<1>7. \A m, n \in 1..size : p[m] = p[n] => m = n BY <1>2, <1>3, <1>4, OnceInOrder
<1> HIDE DEF size
<1>8. IsViews(t) BY <1>2, <1>5 DEF IsViews
<1>9. P!Names(t) = {l[i].name : i \in K}
  <2>1. P!Names(t) = {t[n].name : n \in 1..size} BY <1>2 DEF P!Names
  <2>2. QED BY <1>5, <1>6, <2>1
<1>10. ASSUME \A i, j \in K : l[i].name = l[j].name => i = j PROVE OncePerName(t)
  BY <1>2, <1>5, <1>7, <1>10 DEF OncePerName
<1>11. QED BY <1>2, <1>8, <1>9, <1>10 DEF t, size

\* A list whose views are those of another, in an order, with new orders.
Renumbered(t, l, p) ==
    \A n \in DOMAIN l : /\ IsView(t[n]) /\ t[n].name = l[p[n]].name /\ t[n].group = l[p[n]].group
                         /\ t[n].filters = l[p[n]].filters

LEMMA OrderedViews ==
    ASSUME NEW l, IsViews(l)
    PROVE  /\ IsList(P!OrderViews(l)) /\ Len(P!OrderViews(l)) = Len(l)
           /\ DOMAIN P!OrderViews(l) = DOMAIN l
           /\ \E p : /\ IsOrder(p, DOMAIN l, [i \in DOMAIN l |-> P!OrderOf(l, i)])
                     /\ Renumbered(P!OrderViews(l), l, p)
                     /\ \A n \in DOMAIN l : P!OrderViews(l)[n].order = P!OrderOf(l, p[n])
<1> DEFINE D == DOMAIN l
           key == [i \in D |-> P!OrderOf(l, i)]
           p == P!InOrder(D, key)
           t == P!OrderViews(l)
<1>1. IsList(l) /\ D = 1..Len(l) /\ Len(l) \in Nat BY DEF IsViews, IsList
<1>2. D \in SUBSET Int /\ IsFiniteSet(D) /\ Cardinality(D) = Len(l) BY <1>1, UpTo
<1>3. \A i \in D : key[i] = P!OrderOf(l, i) /\ key[i] \in Int
  BY <1>2 DEF P!OrderOf, IsViews, IsView
<1>4. t = [n \in D |-> [l[p[n]] EXCEPT !.order = P!OrderOf(l, p[n])]] BY DEF P!OrderViews
<1> HIDE DEF key
<1>5. IsOrder(p, D, key) BY <1>2, <1>3, PanelOrder
<1> HIDE DEF p, t
<1>6. \A n \in D : p[n] \in D BY <1>1, <1>2, <1>5 DEF IsOrder
<1>7. ASSUME NEW n \in D
      PROVE  /\ IsView(t[n]) /\ t[n].order = P!OrderOf(l, p[n]) /\ t[n].name = l[p[n]].name
             /\ t[n].group = l[p[n]].group /\ t[n].filters = l[p[n]].filters
  <2> DEFINE order == P!OrderOf(l, p[n])
  <2>1. t[n] = [l[p[n]] EXCEPT !.order = P!OrderOf(l, p[n])] BY <1>4
  <2>2. IsView(l[p[n]]) BY <1>6 DEF IsViews
  <2>3. P!OrderOf(l, p[n]) \in Int BY <1>3, <1>6
  <2> HIDE DEF order
  <2>4. t[n] = [name |-> l[p[n]].name, group |-> l[p[n]].group, filters |-> l[p[n]].filters,
                order |-> order]
    BY <2>1, <2>2 DEF IsView, order
  <2>5. order \in Int BY <2>3 DEF order
  <2>6. IsView(t[n]) /\ t[n].order = order BY <2>4, <2>5 DEF IsView
  <2>7. QED BY <2>4, <2>6 DEF order
<1>8. Renumbered(t, l, p) BY <1>7 DEF Renumbered
<1>9. \A n \in D : t[n].order = P!OrderOf(l, p[n]) BY <1>7
<1>10. t = [n \in 1..Len(l) |-> t[n]] BY <1>1, <1>4
<1>11. IsList(t) /\ Len(t) = Len(l) /\ DOMAIN t = 1..Len(l) BY <1>1, <1>10, FunctionsAreLists
<1>12. QED BY <1>1, <1>5, <1>8, <1>9, <1>11 DEF t, key

LEMMA NormalizedViews ==
    ASSUME NEW l, IsViews(l)
    PROVE  /\ IsList(P!NormalizeOrders(l)) /\ Len(P!NormalizeOrders(l)) = Len(l)
           /\ DOMAIN P!NormalizeOrders(l) = DOMAIN l
           /\ \E p : /\ IsOrder(p, DOMAIN l, [i \in DOMAIN l |-> P!OrderOf(l, i)])
                     /\ Renumbered(P!NormalizeOrders(l), l, p)
                     /\ \A n \in DOMAIN l : P!NormalizeOrders(l)[n].order = n
<1> DEFINE D == DOMAIN l
           o == P!OrderViews(l)
           t == P!NormalizeOrders(l)
<1>1. IsList(l) /\ D = 1..Len(l) /\ Len(l) \in Nat BY DEF IsViews, IsList
<1>2. IsList(o) /\ Len(o) = Len(l) /\ DOMAIN o = D BY OrderedViews
<1>3. PICK p : IsOrder(p, D, [i \in D |-> P!OrderOf(l, i)]) /\ Renumbered(o, l, p) BY OrderedViews
<1>4. t = [n \in D |-> [o[n] EXCEPT !.order = n]] BY DEF P!NormalizeOrders
<1> HIDE DEF o, t
<1>5. ASSUME NEW n \in D
      PROVE  /\ IsView(t[n]) /\ t[n].order = n /\ t[n].name = l[p[n]].name
             /\ t[n].group = l[p[n]].group /\ t[n].filters = l[p[n]].filters
  <2>1. t[n] = [o[n] EXCEPT !.order = n] /\ IsView(o[n]) BY <1>3, <1>4 DEF Renumbered
  <2>2. t[n] = [name |-> o[n].name, group |-> o[n].group, filters |-> o[n].filters, order |-> n]
    BY <2>1 DEF IsView
  <2>3. n \in Int BY <1>1
  <2>4. IsView(t[n]) /\ t[n].order = n BY <2>2, <2>3 DEF IsView
  <2>5. QED BY <1>3, <2>2, <2>4 DEF Renumbered
<1>6. t = [n \in 1..Len(l) |-> t[n]] BY <1>1, <1>4
<1>7. IsList(t) /\ Len(t) = Len(l) /\ DOMAIN t = 1..Len(l) BY <1>1, <1>6, FunctionsAreLists
<1>8. Renumbered(t, l, p) BY <1>5 DEF Renumbered
<1>9. QED BY <1>1, <1>3, <1>5, <1>7, <1>8 DEF t

\* A list in another order has the same names, each as often.
LEMMA RenumberedNames ==
    ASSUME NEW l, IsViews(l), NEW t, IsList(t), DOMAIN t = DOMAIN l,
           NEW p, IsOrder(p, DOMAIN l, [i \in DOMAIN l |-> P!OrderOf(l, i)]), Renumbered(t, l, p)
    PROVE  /\ IsViews(t) /\ P!Names(t) = P!Names(l)
           /\ OncePerName(l) => OncePerName(t)
<1> DEFINE D == DOMAIN l
           key == [i \in D |-> P!OrderOf(l, i)]
<1>1. IsList(l) /\ D = 1..Len(l) /\ Len(l) \in Nat BY DEF IsViews, IsList
<1>2. D \in SUBSET Int /\ Cardinality(D) = Len(l) BY <1>1, UpTo
<1>3. \A i \in D : key[i] \in Int BY <1>2 DEF P!OrderOf, IsViews, IsView
<1> HIDE DEF key
<1>4. IsOrder(p, D, key) BY DEF key
<1>5. \A n \in D : p[n] \in D BY <1>1, <1>2, <1>4 DEF IsOrder
<1>6. \A i \in D : \E n \in D : p[n] = i BY <1>1, <1>2, <1>4 DEF IsOrder
<1>7. \A m, n \in D : p[m] = p[n] => m = n
  <2>1. \A m, n \in 1..Cardinality(D) : p[m] = p[n] => m = n BY <1>1, <1>2, <1>3, <1>4, OnceInOrder
  <2>2. QED BY <1>1, <1>2, <2>1
<1>8. \A n \in D : IsView(t[n]) /\ t[n].name = l[p[n]].name BY DEF Renumbered
<1>9. IsViews(t) BY <1>8 DEF IsViews
<1>10. P!Names(t) = P!Names(l)
  <2>1. P!Names(t) = {t[n].name : n \in D} BY Zenon DEF P!Names
  <2>2. \A n \in D : \E i \in D : t[n].name = l[i].name BY <1>5, <1>8
  <2>3. \A i \in D : \E n \in D : t[n].name = l[i].name BY <1>6, <1>8
  <2>4. P!Names(l) = {l[i].name : i \in D} BY Zenon DEF P!Names
  <2> HIDE DEF D
  <2>5. P!Names(t) \subseteq P!Names(l) BY <2>1, <2>2, <2>4
  <2>6. P!Names(l) \subseteq P!Names(t) BY <2>1, <2>3, <2>4
  <2>7. QED BY <2>5, <2>6
<1>11. ASSUME OncePerName(l) PROVE OncePerName(t) BY <1>5, <1>7, <1>8, <1>11 DEF OncePerName
<1>12. QED BY <1>9, <1>10, <1>11

LEMMA OrderKeepsNames ==
    ASSUME NEW l, IsViews(l)
    PROVE  /\ IsViews(P!OrderViews(l)) /\ P!Names(P!OrderViews(l)) = P!Names(l)
           /\ Len(P!OrderViews(l)) = Len(l)
           /\ OncePerName(l) => OncePerName(P!OrderViews(l))
  BY OrderedViews, RenumberedNames

LEMMA NormalizeKeepsNames ==
    ASSUME NEW l, IsViews(l)
    PROVE  /\ IsViews(P!NormalizeOrders(l)) /\ P!Names(P!NormalizeOrders(l)) = P!Names(l)
           /\ Len(P!NormalizeOrders(l)) = Len(l)
           /\ OncePerName(l) => OncePerName(P!NormalizeOrders(l))
  BY NormalizedViews, RenumberedNames

\* A list whose orders are its places.
Numbered(l) == IsViews(l) /\ \A i \in DOMAIN l : l[i].order = i

LEMMA NormalizedIsNumbered ==
    ASSUME NEW l, IsViews(l)
    PROVE  Numbered(P!NormalizeOrders(l))
<1>1. IsViews(P!NormalizeOrders(l)) BY NormalizeKeepsNames
<1>2. \A n \in DOMAIN P!NormalizeOrders(l) : P!NormalizeOrders(l)[n].order = n BY NormalizedViews
<1>3. QED BY <1>1, <1>2 DEF Numbered

\* A list of views up to a limit, and a list that the panel may have.
IsUpTo(l, max) == IsViews(l) /\ OncePerName(l) /\ Len(l) <= max
IsShort(l) == IsUpTo(l, MaxViews)
Limited == MaxViews \in Nat

LEMMA ListLength ==
    ASSUME NEW l, IsList(l)
    PROVE  DOMAIN l = 1..Len(l) /\ Len(l) \in Nat
  BY DEF IsList

\* One list after the other.
LEMMA JoinedLists ==
    ASSUME NEW s, NEW t, IsList(s), IsList(t)
    PROVE  /\ IsList(s \o t) /\ Len(s \o t) = Len(s) + Len(t) /\ DOMAIN (s \o t) = 1..(Len(s) + Len(t))
           /\ \A k \in 1..Len(s) : (s \o t)[k] = s[k]
           /\ \A k \in 1..Len(t) : (s \o t)[Len(s) + k] = t[k]
<1> DEFINE S == {s[i] : i \in 1..Len(s)} \cup {t[i] : i \in 1..Len(t)}
<1>1. s \in Seq(S) /\ t \in Seq(S)
  <2>1. s \in [1..Len(s) -> S] /\ t \in [1..Len(t) -> S] BY DEF IsList
  <2>2. QED BY <2>1 DEF IsList
<1>2. Len(s) \in Nat /\ Len(t) \in Nat BY DEF IsList
<1> HIDE DEF S
<1>3. s \o t \in Seq(S) /\ Len(s \o t) = Len(s) + Len(t) BY <1>1, ConcatProperties
<1>4. \A k \in 1..(Len(s) + Len(t)) : (s \o t)[k] = IF k <= Len(s) THEN s[k] ELSE t[k - Len(s)]
  BY <1>1, ConcatProperties
<1>5. \A k \in 1..Len(s) : (s \o t)[k] = s[k] BY <1>2, <1>4
<1>6. \A k \in 1..Len(t) : (s \o t)[Len(s) + k] = t[k]
  <2> TAKE k \in 1..Len(t)
  <2>1. Len(s) + k \in 1..(Len(s) + Len(t)) /\ ~(Len(s) + k <= Len(s)) /\ Len(s) + k - Len(s) = k
    BY <1>2
  <2>2. QED BY <1>4, <2>1
<1>7. IsList(s \o t) /\ DOMAIN (s \o t) = 1..(Len(s) + Len(t)) BY <1>3, SequencesAreLists, ListLength
<1>8. QED BY <1>3, <1>5, <1>6, <1>7

LEMMA JoinedViews ==
    ASSUME NEW s, NEW t, IsViews(s), IsViews(t)
    PROVE  /\ IsViews(s \o t) /\ Len(s \o t) = Len(s) + Len(t)
           /\ P!Names(s \o t) = P!Names(s) \cup P!Names(t)
           /\ OncePerName(s) /\ OncePerName(t) /\ P!Names(s) \cap P!Names(t) = {} => OncePerName(s \o t)
<1> DEFINE u == s \o t
<1>1. /\ IsList(s) /\ DOMAIN s = 1..Len(s) /\ Len(s) \in Nat
      /\ IsList(t) /\ DOMAIN t = 1..Len(t) /\ Len(t) \in Nat
  BY ListLength DEF IsViews
<1>2. /\ IsList(u) /\ Len(u) = Len(s) + Len(t) /\ DOMAIN u = 1..(Len(s) + Len(t))
      /\ \A k \in 1..Len(s) : u[k] = s[k]
      /\ \A k \in 1..Len(t) : u[Len(s) + k] = t[k]
  BY <1>1, JoinedLists
<1> HIDE DEF u
<1>3. \A k \in DOMAIN u : k \in DOMAIN s \/ \E j \in DOMAIN t : k = Len(s) + j
  <2> TAKE k \in DOMAIN u
  <2>1. k \in DOMAIN s \/ k - Len(s) \in DOMAIN t BY <1>1, <1>2
  <2>2. k = Len(s) + (k - Len(s)) BY <1>1, <1>2
  <2>3. QED BY <2>1, <2>2
<1>4. /\ \A k \in DOMAIN s : k \in DOMAIN u /\ u[k] = s[k]
      /\ \A k \in DOMAIN t : Len(s) + k \in DOMAIN u /\ u[Len(s) + k] = t[k]
  BY <1>1, <1>2
<1>5. IsViews(u)
  <2>1. ASSUME NEW k \in DOMAIN u PROVE IsView(u[k])
    <3>1. CASE k \in DOMAIN s BY <1>4, <3>1 DEF IsViews
    <3>2. CASE \E j \in DOMAIN t : k = Len(s) + j BY <1>4, <3>2 DEF IsViews
    <3>3. QED BY <1>3, <3>1, <3>2
  <2>2. QED BY <1>2, <2>1 DEF IsViews
<1>6. P!Names(u) = P!Names(s) \cup P!Names(t)
  <2>1. \A k \in DOMAIN u : u[k].name \in P!Names(s) \cup P!Names(t)
    BY <1>3, <1>4 DEF P!Names
  <2>2. \A k \in DOMAIN s : \E j \in DOMAIN u : u[j].name = s[k].name BY <1>4
  <2>3. \A k \in DOMAIN t : \E j \in DOMAIN u : u[j].name = t[k].name BY <1>4
  <2>4. QED BY <2>1, <2>2, <2>3 DEF P!Names
<1>7. ASSUME OncePerName(s), OncePerName(t), P!Names(s) \cap P!Names(t) = {} PROVE OncePerName(u)
  <2>1. \A j \in DOMAIN s : \A k \in DOMAIN t : s[j].name # t[k].name BY <1>7 DEF P!Names
  <2> SUFFICES ASSUME NEW j \in DOMAIN u, NEW k \in DOMAIN u, u[j].name = u[k].name PROVE j = k
    BY DEF OncePerName
  <2>2. CASE j \in DOMAIN s /\ k \in DOMAIN s BY <1>4, <1>7, <2>2 DEF OncePerName
  <2>3. CASE j \in DOMAIN s /\ k \notin DOMAIN s BY <1>3, <1>4, <2>1, <2>3
  <2>4. CASE j \notin DOMAIN s /\ k \in DOMAIN s BY <1>3, <1>4, <2>1, <2>4
  <2>5. CASE j \notin DOMAIN s /\ k \notin DOMAIN s
    <3>1. PICK a \in DOMAIN t : j = Len(s) + a BY <1>3, <2>5
    <3>2. PICK b \in DOMAIN t : k = Len(s) + b BY <1>3, <2>5
    <3>3. t[a].name = t[b].name BY <1>4, <3>1, <3>2
    <3>4. a = b BY <1>7, <3>3 DEF OncePerName
    <3>5. QED BY <3>1, <3>2, <3>4
  <2>6. QED BY <2>2, <2>3, <2>4, <2>5
<1>8. QED BY <1>2, <1>5, <1>6, <1>7 DEF u

LEMMA OneView ==
    ASSUME NEW v, IsView(v)
    PROVE  IsViews(<<v>>) /\ Len(<<v>>) = 1 /\ P!Names(<<v>>) = {v.name} /\ OncePerName(<<v>>)
<1>1. <<v>> \in Seq({v}) /\ Len(<<v>>) = 1 /\ DOMAIN <<v>> = {1} /\ <<v>>[1] = v OBVIOUS
<1>2. IsList(<<v>>) BY <1>1, SequencesAreLists
<1>3. P!Names(<<v>>) = {v.name} BY <1>1 DEF P!Names
<1>4. QED BY <1>1, <1>2, <1>3 DEF IsViews, OncePerName

LEMMA NoViews == IsViews(<<>>) /\ Len(<<>>) = 0 /\ P!Names(<<>>) = {} /\ OncePerName(<<>>) /\ DOMAIN <<>> = {}
<1>1. DOMAIN <<>> = {} /\ Len(<<>>) = 0 /\ IsList(<<>>) BY DEF IsList
<1>2. QED BY <1>1 DEF IsViews, P!Names, OncePerName

\* The beginning of a list, up to the limit.
Beginning(l, max) == SubSeq(l, 1, IF Len(l) < max THEN Len(l) ELSE max)

LEMMA BeginningIsUpTo ==
    ASSUME NEW l, IsViews(l), OncePerName(l), NEW max \in Nat
    PROVE  /\ IsUpTo(Beginning(l, max), max) /\ P!Names(Beginning(l, max)) \subseteq P!Names(l)
           /\ \A k \in DOMAIN Beginning(l, max) : k \in DOMAIN l /\ Beginning(l, max)[k] = l[k]
           /\ Len(Beginning(l, max)) = IF Len(l) < max THEN Len(l) ELSE max
<1> DEFINE n == IF Len(l) < max THEN Len(l) ELSE max
           t == SubSeq(l, 1, n)
<1>1. Beginning(l, max) = t BY DEF Beginning
<1>2. IsList(l) /\ DOMAIN l = 1..Len(l) /\ Len(l) \in Nat BY ListLength DEF IsViews
<1>3. n \in 0..Len(l) /\ n <= max BY <1>2
<1> DEFINE S == {l[i] : i \in 1..Len(l)}
<1>4. l \in Seq(S) BY <1>2, ListsAreSequences
<1> HIDE DEF S
<1>5. t \in Seq(S) /\ Len(t) = n /\ \A k \in 1..n : t[k] = l[k]
  <2> HIDE DEF n
  <2>1. n \in Int /\ 1 \in 1..(Len(l) + 1) /\ n \in 0..Len(l) BY <1>2, <1>3
  <2>2. QED BY <1>2, <1>4, <2>1
<1> HIDE DEF t
<1>6. IsList(t) /\ DOMAIN t = 1..n BY <1>5, SequencesAreLists, ListLength
<1>7. \A k \in DOMAIN t : k \in DOMAIN l /\ t[k] = l[k]
  <2> HIDE DEF n
  <2>1. QED BY <1>2, <1>3, <1>5, <1>6
<1>8. IsViews(t) BY <1>6, <1>7 DEF IsViews
<1>9. OncePerName(t) BY <1>7 DEF OncePerName
<1>10. P!Names(t) \subseteq P!Names(l) BY <1>7 DEF P!Names
<1>11. Len(t) = n /\ Len(t) <= max BY <1>3, <1>5
<1> HIDE DEF n
<1>12. IsUpTo(t, max) BY <1>8, <1>9, <1>11 DEF IsUpTo
<1>13. QED BY <1>1, <1>7, <1>10, <1>11, <1>12 DEF n

LEMMA CutIsShort ==
    ASSUME NEW l, IsViews(l), OncePerName(l), MaxViews \in Nat
    PROVE  /\ IsShort(P!Cut(l)) /\ P!Names(P!Cut(l)) \subseteq P!Names(l)
           /\ \A k \in DOMAIN P!Cut(l) : k \in DOMAIN l /\ P!Cut(l)[k] = l[k]
           /\ Len(P!Cut(l)) = IF Len(l) < MaxViews THEN Len(l) ELSE MaxViews
<1>1. P!Cut(l) = Beginning(l, MaxViews) BY DEF P!Cut, Beginning
<1>2. QED BY <1>1, BeginningIsUpTo DEF IsShort

LEMMA NormalizeIsUpTo ==
    ASSUME NEW max, NEW l, IsUpTo(l, max)
    PROVE  /\ IsUpTo(P!NormalizeOrders(l), max) /\ P!Names(P!NormalizeOrders(l)) = P!Names(l)
           /\ Numbered(P!NormalizeOrders(l))
  BY NormalizeKeepsNames, NormalizedIsNumbered DEF IsUpTo

LEMMA NormalizeIsShort ==
    ASSUME NEW l, IsShort(l)
    PROVE  IsShort(P!NormalizeOrders(l)) /\ P!Names(P!NormalizeOrders(l)) = P!Names(l)
  BY NormalizeIsUpTo DEF IsShort

\* Some of a short list, by name or by folder.
LEMMA PartIsShort ==
    ASSUME NEW l, IsViews(l), OncePerName(l), NEW K \in SUBSET DOMAIN l
    PROVE  /\ IsViews(P!At(l, K)) /\ OncePerName(P!At(l, K)) /\ Len(P!At(l, K)) <= Len(l)
           /\ P!Names(P!At(l, K)) = {l[i].name : i \in K}
           /\ \A max \in Nat : IsUpTo(l, max) => IsUpTo(P!At(l, K), max)
<1>1. \A i, j \in K : l[i].name = l[j].name => i = j BY DEF OncePerName
<1>2. /\ IsViews(P!At(l, K)) /\ Len(P!At(l, K)) = Cardinality(K) /\ Cardinality(K) <= Len(l)
      /\ P!Names(P!At(l, K)) = {l[i].name : i \in K} /\ OncePerName(P!At(l, K))
  BY <1>1, SomeOf
<1>3. Len(P!At(l, K)) \in Nat /\ Len(l) \in Nat BY <1>2, ListLength DEF IsViews
<1>4. QED BY <1>2, <1>3 DEF IsUpTo

LEMMA WithoutIsShort ==
    ASSUME NEW l, IsViews(l), OncePerName(l), NEW names
    PROVE  /\ IsViews(P!Without(l, names)) /\ OncePerName(P!Without(l, names))
           /\ P!Names(P!Without(l, names)) = P!Names(l) \ names
           /\ \A max \in Nat : IsUpTo(l, max) => IsUpTo(P!Without(l, names), max)
<1> DEFINE K == {i \in DOMAIN l : l[i].name \notin names}
<1>1. P!Without(l, names) = P!At(l, K) BY DEF P!Without
<1>2. K \in SUBSET DOMAIN l OBVIOUS
<1>3. {l[i].name : i \in K} = P!Names(l) \ names BY DEF P!Names
<1> HIDE DEF K
<1>4. QED BY <1>1, <1>2, <1>3, PartIsShort

LEMMA OnlyIsShort ==
    ASSUME NEW l, IsViews(l), OncePerName(l), NEW names
    PROVE  /\ IsViews(P!Only(l, names)) /\ OncePerName(P!Only(l, names))
           /\ P!Names(P!Only(l, names)) = P!Names(l) \cap names
           /\ \A max \in Nat : IsUpTo(l, max) => IsUpTo(P!Only(l, names), max)
<1> DEFINE K == {i \in DOMAIN l : l[i].name \in names}
<1>1. P!Only(l, names) = P!At(l, K) BY DEF P!Only
<1>2. K \in SUBSET DOMAIN l OBVIOUS
<1>3. {l[i].name : i \in K} = P!Names(l) \cap names BY DEF P!Names
<1> HIDE DEF K
<1>4. QED BY <1>1, <1>2, <1>3, PartIsShort

\* A list with new names, folders or orders.
LEMMA ChangedViews ==
    ASSUME NEW l, IsViews(l), NEW t, t = [i \in DOMAIN l |-> t[i]], \A i \in DOMAIN l : IsView(t[i])
    PROVE  /\ IsViews(t) /\ Len(t) = Len(l) /\ DOMAIN t = DOMAIN l
           /\ (\A i \in DOMAIN l : t[i].name = l[i].name) =>
                 P!Names(t) = P!Names(l) /\ (OncePerName(l) => OncePerName(t))
<1>1. IsList(l) /\ DOMAIN l = 1..Len(l) /\ Len(l) \in Nat BY ListLength DEF IsViews
<1>2. IsList(t) /\ Len(t) = Len(l) /\ DOMAIN t = 1..Len(l) BY <1>1, FunctionsAreLists
<1>3. DOMAIN t = DOMAIN l BY <1>1, <1>2
<1>4. IsViews(t) BY <1>2, <1>3 DEF IsViews
<1>5. ASSUME \A i \in DOMAIN l : t[i].name = l[i].name
      PROVE  P!Names(t) = P!Names(l) /\ (OncePerName(l) => OncePerName(t))
  BY <1>3, <1>5 DEF P!Names, OncePerName
<1>6. QED BY <1>2, <1>3, <1>4, <1>5

LEMMA NamedView ==
    ASSUME NEW l, IsViews(l), NEW name \in P!Names(l)
    PROVE  IsView(P!Named(l, name)) /\ P!Named(l, name).name = name
<1>1. \E i \in DOMAIN l : l[i].name = name BY DEF P!Names
<1>2. QED BY <1>1 DEF P!Named, IsViews

LEMMA TopOrderIsInt ==
    ASSUME NEW l, IsViews(l), NEW group
    PROVE  P!TopOrderForGroup(l, group) \in Int
<1> DEFINE J == {j \in DOMAIN l : l[j].group = group}
           orders == {l[i].order : i \in J}
<1>1. P!TopOrderForGroup(l, group) =
        IF orders = {} THEN 0 ELSE (CHOOSE o \in orders : \A p \in orders : o <= p) - 1
  BY DEF P!TopOrderForGroup
<1>2. \A o \in orders : o \in Int BY DEF IsViews, IsView
<1>3. orders # {} => \E o \in orders : \A p \in orders : o <= p
  <2> SUFFICES ASSUME orders # {} PROVE \E o \in orders : \A p \in orders : o <= p
    OBVIOUS
  <2>1. IsList(l) /\ J \in SUBSET DOMAIN l BY DEF IsViews
  <2>2. J \in SUBSET Int /\ IsFiniteSet(J) /\ Cardinality(J) \in Nat BY <2>1, Places
  <2> DEFINE key == [i \in J |-> l[i].order]
             first == P!InOrder(J, key)
  <2>3. \A i \in J : key[i] = l[i].order /\ key[i] \in Int BY <1>2
  <2>4. PICK i \in J : TRUE OBVIOUS
  <2> HIDE DEF J, key
  <2>5. IsOrder(first, J, key) BY <2>2, <2>3, PanelOrder
  <2> HIDE DEF first
  <2>6. PICK n \in 1..Cardinality(J) : first[n] = i BY <2>4, <2>5 DEF IsOrder
  <2>7. 1 \in 1..Cardinality(J) BY <2>2
  <2>8. first[1] \in J BY <2>5, <2>7 DEF IsOrder
  <2>9. \A j \in J : key[first[1]] <= key[j]
    <3> TAKE j \in J
    <3>1. PICK m \in 1..Cardinality(J) : first[m] = j BY <2>5 DEF IsOrder
    <3>2. m = 1 \/ 1 < m BY <2>2
    <3>3. key[first[1]] \in Int /\ key[j] \in Int BY <2>3, <2>8
    <3>4. CASE m = 1 BY <3>1, <3>3, <3>4
    <3>5. CASE 1 < m
      <4>1. Sooner(key, first[1], j) BY <2>5, <2>7, <3>1, <3>5 DEF IsOrder
      <4>2. QED BY <3>3, <4>1 DEF Sooner
    <3>6. QED BY <3>2, <3>4, <3>5
  <2>10. l[first[1]].order \in orders BY <2>8
  <2>11. \A p \in orders : l[first[1]].order <= p BY <2>3, <2>8, <2>9
  <2>12. QED BY <2>10, <2>11
<1> HIDE DEF orders
<1>4. QED BY <1>1, <1>2, <1>3

\* As many names as views.
LEMMA NamesAreCounted ==
    ASSUME NEW l, IsViews(l), OncePerName(l)
    PROVE  Cardinality(P!Names(l)) = Len(l) /\ IsFiniteSet(P!Names(l))
<1> DEFINE D == DOMAIN l
           N == P!Names(l)
           f == [k \in D |-> l[k].name]
<1>1. N = {l[k].name : k \in D} BY DEF P!Names
<1>2. f \in [D -> N] /\ \A x \in N : \E k \in D : f[k] = x BY <1>1
<1>3. \A j, k \in D : f[j] = f[k] => j = k BY DEF OncePerName
<1>4. Len(l) \in Nat /\ D = 1..Len(l) BY ListLength DEF IsViews
<1> HIDE DEF f, D, N
<1>5. IsFiniteSet(D) /\ Cardinality(D) = Len(l) BY <1>4, UpTo
<1>6. f \in Surjection(D, N) BY <1>2, Fun_IsSurj
<1>7. f \in Injection(D, N) BY <1>2, <1>3, Fun_IsInj
<1>8. IsFiniteSet(N) /\ Cardinality(N) = Cardinality(D) BY <1>5, <1>6, <1>7, FS_Surjection
<1>9. QED BY <1>5, <1>8 DEF N

LEMMA ShortIsCounted ==
    ASSUME NEW l, IsShort(l)
    PROVE  P!Cardinality(P!Names(l)) = Len(l) /\ Len(l) <= MaxViews
  BY NamesAreCounted, PanelCardinality DEF IsShort, IsUpTo

\* A list with the names of a short one is short.
LEMMA SameNamesAreUpTo ==
    ASSUME NEW max, NEW l, IsUpTo(l, max), NEW t, IsViews(t), OncePerName(t), P!Names(t) = P!Names(l)
    PROVE  IsUpTo(t, max)
<1>1. Len(t) = Cardinality(P!Names(t)) /\ Len(l) = Cardinality(P!Names(l)) BY NamesAreCounted DEF IsUpTo
<1>2. Len(t) = Len(l) BY <1>1, Zenon
<1>3. QED BY <1>2 DEF IsUpTo

LEMMA ReadIsShort ==
    ASSUME Limited, NEW l, IsViews(l), OncePerName(l)
    PROVE  IsShort(P!ReadViews(l))
  BY CutIsShort, NormalizeIsShort DEF P!ReadViews, Limited

LEMMA UpsertIsShort ==
    ASSUME Limited, NEW l, IsShort(l), NEW view, IsView(view)
    PROVE  IsShort(P!Upsert(l, view))
<1> DEFINE rest == P!Without(l, {view.name})
           t == <<view>> \o rest
<1>1. IsViews(rest) /\ OncePerName(rest) /\ view.name \notin P!Names(rest)
  BY WithoutIsShort DEF IsShort, IsUpTo
<1>2. IsViews(<<view>>) /\ OncePerName(<<view>>) /\ P!Names(<<view>>) = {view.name} BY OneView
<1>3. P!Upsert(l, view) = P!NormalizeOrders(P!Cut(t)) BY DEF P!Upsert
<1> HIDE DEF rest
<1>4. IsViews(t) /\ OncePerName(t) BY <1>1, <1>2, JoinedViews
<1> HIDE DEF t
<1>5. QED BY <1>3, <1>4, CutIsShort, NormalizeIsShort DEF Limited

LEMMA DeleteIsUpTo ==
    ASSUME NEW max \in Nat, NEW l, IsUpTo(l, max), NEW names
    PROVE  IsUpTo(P!NormalizeOrders(P!Without(l, names)), max)
  BY WithoutIsShort, NormalizeIsUpTo DEF IsUpTo

LEMMA DeleteIsShort ==
    ASSUME Limited, NEW l, IsShort(l), NEW names
    PROVE  IsShort(P!NormalizeOrders(P!Without(l, names)))
  BY DeleteIsUpTo DEF IsShort, Limited

LEMMA RegroupedViews ==
    ASSUME NEW l, IsViews(l), OncePerName(l), NEW names, NEW group
    PROVE  /\ IsViews(P!Regroup(l, names, group)) /\ OncePerName(P!Regroup(l, names, group))
           /\ P!Names(P!Regroup(l, names, group)) = P!Names(l)
<1> DEFINE t == P!Regroup(l, names, group)
<1>1. t = [i \in DOMAIN l |-> IF l[i].name \in names THEN [l[i] EXCEPT !.group = group] ELSE l[i]]
  BY DEF P!Regroup
<1> HIDE DEF t
<1>2. ASSUME NEW i \in DOMAIN l PROVE IsView(t[i]) /\ t[i].name = l[i].name
  <2>1. IsView(l[i]) BY DEF IsViews
  <2>2. t[i] = l[i] \/ t[i] = [l[i] EXCEPT !.group = group] BY <1>1
  <2>3. t[i] = [l[i] EXCEPT !.group = group] =>
          t[i] = [name |-> l[i].name, group |-> group, filters |-> l[i].filters, order |-> l[i].order]
    BY <2>1 DEF IsView
  <2>4. QED BY <2>1, <2>2, <2>3 DEF IsView
<1>3. t = [i \in DOMAIN l |-> t[i]] BY <1>1
<1>4. QED BY <1>2, <1>3, ChangedViews DEF t

LEMMA MoveIsUpTo ==
    ASSUME NEW max \in Nat, NEW l, IsUpTo(l, max), NEW names, NEW group
    PROVE  IsUpTo(P!MoveToGroup(l, names, group), max) /\ Numbered(P!MoveToGroup(l, names, group))
<1> DEFINE a == P!OrderViews(P!Only(l, names))
           b == P!OrderViews(P!Without(l, names))
           m == P!Regroup(a, names, group)
           t == m \o b
<1>1. P!MoveToGroup(l, names, group) = P!NormalizeOrders(t) BY DEF P!MoveToGroup
<1>2. IsViews(a) /\ OncePerName(a) /\ P!Names(a) = P!Names(l) \cap names
  BY OnlyIsShort, OrderKeepsNames DEF IsUpTo
<1>3. IsViews(b) /\ OncePerName(b) /\ P!Names(b) = P!Names(l) \ names
  BY WithoutIsShort, OrderKeepsNames DEF IsUpTo
<1> HIDE DEF a, b
<1>4. IsViews(m) /\ OncePerName(m) /\ P!Names(m) = P!Names(l) \cap names BY <1>2, RegroupedViews
<1> HIDE DEF m
<1>5. P!Names(m) \cap P!Names(b) = {} /\ P!Names(m) \cup P!Names(b) = P!Names(l) BY <1>3, <1>4
<1>6. IsViews(t) /\ OncePerName(t) /\ P!Names(t) = P!Names(l) BY <1>3, <1>4, <1>5, JoinedViews
<1> HIDE DEF t
<1>7. IsUpTo(t, max) BY <1>6, SameNamesAreUpTo
<1>8. QED BY <1>1, <1>7, NormalizeIsUpTo

LEMMA MoveIsShort ==
    ASSUME Limited, NEW l, IsShort(l), NEW names, NEW group
    PROVE  IsShort(P!MoveToGroup(l, names, group))
  BY MoveIsUpTo DEF IsShort, Limited

LEMMA RenameIsUpTo ==
    ASSUME NEW max, NEW l, IsUpTo(l, max), NEW from, NEW to, to \notin P!Names(l)
    PROVE  IsUpTo(P!Rename(l, from, to), max)
<1> DEFINE t == P!Rename(l, from, to)
<1>1. t = [i \in DOMAIN l |-> IF l[i].name = from THEN [l[i] EXCEPT !.name = to] ELSE l[i]]
  BY DEF P!Rename
<1> HIDE DEF t
<1>2. \A i \in DOMAIN l : l[i].name # to BY DEF P!Names
<1>3. ASSUME NEW i \in DOMAIN l
      PROVE  IsView(t[i]) /\ t[i].name = IF l[i].name = from THEN to ELSE l[i].name
  <2>1. IsView(l[i]) BY DEF IsUpTo, IsViews
  <2>2. CASE l[i].name = from
    <3>1. t[i] = [l[i] EXCEPT !.name = to] BY <1>1, <2>2
    <3>2. t[i] = [name |-> to, group |-> l[i].group, filters |-> l[i].filters, order |-> l[i].order]
      BY <2>1, <3>1 DEF IsView
    <3>3. QED BY <2>1, <2>2, <3>2 DEF IsView
  <2>3. CASE l[i].name # from BY <1>1, <2>1, <2>3
  <2>4. QED BY <2>2, <2>3
<1>4. t = [i \in DOMAIN l |-> t[i]] BY <1>1
<1>5. IsViews(t) /\ Len(t) = Len(l) /\ DOMAIN t = DOMAIN l BY <1>3, <1>4, ChangedViews DEF IsUpTo
<1>6. OncePerName(t)
  <2> SUFFICES ASSUME NEW i \in DOMAIN l, NEW j \in DOMAIN l, t[i].name = t[j].name PROVE i = j
    BY <1>5 DEF OncePerName
  <2>1. l[i].name = l[j].name BY <1>2, <1>3
  <2>2. QED BY <2>1 DEF IsUpTo, OncePerName
<1>7. QED BY <1>5, <1>6 DEF IsUpTo, t

LEMMA RenameIsShort ==
    ASSUME NEW l, IsShort(l), NEW from, NEW to, to \notin P!Names(l)
    PROVE  IsShort(P!Rename(l, from, to))
  BY RenameIsUpTo DEF IsShort

\* One view in another folder, and views with other orders, before the list is sorted.
NewGroup(l, name, group) ==
    [i \in DOMAIN l |->
        IF l[i].name = name THEN [l[i] EXCEPT !.group = group, !.order = P!TopOrderForGroup(l, group)]
        ELSE l[i]]

NewOrders(l, orders) ==
    [i \in DOMAIN l |->
        IF l[i].name \in DOMAIN orders THEN [l[i] EXCEPT !.order = orders[l[i].name]] ELSE l[i]]

LEMMA NewGroupIsUpTo ==
    ASSUME NEW max, NEW l, IsUpTo(l, max), NEW name, NEW group
    PROVE  /\ IsUpTo(NewGroup(l, name, group), max) /\ DOMAIN NewGroup(l, name, group) = DOMAIN l
           /\ \A i \in DOMAIN l : NewGroup(l, name, group)[i].name = l[i].name
<1> DEFINE top == P!TopOrderForGroup(l, group)
           t == NewGroup(l, name, group)
<1>1. t = [i \in DOMAIN l |-> IF l[i].name = name THEN [l[i] EXCEPT !.group = group, !.order = top] ELSE l[i]]
  BY DEF NewGroup
<1>2. IsViews(l) BY DEF IsUpTo
<1>3. top \in Int BY <1>2, TopOrderIsInt
<1> HIDE DEF top, t
<1>4. ASSUME NEW i \in DOMAIN l PROVE IsView(t[i]) /\ t[i].name = l[i].name
  <2>1. IsView(l[i]) BY <1>2 DEF IsViews
  <2>2. CASE l[i].name = name
    <3>1. t[i] = [l[i] EXCEPT !.group = group, !.order = top] BY <1>1, <2>2
    <3>2. t[i] = [name |-> l[i].name, group |-> group, filters |-> l[i].filters, order |-> top]
      BY <2>1, <3>1 DEF IsView
    <3>3. QED BY <1>3, <3>2 DEF IsView
  <2>3. CASE l[i].name # name BY <1>1, <2>1, <2>3
  <2>4. QED BY <2>2, <2>3
<1>5. t = [i \in DOMAIN l |-> t[i]] BY <1>1
<1>6. IsViews(t) /\ Len(t) = Len(l) /\ OncePerName(t) /\ DOMAIN t = DOMAIN l
  BY <1>2, <1>4, <1>5, ChangedViews DEF IsUpTo
<1>7. QED BY <1>4, <1>6 DEF IsUpTo, t

LEMMA UpdateGroupIsUpTo ==
    ASSUME NEW max, NEW l, IsUpTo(l, max), NEW name, NEW group
    PROVE  IsUpTo(P!UpdateGroup(l, name, group), max) /\ Numbered(P!UpdateGroup(l, name, group))
<1>1. P!UpdateGroup(l, name, group) = P!NormalizeOrders(NewGroup(l, name, group))
  BY DEF P!UpdateGroup, NewGroup
<1>2. QED BY <1>1, NewGroupIsUpTo, NormalizeIsUpTo

LEMMA UpdateGroupIsShort ==
    ASSUME NEW l, IsShort(l), NEW name, NEW group
    PROVE  IsShort(P!UpdateGroup(l, name, group))
  BY UpdateGroupIsUpTo DEF IsShort

LEMMA NewOrdersAreUpTo ==
    ASSUME NEW max, NEW l, IsUpTo(l, max), NEW orders, \A n \in DOMAIN orders : orders[n] \in Int
    PROVE  /\ IsUpTo(NewOrders(l, orders), max) /\ DOMAIN NewOrders(l, orders) = DOMAIN l
           /\ \A i \in DOMAIN l :
                  /\ NewOrders(l, orders)[i].name = l[i].name /\ NewOrders(l, orders)[i].group = l[i].group
                  /\ NewOrders(l, orders)[i].filters = l[i].filters
                  /\ l[i].name \in DOMAIN orders => NewOrders(l, orders)[i].order = orders[l[i].name]
<1> DEFINE t == NewOrders(l, orders)
<1>1. t = [i \in DOMAIN l |-> IF l[i].name \in DOMAIN orders
                              THEN [l[i] EXCEPT !.order = orders[l[i].name]] ELSE l[i]]
  BY DEF NewOrders
<1>2. IsViews(l) BY DEF IsUpTo
<1> HIDE DEF t
<1>3. ASSUME NEW i \in DOMAIN l
      PROVE  /\ IsView(t[i]) /\ t[i].name = l[i].name /\ t[i].group = l[i].group /\ t[i].filters = l[i].filters
             /\ l[i].name \in DOMAIN orders => t[i].order = orders[l[i].name]
  <2>1. IsView(l[i]) BY <1>2 DEF IsViews
  <2>2. CASE l[i].name \in DOMAIN orders
    <3> DEFINE o == orders[l[i].name]
    <3>1. o \in Int BY <2>2
    <3>2. t[i] = [l[i] EXCEPT !.order = o] BY <1>1, <2>2
    <3> HIDE DEF o
    <3>3. t[i] = [name |-> l[i].name, group |-> l[i].group, filters |-> l[i].filters, order |-> o]
      BY <2>1, <3>2 DEF IsView
    <3>4. t[i].order = o BY <3>3
    <3>5. QED BY <3>1, <3>3, <3>4 DEF IsView, o
  <2>3. CASE l[i].name \notin DOMAIN orders BY <1>1, <2>1, <2>3
  <2>4. QED BY <2>2, <2>3
<1>4. t = [i \in DOMAIN l |-> t[i]] BY <1>1
<1>5. IsViews(t) /\ Len(t) = Len(l) /\ OncePerName(t) /\ DOMAIN t = DOMAIN l
  BY <1>2, <1>3, <1>4, ChangedViews DEF IsUpTo
<1>6. IsUpTo(t, max) BY <1>5 DEF IsUpTo
<1>7. QED BY <1>3, <1>5, <1>6 DEF t

LEMMA ReorderedIsUpTo ==
    ASSUME NEW max, NEW l, IsUpTo(l, max), NEW orders, \A n \in DOMAIN orders : orders[n] \in Int
    PROVE  IsUpTo(P!Reordered(l, orders), max) /\ Numbered(P!Reordered(l, orders))
<1>1. P!Reordered(l, orders) = P!NormalizeOrders(NewOrders(l, orders)) BY DEF P!Reordered, NewOrders
<1>2. QED BY <1>1, NewOrdersAreUpTo, NormalizeIsUpTo

\* The views of a folder in their order.
LEMMA FolderInOrder ==
    ASSUME NEW max \in Nat, NEW l, IsUpTo(l, max), NEW group
    PROVE  /\ IsUpTo(P!OrderViews(P!OfGroup(l, group)), max)
           /\ P!Names(P!OrderViews(P!OfGroup(l, group))) = {l[i].name : i \in {j \in DOMAIN l : l[j].group = group}}
<1> DEFINE K == {i \in DOMAIN l : l[i].group = group}
           t == P!At(l, K)
<1>1. P!OfGroup(l, group) = t BY DEF P!OfGroup
<1>2. K \in SUBSET DOMAIN l OBVIOUS
<1> HIDE DEF K
<1>3. IsUpTo(t, max) /\ P!Names(t) = {l[i].name : i \in K} BY <1>2, PartIsShort DEF IsUpTo
<1> HIDE DEF t
<1>4. IsUpTo(P!OrderViews(t), max) /\ P!Names(P!OrderViews(t)) = P!Names(t) BY <1>3, OrderKeepsNames DEF IsUpTo
<1>5. QED BY <1>1, <1>3, <1>4 DEF K

LEMMA ExchangedIsUpTo ==
    ASSUME NEW max \in Nat, NEW l, IsUpTo(l, max), NEW name \in P!Names(l), NEW direction, NEW other \in P!Neighbour(l, name, direction)
    PROVE  IsUpTo(P!Exchanged(l, name, other), max) /\ Numbered(P!Exchanged(l, name, other))
<1> DEFINE peers == P!OrderViews(P!OfGroup(l, P!Named(l, name).group))
           orders == [n \in {name, other} |-> P!Named(l, IF n = name THEN other ELSE name).order]
<1>1. P!Neighbour(l, name, direction) \subseteq P!Names(peers) BY DEF P!Neighbour, P!Names
<1>2. P!Names(peers) \subseteq P!Names(l) BY FolderInOrder DEF P!Names
<1>3. IsView(P!Named(l, name)) /\ IsView(P!Named(l, other)) BY <1>1, <1>2, NamedView DEF IsUpTo
<1>4. \A n \in DOMAIN orders : orders[n] \in Int BY <1>3 DEF IsView
<1>5. P!Exchanged(l, name, other) = P!Reordered(l, orders) BY DEF P!Exchanged
<1> HIDE DEF orders
<1>6. QED BY <1>4, <1>5, ReorderedIsUpTo

LEMMA ExchangedIsShort ==
    ASSUME Limited, NEW l, IsShort(l), NEW name \in P!Names(l), NEW direction, NEW other \in P!Neighbour(l, name, direction)
    PROVE  IsShort(P!Exchanged(l, name, other))
  BY ExchangedIsUpTo DEF IsShort, Limited

LEMMA PartOfList ==
    ASSUME NEW s, IsList(s), NEW m \in 1..(Len(s) + 1), NEW n \in 0..Len(s)
    PROVE  IsList(SubSeq(s, m, n))
<1> DEFINE S == {s[i] : i \in 1..Len(s)}
<1>1. s \in Seq(S) /\ Len(s) \in Nat BY ListsAreSequences DEF IsList
<1> HIDE DEF S
<1>2. SubSeq(s, m, n) \in Seq(S) BY <1>1
<1>3. QED BY <1>2, SequencesAreLists

LEMMA DroppedIsUpTo ==
    ASSUME NEW max \in Nat, NEW l, IsUpTo(l, max), NEW source \in P!Names(l), NEW target \in P!Names(l),
           source # target
    PROVE  IsUpTo(P!Dropped(l, source, target), max) /\ Numbered(P!Dropped(l, source, target))
<1> DEFINE inGroup == P!OrderViews(P!OfGroup(l, P!Named(l, target).group))
           peers == P!Without(inGroup, {source})
           place == CHOOSE i \in DOMAIN peers : peers[i].name = target
           group == SubSeq(peers, 1, place - 1) \o <<P!Named(l, source)>> \o SubSeq(peers, place, Len(peers))
           orders == [n \in P!Names(group) |-> CHOOSE i \in DOMAIN group : group[i].name = n]
<1>1. P!Dropped(l, source, target) = P!Reordered(l, orders) BY DEF P!Dropped
<1>2. target \in P!Names(inGroup)
  <2>1. PICK i \in DOMAIN l : l[i].name = target BY DEF P!Names
  <2>2. P!Named(l, target) = l[CHOOSE j \in DOMAIN l : l[j].name = target] BY DEF P!Named
  <2>3. PICK j \in DOMAIN l : P!Named(l, target) = l[j] /\ l[j].name = target BY <2>1, <2>2
  <2>4. P!Names(inGroup) = {l[k].name : k \in {h \in DOMAIN l : l[h].group = P!Named(l, target).group}}
    BY FolderInOrder
  <2>5. QED BY <2>3, <2>4
<1>3. IsUpTo(inGroup, max) BY FolderInOrder
<1> HIDE DEF inGroup
<1>4. IsViews(peers) /\ P!Names(peers) = P!Names(inGroup) \ {source} BY <1>3, WithoutIsShort DEF IsUpTo
<1>5. IsList(peers) /\ DOMAIN peers = 1..Len(peers) /\ Len(peers) \in Nat BY <1>4, ListLength DEF IsViews
<1> HIDE DEF peers
<1>6. place \in DOMAIN peers
  <2>1. \E i \in DOMAIN peers : peers[i].name = target BY <1>2, <1>4 DEF P!Names
  <2>2. QED BY <2>1
<1> HIDE DEF place
<1>7. IsList(SubSeq(peers, 1, place - 1)) /\ IsList(SubSeq(peers, place, Len(peers)))
  <2>1. 1 \in 1..(Len(peers) + 1) /\ place - 1 \in 0..Len(peers) BY <1>5, <1>6
  <2>2. place \in 1..(Len(peers) + 1) /\ Len(peers) \in 0..Len(peers) BY <1>5, <1>6
  <2>3. QED BY <1>5, <2>1, <2>2, PartOfList
<1>8. IsList(<<P!Named(l, source)>>)
  <2>1. <<P!Named(l, source)>> \in Seq({P!Named(l, source)}) OBVIOUS
  <2>2. QED BY <2>1, SequencesAreLists
<1>9. IsList(group) BY <1>7, <1>8, JoinedLists
<1> HIDE DEF group
<1>10. ASSUME NEW n \in DOMAIN orders PROVE orders[n] \in Int
  <2>1. \E i \in DOMAIN group : group[i].name = n BY DEF P!Names
  <2>2. orders[n] \in DOMAIN group BY <2>1
  <2>3. DOMAIN group \in SUBSET Int BY <1>9, ListLength
  <2>4. QED BY <2>2, <2>3
<1> HIDE DEF orders
<1>11. QED BY <1>1, <1>10, ReorderedIsUpTo

LEMMA DroppedIsShort ==
    ASSUME Limited, NEW l, IsShort(l), NEW source \in P!Names(l), NEW target \in P!Names(l),
           source # target
    PROVE  IsShort(P!Dropped(l, source, target))
  BY DroppedIsUpTo DEF IsShort, Limited

----------------------------------------------------------------------------
(* Two lists of views in one *)

LEMMA LeastNumber ==
    ASSUME NEW T \in SUBSET Nat, T # {}
    PROVE  \E n \in T : \A m \in T : n <= m
<1>1. PICK t \in T : TRUE OBVIOUS
<1> DEFINE U == {n \in T : n <= t}
           key == [n \in U |-> n]
           first == P!InOrder(U, key)
<1>2. U \in SUBSET Int /\ IsFiniteSet(U) /\ t \in U
  <2>1. t \in Nat OBVIOUS
  <2>2. t <= t BY <2>1
  <2>3. U \in SUBSET Nat OBVIOUS
  <2>4. t \in U BY <2>2
  <2>5. \A n \in U : n <= t OBVIOUS
  <2> HIDE DEF U
  <2>6. IsFiniteSet(U) BY <2>1, <2>3, <2>5, FS_BoundedSetOfNaturals
  <2>7. QED BY <2>3, <2>4, <2>6
<1>3. \A n \in U : key[n] = n /\ key[n] \in Int BY <1>2
<1> HIDE DEF key
<1>4. IsOrder(first, U, key) /\ Cardinality(U) \in Nat BY <1>2, <1>3, PanelOrder
<1> HIDE DEF first
<1>5. PICK k \in 1..Cardinality(U) : first[k] = t BY <1>2, <1>4 DEF IsOrder
<1>6. 1 \in 1..Cardinality(U) BY <1>4
<1>7. first[1] \in U BY <1>4, <1>6 DEF IsOrder
<1>8. \A m \in U : first[1] <= m
  <2> TAKE m \in U
  <2> HIDE DEF U
  <2>1. PICK j \in 1..Cardinality(U) : first[j] = m BY <1>4 DEF IsOrder
  <2>2. j = 1 \/ 1 < j BY <1>4
  <2>3. first[1] \in Int /\ m \in Int BY <1>2, <1>7
  <2>4. CASE j = 1 BY <2>1, <2>3, <2>4
  <2>5. CASE 1 < j
    <3>1. Sooner(key, first[1], m) BY <1>4, <1>6, <2>1, <2>5 DEF IsOrder
    <3>2. QED BY <1>3, <1>7, <2>3, <3>1 DEF Sooner
  <2>6. QED BY <2>2, <2>4, <2>5
<1>9. \A m \in T : first[1] <= m
  <2> TAKE m \in T
  <2>1. CASE m <= t BY <1>8, <2>1
  <2>2. CASE ~(m <= t)
    <3>1. first[1] \in Nat /\ first[1] <= t /\ m \in Nat /\ t \in Nat BY <1>7
    <3>2. QED BY <2>2, <3>1
  <2>3. QED BY <2>1, <2>2
<1>10. QED BY <1>7, <1>9

LEMMA PushAllOnce ==
    ASSUME NEW l, IsViews(l), OncePerName(l), NEW more, IsViews(more)
    PROVE  /\ IsViews(P!PushAll(l, more)) /\ OncePerName(P!PushAll(l, more))
           /\ P!Names(P!PushAll(l, more)) = P!Names(l) \cup P!Names(more)
<1> DEFINE K == {i \in DOMAIN more : /\ more[i].name \notin P!Names(l)
                                     /\ \A j \in 1..(i - 1) : more[j].name # more[i].name}
           t == P!At(more, K)
<1>1. P!PushAll(l, more) = l \o t BY DEF P!PushAll
<1>2. K \in SUBSET DOMAIN more OBVIOUS
<1>3. IsList(more) /\ DOMAIN more = 1..Len(more) /\ Len(more) \in Nat BY ListLength DEF IsViews
<1>4. ASSUME NEW i \in K, NEW j \in K, more[i].name = more[j].name PROVE i = j
  <2>1. i \in Int /\ j \in Int /\ i >= 1 /\ j >= 1 BY <1>3
  <2>2. ~(i < j) BY <1>4, <2>1
  <2>3. ~(j < i) BY <1>4, <2>1
  <2>4. QED BY <2>1, <2>2, <2>3
<1>5. {more[i].name : i \in K} = P!Names(more) \ P!Names(l)
  <2>1. {more[i].name : i \in K} \subseteq P!Names(more) \ P!Names(l) BY DEF P!Names
  <2>2. ASSUME NEW n \in P!Names(more) \ P!Names(l) PROVE \E i \in K : more[i].name = n
    <3> DEFINE T == {i \in DOMAIN more : more[i].name = n}
    <3>1. T \in SUBSET Nat /\ T # {} BY <1>3, <2>2 DEF P!Names
    <3>2. PICK i \in T : \A j \in T : i <= j BY <3>1, LeastNumber
    <3>3. \A j \in 1..(i - 1) : more[j].name # more[i].name
      <4> SUFFICES ASSUME NEW j \in 1..(i - 1), more[j].name = more[i].name PROVE FALSE
        OBVIOUS
      <4>1. i \in 1..Len(more) BY <1>3
      <4>2. j \in 1..Len(more) /\ ~(i <= j) BY <1>3, <4>1
      <4>3. QED BY <1>3, <3>2, <4>2
    <3>4. QED BY <2>2, <3>3
  <2>3. QED BY <2>1, <2>2
<1> HIDE DEF K
<1>6. IsViews(t) /\ OncePerName(t) /\ P!Names(t) = P!Names(more) \ P!Names(l) BY <1>2, <1>4, <1>5, SomeOf
<1> HIDE DEF t
<1>7. P!Names(l) \cap P!Names(t) = {} /\ P!Names(l) \cup P!Names(t) = P!Names(l) \cup P!Names(more)
  BY <1>6
<1>8. QED BY <1>1, <1>6, <1>7, JoinedViews

LEMMA PushOnce ==
    ASSUME NEW l, IsViews(l), OncePerName(l), NEW view, IsView(view)
    PROVE  IsViews(P!Push(l, view)) /\ OncePerName(P!Push(l, view))
<1>1. CASE view.name \in P!Names(l) BY <1>1 DEF P!Push
<1>2. CASE view.name \notin P!Names(l)
  <2>1. IsViews(<<view>>) /\ OncePerName(<<view>>) /\ P!Names(<<view>>) = {view.name} BY OneView
  <2>2. P!Push(l, view) = l \o <<view>>
    <3> DEFINE S == {l[i] : i \in 1..Len(l)} \cup {view}
    <3>1. l \in Seq(S)
      <4>1. IsList(l) /\ l \in [1..Len(l) -> S] BY DEF IsViews, IsList
      <4>2. QED BY <4>1 DEF IsList
    <3>2. view \in S OBVIOUS
    <3> HIDE DEF S
    <3>3. Append(l, view) = l \o <<view>> BY <3>1, <3>2, AppendIsConcat
    <3>4. QED BY <1>2, <3>3 DEF P!Push
  <2>3. QED BY <1>2, <2>1, <2>2, JoinedViews
<1>3. QED BY <1>1, <1>2

\* What has been pushed after each view of the other list.
Pushes(g, existing, incoming, n) ==
    g = [m \in 0..n |-> IF m = 0 THEN <<>> ELSE P!PushRenamed(g[m - 1], existing, incoming[m])]

\* There are such lists, however many views come in: a first number for which there are none
\* would be a step after one for which there are.
LEMMA PushesAreThere ==
    ASSUME NEW existing, NEW incoming
    PROVE  \A n \in Nat : \E g : Pushes(g, existing, incoming, n)
<1> DEFINE T == {n \in Nat : ~\E g : Pushes(g, existing, incoming, n)}
<1> SUFFICES ASSUME T # {} PROVE FALSE
  OBVIOUS
<1>1. T \in SUBSET Nat OBVIOUS
<1>2. PICK n \in T : \A m \in T : n <= m BY <1>1, LeastNumber
<1>3. CASE n = 0
  <2> DEFINE g == [m \in 0..0 |-> <<>>]
             h == [m \in 0..0 |-> IF m = 0 THEN <<>> ELSE P!PushRenamed(g[m - 1], existing, incoming[m])]
  <2>1. g = h OBVIOUS
  <2>2. Pushes(g, existing, incoming, 0) BY <2>1, Zenon DEF Pushes
  <2>3. QED BY <1>3, <2>2
<1>4. CASE n # 0
  <2>1. n - 1 \in Nat /\ ~(n <= n - 1) BY <1>4
  <2>2. n - 1 \notin T BY <1>2, <2>1
  <2>3. PICK g : Pushes(g, existing, incoming, n - 1) BY <2>1, <2>2
  <2> DEFINE next == P!PushRenamed(g[n - 1], existing, incoming[n])
             h == [m \in 0..n |-> IF m = n THEN next ELSE g[m]]
             k == [m \in 0..n |-> IF m = 0 THEN <<>> ELSE P!PushRenamed(h[m - 1], existing, incoming[m])]
  <2>4. DOMAIN h = 0..n /\ DOMAIN k = 0..n OBVIOUS
  <2>5. ASSUME NEW m \in 0..n PROVE h[m] = k[m]
    <3>1. CASE m = n
      <4>1. h[m - 1] = g[n - 1] BY <1>4, <3>1
      <4>2. k[m] = P!PushRenamed(h[m - 1], existing, incoming[m]) BY <1>4, <3>1
      <4>3. QED BY <3>1, <4>1, <4>2
    <3>2. CASE m # n
      <4>1. m \in 0..(n - 1) /\ m \in Int BY <3>2
      <4>2. g[m] = IF m = 0 THEN <<>> ELSE P!PushRenamed(g[m - 1], existing, incoming[m])
        BY <2>3, <4>1 DEF Pushes
      <4>3. m # 0 => h[m - 1] = g[m - 1] BY <3>2, <4>1
      <4>4. h[m] = g[m] BY <3>2
      <4>5. k[m] = IF m = 0 THEN <<>> ELSE P!PushRenamed(h[m - 1], existing, incoming[m]) OBVIOUS
      <4> HIDE DEF h, k
      <4>6. QED BY <4>2, <4>3, <4>4, <4>5
    <3>3. QED BY <3>1, <3>2
  <2>6. h = k
    <3>1. h = [m \in 0..n |-> h[m]] /\ k = [m \in 0..n |-> k[m]] OBVIOUS
    <3> HIDE DEF h, k
    <3>2. QED BY <2>5, <3>1
  <2>7. Pushes(h, existing, incoming, n) BY <2>6, Zenon DEF Pushes
  <2>8. QED BY <2>7
<1>5. QED BY <1>3, <1>4

LEMMA PushAllRenamedOnce ==
    ASSUME NEW existing, NEW incoming, IsViews(incoming)
    PROVE  IsViews(P!PushAllRenamed(existing, incoming)) /\ OncePerName(P!PushAllRenamed(existing, incoming))
<1> DEFINE size == Len(incoming)
           pushed == CHOOSE g : g = [n \in 0..size |->
                         IF n = 0 THEN <<>> ELSE P!PushRenamed(g[n - 1], existing, incoming[n])]
           Good(l) == IsViews(l) /\ OncePerName(l)
<1>1. P!PushAllRenamed(existing, incoming) = pushed[size] BY DEF P!PushAllRenamed
<1>2. size \in Nat /\ DOMAIN incoming = 1..size BY ListLength DEF IsViews
<1>3. Pushes(pushed, existing, incoming, size)
  <2>1. \E g : Pushes(g, existing, incoming, size) BY <1>2, PushesAreThere
  <2>2. QED BY <2>1 DEF Pushes
<1> HIDE DEF pushed
<1>4. ASSUME NEW l, Good(l), NEW view, IsView(view) PROVE Good(P!PushRenamed(l, existing, view))
  <2> DEFINE new == [view EXCEPT !.name = P!CopiedName(view.name, P!Names(l) \cup P!Names(existing))]
  <2>1. IsView(new)
    <3> DEFINE name == P!CopiedName(view.name, P!Names(l) \cup P!Names(existing))
    <3> HIDE DEF name
    <3>1. [view EXCEPT !.name = name] =
            [name |-> name, group |-> view.group, filters |-> view.filters, order |-> view.order]
      BY <1>4 DEF IsView
    <3>2. IsView([view EXCEPT !.name = name]) BY <1>4, <3>1 DEF IsView
    <3>3. QED BY <3>2 DEF name
  <2> HIDE DEF new
  <2>2. Good(P!Push(l, new)) /\ Good(P!Push(l, view)) BY <1>4, <2>1, PushOnce
  <2>3. P!PushRenamed(l, existing, view) = P!Push(l, IF P!Conflicting(existing, view) THEN new ELSE view)
    BY Zenon DEF P!PushRenamed, new
  <2>4. QED BY <2>2, <2>3
<1> DEFINE T == {n \in 0..size : ~Good(pushed[n])}
<1>5. T = {}
  <2> SUFFICES ASSUME T # {} PROVE FALSE
    OBVIOUS
  <2>1. T \in SUBSET Nat BY <1>2
  <2>2. PICK n \in T : \A m \in T : n <= m BY <2>1, LeastNumber
  <2>3. n \in 0..size /\ n \in Int BY <1>2
  <2>4. pushed[n] = IF n = 0 THEN <<>> ELSE P!PushRenamed(pushed[n - 1], existing, incoming[n])
    BY <1>3, <2>3 DEF Pushes
  <2>5. CASE n = 0 BY <2>4, <2>5, NoViews
  <2>6. CASE n # 0
    <3>1. n - 1 \in 0..size /\ n \in 1..size /\ ~(n <= n - 1) BY <1>2, <2>3, <2>6
    <3>2. Good(pushed[n - 1]) BY <2>2, <3>1
    <3>3. IsView(incoming[n]) BY <1>2, <3>1 DEF IsViews
    <3>4. Good(pushed[n]) BY <1>4, <2>4, <2>6, <3>2, <3>3
    <3>5. QED BY <3>4
  <2>7. QED BY <2>5, <2>6
<1>6. size \in 0..size BY <1>2
<1>7. QED BY <1>1, <1>5, <1>6

LEMMA MergedOnce ==
    ASSUME NEW existing, IsViews(existing), NEW incoming, IsViews(incoming),
           NEW resolution \in {"current", "incoming", "rename"}
    PROVE  IsViews(P!Merged(existing, incoming, resolution)) /\ OncePerName(P!Merged(existing, incoming, resolution))
<1> DEFINE Good(l) == IsViews(l) /\ OncePerName(l)
           news == P!News(existing, incoming)
           renamed == P!PushAllRenamed(existing, incoming)
<1>1. Good(<<>>) BY NoViews
<1>2. IsViews(news)
  <2> DEFINE K == {i \in DOMAIN incoming : incoming[i].name \notin P!Names(existing)}
  <2>1. news = P!At(incoming, K) BY DEF P!News, P!Without
  <2>2. K \in SUBSET DOMAIN incoming OBVIOUS
  <2> HIDE DEF K, news
  <2>3. QED BY <2>1, <2>2, SomeOf
<1>3. Good(renamed) BY PushAllRenamedOnce
<1> HIDE DEF news, renamed
<1>4. \A l, more : Good(l) /\ IsViews(more) => Good(P!PushAll(l, more)) BY PushAllOnce
<1> HIDE DEF Good
<1>5. CASE resolution = "current"
  <2>1. P!Merged(existing, incoming, resolution) = P!PushAll(P!PushAll(<<>>, existing), news)
    BY <1>5 DEF P!Merged, news
  <2>2. QED BY <1>1, <1>2, <1>4, <2>1 DEF Good
<1>6. CASE resolution = "incoming"
  <2>1. P!Merged(existing, incoming, resolution) = P!PushAll(P!PushAll(<<>>, incoming), existing)
    BY <1>6 DEF P!Merged
  <2>2. QED BY <1>1, <1>4, <2>1 DEF Good
<1>7. CASE resolution = "rename"
  <2>1. P!Merged(existing, incoming, resolution) = P!PushAll(renamed, existing)
    BY <1>7 DEF P!Merged, renamed
  <2>2. QED BY <1>3, <1>4, <2>1 DEF Good
<1>8. QED BY <1>5, <1>6, <1>7

LEMMA MergeIsShort ==
    ASSUME Limited, NEW existing, IsViews(existing), NEW incoming, IsViews(incoming),
           NEW resolution \in {"current", "incoming", "rename"}
    PROVE  IsShort(P!Merge(existing, incoming, resolution))
  BY MergedOnce, CutIsShort, NormalizeIsShort DEF P!Merge, Limited
----------------------------------------------------------------------------
(* The lists of the panel *)

\* Whatever the panel shows, waits for or asks about is a list that it may have.
CallListsOK ==
    \A i \in DOMAIN calls : IsShort(calls[i].base) /\ (calls[i].handled => IsShort(calls[i].answer.views))

ComparisonOK ==
    compare # P!None =>
        \E action \in {"load", "save"} : \E local, other :
            IsShort(local) /\ IsShort(other) /\ compare = P!ComparePreview(action, local, other)

ConflictOK ==
    conflict # P!None =>
        conflict.action = "conflict" /\ IsShort(conflict.base) /\ IsViews(conflict.incoming)

ListsOK ==
    /\ IsShort(views) /\ IsShort(stored) /\ IsShort(team)
    /\ CallListsOK /\ ComparisonOK /\ ConflictOK

LEMMA ComparedLists ==
    ASSUME ListsOK, compare.action \in {"load", "save"}
    PROVE  IsShort(compare.incoming)
<1>1. compare # P!None BY DEF P!None
<1>2. PICK action \in {"load", "save"} : \E local, other :
         IsShort(local) /\ IsShort(other) /\ compare = P!ComparePreview(action, local, other)
  BY <1>1 DEF ListsOK, ComparisonOK
<1>3. PICK local, other :
         IsShort(local) /\ IsShort(other) /\ compare = P!ComparePreview(action, local, other)
  BY <1>2
<1>4. compare.incoming = IF action = "load" THEN other ELSE local BY <1>3 DEF P!ComparePreview
<1>5. QED BY <1>3, <1>4

LEMMA NewList ==
    ASSUME ListsOK, NEW new, IsShort(new), NEW chosen, P!SetViews(new, chosen), UNCHANGED <<calls, team>>,
           conflict' = conflict \/ conflict' = P!None
    PROVE  ListsOK'
<1>1. views' = new /\ stored' = new /\ compare' = P!None BY DEF P!SetViews, P!Write
<1>2. IsShort(views)' /\ IsShort(stored)' /\ IsShort(team)' BY <1>1 DEF ListsOK
<1>3. CallListsOK' BY DEF ListsOK, CallListsOK
<1>4. ComparisonOK' BY <1>1 DEF ComparisonOK
<1>5. ConflictOK' BY DEF ListsOK, ConflictOK
<1>6. QED BY <1>2, <1>3, <1>4, <1>5 DEF ListsOK

LEMMA TakenIn ==
    ASSUME Limited, ListsOK, UNCHANGED <<calls, team>>, NEW base, IsShort(base), NEW incoming, IsViews(incoming),
           NEW comparison, comparison \in {compare, P!None}, P!TakeIn(base, incoming, comparison)
    PROVE  ListsOK'
<1>1. CASE P!Conflicts(base, incoming) # <<>>
  <2>1. /\ conflict' = [action |-> "conflict", base |-> base, incoming |-> incoming]
        /\ compare' = comparison /\ UNCHANGED <<views, stored>>
    BY <1>1 DEF P!TakeIn, P!list
  <2>2. IsShort(views)' /\ IsShort(stored)' /\ IsShort(team)' BY <2>1 DEF ListsOK
  <2>3. CallListsOK' BY DEF ListsOK, CallListsOK
  <2>4. ComparisonOK' BY <2>1 DEF ListsOK, ComparisonOK
  <2>5. ConflictOK' BY <2>1 DEF ConflictOK
  <2>6. QED BY <2>2, <2>3, <2>4, <2>5 DEF ListsOK
<1>2. CASE P!Conflicts(base, incoming) = <<>>
  <2>1. P!SetViews(P!Merge(base, incoming, "incoming"), selected) /\ conflict' = P!None
    BY <1>2 DEF P!TakeIn, P!NoDialog
  <2>2. IsShort(P!Merge(base, incoming, "incoming")) BY MergeIsShort DEF IsShort, IsUpTo
  <2>3. QED BY <2>1, <2>2, NewList
<1>3. QED BY <1>1, <1>2

LEMMA EditedLists ==
    ASSUME Limited, ListsOK, P!EditNext
    PROVE  ListsOK'
<1>1. ASSUME P!Edit PROVE UNCHANGED <<calls, team>> BY <1>1 DEF P!Edit, P!requests, P!world
<1>2. ASSUME P!NoDialog \/ UNCHANGED P!dialogs PROVE conflict' = conflict \/ conflict' = P!None
  BY <1>2 DEF P!NoDialog, P!dialogs
<1>3. CASE P!SaveView
  <2>1. PICK n \in {<<x>> : x \in ViewNames}, g \in Groups, f \in FilterSets :
          P!SetViews(P!Upsert(views, [name |-> n, group |-> g, filters |-> f,
              order |-> IF n \in P!Names(views) THEN P!Named(views, n).order
                        ELSE P!TopOrderForGroup(views, g)]), selected)
    BY <1>3 DEF P!SaveView
  <2> DEFINE order == IF n \in P!Names(views) THEN P!Named(views, n).order ELSE P!TopOrderForGroup(views, g)
             view == [name |-> n, group |-> g, filters |-> f, order |-> order]
  <2>2. order \in Int
    <3>1. IsViews(views) BY DEF ListsOK, IsShort, IsUpTo
    <3>2. CASE n \in P!Names(views) BY <3>1, <3>2, NamedView DEF IsView
    <3>3. CASE n \notin P!Names(views) BY <3>1, <3>3, TopOrderIsInt
    <3>4. QED BY <3>2, <3>3
  <2> HIDE DEF order
  <2>3. IsView(view) BY <2>2 DEF IsView
  <2> HIDE DEF view
  <2>4. IsShort(P!Upsert(views, view)) BY <2>3, UpsertIsShort DEF ListsOK
  <2>5. P!SetViews(P!Upsert(views, view), selected) BY <2>1 DEF view, order
  <2>6. UNCHANGED <<calls, team>> /\ (conflict' = conflict \/ conflict' = P!None) BY <1>1, <1>2, <1>3 DEF P!SaveView
  <2>7. QED BY <2>4, <2>5, <2>6, NewList
<1>4. CASE P!DeleteView
  <2>1. UNCHANGED <<calls, team>> /\ (conflict' = conflict \/ conflict' = P!None) BY <1>1, <1>2, <1>4 DEF P!DeleteView
  <2>2. PICK n \in P!Names(views) : P!SetViews(P!NormalizeOrders(P!Without(views, {n})), selected \ {n})
    BY <1>4 DEF P!DeleteView
  <2>3. IsShort(P!NormalizeOrders(P!Without(views, {n}))) BY DeleteIsShort DEF ListsOK
  <2>4. QED BY <2>1, <2>2, <2>3, NewList
<1>5. CASE P!BulkMove
  <2>1. UNCHANGED <<calls, team>> /\ (conflict' = conflict \/ conflict' = P!None) BY <1>1, <1>2, <1>5 DEF P!BulkMove
  <2>2. PICK g \in Groups : P!SetViews(P!MoveToGroup(views, selected, g), selected) BY <1>5 DEF P!BulkMove
  <2>3. IsShort(P!MoveToGroup(views, selected, g)) BY MoveIsShort DEF ListsOK
  <2>4. QED BY <2>1, <2>2, <2>3, NewList
<1>6. CASE P!BulkDelete
  <2>1. UNCHANGED <<calls, team>> /\ (conflict' = conflict \/ conflict' = P!None) BY <1>1, <1>2, <1>6 DEF P!BulkDelete
  <2>2. P!SetViews(P!NormalizeOrders(P!Without(views, selected)), {}) BY <1>6 DEF P!BulkDelete
  <2>3. IsShort(P!NormalizeOrders(P!Without(views, selected))) BY DeleteIsShort DEF ListsOK
  <2>4. QED BY <2>1, <2>2, <2>3, NewList
<1>7. CASE P!CommitRename
  <2>1. UNCHANGED <<calls, team>> /\ conflict' = conflict BY <1>1, <1>7 DEF P!CommitRename
  <2>2. PICK n \in {<<x>> : x \in ViewNames} \ P!Names(views) : P!SetViews(P!Rename(views, renaming, n), selected)
    BY <1>7 DEF P!CommitRename
  <2>3. IsShort(P!Rename(views, renaming, n)) BY RenameIsShort DEF ListsOK
  <2>4. QED BY <2>1, <2>2, <2>3, NewList
<1>8. CASE P!ChangeGroup
  <2>1. UNCHANGED <<calls, team>> /\ (conflict' = conflict \/ conflict' = P!None) BY <1>1, <1>2, <1>8 DEF P!ChangeGroup
  <2>2. PICK n \in P!Names(views), g \in Groups : P!SetViews(P!UpdateGroup(views, n, g), selected)
    BY <1>8 DEF P!ChangeGroup
  <2>3. IsShort(P!UpdateGroup(views, n, g)) BY UpdateGroupIsShort DEF ListsOK
  <2>4. QED BY <2>1, <2>2, <2>3, NewList
<1>9. CASE P!MoveView
  <2>1. UNCHANGED <<calls, team>> /\ (conflict' = conflict \/ conflict' = P!None) BY <1>1, <1>2, <1>9 DEF P!MoveView
  <2>2. PICK n \in P!Names(views), direction \in {-1, 1} :
          \E other \in P!Neighbour(views, n, direction) : P!SetViews(P!Exchanged(views, n, other), selected)
    BY <1>9 DEF P!MoveView
  <2>3. PICK other \in P!Neighbour(views, n, direction) : P!SetViews(P!Exchanged(views, n, other), selected)
    BY <2>2
  <2>4. IsShort(P!Exchanged(views, n, other)) BY <2>3, ExchangedIsShort DEF ListsOK
  <2>5. QED BY <2>1, <2>3, <2>4, NewList
<1>10. CASE P!DropView
  <2>1. UNCHANGED <<calls, team>> /\ (conflict' = conflict \/ conflict' = P!None) BY <1>1, <1>2, <1>10 DEF P!DropView
  <2>2. PICK source \in P!Names(views), target \in P!Names(views) :
          source # target /\ P!SetViews(P!Dropped(views, source, target), selected)
    BY <1>10 DEF P!DropView
  <2>3. IsShort(P!Dropped(views, source, target)) BY <2>2, DroppedIsShort DEF ListsOK
  <2>4. QED BY <2>1, <2>2, <2>3, NewList
<1>11. CASE P!ApplyTeamLoad
  <2>1. UNCHANGED <<calls, team>> /\ compare.action = "load" /\ P!TakeIn(views, compare.incoming, P!None)
    BY <1>11 DEF P!ApplyTeamLoad, P!requests, P!world
  <2>2. IsShort(compare.incoming) BY <2>1, ComparedLists
  <2>3. IsShort(views) /\ IsViews(compare.incoming) BY <2>2 DEF ListsOK, IsShort, IsUpTo
  <2>4. QED BY <2>1, <2>3, TakenIn
<1>12. CASE P!ResolveConflicts
  <2>1. UNCHANGED <<calls, team>> /\ conflict # P!None /\ conflict' = P!None
    BY <1>12 DEF P!ResolveConflicts, P!requests, P!world, P!NoDialog
  <2>2. PICK resolution \in {"current", "incoming", "rename"} :
          P!SetViews(P!Merge(conflict.base, conflict.incoming, resolution), selected)
    BY <1>12 DEF P!ResolveConflicts
  <2>3. IsViews(conflict.base) /\ IsViews(conflict.incoming) BY <2>1 DEF ListsOK, ConflictOK, IsShort, IsUpTo
  <2>4. IsShort(P!Merge(conflict.base, conflict.incoming, resolution)) BY <2>3, MergeIsShort
  <2>5. QED BY <2>1, <2>2, <2>4, NewList
<1>13. QED
  BY <1>3, <1>4, <1>5, <1>6, <1>7, <1>8, <1>9, <1>10, <1>11, <1>12 DEF P!EditNext

\* Lists that no step touches.
LEMMA SameLists ==
    ASSUME ListsOK, UNCHANGED <<views, stored, team, calls>>,
           compare' \in {compare, P!None}, conflict' \in {conflict, P!None}
    PROVE  ListsOK'
<1>1. IsShort(views)' /\ IsShort(stored)' /\ IsShort(team)' BY DEF ListsOK
<1>2. CallListsOK' BY DEF ListsOK, CallListsOK
<1>3. ComparisonOK' BY DEF ListsOK, ComparisonOK
<1>4. ConflictOK' BY DEF ListsOK, ConflictOK
<1>5. QED BY <1>1, <1>2, <1>3, <1>4 DEF ListsOK

LEMMA ClickedLists ==
    ASSUME ListsOK, P!ClickNext
    PROVE  ListsOK'
<1> USE DEF P!list, P!preview, P!dialogs, P!requests, P!world
<1>1. ASSUME NEW chosen, P!Picking(chosen) PROVE ListsOK' BY <1>1, SameLists DEF P!Picking
<1>2. CASE P!Toggle \/ P!ToggleShown \/ P!ClearSelection \/ P!ExportSelected
  BY <1>1, <1>2 DEF P!Toggle, P!ToggleShown, P!ClearSelection, P!ExportSelected
<1>3. CASE P!AskBulkDelete BY <1>3, SameLists DEF P!AskBulkDelete
<1>4. CASE P!StartRename BY <1>4, SameLists DEF P!StartRename
<1>5. CASE P!CloseDialog BY <1>5, SameLists DEF P!CloseDialog
<1>6. CASE P!Dismiss BY <1>6, SameLists DEF P!Dismiss
<1>7. CASE P!SwitchSource BY <1>7, SameLists DEF P!SwitchSource
<1>8. QED BY <1>2, <1>3, <1>4, <1>5, <1>6, <1>7 DEF P!ClickNext

LEMMA CalledLists ==
    ASSUME PanelInv, ListsOK, P!CallNext
    PROVE  ListsOK'
<1>1. PICK kind \in {"load", "prepare", "confirm", "import"} :
          P!Call(kind) /\ compare' = compare /\ conflict' \in {conflict, P!None}
  <2>1. CASE P!LoadTeam BY <2>1 DEF P!LoadTeam, P!TeamCall, P!dialogs
  <2>2. CASE P!PrepareSave BY <2>2 DEF P!PrepareSave, P!TeamCall, P!preview, P!dialogs
  <2>3. CASE P!ConfirmSave BY <2>3 DEF P!ConfirmSave, P!TeamCall, P!NoDialog
  <2>4. CASE P!ImportFile BY <2>4 DEF P!ImportFile, P!preview, P!dialogs
  <2>5. QED BY <2>1, <2>2, <2>3, <2>4 DEF P!CallNext
<1> DEFINE new == [kind |-> kind, mount |-> mount, base |-> views, handled |-> FALSE, answer |-> P!NoAnswer]
<1>2. calls' = Append(calls, new) /\ UNCHANGED <<views, stored, team>>
  BY <1>1 DEF P!Call, P!world, P!list
<1>3. IsList(calls) BY DEF PanelInv, CallsOK
<1>4. /\ IsList(calls') /\ Len(calls') = Len(calls) + 1 /\ calls'[Len(calls) + 1] = new
      /\ \A i \in 1..Len(calls) : calls'[i] = calls[i]
  BY <1>2, <1>3, AppendedList
<1>5. DOMAIN calls' = 1..(Len(calls) + 1) /\ DOMAIN calls = 1..Len(calls) /\ Len(calls) \in Nat
  BY <1>3, <1>4, ListLength
<1>6. CallListsOK'
  <2> SUFFICES ASSUME NEW i \in DOMAIN calls'
               PROVE  /\ IsShort(calls'[i].base)
                      /\ calls'[i].handled => IsShort(calls'[i].answer.views)
    BY DEF CallListsOK, IsShort, IsUpTo
  <2>1. CASE i = Len(calls) + 1 BY <1>4, <2>1 DEF ListsOK
  <2>2. CASE i \in 1..Len(calls) BY <1>4, <1>5, <2>2 DEF ListsOK, CallListsOK
  <2>3. QED BY <1>5, <2>1, <2>2
<1>7. IsShort(views)' /\ IsShort(stored)' /\ IsShort(team)' BY <1>2 DEF ListsOK
<1>8. ComparisonOK' BY <1>1 DEF ListsOK, ComparisonOK
<1>9. ConflictOK' BY <1>1 DEF ListsOK, ConflictOK
<1>10. QED BY <1>6, <1>7, <1>8, <1>9 DEF ListsOK

LEMMA HandledLists ==
    ASSUME PanelInv, ListsOK, NEW c \in DOMAIN calls, P!Handle(c)
    PROVE  ListsOK'
<1>1. team' = (IF calls[c].kind = "confirm" THEN calls[c].base ELSE team) /\ IsShort(team')
  BY DEF P!Handle, ListsOK, CallListsOK
<1>2. \A i \in DOMAIN calls : calls[i] = [kind |-> calls[i].kind, mount |-> calls[i].mount, base |-> calls[i].base,
                                          handled |-> calls[i].handled, answer |-> calls[i].answer]
  BY DEF PanelInv, CallsOK
<1>3. /\ DOMAIN calls' = DOMAIN calls
      /\ \A i \in DOMAIN calls : i # c => calls'[i] = calls[i]
      /\ calls'[c] = [calls[c] EXCEPT !.handled = TRUE, !.answer = [ok |-> TRUE, views |-> team']]
  <2>1. calls = [i \in DOMAIN calls |-> calls[i]] BY DEF PanelInv, CallsOK, IsList
  <2>2. QED BY <2>1 DEF P!Handle
<1>4. calls'[c].base = calls[c].base /\ calls'[c].answer.views = team'
  <2>1. PICK r : calls[c] = [kind |-> r.kind, mount |-> r.mount, base |-> r.base,
                             handled |-> r.handled, answer |-> r.answer] /\ r = calls[c]
    BY <1>2
  <2>2. QED BY <1>3, <2>1
<1>5. CallListsOK'
  <2> SUFFICES ASSUME NEW i \in DOMAIN calls
               PROVE  /\ IsShort(calls'[i].base)
                      /\ calls'[i].handled => IsShort(calls'[i].answer.views)
    BY <1>3 DEF CallListsOK, IsShort, IsUpTo
  <2>1. CASE i = c BY <1>1, <1>4, <2>1 DEF ListsOK, CallListsOK
  <2>2. CASE i # c BY <1>3, <2>2 DEF ListsOK, CallListsOK
  <2>3. QED BY <2>1, <2>2
<1>6. UNCHANGED <<views, stored, compare, conflict>> BY DEF P!Handle, P!list, P!preview, P!dialogs
<1>7. IsShort(views)' /\ IsShort(stored)' BY <1>6 DEF ListsOK
<1>8. ComparisonOK' BY <1>6 DEF ListsOK, ComparisonOK
<1>9. ConflictOK' BY <1>6 DEF ListsOK, ConflictOK
<1>10. QED BY <1>1, <1>5, <1>7, <1>8, <1>9 DEF ListsOK, IsShort, IsUpTo

\* The calls that are left are what they were.
LEMMA LeftCalls ==
    ASSUME PanelInv, ListsOK, NEW c \in DOMAIN calls, P!End(c)
    PROVE  team' = team /\ CallListsOK'
<1>1. UNCHANGED team /\ calls' = P!RemoveAt(calls, c) BY DEF P!End, P!world
<1>2. IsList(calls) /\ DOMAIN calls = 1..Len(calls) /\ Len(calls) \in Nat
  BY ListLength DEF PanelInv, CallsOK
<1>3. /\ IsList(calls') /\ Len(calls') = Len(calls) - 1
      /\ \A i \in 1..(Len(calls) - 1) : calls'[i] = IF i < c THEN calls[i] ELSE calls[i + 1]
  BY <1>1, <1>2, RemovedAt
<1>4. DOMAIN calls' = 1..(Len(calls) - 1) BY <1>3, ListLength
<1>5. \A i \in DOMAIN calls' : \E k \in DOMAIN calls : calls'[i] = calls[k] BY <1>2, <1>3, <1>4
<1>6. QED BY <1>1, <1>5 DEF CallListsOK, ListsOK, IsShort, IsUpTo

\* What an answer does to the lists, when the calls that are left are what they were.
LEMMA AnsweredLists ==
    ASSUME Limited, PanelInv, ListsOK, NEW c \in DOMAIN calls, P!Answered(c)
    PROVE  ListsOK'
<1>1. P!End(c) BY DEF P!Answered, P!Compared, P!Saved, P!Fails, P!Imported, P!EndTeamCall
<1>2. team' = team /\ CallListsOK' BY <1>1, LeftCalls
<1>3. IsShort(team)' BY <1>2 DEF ListsOK
<1>4. ASSUME UNCHANGED <<views, stored>>, compare' \in {compare, P!None}, conflict' \in {conflict, P!None}
      PROVE  ListsOK'
  <2>1. IsShort(views)' /\ IsShort(stored)' BY <1>4 DEF ListsOK
  <2>2. ComparisonOK' BY <1>4 DEF ListsOK, ComparisonOK
  <2>3. ConflictOK' BY <1>4 DEF ListsOK, ConflictOK
  <2>4. QED BY <1>2, <1>3, <2>1, <2>2, <2>3 DEF ListsOK
<1>5. CASE P!Compared(c)
  <2>1. CASE ~P!Here(c) BY <1>4, <1>5, <2>1 DEF P!Compared, P!list, P!preview, P!dialogs
  <2>2. CASE P!Here(c)
    <3> DEFINE action == IF calls[c].kind = "load" THEN "load" ELSE "save"
    <3>1. /\ compare' = P!ComparePreview(action, calls[c].base, calls[c].answer.views)
          /\ conflict' = P!None /\ UNCHANGED <<views, stored>> /\ calls[c].handled
      BY <1>5, <2>2 DEF P!Compared, P!list, P!NoDialog
    <3>2. IsShort(calls[c].base) /\ IsShort(calls[c].answer.views) BY <3>1 DEF ListsOK, CallListsOK
    <3>3. ComparisonOK' BY <3>1, <3>2 DEF ComparisonOK, IsShort, IsUpTo
    <3>4. ConflictOK' BY <3>1 DEF ConflictOK
    <3>5. IsShort(views)' /\ IsShort(stored)' BY <3>1 DEF ListsOK
    <3>6. QED BY <1>2, <1>3, <3>3, <3>4, <3>5 DEF ListsOK
  <2>3. QED BY <2>1, <2>2
<1>6. CASE P!Saved(c)
  <2>1. IsShort(calls[c].answer.views) /\ UNCHANGED conflict
    BY <1>6 DEF P!Saved, ListsOK, CallListsOK, P!dialogs
  <2>2. /\ stored' = calls[c].answer.views /\ views' \in {views, calls[c].answer.views}
        /\ compare' \in {compare, P!None}
    BY <1>6 DEF P!Saved, P!SetViews, P!Write, P!preview
  <2>3. IsShort(views)' /\ IsShort(stored)' BY <2>1, <2>2 DEF ListsOK
  <2>4. ComparisonOK' BY <2>2 DEF ListsOK, ComparisonOK
  <2>5. ConflictOK' BY <2>1 DEF ListsOK, ConflictOK
  <2>6. QED BY <1>2, <1>3, <2>3, <2>4, <2>5 DEF ListsOK
<1>7. CASE P!Fails(c) BY <1>4, <1>7 DEF P!Fails, P!list, P!preview, P!dialogs, P!NoDialog
<1>8. CASE P!Imported(c)
  <2>1. PICK file \in Files :
          IF P!Here(c)
          THEN IF P!NormalizeOrders(file) = <<>> THEN P!NoDialog /\ UNCHANGED <<P!list, P!picks, P!preview>>
               ELSE P!TakeIn(calls[c].base, P!NormalizeOrders(file), compare)
          ELSE /\ stored' = IF P!NormalizeOrders(file) = <<>> \/ P!Conflicts(calls[c].base, P!NormalizeOrders(file)) # <<>>
                            THEN stored ELSE P!Merge(calls[c].base, P!NormalizeOrders(file), "incoming")
               /\ UNCHANGED <<views, P!picks, P!preview, P!dialogs>>
    BY <1>8 DEF P!Imported
  <2> DEFINE incoming == P!NormalizeOrders(file)
             base == calls[c].base
  <2>2. IsViews(incoming) BY ViewsAssumption, NormalizeKeepsNames
  <2>3. IsShort(base) /\ IsViews(base) BY DEF ListsOK, CallListsOK, IsShort, IsUpTo
  <2>4. IsShort(P!Merge(base, incoming, "incoming")) BY <2>2, <2>3, MergeIsShort
  <2> HIDE DEF incoming, base
  <2>5. CASE ~P!Here(c)
    <3>1. stored' \in {stored, P!Merge(base, incoming, "incoming")} /\ UNCHANGED <<views, compare, conflict>>
      BY <2>1, <2>5 DEF P!preview, P!dialogs, base, incoming
    <3>2. IsShort(views)' /\ IsShort(stored)' BY <2>4, <3>1 DEF ListsOK
    <3>3. ComparisonOK' BY <3>1 DEF ListsOK, ComparisonOK
    <3>4. ConflictOK' BY <3>1 DEF ListsOK, ConflictOK
    <3>5. QED BY <1>2, <1>3, <3>2, <3>3, <3>4 DEF ListsOK
  <2>6. CASE P!Here(c) /\ incoming = <<>>
    BY <1>4, <2>1, <2>6 DEF P!NoDialog, P!list, P!preview, incoming
  <2>7. CASE P!Here(c) /\ incoming # <<>>
    <3>1. P!TakeIn(base, incoming, compare) BY <2>1, <2>7 DEF base, incoming
    <3>2. CASE P!Conflicts(base, incoming) # <<>>
      <4>1. /\ conflict' = [action |-> "conflict", base |-> base, incoming |-> incoming]
            /\ UNCHANGED <<views, stored, compare>>
        BY <3>1, <3>2 DEF P!TakeIn, P!list
      <4>2. IsShort(views)' /\ IsShort(stored)' BY <4>1 DEF ListsOK
      <4>3. ComparisonOK' BY <4>1 DEF ListsOK, ComparisonOK
      <4>4. ConflictOK' BY <2>2, <2>3, <4>1 DEF ConflictOK
      <4>5. QED BY <1>2, <1>3, <4>2, <4>3, <4>4 DEF ListsOK
    <3>3. CASE P!Conflicts(base, incoming) = <<>>
      <4>1. /\ views' = P!Merge(base, incoming, "incoming") /\ stored' = views'
            /\ compare' = P!None /\ conflict' = P!None
        BY <3>1, <3>3 DEF P!TakeIn, P!SetViews, P!Write, P!NoDialog
      <4>2. IsShort(views)' /\ IsShort(stored)' BY <2>4, <4>1
      <4>3. ComparisonOK' /\ ConflictOK' BY <4>1 DEF ComparisonOK, ConflictOK
      <4>4. QED BY <1>2, <1>3, <4>2, <4>3 DEF ListsOK
    <3>4. QED BY <3>2, <3>3
  <2>8. QED BY <2>5, <2>6, <2>7
<1>9. QED BY <1>5, <1>6, <1>7, <1>8 DEF P!Answered

LEMMA OpenedLists ==
    ASSUME Limited, ListsOK, P!Close \/ P!Reopen \/ P!OthersSave
    PROVE  ListsOK'
<1>1. CASE P!OthersSave
  <2>1. PICK l \in TeamLists : team' = P!NormalizeOrders(l) BY <1>1 DEF P!OthersSave
  <2>2. IsShort(l) BY ViewsAssumption DEF IsShort, IsUpTo
  <2>3. IsShort(team)' BY <2>1, <2>2, NormalizeIsShort
  <2>4. UNCHANGED <<views, stored, calls, compare, conflict>>
    BY <1>1 DEF P!OthersSave, P!list, P!requests, P!preview, P!dialogs
  <2>5. IsShort(views)' /\ IsShort(stored)' BY <2>4 DEF ListsOK
  <2>6. CallListsOK' BY <2>4 DEF ListsOK, CallListsOK
  <2>7. ComparisonOK' BY <2>4 DEF ListsOK, ComparisonOK
  <2>8. ConflictOK' BY <2>4 DEF ListsOK, ConflictOK
  <2>9. QED BY <2>3, <2>5, <2>6, <2>7, <2>8 DEF ListsOK
<1>2. CASE P!Close \/ P!Reopen
  <2>1. /\ UNCHANGED <<stored, calls, team>> /\ views' \in {<<>>, P!ReadViews(stored)}
        /\ compare' \in {compare, P!None} /\ conflict' \in {conflict, P!None}
    BY <1>2 DEF P!Close, P!Reopen, P!NoDialog, P!requests, P!preview, P!dialogs
  <2>2. IsShort(<<>>) BY NoViews DEF IsShort, IsUpTo, Limited
  <2>3. IsShort(P!ReadViews(stored)) BY ReadIsShort DEF ListsOK, IsShort, IsUpTo
  <2>4. IsShort(views)' /\ IsShort(stored)' /\ IsShort(team)' BY <2>1, <2>2, <2>3 DEF ListsOK
  <2>5. CallListsOK' BY <2>1 DEF ListsOK, CallListsOK
  <2>6. ComparisonOK' BY <2>1 DEF ListsOK, ComparisonOK
  <2>7. ConflictOK' BY <2>1 DEF ListsOK, ConflictOK
  <2>8. QED BY <2>4, <2>5, <2>6, <2>7 DEF ListsOK
<1>3. QED BY <1>1, <1>2

LEMMA ListsStep ==
    ASSUME Limited, PanelInv, ListsOK, [P!Next]_(P!vars)
    PROVE  ListsOK'
<1>1. CASE P!EditNext BY <1>1, EditedLists
<1>2. CASE P!ClickNext BY <1>2, ClickedLists
<1>3. CASE P!CallNext BY <1>3, CalledLists
<1>4. CASE P!AnswerNext BY <1>4, HandledLists, AnsweredLists DEF P!AnswerNext
<1>5. CASE P!Close \/ P!Reopen \/ P!OthersSave BY <1>5, OpenedLists
<1>6. CASE UNCHANGED P!vars
  BY <1>6, SameLists DEF P!vars, P!list, P!preview, P!dialogs, P!requests, P!world
<1>7. QED BY <1>1, <1>2, <1>3, <1>4, <1>5, <1>6 DEF P!Next

LEMMA ListsInit == Limited /\ P!Init => ListsOK
<1> SUFFICES ASSUME Limited, P!Init PROVE ListsOK
  OBVIOUS
<1>1. PICK l \in SavedLists : stored = P!ReadViews(l) BY DEF P!Init
<1>2. IsShort(stored) BY <1>1, ViewsAssumption, ReadIsShort
<1>3. IsShort(<<>>) BY NoViews DEF IsShort, IsUpTo, Limited
<1>4. IsShort(views) /\ IsShort(team) BY <1>2, <1>3 DEF P!Init
<1>5. CallListsOK BY NoViews DEF P!Init, CallListsOK
<1>6. ComparisonOK /\ ConflictOK BY DEF P!Init, ComparisonOK, ConflictOK
<1>7. QED BY <1>2, <1>4, <1>5, <1>6 DEF ListsOK

LEMMA PanelViewsOnce == ListsOK => P!OneViewPerName
BY ShortIsCounted DEF ListsOK, P!OneViewPerName
----------------------------------------------------------------------------
(* What the server makes of a list of views *)

\* The inputs that count are counted one by one.
LEMMA PositionsDiffer ==
    ASSUME NEW inputs, IsList(inputs)
    PROVE  /\ Distinct(inputs) \in SUBSET Int /\ IsFiniteSet(Distinct(inputs))
           /\ \A i \in Distinct(inputs) : Position(inputs, i) \in Nat \ {0}
           /\ \A i, j \in Distinct(inputs) : i < j => Position(inputs, i) < Position(inputs, j)
<1>1. DOMAIN inputs = 1..Len(inputs) /\ Len(inputs) \in Nat BY ListLength
<1>2. Distinct(inputs) \in SUBSET (1..Len(inputs)) BY <1>1 DEF Distinct
<1>3. IsFiniteSet(1..Len(inputs)) BY <1>1, FS_Interval
<1>4. IsFiniteSet(Distinct(inputs)) BY <1>2, <1>3, FS_Subset
<1> DEFINE K == Distinct(inputs)
           Upto(i) == {j \in K : j <= i}
<1>5. \A i : Position(inputs, i) = Cardinality(Upto(i)) BY DEF Position
<1> HIDE DEF K
<1>6. IsFiniteSet(K) /\ K \in SUBSET Int BY <1>1, <1>2, <1>4 DEF K
<1>7. \A i : IsFiniteSet(Upto(i)) /\ Cardinality(Upto(i)) \in Nat
  <2> TAKE i
  <2>1. Upto(i) \in SUBSET K OBVIOUS
  <2>2. QED BY <1>6, <2>1, FS_Subset, FS_CardinalityType
<1>8. \A i \in K : Cardinality(Upto(i)) # 0
  <2> TAKE i \in K
  <2>1. i \in Upto(i) BY <1>6
  <2>2. Upto(i) # {} BY <2>1
  <2> HIDE DEF Upto
  <2>3. QED BY <1>7, <2>2, FS_EmptySet
<1>9. ASSUME NEW i \in K, NEW j \in K, i < j PROVE Cardinality(Upto(i)) < Cardinality(Upto(j))
  <2>0. i \in Int /\ j \in Int /\ \A k \in K : k \in Int BY <1>6
  <2>1. Upto(i) \subseteq Upto(j)
    <3> SUFFICES ASSUME NEW k \in K, k <= i PROVE k <= j
      OBVIOUS
    <3>1. QED BY <2>0, <1>9
  <2>2. j \in Upto(j) /\ j \notin Upto(i) BY <2>0, <1>9
  <2> HIDE DEF Upto
  <2>3. Upto(i) # Upto(j) BY <2>2
  <2>4. Cardinality(Upto(i)) <= Cardinality(Upto(j)) /\ Cardinality(Upto(i)) # Cardinality(Upto(j))
    BY <1>7, <2>1, <2>3, FS_Subset
  <2>5. QED BY <1>7, <2>4
<1>10. QED BY <1>5, <1>6, <1>7, <1>8, <1>9 DEF K

\* At most the limit of them is kept.
LEMMA KeptAreFew ==
    ASSUME NEW inputs, IsList(inputs)
    PROVE  /\ FirstPresets(inputs) \in SUBSET Int /\ IsFiniteSet(FirstPresets(inputs))
           /\ Cardinality(FirstPresets(inputs)) \in Nat
           /\ Cardinality(FirstPresets(inputs)) <= MaxPresets
<1> DEFINE K == FirstPresets(inputs)
           f == [i \in K |-> Position(inputs, i)]
<1>1. K \in SUBSET Distinct(inputs) BY DEF FirstPresets
<1>2. K \in SUBSET Int /\ IsFiniteSet(K) BY <1>1, PositionsDiffer, FS_Subset
<1>3. \A i \in K : f[i] \in 1..MaxPresets
  BY <1>1, PositionsDiffer, PresetAssumption DEF FirstPresets
<1>4. \A i, j \in K : f[i] = f[j] => i = j
  <2> TAKE i, j \in K
  <2>1. f[i] = Position(inputs, i) /\ f[j] = Position(inputs, j) OBVIOUS
  <2>2. i \in Int /\ j \in Int /\ f[i] \in Int BY <1>2, <1>3
  <2>3. i < j => f[i] < f[j] BY <1>1, <2>1, PositionsDiffer
  <2>4. j < i => f[j] < f[i] BY <1>1, <2>1, PositionsDiffer
  <2>5. QED BY <2>2, <2>3, <2>4
<1>5. f \in Injection(K, 1..MaxPresets)
  <2>1. f \in [K -> 1..MaxPresets] BY <1>3
  <2> HIDE DEF f, K
  <2>2. QED BY <1>4, <2>1 DEF Injection, IsInjective
<1>6. IsFiniteSet(1..MaxPresets) /\ Cardinality(1..MaxPresets) = MaxPresets
  BY PresetAssumption, FS_Interval
<1> HIDE DEF K, f
<1>7. Cardinality(K) <= MaxPresets BY <1>5, <1>6, FS_Injection
<1>8. QED BY <1>2, <1>7, FS_CardinalityType DEF K

WellFormed(items) ==
    /\ IsList(items) /\ Len(items) <= MaxPresets
    /\ \A i, j \in DOMAIN items :
           items[i].name # <<>> /\ (i # j => items[i].name # items[j].name)

\* A number for every preset, before any of which there are as many as the number says.
LEMMA SomePlaceForAll ==
    ASSUME NEW K \in SUBSET Int, IsFiniteSet(K), NEW key, \A i \in K : key[i] \in Int
    PROVE  \A n \in 1..Cardinality(K) : \E i \in K : Cardinality(Ahead(K, key, i)) = n - 1
<1> DEFINE R == {q \in K \X K : Sooner(key, q[1], q[2])}
<1>1. \A i, j \in K : <<i, j>> \in R <=> Sooner(key, i, j) OBVIOUS
<1> HIDE DEF R
<1>2. /\ \A i \in K : <<i, i>> \notin R
      /\ \A i, j, k \in K : <<i, j>> \in R /\ <<j, k>> \in R => <<i, k>> \in R
      /\ \A i, j \in K : i # j => <<i, j>> \in R \/ <<j, i>> \in R
  BY <1>1 DEF Sooner
<1>3. \A i \in K : Preceding(K, R, i) = Ahead(K, key, i) BY <1>1 DEF Preceding, Ahead
<1>4. \A n \in 1..Cardinality(K) : \E i \in K : Cardinality(Preceding(K, R, i)) = n - 1
  BY <1>2, Ranks
<1>5. QED BY <1>3, <1>4

\* Whatever is sent, what is kept of it has names, no two the same, and is at most the limit.
LEMMA SanitizedIsWellFormed ==
    ASSUME NEW inputs, IsList(inputs), \A i \in DOMAIN inputs : inputs[i].order \in Int
    PROVE  WellFormed(SanitizeInputs(inputs))
<1> DEFINE K == FirstPresets(inputs)
           order == [i \in K |-> OrderInput(inputs, i)]
           size == Cardinality(K)
           Place(i) == Cardinality({j \in K : order[j] < order[i] \/ (order[j] = order[i] /\ j < i)}) + 1
           Preset(i) == [name |-> PresetName(inputs[i]), view |-> inputs[i].view]
           chosen == [n \in 1..size |-> CHOOSE i \in K : Place(i) = n]
           items == SanitizeInputs(inputs)
<1>1. /\ K \in SUBSET Int /\ IsFiniteSet(K) /\ size \in Nat /\ size <= MaxPresets BY KeptAreFew
<1>2. K \in SUBSET Distinct(inputs) BY DEF FirstPresets
<1>3. \A i \in K : order[i] \in Int
  <2> TAKE i \in K
  <2>1. i \in DOMAIN inputs /\ Position(inputs, i) \in Int
    <3>1. i \in Distinct(inputs) BY <1>2
    <3>2. Position(inputs, i) \in Int BY <3>1, PositionsDiffer
    <3>3. i \in DOMAIN inputs BY <3>1 DEF Distinct
    <3>4. QED BY <3>2, <3>3
  <2>2. OrderInput(inputs, i) \in Int BY <2>1 DEF OrderInput
  <2>3. QED BY <2>2
<1>4. \A i : Place(i) = Cardinality(Ahead(K, order, i)) + 1 BY DEF Ahead, Sooner
<1>5. items = [n \in 1..size |-> items[n]] /\ \A n \in 1..size : items[n] = Preset(chosen[n])
  <2>1. items = [n \in 1..size |-> Preset(CHOOSE i \in K : Place(i) = n)] BY Zenon DEF SanitizeInputs
  <2> HIDE DEF items, Preset, K, Place, size
  <2>2. \A n \in 1..size : chosen[n] = CHOOSE i \in K : Place(i) = n OBVIOUS
  <2> HIDE DEF chosen
  <2>3. DOMAIN items = 1..size /\ \A n \in 1..size : items[n] = Preset(CHOOSE i \in K : Place(i) = n)
    BY <2>1, Zenon
  <2>4. \A n \in 1..size : items[n] = Preset(chosen[n]) BY <2>2, <2>3, Zenon
  <2>5. items = [n \in 1..size |-> items[n]] BY <2>1, <2>3
  <2>6. QED BY <2>4, <2>5
<1> HIDE DEF order, items
<1>6. \A n \in 1..size : \E i \in K : Cardinality(Ahead(K, order, i)) = n - 1
  BY <1>1, <1>3, SomePlaceForAll
<1> HIDE DEF Place, size, K
<1>7. \A n \in 1..size : \E i \in K : Place(i) = n
  <2> TAKE n \in 1..size
  <2>1. PICK i \in K : Cardinality(Ahead(K, order, i)) = n - 1 BY <1>6
  <2>2. Place(i) = n
    <3>1. n \in Int BY <1>1
    <3>2. Place(i) = (n - 1) + 1 BY <1>4, <2>1
    <3>3. QED BY <3>1, <3>2
  <2>3. QED BY <2>2
<1>8. \A n \in 1..size : chosen[n] \in K /\ Place(chosen[n]) = n
  <2> TAKE n \in 1..size
  <2>1. \E i \in K : Place(i) = n BY <1>7
  <2>2. chosen[n] = CHOOSE i \in K : Place(i) = n OBVIOUS
  <2>3. QED BY <2>1, <2>2
<1> HIDE DEF chosen
<1>9. items = [n \in 1..size |-> items[n]] BY <1>5
<1>10. IsList(items) /\ Len(items) = size /\ DOMAIN items = 1..size BY <1>1, <1>9, FunctionsAreLists
<1>11. \A n \in 1..size : items[n].name = PresetName(inputs[chosen[n]]) BY <1>5
<1>12. \A i, j \in K : PresetName(inputs[i]) # <<>> /\ (i # j => PresetName(inputs[i]) # PresetName(inputs[j]))
  <2> TAKE i, j \in K
  <2>1. i \in Distinct(inputs) /\ j \in Distinct(inputs) /\ i \in Int /\ j \in Int BY <1>1, <1>2
  <2>2. DOMAIN inputs = 1..Len(inputs) /\ Len(inputs) \in Nat BY ListLength
  <2>3. i \in 1..Len(inputs) /\ j \in 1..Len(inputs) BY <2>1, <2>2 DEF Distinct
  <2>4. i < j => PresetName(inputs[i]) # PresetName(inputs[j]) BY <2>1, <2>2, <2>3 DEF Distinct
  <2>5. j < i => PresetName(inputs[i]) # PresetName(inputs[j]) BY <2>1, <2>2, <2>3 DEF Distinct
  <2>6. PresetName(inputs[i]) # <<>> BY <2>1 DEF Distinct
  <2>7. QED BY <2>1, <2>4, <2>5, <2>6
<1>13. \A m, n \in 1..size : m # n => chosen[m] # chosen[n] BY <1>8
<1>14. \A m, n \in 1..size : items[m].name # <<>> /\ (m # n => items[m].name # items[n].name)
  BY <1>8, <1>11, <1>12, <1>13
<1>15. WellFormed(items) BY <1>1, <1>10, <1>14 DEF WellFormed
<1>16. QED BY <1>15 DEF items

LEMMA ListsAreWellFormed ==
    ASSUME NEW items \in Lists
    PROVE  WellFormed(items)
<1>1. \A l \in Sanitized : WellFormed(l)
  <2> SUFFICES ASSUME NEW inputs \in Puts PROVE WellFormed(SanitizeInputs(inputs)) BY DEF Sanitized
  <2>1. IsList(inputs) /\ \A i \in DOMAIN inputs : inputs[i].order \in Int BY ViewsAssumption
  <2>2. QED BY <2>1, SanitizedIsWellFormed
<1>2. WellFormed(<<>>)
  <2>1. IsList(<<>>) /\ Len(<<>>) = 0 /\ DOMAIN <<>> = {} BY NoViews DEF IsViews
  <2>2. QED BY <2>1, PresetAssumption DEF WellFormed
<1>3. ASSUME NEW l, IsList(l) PROVE WellFormed(Reread(l))
  <2> DEFINE inputs == [n \in DOMAIN l |-> [name |-> l[n].name, view |-> l[n].view, order |-> n]]
  <2>1. DOMAIN l = 1..Len(l) /\ Len(l) \in Nat BY <1>3, ListLength
  <2>2. inputs = [n \in 1..Len(l) |-> inputs[n]] BY <2>1
  <2>3. \A n \in DOMAIN inputs : inputs[n].order \in Int BY <2>1
  <2>4. IsList(inputs) BY <2>1, <2>2, FunctionsAreLists
  <2>5. Reread(l) = SanitizeInputs(inputs) BY DEF Reread
  <2> HIDE DEF inputs
  <2>6. QED BY <2>3, <2>4, <2>5, SanitizedIsWellFormed
<1>4. \A l \in DOMAIN RereadOf : WellFormed(RereadOf[l])
  <2> SUFFICES ASSUME NEW l \in Sanitized \cup {text.items : text \in OldSnapshots}
               PROVE  WellFormed(Reread(l))
    BY DEF RereadOf
  <2>1. IsList(l) BY <1>1, ViewsAssumption DEF WellFormed
  <2>2. QED BY <1>3, <2>1
<1>5. QED BY <1>1, <1>2, <1>4 DEF Lists

LEMMA AnswersStayWellFormed == AnswersAreWellFormed
<1> SUFFICES ASSUME NEW c \in Answered PROVE WellFormed(reply[c].items)
  BY DEF AnswersAreWellFormed, WellFormed
<1>1. reply[c].items \in Lists BY DEF Answered, Snapshots
<1>2. QED BY <1>1, ListsAreWellFormed
----------------------------------------------------------------------------
(* What is asked before a merge *)

LEMMA PushedNames ==
    ASSUME NEW l, IsViews(l)
    PROVE  /\ IsViews(P!PushAll(<<>>, l)) /\ OncePerName(P!PushAll(<<>>, l))
           /\ P!Names(P!PushAll(<<>>, l)) = P!Names(l)
<1>1. IsViews(<<>>) /\ OncePerName(<<>>) /\ P!Names(<<>>) = {} BY NoViews
<1>2. /\ IsViews(P!PushAll(<<>>, l)) /\ OncePerName(P!PushAll(<<>>, l))
      /\ P!Names(P!PushAll(<<>>, l)) = P!Names(<<>>) \cup P!Names(l)
  BY <1>1, PushAllOnce
<1>3. P!Names(<<>>) \cup P!Names(l) = P!Names(l) BY <1>1
<1>4. QED BY <1>2, <1>3

\* What a merge for the incoming views accounts for.
LEMMA MergedNames ==
    ASSUME NEW existing, IsViews(existing), NEW incoming, IsViews(incoming)
    PROVE  P!Names(P!Merged(existing, incoming, "incoming")) = P!Names(existing) \cup P!Names(incoming)
<1>1. /\ IsViews(P!PushAll(<<>>, incoming)) /\ OncePerName(P!PushAll(<<>>, incoming))
      /\ P!Names(P!PushAll(<<>>, incoming)) = P!Names(incoming)
  BY PushedNames
<1>2. P!Names(P!PushAll(P!PushAll(<<>>, incoming), existing)) = P!Names(incoming) \cup P!Names(existing)
  BY <1>1, PushAllOnce
<1>3. P!Merged(existing, incoming, "incoming") = P!PushAll(P!PushAll(<<>>, incoming), existing)
  BY DEF P!Merged
<1>4. QED BY <1>2, <1>3

\* Every name is merged or dropped.
LEMMA MergeCounts ==
    ASSUME Limited, NEW existing, IsViews(existing), NEW incoming, IsViews(incoming)
    PROVE  Len(P!Merge(existing, incoming, "incoming")) + P!DroppedCount(existing, incoming, "incoming")
               = Cardinality(P!Names(existing) \cup P!Names(incoming))
<1> DEFINE m == P!Merged(existing, incoming, "incoming")
<1>1. IsViews(m) /\ OncePerName(m) BY MergedOnce
<1>2. P!Names(m) = P!Names(existing) \cup P!Names(incoming) BY MergedNames
<1>3. /\ P!Merge(existing, incoming, "incoming") = P!NormalizeOrders(P!Cut(m))
      /\ P!DroppedCount(existing, incoming, "incoming") = IF Len(m) > MaxViews THEN Len(m) - MaxViews ELSE 0
  BY DEF P!Merge, P!DroppedCount
<1> HIDE DEF m
<1>4. IsShort(P!Cut(m)) /\ Len(P!Cut(m)) = IF Len(m) < MaxViews THEN Len(m) ELSE MaxViews
  BY <1>1, CutIsShort DEF Limited
<1>5. Len(P!NormalizeOrders(P!Cut(m))) = Len(P!Cut(m)) BY <1>4, NormalizeKeepsNames DEF IsShort, IsUpTo
<1>6. Len(m) \in Nat /\ MaxViews \in Nat /\ Cardinality(P!Names(m)) = Len(m)
  BY <1>1, ListLength, NamesAreCounted DEF IsViews, Limited
<1>7. QED BY <1>2, <1>3, <1>4, <1>5, <1>6

\* Every view that comes in is new, in conflict or there already.
LEMMA IncomingIsCounted ==
    ASSUME NEW existing, NEW incoming, IsViews(incoming)
    PROVE  Len(P!News(existing, incoming)) + Len(P!Conflicts(existing, incoming))
               + Len(P!Duplicates(existing, incoming)) = Len(incoming)
<1> DEFINE D == DOMAIN incoming
           A == {i \in D : incoming[i].name \notin P!Names(existing)}
           B == {i \in D : P!Conflicting(existing, incoming[i])}
           C == {i \in D : incoming[i].name \in P!Names(existing) /\ ~P!Conflicting(existing, incoming[i])}
<1>1. D = 1..Len(incoming) /\ Len(incoming) \in Nat BY ListLength DEF IsViews
<1>2. IsFiniteSet(D) /\ Cardinality(D) = Len(incoming) BY <1>1, UpTo
<1>3. /\ P!News(existing, incoming) = P!At(incoming, A)
      /\ P!Conflicts(existing, incoming) = P!At(incoming, B)
      /\ P!Duplicates(existing, incoming) = P!At(incoming, C)
  BY DEF P!News, P!Without, P!Conflicts, P!Duplicates
<1>4. A \in SUBSET D /\ B \in SUBSET D /\ C \in SUBSET D OBVIOUS
<1>5. /\ Len(P!At(incoming, A)) = Cardinality(A) /\ Len(P!At(incoming, B)) = Cardinality(B)
      /\ Len(P!At(incoming, C)) = Cardinality(C)
  BY <1>4, SomeOf
<1>6. A \cap B = {} /\ (A \cup B) \cap C = {} /\ (A \cup B) \cup C = D
  BY DEF P!Conflicting
<1> HIDE DEF A, B, C, D
<1>7. IsFiniteSet(A) /\ IsFiniteSet(B) /\ IsFiniteSet(C) BY <1>2, <1>4, FS_Subset
<1>8. IsFiniteSet(A \cup B) /\ Cardinality(A \cup B) = Cardinality(A) + Cardinality(B)
  <2>1. /\ IsFiniteSet(A \cup B)
        /\ Cardinality(A \cup B) = Cardinality(A) + Cardinality(B) - Cardinality(A \cap B)
    BY <1>7, FS_Union
  <2>2. Cardinality(A \cap B) = 0 BY <1>6, FS_EmptySet
  <2>3. QED BY <1>7, <2>1, <2>2, FS_CardinalityType
<1>9. Cardinality((A \cup B) \cup C) = Cardinality(A \cup B) + Cardinality(C)
  <2>1. Cardinality((A \cup B) \cup C) = Cardinality(A \cup B) + Cardinality(C) - Cardinality((A \cup B) \cap C)
    BY <1>7, <1>8, FS_Union
  <2>2. Cardinality((A \cup B) \cap C) = 0 BY <1>6, FS_EmptySet
  <2>3. Cardinality(A \cup B) \in Nat /\ Cardinality(C) \in Nat BY <1>7, <1>8, FS_CardinalityType
  <2>4. QED BY <2>1, <2>2, <2>3
<1>10. QED BY <1>2, <1>3, <1>5, <1>6, <1>8, <1>9

\* A sorted list has every view, with another order.
SameButOrder(a, b) == a.name = b.name /\ a.group = b.group /\ a.filters = b.filters

LEMMA SortedHasAll ==
    ASSUME NEW l, IsViews(l), NEW i \in DOMAIN l
    PROVE  \E n \in DOMAIN P!NormalizeOrders(l) : SameButOrder(l[i], P!NormalizeOrders(l)[n])
<1> DEFINE t == P!NormalizeOrders(l)
<1>1. DOMAIN l = 1..Len(l) /\ Len(l) \in Nat BY ListLength DEF IsViews
<1>2. PICK p : IsOrder(p, DOMAIN l, [j \in DOMAIN l |-> P!OrderOf(l, j)]) /\ Renumbered(t, l, p)
  BY NormalizedViews
<1>3. Cardinality(DOMAIN l) = Len(l) BY <1>1, UpTo
<1>4. PICK n \in 1..Len(l) : p[n] = i BY <1>2, <1>3 DEF IsOrder
<1>5. n \in DOMAIN t BY <1>1, <1>4, NormalizedViews
<1> HIDE DEF t
<1>6. SameButOrder(l[i], t[n]) BY <1>1, <1>2, <1>4 DEF Renumbered, SameButOrder
<1>7. QED BY <1>5, <1>6 DEF t

\* The beginning of a list of views is kept by a merge.
LEMMA BeginningIsKept ==
    ASSUME Limited, NEW s, IsViews(s), NEW t, IsViews(t), OncePerName(s \o t), NEW i \in DOMAIN s, i <= MaxViews
    PROVE  \E n \in DOMAIN P!NormalizeOrders(P!Cut(s \o t)) :
               SameButOrder(s[i], P!NormalizeOrders(P!Cut(s \o t))[n])
<1>1. DOMAIN s = 1..Len(s) /\ Len(s) \in Nat /\ Len(t) \in Nat BY ListLength DEF IsViews
<1>2. /\ IsViews(s \o t) /\ Len(s \o t) = Len(s) + Len(t) /\ (s \o t)[i] = s[i]
  BY <1>1, JoinedViews, JoinedLists DEF IsViews
<1> DEFINE l == P!Cut(s \o t)
<1>3. /\ IsShort(l) /\ Len(l) = IF Len(s \o t) < MaxViews THEN Len(s \o t) ELSE MaxViews
      /\ \A k \in DOMAIN l : l[k] = (s \o t)[k]
  BY <1>2, CutIsShort DEF Limited
<1> HIDE DEF l
<1>4. IsViews(l) /\ DOMAIN l = 1..Len(l) BY <1>3, ListLength DEF IsShort, IsUpTo, IsViews
<1>5. i \in 1..Len(s) /\ MaxViews \in Nat BY <1>1 DEF Limited
<1>6. i \in DOMAIN l BY <1>1, <1>2, <1>3, <1>4, <1>5
<1>7. l[i] = s[i] BY <1>2, <1>3, <1>6
<1>8. \E n \in DOMAIN P!NormalizeOrders(l) : SameButOrder(l[i], P!NormalizeOrders(l)[n])
  BY <1>4, <1>6, SortedHasAll
<1>9. QED BY <1>7, <1>8 DEF l

\* What is pushed onto nothing is a list of its own.
LEMMA PushedOnNothing ==
    ASSUME NEW l, IsViews(l)
    PROVE  /\ IsViews(P!PushAll(<<>>, l)) /\ OncePerName(P!PushAll(<<>>, l))
           /\ P!Names(P!PushAll(<<>>, l)) = P!Names(l)
           /\ OncePerName(l) => /\ Len(P!PushAll(<<>>, l)) = Len(l)
                                /\ \A i \in DOMAIN l : \E j \in DOMAIN P!PushAll(<<>>, l) : P!PushAll(<<>>, l)[j] = l[i]
<1> DEFINE s == P!PushAll(<<>>, l)
<1>1. IsViews(s) /\ OncePerName(s) /\ P!Names(s) = P!Names(l) BY PushedNames
<1>2. ASSUME OncePerName(l)
      PROVE  Len(s) = Len(l) /\ \A i \in DOMAIN l : \E j \in DOMAIN s : s[j] = l[i]
  <2>1. DOMAIN l = 1..Len(l) /\ Len(l) \in Nat BY ListLength DEF IsViews
  <2> DEFINE K == {i \in DOMAIN l : /\ l[i].name \notin P!Names(<<>>)
                                    /\ \A j \in 1..(i - 1) : l[j].name # l[i].name}
             t == P!At(l, K)
  <2>2. K = DOMAIN l
    <3> SUFFICES ASSUME NEW i \in DOMAIN l
                 PROVE  l[i].name \notin P!Names(<<>>) /\ \A j \in 1..(i - 1) : l[j].name # l[i].name
      OBVIOUS
    <3>1. l[i].name \notin P!Names(<<>>) BY NoViews
    <3>2. ASSUME NEW j \in 1..(i - 1) PROVE l[j].name # l[i].name
      <4>1. j \in DOMAIN l /\ j # i BY <2>1
      <4>2. QED BY <1>2, <4>1 DEF OncePerName
    <3>3. QED BY <3>1, <3>2
  <2>3. s = <<>> \o t BY DEF P!PushAll
  <2> HIDE DEF K, s
  <2>4. IsList(l) /\ K \in SUBSET DOMAIN l BY <2>2 DEF IsViews
  <2>5. /\ IsList(t) /\ Len(t) = Cardinality(K) /\ DOMAIN t = 1..Cardinality(K)
        /\ \E p : IsOrder(p, K, [i \in K |-> i]) /\ \A n \in 1..Cardinality(K) : t[n] = l[p[n]]
    BY <2>4, KeptPlaces
  <2>6. Cardinality(K) = Len(l) BY <2>1, <2>2, UpTo
  <2> HIDE DEF t
  <2>7. /\ Len(s) = Len(t) /\ DOMAIN s = DOMAIN t /\ \A n \in DOMAIN t : s[n] = t[n]
    <3>1. IsList(<<>>) /\ Len(<<>>) = 0 BY NoViews DEF IsViews
    <3>2. DOMAIN t = 1..Len(t) /\ Len(t) \in Nat BY <2>5, ListLength
    <3>3. /\ Len(s) = 0 + Len(t) /\ DOMAIN s = 1..(0 + Len(t))
          /\ \A k \in 1..Len(t) : s[0 + k] = t[k]
      BY <2>3, <2>5, <3>1, JoinedLists
    <3>4. \A k \in 1..Len(t) : 0 + k = k BY <3>2
    <3>5. QED BY <3>2, <3>3, <3>4
  <2>8. ASSUME NEW i \in DOMAIN l PROVE \E j \in DOMAIN s : s[j] = l[i]
    <3>1. PICK p : IsOrder(p, K, [k \in K |-> k]) /\ \A n \in 1..Cardinality(K) : t[n] = l[p[n]] BY <2>5
    <3>2. PICK n \in 1..Cardinality(K) : p[n] = i BY <2>2, <3>1 DEF IsOrder
    <3>3. QED BY <2>5, <2>7, <3>1, <3>2
  <2>9. QED BY <2>5, <2>6, <2>7, <2>8
<1>3. QED BY <1>1, <1>2

LEMMA PushAllIsLonger ==
    ASSUME NEW l, NEW more, IsViews(more)
    PROVE  \E t : IsViews(t) /\ P!PushAll(l, more) = l \o t
<1> DEFINE K == {i \in DOMAIN more : /\ more[i].name \notin P!Names(l)
                                     /\ \A j \in 1..(i - 1) : more[j].name # more[i].name}
<1>1. IsViews(P!At(more, K)) BY SomeOf
<1>2. P!PushAll(l, more) = l \o P!At(more, K) BY DEF P!PushAll
<1>3. QED BY <1>1, <1>2

\* Views that come in together keep the beginning of the list that is pushed first.
LEMMA PushedFirstIsKept ==
    ASSUME Limited, NEW s, IsViews(s), OncePerName(s), NEW more, IsViews(more), NEW i \in DOMAIN s, i <= MaxViews
    PROVE  \E n \in DOMAIN P!NormalizeOrders(P!Cut(P!PushAll(s, more))) :
               SameButOrder(s[i], P!NormalizeOrders(P!Cut(P!PushAll(s, more)))[n])
<1>1. PICK t : IsViews(t) /\ P!PushAll(s, more) = s \o t BY PushAllIsLonger
<1>2. OncePerName(s \o t) BY <1>1, PushAllOnce
<1>3. \E n \in DOMAIN P!NormalizeOrders(P!Cut(s \o t)) : SameButOrder(s[i], P!NormalizeOrders(P!Cut(s \o t))[n])
  BY <1>1, <1>2, BeginningIsKept
<1>4. QED BY <1>1, <1>3

LEMMA CurrentIsKept ==
    ASSUME Limited, NEW existing, IsShort(existing), NEW incoming, IsViews(incoming), NEW i \in DOMAIN existing
    PROVE  \E n \in DOMAIN P!Merge(existing, incoming, "current") :
               SameButOrder(existing[i], P!Merge(existing, incoming, "current")[n])
<1> DEFINE s == P!PushAll(<<>>, existing)
           more == P!News(existing, incoming)
<1>1. /\ IsViews(s) /\ OncePerName(s) /\ Len(s) = Len(existing)
      /\ \E j \in DOMAIN s : s[j] = existing[i]
  BY PushedOnNothing DEF IsShort, IsUpTo
<1>2. IsViews(more)
  <2>1. {k \in DOMAIN incoming : incoming[k].name \notin P!Names(existing)} \in SUBSET DOMAIN incoming OBVIOUS
  <2>2. QED BY <2>1, SomeOf DEF P!News, P!Without
<1>3. P!Merge(existing, incoming, "current") = P!NormalizeOrders(P!Cut(P!PushAll(s, more)))
  BY DEF P!Merge, P!Merged
<1> HIDE DEF s, more
<1>4. PICK j \in DOMAIN s : s[j] = existing[i] BY <1>1
<1>5. j <= MaxViews
  <2>1. DOMAIN s = 1..Len(s) /\ Len(s) \in Nat BY <1>1, ListLength DEF IsViews
  <2>2. Len(s) <= MaxViews BY <1>1 DEF IsShort, IsUpTo
  <2>3. QED BY <1>4, <2>1, <2>2 DEF Limited
<1>6. \E n \in DOMAIN P!NormalizeOrders(P!Cut(P!PushAll(s, more))) :
          SameButOrder(s[j], P!NormalizeOrders(P!Cut(P!PushAll(s, more)))[n])
  BY <1>1, <1>2, <1>4, <1>5, PushedFirstIsKept
<1>7. QED BY <1>3, <1>4, <1>6

LEMMA IncomingIsKept ==
    ASSUME Limited, NEW existing, IsViews(existing), NEW incoming, IsViews(incoming),
           NEW i \in DOMAIN P!Cut(P!PushAll(<<>>, incoming))
    PROVE  \E n \in DOMAIN P!Merge(existing, incoming, "incoming") :
               SameButOrder(P!Cut(P!PushAll(<<>>, incoming))[i], P!Merge(existing, incoming, "incoming")[n])
<1> DEFINE s == P!PushAll(<<>>, incoming)
<1>1. IsViews(s) /\ OncePerName(s) BY PushedOnNothing
<1>2. P!Merge(existing, incoming, "incoming") = P!NormalizeOrders(P!Cut(P!PushAll(s, existing)))
  BY DEF P!Merge, P!Merged
<1> HIDE DEF s
<1>3. i \in DOMAIN P!Cut(s) BY DEF s
<1>4. /\ i \in DOMAIN s /\ P!Cut(s)[i] = s[i] /\ IsShort(P!Cut(s))
  BY <1>1, <1>3, CutIsShort DEF Limited
<1>5. i <= MaxViews
  <2>1. DOMAIN P!Cut(s) = 1..Len(P!Cut(s)) /\ Len(P!Cut(s)) \in Nat BY <1>4, ListLength DEF IsShort, IsUpTo, IsViews
  <2>2. Len(P!Cut(s)) <= MaxViews BY <1>4 DEF IsShort, IsUpTo
  <2>3. QED BY <1>3, <2>1, <2>2 DEF Limited
<1>6. \E n \in DOMAIN P!NormalizeOrders(P!Cut(P!PushAll(s, existing))) :
          SameButOrder(s[i], P!NormalizeOrders(P!Cut(P!PushAll(s, existing)))[n])
  BY <1>1, <1>4, <1>5, PushedFirstIsKept
<1>7. QED BY <1>2, <1>4, <1>6 DEF s

\* The comparison accounts for every view; the conflict keeps the views it says it keeps.
LEMMA PromiseIsKept == Limited /\ ListsOK => P!MergesKeepTheirPromise
<1> SUFFICES ASSUME Limited, ListsOK PROVE P!MergesKeepTheirPromise
  OBVIOUS
<1>1. ASSUME compare # P!None
      PROVE  /\ Len(compare.result) + compare.dropped
                    = P!Cardinality(P!Names(compare.incoming) \cup compare.localOnly \cup compare.teamOnly)
             /\ compare.news + compare.conflicts + compare.duplicates = Len(compare.incoming)
  <2>0. PICK action \in {"load", "save"} : \E local, other :
           IsShort(local) /\ IsShort(other) /\ compare = P!ComparePreview(action, local, other)
    BY <1>1 DEF ListsOK, ComparisonOK
  <2>1. PICK local, other :
           IsShort(local) /\ IsShort(other) /\ compare = P!ComparePreview(action, local, other)
    BY <2>0
  <2> DEFINE existing == IF action = "load" THEN local ELSE other
             incoming == IF action = "load" THEN other ELSE local
  <2>2. /\ compare.result = P!Merge(existing, incoming, "incoming")
        /\ compare.dropped = P!DroppedCount(existing, incoming, "incoming")
        /\ compare.incoming = incoming
        /\ compare.localOnly = P!Names(local) \ P!Names(other)
        /\ compare.teamOnly = P!Names(other) \ P!Names(local)
        /\ compare.news = Len(P!News(existing, incoming))
        /\ compare.conflicts = Len(P!Conflicts(existing, incoming))
        /\ compare.duplicates = Len(P!Duplicates(existing, incoming))
    BY <2>1 DEF P!ComparePreview
  <2>3. IsViews(existing) /\ IsViews(incoming) BY <2>1 DEF IsShort, IsUpTo
  <2>4. P!Names(existing) \cup P!Names(incoming) = P!Names(local) \cup P!Names(other) BY <2>1
  <2>5. P!Names(incoming) \in {P!Names(local), P!Names(other)} BY <2>1
  <2> HIDE DEF existing, incoming
  <2>6. P!Names(compare.incoming) \cup compare.localOnly \cup compare.teamOnly
            = P!Names(existing) \cup P!Names(incoming)
    BY <2>2, <2>4, <2>5
  <2>7. Len(compare.result) + compare.dropped = Cardinality(P!Names(existing) \cup P!Names(incoming))
    BY <2>2, <2>3, MergeCounts
  <2>8. Len(compare.result) + compare.dropped
            = P!Cardinality(P!Names(compare.incoming) \cup compare.localOnly \cup compare.teamOnly)
    BY <2>6, <2>7, PanelCardinality
  <2>9. compare.news + compare.conflicts + compare.duplicates = Len(compare.incoming)
    BY <2>2, <2>3, IncomingIsCounted
  <2>10. QED BY <2>8, <2>9
<1>2. ASSUME conflict # P!None
      PROVE  /\ \A i \in DOMAIN conflict.base :
                    \E n \in DOMAIN P!Merge(conflict.base, conflict.incoming, "current") :
                        SameButOrder(conflict.base[i], P!Merge(conflict.base, conflict.incoming, "current")[n])
             /\ \A i \in DOMAIN P!Cut(P!PushAll(<<>>, conflict.incoming)) :
                    \E n \in DOMAIN P!Merge(conflict.base, conflict.incoming, "incoming") :
                        SameButOrder(P!Cut(P!PushAll(<<>>, conflict.incoming))[i],
                                     P!Merge(conflict.base, conflict.incoming, "incoming")[n])
  <2>1. IsShort(conflict.base) /\ IsViews(conflict.base) /\ IsViews(conflict.incoming)
    BY <1>2 DEF ListsOK, ConflictOK, IsShort, IsUpTo
  <2>2. QED BY <2>1, CurrentIsKept, IncomingIsKept
<1>3. QED BY <1>1, <1>2 DEF P!MergesKeepTheirPromise, SameButOrder
----------------------------------------------------------------------------
(* The collection; its lists are made as those of the panel are, but for the limit *)

LEMMA CollectionCardinality == ASSUME NEW S PROVE F!Cardinality(S) = Cardinality(S)
  BY Zenon DEF F!Cardinality, Cardinality

LEMMA SameInOrder == ASSUME NEW K, NEW key PROVE F!InOrder(K, key) = P!InOrder(K, key)
<1> DEFINE f == F!InOrder(K, key)
           p == P!InOrder(K, key)
           q == [n \in 1..Cardinality(K) |-> CHOOSE i \in K : Cardinality(Ahead(K, key, i)) = n - 1]
<1>1. \A n, i : P!Cardinality({j \in K : Sooner(key, j, i)}) = n - 1
                  <=> Cardinality(Ahead(K, key, i)) = n - 1
  BY PanelCardinality, Zenon DEF Ahead
<1>2. p = [n \in 1..Cardinality(K) |->
             CHOOSE i \in K : P!Cardinality({j \in K : Sooner(key, j, i)}) = n - 1]
  BY PanelCardinality, Zenon DEF P!InOrder, Sooner
<1>3. p = q BY <1>1, <1>2, Zenon
<1>4. \A n, i : F!Cardinality({j \in K : Sooner(key, j, i)}) = n - 1
                  <=> Cardinality(Ahead(K, key, i)) = n - 1
  BY CollectionCardinality, Zenon DEF Ahead
<1>5. f = [n \in 1..Cardinality(K) |->
             CHOOSE i \in K : F!Cardinality({j \in K : Sooner(key, j, i)}) = n - 1]
  BY CollectionCardinality, Zenon DEF F!InOrder, Sooner
<1>6. f = q BY <1>4, <1>5, Zenon
<1>7. QED BY <1>3, <1>6

LEMMA SameAt == ASSUME NEW l, NEW K PROVE F!At(l, K) = P!At(l, K)
  BY SameInOrder, CollectionCardinality, PanelCardinality, Zenon DEF F!At, P!At

LEMMA SameNames == ASSUME NEW l PROVE F!Names(l) = P!Names(l) BY DEF F!Names, P!Names
LEMMA SameNamed == ASSUME NEW l, NEW name PROVE F!Named(l, name) = P!Named(l, name)
  BY Zenon DEF F!Named, P!Named

LEMMA SameParts ==
    ASSUME NEW l, NEW x
    PROVE  /\ F!Without(l, x) = P!Without(l, x) /\ F!Only(l, x) = P!Only(l, x)
           /\ F!OfGroup(l, x) = P!OfGroup(l, x)
BY SameAt, Zenon DEF F!Without, P!Without, F!Only, P!Only, F!OfGroup, P!OfGroup

LEMMA SameOrderViews == ASSUME NEW l PROVE F!OrderViews(l) = P!OrderViews(l)
  BY SameInOrder, Zenon DEF F!OrderViews, P!OrderViews, F!OrderOf, P!OrderOf

LEMMA SameNormalize == ASSUME NEW l PROVE F!NormalizeOrders(l) = P!NormalizeOrders(l)
  BY SameOrderViews, Zenon DEF F!NormalizeOrders, P!NormalizeOrders

LEMMA SamePushAll == ASSUME NEW l, NEW more PROVE F!PushAll(l, more) = P!PushAll(l, more)
  BY SameAt, SameNames, Zenon DEF F!PushAll, P!PushAll
----------------------------------------------------------------------------
(* Places that follow each other *)

\* There is one order of some places.
LEMMA OrderIsUnique ==
    ASSUME NEW K \in SUBSET Int, Cardinality(K) \in Nat, NEW key, \A i \in K : key[i] \in Int,
           NEW p, IsOrder(p, K, key), NEW q, IsOrder(q, K, key)
    PROVE  \A n \in 1..Cardinality(K) : p[n] = q[n]
<1> DEFINE T == {n \in 1..Cardinality(K) : p[n] # q[n]}
<1> SUFFICES ASSUME T # {} PROVE FALSE
  OBVIOUS
<1>1. T \in SUBSET Nat OBVIOUS
<1> HIDE DEF T
<1>2. PICK n \in T : \A m \in T : n <= m BY <1>1, LeastNumber
<1>3. n \in 1..Cardinality(K) /\ n \in Int /\ p[n] # q[n] BY <1>2 DEF T
<1>4. \A m \in 1..Cardinality(K) : m < n => p[m] = q[m] BY <1>2, <1>3 DEF T
<1>5. p[n] \in K /\ q[n] \in K BY <1>3 DEF IsOrder
<1>6. PICK k \in 1..Cardinality(K) : q[k] = p[n] BY <1>5 DEF IsOrder
<1>7. PICK m \in 1..Cardinality(K) : p[m] = q[n] BY <1>5 DEF IsOrder
<1>8. k \in Int /\ m \in Int OBVIOUS
<1>9. ~(k < n)
  <2>1. k < n => p[k] = p[n] BY <1>4, <1>6
  <2>2. k < n => k = n BY <1>3, <2>1, OnceInOrder
  <2>3. QED BY <1>3, <1>8, <2>2
<1>10. ~(m < n)
  <2>1. m < n => q[m] = q[n] BY <1>4, <1>7
  <2>2. m < n => m = n BY <1>3, <2>1, OnceInOrder
  <2>3. QED BY <1>3, <1>8, <2>2
<1>11. k # n /\ m # n BY <1>3, <1>6, <1>7
<1>12. n < k /\ n < m BY <1>3, <1>8, <1>9, <1>10, <1>11
<1>13. Sooner(key, q[n], q[k]) BY <1>3, <1>12 DEF IsOrder
<1>14. Sooner(key, p[n], p[m]) BY <1>3, <1>12 DEF IsOrder
<1>15. Sooner(key, q[n], p[n]) /\ Sooner(key, p[n], q[n]) BY <1>6, <1>7, <1>13, <1>14
<1>16. key[p[n]] \in Int /\ key[q[n]] \in Int /\ p[n] \in Int /\ q[n] \in Int BY <1>5
<1>17. QED BY <1>15, <1>16 DEF Sooner

\* Places one after the other, as they are in the list.
Rising(p, K) ==
    /\ \A n \in 1..Cardinality(K) : p[n] \in K
    /\ \A m, n \in 1..Cardinality(K) : m < n => p[m] < p[n]
    /\ \A i \in K : \E n \in 1..Cardinality(K) : p[n] = i

LEMMA RisingIsOrder ==
    ASSUME NEW K \in SUBSET Int, Cardinality(K) \in Nat, NEW p
    PROVE  Rising(p, K) <=> IsOrder(p, K, [i \in K |-> i])
<1> DEFINE key == [i \in K |-> i]
<1>1. \A i, j \in K : Sooner(key, i, j) <=> i < j BY DEF Sooner
<1> HIDE DEF key
<1>2. Rising(p, K) => IsOrder(p, K, key) BY <1>1 DEF Rising, IsOrder
<1>3. IsOrder(p, K, key) => Rising(p, K) BY <1>1 DEF Rising, IsOrder
<1>4. QED BY <1>2, <1>3 DEF key

LEMMA RisingIsUnique ==
    ASSUME NEW K \in SUBSET Int, Cardinality(K) \in Nat, NEW p, Rising(p, K), NEW q, Rising(q, K)
    PROVE  \A n \in 1..Cardinality(K) : p[n] = q[n]
<1> DEFINE key == [i \in K |-> i]
<1>1. \A i \in K : key[i] \in Int OBVIOUS
<1>2. IsOrder(p, K, key) /\ IsOrder(q, K, key) BY RisingIsOrder
<1> HIDE DEF key
<1>3. QED BY <1>1, <1>2, OrderIsUnique

\* The places of a list from which some are kept.
Kept(K) == P!InOrder(K, [i \in K |-> i])

LEMMA KeptAreRising ==
    ASSUME NEW s, IsList(s), NEW K \in SUBSET DOMAIN s
    PROVE  /\ K \in SUBSET Int /\ IsFiniteSet(K) /\ Cardinality(K) \in Nat
           /\ Rising(Kept(K), K)
           /\ IsList(P!At(s, K)) /\ Len(P!At(s, K)) = Cardinality(K)
           /\ DOMAIN P!At(s, K) = 1..Cardinality(K)
           /\ \A n \in 1..Cardinality(K) : P!At(s, K)[n] = s[Kept(K)[n]]
<1> DEFINE key == [i \in K |-> i]
           t == P!At(s, K)
<1>1. K \in SUBSET Int /\ IsFiniteSet(K) /\ Cardinality(K) \in Nat BY Places
<1>2. \A i \in K : key[i] \in Int BY <1>1
<1>3. t = [n \in 1..Cardinality(K) |-> s[Kept(K)[n]]] BY PanelCardinality, Zenon DEF P!At, Kept
<1> HIDE DEF key, t
<1>4. IsOrder(P!InOrder(K, key), K, key) BY <1>1, <1>2, PanelOrder
<1>5. IsOrder(Kept(K), K, [i \in K |-> i]) BY <1>4, Zenon DEF Kept, key
<1>6. Rising(Kept(K), K) BY <1>1, <1>5, RisingIsOrder
<1>7. \A n \in 1..Cardinality(K) : t[n] = s[Kept(K)[n]] BY <1>3
<1>8. t = [n \in 1..Cardinality(K) |-> t[n]] BY <1>3
<1>9. IsList(t) /\ Len(t) = Cardinality(K) /\ DOMAIN t = 1..Cardinality(K)
  BY <1>1, <1>8, FunctionsAreLists
<1>10. QED BY <1>1, <1>6, <1>7, <1>9 DEF t

\* Places that follow places of another list, one for each and in the same order.
Follows(f, K, J) ==
    /\ \A i \in K : f[i] \in J
    /\ \A i, j \in K : i < j => f[i] < f[j]
    /\ \A j \in J : \E i \in K : f[i] = j

LEMMA FollowingPlaces ==
    ASSUME NEW K \in SUBSET Int, NEW J \in SUBSET Int, IsFiniteSet(K),
           NEW f, Follows(f, K, J), NEW p, Rising(p, K)
    PROVE  /\ IsFiniteSet(J) /\ Cardinality(J) = Cardinality(K)
           /\ Rising([n \in 1..Cardinality(K) |-> f[p[n]]], J)
<1> DEFINE g == [i \in K |-> f[i]]
           q == [n \in 1..Cardinality(K) |-> f[p[n]]]
<1>1. g \in [K -> J] BY DEF Follows
<1>2. \A i \in K : g[i] = f[i] OBVIOUS
<1> HIDE DEF g
<1>3. \A i, j \in K : g[i] = g[j] => i = j
  <2> TAKE i, j \in K
  <2>1. i \in Int /\ j \in Int /\ g[i] \in Int /\ g[j] \in Int BY <1>1
  <2>2. i < j => g[i] < g[j] BY <1>2 DEF Follows
  <2>3. j < i => g[j] < g[i] BY <1>2 DEF Follows
  <2>4. QED BY <2>1, <2>2, <2>3
<1>4. g \in Injection(K, J) BY <1>1, <1>3 DEF Injection, IsInjective
<1>5. g \in Surjection(K, J) BY <1>1, <1>2 DEF Surjection, Follows
<1>6. ExistsBijection(K, J) BY <1>4, <1>5 DEF ExistsBijection, Bijection
<1>7. IsFiniteSet(J) /\ Cardinality(J) = Cardinality(K) BY <1>6, FS_Bijection
<1>8. Cardinality(K) \in Nat BY FS_CardinalityType
<1>9. \A n \in 1..Cardinality(K) : q[n] = f[p[n]] /\ p[n] \in K BY DEF Rising
<1> HIDE DEF q
<1>10. \A n \in 1..Cardinality(K) : q[n] \in J BY <1>9 DEF Follows
<1>11. \A m, n \in 1..Cardinality(K) : m < n => q[m] < q[n]
  <2> TAKE m, n \in 1..Cardinality(K)
  <2>1. m < n => p[m] < p[n] BY DEF Rising
  <2>2. p[m] < p[n] => f[p[m]] < f[p[n]] BY <1>9 DEF Follows
  <2>3. QED BY <1>9, <2>1, <2>2
<1>12. ASSUME NEW j \in J PROVE \E n \in 1..Cardinality(K) : q[n] = j
  <2>1. PICK i \in K : f[i] = j BY DEF Follows
  <2>2. PICK n \in 1..Cardinality(K) : p[n] = i BY DEF Rising
  <2>3. QED BY <1>9, <2>1, <2>2
<1>13. Rising(q, J) BY <1>7, <1>10, <1>11, <1>12 DEF Rising
<1>14. QED BY <1>7, <1>13 DEF q

\* What is kept of two lists at places that follow each other.
LEMMA FollowingParts ==
    ASSUME NEW s, IsList(s), NEW K \in SUBSET DOMAIN s, NEW t, IsList(t), NEW J \in SUBSET DOMAIN t,
           NEW f, Follows(f, K, J)
    PROVE  /\ Cardinality(J) = Cardinality(K)
           /\ \A n \in 1..Cardinality(K) : /\ Kept(K)[n] \in K /\ Kept(J)[n] = f[Kept(K)[n]]
                                            /\ P!At(s, K)[n] = s[Kept(K)[n]]
                                            /\ P!At(t, J)[n] = t[f[Kept(K)[n]]]
<1>1. /\ K \in SUBSET Int /\ IsFiniteSet(K) /\ Rising(Kept(K), K)
      /\ \A n \in 1..Cardinality(K) : P!At(s, K)[n] = s[Kept(K)[n]]
  BY KeptAreRising
<1>2. /\ J \in SUBSET Int /\ Cardinality(J) \in Nat /\ Rising(Kept(J), J)
      /\ \A n \in 1..Cardinality(J) : P!At(t, J)[n] = t[Kept(J)[n]]
  BY KeptAreRising
<1> DEFINE q == [n \in 1..Cardinality(K) |-> f[Kept(K)[n]]]
<1>3. Cardinality(J) = Cardinality(K) /\ Rising(q, J) BY <1>1, <1>2, FollowingPlaces
<1>4. \A n \in 1..Cardinality(K) : q[n] = f[Kept(K)[n]] OBVIOUS
<1> HIDE DEF q
<1>5. \A n \in 1..Cardinality(J) : Kept(J)[n] = q[n] BY <1>2, <1>3, RisingIsUnique
<1>6. \A n \in 1..Cardinality(K) : Kept(K)[n] \in K BY <1>1 DEF Rising
<1>7. QED BY <1>1, <1>2, <1>3, <1>4, <1>5, <1>6

\* Two lists of the same things.
LEMMA EqualLists ==
    ASSUME NEW s, IsList(s), NEW t, IsList(t), Len(s) = Len(t), \A n \in 1..Len(s) : s[n] = t[n]
    PROVE  s = t
BY DEF IsList

LEMMA EqualParts ==
    ASSUME NEW s, IsList(s), NEW K \in SUBSET DOMAIN s, NEW t, IsList(t), NEW J \in SUBSET DOMAIN t,
           NEW f, Follows(f, K, J), \A i \in K : s[i] = t[f[i]]
    PROVE  P!At(s, K) = P!At(t, J)
<1>1. /\ Cardinality(J) = Cardinality(K)
      /\ \A n \in 1..Cardinality(K) : /\ Kept(K)[n] \in K /\ P!At(s, K)[n] = s[Kept(K)[n]]
                                      /\ P!At(t, J)[n] = t[f[Kept(K)[n]]]
  BY FollowingParts
<1>2. IsList(P!At(s, K)) /\ Len(P!At(s, K)) = Cardinality(K) BY KeptAreRising
<1>3. IsList(P!At(t, J)) /\ Len(P!At(t, J)) = Cardinality(J) BY KeptAreRising
<1> DEFINE a == P!At(s, K)
           b == P!At(t, J)
<1>4. IsList(a) /\ IsList(b) /\ Len(a) = Len(b) /\ \A n \in 1..Len(a) : a[n] = b[n]
  BY <1>1, <1>2, <1>3
<1> HIDE DEF a, b
<1>5. a = b BY <1>4, EqualLists
<1>6. QED BY <1>5 DEF a, b

\* All of a list, and none of it.
LEMMA AllKept ==
    ASSUME NEW s, IsList(s)
    PROVE  P!At(s, DOMAIN s) = s
<1>1. DOMAIN s = 1..Len(s) /\ Len(s) \in Nat BY ListLength
<1>2. Cardinality(DOMAIN s) = Len(s) BY <1>1, UpTo
<1> DEFINE K == DOMAIN s
           q == [n \in K |-> n]
<1>3. Rising(q, K)
  <2>1. \A n \in 1..Len(s) : q[n] = n BY <1>1
  <2>2. 1..Cardinality(K) = K BY <1>1, <1>2
  <2> HIDE DEF q
  <2>3. QED BY <1>1, <2>1, <2>2 DEF Rising
<1>4. /\ K \in SUBSET Int /\ Cardinality(K) \in Nat /\ Rising(Kept(K), K)
      /\ IsList(P!At(s, K)) /\ Len(P!At(s, K)) = Cardinality(K)
      /\ \A n \in 1..Cardinality(K) : P!At(s, K)[n] = s[Kept(K)[n]]
  BY KeptAreRising
<1>5. \A n \in 1..Cardinality(K) : Kept(K)[n] = q[n] BY <1>3, <1>4, RisingIsUnique
<1>6. \A n \in 1..Len(s) : P!At(s, K)[n] = s[n] BY <1>1, <1>2, <1>4, <1>5
<1> DEFINE t == P!At(s, K)
<1>7. IsList(t) /\ Len(t) = Len(s) /\ \A n \in 1..Len(t) : t[n] = s[n] BY <1>2, <1>4, <1>6
<1> HIDE DEF t
<1>8. t = s BY <1>7, EqualLists
<1>9. QED BY <1>8 DEF t

LEMMA NoneKept ==
    ASSUME NEW s, IsList(s)
    PROVE  P!At(s, {}) = <<>>
<1> DEFINE t == P!At(s, {})
<1>1. IsList(t) /\ Len(t) = Cardinality({}) BY KeptAreRising
<1>2. Cardinality({}) = 0 BY FS_EmptySet
<1>3. IsList(<<>>) /\ Len(<<>>) = 0 BY NoViews DEF IsViews
<1> HIDE DEF t
<1>4. t = <<>> BY <1>1, <1>2, <1>3, EqualLists
<1>5. QED BY <1>4 DEF t

\* Some of what was kept.
LEMMA PartOfPart ==
    ASSUME NEW s, IsList(s), NEW K \in SUBSET DOMAIN s, NEW J \in SUBSET DOMAIN P!At(s, K)
    PROVE  P!At(P!At(s, K), J) = P!At(s, {Kept(K)[n] : n \in J})
<1> DEFINE t == P!At(s, K)
           M == {Kept(K)[n] : n \in J}
           f == [n \in J |-> Kept(K)[n]]
<1>1. /\ K \in SUBSET Int /\ Cardinality(K) \in Nat /\ Rising(Kept(K), K) /\ IsList(t)
      /\ DOMAIN t = 1..Cardinality(K) /\ \A n \in 1..Cardinality(K) : t[n] = s[Kept(K)[n]]
  BY KeptAreRising
<1>2. J \in SUBSET (1..Cardinality(K)) BY <1>1
<1>3. \A n \in J : f[n] = Kept(K)[n] OBVIOUS
<1>4. \A n \in J : f[n] \in M OBVIOUS
<1>5. \A m \in M : \E n \in J : f[n] = m OBVIOUS
<1> HIDE DEF f, t
<1>6. \A m, n \in J : m < n => f[m] < f[n] BY <1>1, <1>2, <1>3 DEF Rising
<1>7. Follows(f, J, M) BY <1>4, <1>5, <1>6 DEF Follows
<1>8. M \in SUBSET DOMAIN s BY <1>1, <1>2 DEF Rising
<1>9. \A n \in J : t[n] = s[f[n]] BY <1>1, <1>2, <1>3
<1>10. J \in SUBSET DOMAIN t BY DEF t
<1> HIDE DEF M
<1>11. P!At(t, J) = P!At(s, M) BY <1>1, <1>7, <1>8, <1>9, <1>10, EqualParts
<1>12. QED BY <1>11 DEF t, M
----------------------------------------------------------------------------
(* Lists in their order *)

Sorted(l) ==
    /\ IsViews(l) /\ \A i \in DOMAIN l : l[i].order > 0
    /\ \A i, j \in DOMAIN l : i < j => l[i].order < l[j].order

LEMMA NumberedIsSorted ==
    ASSUME NEW l, Numbered(l)
    PROVE  Sorted(l)
<1>1. DOMAIN l = 1..Len(l) /\ Len(l) \in Nat BY ListLength DEF Numbered, IsViews
<1>2. QED BY <1>1 DEF Numbered, Sorted

\* A list in its order stays as it is when it is sorted.
LEMMA SortedOrder ==
    ASSUME NEW l, Sorted(l), NEW p, IsOrder(p, DOMAIN l, [i \in DOMAIN l |-> P!OrderOf(l, i)])
    PROVE  \A n \in DOMAIN l : p[n] = n
<1>1. DOMAIN l = 1..Len(l) /\ Len(l) \in Nat BY ListLength DEF Sorted, IsViews
<1> DEFINE K == DOMAIN l
           key == [i \in K |-> P!OrderOf(l, i)]
           q == [n \in K |-> n]
<1>2. Cardinality(K) = Len(l) BY <1>1, UpTo
<1>3. \A i \in K : key[i] = l[i].order /\ key[i] \in Int
  <2> TAKE i \in K
  <2>1. l[i].order > 0 /\ l[i].order \in Int BY DEF Sorted, IsViews, IsView
  <2>2. QED BY <2>1 DEF P!OrderOf
<1>4. \A n \in K : q[n] = n OBVIOUS
<1>5. IsOrder(p, K, key) OBVIOUS
<1> HIDE DEF key, q
<1>6. \A i, j \in K : i < j => Sooner(key, i, j) BY <1>3 DEF Sooner, Sorted
<1>7. 1..Cardinality(K) = K BY <1>1, <1>2
<1>8. IsOrder(q, K, key) BY <1>4, <1>6, <1>7 DEF IsOrder
<1>9. K \in SUBSET Int /\ Cardinality(K) \in Nat BY <1>1, <1>2
<1> HIDE DEF K
<1>10. \A n \in 1..Cardinality(K) : p[n] = q[n] BY <1>3, <1>5, <1>8, <1>9, OrderIsUnique
<1>11. QED BY <1>4, <1>7, <1>10 DEF K

LEMMA EqualViews ==
    ASSUME NEW a, NEW b, IsView(a), IsView(b), a.name = b.name, a.group = b.group,
           a.filters = b.filters, a.order = b.order
    PROVE  a = b
BY DEF IsView

LEMMA SortedStays ==
    ASSUME NEW l, Sorted(l)
    PROVE  P!OrderViews(l) = l
<1> DEFINE t == P!OrderViews(l)
<1>1. IsViews(l) /\ IsList(l) /\ DOMAIN l = 1..Len(l) /\ Len(l) \in Nat BY ListLength DEF Sorted, IsViews
<1>2. IsList(t) /\ Len(t) = Len(l) /\ DOMAIN t = DOMAIN l BY <1>1, OrderedViews
<1>3. PICK p : /\ IsOrder(p, DOMAIN l, [i \in DOMAIN l |-> P!OrderOf(l, i)]) /\ Renumbered(t, l, p)
               /\ \A n \in DOMAIN l : t[n].order = P!OrderOf(l, p[n])
  BY <1>1, OrderedViews
<1>4. \A n \in DOMAIN l : p[n] = n BY <1>3, SortedOrder
<1> HIDE DEF t
<1>5. \A n \in DOMAIN l : t[n] = l[n]
  <2> TAKE n \in DOMAIN l
  <2>1. IsView(l[n]) /\ IsView(t[n]) BY <1>1, <1>3 DEF IsViews, Renumbered
  <2>2. t[n].name = l[n].name /\ t[n].group = l[n].group /\ t[n].filters = l[n].filters
    BY <1>3, <1>4 DEF Renumbered
  <2>3. t[n].order = l[n].order
    <3>1. l[n].order > 0 BY DEF Sorted
    <3>2. t[n].order = P!OrderOf(l, n) BY <1>3, <1>4
    <3>3. QED BY <3>1, <3>2 DEF P!OrderOf
  <2>4. QED BY <2>1, <2>2, <2>3, EqualViews
<1>6. t = l BY <1>1, <1>2, <1>5, EqualLists
<1>7. QED BY <1>6 DEF t

\* Numbering a list in its order changes its orders and nothing else.
LEMMA SortedIsNumberedInPlace ==
    ASSUME NEW l, Sorted(l)
    PROVE  /\ Numbered(P!NormalizeOrders(l)) /\ Len(P!NormalizeOrders(l)) = Len(l)
           /\ DOMAIN P!NormalizeOrders(l) = DOMAIN l
           /\ \A n \in DOMAIN l : SameButOrder(P!NormalizeOrders(l)[n], l[n])
<1> DEFINE t == P!NormalizeOrders(l)
<1>1. IsViews(l) BY DEF Sorted
<1>2. Numbered(t) /\ Len(t) = Len(l) /\ DOMAIN t = DOMAIN l BY <1>1, NormalizedIsNumbered, NormalizedViews
<1>3. PICK p : IsOrder(p, DOMAIN l, [i \in DOMAIN l |-> P!OrderOf(l, i)]) /\ Renumbered(t, l, p)
  BY <1>1, NormalizedViews
<1>4. \A n \in DOMAIN l : p[n] = n BY <1>3, SortedOrder
<1> HIDE DEF t
<1>5. \A n \in DOMAIN l : SameButOrder(t[n], l[n]) BY <1>3, <1>4 DEF Renumbered, SameButOrder
<1>6. QED BY <1>2, <1>5 DEF t

LEMMA NumberedStays ==
    ASSUME NEW l, Numbered(l)
    PROVE  P!NormalizeOrders(l) = l
<1> DEFINE t == P!NormalizeOrders(l)
<1>1. Sorted(l) BY NumberedIsSorted
<1>2. /\ Numbered(t) /\ Len(t) = Len(l) /\ DOMAIN t = DOMAIN l
      /\ \A n \in DOMAIN l : SameButOrder(t[n], l[n])
  BY <1>1, SortedIsNumberedInPlace
<1> HIDE DEF t
<1>3. \A n \in DOMAIN l : t[n] = l[n]
  <2> TAKE n \in DOMAIN l
  <2>1. IsView(t[n]) /\ IsView(l[n]) /\ t[n].order = l[n].order BY <1>2 DEF Numbered, IsViews
  <2>2. QED BY <1>2, <2>1, EqualViews DEF SameButOrder
<1>4. IsList(t) /\ IsList(l) /\ DOMAIN l = 1..Len(l) BY <1>2, ListLength DEF Numbered, IsViews
<1>5. t = l BY <1>2, <1>3, <1>4, EqualLists
<1>6. QED BY <1>5 DEF t

LEMMA PartIsSorted ==
    ASSUME NEW l, Sorted(l), NEW K \in SUBSET DOMAIN l
    PROVE  Sorted(P!At(l, K))
<1> DEFINE t == P!At(l, K)
<1>1. IsViews(l) /\ IsList(l) BY DEF Sorted, IsViews
<1>2. IsViews(t) BY <1>1, SomeOf
<1>3. /\ Rising(Kept(K), K) /\ DOMAIN t = 1..Cardinality(K)
      /\ \A n \in 1..Cardinality(K) : t[n] = l[Kept(K)[n]]
  BY <1>1, KeptAreRising
<1> HIDE DEF t
<1>4. \A n \in DOMAIN t : Kept(K)[n] \in DOMAIN l /\ t[n] = l[Kept(K)[n]] BY <1>3 DEF Rising
<1>5. \A m, n \in DOMAIN t : m < n => Kept(K)[m] < Kept(K)[n] BY <1>3 DEF Rising
<1>6. \A n \in DOMAIN t : t[n].order > 0 BY <1>4 DEF Sorted
<1>7. \A m, n \in DOMAIN t : m < n => t[m].order < t[n].order BY <1>4, <1>5 DEF Sorted
<1>8. QED BY <1>2, <1>6, <1>7 DEF Sorted, t

\* A folder of a list in its order, all of it or some.
LEMMA FolderOfSorted ==
    ASSUME NEW l, Sorted(l), NEW group
    PROVE  F!Folder(l, group) = P!At(l, {i \in DOMAIN l : l[i].group = group})
<1> DEFINE K == {i \in DOMAIN l : l[i].group = group}
<1>1. Sorted(P!At(l, K)) BY PartIsSorted
<1>2. P!OrderViews(P!At(l, K)) = P!At(l, K) BY <1>1, SortedStays
<1>3. F!Folder(l, group) = P!OrderViews(P!OfGroup(l, group)) BY SameParts, SameOrderViews DEF F!Folder
<1>4. P!OfGroup(l, group) = P!At(l, K) BY DEF P!OfGroup
<1>5. QED BY <1>2, <1>3, <1>4

\* What is told of views at places that follow each other.
LEMMA ToldParts ==
    ASSUME NEW s, IsList(s), NEW K \in SUBSET DOMAIN s, NEW t, IsList(t), NEW J \in SUBSET DOMAIN t,
           NEW f, Follows(f, K, J),
           \A i \in K : s[i].name = t[f[i]].name /\ s[i].filters = t[f[i]].filters
    PROVE  F!Told(P!At(s, K)) = F!Told(P!At(t, J))
<1>1. /\ Cardinality(J) = Cardinality(K)
      /\ \A n \in 1..Cardinality(K) : /\ Kept(K)[n] \in K /\ Kept(J)[n] = f[Kept(K)[n]]
                                       /\ P!At(s, K)[n] = s[Kept(K)[n]]
                                       /\ P!At(t, J)[n] = t[f[Kept(K)[n]]]
  BY FollowingParts, SMTT(60)
<1>2. DOMAIN P!At(s, K) = 1..Cardinality(K) /\ DOMAIN P!At(t, J) = 1..Cardinality(J) BY KeptAreRising
<1> DEFINE a == P!At(s, K)
           b == P!At(t, J)
<1>3. DOMAIN a = DOMAIN b /\ \A n \in DOMAIN a : a[n].name = b[n].name /\ a[n].filters = b[n].filters
  BY <1>1, <1>2
<1> HIDE DEF a, b
<1>4. F!Told(a) = F!Told(b) BY <1>3 DEF F!Told
<1>5. QED BY <1>4 DEF a, b
----------------------------------------------------------------------------
(* The file of an export *)

\* A list that the collection may have.
IsCollected(l) == Numbered(l) /\ OncePerName(l) /\ Len(l) <= MaxCollected

LEMMA CollectedIsWhole ==
    ASSUME MaxCollected \in Nat, NEW l, IsCollected(l)
    PROVE  F!Cut(l) = l
<1>1. IsList(l) /\ Len(l) \in Nat /\ Len(l) <= MaxCollected BY ListLength DEF IsCollected, Numbered, IsViews
<1>2. F!Cut(l) = SubSeq(l, 1, Len(l)) BY <1>1 DEF F!Cut
<1>3. l \in Seq({l[i] : i \in 1..Len(l)}) BY <1>1, ListsAreSequences
<1>4. SubSeq(l, 1, Len(l)) = l BY <1>1, <1>3
<1>5. QED BY <1>2, <1>4

LEMMA ExportReadsBack ==
    ASSUME NEW l, IsViews(l)
    PROVE  F!ReadFile(F!Export(l)) = P!NormalizeOrders(l)
<1> DEFINE t == P!NormalizeOrders(l)
<1>1. Numbered(t) BY NormalizedIsNumbered
<1>2. F!NormalizeOrders(l) = t BY SameNormalize
<1> HIDE DEF t
<1>3. DOMAIN t = 1..Len(t) /\ t = [i \in 1..Len(t) |-> t[i]]
  BY <1>1, ListLength DEF Numbered, IsViews, IsList
<1>4. F!Export(l) = [i \in DOMAIN t |-> t[i]] BY <1>2, Zenon DEF F!Export, F!ExportRecord
<1>5. F!Export(l) = t BY <1>3, <1>4
<1>6. F!ReadFile(F!Export(l)) = P!NormalizeOrders(t) BY <1>5, SameNormalize DEF F!ReadFile
<1>7. QED BY <1>1, <1>6, NumberedStays DEF t

\* Nothing more is pushed from a list all of whose names are there.
LEMMA PushedTwice ==
    ASSUME NEW l, IsViews(l), NEW more, IsViews(more), P!Names(more) \subseteq P!Names(l)
    PROVE  P!PushAll(l, more) = l
<1> DEFINE K == {i \in DOMAIN more : /\ more[i].name \notin P!Names(l)
                                     /\ \A j \in 1..(i - 1) : more[j].name # more[i].name}
<1>1. K = {} BY DEF P!Names
<1>2. IsList(more) /\ IsList(l) BY DEF IsViews
<1>3. P!PushAll(l, more) = l \o P!At(more, K) BY DEF P!PushAll
<1> HIDE DEF K
<1>4. P!PushAll(l, more) = l \o <<>> BY <1>1, <1>2, <1>3, NoneKept
<1>5. l \in Seq({l[i] : i \in 1..Len(l)}) BY <1>2, ListsAreSequences
<1>6. l \o <<>> = l BY <1>5
<1>7. QED BY <1>4, <1>6

LEMMA PushedOnEmpty ==
    ASSUME NEW l, IsViews(l), OncePerName(l)
    PROVE  P!PushAll(<<>>, l) = l
<1> DEFINE K == {i \in DOMAIN l : /\ l[i].name \notin P!Names(<<>>)
                                  /\ \A j \in 1..(i - 1) : l[j].name # l[i].name}
<1>1. IsList(l) /\ DOMAIN l = 1..Len(l) /\ Len(l) \in Nat BY ListLength DEF IsViews
<1>2. K = DOMAIN l
  <2> SUFFICES ASSUME NEW i \in DOMAIN l
               PROVE  l[i].name \notin P!Names(<<>>) /\ \A j \in 1..(i - 1) : l[j].name # l[i].name
    OBVIOUS
  <2>1. l[i].name \notin P!Names(<<>>) BY NoViews
  <2>2. ASSUME NEW j \in 1..(i - 1) PROVE l[j].name # l[i].name
    <3>1. j \in DOMAIN l /\ j # i BY <1>1
    <3>2. QED BY <3>1 DEF OncePerName
  <2>3. QED BY <2>1, <2>2
<1>3. P!PushAll(<<>>, l) = <<>> \o P!At(l, K) BY DEF P!PushAll
<1> HIDE DEF K
<1>4. P!PushAll(<<>>, l) = <<>> \o l BY <1>1, <1>2, <1>3, AllKept
<1>5. l \in Seq({l[i] : i \in 1..Len(l)}) BY <1>1, ListsAreSequences
<1>6. <<>> \o l = l BY <1>5
<1>7. QED BY <1>4, <1>6

\* What comes in and is kept whole.
LEMMA MergedWhole ==
    ASSUME MaxCollected \in Nat, NEW existing, IsViews(existing), NEW incoming, IsCollected(incoming),
           P!Names(existing) \subseteq P!Names(incoming)
    PROVE  F!Merge(existing, incoming, "incoming") = incoming
<1>1. IsViews(incoming) /\ OncePerName(incoming) /\ Numbered(incoming) BY DEF IsCollected, Numbered
<1>2. F!Merged(existing, incoming, "incoming") = P!PushAll(P!PushAll(<<>>, incoming), existing)
  BY SamePushAll DEF F!Merged
<1>3. P!PushAll(P!PushAll(<<>>, incoming), existing) = incoming BY <1>1, PushedOnEmpty, PushedTwice
<1>4. F!Merge(existing, incoming, "incoming") = P!NormalizeOrders(F!Cut(incoming))
  BY <1>2, <1>3, SameNormalize DEF F!Merge
<1>5. QED BY <1>1, <1>4, CollectedIsWhole, NumberedStays

\* A view has itself for its name.
LEMMA NamedIsItself ==
    ASSUME NEW l, OncePerName(l), NEW i \in DOMAIN l
    PROVE  F!Named(l, l[i].name) = l[i]
<1>1. \A j \in DOMAIN l : l[j].name = l[i].name => j = i BY DEF OncePerName
<1> DEFINE k == CHOOSE j \in DOMAIN l : l[j].name = l[i].name
<1>2. k \in DOMAIN l /\ l[k].name = l[i].name OBVIOUS
<1>3. F!Named(l, l[i].name) = l[k] BY Zenon DEF F!Named
<1> HIDE DEF k
<1>4. QED BY <1>1, <1>2, <1>3

LEMMA NothingIsNew ==
    ASSUME NEW l, IsViews(l), OncePerName(l)
    PROVE  F!Conflicts(l, l) = <<>> /\ F!News(l, l) = <<>>
<1>1. IsList(l) BY DEF IsViews
<1>2. P!At(l, {}) = <<>> BY <1>1, NoneKept
<1>3. {i \in DOMAIN l : F!Conflicting(l, l[i])} = {}
  <2> SUFFICES ASSUME NEW i \in DOMAIN l PROVE ~F!Conflicting(l, l[i])
    OBVIOUS
  <2>1. F!Named(l, l[i].name) = l[i] BY NamedIsItself
  <2>2. QED BY <2>1 DEF F!Conflicting, F!SameView
<1>4. {i \in DOMAIN l : l[i].name \notin P!Names(l)} = {} BY DEF P!Names
<1>5. F!Conflicts(l, l) = P!At(l, {}) BY <1>3, SameAt DEF F!Conflicts
<1>6. F!News(l, l) = P!At(l, {}) BY <1>4, SameAt, SameNames DEF F!News, F!Without
<1>7. QED BY <1>2, <1>5, <1>6

\* All of the collection, read again, changes nothing; some of it, read where there is
\* nothing, is what was selected, folder by folder.
LEMMA WholeFileComesBack ==
    ASSUME MaxCollected \in Nat, NEW l, IsCollected(l)
    PROVE  /\ F!ReadFile(F!Export(l)) = l
           /\ F!Conflicts(l, l) = <<>> /\ F!News(l, l) = <<>>
           /\ F!Merge(l, l, "incoming") = l
<1>1. IsViews(l) /\ OncePerName(l) /\ Numbered(l) BY DEF IsCollected, Numbered
<1>2. F!ReadFile(F!Export(l)) = l BY <1>1, ExportReadsBack, NumberedStays
<1>3. F!Merge(l, l, "incoming") = l BY <1>1, MergedWhole
<1>4. QED BY <1>1, <1>2, <1>3, NothingIsNew

LEMMA OnlyOfPart ==
    ASSUME NEW l, IsList(l), NEW K, K \in SUBSET DOMAIN l, NEW names, NEW J, J = {i \in K : l[i].name \in names}
    PROVE  P!Only(P!At(l, K), names) = P!At(l, J)
<1> DEFINE t == P!At(l, K)
<1>1. /\ K \in SUBSET Int /\ Rising(Kept(K), K) /\ DOMAIN t = 1..Cardinality(K)
      /\ \A n \in 1..Cardinality(K) : t[n] = l[Kept(K)[n]]
  BY KeptAreRising
<1>2. \A M \in SUBSET DOMAIN t : P!At(t, M) = P!At(l, {Kept(K)[n] : n \in M})
  BY PartOfPart
<1> HIDE DEF t
<1>3. \A n \in DOMAIN t : Kept(K)[n] \in K /\ t[n] = l[Kept(K)[n]] BY <1>1 DEF Rising
<1>4. \A i \in K : \E n \in DOMAIN t : Kept(K)[n] = i BY <1>1 DEF Rising
<1> DEFINE M == {n \in DOMAIN t : t[n].name \in names}
<1>5. {Kept(K)[n] : n \in M} = J BY <1>3, <1>4
<1>6. M \in SUBSET DOMAIN t OBVIOUS
<1>7. P!Only(t, names) = P!At(t, M) BY DEF P!Only
<1> HIDE DEF M
<1>8. QED BY <1>2, <1>5, <1>6, <1>7 DEF t

LEMMA SelectionComesBack ==
    ASSUME MaxCollected \in Nat, NEW l, IsCollected(l), NEW names, NEW group
    PROVE  F!Told(F!Folder(F!Merge(<<>>, F!ReadFile(F!Export(F!OrderViews(F!Only(l, names)))), "incoming"), group))
               = F!Told(F!Only(F!Folder(l, group), names))
<1>1. IsViews(l) /\ IsList(l) /\ OncePerName(l) /\ Sorted(l) /\ Len(l) \in Nat
  BY NumberedIsSorted, ListLength DEF IsCollected, Numbered, IsViews
<1> DEFINE S == {i \in DOMAIN l : l[i].name \in names}
           shown == P!At(l, S)
           some == P!NormalizeOrders(shown)
<1>2. Sorted(shown) /\ OncePerName(shown) /\ IsViews(shown) BY <1>1, PartIsSorted, PartIsShort
<1>3. F!OrderViews(F!Only(l, names)) = shown
  <2>1. F!Only(l, names) = shown BY SameParts DEF P!Only
  <2>2. P!OrderViews(shown) = shown BY <1>2, SortedStays
  <2>3. QED BY <2>1, <2>2, SameOrderViews
<1>4. /\ Rising(Kept(S), S) /\ Len(shown) = Cardinality(S) /\ DOMAIN shown = 1..Cardinality(S)
      /\ \A n \in 1..Cardinality(S) : shown[n] = l[Kept(S)[n]]
  BY <1>1, KeptAreRising
<1>5. Cardinality(S) <= Len(l) /\ Cardinality(S) \in Nat BY <1>1, Places
<1> HIDE DEF shown
<1>6. F!ReadFile(F!Export(shown)) = some BY <1>2, ExportReadsBack
<1>7. /\ Numbered(some) /\ Len(some) = Len(shown) /\ DOMAIN some = DOMAIN shown
      /\ \A n \in DOMAIN shown : SameButOrder(some[n], shown[n])
  BY <1>2, SortedIsNumberedInPlace
<1>8. IsViews(some) /\ OncePerName(some) BY <1>2, NormalizeKeepsNames
<1> HIDE DEF some, S
<1>9. IsCollected(some) BY <1>1, <1>4, <1>5, <1>7, <1>8 DEF IsCollected
<1>10. F!Merge(<<>>, some, "incoming") = some
  <2>1. IsViews(<<>>) /\ P!Names(<<>>) \subseteq P!Names(some) BY NoViews
  <2>2. QED BY <1>9, <2>1, MergedWhole
<1> DEFINE K == {n \in DOMAIN some : some[n].group = group}
           G == {i \in DOMAIN l : l[i].group = group}
           J == {i \in G : l[i].name \in names}
<1>11. F!Folder(some, group) = P!At(some, K) BY <1>7, NumberedIsSorted, FolderOfSorted
<1>12. F!Only(F!Folder(l, group), names) = P!At(l, J)
  <2>1. F!Folder(l, group) = P!At(l, G) BY <1>1, FolderOfSorted
  <2>2. G \in SUBSET DOMAIN l OBVIOUS
  <2> HIDE DEF G
  <2>4. P!Only(P!At(l, G), names) = P!At(l, J) BY <1>1, <2>2, OnlyOfPart
  <2>5. QED BY <2>1, <2>4, SameParts
<1>13. \A n \in DOMAIN some : /\ Kept(S)[n] \in S
                              /\ some[n].name = l[Kept(S)[n]].name /\ some[n].group = l[Kept(S)[n]].group
                              /\ some[n].filters = l[Kept(S)[n]].filters
  BY <1>4, <1>7 DEF Rising, SameButOrder
<1>14. Follows(Kept(S), K, J)
  <2>1. \A n \in K : Kept(S)[n] \in J BY <1>13 DEF S
  <2>2. \A m, n \in K : m < n => Kept(S)[m] < Kept(S)[n] BY <1>4, <1>7 DEF Rising
  <2>3. ASSUME NEW i \in J PROVE \E n \in K : Kept(S)[n] = i
    <3>1. i \in S BY DEF S
    <3>2. PICK n \in DOMAIN some : Kept(S)[n] = i BY <1>4, <1>7, <3>1 DEF Rising
    <3>3. n \in K BY <1>13, <3>2
    <3>4. QED BY <3>2, <3>3
  <2>4. QED BY <2>1, <2>2, <2>3 DEF Follows
<1>15. IsList(some) BY <1>8 DEF IsViews
<1>16. \A n \in K : some[n].name = l[Kept(S)[n]].name /\ some[n].filters = l[Kept(S)[n]].filters BY <1>13
<1>17. K \in SUBSET DOMAIN some /\ J \in SUBSET DOMAIN l OBVIOUS
<1> HIDE DEF K, J
<1>18. F!Told(P!At(some, K)) = F!Told(P!At(l, J)) BY <1>1, <1>14, <1>15, <1>16, <1>17, ToldParts
<1>19. QED BY <1>3, <1>6, <1>10, <1>11, <1>12, <1>18

LEMMA CollectedFilesComeBack ==
    ASSUME MaxCollected \in Nat, IsCollected(viewPresets)
    PROVE  F!FilesComeBack
<1>1. F!ReadFile(F!Export(viewPresets)) = viewPresets /\ F!Conflicts(viewPresets, viewPresets) = <<>>
      /\ F!News(viewPresets, viewPresets) = <<>> /\ F!Merge(viewPresets, viewPresets, "incoming") = viewPresets
  BY WholeFileComesBack
<1>2. \A group \in Groups :
          F!Told(F!Folder(F!Merge(<<>>, F!ReadFile(F!Export(F!Selected)), "incoming"), group))
              = F!Told(F!Only(F!Folder(viewPresets, group), selectedViewPresetNames))
  BY SelectionComesBack DEF F!Selected
<1>3. QED BY <1>1, <1>2, Zenon DEF F!FilesComeBack
----------------------------------------------------------------------------
(* What the collection makes of its list, and that the list stays whole *)

LEMMA SameOperations ==
    ASSUME NEW l, NEW names, NEW group, NEW n, NEW m, NEW orders
    PROVE  /\ F!MoveToGroup(l, names, group) = P!MoveToGroup(l, names, group)
           /\ F!Rename(l, n, m) = P!Rename(l, n, m)
           /\ F!Reordered(l, orders) = P!Reordered(l, orders)
<1>1. F!Regroup(F!OrderViews(F!Only(l, names)), names, group)
          = P!Regroup(P!OrderViews(P!Only(l, names)), names, group)
  BY SameOrderViews, SameParts, Zenon DEF F!Regroup, P!Regroup
<1>2. F!OrderViews(F!Without(l, names)) = P!OrderViews(P!Without(l, names))
  BY SameOrderViews, SameParts, Zenon
<1>3. F!MoveToGroup(l, names, group) = P!MoveToGroup(l, names, group)
  BY <1>1, <1>2, SameNormalize, Zenon DEF F!MoveToGroup, P!MoveToGroup
<1>4. F!Rename(l, n, m) = P!Rename(l, n, m) BY Zenon DEF F!Rename, P!Rename
<1>5. F!Reordered(l, orders) = P!Reordered(l, orders)
  BY SameNormalize, Zenon DEF F!Reordered, P!Reordered
<1>6. QED BY <1>3, <1>4, <1>5

LEMMA SameTopOrder == ASSUME NEW l, NEW group PROVE F!TopOrderForGroup(l, group) = P!TopOrderForGroup(l, group)
  BY Zenon DEF F!TopOrderForGroup, P!TopOrderForGroup

LEMMA SameUpdateGroup ==
    ASSUME NEW l, NEW n, NEW group
    PROVE  F!UpdateGroup(l, n, group) = P!UpdateGroup(l, n, group)
  BY SameTopOrder, SameNormalize, Zenon DEF F!UpdateGroup, P!UpdateGroup

LEMMA SameExchanges ==
    ASSUME NEW l, NEW n, NEW direction, NEW m
    PROVE  /\ F!Neighbour(l, n, direction) = P!Neighbour(l, n, direction)
           /\ F!Exchanged(l, n, m) = P!Exchanged(l, n, m)
<1>1. F!OrderViews(F!OfGroup(l, F!Named(l, n).group)) = P!OrderViews(P!OfGroup(l, P!Named(l, n).group))
  BY SameOrderViews, SameParts, SameNamed, Zenon
<1>2. F!Neighbour(l, n, direction) = P!Neighbour(l, n, direction)
  BY <1>1, Zenon DEF F!Neighbour, P!Neighbour
<1> DEFINE f == [x \in {n, m} |-> F!Named(l, IF x = n THEN m ELSE n).order]
           p == [x \in {n, m} |-> P!Named(l, IF x = n THEN m ELSE n).order]
<1>3. f = p BY SameNamed, Zenon
<1>4. F!Exchanged(l, n, m) = F!Reordered(l, f) BY Zenon DEF F!Exchanged
<1>5. P!Exchanged(l, n, m) = P!Reordered(l, p) BY Zenon DEF P!Exchanged
<1> HIDE DEF f, p
<1>6. F!Reordered(l, p) = P!Reordered(l, p) BY SameOperations
<1>7. QED BY <1>2, <1>3, <1>4, <1>5, <1>6

LEMMA SameDropped ==
    ASSUME NEW l, NEW n, NEW m
    PROVE  F!Dropped(l, n, m) = P!Dropped(l, n, m)
<1> DEFINE fPeers == F!Without(F!OrderViews(F!OfGroup(l, F!Named(l, m).group)), {n})
           pPeers == P!Without(P!OrderViews(P!OfGroup(l, P!Named(l, m).group)), {n})
           Place(peers) == CHOOSE i \in DOMAIN peers : peers[i].name = m
           Group(peers, v) == SubSeq(peers, 1, Place(peers) - 1) \o <<v>> \o SubSeq(peers, Place(peers), Len(peers))
           g == Group(pPeers, P!Named(l, n))
<1>1. fPeers = pPeers BY SameOrderViews, SameParts, SameNamed, Zenon
<1>2. F!Named(l, n) = P!Named(l, n) BY SameNamed
<1>3. F!Dropped(l, n, m) = F!Reordered(l, [x \in F!Names(g) |-> CHOOSE i \in DOMAIN g : g[i].name = x])
  <2> DEFINE h == Group(fPeers, F!Named(l, n))
  <2>1. F!Dropped(l, n, m) = F!Reordered(l, [x \in F!Names(h) |-> CHOOSE i \in DOMAIN h : h[i].name = x])
    BY Zenon DEF F!Dropped
  <2> HIDE DEF fPeers, pPeers
  <2>2. h = g BY <1>1, <1>2, Zenon
  <2> HIDE DEF h, g
  <2>3. QED BY <2>1, <2>2
<1>4. P!Dropped(l, n, m) = P!Reordered(l, [x \in P!Names(g) |-> CHOOSE i \in DOMAIN g : g[i].name = x])
  BY Zenon DEF P!Dropped
<1> HIDE DEF g
<1>5. F!Names(g) = P!Names(g) BY SameNames
<1> DEFINE o == [x \in P!Names(g) |-> CHOOSE i \in DOMAIN g : g[i].name = x]
<1>6. F!Dropped(l, n, m) = F!Reordered(l, o) BY <1>3, <1>5, Zenon
<1>7. P!Dropped(l, n, m) = P!Reordered(l, o) BY <1>4
<1> HIDE DEF o
<1>8. QED BY <1>6, <1>7, SameOperations

LEMMA CollectedCut ==
    ASSUME MaxCollected \in Nat, NEW l, IsViews(l), OncePerName(l)
    PROVE  /\ IsUpTo(F!Cut(l), MaxCollected) /\ P!Names(F!Cut(l)) \subseteq P!Names(l)
           /\ \A k \in DOMAIN F!Cut(l) : k \in DOMAIN l /\ F!Cut(l)[k] = l[k]
           /\ Len(F!Cut(l)) = IF Len(l) < MaxCollected THEN Len(l) ELSE MaxCollected
<1>1. F!Cut(l) = Beginning(l, MaxCollected) BY DEF F!Cut, Beginning
<1>2. QED BY <1>1, BeginningIsUpTo

\* A list that is numbered anew is a list of the collection.
LEMMA NumberedAnew ==
    ASSUME NEW l, IsUpTo(l, MaxCollected)
    PROVE  IsCollected(P!NormalizeOrders(l)) /\ P!Names(P!NormalizeOrders(l)) = P!Names(l)
  BY NormalizeIsUpTo DEF IsCollected, IsUpTo

LEMMA ReadIsCollected ==
    ASSUME MaxCollected \in Nat, NEW l, IsViews(l), OncePerName(l)
    PROVE  IsCollected(F!ReadViews(l))
<1>1. F!ReadViews(l) = P!NormalizeOrders(F!Cut(l)) BY SameNormalize DEF F!ReadViews
<1>2. QED BY <1>1, CollectedCut, NumberedAnew

LEMMA UpsertIsCollected ==
    ASSUME MaxCollected \in Nat, NEW l, IsViews(l), OncePerName(l), NEW view, IsView(view)
    PROVE  IsCollected(F!Upsert(l, view))
<1> DEFINE rest == P!Without(l, {view.name})
           t == <<view>> \o rest
<1>1. IsViews(rest) /\ OncePerName(rest) /\ view.name \notin P!Names(rest)
  BY WithoutIsShort
<1>2. IsViews(<<view>>) /\ OncePerName(<<view>>) /\ P!Names(<<view>>) = {view.name} BY OneView
<1>3. F!Upsert(l, view) = P!NormalizeOrders(F!Cut(t)) BY SameNormalize, SameParts DEF F!Upsert
<1> HIDE DEF rest
<1>4. IsViews(t) /\ OncePerName(t) BY <1>1, <1>2, JoinedViews
<1> HIDE DEF t
<1>5. QED BY <1>3, <1>4, CollectedCut, NumberedAnew


LEMMA DrawnAreNames ==
    ASSUME IsViews(viewPresets), OncePerName(viewPresets), NEW n \in F!Drawn
    PROVE  n \in P!Names(viewPresets)
<1>1. PICK g : n \in F!Names(F!Rows(g)) BY DEF F!Drawn
<1> DEFINE folder == P!OrderViews(P!OfGroup(viewPresets, g))
           K == {i \in DOMAIN folder : F!Found(folder[i])}
<1>2. F!Folder(viewPresets, g) = folder BY SameOrderViews, SameParts, Zenon DEF F!Folder
<1>3. F!Rows(g) = F!At(folder, K) BY <1>2, Zenon DEF F!Rows
<1>4. K \in SUBSET DOMAIN folder OBVIOUS
<1>5. IsUpTo(viewPresets, Len(viewPresets)) /\ Len(viewPresets) \in Nat BY ListLength DEF IsUpTo, IsViews
<1>6. /\ IsUpTo(folder, Len(viewPresets))
      /\ P!Names(folder) = {viewPresets[i].name : i \in {j \in DOMAIN viewPresets : viewPresets[j].group = g}}
  BY <1>5, FolderInOrder
<1> HIDE DEF folder, K
<1>7. P!Names(P!At(folder, K)) = {folder[i].name : i \in K} BY <1>4, <1>6, PartIsShort DEF IsUpTo
<1>8. n \in P!Names(P!At(folder, K)) BY <1>1, <1>3, SameAt, SameNames
<1>9. n \in P!Names(folder) BY <1>4, <1>7, <1>8 DEF P!Names
<1>10. QED BY <1>6, <1>9 DEF P!Names

\* The list after an operation of the form.
LEMMA SavedIsCollected ==
    ASSUME MaxCollected \in Nat, IsCollected(viewPresets), F!SaveViewPreset
    PROVE  IsCollected(viewPresets')
<1> DEFINE name == F!nextPresetName
           group == F!nextPresetGroup
           order == IF F!presetNameExists THEN F!Named(viewPresets, name).order
                    ELSE F!TopOrderForGroup(viewPresets, group)
           view == [name |-> name, group |-> group, filters |-> filters, order |-> order]
<1>1. viewPresets' = F!Upsert(viewPresets, view) BY DEF F!SaveViewPreset, F!SetViewPresets
<1>2. IsViews(viewPresets) /\ OncePerName(viewPresets) BY DEF IsCollected, Numbered
<1>3. order \in Int
  <2>1. CASE F!presetNameExists
    <3>1. name \in P!Names(viewPresets) BY <2>1, SameNames DEF F!presetNameExists
    <3>2. IsView(P!Named(viewPresets, name)) BY <1>2, <3>1, NamedView
    <3>3. QED BY <2>1, <3>2, SameNamed DEF IsView
  <2>2. CASE ~F!presetNameExists BY <1>2, <2>2, TopOrderIsInt, SameTopOrder
  <2>3. QED BY <2>1, <2>2
<1> HIDE DEF name, group, order
<1>4. IsView(view) BY <1>3 DEF IsView
<1> HIDE DEF view
<1>5. QED BY <1>1, <1>2, <1>4, UpsertIsCollected

LEMMA RowsKeepTheList ==
    ASSUME MaxCollected \in Nat, IsCollected(viewPresets), F!RowNext
    PROVE  IsCollected(viewPresets')
<1>1. IsViews(viewPresets) /\ OncePerName(viewPresets) /\ IsUpTo(viewPresets, MaxCollected)
  BY DEF IsCollected, Numbered, IsUpTo
<1>2. CASE F!ApplyViewPreset BY <1>2 DEF F!ApplyViewPreset, F!Click
<1>3. CASE F!DeleteViewPreset
  <2>1. PICK n : viewPresets' = F!NormalizeOrders(F!Without(viewPresets, {n}))
    BY <1>3 DEF F!DeleteViewPreset, F!SetViewPresets
  <2>2. viewPresets' = P!NormalizeOrders(P!Without(viewPresets, {n})) BY <2>1, SameNormalize, SameParts
  <2>3. IsUpTo(P!Without(viewPresets, {n}), MaxCollected) BY <1>1, WithoutIsShort
  <2>4. QED BY <2>2, <2>3, NumberedAnew
<1>4. CASE F!RenameViewPreset
  <2>1. PICK n, new : new \notin F!Names(viewPresets) /\ viewPresets' = F!Rename(viewPresets, n, new)
    BY <1>4 DEF F!RenameViewPreset, F!SetViewPresets
  <2>2. new \notin P!Names(viewPresets) /\ viewPresets' = P!Rename(viewPresets, n, new)
    BY <2>1, SameOperations, SameNames
  <2>3. IsUpTo(viewPresets', MaxCollected) BY <1>1, <2>2, RenameIsUpTo
  <2>4. viewPresets' = [i \in DOMAIN viewPresets |-> IF viewPresets[i].name = n
                            THEN [viewPresets[i] EXCEPT !.name = new] ELSE viewPresets[i]]
    BY <2>2 DEF P!Rename
  <2>5. \A i \in DOMAIN viewPresets : viewPresets'[i].order = viewPresets[i].order
    <3> SUFFICES ASSUME NEW i \in DOMAIN viewPresets PROVE viewPresets'[i].order = viewPresets[i].order
      OBVIOUS
    <3>1. IsView(viewPresets[i]) BY <1>1 DEF IsViews
    <3>2. viewPresets'[i] = viewPresets[i] \/ viewPresets'[i] = [viewPresets[i] EXCEPT !.name = new] BY <2>4
    <3>3. QED BY <3>1, <3>2 DEF IsView
  <2>6. QED BY <2>3, <2>4, <2>5 DEF IsCollected, Numbered, IsUpTo
<1>5. CASE F!UpdateViewPresetGroup
  <2>1. PICK n, g : viewPresets' = F!UpdateGroup(viewPresets, n, g)
    BY <1>5 DEF F!UpdateViewPresetGroup, F!SetViewPresets
  <2>2. viewPresets' = P!UpdateGroup(viewPresets, n, g) BY <2>1, SameUpdateGroup
  <2>3. IsUpTo(viewPresets', MaxCollected) /\ Numbered(viewPresets') BY <1>1, <2>2, UpdateGroupIsUpTo
  <2>4. QED BY <2>3 DEF IsCollected, IsUpTo
<1>6. CASE F!MoveViewPreset
  <2>1. PICK n \in F!Drawn, direction \in {-1, 1} :
          \E other \in F!Neighbour(viewPresets, n, direction) : viewPresets' = F!Exchanged(viewPresets, n, other)
    BY <1>6 DEF F!MoveViewPreset, F!SetViewPresets
  <2>2. PICK other \in P!Neighbour(viewPresets, n, direction) : viewPresets' = P!Exchanged(viewPresets, n, other)
    BY <2>1, SameExchanges
  <2>3. n \in P!Names(viewPresets) BY <1>1, DrawnAreNames
  <2>4. IsUpTo(viewPresets', MaxCollected) /\ Numbered(viewPresets') BY <1>1, <2>2, <2>3, ExchangedIsUpTo
  <2>5. QED BY <2>4 DEF IsCollected, IsUpTo
<1>7. CASE F!DropViewPreset
  <2>1. PICK source \in F!Drawn, target \in F!Drawn :
          source # target /\ viewPresets' = F!Dropped(viewPresets, source, target)
    BY <1>7 DEF F!DropViewPreset, F!SetViewPresets
  <2>2. viewPresets' = P!Dropped(viewPresets, source, target) BY <2>1, SameDropped
  <2>3. source \in P!Names(viewPresets) /\ target \in P!Names(viewPresets) BY <1>1, DrawnAreNames
  <2>4. IsUpTo(viewPresets', MaxCollected) /\ Numbered(viewPresets') BY <1>1, <2>1, <2>2, <2>3, DroppedIsUpTo
  <2>5. QED BY <2>4 DEF IsCollected, IsUpTo
<1>8. QED BY <1>2, <1>3, <1>4, <1>5, <1>6, <1>7 DEF F!RowNext

LEMMA PicksKeepTheList ==
    ASSUME MaxCollected \in Nat, IsCollected(viewPresets), F!PickNext
    PROVE  IsCollected(viewPresets')
<1>1. IsViews(viewPresets) /\ OncePerName(viewPresets) /\ IsUpTo(viewPresets, MaxCollected)
  BY DEF IsCollected, Numbered, IsUpTo
<1>2. CASE F!SelectRow \/ F!SelectVisible \/ F!SelectFolder \/ F!ClearSelection \/ F!AskBulkDelete
  <2>1. viewPresets' = viewPresets
    BY <1>2 DEF F!SelectRow, F!SelectVisible, F!SelectFolder, F!ClearSelection, F!AskBulkDelete, F!Picking, F!Click
  <2>2. QED BY <2>1
<1>3. CASE F!BulkMoveViewPresets
  <2>1. PICK g : viewPresets' = F!MoveToGroup(viewPresets, selectedViewPresetNames, g)
    BY <1>3 DEF F!BulkMoveViewPresets, F!SetViewPresets
  <2>2. viewPresets' = P!MoveToGroup(viewPresets, selectedViewPresetNames, g) BY <2>1, SameOperations
  <2>3. IsUpTo(viewPresets', MaxCollected) /\ Numbered(viewPresets') BY <1>1, <2>2, MoveIsUpTo
  <2>4. QED BY <2>3 DEF IsCollected, IsUpTo
<1>4. CASE F!BulkDeleteViewPresets
  <2>1. viewPresets' = F!NormalizeOrders(F!Without(viewPresets, selectedViewPresetNames))
    BY <1>4 DEF F!BulkDeleteViewPresets, F!SetViewPresets
  <2>2. viewPresets' = P!NormalizeOrders(P!Without(viewPresets, selectedViewPresetNames))
    BY <2>1, SameNormalize, SameParts
  <2>3. IsUpTo(P!Without(viewPresets, selectedViewPresetNames), MaxCollected) BY <1>1, WithoutIsShort
  <2>4. QED BY <2>2, <2>3, NumberedAnew
<1>5. QED BY <1>2, <1>3, <1>4 DEF F!PickNext

LEMMA CollectionStays ==
    ASSUME MaxCollected \in Nat, IsCollected(viewPresets), [F!Next]_(F!vars)
    PROVE  IsCollected(viewPresets')
<1>1. CASE F!FormNext
  <2>1. CASE F!SaveViewPreset BY <2>1, SavedIsCollected
  <2>2. CASE F!TypeName \/ F!TypeGroup \/ F!SetFilters \/ F!SearchViews
    <3>1. viewPresets' = viewPresets
      BY <2>2 DEF F!TypeName, F!TypeGroup, F!SetFilters, F!SearchViews, F!Click
    <3>2. QED BY <3>1
  <2>3. QED BY <1>1, <2>1, <2>2 DEF F!FormNext
<1>2. CASE F!RowNext BY <1>2, RowsKeepTheList
<1>3. CASE F!PickNext BY <1>3, PicksKeepTheList
<1>4. CASE F!FoldNext
  <2>1. CASE F!ToggleFolder \/ F!ExpandVisible \/ F!CollapseVisible
    <3>1. viewPresets' = viewPresets
      BY <2>1 DEF F!ToggleFolder, F!ExpandVisible, F!CollapseVisible, F!Fold, F!Click
    <3>2. QED BY <3>1
  <2>2. CASE F!Reopen
    <3>1. viewPresets' = F!ReadViews(viewPresets) BY <2>2 DEF F!Reopen
    <3>2. QED BY <3>1, ReadIsCollected DEF IsCollected, Numbered
  <2>3. QED BY <1>4, <2>1, <2>2 DEF F!FoldNext
<1>5. CASE UNCHANGED F!vars
  <2>1. viewPresets' = viewPresets BY <1>5 DEF F!vars
  <2>2. QED BY <2>1
<1>6. QED BY <1>1, <1>2, <1>3, <1>4, <1>5 DEF F!Next
----------------------------------------------------------------------------
(* What an operation on the collection was not about stays as it was *)

LEMMA WithoutOfPart ==
    ASSUME NEW l, IsList(l), NEW K, K \in SUBSET DOMAIN l, NEW names, NEW J, J = {i \in K : l[i].name \notin names}
    PROVE  P!Without(P!At(l, K), names) = P!At(l, J)
<1> DEFINE t == P!At(l, K)
<1>1. /\ K \in SUBSET Int /\ Rising(Kept(K), K) /\ DOMAIN t = 1..Cardinality(K)
      /\ \A n \in 1..Cardinality(K) : t[n] = l[Kept(K)[n]]
  BY KeptAreRising
<1>2. \A M \in SUBSET DOMAIN t : P!At(t, M) = P!At(l, {Kept(K)[n] : n \in M})
  BY PartOfPart
<1> HIDE DEF t
<1>3. \A n \in DOMAIN t : Kept(K)[n] \in K /\ t[n] = l[Kept(K)[n]] BY <1>1 DEF Rising
<1>4. \A i \in K : \E n \in DOMAIN t : Kept(K)[n] = i BY <1>1 DEF Rising
<1> DEFINE M == {n \in DOMAIN t : t[n].name \notin names}
<1>5. {Kept(K)[n] : n \in M} = J BY <1>3, <1>4
<1>6. M \in SUBSET DOMAIN t OBVIOUS
<1>7. P!Without(t, names) = P!At(t, M) BY DEF P!Without
<1> HIDE DEF M
<1>8. QED BY <1>2, <1>5, <1>6, <1>7 DEF t

\* The places of the views of a folder that an operation was not about.
OthersOf(l, group, names) == {i \in DOMAIN l : l[i].group = group /\ l[i].name \notin names}

LEMMA OthersAreAPart ==
    ASSUME NEW l, Sorted(l), NEW group, NEW names
    PROVE  F!Without(F!Folder(l, group), names) = P!At(l, OthersOf(l, group, names))
<1> DEFINE G == {i \in DOMAIN l : l[i].group = group}
<1>1. F!Folder(l, group) = P!At(l, G) BY FolderOfSorted
<1>2. G \in SUBSET DOMAIN l /\ IsList(l) BY DEF Sorted, IsViews
<1>3. OthersOf(l, group, names) = {i \in G : l[i].name \notin names} BY DEF OthersOf
<1> HIDE DEF G
<1>4. P!Without(P!At(l, G), names) = P!At(l, OthersOf(l, group, names)) BY <1>2, <1>3, WithoutOfPart
<1>5. QED BY <1>1, <1>4, SameParts

\* A folder says the same of them before and after, when their places follow each other.
SaysTheSame(b, a, group, names) ==
    F!Told(F!Without(F!Folder(b, group), names)) = F!Told(F!Without(F!Folder(a, group), names))

LEMMA OthersFollow ==
    ASSUME NEW b, Sorted(b), NEW a, Sorted(a), NEW group, NEW names, NEW f,
           Follows(f, OthersOf(b, group, names), OthersOf(a, group, names)),
           \A i \in OthersOf(b, group, names) : b[i].name = a[f[i]].name /\ b[i].filters = a[f[i]].filters
    PROVE  SaysTheSame(b, a, group, names)
<1> DEFINE K == OthersOf(b, group, names)
           J == OthersOf(a, group, names)
<1>1. K \in SUBSET DOMAIN b /\ J \in SUBSET DOMAIN a BY DEF OthersOf
<1>2. IsList(b) /\ IsList(a) BY DEF Sorted, IsViews
<1>3. /\ F!Without(F!Folder(b, group), names) = P!At(b, K)
      /\ F!Without(F!Folder(a, group), names) = P!At(a, J)
  BY OthersAreAPart
<1> HIDE DEF K, J
<1>4. Follows(f, K, J) BY DEF K, J
<1>5. \A i \in K : b[i].name = a[f[i]].name /\ b[i].filters = a[f[i]].filters BY DEF K
<1>6. F!Told(P!At(b, K)) = F!Told(P!At(a, J)) BY <1>1, <1>2, <1>4, <1>5, ToldParts
<1>7. QED BY <1>3, <1>6 DEF SaysTheSame

\* The places of a list that is sorted anew, by their key.
KeyOf(t) == [i \in DOMAIN t |-> P!OrderOf(t, i)]

\* Places h of the new list before it is numbered, in the order of their keys.
Arranged(h, K, t) ==
    /\ \A i \in K : h[i] \in DOMAIN t
    /\ \A i, j \in K : i < j => Sooner(KeyOf(t), h[i], h[j])

LEMMA OthersStay ==
    ASSUME NEW b, Sorted(b), NEW t, IsViews(t), NEW group, NEW names, NEW h,
           Arranged(h, OthersOf(b, group, names), t),
           \A i \in OthersOf(b, group, names) : SameButOrder(b[i], t[h[i]]),
           \A m \in OthersOf(t, group, names) : \E i \in OthersOf(b, group, names) : h[i] = m
    PROVE  SaysTheSame(b, P!NormalizeOrders(t), group, names)
<1> DEFINE a == P!NormalizeOrders(t)
           key == KeyOf(t)
           K == OthersOf(b, group, names)
           J == OthersOf(a, group, names)
<1>1. IsList(a) /\ Len(a) = Len(t) /\ DOMAIN a = DOMAIN t
  BY NormalizedViews
<1>2. PICK p : IsOrder(p, DOMAIN t, key) /\ Renumbered(a, t, p)
  BY NormalizedViews DEF KeyOf
<1>3. Sorted(a) BY NormalizedIsNumbered, NumberedIsSorted
<1>4. /\ DOMAIN t = 1..Len(t) /\ Len(t) \in Nat /\ DOMAIN t \in SUBSET Int
      /\ Cardinality(DOMAIN t) = Len(t)
  BY ListLength, UpTo DEF IsViews
<1>5. \A i \in DOMAIN t : key[i] \in Int
  <2> TAKE i \in DOMAIN t
  <2>1. IsView(t[i]) BY DEF IsViews
  <2>2. QED BY <1>4, <2>1 DEF KeyOf, P!OrderOf, IsView
<1> HIDE DEF a, key
<1> DEFINE f == [i \in K |-> CHOOSE n \in DOMAIN t : p[n] = h[i]]
<1>6. \A i \in K : f[i] \in DOMAIN t /\ p[f[i]] = h[i]
  <2> TAKE i \in K
  <2>1. h[i] \in DOMAIN t BY DEF Arranged
  <2>2. \E n \in DOMAIN t : p[n] = h[i] BY <1>2, <1>4, <2>1 DEF IsOrder
  <2>3. f[i] = CHOOSE n \in DOMAIN t : p[n] = h[i] OBVIOUS
  <2>4. QED BY <2>2, <2>3
<1> HIDE DEF f
<1>7. \A m, n \in DOMAIN t : m < n => Sooner(key, p[m], p[n]) BY <1>2, <1>4 DEF IsOrder
<1>8. \A n \in DOMAIN t : p[n] \in DOMAIN t /\ SameButOrder(a[n], t[p[n]])
  BY <1>2, <1>4 DEF IsOrder, Renumbered, SameButOrder
<1>9. \A i, j \in K : i < j => f[i] < f[j]
  <2> SUFFICES ASSUME NEW i \in K, NEW j \in K, i < j PROVE f[i] < f[j]
    OBVIOUS
  <2>1. Sooner(key, h[i], h[j]) BY DEF Arranged, key
  <2>2. Sooner(key, p[f[i]], p[f[j]]) BY <1>6, <2>1
  <2>3. f[i] \in Int /\ f[j] \in Int /\ p[f[i]] \in Int /\ p[f[j]] \in Int BY <1>4, <1>6, <1>8
  <2>4. key[p[f[i]]] \in Int /\ key[p[f[j]]] \in Int BY <1>5, <1>6, <1>8
  <2>5. ASSUME f[j] < f[i] PROVE FALSE
    <3>1. Sooner(key, p[f[j]], p[f[i]]) BY <1>6, <1>7, <2>5
    <3>2. QED BY <2>2, <2>3, <2>4, <3>1 DEF Sooner
  <2>6. ASSUME f[j] = f[i] PROVE FALSE BY <2>2, <2>3, <2>4, <2>6 DEF Sooner
  <2>7. QED BY <2>3, <2>5, <2>6
<1>10. \A i \in K : f[i] \in J /\ b[i].name = a[f[i]].name /\ b[i].filters = a[f[i]].filters
  <2> TAKE i \in K
  <2>1. SameButOrder(b[i], t[h[i]]) /\ SameButOrder(a[f[i]], t[h[i]]) BY <1>6, <1>8
  <2>2. b[i].group = group /\ b[i].name \notin names BY DEF OthersOf
  <2>3. QED BY <1>1, <1>6, <2>1, <2>2 DEF OthersOf, SameButOrder
<1>11. ASSUME NEW n \in J PROVE \E i \in K : f[i] = n
  <2>1. n \in DOMAIN t /\ a[n].group = group /\ a[n].name \notin names BY <1>1 DEF OthersOf
  <2>2. p[n] \in OthersOf(t, group, names) BY <1>8, <2>1 DEF OthersOf, SameButOrder
  <2>3. PICK i \in K : h[i] = p[n] BY <2>2
  <2>4. p[f[i]] = p[n] /\ f[i] \in DOMAIN t BY <1>6, <2>3
  <2>5. f[i] = n
    <3>1. f[i] \in Int /\ n \in Int /\ p[n] \in Int /\ key[p[n]] \in Int BY <1>4, <1>5, <1>8, <2>1, <2>4
    <3>2. ~(f[i] < n) BY <1>7, <2>1, <2>4, <3>1 DEF Sooner
    <3>3. ~(n < f[i]) BY <1>7, <2>1, <2>4, <3>1 DEF Sooner
    <3>4. QED BY <3>1, <3>2, <3>3
  <2>6. QED BY <2>5
<1>12. Follows(f, K, J) BY <1>9, <1>10, <1>11 DEF Follows
<1>13. SaysTheSame(b, a, group, names) BY <1>3, <1>10, <1>12, OthersFollow
<1>14. QED BY <1>13 DEF a

\* Where a place of a list is among those that are kept.
PlaceIn(K) == [i \in K |-> CHOOSE m \in 1..Cardinality(K) : Kept(K)[m] = i]

LEMMA PlaceOfKept ==
    ASSUME NEW s, IsList(s), NEW K \in SUBSET DOMAIN s
    PROVE  /\ \A i \in K : /\ PlaceIn(K)[i] \in DOMAIN P!At(s, K) /\ Kept(K)[PlaceIn(K)[i]] = i
                            /\ P!At(s, K)[PlaceIn(K)[i]] = s[i]
           /\ \A i, j \in K : i < j => PlaceIn(K)[i] < PlaceIn(K)[j]
           /\ \A m \in DOMAIN P!At(s, K) : Kept(K)[m] \in K /\ PlaceIn(K)[Kept(K)[m]] = m
<1> DEFINE t == P!At(s, K)
           h == PlaceIn(K)
<1>1. /\ K \in SUBSET Int /\ Cardinality(K) \in Nat /\ Rising(Kept(K), K) /\ DOMAIN t = 1..Cardinality(K)
      /\ \A n \in 1..Cardinality(K) : t[n] = s[Kept(K)[n]]
  BY KeptAreRising
<1>2. \A i \in K : h[i] \in 1..Cardinality(K) /\ Kept(K)[h[i]] = i
  <2> TAKE i \in K
  <2>1. \E m \in 1..Cardinality(K) : Kept(K)[m] = i BY <1>1 DEF Rising
  <2>2. h[i] = CHOOSE m \in 1..Cardinality(K) : Kept(K)[m] = i BY DEF PlaceIn
  <2> HIDE DEF h
  <2>3. QED BY <2>1, <2>2
<1> HIDE DEF t, h
<1>3. \A i \in K : t[h[i]] = s[i] BY <1>1, <1>2
<1>4. \A m, n \in 1..Cardinality(K) : m < n => Kept(K)[m] < Kept(K)[n] BY <1>1 DEF Rising
<1>5. \A n \in 1..Cardinality(K) : Kept(K)[n] \in K /\ Kept(K)[n] \in Int BY <1>1 DEF Rising
<1>6. \A i, j \in K : i < j => h[i] < h[j]
  <2> SUFFICES ASSUME NEW i \in K, NEW j \in K, i < j PROVE h[i] < h[j]
    OBVIOUS
  <2>1. h[i] \in Int /\ h[j] \in Int /\ i \in Int /\ j \in Int BY <1>1, <1>2
  <2>2. ~(h[j] < h[i]) BY <1>2, <1>4, <2>1
  <2>3. h[i] # h[j] BY <1>2, <2>1
  <2>4. QED BY <2>1, <2>2, <2>3
<1>7. \A m \in 1..Cardinality(K) : h[Kept(K)[m]] = m
  <2> TAKE m \in 1..Cardinality(K)
  <2> DEFINE n == h[Kept(K)[m]]
  <2>1. n \in 1..Cardinality(K) /\ Kept(K)[n] = Kept(K)[m] BY <1>2, <1>5
  <2> HIDE DEF n
  <2>2. m \in Int /\ n \in Int /\ Kept(K)[m] \in Int BY <1>1, <1>5, <2>1
  <2>3. ~(m < n) /\ ~(n < m) BY <1>4, <2>1, <2>2
  <2>4. QED BY <2>2, <2>3 DEF n
<1>8. QED BY <1>1, <1>2, <1>3, <1>5, <1>6, <1>7 DEF t, h

\* A list in which the other views keep their places, and stay in order.
LEMMA OthersInOrder ==
    ASSUME NEW b, Numbered(b), NEW t, IsViews(t), DOMAIN t = DOMAIN b, NEW names,
           \A i \in DOMAIN b : t[i].name = b[i].name,
           \A i \in DOMAIN b : b[i].name \notin names => SameButOrder(b[i], t[i]), NEW group,
           \A i, j \in OthersOf(b, group, names) : i < j => Sooner(KeyOf(t), i, j)
    PROVE  SaysTheSame(b, P!NormalizeOrders(t), group, names)
<1> DEFINE K == OthersOf(b, group, names)
           h == [i \in K |-> i]
<1>1. Sorted(b) BY NumberedIsSorted
<1>2. K \in SUBSET DOMAIN b /\ \A i \in K : b[i].name \notin names BY DEF OthersOf
<1>3. \A i \in K : h[i] = i /\ SameButOrder(b[i], t[i]) BY <1>2
<1>4. OthersOf(t, group, names) \subseteq K BY DEF OthersOf, SameButOrder
<1>5. \A i, j \in K : i < j => Sooner(KeyOf(t), i, j) OBVIOUS
<1> HIDE DEF K, h
<1>6. Arranged(h, K, t) BY <1>2, <1>3, <1>5 DEF Arranged
<1>7. \A i \in K : SameButOrder(b[i], t[h[i]]) BY <1>3
<1>8. \A m \in OthersOf(t, group, names) : \E i \in K : h[i] = m BY <1>3, <1>4
<1>9. QED BY <1>1, <1>6, <1>7, <1>8, OthersStay DEF K

\* The other views keep their orders, too.
LEMMA OthersInPlace ==
    ASSUME NEW b, Numbered(b), NEW t, IsViews(t), DOMAIN t = DOMAIN b, NEW names,
           \A i \in DOMAIN b : t[i].name = b[i].name,
           \A i \in DOMAIN b : b[i].name \notin names => t[i] = b[i], NEW group
    PROVE  SaysTheSame(b, P!NormalizeOrders(t), group, names)
<1>1. DOMAIN b \in SUBSET Int /\ \A i \in DOMAIN b : b[i].order = i /\ i > 0
  BY ListLength DEF Numbered, IsViews
<1>2. \A i \in DOMAIN b : b[i].name \notin names => KeyOf(t)[i] = i BY <1>1 DEF KeyOf, P!OrderOf
<1>3. \A i, j \in OthersOf(b, group, names) : i < j => Sooner(KeyOf(t), i, j)
  BY <1>2 DEF OthersOf, Sooner
<1>4. \A i \in DOMAIN b : b[i].name \notin names => SameButOrder(b[i], t[i]) BY DEF SameButOrder
<1>5. QED BY <1>3, <1>4, OthersInOrder

LEMMA OthersOfDeleted ==
    ASSUME NEW b, Numbered(b), NEW names, NEW group
    PROVE  SaysTheSame(b, P!NormalizeOrders(P!Without(b, names)), group, names)
<1> DEFINE K == OthersOf(b, group, names)
           W == {i \in DOMAIN b : b[i].name \notin names}
           t == P!At(b, W)
           h == PlaceIn(W)
<1>1. Sorted(b) /\ IsViews(b) /\ IsList(b) BY NumberedIsSorted DEF Numbered, IsViews
<1>2. P!Without(b, names) = t BY DEF P!Without
<1>3. W \in SUBSET DOMAIN b /\ K \in SUBSET W BY DEF OthersOf
<1>4. DOMAIN b \in SUBSET Int /\ \A i \in DOMAIN b : b[i].order = i /\ i > 0
  BY ListLength DEF Numbered, IsViews
<1> HIDE DEF W, t
<1>5. IsViews(t) BY <1>1, <1>3, PartIsSorted DEF t, Sorted
<1>6. /\ \A i \in W : h[i] \in DOMAIN t /\ t[h[i]] = b[i]
      /\ \A m \in DOMAIN t : Kept(W)[m] \in W /\ h[Kept(W)[m]] = m
  BY <1>1, <1>3, PlaceOfKept DEF t
<1> HIDE DEF h, K
<1>7. \A i \in W : KeyOf(t)[h[i]] = i /\ i \in Int BY <1>3, <1>4, <1>6 DEF KeyOf, P!OrderOf
<1>8. \A i, j \in K : i < j => Sooner(KeyOf(t), h[i], h[j]) BY <1>3, <1>7 DEF Sooner
<1>9. Arranged(h, K, t) BY <1>3, <1>6, <1>8 DEF Arranged
<1>10. \A i \in K : SameButOrder(b[i], t[h[i]]) BY <1>3, <1>6 DEF SameButOrder
<1>11. \A m \in OthersOf(t, group, names) : \E i \in K : h[i] = m
  <2> TAKE m \in OthersOf(t, group, names)
  <2>1. m \in DOMAIN t /\ t[m].group = group /\ t[m].name \notin names BY DEF OthersOf
  <2> DEFINE i == Kept(W)[m]
  <2>2. i \in W /\ h[i] = m /\ t[m] = b[i] BY <1>6, <2>1
  <2> HIDE DEF i
  <2>3. i \in K BY <1>3, <2>1, <2>2 DEF K, OthersOf
  <2>4. QED BY <2>2, <2>3
<1>12. SaysTheSame(b, P!NormalizeOrders(t), group, names)
  BY <1>1, <1>5, <1>9, <1>10, <1>11, OthersStay DEF K
<1>13. QED BY <1>2, <1>12

LEMMA OthersOfRenamed ==
    ASSUME NEW b, Numbered(b), NEW n, NEW new, new \notin P!Names(b), NEW a, a = P!Rename(b, n, new),
           Numbered(a), NEW group
    PROVE  SaysTheSame(b, a, group, {n, new})
<1> DEFINE K == OthersOf(b, group, {n, new})
           J == OthersOf(a, group, {n, new})
           f == [i \in K |-> i]
<1>1. Sorted(b) /\ Sorted(a) /\ IsViews(b) BY NumberedIsSorted DEF Numbered
<1>2. a = [i \in DOMAIN b |-> IF b[i].name = n THEN [b[i] EXCEPT !.name = new] ELSE b[i]]
  BY DEF P!Rename
<1>3. \A i \in DOMAIN b : b[i].name # n => a[i] = b[i] BY <1>2
<1>4. \A i \in DOMAIN b : b[i].name = n => a[i].name = new
  <2> TAKE i \in DOMAIN b
  <2>1. IsView(b[i]) BY <1>1 DEF IsViews
  <2>2. b[i].name = n => a[i] = [b[i] EXCEPT !.name = new] BY <1>2
  <2>3. QED BY <2>1, <2>2 DEF IsView
<1>5. DOMAIN a = DOMAIN b BY <1>2
<1>6. J = K BY <1>3, <1>4, <1>5 DEF OthersOf
<1>7. \A i \in K : f[i] = i /\ a[i] = b[i] BY <1>3 DEF OthersOf
<1> HIDE DEF K, J, f
<1>8. Follows(f, K, J) BY <1>6, <1>7 DEF Follows
<1>9. \A i \in K : b[i].name = a[f[i]].name /\ b[i].filters = a[f[i]].filters BY <1>7
<1>10. QED BY <1>1, <1>8, <1>9, OthersFollow DEF K, J

LEMMA OthersOfGrouped ==
    ASSUME NEW b, Numbered(b), OncePerName(b), NEW n, NEW to, NEW group
    PROVE  SaysTheSame(b, P!UpdateGroup(b, n, to), group, {n}) /\ P!Names(P!UpdateGroup(b, n, to)) = P!Names(b)
<1> DEFINE t == NewGroup(b, n, to)
<1>1. P!UpdateGroup(b, n, to) = P!NormalizeOrders(t) BY DEF P!UpdateGroup, NewGroup
<1>2. IsUpTo(b, Len(b))
  <2>1. IsViews(b) BY DEF Numbered
  <2>2. QED BY <2>1, ListLength DEF IsViews, IsUpTo
<1>3. IsUpTo(t, Len(b)) /\ DOMAIN t = DOMAIN b /\ \A i \in DOMAIN b : t[i].name = b[i].name
  BY <1>2, NewGroupIsUpTo
<1>4. \A i \in DOMAIN b : b[i].name \notin {n} => t[i] = b[i] BY DEF NewGroup
<1> HIDE DEF t
<1>5. IsViews(t) BY <1>3 DEF IsUpTo
<1>6. SaysTheSame(b, P!NormalizeOrders(t), group, {n}) BY <1>3, <1>4, <1>5, OthersInPlace
<1>7. P!Names(P!NormalizeOrders(t)) = P!Names(b)
  <2>1. P!Names(t) = P!Names(b) BY <1>3 DEF P!Names
  <2>2. QED BY <1>5, <2>1, NormalizeKeepsNames
<1>8. QED BY <1>1, <1>6, <1>7

LEMMA NewOrdersStay ==
    ASSUME NEW b, Numbered(b), OncePerName(b), NEW orders, \A n \in DOMAIN orders : orders[n] \in Int, NEW group
    PROVE  /\ SaysTheSame(b, P!Reordered(b, orders), group, DOMAIN orders)
           /\ P!Names(P!Reordered(b, orders)) = P!Names(b)
           /\ \A names : (\A i, j \in OthersOf(b, group, names) : i < j => Sooner(KeyOf(NewOrders(b, orders)), i, j))
                  => SaysTheSame(b, P!Reordered(b, orders), group, names)
<1> DEFINE t == NewOrders(b, orders)
<1>1. P!Reordered(b, orders) = P!NormalizeOrders(t) BY DEF P!Reordered, NewOrders
<1>2. IsUpTo(b, Len(b))
  <2>1. IsViews(b) BY DEF Numbered
  <2>2. QED BY <2>1, ListLength DEF IsViews, IsUpTo
<1>3. /\ IsUpTo(t, Len(b)) /\ DOMAIN t = DOMAIN b
      /\ \A i \in DOMAIN b : t[i].name = b[i].name /\ t[i].group = b[i].group /\ t[i].filters = b[i].filters
  BY <1>2, NewOrdersAreUpTo
<1>4. \A i \in DOMAIN b : b[i].name \notin DOMAIN orders => t[i] = b[i] BY DEF NewOrders
<1>5. \A i \in DOMAIN b : SameButOrder(b[i], t[i]) BY <1>3 DEF SameButOrder
<1> HIDE DEF t
<1>6. IsViews(t) BY <1>3 DEF IsUpTo
<1>7. SaysTheSame(b, P!NormalizeOrders(t), group, DOMAIN orders) BY <1>3, <1>4, <1>6, OthersInPlace
<1>8. ASSUME NEW names, \A i, j \in OthersOf(b, group, names) : i < j => Sooner(KeyOf(t), i, j)
      PROVE  SaysTheSame(b, P!NormalizeOrders(t), group, names)
  BY <1>3, <1>5, <1>6, <1>8, OthersInOrder
<1>9. P!Names(P!NormalizeOrders(t)) = P!Names(b)
  <2>1. P!Names(t) = P!Names(b) BY <1>3 DEF P!Names
  <2>2. QED BY <1>6, <2>1, NormalizeKeepsNames
<1>10. QED BY <1>1, <1>7, <1>8, <1>9 DEF t

LEMMA OthersOfExchanged ==
    ASSUME NEW b, Numbered(b), OncePerName(b), NEW n \in P!Names(b), NEW m \in P!Names(b), NEW group
    PROVE  SaysTheSame(b, P!Exchanged(b, n, m), group, {n, m}) /\ P!Names(P!Exchanged(b, n, m)) = P!Names(b)
<1> DEFINE orders == [x \in {n, m} |-> P!Named(b, IF x = n THEN m ELSE n).order]
<1>1. IsView(P!Named(b, n)) /\ IsView(P!Named(b, m)) BY NamedView DEF Numbered
<1>2. \A x \in DOMAIN orders : orders[x] \in Int BY <1>1 DEF IsView
<1>3. P!Exchanged(b, n, m) = P!Reordered(b, orders) BY DEF P!Exchanged
<1>4. DOMAIN orders = {n, m} OBVIOUS
<1> HIDE DEF orders
<1>5. QED BY <1>2, <1>3, <1>4, NewOrdersStay

\* A list with a view put in before one of its places.
PutIn(s, place, v) == SubSeq(s, 1, place - 1) \o <<v>> \o SubSeq(s, place, Len(s))

HasPutIn(t, s, place, v) ==
    /\ IsList(t) /\ DOMAIN t = 1..(Len(s) + 1) /\ t[place] = v
    /\ \A k \in 1..(place - 1) : t[k] = s[k]
    /\ \A k \in place..Len(s) : t[k + 1] = s[k]

LEMMA JoinedSequences ==
    ASSUME NEW S, NEW x \in Seq(S), NEW y \in Seq(S)
    PROVE  /\ x \o y \in Seq(S) /\ Len(x \o y) = Len(x) + Len(y)
           /\ \A k \in 1..Len(x) : (x \o y)[k] = x[k]
           /\ \A k \in 1..Len(y) : (x \o y)[Len(x) + k] = y[k]
<1>1. x \o y \in Seq(S) OBVIOUS
<1>2. Len(x \o y) = Len(x) + Len(y) OBVIOUS
<1>3. \A k \in 1..Len(x) : (x \o y)[k] = x[k] OBVIOUS
<1>4. \A k \in 1..Len(y) : (x \o y)[Len(x) + k] = y[k] OBVIOUS
<1>5. QED BY <1>1, <1>2, <1>3, <1>4

LEMMA PutInPlaces ==
    ASSUME NEW s, IsList(s), NEW place \in DOMAIN s, NEW v
    PROVE  HasPutIn(PutIn(s, place, v), s, place, v)
<1> DEFINE T == {s[i] : i \in 1..Len(s)} \cup {v}
           A == SubSeq(s, 1, place - 1)
           C == SubSeq(s, place, Len(s))
           u == A \o <<v>>
           w == u \o C
<1>1. Len(s) \in Nat /\ DOMAIN s = 1..Len(s) BY ListLength
<1>2. s \in Seq(T)
  <2>1. s \in Seq({s[i] : i \in 1..Len(s)}) BY ListsAreSequences
  <2>2. QED BY <1>1, <2>1
<1>3. v \in T OBVIOUS
<1> HIDE DEF T
<1>4. place \in 1..Len(s) BY <1>1
<1>5. A \in Seq(T) /\ Len(A) = place - 1 /\ \A k \in 1..(place - 1) : A[k] = s[k]
  BY <1>1, <1>2, <1>4
<1>6. C \in Seq(T) /\ Len(C) = Len(s) - place + 1 /\ \A k \in 1..(Len(s) - place + 1) : C[k] = s[k + place - 1]
  BY <1>1, <1>2, <1>4
<1> HIDE DEF A, C
<1>7. /\ u \in Seq(T) /\ Len(u) = place /\ u[place] = v
      /\ \A k \in 1..(place - 1) : u[k] = s[k]
  BY <1>3, <1>4, <1>5
<1> HIDE DEF u
<1>8. /\ w \in Seq(T) /\ Len(w) = Len(s) + 1
      /\ \A k \in 1..place : w[k] = u[k]
      /\ \A k \in 1..(Len(s) - place + 1) : w[place + k] = C[k]
  <2>1. u \in Seq(T) /\ C \in Seq(T) BY <1>6, <1>7
  <2>2. /\ w \in Seq(T) /\ Len(w) = Len(u) + Len(C)
        /\ \A k \in 1..Len(u) : w[k] = u[k]
        /\ \A k \in 1..Len(C) : w[Len(u) + k] = C[k]
    BY <2>1, JoinedSequences
  <2> HIDE DEF w
  <2>3. Len(w) = Len(s) + 1 BY <1>1, <1>4, <1>6, <1>7, <2>2
  <2>4. QED BY <1>6, <1>7, <2>2, <2>3
<1> HIDE DEF w
<1>9. PutIn(s, place, v) = w BY DEF PutIn, A, C, u, w
<1>10. IsList(w) /\ DOMAIN w = 1..(Len(s) + 1) BY <1>8, SequencesAreLists
<1>11. w[place] = v /\ \A k \in 1..(place - 1) : w[k] = s[k] BY <1>1, <1>4, <1>7, <1>8
<1>12. \A k \in place..Len(s) : w[k + 1] = s[k]
  <2> TAKE k \in place..Len(s)
  <2>1. k - place + 1 \in 1..(Len(s) - place + 1) /\ place + (k - place + 1) = k + 1
        /\ (k - place + 1) + place - 1 = k
    BY <1>1, <1>4
  <2>2. w[place + (k - place + 1)] = C[k - place + 1] BY <1>8, <2>1
  <2>3. C[k - place + 1] = s[(k - place + 1) + place - 1] BY <1>6, <2>1
  <2>4. QED BY <2>1, <2>2, <2>3
<1>13. HasPutIn(w, s, place, v) BY <1>10, <1>11, <1>12 DEF HasPutIn
<1>14. QED BY <1>9, <1>13

\* The place of each name in a list.
PlaceOf(s) == [n \in P!Names(s) |-> CHOOSE i \in DOMAIN s : s[i].name = n]

\* Numbers for a name and those of a list, which rise along the list.
CountsUp(orders, peers, name) ==
    /\ DOMAIN orders = P!Names(peers) \cup {name}
    /\ \A n \in DOMAIN orders : orders[n] \in Int /\ orders[n] > 0
    /\ \A k, m \in DOMAIN peers : k < m => orders[peers[k].name] < orders[peers[m].name]

\* The others are counted in their order, whichever place the new one has.
LEMMA CountedInOrder ==
    ASSUME NEW peers, IsViews(peers), OncePerName(peers), NEW place \in DOMAIN peers,
           NEW v, v.name \notin P!Names(peers), NEW s, s = PutIn(peers, place, v)
    PROVE  CountsUp(PlaceOf(s), peers, v.name)
<1> DEFINE orders == PlaceOf(s)
<1>1. DOMAIN peers = 1..Len(peers) /\ Len(peers) \in Nat /\ IsList(peers) BY ListLength DEF IsViews
<1>2. /\ IsList(s) /\ DOMAIN s = 1..(Len(peers) + 1) /\ s[place] = v
      /\ \A k \in 1..(place - 1) : s[k] = peers[k]
      /\ \A k \in place..Len(peers) : s[k + 1] = peers[k]
  <2>1. HasPutIn(PutIn(peers, place, v), peers, place, v) BY <1>1, PutInPlaces
  <2>2. HasPutIn(s, peers, place, v) BY <2>1
  <2>3. QED BY <2>2 DEF HasPutIn
<1>3. place \in 1..Len(peers) BY <1>1
<1>4. ASSUME NEW i \in DOMAIN s
      PROVE  \/ i = place /\ s[i] = v
             \/ i < place /\ i \in DOMAIN peers /\ s[i] = peers[i]
             \/ i > place /\ i - 1 \in DOMAIN peers /\ s[i] = peers[i - 1]
  <2>1. i \in 1..(Len(peers) + 1) BY <1>2
  <2>2. CASE i < place BY <1>1, <1>2, <1>3, <2>1, <2>2
  <2>3. CASE i > place
    <3>1. i - 1 \in place..Len(peers) /\ (i - 1) + 1 = i BY <1>1, <1>3, <2>1, <2>3
    <3>2. s[(i - 1) + 1] = peers[i - 1] BY <1>2, <3>1
    <3>3. QED BY <1>1, <1>3, <2>3, <3>1, <3>2
  <2>4. CASE i = place BY <1>2, <2>4
  <2>5. QED BY <1>3, <2>1, <2>2, <2>3, <2>4
<1> DEFINE Shifted(k) == IF k < place THEN k ELSE k + 1
<1>5. ASSUME NEW k \in DOMAIN peers
      PROVE  Shifted(k) \in DOMAIN s /\ s[Shifted(k)] = peers[k]
  <2>1. k \in 1..Len(peers) BY <1>1
  <2>2. CASE k < place BY <1>1, <1>2, <1>3, <2>1, <2>2
  <2>3. CASE ~(k < place)
    <3>1. k \in place..Len(peers) /\ k + 1 \in 1..(Len(peers) + 1) BY <1>1, <1>3, <2>1, <2>3
    <3>2. s[k + 1] = peers[k] BY <1>2, <3>1
    <3>3. QED BY <1>2, <2>3, <3>1, <3>2
  <2>4. QED BY <2>2, <2>3
<1>6. P!Names(s) = P!Names(peers) \cup {v.name}
  <2>1. P!Names(s) \subseteq P!Names(peers) \cup {v.name}
    <3> SUFFICES ASSUME NEW i \in DOMAIN s PROVE s[i].name \in P!Names(peers) \cup {v.name}
      BY DEF P!Names
    <3>1. QED BY <1>4 DEF P!Names
  <2>2. P!Names(peers) \subseteq P!Names(s)
    <3> SUFFICES ASSUME NEW k \in DOMAIN peers PROVE peers[k].name \in P!Names(s)
      BY DEF P!Names
    <3> HIDE DEF Shifted
    <3>1. QED BY <1>5 DEF P!Names
  <2>3. v.name \in P!Names(s)
    <3>1. place \in DOMAIN s BY <1>1, <1>2, <1>3
    <3>2. QED BY <1>2, <3>1 DEF P!Names
  <2>4. QED BY <2>1, <2>2, <2>3
<1>7. ASSUME NEW n \in P!Names(s) PROVE orders[n] \in DOMAIN s /\ s[orders[n]].name = n
  <2>1. \E i \in DOMAIN s : s[i].name = n BY DEF P!Names
  <2>2. orders[n] = CHOOSE i \in DOMAIN s : s[i].name = n BY DEF PlaceOf
  <2>3. QED BY <2>1, <2>2
<1>8. DOMAIN orders = P!Names(s) BY DEF PlaceOf
<1> HIDE DEF orders
<1>9. ASSUME NEW k \in DOMAIN peers PROVE orders[peers[k].name] = Shifted(k)
  <2> DEFINE i == orders[peers[k].name]
  <2>1. peers[k].name \in P!Names(s) /\ peers[k].name \in P!Names(peers) BY <1>6 DEF P!Names
  <2>2. i \in DOMAIN s /\ s[i].name = peers[k].name BY <1>7, <2>1
  <2> HIDE DEF i
  <2>3. k \in Int /\ i \in Int BY <1>1, <1>2, <2>2
  <2>4. \A m \in DOMAIN peers : peers[m].name = peers[k].name => m = k BY DEF OncePerName
  <2>5. i # place BY <1>2, <2>1, <2>2
  <2>6. CASE i < place
    <3>1. i = k BY <1>3, <1>4, <2>2, <2>3, <2>4, <2>6
    <3>2. QED BY <2>6, <3>1 DEF i
  <2>7. CASE i > place
    <3>1. i - 1 = k BY <1>3, <1>4, <2>2, <2>3, <2>4, <2>7
    <3>2. i = k + 1 /\ ~(k < place) BY <1>3, <2>3, <2>7, <3>1
    <3>3. QED BY <3>2 DEF i
  <2>8. QED BY <1>3, <2>3, <2>5, <2>6, <2>7
<1>10. \A n \in DOMAIN orders : orders[n] \in Int /\ orders[n] > 0 BY <1>1, <1>2, <1>7, <1>8
<1>11. \A k, m \in DOMAIN peers : k < m => orders[peers[k].name] < orders[peers[m].name]
  <2> SUFFICES ASSUME NEW k \in DOMAIN peers, NEW m \in DOMAIN peers, k < m PROVE Shifted(k) < Shifted(m)
    BY <1>9
  <2>1. QED BY <1>1, <1>3
<1>12. CountsUp(orders, peers, v.name) BY <1>6, <1>8, <1>10, <1>11 DEF CountsUp
<1>13. QED BY <1>12 DEF orders

LEMMA OthersOfDropped ==
    ASSUME NEW b, Numbered(b), OncePerName(b), NEW source \in P!Names(b), NEW target \in P!Names(b),
           source # target, P!Named(b, source).group = P!Named(b, target).group, NEW group
    PROVE  /\ SaysTheSame(b, P!Dropped(b, source, target), group, {source})
           /\ P!Names(P!Dropped(b, source, target)) = P!Names(b)
<1> DEFINE home == P!Named(b, target).group
           peers == P!Without(P!OrderViews(P!OfGroup(b, home)), {source})
           place == CHOOSE i \in DOMAIN peers : peers[i].name = target
           row == SubSeq(peers, 1, place - 1) \o <<P!Named(b, source)>> \o SubSeq(peers, place, Len(peers))
           orders == [n \in P!Names(row) |-> CHOOSE i \in DOMAIN row : row[i].name = n]
           J == OthersOf(b, home, {source})
           dragged == P!Named(b, source)
<1>1. P!Dropped(b, source, target) = P!Reordered(b, orders) BY DEF P!Dropped
<1>2. row = PutIn(peers, place, dragged) BY DEF PutIn
<1>3. Sorted(b) /\ IsViews(b) /\ IsList(b) BY NumberedIsSorted DEF Numbered, IsViews
<1>4. DOMAIN b \in SUBSET Int /\ \A i \in DOMAIN b : b[i].order = i /\ i > 0 /\ i \in Int
  BY <1>3, ListLength DEF Numbered
<1>5. peers = P!At(b, J)
  <2>1. F!Without(F!Folder(b, home), {source}) = P!At(b, J) BY <1>3, OthersAreAPart
  <2>2. F!Without(F!Folder(b, home), {source}) = peers BY SameParts, SameOrderViews DEF F!Folder
  <2>3. QED BY <2>1, <2>2
<1>6. J \in SUBSET DOMAIN b BY DEF OthersOf
<1>7. dragged.name = source BY <1>3, NamedView
<1>8. PICK i \in DOMAIN b : b[i] = P!Named(b, target) /\ b[i].name = target
  <2>1. \E i \in DOMAIN b : b[i].name = target BY DEF P!Names
  <2>2. QED BY <2>1 DEF P!Named
<1>9. i \in J BY <1>8 DEF OthersOf
<1> HIDE DEF peers, dragged, home
<1>10. /\ IsViews(peers) /\ OncePerName(peers) /\ P!Names(peers) = {b[k].name : k \in J}
  BY <1>3, <1>5, <1>6, PartIsShort
<1>11. source \notin P!Names(peers) BY <1>10 DEF OthersOf
<1>12. place \in DOMAIN peers
  <2>1. target \in P!Names(peers) BY <1>8, <1>9, <1>10
  <2>2. \E k \in DOMAIN peers : peers[k].name = target BY <2>1 DEF P!Names
  <2>3. QED BY <2>2
<1> HIDE DEF place, row
<1>13. /\ DOMAIN orders = P!Names(peers) \cup {source}
       /\ \A n \in DOMAIN orders : orders[n] \in Int /\ orders[n] > 0
       /\ \A k, m \in DOMAIN peers : k < m => orders[peers[k].name] < orders[peers[m].name]
  <2>1. dragged.name \notin P!Names(peers) BY <1>7, <1>11
  <2>2. orders = PlaceOf(row) BY DEF PlaceOf
  <2> HIDE DEF orders
  <2>3. CountsUp(PlaceOf(row), peers, dragged.name) BY <1>2, <1>10, <1>12, <2>1, CountedInOrder
  <2>4. QED BY <1>7, <2>2, <2>3 DEF CountsUp
<1> HIDE DEF orders
<1> DEFINE t == NewOrders(b, orders)
           K == OthersOf(b, group, {source})
<1>14. ASSUME NEW k \in DOMAIN b, b[k].name \in DOMAIN orders PROVE KeyOf(t)[k] = orders[b[k].name]
  <2>1. IsView(b[k]) BY <1>3 DEF IsViews
  <2>2. t[k] = [b[k] EXCEPT !.order = orders[b[k].name]] BY <1>14 DEF NewOrders
  <2>3. t[k].order = orders[b[k].name] BY <2>1, <2>2 DEF IsView
  <2>4. DOMAIN t = DOMAIN b BY DEF NewOrders
  <2> HIDE DEF t
  <2>5. QED BY <1>13, <1>14, <2>3, <2>4 DEF KeyOf, P!OrderOf
<1>15. ASSUME NEW k \in DOMAIN b, b[k].name \notin DOMAIN orders PROVE KeyOf(t)[k] = k
  <2>1. t[k] = b[k] /\ DOMAIN t = DOMAIN b BY <1>15 DEF NewOrders
  <2> HIDE DEF t
  <2>2. QED BY <1>4, <2>1 DEF KeyOf, P!OrderOf
<1>16. ASSUME NEW k \in K, NEW m \in K, k < m PROVE Sooner(KeyOf(t), k, m)
  <2>1. k \in DOMAIN b /\ m \in DOMAIN b BY DEF OthersOf
  <2>2. CASE group = home
    <3>1. k \in J /\ m \in J BY <2>2 DEF OthersOf
    <3>2. b[k].name \in DOMAIN orders /\ b[m].name \in DOMAIN orders BY <1>10, <1>13, <3>1
    <3>3. /\ PlaceIn(J)[k] \in DOMAIN peers /\ peers[PlaceIn(J)[k]] = b[k]
          /\ PlaceIn(J)[m] \in DOMAIN peers /\ peers[PlaceIn(J)[m]] = b[m]
          /\ PlaceIn(J)[k] < PlaceIn(J)[m]
      <4> HIDE DEF J
      <4>1. QED BY <1>3, <1>5, <1>6, <1>16, <3>1, PlaceOfKept
    <3>4. orders[b[k].name] < orders[b[m].name] BY <1>13, <3>3
    <3> HIDE DEF t
    <3>5. QED BY <1>14, <2>1, <3>2, <3>4 DEF Sooner
  <2>3. CASE group # home
    <3>1. ASSUME NEW x \in K PROVE b[x].name \notin DOMAIN orders
      <4>1. SUFFICES ASSUME NEW y \in J, b[y].name = b[x].name PROVE FALSE
        BY <1>10, <1>13 DEF OthersOf
      <4>2. y = x BY <4>1 DEF OncePerName, OthersOf
      <4>3. QED BY <2>3, <4>2 DEF OthersOf
    <3> HIDE DEF t, K
    <3>2. QED BY <1>15, <1>16, <2>1, <3>1 DEF Sooner
  <2>4. QED BY <2>2, <2>3
<1>17. \A k, m \in OthersOf(b, group, {source}) : k < m => Sooner(KeyOf(NewOrders(b, orders)), k, m)
  BY <1>16
<1>18. /\ SaysTheSame(b, P!Reordered(b, orders), group, {source})
       /\ P!Names(P!Reordered(b, orders)) = P!Names(b)
  BY <1>13, <1>17, NewOrdersStay
<1>19. QED BY <1>1, <1>18

\* A list that holds the same names, each with its old order, is sorted back.
LEMMA SortedBack ==
    ASSUME NEW b, Numbered(b), OncePerName(b), NEW t, IsViews(t), OncePerName(t), P!Names(t) = P!Names(b),
           \A m \in DOMAIN t : \A i \in DOMAIN b : t[m].name = b[i].name => t[m].order = i
    PROVE  /\ DOMAIN P!NormalizeOrders(t) = DOMAIN b /\ Len(P!NormalizeOrders(t)) = Len(b)
           /\ \A i \in DOMAIN b : P!NormalizeOrders(t)[i].name = b[i].name
           /\ \A i \in DOMAIN b : \A m \in DOMAIN t :
                  t[m].name = b[i].name => SameButOrder(t[m], P!NormalizeOrders(t)[i])
<1> DEFINE a == P!NormalizeOrders(t)
           K == DOMAIN t
           key == KeyOf(t)
           h == [i \in DOMAIN b |-> CHOOSE m \in K : t[m].name = b[i].name]
<1>1. DOMAIN b = 1..Len(b) /\ Len(b) \in Nat /\ K = 1..Len(t) /\ Len(t) \in Nat
  BY ListLength DEF Numbered, IsViews
<1>2. Len(t) = Len(b)
  <2>1. Len(t) = Cardinality(P!Names(t)) /\ Len(b) = Cardinality(P!Names(b)) BY NamesAreCounted DEF Numbered
  <2>2. QED BY <2>1, Zenon
<1>3. IsList(a) /\ Len(a) = Len(t) /\ DOMAIN a = K
      /\ \E q : IsOrder(q, K, key) /\ Renumbered(a, t, q)
  BY NormalizedViews DEF KeyOf
<1>4. K \in SUBSET Int /\ Cardinality(K) = Len(t) BY <1>1, UpTo
<1>5. ASSUME NEW i \in DOMAIN b PROVE h[i] \in K /\ t[h[i]].name = b[i].name
  <2>1. b[i].name \in P!Names(t) BY DEF P!Names
  <2>2. \E m \in K : t[m].name = b[i].name BY <2>1 DEF P!Names
  <2>3. h[i] = CHOOSE m \in K : t[m].name = b[i].name OBVIOUS
  <2> HIDE DEF h
  <2>4. QED BY <2>2, <2>3
<1>6. ASSUME NEW m \in K PROVE \E i \in DOMAIN b : b[i].name = t[m].name
  <2>1. t[m].name \in P!Names(b) BY DEF P!Names
  <2>2. QED BY <2>1 DEF P!Names
<1> HIDE DEF a, h
<1>7. ASSUME NEW m \in K, NEW i \in DOMAIN b, t[m].name = b[i].name PROVE h[i] = m /\ key[m] = i
  <2>1. h[i] = m BY <1>5, <1>7 DEF OncePerName
  <2>2. t[m].order = i BY <1>7
  <2>3. i > 0 BY <1>1
  <2>4. QED BY <2>1, <2>2, <2>3 DEF KeyOf, P!OrderOf
<1> HIDE DEF K, key
<1>8. \A m \in K : key[m] \in Int BY <1>1, <1>6, <1>7
<1>9. IsOrder(h, K, key)
  <2>1. \A n \in 1..Cardinality(K) : h[n] \in K BY <1>1, <1>2, <1>4, <1>5
  <2>2. \A m, n \in 1..Cardinality(K) : m < n => Sooner(key, h[m], h[n])
    <3> SUFFICES ASSUME NEW m \in 1..Cardinality(K), NEW n \in 1..Cardinality(K), m < n
                 PROVE  Sooner(key, h[m], h[n])
      OBVIOUS
    <3>1. m \in DOMAIN b /\ n \in DOMAIN b BY <1>1, <1>2, <1>4
    <3>2. key[h[m]] = m /\ key[h[n]] = n BY <1>5, <1>7, <3>1
    <3>3. QED BY <3>2 DEF Sooner
  <2>3. \A m \in K : \E n \in 1..Cardinality(K) : h[n] = m
    <3> TAKE m \in K
    <3>1. PICK i \in DOMAIN b : b[i].name = t[m].name BY <1>6
    <3>2. h[i] = m BY <1>7, <3>1
    <3>3. QED BY <1>1, <1>2, <1>4, <3>2
  <2>4. QED BY <2>1, <2>2, <2>3 DEF IsOrder
<1>10. PICK q : IsOrder(q, K, key) /\ Renumbered(a, t, q) BY <1>3
<1>11. \A n \in 1..Cardinality(K) : q[n] = h[n] BY <1>1, <1>4, <1>8, <1>9, <1>10, OrderIsUnique
<1>12. ASSUME NEW i \in DOMAIN b PROVE SameButOrder(t[h[i]], a[i])
  <2>1. i \in K /\ q[i] = h[i] BY <1>1, <1>2, <1>4, <1>11
  <2>2. QED BY <1>10, <2>1 DEF Renumbered, SameButOrder, K
<1>13. \A i \in DOMAIN b : a[i].name = b[i].name BY <1>5, <1>12 DEF SameButOrder
<1>14. \A i \in DOMAIN b : \A m \in K : t[m].name = b[i].name => SameButOrder(t[m], a[i]) BY <1>7, <1>12
<1>15. DOMAIN a = DOMAIN b /\ Len(a) = Len(b) BY <1>1, <1>2, <1>3
<1>16. QED BY <1>13, <1>14, <1>15 DEF a, K

\* Views in their old places say the same of those that did not change.
LEMMA InTheirPlaces ==
    ASSUME NEW b, Numbered(b), NEW a, Numbered(a), DOMAIN a = DOMAIN b, NEW names, NEW group,
           \A i \in DOMAIN b : a[i].name = b[i].name,
           \A i \in DOMAIN b : b[i].name \notin names => SameButOrder(b[i], a[i])
    PROVE  SaysTheSame(b, a, group, names)
<1> DEFINE K == OthersOf(b, group, names)
           J == OthersOf(a, group, names)
           f == [i \in K |-> i]
<1>1. Sorted(b) /\ Sorted(a) BY NumberedIsSorted
<1>2. J = K BY DEF OthersOf, SameButOrder
<1>3. \A i \in K : f[i] = i /\ SameButOrder(b[i], a[i]) BY DEF OthersOf
<1> HIDE DEF K, J, f
<1>4. Follows(f, K, J) BY <1>2, <1>3 DEF Follows
<1>5. \A i \in K : b[i].name = a[f[i]].name /\ b[i].filters = a[f[i]].filters BY <1>3 DEF SameButOrder
<1>6. QED BY <1>1, <1>4, <1>5, OthersFollow DEF K, J

KeptInPlace(b, a, names) ==
    /\ Numbered(a) /\ DOMAIN a = DOMAIN b /\ \A i \in DOMAIN b : a[i].name = b[i].name
    /\ \A group : SaysTheSame(b, a, group, names)

\* A view that is not in names is one of the old list, any view has its old order.
ComesFrom(b, names, view) ==
    \E j \in DOMAIN b : /\ view.name = b[j].name /\ view.order = j
                        /\ b[j].name \notin names => SameButOrder(b[j], view)

LEMMA SortedIntoPlace ==
    ASSUME NEW b, Numbered(b), OncePerName(b), NEW t, IsViews(t), OncePerName(t), P!Names(t) = P!Names(b),
           NEW names, \A m \in DOMAIN t : ComesFrom(b, names, t[m])
    PROVE  KeptInPlace(b, P!NormalizeOrders(t), names)
<1> DEFINE a == P!NormalizeOrders(t)
<1>1. ASSUME NEW m \in DOMAIN t, NEW i \in DOMAIN b, t[m].name = b[i].name
      PROVE  t[m].order = i /\ (b[i].name \notin names => SameButOrder(b[i], t[m]))
  <2>1. PICK j \in DOMAIN b : /\ t[m].name = b[j].name /\ t[m].order = j
                              /\ b[j].name \notin names => SameButOrder(b[j], t[m])
    BY DEF ComesFrom
  <2>2. i = j BY <1>1, <2>1 DEF OncePerName
  <2>3. QED BY <2>1, <2>2
<1>2. /\ DOMAIN a = DOMAIN b
      /\ \A i \in DOMAIN b : a[i].name = b[i].name
      /\ \A i \in DOMAIN b : \A m \in DOMAIN t : t[m].name = b[i].name => SameButOrder(t[m], a[i])
  <2> HIDE DEF a
  <2>1. \A m \in DOMAIN t : \A i \in DOMAIN b : t[m].name = b[i].name => t[m].order = i BY <1>1
  <2>2. QED BY <2>1, SortedBack DEF a
<1>3. Numbered(a) BY NormalizedIsNumbered
<1> HIDE DEF a
<1>4. ASSUME NEW i \in DOMAIN b, b[i].name \notin names PROVE SameButOrder(b[i], a[i])
  <2>1. b[i].name \in P!Names(t) BY DEF P!Names
  <2>2. PICK m \in DOMAIN t : t[m].name = b[i].name BY <2>1 DEF P!Names
  <2>3. SameButOrder(b[i], t[m]) /\ SameButOrder(t[m], a[i]) BY <1>1, <1>2, <1>4, <2>2
  <2>4. QED BY <2>3 DEF SameButOrder
<1>5. ASSUME NEW group PROVE SaysTheSame(b, a, group, names)
  BY <1>2, <1>3, <1>4, InTheirPlaces
<1>6. QED BY <1>2, <1>3, <1>5 DEF KeptInPlace, a

LEMMA PartsComeFrom ==
    ASSUME NEW b, Numbered(b), NEW names, NEW K \in SUBSET DOMAIN b, NEW m \in DOMAIN P!At(b, K)
    PROVE  ComesFrom(b, names, P!At(b, K)[m])
<1>1. IsList(b) BY DEF Numbered, IsViews
<1>2. Kept(K)[m] \in DOMAIN b /\ P!At(b, K)[m] = b[Kept(K)[m]]
  <2>1. /\ Rising(Kept(K), K) /\ DOMAIN P!At(b, K) = 1..Cardinality(K)
        /\ \A n \in 1..Cardinality(K) : P!At(b, K)[n] = b[Kept(K)[n]]
    BY <1>1, KeptAreRising
  <2>2. QED BY <2>1 DEF Rising
<1>3. QED BY <1>2 DEF ComesFrom, Numbered, SameButOrder

LEMMA MovedStayInPlace ==
    ASSUME NEW b, Numbered(b), OncePerName(b), NEW names, NEW to
    PROVE  KeptInPlace(b, P!MoveToGroup(b, names, to), names)
<1> DEFINE x == P!Only(b, names)
           y == P!Without(b, names)
           g == P!Regroup(x, names, to)
           t == g \o y
           S == {i \in DOMAIN b : b[i].name \in names}
           W == {i \in DOMAIN b : b[i].name \notin names}
<1>1. Sorted(b) /\ IsViews(b) /\ IsList(b) BY NumberedIsSorted DEF Numbered, IsViews
<1>2. x = P!At(b, S) /\ y = P!At(b, W) BY DEF P!Only, P!Without
<1>3. S \in SUBSET DOMAIN b /\ W \in SUBSET DOMAIN b OBVIOUS
<1>4. IsViews(x) /\ OncePerName(x) /\ P!Names(x) = P!Names(b) \cap names BY <1>1, OnlyIsShort
<1>5. IsViews(y) /\ OncePerName(y) /\ P!Names(y) = P!Names(b) \ names BY <1>1, WithoutIsShort
<1>6. \A m \in DOMAIN x : ComesFrom(b, names, x[m])
  <2> HIDE DEF x, S
  <2>1. QED BY <1>2, <1>3, PartsComeFrom
<1>7. \A m \in DOMAIN y : ComesFrom(b, names, y[m])
  <2> HIDE DEF y, W
  <2>1. QED BY <1>2, <1>3, PartsComeFrom
<1>8. P!OrderViews(x) = x /\ P!OrderViews(y) = y
  <2> HIDE DEF x, y, S, W
  <2>1. Sorted(x) /\ Sorted(y) BY <1>1, <1>2, <1>3, PartIsSorted
  <2>2. QED BY <2>1, SortedStays
<1> HIDE DEF S, W
<1>9. P!MoveToGroup(b, names, to) = P!NormalizeOrders(t) BY <1>8 DEF P!MoveToGroup
<1> HIDE DEF x, y
<1>10. IsViews(g) /\ OncePerName(g) /\ P!Names(g) = P!Names(b) \cap names BY <1>4, RegroupedViews
<1>11. DOMAIN g = DOMAIN x /\ \A m \in DOMAIN x : g[m].name = x[m].name /\ g[m].order = x[m].order
  <2>1. g = [i \in DOMAIN x |-> IF x[i].name \in names THEN [x[i] EXCEPT !.group = to] ELSE x[i]]
    BY DEF P!Regroup
  <2> HIDE DEF g
  <2>2. ASSUME NEW m \in DOMAIN x PROVE g[m].name = x[m].name /\ g[m].order = x[m].order
    <3>1. IsView(x[m]) BY <1>4 DEF IsViews
    <3>2. g[m] = x[m] \/ g[m] = [x[m] EXCEPT !.group = to] BY <2>1
    <3>3. QED BY <3>1, <3>2 DEF IsView
  <2>3. QED BY <2>1, <2>2
<1> HIDE DEF g
<1>12. \A m \in DOMAIN g : ComesFrom(b, names, g[m])
  <2> TAKE m \in DOMAIN g
  <2>1. g[m].name \in names
    <3>1. g[m].name \in P!Names(g) BY DEF P!Names
    <3>2. QED BY <1>10, <3>1
  <2>2. QED BY <1>6, <1>11, <2>1 DEF ComesFrom
<1>13. IsViews(t) /\ OncePerName(t) /\ P!Names(t) = P!Names(b)
  <2>1. P!Names(g) \cap P!Names(y) = {} /\ P!Names(g) \cup P!Names(y) = P!Names(b) BY <1>5, <1>10
  <2>2. QED BY <1>5, <1>10, <2>1, JoinedViews
<1>14. /\ DOMAIN t = 1..(Len(g) + Len(y)) /\ Len(g) \in Nat /\ Len(y) \in Nat
       /\ DOMAIN g = 1..Len(g) /\ DOMAIN y = 1..Len(y)
       /\ \A k \in 1..Len(g) : t[k] = g[k]
       /\ \A k \in 1..Len(y) : t[Len(g) + k] = y[k]
  <2>1. IsList(g) /\ IsList(y) BY <1>5, <1>10 DEF IsViews
  <2>2. QED BY <2>1, JoinedLists, ListLength
<1> HIDE DEF t
<1>15. ASSUME NEW m \in DOMAIN t PROVE ComesFrom(b, names, t[m])
  <2>1. CASE m \in 1..Len(g) BY <1>12, <1>14, <2>1
  <2>2. CASE m \notin 1..Len(g)
    <3>1. m - Len(g) \in 1..Len(y) /\ Len(g) + (m - Len(g)) = m BY <1>14, <2>2
    <3>2. t[m] = y[m - Len(g)] BY <1>14, <3>1
    <3>3. QED BY <1>7, <1>14, <3>1, <3>2
  <2>3. QED BY <2>1, <2>2
<1>16. KeptInPlace(b, P!NormalizeOrders(t), names) BY <1>13, <1>15, SortedIntoPlace
<1>17. QED BY <1>9, <1>16

LEMMA AllOfIt ==
    ASSUME NEW s, IsList(s)
    PROVE  P!At(s, DOMAIN s) = s
<1> DEFINE K == DOMAIN s
           t == P!At(s, K)
           q == [n \in K |-> n]
           key == [i \in K |-> i]
<1>1. K = 1..Len(s) /\ Len(s) \in Nat BY ListLength
<1>2. Cardinality(K) = Len(s) BY <1>1, UpTo
<1>3. /\ K \in SUBSET Int /\ Cardinality(K) \in Nat /\ Rising(Kept(K), K)
      /\ IsList(t) /\ Len(t) = Cardinality(K)
      /\ \A n \in 1..Cardinality(K) : t[n] = s[Kept(K)[n]]
  BY KeptAreRising
<1>4. \A n \in K : q[n] = n OBVIOUS
<1>5. \A i \in K : key[i] \in Int BY <1>1
<1> HIDE DEF K, t, q
<1>6. Rising(q, K) BY <1>1, <1>2, <1>4 DEF Rising
<1>7. IsOrder(Kept(K), K, key) /\ IsOrder(q, K, key) BY <1>3, <1>6, RisingIsOrder
<1> HIDE DEF key
<1>8. \A n \in 1..Cardinality(K) : Kept(K)[n] = q[n] BY <1>3, <1>5, <1>7, OrderIsUnique
<1>9. \A n \in 1..Len(s) : t[n] = s[n] BY <1>1, <1>2, <1>3, <1>4, <1>8
<1>10. t = [i \in 1..Len(t) |-> t[i]] /\ s = [i \in 1..Len(s) |-> s[i]] BY <1>3 DEF IsList
<1>11. Len(t) = Len(s) BY <1>2, <1>3
<1>12. t = s BY <1>9, <1>10, <1>11
<1>13. QED BY <1>12 DEF t, K

\* A view in front of others.
LEMMA InFrontOf ==
    ASSUME NEW view, IsView(view), NEW l, IsViews(l), OncePerName(l), view.name \notin P!Names(l)
    PROVE  /\ IsViews(<<view>> \o l) /\ OncePerName(<<view>> \o l)
           /\ P!Names(<<view>> \o l) = P!Names(l) \cup {view.name}
           /\ Len(<<view>> \o l) = Len(l) + 1 /\ DOMAIN (<<view>> \o l) = 1..(Len(l) + 1)
           /\ (<<view>> \o l)[1] = view
           /\ \A i \in 1..Len(l) : (<<view>> \o l)[i + 1] = l[i]
<1> DEFINE o == <<view>>
           w == o \o l
<1>1. IsList(l) /\ Len(l) \in Nat BY ListLength DEF IsViews
<1>2. /\ IsViews(o) /\ OncePerName(o) /\ P!Names(o) = {view.name} /\ Len(o) = 1 /\ o[1] = view /\ IsList(o)
  <2>1. IsViews(o) /\ OncePerName(o) /\ P!Names(o) = {view.name} BY OneView
  <2>2. Len(o) = 1 /\ o[1] = view OBVIOUS
  <2>3. QED BY <2>1, <2>2 DEF IsViews
<1> HIDE DEF o
<1>3. /\ IsViews(w) /\ Len(w) = Len(o) + Len(l) /\ P!Names(w) = P!Names(o) \cup P!Names(l) /\ OncePerName(w)
  <2>1. P!Names(o) \cap P!Names(l) = {} BY <1>2
  <2>2. QED BY <1>2, <2>1, JoinedViews
<1>4. /\ DOMAIN w = 1..(Len(o) + Len(l))
      /\ \A k \in 1..Len(o) : w[k] = o[k]
      /\ \A k \in 1..Len(l) : w[Len(o) + k] = l[k]
  <2>1. IsList(o) /\ IsList(l) /\ Len(o) \in Nat /\ Len(l) \in Nat BY <1>1, <1>2
  <2>2. QED BY <2>1, JoinedLists
<1> HIDE DEF w
<1>5. Len(w) = Len(l) + 1 /\ DOMAIN w = 1..(Len(l) + 1) /\ w[1] = view
  <2>1. Len(o) + Len(l) = Len(l) + 1 BY <1>1, <1>2
  <2>2. 1 \in 1..Len(o) BY <1>2
  <2>3. QED BY <1>2, <1>3, <1>4, <2>1, <2>2
<1>6. \A i \in 1..Len(l) : w[i + 1] = l[i]
  <2> TAKE i \in 1..Len(l)
  <2>1. w[1 + i] = l[i] BY <1>2, <1>4
  <2>2. 1 + i = i + 1 BY <1>1
  <2>3. QED BY <2>1, <2>2
<1>7. P!Names(w) = P!Names(l) \cup {view.name} BY <1>2, <1>3
<1>8. QED BY <1>3, <1>5, <1>6, <1>7 DEF w, o

LEMMA SameElements ==
    ASSUME NEW l, IsList(l), NEW r, IsList(r), Len(l) = Len(r), \A k \in 1..Len(l) : l[k] = r[k]
    PROVE  l = r
  BY DEF IsList

LEMMA NothingIsCut ==
    ASSUME MaxCollected \in Nat, NEW l, IsViews(l), OncePerName(l), Len(l) <= MaxCollected
    PROVE  F!Cut(l) = l
<1> DEFINE c == F!Cut(l)
<1>1. /\ IsUpTo(c, MaxCollected) /\ \A k \in DOMAIN c : c[k] = l[k]
      /\ Len(c) = IF Len(l) < MaxCollected THEN Len(l) ELSE MaxCollected
  BY CollectedCut
<1> HIDE DEF c
<1>2. Len(l) \in Nat /\ IsList(l) BY ListLength DEF IsViews
<1>3. Len(c) = Len(l) BY <1>1, <1>2
<1>4. IsList(c) /\ DOMAIN c = 1..Len(c) BY <1>1, ListLength DEF IsUpTo, IsViews
<1>5. c = l BY <1>1, <1>2, <1>3, <1>4, SameElements
<1>6. QED BY <1>5 DEF c

LEMMA UpdatedStayInPlace ==
    ASSUME MaxCollected \in Nat, NEW b, Numbered(b), OncePerName(b), Len(b) <= MaxCollected,
           NEW view, IsView(view), view.name \in P!Names(b), view.order = P!Named(b, view.name).order
    PROVE  KeptInPlace(b, F!Upsert(b, view), {view.name})
<1> DEFINE y == P!Without(b, {view.name})
           w == <<view>> \o y
           W == {i \in DOMAIN b : b[i].name \notin {view.name}}
<1>1. IsViews(b) /\ IsList(b) BY DEF Numbered, IsViews
<1>2. IsViews(y) /\ OncePerName(y) /\ P!Names(y) = P!Names(b) \ {view.name} BY <1>1, WithoutIsShort
<1>3. \A m \in DOMAIN y : ComesFrom(b, {view.name}, y[m])
  <2>1. y = P!At(b, W) /\ W \in SUBSET DOMAIN b BY DEF P!Without
  <2> HIDE DEF y, W
  <2>2. QED BY <2>1, PartsComeFrom
<1>4. F!Upsert(b, view) = P!NormalizeOrders(F!Cut(w)) BY SameNormalize, SameParts DEF F!Upsert
<1> HIDE DEF y
<1>5. /\ IsViews(w) /\ OncePerName(w) /\ P!Names(w) = P!Names(y) \cup {view.name}
      /\ Len(y) \in Nat /\ DOMAIN y = 1..Len(y) /\ DOMAIN w = 1..(Len(y) + 1) /\ w[1] = view
      /\ \A i \in 1..Len(y) : w[i + 1] = y[i]
  <2>1. view.name \notin P!Names(y) BY <1>2
  <2>2. QED BY <1>2, <2>1, InFrontOf, ListLength DEF IsViews
<1> HIDE DEF w
<1>6. P!Names(w) = P!Names(b) BY <1>2, <1>5
<1>7. F!Cut(w) = w
  <2>1. Len(w) = Cardinality(P!Names(w)) /\ Len(b) = Cardinality(P!Names(b)) BY <1>1, <1>5, NamesAreCounted
  <2>2. Len(w) = Len(b) BY <1>6, <2>1, Zenon
  <2>3. Len(w) <= MaxCollected BY <2>2
  <2>4. QED BY <1>5, <2>3, NothingIsCut
<1>8. ComesFrom(b, {view.name}, view)
  <2>1. PICK j \in DOMAIN b : b[j] = P!Named(b, view.name) /\ b[j].name = view.name
    <3>1. \E j \in DOMAIN b : b[j].name = view.name BY DEF P!Names
    <3>2. QED BY <3>1 DEF P!Named
  <2>2. view.order = j BY <2>1 DEF Numbered
  <2>3. QED BY <2>1, <2>2 DEF ComesFrom
<1>9. ASSUME NEW m \in DOMAIN w PROVE ComesFrom(b, {view.name}, w[m])
  <2>1. CASE m = 1 BY <1>5, <1>8, <2>1
  <2>2. CASE m # 1
    <3>1. m - 1 \in 1..Len(y) /\ (m - 1) + 1 = m BY <1>5, <2>2
    <3>2. w[m] = y[m - 1] BY <1>5, <3>1
    <3>3. QED BY <1>3, <1>5, <3>1, <3>2
  <2>3. QED BY <2>1, <2>2
<1>10. KeptInPlace(b, P!NormalizeOrders(w), {view.name}) BY <1>5, <1>6, <1>9, SortedIntoPlace
<1>11. QED BY <1>4, <1>7, <1>10

\* A new view in front of the first n of a list; only the limit took the last one.
InFront(b, c, n, view) ==
    /\ IsViews(c) /\ OncePerName(c) /\ n \in Nat /\ DOMAIN c = 1..(n + 1) /\ c[1] = view
    /\ \A i \in 1..n : i \in DOMAIN b /\ c[i + 1] = b[i]
    /\ n = Len(b) \/ (Len(b) = MaxCollected /\ n = Len(b) - 1)

LEMMA SavedInFront ==
    ASSUME MaxCollected \in Nat \ {0}, NEW b, Numbered(b), OncePerName(b), Len(b) <= MaxCollected,
           NEW view, IsView(view), view.name \notin P!Names(b)
    PROVE  \E c, n : InFront(b, c, n, view) /\ F!Upsert(b, view) = P!NormalizeOrders(c)
<1> DEFINE w == <<view>> \o b
           c == F!Cut(w)
<1>1. IsViews(b) /\ IsList(b) /\ DOMAIN b = 1..Len(b) /\ Len(b) \in Nat BY ListLength DEF Numbered, IsViews
<1>2. P!Without(b, {view.name}) = b
  <2>1. {i \in DOMAIN b : b[i].name \notin {view.name}} = DOMAIN b BY DEF P!Names
  <2>2. P!Without(b, {view.name}) = P!At(b, DOMAIN b) BY <2>1 DEF P!Without
  <2>3. QED BY <1>1, <2>2, AllOfIt
<1>3. F!Upsert(b, view) = P!NormalizeOrders(c) BY <1>2, SameNormalize, SameParts DEF F!Upsert
<1>4. /\ IsViews(w) /\ OncePerName(w) /\ Len(w) = Len(b) + 1 /\ w[1] = view
      /\ \A i \in 1..Len(b) : w[i + 1] = b[i]
  BY <1>1, InFrontOf
<1> HIDE DEF w
<1>5. IsUpTo(c, MaxCollected) /\ (\A k \in DOMAIN c : c[k] = w[k])
      /\ Len(c) = IF Len(w) < MaxCollected THEN Len(w) ELSE MaxCollected
  <2> HIDE DEF c
  <2>1. MaxCollected \in Nat OBVIOUS
  <2>2. /\ IsUpTo(F!Cut(w), MaxCollected)
        /\ \A k \in DOMAIN F!Cut(w) : k \in DOMAIN w /\ F!Cut(w)[k] = w[k]
        /\ Len(F!Cut(w)) = IF Len(w) < MaxCollected THEN Len(w) ELSE MaxCollected
    BY <1>4, <2>1, CollectedCut
  <2>3. QED BY <2>2 DEF c
<1> HIDE DEF c
<1>6. /\ IsViews(c) /\ OncePerName(c) /\ DOMAIN c = 1..Len(c) /\ Len(c) \in Nat
  <2>1. IsViews(c) /\ OncePerName(c) BY <1>5 DEF IsUpTo
  <2>2. QED BY <2>1, ListLength DEF IsViews
<1>7. /\ Len(c) > 0 /\ Len(c) <= Len(b) + 1
      /\ Len(c) = Len(b) + 1 \/ (Len(b) = MaxCollected /\ Len(c) = Len(b))
  <2>1. Len(c) = IF Len(w) < MaxCollected THEN Len(w) ELSE MaxCollected BY <1>5
  <2>2. Len(b) \in Nat /\ Len(w) = Len(b) + 1 /\ Len(b) <= MaxCollected /\ MaxCollected \in Nat /\ MaxCollected > 0
    BY <1>1, <1>4
  <2>3. QED BY <2>1, <2>2
<1>8. c[1] = view BY <1>4, <1>5, <1>6, <1>7
<1>9. PICK k \in Nat : k = Len(c) BY <1>6
<1>10. PICK r \in Nat : r = Len(b) BY <1>1
<1> DEFINE n == k - 1
<1>11. /\ k > 0 /\ k <= r + 1 /\ (k = r + 1 \/ (r = MaxCollected /\ k = r))
       /\ DOMAIN c = 1..k /\ DOMAIN b = 1..r
  BY <1>1, <1>6, <1>7, <1>9, <1>10, Zenon
<1>12. n \in Nat /\ n <= r /\ n + 1 = k /\ (n = r \/ (r = MaxCollected /\ n = r - 1)) BY <1>11
<1> HIDE DEF n
<1>13. ASSUME NEW i \in 1..n PROVE i \in DOMAIN b /\ c[i + 1] = b[i]
  <2>1. i \in 1..r /\ i + 1 \in 1..k BY <1>11, <1>12
  <2>2. i \in 1..Len(b) /\ i + 1 \in DOMAIN c BY <1>10, <1>11, <2>1, Zenon
  <2>3. QED BY <1>1, <1>4, <1>5, <2>2
<1>14. InFront(b, c, n, view)
  <2>1. \A i \in 1..n : i \in DOMAIN b /\ c[i + 1] = b[i] BY <1>13, Zenon
  <2>2. QED BY <1>6, <1>8, <1>10, <1>11, <1>12, <2>1, Zenon DEF InFront
<1>15. QED BY <1>3, <1>14

LEMMA SavedLosesTheLast ==
    ASSUME NEW b, Numbered(b), OncePerName(b), NEW c, NEW n, NEW view, view.name \notin P!Names(b), InFront(b, c, n, view),
           NEW lost, lost = P!Names(b) \ (P!Names(c) \cup {view.name})
    PROVE  /\ lost # {} => Len(b) = MaxCollected /\ lost = {b[Len(b)].name}
           /\ \A i \in DOMAIN b : b[i].name \notin {view.name} \cup lost => i \in 1..n
<1>1. DOMAIN b = 1..Len(b) /\ Len(b) \in Nat BY ListLength DEF Numbered, IsViews
<1>2. /\ DOMAIN c = 1..(n + 1) /\ n \in Nat /\ c[1] = view
      /\ \A i \in 1..n : i \in DOMAIN b /\ c[i + 1] = b[i]
      /\ n = Len(b) \/ (Len(b) = MaxCollected /\ n = Len(b) - 1)
  BY DEF InFront
<1>3. ASSUME NEW i \in 1..n PROVE b[i].name \in P!Names(c)
  <2>1. i + 1 \in DOMAIN c /\ c[i + 1] = b[i] BY <1>2
  <2>2. QED BY <2>1 DEF P!Names
<1>4. ASSUME NEW x \in lost PROVE Len(b) = MaxCollected /\ x = b[Len(b)].name
  <2>1. PICK i \in DOMAIN b : x = b[i].name BY DEF P!Names
  <2>2. i \notin 1..n BY <1>3, <2>1
  <2>3. PICK r \in Nat : r = Len(b) BY <1>1
  <2>4. i \in 1..r /\ (n = r \/ (r = MaxCollected /\ n = r - 1)) BY <1>1, <1>2, <2>3, Zenon
  <2>5. r = MaxCollected /\ i = r BY <1>2, <2>2, <2>4
  <2>6. QED BY <2>1, <2>3, <2>5
<1>5. ASSUME NEW i \in DOMAIN b, b[i].name \notin {view.name} \cup lost PROVE i \in 1..n
  <2>1. b[i].name \in P!Names(b) BY DEF P!Names
  <2>2. b[i].name \in P!Names(c) BY <1>5, <2>1
  <2>3. PICK m \in DOMAIN c : c[m].name = b[i].name BY <2>2 DEF P!Names
  <2>4. m # 1 BY <1>2, <1>5, <2>3
  <2>5. m - 1 \in 1..n /\ (m - 1) + 1 = m BY <1>2, <2>3, <2>4
  <2>6. m - 1 \in DOMAIN b /\ b[m - 1].name = b[i].name BY <1>2, <2>3, <2>5
  <2>7. m - 1 = i BY <2>6 DEF OncePerName
  <2>8. QED BY <2>5, <2>7
<1>6. QED BY <1>4, <1>5

LEMMA SavedKeys ==
    ASSUME NEW b, Numbered(b), NEW c, NEW n, NEW view, InFront(b, c, n, view)
    PROVE  /\ \A i \in 1..n : i + 1 \in DOMAIN c /\ KeyOf(c)[i + 1] = i
           /\ 1 \in DOMAIN c /\ KeyOf(c)[1] = IF view.order > 0 THEN view.order ELSE 1
<1>1. /\ DOMAIN c = 1..(n + 1) /\ n \in Nat /\ c[1] = view
      /\ \A i \in 1..n : i \in DOMAIN b /\ c[i + 1] = b[i]
  BY DEF InFront
<1>2. \A i \in DOMAIN b : b[i].order = i BY DEF Numbered
<1>3. ASSUME NEW i \in 1..n PROVE i + 1 \in DOMAIN c /\ KeyOf(c)[i + 1] = i
  <2>1. i + 1 \in DOMAIN c /\ i > 0 BY <1>1
  <2>2. c[i + 1].order = i BY <1>1, <1>2
  <2>3. QED BY <2>1, <2>2 DEF KeyOf, P!OrderOf
<1>4. 1 \in DOMAIN c BY <1>1
<1>5. KeyOf(c)[1] = IF view.order > 0 THEN view.order ELSE 1 BY <1>1, <1>4 DEF KeyOf, P!OrderOf
<1>6. QED BY <1>3, <1>4, <1>5

LEMMA SavedStayInOrder ==
    ASSUME NEW b, Numbered(b), OncePerName(b), NEW c, NEW n, NEW view, view.name \notin P!Names(b), InFront(b, c, n, view),
           NEW lost, lost = P!Names(b) \ (P!Names(c) \cup {view.name}), NEW group
    PROVE  SaysTheSame(b, P!NormalizeOrders(c), group, {view.name} \cup lost)
<1> DEFINE names == {view.name} \cup lost
           K == OthersOf(b, group, names)
           h == [i \in K |-> i + 1]
<1>1. Sorted(b) /\ DOMAIN b = 1..Len(b) /\ Len(b) \in Nat BY NumberedIsSorted, ListLength DEF Numbered, IsViews
<1>2. /\ IsViews(c) /\ DOMAIN c = 1..(n + 1) /\ n \in Nat /\ c[1] = view
      /\ \A i \in 1..n : i \in DOMAIN b /\ c[i + 1] = b[i]
  BY DEF InFront
<1>3. \A i \in 1..n : i + 1 \in DOMAIN c /\ KeyOf(c)[i + 1] = i BY SavedKeys
<1>4. \A i \in DOMAIN b : b[i].name \notin names => i \in 1..n BY SavedLosesTheLast
<1>5. \A i \in K : h[i] = i + 1 /\ i \in 1..n /\ i \in DOMAIN b BY <1>4 DEF OthersOf
<1>6. view.name \in names OBVIOUS
<1> HIDE DEF names, h
<1>7. ASSUME NEW m \in OthersOf(c, group, names) PROVE \E i \in K : h[i] = m
  <2>1. m \in DOMAIN c /\ c[m].group = group /\ c[m].name \notin names BY DEF OthersOf
  <2>2. m # 1 BY <1>2, <1>6, <2>1
  <2>3. m - 1 \in 1..n /\ (m - 1) + 1 = m BY <1>2, <2>1, <2>2
  <2>4. m - 1 \in DOMAIN b /\ b[m - 1] = c[m] BY <1>2, <2>3
  <2>5. m - 1 \in K BY <2>1, <2>4 DEF OthersOf
  <2> HIDE DEF K
  <2>6. h[m - 1] = m BY <1>5, <2>3, <2>5
  <2>7. QED BY <2>5, <2>6
<1> HIDE DEF K
<1>8. \A i \in K : KeyOf(c)[h[i]] = i /\ h[i] \in DOMAIN c BY <1>3, <1>5
<1>9. \A i, j \in K : i < j => Sooner(KeyOf(c), h[i], h[j]) BY <1>8 DEF Sooner
<1>10. Arranged(h, K, c) BY <1>8, <1>9 DEF Arranged
<1>11. \A i \in K : SameButOrder(b[i], c[h[i]]) BY <1>2, <1>5 DEF SameButOrder
<1>12. SaysTheSame(b, P!NormalizeOrders(c), group, names)
  BY <1>1, <1>2, <1>7, <1>10, <1>11, OthersStay DEF K
<1>13. QED BY <1>12 DEF names

\* The order before the first view of a folder.
LEMMA TopOrderIsLess ==
    ASSUME NEW b, Numbered(b), NEW group, NEW k \in DOMAIN b, b[k].group = group
    PROVE  P!TopOrderForGroup(b, group) \in Int /\ P!TopOrderForGroup(b, group) < k
<1> DEFINE orders == {b[i].order : i \in {j \in DOMAIN b : b[j].group = group}}
           first == CHOOSE o \in orders : \A p \in orders : o <= p
<1>1. P!TopOrderForGroup(b, group) = IF orders = {} THEN 0 ELSE first - 1
  BY DEF P!TopOrderForGroup
<1>2. DOMAIN b \in SUBSET Nat /\ \A i \in DOMAIN b : b[i].order = i
  BY ListLength DEF Numbered, IsViews
<1>3. orders \in SUBSET Nat /\ k \in orders BY <1>2
<1> HIDE DEF orders
<1>4. \E o \in orders : \A p \in orders : o <= p BY <1>3, LeastNumber
<1>5. first \in orders /\ \A p \in orders : first <= p BY <1>4
<1> HIDE DEF first
<1>6. first \in Nat /\ first <= k /\ k \in Nat BY <1>3, <1>5
<1>7. P!TopOrderForGroup(b, group) = first - 1 BY <1>1, <1>3
<1>8. QED BY <1>6, <1>7

\* The first of some places is the first that is kept.
LEMMA FirstOfPart ==
    ASSUME NEW s, IsList(s), NEW K \in SUBSET DOMAIN s, NEW x \in K, \A y \in K : x <= y
    PROVE  P!At(s, K) # <<>> /\ Head(P!At(s, K)) = s[x]
<1> DEFINE kept == P!At(s, K)
<1>1. /\ K \in SUBSET Int /\ Cardinality(K) \in Nat /\ Rising(Kept(K), K)
      /\ IsList(kept) /\ Len(kept) = Cardinality(K) /\ DOMAIN kept = 1..Cardinality(K)
      /\ \A n \in 1..Cardinality(K) : kept[n] = s[Kept(K)[n]]
  BY KeptAreRising
<1> HIDE DEF kept
<1>2. PICK n \in 1..Cardinality(K) : Kept(K)[n] = x BY <1>1 DEF Rising
<1>3. 1 \in 1..Cardinality(K) BY <1>1, <1>2
<1>4. Kept(K)[1] \in K BY <1>1, <1>3 DEF Rising
<1>5. n = 1
  <2>1. 1 < n => Kept(K)[1] < Kept(K)[n] BY <1>1, <1>2, <1>3 DEF Rising
  <2>2. x <= Kept(K)[1] /\ x \in Int /\ Kept(K)[1] \in Int BY <1>1, <1>4
  <2>3. ~(1 < n) BY <1>2, <2>1, <2>2
  <2>4. QED BY <1>1, <1>2, <2>3
<1>6. kept[1] = s[x] BY <1>1, <1>2, <1>3, <1>5
<1>7. kept # <<>> /\ Head(kept) = kept[1]
  <2>1. kept \in Seq({kept[i] : i \in 1..Len(kept)}) BY <1>1, ListsAreSequences
  <2>2. Len(kept) # 0 BY <1>1, <1>2
  <2>3. QED BY <2>1, <2>2
<1>8. QED BY <1>6, <1>7 DEF kept

LEMMA SavedComesFirst ==
    ASSUME NEW b, Numbered(b), OncePerName(b), NEW c, NEW n, NEW view, IsView(view),
           view.order = P!TopOrderForGroup(b, view.group), InFront(b, c, n, view),
           NEW a, a = P!NormalizeOrders(c)
    PROVE  Head(F!Folder(a, P!Named(a, view.name).group)).name = view.name
<1> DEFINE K == DOMAIN c
           key == KeyOf(c)
           G == {i \in DOMAIN a : a[i].group = view.group}
<1>1. /\ IsViews(c) /\ OncePerName(c) /\ n \in Nat /\ K = 1..(n + 1) /\ c[1] = view
      /\ \A i \in 1..n : i \in DOMAIN b /\ c[i + 1] = b[i]
  BY DEF InFront
<1>2. Numbered(a) /\ OncePerName(a) /\ Sorted(a) BY <1>1, NormalizedIsNumbered, NormalizeKeepsNames, NumberedIsSorted
<1>3. DOMAIN a = K /\ \E q : IsOrder(q, K, key) /\ Renumbered(a, c, q)
  BY <1>1, NormalizedViews DEF KeyOf
<1>4. K \in SUBSET Int /\ Cardinality(K) = n + 1 BY <1>1, UpTo
<1>5. /\ \A i \in 1..n : i + 1 \in K /\ key[i + 1] = i
      /\ 1 \in K /\ key[1] = IF view.order > 0 THEN view.order ELSE 1
  BY SavedKeys
<1> HIDE DEF key
<1>6. PICK q : IsOrder(q, K, key) /\ Renumbered(a, c, q) BY <1>3
<1>7. PICK x \in K : q[x] = 1 BY <1>1, <1>4, <1>5, <1>6 DEF IsOrder
<1>8. \A y \in K : q[y] \in K /\ SameButOrder(a[y], c[q[y]])
  BY <1>1, <1>4, <1>6 DEF IsOrder, Renumbered, SameButOrder
<1>9. a[x].name = view.name /\ a[x].group = view.group BY <1>1, <1>7, <1>8 DEF SameButOrder
<1>10. P!Named(a, view.name).group = view.group
  <2>1. \E i \in DOMAIN a : a[i].name = view.name BY <1>3, <1>9
  <2>2. PICK i \in DOMAIN a : P!Named(a, view.name) = a[i] /\ a[i].name = view.name BY <2>1 DEF P!Named
  <2>3. i = x BY <1>2, <1>3, <1>9, <2>2 DEF OncePerName
  <2>4. QED BY <1>9, <2>2, <2>3
<1>11. G \in SUBSET DOMAIN a /\ x \in G BY <1>3, <1>9
<1>12. ASSUME NEW y \in G PROVE x <= y
  <2>1. y \in K /\ a[y].group = view.group /\ x \in Int /\ y \in Int BY <1>3, <1>4
  <2> SUFFICES ASSUME y < x PROVE FALSE
    BY <2>1
  <2>2. Sooner(key, q[y], 1) BY <1>1, <1>4, <1>6, <1>7, <2>1 DEF IsOrder
  <2>3. q[y] \in 1..(n + 1) /\ c[q[y]].group = view.group BY <1>1, <1>8, <2>1 DEF SameButOrder
  <2>4. q[y] # 1
    <3>1. key[1] \in Int BY <1>5 DEF IsView
    <3>2. QED BY <2>2, <3>1 DEF Sooner
  <2>5. PICK m \in 1..n : q[y] = m + 1
    <3>1. q[y] - 1 \in 1..n /\ q[y] = (q[y] - 1) + 1 BY <1>1, <2>3, <2>4
    <3>2. QED BY <3>1
  <2>6. m \in DOMAIN b /\ b[m].group = view.group /\ key[q[y]] = m BY <1>1, <1>5, <2>3, <2>5
  <2>7. view.order \in Int /\ view.order < m BY <2>6, TopOrderIsLess
  <2>8. key[1] <= m /\ key[1] \in Int /\ m \in Int BY <1>1, <1>5, <2>5, <2>7
  <2>9. QED BY <2>2, <2>5, <2>6, <2>8 DEF Sooner
<1> HIDE DEF G
<1>13. Head(P!At(a, G)) = a[x]
  <2>1. IsList(a) BY <1>2 DEF Numbered, IsViews
  <2>2. QED BY <1>11, <1>12, <2>1, FirstOfPart
<1>14. F!Folder(a, view.group) = P!At(a, G) BY <1>2, FolderOfSorted DEF G
<1>15. QED BY <1>9, <1>10, <1>13, <1>14

LostFrom(b, a, names) == P!Names(b) \ (P!Names(a) \cup names)
NamesIn(l) == [i \in DOMAIN l |-> l[i].name]

\* What an operation on the list b was not about is in the list a as it was.
StaysPut(b, a, op, names) ==
    /\ \A g \in Groups : SaysTheSame(b, a, g, names \cup LostFrom(b, a, names))
    /\ LostFrom(b, a, names) # {} =>
           op = "save" /\ Len(b) = MaxCollected /\ LostFrom(b, a, names) = {b[Len(b)].name}
    /\ op = "save" =>
           \A n : names = {n} => Head(F!Folder(a, P!Named(a, n).group)).name = n
    /\ op = "save" => \E n : names = {n}
    /\ op \in {"update", "bulkMove"} => NamesIn(a) = NamesIn(P!OrderViews(b))

LEMMA StaysPutIsMeant ==
    ASSUME acted.op = "none" \/ StaysPut(acted.before, viewPresets, acted.op, acted.names)
    PROVE  F!OthersStayPut /\ F!NewOnesComeFirst
<1> DEFINE b == acted.before
           lost == F!Names(b) \ (F!Names(viewPresets) \cup acted.names)
<1>1. lost = LostFrom(b, viewPresets, acted.names) BY SameNames DEF LostFrom
<1>2. F!OthersStayPut
  <2> SUFFICES ASSUME acted.op # "none"
               PROVE  /\ \A g \in Groups : SaysTheSame(b, viewPresets, g, acted.names \cup lost)
                      /\ lost # {} => acted.op = "save" /\ Len(b) = MaxCollected /\ lost = {b[Len(b)].name}
    BY DEF F!OthersStayPut, SaysTheSame
  <2> HIDE DEF lost
  <2>1. StaysPut(b, viewPresets, acted.op, acted.names) OBVIOUS
  <2>2. QED BY <1>1, <2>1 DEF StaysPut
<1> HIDE DEF lost
<1>3. F!NewOnesComeFirst
  <2>1. CASE acted.op = "save"
    <3>1. StaysPut(b, viewPresets, acted.op, acted.names) BY <2>1
    <3>2. PICK n : acted.names = {n} BY <2>1, <3>1 DEF StaysPut
    <3>3. (CHOOSE x \in acted.names : TRUE) = n BY <3>2
    <3>4. Head(F!Folder(viewPresets, P!Named(viewPresets, n).group)).name = n BY <2>1, <3>1, <3>2 DEF StaysPut
    <3>5. QED BY <2>1, <3>3, <3>4, SameNamed DEF F!NewOnesComeFirst
  <2>2. CASE acted.op \in {"update", "bulkMove"}
    <3>1. StaysPut(b, viewPresets, acted.op, acted.names) BY <2>2
    <3>2. NamesIn(viewPresets) = NamesIn(F!OrderViews(b)) BY <2>2, <3>1, SameOrderViews DEF StaysPut
    <3>3. acted.op # "save" BY <2>2
    <3>4. QED BY <2>2, <3>2, <3>3 DEF F!NewOnesComeFirst, NamesIn
  <2>3. CASE acted.op \notin {"save", "update", "bulkMove"} BY <2>3 DEF F!NewOnesComeFirst
  <2>4. QED BY <2>1, <2>2, <2>3
<1>4. QED BY <1>2, <1>3

LEMMA NothingIsLost ==
    ASSUME NEW b, NEW a, NEW op, op \notin {"save", "update", "bulkMove"}, NEW names,
           P!Names(b) \subseteq P!Names(a) \cup names, \A g \in Groups : SaysTheSame(b, a, g, names)
    PROVE  StaysPut(b, a, op, names)
<1>1. LostFrom(b, a, names) = {} BY DEF LostFrom
<1>2. names \cup LostFrom(b, a, names) = names BY <1>1
<1>3. QED BY <1>1, <1>2 DEF StaysPut

LEMMA InPlaceStaysPut ==
    ASSUME NEW b, Numbered(b), NEW a, NEW op \in {"update", "bulkMove"}, NEW names, KeptInPlace(b, a, names)
    PROVE  StaysPut(b, a, op, names)
<1>1. DOMAIN a = DOMAIN b /\ \A i \in DOMAIN b : a[i].name = b[i].name BY DEF KeptInPlace
<1>2. P!Names(a) = P!Names(b) BY <1>1 DEF P!Names
<1>3. LostFrom(b, a, names) = {} BY <1>2 DEF LostFrom
<1>4. names \cup LostFrom(b, a, names) = names BY <1>3
<1>5. P!OrderViews(b) = b BY NumberedIsSorted, SortedStays
<1>6. NamesIn(a) = NamesIn(P!OrderViews(b)) BY <1>1, <1>5 DEF NamesIn
<1>7. \A g \in Groups : SaysTheSame(b, a, g, names) BY DEF KeptInPlace
<1>8. QED BY <1>3, <1>4, <1>6, <1>7 DEF StaysPut

LEMMA NewOneStaysPut ==
    ASSUME NEW b, Numbered(b), OncePerName(b), NEW c, NEW n, NEW view, IsView(view), view.name \notin P!Names(b),
           view.order = P!TopOrderForGroup(b, view.group), InFront(b, c, n, view),
           NEW a, a = P!NormalizeOrders(c)
    PROVE  StaysPut(b, a, "save", {view.name})
<1> DEFINE lost == P!Names(b) \ (P!Names(c) \cup {view.name})
<1>1. P!Names(a) = P!Names(c) BY NormalizeKeepsNames DEF InFront
<1>2. LostFrom(b, a, {view.name}) = lost BY <1>1 DEF LostFrom
<1>3. lost # {} => Len(b) = MaxCollected /\ lost = {b[Len(b)].name}
  <2> HIDE DEF lost
  <2>1. lost = P!Names(b) \ (P!Names(c) \cup {view.name}) BY DEF lost
  <2>2. QED BY <2>1, SavedLosesTheLast
<1>4. ASSUME NEW g \in Groups PROVE SaysTheSame(b, a, g, {view.name} \cup lost)
  <2> HIDE DEF lost
  <2>1. lost = P!Names(b) \ (P!Names(c) \cup {view.name}) BY DEF lost
  <2>2. SaysTheSame(b, P!NormalizeOrders(c), g, {view.name} \cup lost) BY <2>1, SavedStayInOrder
  <2>3. QED BY <2>2
<1>5. Head(F!Folder(a, P!Named(a, view.name).group)).name = view.name BY SavedComesFirst
<1> HIDE DEF lost
<1>6. QED BY <1>2, <1>3, <1>4, <1>5 DEF StaysPut

\* The last operation on the collection left the rest as it was.
ActedInv == acted.op = "none" \/ StaysPut(acted.before, viewPresets, acted.op, acted.names)

LEMMA ActedOn ==
    ASSUME NEW op, NEW names, NEW new, NEW chosen, F!SetViewPresets(op, names, new, chosen),
           StaysPut(viewPresets, new, op, names)
    PROVE  ActedInv'
<1>1. acted' = [op |-> op, names |-> names, before |-> viewPresets] /\ viewPresets' = new
  BY DEF F!SetViewPresets
<1>2. acted'.op = op /\ acted'.names = names /\ acted'.before = viewPresets BY <1>1
<1>3. StaysPut(acted'.before, viewPresets', acted'.op, acted'.names) BY <1>1, <1>2
<1>4. QED BY <1>3 DEF ActedInv

LEMMA ClickActsOnNothing == ASSUME acted' = F!NoOperation PROVE ActedInv'
  BY DEF F!NoOperation, ActedInv

LEMMA SavingStaysPut ==
    ASSUME MaxCollected \in Nat \ {0}, IsCollected(viewPresets), F!SaveViewPreset
    PROVE  ActedInv'
<1> DEFINE b == viewPresets
           name == F!nextPresetName
           group == F!nextPresetGroup
           order == IF F!presetNameExists THEN F!Named(b, name).order
                    ELSE F!TopOrderForGroup(b, group)
           view == [name |-> name, group |-> group, filters |-> filters, order |-> order]
           new == F!Upsert(b, view)
           op == IF F!presetNameExists THEN "update" ELSE "save"
<1>1. F!SetViewPresets(op, {name}, new, selectedViewPresetNames) BY DEF F!SaveViewPreset
<1>2. Numbered(b) /\ IsViews(b) /\ OncePerName(b) /\ Len(b) <= MaxCollected BY DEF IsCollected, Numbered
<1>3. F!presetNameExists <=> name \in P!Names(b) BY SameNames DEF F!presetNameExists
<1>4. order = IF F!presetNameExists THEN P!Named(b, name).order ELSE P!TopOrderForGroup(b, group)
  BY SameNamed, SameTopOrder
<1>5. order \in Int
  <2>1. CASE F!presetNameExists
    <3>1. IsView(P!Named(b, name)) BY <1>2, <1>3, <2>1, NamedView
    <3>2. QED BY <1>4, <2>1, <3>1 DEF IsView
  <2>2. CASE ~F!presetNameExists BY <1>2, <1>4, <2>2, TopOrderIsInt
  <2>3. QED BY <2>1, <2>2
<1> HIDE DEF name, group, order
<1>6. IsView(view) BY <1>5 DEF IsView
<1>7. view.name = name /\ view.group = group /\ view.order = order OBVIOUS
<1> HIDE DEF view
<1>8. StaysPut(b, new, op, {name})
  <2>1. CASE F!presetNameExists
    <3>1. MaxCollected \in Nat /\ view.name \in P!Names(b) /\ view.order = P!Named(b, view.name).order
      BY <1>3, <1>4, <1>7, <2>1
    <3>2. KeptInPlace(b, new, {name}) BY <1>2, <1>6, <1>7, <3>1, UpdatedStayInPlace
    <3> HIDE DEF new
    <3>3. StaysPut(b, new, "update", {name}) BY <1>2, <3>2, InPlaceStaysPut
    <3>4. QED BY <2>1, <3>3
  <2>2. CASE ~F!presetNameExists
    <3>1. view.name \notin P!Names(b) /\ view.order = P!TopOrderForGroup(b, view.group)
      BY <1>3, <1>4, <1>7, <2>2
    <3>2. PICK c, n : InFront(b, c, n, view) /\ new = P!NormalizeOrders(c) BY <1>2, <1>6, <3>1, SavedInFront
    <3> HIDE DEF new
    <3>3. StaysPut(b, new, "save", {view.name}) BY <1>2, <1>6, <3>1, <3>2, NewOneStaysPut
    <3>4. QED BY <1>7, <2>2, <3>3
  <2>3. QED BY <2>1, <2>2
<1> HIDE DEF new, op
<1>9. QED BY <1>1, <1>8, ActedOn

LEMMA DeletingStaysPut ==
    ASSUME NEW b, Numbered(b), OncePerName(b), NEW names
    PROVE  StaysPut(b, F!NormalizeOrders(F!Without(b, names)), "delete", names)
<1> DEFINE rest == P!Without(b, names)
           a == P!NormalizeOrders(rest)
<1>1. F!NormalizeOrders(F!Without(b, names)) = a BY SameNormalize, SameParts
<1>2. \A g \in Groups : SaysTheSame(b, a, g, names) BY OthersOfDeleted
<1>3. IsViews(rest) /\ P!Names(rest) = P!Names(b) \ names BY WithoutIsShort DEF Numbered
<1> HIDE DEF rest
<1>4. P!Names(a) = P!Names(b) \ names BY <1>3, NormalizeKeepsNames
<1> HIDE DEF a
<1>5. StaysPut(b, a, "delete", names) BY <1>2, <1>4, NothingIsLost
<1>6. QED BY <1>1, <1>5

LEMMA RowsStayPut ==
    ASSUME MaxCollected \in Nat \ {0}, IsCollected(viewPresets), F!RowNext
    PROVE  ActedInv'
<1> DEFINE b == viewPresets
<1>1. Numbered(b) /\ IsViews(b) /\ OncePerName(b) /\ IsUpTo(b, MaxCollected) /\ MaxCollected \in Nat
  BY DEF IsCollected, Numbered, IsUpTo
<1>2. CASE F!ApplyViewPreset
  <2>1. acted' = F!NoOperation BY <1>2 DEF F!ApplyViewPreset, F!Click
  <2>2. QED BY <2>1, ClickActsOnNothing
<1>3. CASE F!DeleteViewPreset
  <2>1. PICK n : F!SetViewPresets("delete", {n}, F!NormalizeOrders(F!Without(b, {n})), selectedViewPresetNames \ {n})
    BY <1>3 DEF F!DeleteViewPreset
  <2>2. StaysPut(b, F!NormalizeOrders(F!Without(b, {n})), "delete", {n}) BY <1>1, DeletingStaysPut
  <2>3. QED BY <2>1, <2>2, ActedOn
<1>4. CASE F!RenameViewPreset
  <2>1. PICK n, new : /\ new \notin F!Names(b)
                      /\ F!SetViewPresets("rename", {n, new}, F!Rename(b, n, new), selectedViewPresetNames)
    BY <1>4 DEF F!RenameViewPreset
  <2> DEFINE a == P!Rename(b, n, new)
  <2>2. new \notin P!Names(b) /\ F!Rename(b, n, new) = a BY <2>1, SameNames, SameOperations
  <2>3. viewPresets' = a BY <2>1, <2>2 DEF F!SetViewPresets
  <2>4. Numbered(a) BY <1>1, <1>4, <2>3, RowsKeepTheList DEF IsCollected, F!RowNext
  <2>5. \A g \in Groups : SaysTheSame(b, a, g, {n, new}) BY <1>1, <2>2, <2>4, OthersOfRenamed
  <2>6. P!Names(b) \subseteq P!Names(a) \cup {n, new}
    <3> SUFFICES ASSUME NEW i \in DOMAIN b, b[i].name # n PROVE b[i].name \in P!Names(a)
      BY DEF P!Names
    <3>1. i \in DOMAIN a /\ a[i] = b[i] BY DEF P!Rename
    <3> HIDE DEF a
    <3>2. QED BY <3>1 DEF P!Names
  <2> HIDE DEF a
  <2>7. StaysPut(b, a, "rename", {n, new}) BY <2>5, <2>6, NothingIsLost
  <2>8. QED BY <2>1, <2>2, <2>7, ActedOn
<1>5. CASE F!UpdateViewPresetGroup
  <2>1. PICK n, to : F!SetViewPresets("group", {n}, F!UpdateGroup(b, n, to), selectedViewPresetNames)
    BY <1>5 DEF F!UpdateViewPresetGroup
  <2> DEFINE a == P!UpdateGroup(b, n, to)
  <2>2. F!UpdateGroup(b, n, to) = a BY SameUpdateGroup
  <2>3. \A g : SaysTheSame(b, a, g, {n}) /\ P!Names(a) = P!Names(b) BY <1>1, OthersOfGrouped
  <2> HIDE DEF a
  <2>4. StaysPut(b, a, "group", {n}) BY <2>3, NothingIsLost
  <2>5. QED BY <2>1, <2>2, <2>4, ActedOn
<1>6. CASE F!MoveViewPreset
  <2>1. PICK n \in F!Drawn, direction \in {-1, 1} : \E other \in F!Neighbour(b, n, direction) :
          F!SetViewPresets("move", {n, other}, F!Exchanged(b, n, other), selectedViewPresetNames)
    BY <1>6 DEF F!MoveViewPreset
  <2>2. PICK other \in P!Neighbour(b, n, direction) :
          F!SetViewPresets("move", {n, other}, P!Exchanged(b, n, other), selectedViewPresetNames)
    BY <2>1, SameExchanges
  <2>3. n \in P!Names(b) BY <1>1, DrawnAreNames
  <2>4. other \in P!Names(b)
    <3> DEFINE peers == P!OrderViews(P!OfGroup(b, P!Named(b, n).group))
    <3>1. P!Neighbour(b, n, direction) \subseteq P!Names(peers) BY DEF P!Neighbour, P!Names
    <3>2. P!Names(peers) \subseteq P!Names(b) BY <1>1, FolderInOrder DEF P!Names
    <3>3. QED BY <3>1, <3>2
  <2> DEFINE a == P!Exchanged(b, n, other)
  <2>5. \A g : SaysTheSame(b, a, g, {n, other}) /\ P!Names(a) = P!Names(b)
    BY <1>1, <2>3, <2>4, OthersOfExchanged
  <2> HIDE DEF a
  <2>6. StaysPut(b, a, "move", {n, other}) BY <2>5, NothingIsLost
  <2>7. QED BY <2>2, <2>6, ActedOn DEF a
<1>7. CASE F!DropViewPreset
  <2>1. PICK source \in F!Drawn, target \in F!Drawn :
          /\ source # target /\ F!Named(b, source).group = F!Named(b, target).group
          /\ F!SetViewPresets("drop", {source}, F!Dropped(b, source, target), selectedViewPresetNames)
    BY <1>7 DEF F!DropViewPreset
  <2> DEFINE a == P!Dropped(b, source, target)
  <2>2. F!Dropped(b, source, target) = a BY SameDropped
  <2>3. source \in P!Names(b) /\ target \in P!Names(b) BY <1>1, DrawnAreNames
  <2>4. P!Named(b, source).group = P!Named(b, target).group BY <2>1, SameNamed
  <2>5. \A g : SaysTheSame(b, a, g, {source}) /\ P!Names(a) = P!Names(b)
    BY <1>1, <2>1, <2>3, <2>4, OthersOfDropped
  <2> HIDE DEF a
  <2>6. StaysPut(b, a, "drop", {source}) BY <2>5, NothingIsLost
  <2>7. QED BY <2>1, <2>2, <2>6, ActedOn
<1>8. QED BY <1>2, <1>3, <1>4, <1>5, <1>6, <1>7 DEF F!RowNext

LEMMA PicksStayPut ==
    ASSUME MaxCollected \in Nat \ {0}, IsCollected(viewPresets), F!PickNext
    PROVE  ActedInv'
<1> DEFINE b == viewPresets
           chosen == selectedViewPresetNames
<1>1. Numbered(b) /\ OncePerName(b) BY DEF IsCollected
<1>2. CASE F!SelectRow \/ F!SelectVisible \/ F!SelectFolder \/ F!ClearSelection \/ F!AskBulkDelete
  <2>1. acted' = F!NoOperation
    BY <1>2 DEF F!SelectRow, F!SelectVisible, F!SelectFolder, F!ClearSelection, F!AskBulkDelete, F!Picking, F!Click
  <2>2. QED BY <2>1, ClickActsOnNothing
<1>3. CASE F!BulkMoveViewPresets
  <2>1. PICK to : F!SetViewPresets("bulkMove", chosen, F!MoveToGroup(b, chosen, to), chosen)
    BY <1>3 DEF F!BulkMoveViewPresets
  <2> DEFINE a == P!MoveToGroup(b, chosen, to)
  <2>2. F!MoveToGroup(b, chosen, to) = a BY SameOperations
  <2>3. KeptInPlace(b, a, chosen) BY <1>1, MovedStayInPlace
  <2> HIDE DEF a
  <2>4. StaysPut(b, a, "bulkMove", chosen) BY <1>1, <2>3, InPlaceStaysPut
  <2>5. QED BY <2>1, <2>2, <2>4, ActedOn
<1>4. CASE F!BulkDeleteViewPresets
  <2>1. F!SetViewPresets("delete", chosen, F!NormalizeOrders(F!Without(b, chosen)), {})
    BY <1>4 DEF F!BulkDeleteViewPresets
  <2>2. StaysPut(b, F!NormalizeOrders(F!Without(b, chosen)), "delete", chosen) BY <1>1, DeletingStaysPut
  <2>3. QED BY <2>1, <2>2, ActedOn
<1>5. QED BY <1>2, <1>3, <1>4 DEF F!PickNext

LEMMA EveryOperationStaysPut ==
    ASSUME MaxCollected \in Nat \ {0}, IsCollected(viewPresets), ActedInv, [F!Next]_(F!vars)
    PROVE  ActedInv'
<1>1. CASE F!FormNext
  <2>1. CASE F!SaveViewPreset BY <2>1, SavingStaysPut
  <2>2. CASE F!TypeName \/ F!TypeGroup \/ F!SetFilters \/ F!SearchViews
    <3>1. acted' = F!NoOperation
      BY <2>2 DEF F!TypeName, F!TypeGroup, F!SetFilters, F!SearchViews, F!Click
    <3>2. QED BY <3>1, ClickActsOnNothing
  <2>3. QED BY <1>1, <2>1, <2>2 DEF F!FormNext
<1>2. CASE F!RowNext BY <1>2, RowsStayPut
<1>3. CASE F!PickNext BY <1>3, PicksStayPut
<1>4. CASE F!FoldNext
  <2>1. acted' = F!NoOperation
    BY <1>4 DEF F!FoldNext, F!ToggleFolder, F!ExpandVisible, F!CollapseVisible, F!Fold, F!Click, F!Reopen
  <2>2. QED BY <2>1, ClickActsOnNothing
<1>5. CASE UNCHANGED F!vars BY <1>5 DEF F!vars, ActedInv
<1>6. QED BY <1>1, <1>2, <1>3, <1>4, <1>5 DEF F!Next
----------------------------------------------------------------------------
(* The invariant of the panel and the collection, and what they promise *)

\* The lists of the panel are short, that of the collection is numbered
\* and up to the limit, and the last operation on it left the rest as it was.
ViewsInv ==
    /\ part = "panel" => PanelInv /\ ListsOK
    /\ part = "collection" => IsCollected(viewPresets) /\ ActedInv

LEMMA ViewsInvInit == ViewsInit => ViewsInv
<1> SUFFICES ASSUME ViewsInit PROVE ViewsInv
  OBVIOUS
<1>1. Limited BY ViewsAssumption DEF Limited
<1>2. part = "panel" => PanelInv /\ ListsOK BY <1>1, PanelInit, ListsInit DEF ViewsInit
<1>3. ASSUME part = "collection" PROVE IsCollected(viewPresets) /\ ActedInv
  <2>1. F!Init BY <1>3 DEF ViewsInit
  <2>2. PICK l \in CollectedLists : viewPresets = F!ReadViews(l) BY <2>1 DEF F!Init
  <2>3. ActedInv BY <2>1 DEF F!Init, F!NoOperation, ActedInv
  <2>4. QED BY <2>2, <2>3, ViewsAssumption, ReadIsCollected
<1>4. QED BY <1>2, <1>3 DEF ViewsInv

LEMMA ViewsInvStep == ViewsInv /\ [ViewsNext]_all => ViewsInv'
<1> SUFFICES ASSUME ViewsInv, [ViewsNext]_all PROVE ViewsInv'
  OBVIOUS
<1>1. ASSUME part' = "panel" PROVE PanelInv' /\ ListsOK'
  <2>1. part = "panel" /\ PanelInv /\ ListsOK BY <1>1 DEF ViewsNext, all, ViewsInv
  <2>2. [P!Next]_(P!vars)
    BY <2>1 DEF ViewsNext, all, panelOnly, P!vars, P!list, P!picks, P!preview, P!dialogs, P!requests, P!world
  <2>3. QED BY <2>1, <2>2, PanelStep, ListsStep, ViewsAssumption DEF Limited
<1>2. ASSUME part' = "collection" PROVE IsCollected(viewPresets') /\ ActedInv'
  <2>1. part = "collection" /\ IsCollected(viewPresets) /\ ActedInv BY <1>2 DEF ViewsNext, all, ViewsInv
  <2>2. [F!Next]_(F!vars) BY <2>1 DEF ViewsNext, all, collectionOnly, F!vars, F!form, F!picks
  <2>3. MaxCollected \in Nat /\ MaxCollected \in Nat \ {0} BY ViewsAssumption
  <2>4. IsCollected(viewPresets') BY <2>1, <2>2, <2>3, CollectionStays
  <2>5. ActedInv' BY <2>1, <2>2, <2>3, EveryOperationStaysPut
  <2>6. QED BY <2>4, <2>5
<1>3. QED BY <1>1, <1>2 DEF ViewsInv

\* Whatever was sent, saved, renamed, imported and merged: in an answer of the server and in
\* the browser's lists no two views have one name, and there are at most the limit.
THEOREM NamesAreDifferent == ViewsSpec => []OneViewPerName
<1>1. ViewsInv => OneViewPerName BY AnswersStayWellFormed, PanelViewsOnce DEF ViewsInv, OneViewPerName
<1>2. QED BY <1>1, ViewsInvInit, ViewsInvStep, PTL DEF ViewsSpec

\* What is asked before a merge is true of it: every view of both lists is accounted for, as
\* merged or as dropped, and a resolved conflict keeps the views it said it would. The file of
\* an export, read again, brings back what was exported.
THEOREM PromisesAreKept == ViewsSpec => []MergesKeepTheirPromise
<1>1. ViewsInv => MergesKeepTheirPromise
  BY PromiseIsKept, CollectedFilesComeBack, ViewsAssumption DEF ViewsInv, MergesKeepTheirPromise, Limited
<1>2. QED BY <1>1, ViewsInvInit, ViewsInvStep, PTL DEF ViewsSpec

\* Orders are numbers over all folders that every operation counts anew: no save, move, drag,
\* rename, deletion or bulk operation disturbs what it was not about, hidden views too, and
\* only a new view at the limit drops one, the last. A new view comes first in its folder; one
\* that is saved again, or moved with the selection, keeps its place.
THEOREM OthersAreLeftAlone == ViewsSpec => []OthersStayPut
<1>1. ViewsInv => OthersStayPut BY StaysPutIsMeant DEF ViewsInv, ActedInv, OthersStayPut
<1>2. QED BY <1>1, ViewsInvInit, ViewsInvStep, PTL DEF ViewsSpec
=============================================================================
