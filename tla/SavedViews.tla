----------------------------- MODULE SavedViews -----------------------------
(***************************************************************************)
(* The lists of saved views of the browser: what each operation of         *)
(* features/resources/resourceViewPresets.ts makes of them.                *)
(*                                                                         *)
(* A view is [name, group, filters, order].  A name is a sequence: <<n>>,  *)
(* and <<n, 1>> for "n copy", <<n, 2>> for "n copy 2".  The time of the    *)
(* last change is left out.                                                *)
(***************************************************************************)
EXTENDS Integers, Sequences, FiniteSets, SequencesExt

CONSTANT MaxViews       \* maxResourceViewPresets

Names(list) == {list[i].name : i \in DOMAIN list}
Named(list, name) == list[CHOOSE i \in DOMAIN list : list[i].name = name]

\* Places in the order of their keys; those with the same key stay as they are.
InOrder(places, key) ==
    LET Before(i, j) == key[i] < key[j] \/ (key[i] = key[j] /\ i < j)
    IN [n \in 1..Cardinality(places) |->
           CHOOSE i \in places : Cardinality({j \in places : Before(j, i)}) = n - 1]

\* What is left of a list when only some of its places are kept.
At(list, places) ==
    LET kept == InOrder(places, [i \in places |-> i])
    IN [n \in 1..Cardinality(places) |-> list[kept[n]]]

Without(list, names) == At(list, {i \in DOMAIN list : list[i].name \notin names})
Only(list, names) == At(list, {i \in DOMAIN list : list[i].name \in names})
OfGroup(list, group) == At(list, {i \in DOMAIN list : list[i].group = group})
Cut(list) == SubSeq(list, 1, IF Len(list) < MaxViews THEN Len(list) ELSE MaxViews)

\* An order that is missing or not positive is the place in the list.
OrderOf(list, i) == IF list[i].order > 0 THEN list[i].order ELSE i

\* A stable sort by order.
OrderViews(list) ==
    LET places == InOrder(DOMAIN list, [i \in DOMAIN list |-> OrderOf(list, i)])
    IN [n \in DOMAIN list |-> [list[places[n]] EXCEPT !.order = OrderOf(list, places[n])]]

NormalizeOrders(list) ==
    LET ordered == OrderViews(list)
    IN [n \in DOMAIN list |-> [ordered[n] EXCEPT !.order = n]]

\* What is read back from the browser's storage.
ReadViews(list) == NormalizeOrders(Cut(list))

TopOrderForGroup(list, group) ==
    LET orders == {list[i].order : i \in {j \in DOMAIN list : list[j].group = group}}
    IN IF orders = {} THEN 0 ELSE (CHOOSE o \in orders : \A p \in orders : o <= p) - 1

\* Mutant: a view saved again is added in front of its older self.
UpsertTwice(list, view) == NormalizeOrders(Cut(<<view>> \o list))

\* Mutant: the new view behind the others, the limit cuts in front.
UpsertLast(list, view) ==
    LET longer == Append(Without(list, {view.name}), view)
    IN NormalizeOrders(IF Len(longer) <= MaxViews THEN longer ELSE Tail(longer))

\* The new view in front; beyond the limit the last one of the list goes.
Upsert(list, view) == NormalizeOrders(Cut(<<view>> \o Without(list, {view.name})))

Regroup(list, names, group) ==
    [i \in DOMAIN list |-> IF list[i].name \in names THEN [list[i] EXCEPT !.group = group]
                           ELSE list[i]]

\* The sort leaves nothing of the new order: every view keeps its place.
MoveToGroup(list, names, group) ==
    NormalizeOrders(Regroup(OrderViews(Only(list, names)), names, group)
                        \o OrderViews(Without(list, names)))

\* The one view before its new group; before the first view of the list there is
\* no order left (0 is none), so it stays where it was in the list.
UpdateGroup(list, name, group) ==
    LET top == TopOrderForGroup(list, group)
    IN NormalizeOrders([i \in DOMAIN list |->
           IF list[i].name = name THEN [list[i] EXCEPT !.group = group, !.order = top]
           ELSE list[i]])

Rename(list, from, to) ==
    [i \in DOMAIN list |-> IF list[i].name = from THEN [list[i] EXCEPT !.name = to] ELSE list[i]]

\* The places of some views, given by name, change and the list is sorted again.
Reordered(list, orders) ==
    NormalizeOrders([i \in DOMAIN list |->
        IF list[i].name \in DOMAIN orders THEN [list[i] EXCEPT !.order = orders[list[i].name]]
        ELSE list[i]])

\* A view and the next of its group in one direction exchange their orders.
Neighbour(list, name, direction) ==
    LET peers == OrderViews(OfGroup(list, Named(list, name).group))
        here == CHOOSE i \in DOMAIN peers : peers[i].name = name
    IN {peers[i].name : i \in DOMAIN peers \cap {here + direction}}

Exchanged(list, name, other) ==
    Reordered(list, [n \in {name, other} |->
        Named(list, IF n = name THEN other ELSE name).order])

\* The dragged view takes the place of the target in their group, counted
\* within the group only.
Dropped(list, source, target) ==
    LET peers == Without(OrderViews(OfGroup(list, Named(list, target).group)), {source})
        place == CHOOSE i \in DOMAIN peers : peers[i].name = target
        group == SubSeq(peers, 1, place - 1) \o <<Named(list, source)>>
                     \o SubSeq(peers, place, Len(peers))
    IN Reordered(list, [n \in Names(group) |-> CHOOSE i \in DOMAIN group : group[i].name = n])
----------------------------------------------------------------------------
SameView(a, b) == a.group = b.group /\ a.order = b.order /\ a.filters = b.filters

Conflicting(existing, view) ==
    view.name \in Names(existing) /\ ~SameView(Named(existing, view.name), view)

Conflicts(existing, incoming) ==
    At(incoming, {i \in DOMAIN incoming : Conflicting(existing, incoming[i])})
Duplicates(existing, incoming) ==
    At(incoming, {i \in DOMAIN incoming : /\ incoming[i].name \in Names(existing)
                                          /\ ~Conflicting(existing, incoming[i])})
News(existing, incoming) == Without(incoming, Names(existing))

\* The first free "copy", "copy 2", ...
CopiedName(name, taken) ==
    Append(name, CHOOSE k \in 1..(Cardinality(taken) + 1) :
        /\ Append(name, k) \notin taken
        /\ \A j \in 1..(k - 1) : Append(name, j) \in taken)

\* A name that is there already is not added again.
Push(list, view) == IF view.name \in Names(list) THEN list ELSE Append(list, view)

\* All of a list, one after the other: the first of each name that is not there.
PushAll(list, more) ==
    list \o At(more, {i \in DOMAIN more :
                         /\ more[i].name \notin Names(list)
                         /\ \A j \in 1..(i - 1) : more[j].name # more[i].name})

\* A conflicting view under a name that neither list has.
PushRenamed(list, existing, view) ==
    Push(list, IF Conflicting(existing, view)
               THEN [view EXCEPT !.name = CopiedName(view.name, Names(list) \cup Names(existing))]
               ELSE view)

PushAllRenamed(existing, incoming) ==
    LET pushed[n \in 0..Len(incoming)] ==
            IF n = 0 THEN <<>> ELSE PushRenamed(pushed[n - 1], existing, incoming[n])
    IN pushed[Len(incoming)]

Merged(existing, incoming, resolution) ==
    CASE resolution = "current"  -> PushAll(PushAll(<<>>, existing), News(existing, incoming))
      [] resolution = "incoming" -> PushAll(PushAll(<<>>, incoming), existing)
      [] resolution = "rename"   -> PushAll(PushAllRenamed(existing, incoming), existing)

\* Mutant: the limit counts from the end.
MergeKeepingLast(existing, incoming, resolution) ==
    LET merged == Merged(existing, incoming, resolution)
    IN NormalizeOrders(IF Len(merged) <= MaxViews THEN merged
                       ELSE SubSeq(merged, Len(merged) - MaxViews + 1, Len(merged)))

\* The limit cuts what was pushed last, before the views are sorted.
Merge(existing, incoming, resolution) ==
    NormalizeOrders(Cut(Merged(existing, incoming, resolution)))

DroppedCount(existing, incoming, resolution) ==
    LET length == Len(Merged(existing, incoming, resolution))
    IN IF length > MaxViews THEN length - MaxViews ELSE 0

\* What is shown before a load from the team or a save to it.
ComparePreview(action, local, team) ==
    LET existing == IF action = "load" THEN local ELSE team
        incoming == IF action = "load" THEN team ELSE local
    IN [action     |-> action,
        local      |-> local,
        incoming   |-> incoming,
        result     |-> Merge(existing, incoming, "incoming"),
        dropped    |-> DroppedCount(existing, incoming, "incoming"),
        news       |-> Len(News(existing, incoming)),
        conflicts  |-> Len(Conflicts(existing, incoming)),
        duplicates |-> Len(Duplicates(existing, incoming)),
        localOnly  |-> Names(local) \ Names(team),
        teamOnly   |-> Names(team) \ Names(local)]
=============================================================================
