----------------------- MODULE ResourceExplorerProofs -----------------------
(***************************************************************************)
(* Theorems about ResourceExplorer: for any resources, orders, topologies  *)
(* and lists, once the effects have run, the explorer, the app, the        *)
(* browser's history and the stored preference agree, and only rows on the *)
(* screen are checked.                                                     *)
(***************************************************************************)
EXTENDS ResourceExplorer, SequenceTheorems, TLAPS

LEMMA RenderDue ==
    ASSUME NEW left, Rendered(left), NEW e \in Effects, e \notin due'
    PROVE  e \notin left /\ DependsOn(e)' = DependsOn(e)
BY DEF Rendered

LEMMA EffectsDue ==
    ASSUME NEW left, Rendered(left)
    PROVE  /\ left \subseteq due'
           /\ "list" \notin due' => UNCHANGED <<filters, sort, snapshot, source>>
           /\ "reconcile" \notin due' => UNCHANGED <<SelectedRow, Rows, batch>>
           /\ "store" \notin due' => UNCHANGED sort
           /\ "apply" \notin due' => UNCHANGED urlFilters
           /\ "report" \notin due' => UNCHANGED <<filters, source>>
           /\ "normalize" \notin due' => UNCHANGED batch
<1>1. left \subseteq due' BY DEF Rendered
<1>2. "list" \notin due' => UNCHANGED <<filters, sort, snapshot, source>>
  BY RenderDue DEF Effects, DependsOn
<1>3. "reconcile" \notin due' => UNCHANGED <<SelectedRow, Rows, batch>>
  BY RenderDue DEF Effects, DependsOn
<1>4. "store" \notin due' => UNCHANGED sort BY RenderDue DEF Effects, DependsOn
<1>5. "apply" \notin due' => UNCHANGED urlFilters BY RenderDue DEF Effects, DependsOn
<1>6. "report" \notin due' => UNCHANGED <<filters, source>> BY RenderDue DEF Effects, DependsOn
<1>7. "normalize" \notin due' => UNCHANGED batch BY RenderDue DEF Effects, DependsOn
<1>8. QED BY <1>1, <1>2, <1>3, <1>4, <1>5, <1>6, <1>7
----------------------------------------------------------------------------
(* The rows that are checked *)

\* Rows change only in a render after which the selection is reconciled.
ChecksInv == "reconcile" \notin due => checked \subseteq RowIds

LEMMA SameRows ==
    ASSUME UNCHANGED Rows
    PROVE  RowIds' = RowIds
BY DEF RowIds

LEMMA RowsMake ==
    ASSUME NEW left, Rendered(left), ChecksInv,
           (left = {} /\ Settled) \/ left = due,
           checked' = checked \/ checked' \subseteq checked \cup RowIds
    PROVE  ChecksInv'
<1> SUFFICES ASSUME "reconcile" \notin due' PROVE checked' \subseteq RowIds'
  BY DEF ChecksInv
<1>1. "reconcile" \notin due BY EffectsDue DEF Settled
<1>2. checked \subseteq RowIds BY <1>1 DEF ChecksInv
<1>3. RowIds' = RowIds BY EffectsDue, SameRows
<1>4. QED BY <1>2, <1>3

LEMMA ChecksStep ==
    ASSUME ChecksInv, [Next]_vars
    PROVE  ChecksInv'
<1>1. CASE UNCHANGED vars
  <2>1. checked' = checked /\ due' = due BY <1>1 DEF vars, selection
  <2>2. UNCHANGED Rows
    <3>1. sort' = sort /\ resources' = resources /\ filters' = filters BY <1>1 DEF vars, list
    <3>2. QED BY <3>1, Zenon DEF Rows
  <2>3. QED BY <2>1, <2>2, SameRows DEF ChecksInv
<1>2. CASE Flush
  <2> SUFFICES ASSUME "reconcile" \notin due' PROVE checked' \subseteq RowIds'
    BY DEF ChecksInv
  <2>1. checked' = Reconciled /\ Rendered({}) BY <1>2 DEF Flush
  <2>2. RowIds' = RowIds BY <2>1, EffectsDue, SameRows
  <2>3. Reconciled \subseteq RowIds BY DEF Reconciled, ChecksInv
  <2>4. QED BY <2>1, <2>2, <2>3
<1>3. CASE ListAnswer BY <1>3, RowsMake DEF ListAnswer, selection
<1>4. CASE ListError BY <1>4, RowsMake DEF ListError, selection
<1>5. CASE TopologyAnswer BY <1>5, RowsMake DEF TopologyAnswer, selection
<1>6. CASE Panels
  <2>1. ASSUME NEW f, Filter(f) PROVE ChecksInv' BY <2>1, RowsMake DEF Filter, Event, selection
  <2>2. ASSUME NEW s, Sort(s) PROVE ChecksInv' BY <2>2, RowsMake DEF Sort, Event, selection
  <2>3. CASE ResetFilters BY <2>3, RowsMake DEF ResetFilters, Event, selection
  <2>4. QED BY <1>6, <2>1, <2>2, <2>3 DEF Panels, TypeQuery, PickFilter, ChangeSort
<1>7. CASE RowsPanel
  <2>1. ASSUME NEW id, NEW ids, NEW from, Select(id, ids, from), ids \subseteq checked \cup RowIds
        PROVE  ChecksInv'
    BY <2>1, RowsMake DEF Select, Event
  <2>2. CASE ClickRow BY <2>1, <2>2 DEF ClickRow
  <2>3. ASSUME NEW id, RangeTo(id) PROVE ChecksInv'
    <3>1. PICK K \in SUBSET DOMAIN Rows :
                 \E from : Select(id, checked \cup {Rows[i] : i \in K}, from)
      BY <2>3, Zenon DEF RangeTo
    <3>2. {Rows[i] : i \in K} \subseteq RowIds BY DEF RowIds, Range
    <3>3. PICK from : Select(id, checked \cup {Rows[i] : i \in K}, from) BY <3>1
    <3>4. QED BY <3>3, <3>2, <2>1
  <2>4. CASE MoveByKey BY <2>1, <2>3, <2>4 DEF MoveByKey, Move
  <2>5. CASE ToggleCheck
    <3>1. PICK id \in RowIds :
            Select(selectedNodeId, IF id \in checked THEN checked \ {id} ELSE checked \cup {id}, id)
      BY <2>5 DEF ToggleCheck
    <3>2. (IF id \in checked THEN checked \ {id} ELSE checked \cup {id}) \subseteq checked \cup RowIds
      OBVIOUS
    <3>3. QED BY <3>1, <3>2, <2>1
  <2>6. CASE SelectAll BY <2>1, <2>6 DEF SelectAll
  <2>7. CASE ClearChecks BY <2>1, <2>7 DEF ClearChecks
  <2>8. QED BY <1>7, <2>2, <2>4, <2>5, <2>6, <2>7 DEF RowsPanel
<1>8. CASE Browser
  <2>1. CASE ChangeFilterBar BY <2>1, RowsMake DEF ChangeFilterBar, Event, selection
  <2>2. CASE ChangeSource BY <2>2, RowsMake DEF ChangeSource, Event, selection
  <2>3. CASE Upload BY <2>3, RowsMake DEF Upload, Event, selection
  <2>4. CASE Travel BY <2>4, RowsMake DEF Travel, Event, selection
  <2>5. CASE Reload BY <2>5 DEF Reload, ChecksInv
  <2>6. QED BY <1>8, <2>1, <2>2, <2>3, <2>4, <2>5 DEF Browser
<1>9. QED BY <1>1, <1>2, <1>3, <1>4, <1>5, <1>6, <1>7, <1>8 DEF Next

\* A bulk action takes only rows that are on the screen: whatever hides a row unchecks it
\* before the next click (reconcileResourceSelection, useResourceBulkSelectionController.ts).
THEOREM CheckedIsOnScreen == Spec => []ChecksAreOnScreen
<1>1. Init => ChecksInv BY DEF Init, ChecksInv
<1>2. ChecksInv => ChecksAreOnScreen BY DEF ChecksInv, ChecksAreOnScreen, Settled
<1>3. QED BY <1>1, <1>2, ChecksStep, PTL DEF Spec
----------------------------------------------------------------------------
(* The filters, the address and the history *)

IsFilters(f) == f = [x \in DOMAIN DefaultFilters |-> f[x]]

\* The entry the browser is at is the address, and its neighbours are of other sources: Back
\* and Forward always change the source.
HistoryOK ==
    /\ entries \in Seq(Range(entries)) /\ position \in DOMAIN entries
    /\ entries[position].source = source /\ entries[position].filters = urlFilters
    /\ \A i \in DOMAIN entries : IsFilters(entries[i].filters)
    /\ \A i, j \in DOMAIN entries : j = i + 1 => entries[i].source # entries[j].source

\* An address that is still to be applied came with a source whose list is still to be made.
AddressOK ==
    /\ IsFilters(filters) /\ applying = FALSE
    /\ "report" \notin due => urlFilters = filters
    /\ "apply" \in due /\ propFilters # urlFilters =>
         "report" \in due /\ "list" \in due /\ "normalize" \notin due

StoredOK == "store" \notin due => storedSort = sort

OfferedOK ==
    /\ batch \in BOOLEAN /\ waiting \in BOOLEAN
    /\ "normalize" \notin due /\ "list" \notin due /\ ~waiting /\ resources # {} =>
         \A x \in Selects : filters[x] \in offered[x] \cup {AllValue}

AgreeInv == HistoryOK /\ AddressOK /\ StoredOK /\ OfferedOK

LEMMA FilterKeys ==
    /\ DOMAIN DefaultFilters = Selects \cup {"query"} /\ Selects = {"namespace", "kind", "status"}
    /\ IsFilters(DefaultFilters)
    /\ \A x \in Selects : DefaultFilters[x] = AllValue
BY DEF DefaultFilters, Selects, IsFilters

LEMMA FiltersEdited ==
    ASSUME NEW f, IsFilters(f), NEW x \in DOMAIN DefaultFilters, NEW v
    PROVE  IsFilters([f EXCEPT ![x] = v])
<1> DEFINE g == [f EXCEPT ![x] = v]
<1>1. DOMAIN f = DOMAIN DefaultFilters BY DEF IsFilters
<1>2. g = [y \in DOMAIN DefaultFilters |-> IF y = x THEN v ELSE f[y]] BY <1>1
<1> HIDE DEF g
<1>3. g = [y \in DOMAIN DefaultFilters |-> g[y]] BY <1>2
<1>4. QED BY <1>3 DEF g, IsFilters

\* What "normalize" leaves of the filters.
LEMMA NormalizedFilters ==
    ASSUME NEW f, IsFilters(f)
    PROVE  /\ IsFilters(Normalized(f))
           /\ "normalize" \notin due => Normalized(f) = f
           /\ "normalize" \in due /\ resources # {} =>
                \A x \in Selects : Normalized(f)[x] \in offered[x] \cup {AllValue}
<1>1. CASE "normalize" \notin due \/ resources = {} BY <1>1 DEF Normalized
<1>2. CASE ~("normalize" \notin due \/ resources = {})
  <2> DEFINE g == Normalized(f)
             Value(x) == IF x \in Selects /\ f[x] \notin offered[x] THEN AllValue ELSE f[x]
  <2>1. DOMAIN f = DOMAIN DefaultFilters BY DEF IsFilters
  <2>2. g = [x \in DOMAIN DefaultFilters |-> Value(x)] BY <1>2, <2>1, Zenon DEF Normalized
  <2>3. \A x \in Selects : Value(x) \in offered[x] \cup {AllValue} OBVIOUS
  <2> HIDE DEF Value, g
  <2>4. \A x \in DOMAIN DefaultFilters : g[x] = Value(x) BY <2>2
  <2>5. IsFilters(g) BY <2>2, <2>4 DEF IsFilters
  <2>6. \A x \in Selects : g[x] \in offered[x] \cup {AllValue} BY <2>3, <2>4, FilterKeys
  <2>7. QED BY <1>2, <2>5, <2>6 DEF g
<1>3. QED BY <1>1, <1>2

LEMMA ASequence ==
    ASSUME NEW S, NEW s \in Seq(S)
    PROVE  s \in Seq(Range(s))
<1>1. s \in [1..Len(s) -> S] /\ Len(s) \in Nat OBVIOUS
<1>2. s \in [1..Len(s) -> Range(s)] BY <1>1 DEF Range
<1>3. QED BY <1>1, <1>2

\* A step that leaves the history and the address alone
LEMMA HistoryStays ==
    ASSUME HistoryOK, UNCHANGED <<entries, position, source, urlFilters>>
    PROVE  HistoryOK'
BY DEF HistoryOK, Range

\* A step to another source, which forgets what was ahead
LEMMA HistoryPushed ==
    ASSUME HistoryOK, NEW s, s # source,
           entries' = Append(SubSeq(entries, 1, position), [source |-> s, filters |-> urlFilters]),
           position' = position + 1, source' = s, urlFilters' = urlFilters
    PROVE  HistoryOK'
<1> DEFINE e == [source |-> s, filters |-> urlFilters]
           past == SubSeq(entries, 1, position)
           S == Range(entries) \cup {e}
<1>1. entries \in Seq(Range(entries)) /\ position \in DOMAIN entries BY DEF HistoryOK
<1>2. DOMAIN entries = 1..Len(entries) /\ Len(entries) \in Nat BY <1>1
<1>3. position \in 1..Len(entries) /\ \A i \in 1..position : entries[i] \in S
  BY <1>1, <1>2 DEF Range
<1>4. past \in Seq(S) /\ Len(past) = position /\ \A i \in 1..position : past[i] = entries[i]
  <2>1. /\ past \in Seq(S) /\ Len(past) = (IF 1 <= position THEN position - 1 + 1 ELSE 0)
        /\ \A i \in 1..(position - 1 + 1) : past[i] = entries[1 + i - 1]
    BY <1>3, <1>2, SubSeqProperties
  <2>2. QED BY <2>1, <1>2, <1>3
<1>5. /\ entries' \in Seq(S) /\ Len(entries') = position + 1
      /\ \A i \in 1..position : entries'[i] = entries[i]
      /\ entries'[position + 1] = e
  BY <1>4, AppendProperties DEF S
<1>6. entries' \in Seq(Range(entries')) BY <1>5, ASequence
<1>7. DOMAIN entries' = 1..(position + 1) BY <1>5
<1>8. position' \in DOMAIN entries' /\ entries'[position'] = e BY <1>7, <1>5, <1>2, <1>3
<1>9. \A i \in DOMAIN entries' : IsFilters(entries'[i].filters)
  <2>1. IsFilters(urlFilters) BY <1>1 DEF HistoryOK
  <2>2. \A i \in 1..position : IsFilters(entries'[i].filters) BY <1>2, <1>3, <1>5 DEF HistoryOK
  <2>3. QED BY <1>2, <1>3, <1>5, <1>7, <2>1, <2>2
<1>10. ASSUME NEW i \in DOMAIN entries', NEW j \in DOMAIN entries', j = i + 1
       PROVE  entries'[i].source # entries'[j].source
  <2>1. i \in 1..position /\ j \in 1..(position + 1) BY <1>7, <1>10, <1>2, <1>3
  <2>2. CASE j \in 1..position
    BY <2>1, <2>2, <1>2, <1>3, <1>5, <1>10 DEF HistoryOK
  <2>3. CASE j = position + 1
    <3>1. i = position BY <2>1, <2>3, <1>10, <1>2, <1>3
    <3>2. entries'[i].source = source BY <3>1, <2>1, <1>5 DEF HistoryOK
    <3>3. QED BY <2>3, <3>2, <1>5
  <2>4. QED BY <2>1, <2>2, <2>3, <1>2, <1>3
<1>11. e.source = source' /\ e.filters = urlFilters' OBVIOUS
<1> HIDE DEF e
<1>12. entries'[position'].source = source' /\ entries'[position'].filters = urlFilters'
  BY <1>8, <1>11
<1>13. QED BY <1>6, <1>8, <1>9, <1>10, <1>12 DEF HistoryOK

\* Filters that are reported to the address of the entry
LEMMA HistoryReported ==
    ASSUME HistoryOK, NEW f, IsFilters(f), entries' = ReplaceEntry(f),
           UNCHANGED <<position, source>>, urlFilters' = f
    PROVE  HistoryOK'
<1> DEFINE e == [source |-> source, filters |-> f]
           S == Range(entries) \cup {e}
<1>1. /\ entries \in Seq(Range(entries)) /\ position \in DOMAIN entries
      /\ DOMAIN entries = 1..Len(entries) /\ Len(entries) \in Nat
  BY DEF HistoryOK
<1>2. entries \in Seq(S) BY <1>1
<1>3. entries' = [entries EXCEPT ![position] = e] BY DEF ReplaceEntry
<1>4. entries' \in Seq(S) BY <1>1, <1>2, <1>3 DEF S
<1>5. entries' \in Seq(Range(entries')) BY <1>4, ASequence
<1>6. DOMAIN entries' = DOMAIN entries /\ entries'[position] = e BY <1>1, <1>3
<1>7. \A i \in DOMAIN entries : i # position => entries'[i] = entries[i] BY <1>1, <1>3
<1>8. \A i \in DOMAIN entries : entries'[i].source = entries[i].source
  BY <1>6, <1>7 DEF HistoryOK
<1>9. \A i \in DOMAIN entries : IsFilters(entries'[i].filters) BY <1>6, <1>7 DEF HistoryOK
<1>10. QED BY <1>5, <1>6, <1>1, <1>8, <1>9 DEF HistoryOK

\* The effects that a step may find due, and those it cannot add
Left(S) == (S = {} /\ Settled) \/ S = due

LEMMA DueAfter ==
    ASSUME NEW left, Rendered(left), Left(left)
    PROVE  /\ \A e \in due : left # {} => e \in due'
           /\ \A e \in Effects : e \in due' \ due => DependsOn(e)' # DependsOn(e)
           /\ "apply" \in due' \ due => urlFilters' # urlFilters
           /\ "normalize" \in due' \ due => batch' # batch
           /\ "store" \notin due' => "store" \notin due
           /\ "report" \notin due' => "report" \notin due
           /\ "normalize" \notin due' => "normalize" \notin due
           /\ "list" \notin due' => "list" \notin due
           /\ "reconcile" \notin due' => "reconcile" \notin due
<1>1. \A e \in due : left # {} => e \in due' BY DEF Rendered, Left
<1>2. \A e \in Effects : e \in due' \ due => DependsOn(e)' # DependsOn(e)
  BY DEF Rendered, Left, Settled
<1>3. "apply" \in due' \ due => urlFilters' # urlFilters BY <1>2 DEF Effects, DependsOn
<1>4. "normalize" \in due' \ due => batch' # batch BY <1>2 DEF Effects, DependsOn
<1>5. due \subseteq due' BY DEF Rendered, Left, Settled
<1>6. QED BY <1>1, <1>2, <1>3, <1>4, <1>5

\* A step that leaves the address and the rows alone
LEMMA AddressStays ==
    ASSUME AddressOK, NEW left, Rendered(left), Left(left), IsFilters(filters'),
           UNCHANGED <<propFilters, applying, urlFilters>>,
           UNCHANGED batch \/ "list" \notin due
    PROVE  AddressOK'
<1>1. "report" \notin due' => urlFilters' = filters' BY DueAfter, EffectsDue DEF AddressOK
<1>2. ASSUME "apply" \in due', propFilters' # urlFilters'
      PROVE  "report" \in due' /\ "list" \in due' /\ "normalize" \notin due'
  <2>1. "apply" \in due BY <1>2, DueAfter
  <2>2. "report" \in due /\ "list" \in due /\ "normalize" \notin due BY <2>1, <1>2 DEF AddressOK
  <2>3. QED BY <2>2, DueAfter
<1>3. QED BY <1>1, <1>2 DEF AddressOK

\* A step that sets no filter but one that is offered
LEMMA OfferedStays ==
    ASSUME OfferedOK, NEW left, Rendered(left), Left(left),
           UNCHANGED <<resources, offered, batch, waiting>>,
           \/ filters' = filters
           \/ \A x \in Selects : filters'[x] \in offered[x] \cup {AllValue, filters[x]}
    PROVE  OfferedOK'
<1>1. batch' \in BOOLEAN /\ waiting' \in BOOLEAN BY DEF OfferedOK
<1>2. ASSUME "normalize" \notin due', "list" \notin due', ~waiting', resources' # {}
      PROVE  \A x \in Selects : filters'[x] \in offered'[x] \cup {AllValue}
  <2>1. \A x \in Selects : filters[x] \in offered[x] \cup {AllValue}
    BY <1>2, DueAfter DEF OfferedOK
  <2>2. QED BY <2>1
<1>3. QED BY <1>1, <1>2 DEF OfferedOK

LEMMA StoredStays ==
    ASSUME StoredOK, NEW left, Rendered(left), Left(left), UNCHANGED storedSort
    PROVE  StoredOK'
BY DueAfter, EffectsDue DEF StoredOK

LEMMA AgreeStays ==
    ASSUME AgreeInv, NEW left, Rendered(left), Left(left),
           UNCHANGED <<storedSort, propFilters, applying, urlFilters, entries, position, source,
                       filters, resources, offered, batch, waiting>>
    PROVE  AgreeInv'
<1>1. HistoryOK' BY HistoryStays DEF AgreeInv
<1>2. AddressOK' BY AddressStays DEF AgreeInv, AddressOK
<1>3. StoredOK' BY StoredStays DEF AgreeInv
<1>4. OfferedOK' BY OfferedStays DEF AgreeInv
<1>5. QED BY <1>1, <1>2, <1>3, <1>4 DEF AgreeInv

LEMMA FlushAgrees ==
    ASSUME AgreeInv, Flush
    PROVE  AgreeInv'
<1> DEFINE f == IF Applies THEN urlFilters ELSE filters
<1>1. HistoryOK /\ AddressOK /\ StoredOK /\ OfferedOK BY DEF AgreeInv
<1>2. /\ Rendered({}) /\ filters' = Normalized(f)
      /\ propFilters' = IF Reports THEN filters ELSE IF Applies THEN urlFilters ELSE propFilters
      /\ urlFilters' = IF Reports THEN filters ELSE urlFilters
      /\ entries' = IF Reports THEN ReplaceEntry(filters) ELSE entries
      /\ UNCHANGED <<source, position, sort>>
  BY DEF Flush
<1>3. applying' = ((Applies \/ applying) /\ "report" \notin due) BY Zenon DEF Flush
<1>4. applying = FALSE BY <1>1 DEF AddressOK
<1>5. Applies => "report" \in due /\ "list" \in due /\ "normalize" \notin due
  BY <1>1 DEF Applies, AddressOK
<1>6. applying' = FALSE BY <1>3, <1>4, <1>5
<1>7. Reports <=> "report" \in due /\ ~Applies BY <1>4, Zenon DEF Reports
<1>8. IsFilters(filters) /\ IsFilters(urlFilters)
  BY <1>1 DEF AddressOK, HistoryOK
<1>9. IsFilters(f) BY <1>8
<1> HIDE DEF f
<1>10. /\ IsFilters(filters')
       /\ "normalize" \notin due => filters' = f
       /\ "normalize" \in due /\ resources # {} =>
            \A x \in Selects : filters'[x] \in offered[x] \cup {AllValue}
  BY <1>2, <1>9, NormalizedFilters
<1>11. HistoryOK'
  <2>1. CASE Reports BY <1>1, <1>2, <1>8, <2>1, HistoryReported
  <2>2. CASE ~Reports BY <1>1, <1>2, <2>2, HistoryStays
  <2>3. QED BY <2>1, <2>2
<1>12. AddressOK'
  <2>1. ASSUME "report" \notin due' PROVE urlFilters' = filters'
    <3>1. filters' = filters BY <1>2, <2>1, EffectsDue
    <3>2. CASE Reports BY <3>1, <3>2, <1>2
    <3>3. CASE Applies BY <3>3, <1>2, <1>5, <1>7, <1>10 DEF f
    <3>4. CASE ~Reports /\ ~Applies
      <4>1. "report" \notin due BY <3>4, <1>7
      <4>2. QED BY <3>1, <3>4, <4>1, <1>1, <1>2 DEF AddressOK
    <3>5. QED BY <3>2, <3>3, <3>4
  <2>2. "apply" \in due' => propFilters' = urlFilters'
    <3>1. "apply" \in due' => urlFilters' # urlFilters BY <1>2 DEF Rendered, Effects, DependsOn
    <3>2. QED BY <3>1, <1>2
  <2>3. QED BY <1>6, <1>10, <2>1, <2>2 DEF AddressOK
<1>13. StoredOK'
  <2>1. storedSort' = SortPreference BY DEF Flush
  <2>2. QED BY <1>1, <1>2, <2>1 DEF StoredOK, SortPreference
<1>14. OfferedOK'
  <2>1. waiting' = IF "list" \in due THEN ~ShowsLocal ELSE waiting BY Zenon DEF Flush
  <2>2. IF "list" \in due /\ ShowsLocal THEN batch' = ~batch ELSE offered' = offered /\ batch' = batch
    BY DEF Flush
  <2>3. resources' = IF "list" \in due /\ ShowsLocal THEN Range(Shown) ELSE resources
    BY DEF Flush, ResourcesAfter
  <2>4. waiting' \in BOOLEAN
    <3>1. ShowsLocal \in BOOLEAN BY DEF ShowsLocal
    <3>2. waiting \in BOOLEAN BY <1>1 DEF OfferedOK
    <3>3. CASE "list" \in due
      <4>1. waiting' = ~ShowsLocal BY <2>1, <3>3
      <4>2. QED BY <4>1
    <3>4. CASE "list" \notin due BY <2>1, <3>2, <3>4
    <3>5. QED BY <3>3, <3>4
  <2>5. batch \in BOOLEAN /\ batch' \in BOOLEAN BY <1>1, <2>2 DEF OfferedOK
  <2>6. ASSUME "normalize" \notin due', "list" \notin due', ~waiting', resources' # {}
        PROVE  \A x \in Selects : filters'[x] \in offered'[x] \cup {AllValue}
    <3>1. filters' = filters /\ batch' = batch BY <1>2, <2>6, EffectsDue
    <3>2. ~("list" \in due /\ ShowsLocal) BY <2>2, <2>5, <3>1
    <3>3. "list" \notin due
      <4>1. SUFFICES ASSUME "list" \in due PROVE FALSE
        OBVIOUS
      <4>2. waiting' = ~ShowsLocal BY <4>1, <2>1
      <4>3. QED BY <4>1, <4>2, <3>2, <2>6
    <3>4. offered' = offered /\ resources' = resources /\ waiting' = waiting
      <4>1. waiting' = waiting BY <3>3, <2>1
      <4>2. QED BY <4>1, <3>3, <2>2, <2>3
    <3>5. CASE "normalize" \in due BY <3>4, <3>5, <2>6, <1>10
    <3>6. CASE "normalize" \notin due
      <4>1. ~waiting /\ resources # {} BY <3>4, <2>6
      <4>2. QED BY <1>1, <3>1, <3>3, <3>4, <3>6, <4>1 DEF OfferedOK
    <3>7. QED BY <3>5, <3>6
  <2>7. QED BY <2>4, <2>5, <2>6 DEF OfferedOK
<1>15. QED BY <1>11, <1>12, <1>13, <1>14 DEF AgreeInv

LEMMA PanelsAgree ==
    ASSUME AgreeInv, Panels
    PROVE  AgreeInv'
<1>1. HistoryOK /\ AddressOK /\ StoredOK /\ OfferedOK BY DEF AgreeInv
<1>2. IsFilters(filters) BY <1>1 DEF AddressOK
<1>3. ASSUME NEW f, Filter(f), IsFilters(f),
             \A x \in Selects : f[x] \in offered[x] \cup {AllValue, filters[x]}
      PROVE  AgreeInv'
  <2>1. /\ Left({}) /\ Rendered({}) /\ filters' = f
        /\ UNCHANGED <<storedSort, propFilters, applying, urlFilters, entries, position, source>>
        /\ UNCHANGED <<resources, offered, batch, waiting>>
    BY <1>3 DEF Filter, Event, Left, app, refs
  <2>2. HistoryOK' BY <1>1, <2>1, HistoryStays
  <2>3. AddressOK' BY <1>1, <1>3, <2>1, AddressStays
  <2>4. StoredOK' BY <1>1, <2>1, StoredStays
  <2>5. OfferedOK' BY <1>1, <1>3, <2>1, OfferedStays
  <2>6. QED BY <2>2, <2>3, <2>4, <2>5 DEF AgreeInv
<1>4. CASE TypeQuery
  <2>1. PICK q : Filter([filters EXCEPT !.query = q]) BY <1>4 DEF TypeQuery
  <2> DEFINE f == [filters EXCEPT !.query = q]
  <2>2. IsFilters(f) BY <1>2, FiltersEdited, FilterKeys
  <2>3. \A x \in Selects : f[x] = filters[x] BY <1>2, FilterKeys DEF IsFilters
  <2> HIDE DEF f
  <2>4. QED BY <1>3, <2>1, <2>2, <2>3 DEF f
<1>5. CASE PickFilter
  <2> PICK y \in Selects : \E v \in offered[y] \cup {AllValue} : Filter([filters EXCEPT ![y] = v])
    BY <1>5 DEF PickFilter
  <2>1. PICK v \in offered[y] \cup {AllValue} : Filter([filters EXCEPT ![y] = v])
    OBVIOUS
  <2> DEFINE f == [filters EXCEPT ![y] = v]
  <2>2. IsFilters(f) BY <1>2, FiltersEdited, FilterKeys
  <2>3. \A x \in Selects : f[x] = IF x = y THEN v ELSE filters[x]
    BY <1>2, FilterKeys DEF IsFilters
  <2> HIDE DEF f
  <2>4. QED BY <1>3, <2>1, <2>2, <2>3 DEF f
<1>6. CASE ResetFilters
  <2>1. /\ Left({}) /\ Rendered({}) /\ filters' = DefaultFilters
        /\ UNCHANGED <<storedSort, propFilters, applying, urlFilters, entries, position, source>>
        /\ UNCHANGED <<resources, offered, batch, waiting>>
    BY <1>6 DEF ResetFilters, Event, Left, refs
  <2>2. HistoryOK' BY <1>1, <2>1, HistoryStays
  <2>3. AddressOK' BY <1>1, <2>1, AddressStays, FilterKeys
  <2>4. StoredOK' BY <1>1, <2>1, StoredStays
  <2>5. \A x \in Selects : filters'[x] = AllValue BY <2>1, FilterKeys
  <2>6. OfferedOK' BY <1>1, <2>1, <2>5, OfferedStays
  <2>7. QED BY <2>2, <2>3, <2>4, <2>6 DEF AgreeInv
<1>7. CASE ChangeSort
  <2>1. PICK s : Sort(s) BY <1>7 DEF ChangeSort
  <2>2. QED BY <2>1, AgreeStays DEF Sort, Event, Left, app, refs
<1>8. QED BY <1>4, <1>5, <1>6, <1>7 DEF Panels

LEMMA RowsPanelAgrees ==
    ASSUME AgreeInv, RowsPanel
    PROVE  AgreeInv'
<1>1. ASSUME NEW id, NEW ids, NEW from, Select(id, ids, from) PROVE AgreeInv'
  BY <1>1, AgreeStays DEF Select, Event, Left, list, refs
<1>2. ASSUME NEW id, RangeTo(id) PROVE AgreeInv'
  <2>1. PICK ids, from : Select(id, ids, from) BY <1>2, Zenon DEF RangeTo
  <2>2. QED BY <2>1, <1>1
<1>3. QED BY <1>1, <1>2 DEF RowsPanel, ClickRow, MoveByKey, Move, ToggleCheck, SelectAll, ClearChecks

LEMMA AnswersAgree ==
    ASSUME AgreeInv, ListAnswer \/ ListError
    PROVE  AgreeInv'
<1>1. HistoryOK /\ AddressOK /\ StoredOK /\ OfferedOK BY DEF AgreeInv
<1>2. /\ Rendered(due) /\ Left(due) /\ "list" \notin due /\ batch' = ~batch /\ waiting' = FALSE
      /\ UNCHANGED <<storedSort, propFilters, applying, urlFilters, entries, position, source, filters>>
  BY DEF ListAnswer, ListError, Left, app, refs
<1>3. HistoryOK' BY <1>1, <1>2, HistoryStays
<1>4. AddressOK' BY <1>1, <1>2, AddressStays DEF AddressOK
<1>5. StoredOK' BY <1>1, <1>2, StoredStays
<1>6. OfferedOK'
  <2>1. batch \in BOOLEAN BY <1>1 DEF OfferedOK
  <2>2. batch' # batch /\ batch' \in BOOLEAN BY <2>1, <1>2
  <2>3. "normalize" \in due' BY <2>2, <1>2, EffectsDue
  <2>4. QED BY <2>2, <2>3, <1>2 DEF OfferedOK
<1>7. QED BY <1>3, <1>4, <1>5, <1>6 DEF AgreeInv

LEMMA BrowserAgrees ==
    ASSUME AgreeInv, Browser
    PROVE  AgreeInv'
<1>1. HistoryOK /\ AddressOK /\ StoredOK /\ OfferedOK BY DEF AgreeInv
<1>2. IsFilters(filters) BY <1>1 DEF AddressOK
<1>3. ASSUME Left({}), Rendered({}), HistoryOK', AddressOK',
             UNCHANGED <<storedSort, filters, resources, offered, batch, waiting>>
      PROVE  AgreeInv'
  BY <1>1, <1>3, StoredStays, OfferedStays DEF AgreeInv
<1>4. CASE ChangeFilterBar BY <1>4, AgreeStays DEF ChangeFilterBar, Event, Left, list, refs
<1>5. CASE ChangeSource
  <2>1. PICK s \in Sources \ {source} :
          /\ source' = s /\ position' = position + 1
          /\ entries' = Append(SubSeq(entries, 1, position), [source |-> s, filters |-> urlFilters])
          /\ Left({}) /\ Rendered({})
          /\ UNCHANGED <<urlFilters, propFilters, applying>>
          /\ UNCHANGED <<storedSort, filters, resources, offered, batch, waiting>>
    BY <1>5 DEF ChangeSource, Event, Left, list, refs
  <2>2. HistoryOK' BY <1>1, <2>1, HistoryPushed
  <2>3. AddressOK' BY <1>1, <1>2, <2>1, AddressStays
  <2>4. QED BY <1>3, <2>1, <2>2, <2>3
<1>6. CASE Upload
  <2>1. /\ source' = "upload" /\ Left({}) /\ Rendered({})
        /\ position' = IF source = "upload" THEN position ELSE position + 1
        /\ entries' = IF source = "upload" THEN entries ELSE
             Append(SubSeq(entries, 1, position), [source |-> "upload", filters |-> urlFilters])
        /\ UNCHANGED <<urlFilters, propFilters, applying>>
        /\ UNCHANGED <<storedSort, filters, resources, offered, batch, waiting>>
    BY <1>6 DEF Upload, Event, Left, list, refs
  <2>2. HistoryOK'
    <3>1. CASE source = "upload" BY <3>1, <1>1, <2>1, HistoryStays
    <3>2. CASE source # "upload" BY <3>2, <1>1, <2>1, HistoryPushed
    <3>3. QED BY <3>1, <3>2
  <2>3. AddressOK' BY <1>1, <1>2, <2>1, AddressStays
  <2>4. QED BY <1>3, <2>1, <2>2, <2>3
<1>7. CASE Travel
  <2>1. PICK p \in DOMAIN entries \cap {position - 1, position + 1} :
          /\ position' = p /\ source' = entries[p].source /\ urlFilters' = entries[p].filters
          /\ Left({}) /\ Rendered({}) /\ UNCHANGED <<entries, propFilters, applying>>
          /\ UNCHANGED <<storedSort, filters, resources, offered, batch, waiting>>
    BY <1>7 DEF Travel, Event, Left, list, refs
  <2>2. DOMAIN entries = 1..Len(entries) /\ Len(entries) \in Nat /\ position \in DOMAIN entries
    BY <1>1 DEF HistoryOK
  <2>3. entries[p].source # source
    <3>1. CASE p = position + 1 BY <3>1, <1>1, <2>1, <2>2 DEF HistoryOK
    <3>2. CASE p = position - 1
      <4>1. position = p + 1 BY <3>2, <2>1, <2>2
      <4>2. QED BY <4>1, <1>1, <2>1, <2>2 DEF HistoryOK
    <3>3. QED BY <2>1, <3>1, <3>2
  <2>4. HistoryOK' BY <1>1, <2>1 DEF HistoryOK, Range
  <2>5. "report" \in due' /\ "list" \in due' BY <2>1, <2>3, EffectsDue
  <2>6. "normalize" \notin due' BY <2>1, DueAfter DEF Left, Settled
  <2>7. AddressOK' BY <1>1, <1>2, <2>1, <2>5, <2>6 DEF AddressOK
  <2>8. QED BY <1>3, <2>1, <2>4, <2>7
<1>8. CASE Reload
  <2>1. /\ urlFilters' = entries[position].filters /\ filters' = entries[position].filters
        /\ propFilters' = entries[position].filters /\ applying' = FALSE /\ due' = Effects
        /\ batch' = ~batch /\ waiting' = FALSE /\ UNCHANGED <<source, entries, position>>
    BY <1>8 DEF Reload
  <2>2. HistoryOK' BY <1>1, <2>1 DEF HistoryOK, Range
  <2>3. IsFilters(filters') /\ urlFilters' = filters' /\ propFilters' = urlFilters'
    BY <1>1, <2>1 DEF HistoryOK
  <2>4. AddressOK' BY <2>1, <2>3 DEF AddressOK
  <2>5. "store" \in due' /\ "normalize" \in due' BY <2>1 DEF Effects
  <2>6. StoredOK' BY <2>5 DEF StoredOK
  <2>7. OfferedOK' BY <2>1, <2>5 DEF OfferedOK
  <2>8. QED BY <2>2, <2>4, <2>6, <2>7 DEF AgreeInv
<1>9. QED BY <1>4, <1>5, <1>6, <1>7, <1>8 DEF Browser

LEMMA AgreeInit == Init => AgreeInv
<1> SUFFICES ASSUME Init PROVE AgreeInv
  OBVIOUS
<1> DEFINE e == [source |-> source, filters |-> DefaultFilters]
<1>1. entries = <<e>> /\ position = 1 /\ urlFilters = DefaultFilters /\ filters = DefaultFilters
  BY DEF Init
<1>2. propFilters = DefaultFilters /\ applying = FALSE /\ due = Effects BY DEF Init
<1>3. batch = FALSE /\ waiting = FALSE BY DEF Init
<1>4. e.source = source /\ e.filters = DefaultFilters OBVIOUS
<1> HIDE DEF e
<1>5. entries \in Seq({e}) /\ DOMAIN entries = {1} /\ entries[1] = e BY <1>1
<1>6. entries \in Seq(Range(entries)) BY <1>5, ASequence
<1>7. HistoryOK
  <2>1. \A i \in DOMAIN entries : entries[i] = e /\ i + 1 \notin DOMAIN entries BY <1>5
  <2>2. QED BY <1>1, <1>4, <1>5, <1>6, <2>1, FilterKeys DEF HistoryOK
<1>8. AddressOK BY <1>1, <1>2, FilterKeys DEF AddressOK, Effects
<1>9. StoredOK BY <1>2 DEF StoredOK, Effects
<1>10. OfferedOK BY <1>2, <1>3 DEF OfferedOK, Effects
<1>11. QED BY <1>7, <1>8, <1>9, <1>10 DEF AgreeInv

\* The history is a list of addresses, the current one is on the screen or about to be applied
\* or reported, and every step keeps it so.
THEOREM ExplorerInductive == Spec => []AgreeInv
<1>1. ASSUME AgreeInv, [Next]_vars PROVE AgreeInv'
  <2>1. CASE UNCHANGED vars
    BY <1>1, <2>1 DEF vars, app, list, refs, AgreeInv, HistoryOK, AddressOK, StoredOK, OfferedOK, Range
  <2>2. CASE Flush BY <1>1, <2>2, FlushAgrees
  <2>3. CASE ListAnswer \/ ListError BY <1>1, <2>3, AnswersAgree
  <2>4. CASE TopologyAnswer BY <1>1, <2>4, AgreeStays DEF TopologyAnswer, Left, list, refs
  <2>5. CASE Panels BY <1>1, <2>5, PanelsAgree
  <2>6. CASE RowsPanel BY <1>1, <2>6, RowsPanelAgrees
  <2>7. CASE Browser BY <1>1, <2>7, BrowserAgrees
  <2>8. QED BY <1>1, <2>1, <2>2, <2>3, <2>4, <2>5, <2>6, <2>7 DEF Next
<1>2. QED BY <1>1, AgreeInit, PTL DEF Spec

\* Back, Forward, a changed source, a dropped value and a reload leave the explorer, the
\* address, the history and the stored order saying the same, and no filter set that its
\* select does not offer (ResourceExplorer.tsx, App.tsx).
THEOREM WhatIsFilteredIsAddressed == Spec => []FiltersAgree
<1>1. AgreeInv => FiltersAgree
  BY DEF AgreeInv, HistoryOK, AddressOK, StoredOK, OfferedOK, FiltersAgree, Settled
<1>2. QED BY <1>1, ExplorerInductive, PTL
=============================================================================
