--------------------------- MODULE LinkCheck_proofs ---------------------------
(***************************************************************************)
(* Proofs about LinkCheck, for any runs, cells, topics, pages and corpora, *)
(* any number of checks at work and of processes killed.                   *)
(***************************************************************************)
EXTENDS LinkCheck, Integers, FiniteSetTheorems, FunctionTheorems, NaturalsInduction, TLAPS

-----------------------------------------------------------------------------
(* The sample.                                                             *)

(* The place of a record in the sorted records is the number before it.    *)
Ordered(S) == \A x, y \in S : x.cell = y.cell /\ x.key = y.key => x = y

LEMMA PrecedingLess ==
  ASSUME NEW S, IsFiniteSet(S), S \subseteq Records, NEW x \in S, NEW y \in S, Before(x, y)
  PROVE  /\ Cardinality(Preceding(S, x)) \in Nat /\ Cardinality(Preceding(S, y)) \in Nat
         /\ Cardinality(Preceding(S, x)) < Cardinality(Preceding(S, y))
<1>1. /\ IsFiniteSet(Preceding(S, x)) /\ IsFiniteSet(Preceding(S, y))
      /\ Cardinality(Preceding(S, x)) \in Nat /\ Cardinality(Preceding(S, y)) \in Nat
  BY FS_Subset, FS_CardinalityType DEF Preceding
<1>2. \A z \in S : z.cell \in Nat /\ z.key \in Nat BY TopicsAssumption DEF Records
<1>3. Preceding(S, x) \subseteq Preceding(S, y) BY <1>2 DEF Preceding, Before
<1>4. x \in Preceding(S, y) /\ x \notin Preceding(S, x) BY <1>2 DEF Preceding, Before
<1> QED BY <1>1, <1>3, <1>4, FS_Subset

LEMMA SampleBounded ==
  ASSUME NEW S, IsFiniteSet(S), S \subseteq Records, Ordered(S), NEW n \in Nat
  PROVE  IsFiniteSet(SelectSample(S, n)) /\ Cardinality(SelectSample(S, n)) <= n
<1> DEFINE T == SelectSample(S, n)
           f == [x \in T |-> Cardinality(Preceding(S, x))]
<1>1. T \subseteq S /\ IsFiniteSet(T) BY FS_Subset DEF SelectSample
<1>2. \A x \in S : Cardinality(Preceding(S, x)) \in Nat
  BY FS_Subset, FS_CardinalityType DEF Preceding
<1>3. f \in [T -> 0..(n - 1)] BY <1>1, <1>2 DEF SelectSample
<1>4. ASSUME NEW x \in T, NEW y \in T, f[x] = f[y] PROVE x = y
  <2>1. x \in S /\ y \in S BY <1>1
  <2>2. x.cell \in Nat /\ x.key \in Nat /\ y.cell \in Nat /\ y.key \in Nat
    BY <2>1, TopicsAssumption DEF Records
  <2>3. ~Before(x, y) /\ ~Before(y, x)
    <3> HIDE DEF T
    <3> QED BY <1>4, <2>1, PrecedingLess
  <2>4. x.cell = y.cell /\ x.key = y.key BY <2>2, <2>3 DEF Before
  <2> QED BY <2>1, <2>4 DEF Ordered
<1>5. f \in Injection(T, 0..(n - 1)) BY <1>3, <1>4, Fun_IsInj
<1>6. IsFiniteSet(0..(n - 1)) /\ Cardinality(0..(n - 1)) = n BY FS_Interval
<1>7. Cardinality(T) <= Cardinality(0..(n - 1)) BY <1>5, <1>6, FS_Injection
<1> QED BY <1>1, <1>6, <1>7

(* Of records there are, the sample has one, and a record before one of    *)
(* the sample is in it.                                                    *)
LEMMA SampleIsPrefix ==
  ASSUME NEW S, IsFiniteSet(S), S \subseteq Records, NEW n \in Nat \ {0}
  PROVE  /\ S # {} => SelectSample(S, n) # {}
         /\ \A x \in S, y \in SelectSample(S, n) : Before(x, y) => x \in SelectSample(S, n)
<1> DEFINE rank(x) == Cardinality(Preceding(S, x))
           R == {rank(x) : x \in S}
<1>1. \A x \in S : rank(x) \in Nat BY FS_Subset, FS_CardinalityType DEF Preceding
<1>2. ASSUME S # {} PROVE SelectSample(S, n) # {}
  <2>1. R \subseteq Nat /\ R # {} BY <1>1, <1>2
  <2>2. PICK m \in R : \A k \in R : <<k, m>> \notin OpToRel(<, Nat)
    <3> HIDE DEF R
    <3> QED BY <2>1, NatLessThanWellFounded, WFMin
  <2>3. PICK x \in S : rank(x) = m BY <2>2
  <2>4. \A y \in S : ~(rank(y) < m) BY <1>1, <2>2, <2>3 DEF OpToRel
  <2>5. Preceding(S, x) = {}
    <3>1. SUFFICES ASSUME NEW y \in S, Before(y, x) PROVE FALSE BY DEF Preceding
    <3> QED BY <2>3, <2>4, <3>1, PrecedingLess
  <2>6. rank(x) = 0 BY <2>5, FS_EmptySet
  <2> QED BY <2>6 DEF SelectSample
<1>3. ASSUME NEW x \in S, NEW y \in SelectSample(S, n), Before(x, y)
      PROVE  x \in SelectSample(S, n)
  <2>1. y \in S /\ rank(y) < n BY DEF SelectSample
  <2>2. rank(x) < rank(y) BY <1>3, <2>1, PrecedingLess
  <2> QED BY <1>1, <2>1, <2>2 DEF SelectSample
<1> QED BY <1>2, <1>3

-----------------------------------------------------------------------------
(* Documents.                                                              *)

Contents(cells) == UNION {cells[c].records : c \in DOMAIN cells}

(* The cells of a run, as a harvest or a check leaves them.                *)
CellsOK(cells) ==
  /\ DOMAIN cells \subseteq Cells
  /\ \A c \in DOMAIN cells : cells[c] = CellDoc(cells[c].records) /\ InCell(cells[c].records, c)
  /\ OneUrl(Contents(cells))

LEMMA ContentsFinite == ASSUME NEW cells, CellsOK(cells) PROVE IsFiniteSet(Contents(cells))
<1> DEFINE F == {cells[c].records : c \in DOMAIN cells}
           f == [c \in DOMAIN cells |-> cells[c].records]
<1>1. IsFiniteSet(DOMAIN cells) BY TopicsAssumption, FS_Subset DEF CellsOK
<1>2. f \in [DOMAIN cells -> F] /\ \A t \in F : \E c \in DOMAIN cells : f[c] = t OBVIOUS
<1>3. \A T \in F : IsFiniteSet(T) BY DEF CellsOK, InCell
<1>4. Contents(cells) = UNION F BY DEF Contents
<1> HIDE DEF f, F
<1>5. f \in Surjection(DOMAIN cells, F) BY <1>2, Fun_IsSurj
<1>6. IsFiniteSet(F) BY <1>1, <1>5, FS_Surjection
<1> QED BY <1>3, <1>4, <1>6, FS_UNION

LEMMA FullOfCells ==
  ASSUME NEW cells, CellsOK(cells)
  PROVE  /\ IsFiniteSet(FullRecords(cells)) /\ FullRecords(cells) \subseteq Records
         /\ Ordered(FullRecords(cells))
         /\ \A x \in FullRecords(cells) : x \in Contents(cells) /\ x.type = "full"
                                          /\ x.url \in DOMAIN Canon
         /\ \A x, y \in FullRecords(cells) : RecordId(x) = RecordId(y) => x.url = y.url
<1>1. IsFiniteSet(FullRecords(cells))
  <2>1. FullRecords(cells) \subseteq Contents(cells) BY DEF FullRecords, OfType, Contents
  <2> QED BY <2>1, ContentsFinite, FS_Subset
<1>2. \A x \in FullRecords(cells) : \E c \in DOMAIN cells : x \in cells[c].records /\ x.type = "full"
  BY DEF FullRecords, OfType
<1>3. \A x \in FullRecords(cells) : x \in Contents(cells) /\ x.type = "full" BY <1>2 DEF Contents
<1>4. \A x \in FullRecords(cells) : x \in Records /\ x.url \in DOMAIN Canon
                                    /\ x.cell \in DOMAIN cells /\ x \in cells[x.cell].records
  BY <1>2 DEF CellsOK, InCell
<1>5. Ordered(FullRecords(cells)) BY <1>4 DEF Ordered, CellsOK, InCell
<1>6. \A x, y \in FullRecords(cells) : RecordId(x) = RecordId(y) => x.url = y.url
  BY <1>3 DEF CellsOK, OneUrl
<1> QED BY <1>1, <1>3, <1>4, <1>5, <1>6

(* What a check makes of a record; of the answers it holds, one for every  *)
(* record it has asked for.                                                *)
Made(j, rec) ==
  IF Checked(j, rec) THEN Appended(rec, Entry(j.stamp, j.by[RecordId(rec)], rec.hash)) ELSE rec

LEMMA MadeContinues ==
  ASSUME NEW j, j.stamp \in 1..MaxClock, \A id \in DOMAIN j.by : j.by[id] \in Outcomes,
         NEW rec \in Records
  PROVE  /\ Made(j, rec) \in Records
         /\ Made(j, rec) = [rec EXCEPT !.history = Made(j, rec).history]
         /\ ~Checked(j, rec) => Made(j, rec) = rec
         /\ Checked(j, rec) =>
              /\ Len(Made(j, rec).history) = Len(rec.history) + 1
              /\ \A i \in DOMAIN rec.history : Made(j, rec).history[i] = rec.history[i]
              /\ Made(j, rec).history[Len(rec.history) + 1].at = j.stamp
<1>1. /\ rec.history \in Seq(Entries) /\ "history" \in DOMAIN rec
      /\ [rec EXCEPT !.history = rec.history] = rec
  BY DEF Records
<1>2. CASE ~Checked(j, rec) BY <1>1, <1>2 DEF Made
<1>3. CASE Checked(j, rec)
  <2> DEFINE e == Entry(j.stamp, j.by[RecordId(rec)], rec.hash)
  <2>1. e \in Entries /\ e.at = j.stamp
    <3>1. j.by[RecordId(rec)] \in Outcomes BY <1>3 DEF Checked
    <3> QED BY <3>1 DEF Entry, Entries, Outcomes
  <2>2. Made(j, rec) = [rec EXCEPT !.history = Append(rec.history, e)]
    BY <1>3 DEF Made, Appended
  <2> HIDE DEF e
  <2>3. /\ Append(rec.history, e) \in Seq(Entries)
        /\ Len(Append(rec.history, e)) = Len(rec.history) + 1
        /\ \A i \in DOMAIN rec.history : Append(rec.history, e)[i] = rec.history[i]
        /\ Append(rec.history, e)[Len(rec.history) + 1] = e
    BY <1>1, <2>1
  <2>4. Made(j, rec).history = Append(rec.history, e) BY <1>1, <2>2
  <2>5. Made(j, rec) \in Records BY <2>2, <2>3 DEF Records
  <2> QED BY <1>3, <2>1, <2>2, <2>3, <2>4, <2>5
<1> QED BY <1>2, <1>3

(* What a check holds of its base, and of the answers.                     *)
BaseOK(j) ==
  /\ DOMAIN j.cells = Cells /\ CellsOK(j.cells) /\ FullRecords(j.cells) # {}
  /\ j.stamp \in 1..MaxClock /\ j.sample \in 1..MaxSample
  /\ \A id \in DOMAIN j.by : j.by[id] \in Outcomes

LEMMA RebuiltInCell ==
  ASSUME NEW j, BaseOK(j), NEW c \in Cells
  PROVE  InCell(RebuiltCell(j, c), c)
<1> DEFINE old == j.cells[c].records
           f == [rec \in old |-> Made(j, rec)]
<1>1. InCell(old, c) BY DEF BaseOK, CellsOK
<1>2. RebuiltCell(j, c) = {Made(j, rec) : rec \in old} BY DEF RebuiltCell, Made
<1>3. IsFiniteSet(RebuiltCell(j, c))
  <2>1. f \in [old -> RebuiltCell(j, c)] /\ \A t \in RebuiltCell(j, c) : \E s \in old : f[s] = t
    BY <1>2
  <2>2. f \in Surjection(old, RebuiltCell(j, c))
    <3> HIDE DEF f
    <3> QED BY <2>1, Fun_IsSurj
  <2>3. IsFiniteSet(old) BY <1>1 DEF InCell
  <2> HIDE DEF f, old
  <2> QED BY <2>2, <2>3, FS_Surjection
<1>4. ASSUME NEW rec \in old
      PROVE  /\ Made(j, rec) \in Records /\ Made(j, rec).cell = rec.cell
             /\ Made(j, rec).topic = rec.topic /\ Made(j, rec).key = rec.key
             /\ Made(j, rec).type = rec.type /\ Made(j, rec).url = rec.url
  <2>1. rec \in Records BY <1>1 DEF InCell
  <2>2. Made(j, rec) \in Records /\ Made(j, rec) = [rec EXCEPT !.history = Made(j, rec).history]
    BY <2>1, MadeContinues DEF BaseOK
  <2> QED BY <2>1, <2>2 DEF Records
<1> HIDE DEF f, old
<1>5. \A x \in RebuiltCell(j, c) : \E rec \in old : x = Made(j, rec) BY <1>2
<1>6. \A x \in RebuiltCell(j, c) : /\ x \in Records /\ x.cell = c /\ x.topic = TopicOf[c]
                                   /\ x.type = "full" => x.url \in DOMAIN Canon
  BY <1>1, <1>4, <1>5 DEF InCell
<1>7. \A x, y \in RebuiltCell(j, c) : x.key = y.key => x = y
  <2>1. SUFFICES ASSUME NEW x \in RebuiltCell(j, c), NEW y \in RebuiltCell(j, c), x.key = y.key
                 PROVE  x = y
    OBVIOUS
  <2>2. PICK p \in old : x = Made(j, p) BY <1>5
  <2>3. PICK q \in old : y = Made(j, q) BY <1>5
  <2>4. p.key = q.key BY <1>4, <2>1, <2>2, <2>3
  <2> QED BY <1>1, <2>2, <2>3, <2>4 DEF InCell
<1> QED BY <1>3, <1>6, <1>7 DEF InCell

(* A record and what a check made of it are asked for at the same URL.     *)
LEMMA MadeIsFrom ==
  ASSUME NEW j, BaseOK(j), NEW c \in Cells, NEW x \in RebuiltCell(j, c)
  PROVE  \E rec \in Contents(j.cells) :
           /\ x.type = rec.type /\ RecordId(x) = RecordId(rec) /\ x.url = rec.url
<1>1. PICK rec \in j.cells[c].records : x = Made(j, rec) BY DEF RebuiltCell, Made
<1>2. rec \in Records /\ rec \in Contents(j.cells) BY DEF BaseOK, CellsOK, InCell, Contents
<1>3. x \in Records /\ x = [rec EXCEPT !.history = x.history]
  BY <1>1, <1>2, MadeContinues DEF BaseOK
<1>4. x.type = rec.type /\ x.topic = rec.topic /\ x.key = rec.key /\ x.url = rec.url
  BY <1>2, <1>3 DEF Records
<1> QED BY <1>2, <1>4 DEF RecordId

LEMMA RebuiltOK ==
  ASSUME NEW j, BaseOK(j), NEW cells, DOMAIN cells \subseteq Cells,
         \A c \in DOMAIN cells : cells[c] = CellDoc(RebuiltCell(j, c))
  PROVE  CellsOK(cells)
<1>1. ASSUME NEW c \in DOMAIN cells
      PROVE  /\ cells[c].records = RebuiltCell(j, c) /\ cells[c] = CellDoc(cells[c].records)
             /\ InCell(cells[c].records, c)
  <2>1. cells[c].records = RebuiltCell(j, c) BY DEF CellDoc
  <2> QED BY <2>1, RebuiltInCell
<1>2. ASSUME NEW x \in Contents(cells), NEW y \in Contents(cells),
             x.type = "full", y.type = "full", RecordId(x) = RecordId(y)
      PROVE  x.url = y.url
  <2>1. PICK c \in DOMAIN cells : x \in RebuiltCell(j, c) BY <1>1 DEF Contents
  <2>2. PICK d \in DOMAIN cells : y \in RebuiltCell(j, d) BY <1>1 DEF Contents
  <2>3. PICK p \in Contents(j.cells) :
          x.type = p.type /\ RecordId(x) = RecordId(p) /\ x.url = p.url
    BY <2>1, MadeIsFrom
  <2>4. PICK q \in Contents(j.cells) :
          y.type = q.type /\ RecordId(y) = RecordId(q) /\ y.url = q.url
    BY <2>2, MadeIsFrom
  <2>5. p.url = q.url BY <1>2, <2>3, <2>4 DEF BaseOK, CellsOK, OneUrl
  <2> QED BY <2>3, <2>4, <2>5
<1> QED BY <1>1, <1>2 DEF CellsOK, OneUrl

-----------------------------------------------------------------------------
(* The invariant.                                                          *)

(* What is in the directory of a run: cells before topics before the rest, *)
(* the manifest after all.                                                 *)
TreeOK(t) ==
  /\ t = [cells |-> t.cells, topics |-> t.topics, tail |-> t.tail, manifest |-> t.manifest]
  /\ CellsOK(t.cells) /\ DOMAIN t.topics \subseteq Topics /\ t.tail \subseteq Closing
  /\ DOMAIN t.topics # {} => DOMAIN t.cells = Cells
  /\ \A s \in DOMAIN t.topics : t.topics[s] = TopicDoc(s, t.cells)
  /\ t.manifest # None => /\ t.manifest \in Manifests
                          /\ DOMAIN t.cells = Cells /\ DOMAIN t.topics = Topics
                          /\ t.tail = Closing

(* Who has asked for what, and what of the sample is left.                 *)
AskedOK(j) ==
  /\ j.asked \in [Identities -> Nat]
  /\ \A k \in Identities : j.asked[k] <= IF k \in DOMAIN j.outcomes THEN 1 ELSE 0
  /\ \A k \in DOMAIN j.outcomes : j.outcomes[k] \in Outcomes
  /\ \A x \in FullRecords(j.cells) : RecordId(x) \in DOMAIN j.by =>
       /\ Canon[x.url] \in DOMAIN j.outcomes
       /\ j.by[RecordId(x)] = j.outcomes[Canon[x.url]]

SampledOK(j) ==
  LET sampled == SelectSample(FullRecords(j.cells), j.sample)
  IN /\ j.todo \subseteq sampled
     /\ DOMAIN j.by = {RecordId(x) : x \in sampled \ j.todo}

JobOK(j) ==
  /\ DOMAIN j = {"base", "sample", "stamp", "cells", "todo", "spent", "asked", "outcomes",
                 "by", "built"}
  /\ BaseOK(j) /\ AskedOK(j) /\ SampledOK(j)

(* The base of a check is another run that has all its cells.              *)
BasedOn(r, j) ==
  /\ j.base \in Runs /\ j.base # r
  /\ DOMAIN tree[j.base].cells = Cells /\ j.cells = tree[j.base].cells

Working(r) ==
  LET j == job[r]
  IN /\ JobOK(j) /\ BasedOn(r, j)
     /\ tree[r].cells = j.built
     /\ \A c \in DOMAIN j.built : j.built[c] = CellDoc(RebuiltCell(j, c))
     /\ pc[r] = "fetch" => tree[r] = NoTree
     /\ pc[r] # "fetch" => j.todo = {}
     /\ pc[r] # "point" => tree[r].manifest = None

(* A finished check is what some such work has made.                       *)
Descends(r) ==
  \E j : /\ JobOK(j) /\ BasedOn(r, j) /\ j.todo = {}
         /\ tree[r].manifest = Manifest(j)
         /\ \A c \in Cells : tree[r].cells[c] = CellDoc(RebuiltCell(j, c))

Harvested(m) ==
  /\ m.mode \in {"smoke", "harvest"}
  /\ m.mode = "smoke" => ~m.enrich /\ m.probed /\ ~m.eligible

RunOK(r) ==
  /\ TreeOK(tree[r])
  /\ pc[r] = "idle" => tree[r] = NoTree
  /\ r \in Harvests => /\ pc[r] \notin Active
                       /\ tree[r].manifest # None => Harvested(tree[r].manifest)
  /\ r \in Checks /\ pc[r] \in Active => Working(r)
  /\ r \in Checks /\ tree[r].manifest # None => Descends(r)

Shape ==
  /\ tree = [r \in Runs |-> tree[r]] /\ job = [r \in Runs |-> job[r]]
  /\ pc \in [Runs -> Active \cup {"idle", "done", "raised", "killed"}]
  /\ latest \in Runs \cup {None} /\ shared \subseteq Cells /\ clock \in 1..MaxClock

Inv == Shape /\ \A r \in Runs : RunOK(r)

LEMMA NoTreeOK == TreeOK(NoTree)
<1>1. DOMAIN NoTree.cells = {} /\ DOMAIN NoTree.topics = {} BY DEF NoTree
<1>2. Contents(NoTree.cells) = {} BY <1>1 DEF Contents
<1> QED BY <1>1, <1>2 DEF TreeOK, CellsOK, OneUrl, NoTree

LEMMA InitInv == Init => Inv
<1> SUFFICES ASSUME Init PROVE Inv OBVIOUS
<1>1. Shape BY BoundsAssumption DEF Init, Shape
<1>2. ASSUME NEW r \in Runs PROVE RunOK(r)
  <2>1. tree[r] = NoTree /\ pc[r] = "idle" BY DEF Init
  <2> QED BY <2>1, NoTreeOK DEF RunOK, Active, NoTree
<1> QED BY <1>1, <1>2 DEF Inv

(* A step of one run, that leaves what others may have read from it.       *)
StepOf(r) ==
  /\ \A q \in Runs \ {r} : tree'[q] = tree[q] /\ job'[q] = job[q] /\ pc'[q] = pc[q]
  /\ DOMAIN tree[r].cells = Cells => tree'[r].cells = tree[r].cells

LEMMA BasedKept ==
  ASSUME NEW r \in Runs, StepOf(r), NEW q \in Runs, NEW j, BasedOn(q, j) PROVE BasedOn(q, j)'
<1>1. tree'[j.base].cells = tree[j.base].cells
  <2>1. CASE j.base = r BY <2>1 DEF BasedOn, StepOf
  <2>2. CASE j.base # r BY <2>2 DEF BasedOn, StepOf
  <2> QED BY <2>1, <2>2
<1> QED BY <1>1 DEF BasedOn

LEMMA OthersKept ==
  ASSUME Inv, NEW r \in Runs, StepOf(r), NEW q \in Runs \ {r} PROVE RunOK(q)'
<1>1. RunOK(q) /\ tree'[q] = tree[q] /\ job'[q] = job[q] /\ pc'[q] = pc[q] BY DEF Inv, StepOf
<1>2. ASSUME q \in Checks, pc[q] \in Active PROVE Working(q)'
  <2>1. Working(q) BY <1>1, <1>2 DEF RunOK
  <2>2. BasedOn(q, job[q])' BY <1>1, <2>1, BasedKept DEF Working
  <2> QED BY <1>1, <2>1, <2>2 DEF Working
<1>3. ASSUME q \in Checks, tree[q].manifest # None PROVE Descends(q)'
  <2>1. PICK j : /\ JobOK(j) /\ BasedOn(q, j) /\ j.todo = {}
                 /\ tree[q].manifest = Manifest(j)
                 /\ \A c \in Cells : tree[q].cells[c] = CellDoc(RebuiltCell(j, c))
    BY <1>1, <1>3 DEF RunOK, Descends
  <2>2. BasedOn(q, j)' BY <2>1, BasedKept
  <2> QED BY <1>1, <2>1, <2>2 DEF Descends
<1> QED BY <1>1, <1>2, <1>3 DEF RunOK

-----------------------------------------------------------------------------
(* Harvests.                                                               *)

LEMMA WrittenOK ==
  ASSUME NEW corpus \in Corpora, NEW cs \in SUBSET Cells
  PROVE  CellsOK(Written(corpus, cs)) /\ DOMAIN Written(corpus, cs) = cs
<1> DEFINE w == Written(corpus, cs)
<1>1. DOMAIN w = cs /\ \A c \in cs : w[c].records = corpus[c] /\ w[c] = CellDoc(w[c].records)
  BY DEF Written, CellDoc
<1>2. \A c \in Cells : InCell(corpus[c], c) BY CorporaAssumption
<1>3. \A x \in Contents(w) : x \in UNION {corpus[c] : c \in Cells} BY <1>1 DEF Contents
<1>4. OneUrl(UNION {corpus[c] : c \in Cells}) BY CorporaAssumption
<1>5. OneUrl(Contents(w))
  <2> HIDE DEF w
  <2> QED BY <1>3, <1>4 DEF OneUrl
<1> QED BY <1>1, <1>2, <1>5 DEF CellsOK

LEMMA HarvestManifestOK ==
  ASSUME Inv, ReadClock, NEW mode \in {"smoke", "harvest"}, NEW corpus
  PROVE  HarvestManifest(mode, corpus) \in Manifests /\ Harvested(HarvestManifest(mode, corpus))
<1>1. clock' \in 1..MaxClock BY BoundsAssumption DEF ReadClock, Inv, Shape
<1>2. 1 \in 1..MaxSample BY SampleAssumption
<1>3. HarvestManifest(mode, corpus).rows \in [Cells -> Rows] BY DEF HarvestManifest, Rows
<1> QED BY <1>1, <1>2, <1>3 DEF HarvestManifest, Manifests, Harvested

LEMMA HarvestStep == ASSUME Inv, Harvest PROVE Inv'
<1>1. PICK r \in Harvests, corpus \in Corpora, mode \in {"smoke", "harvest"} :
        /\ pc[r] = "idle" /\ ReadClock /\ pc' = [pc EXCEPT ![r] = "done"]
        /\ tree' = [tree EXCEPT ![r] =
                      [cells |-> Written(corpus, Cells),
                       topics |-> [t \in Topics |-> TopicDoc(t, Written(corpus, Cells))],
                       tail |-> Closing, manifest |-> HarvestManifest(mode, corpus)]]
        /\ latest' = r /\ shared' = Cells /\ UNCHANGED <<debris, job, faults>>
  BY Zenon DEF Harvest
<1>2. r \in Runs /\ r \notin Checks BY RunsAssumption
<1> DEFINE docs == Written(corpus, Cells)
           m == HarvestManifest(mode, corpus)
           t == [cells |-> docs, topics |-> [s \in Topics |-> TopicDoc(s, docs)],
                 tail |-> Closing, manifest |-> m]
<1>3. tree'[r] = t /\ tree[r] = NoTree /\ pc'[r] = "done"
      /\ \A q \in Runs \ {r} : tree'[q] = tree[q] /\ pc'[q] = pc[q]
  <2>1. tree[r] = NoTree BY <1>1, <1>2 DEF Inv, RunOK
  <2> HIDE DEF docs, m
  <2> QED BY <1>1, <1>2, <2>1 DEF Inv, Shape, docs, m
<1>4. clock' \in 1..MaxClock BY <1>1, BoundsAssumption DEF ReadClock, Inv, Shape
<1>5. m \in Manifests /\ Harvested(m) BY <1>1, HarvestManifestOK
<1> HIDE DEF m
<1>6. CellsOK(docs) /\ DOMAIN docs = Cells BY WrittenOK
<1> HIDE DEF docs
<1>7. TreeOK(t) BY <1>5, <1>6 DEF TreeOK
<1>8. RunOK(r)' BY <1>2, <1>3, <1>5, <1>7 DEF RunOK, Active
<1>9. StepOf(r)
  <2>1. DOMAIN tree[r].cells # Cells
    <3> HIDE DEF t
    <3>1. tree[r].cells = NoTree.cells BY <1>3
    <3>2. DOMAIN NoTree.cells = {} BY DEF NoTree
    <3>3. Cells # {} BY TopicsAssumption
    <3> QED BY <3>1, <3>2, <3>3
  <2> QED BY <1>1, <1>3, <2>1 DEF StepOf
<1>10. \A q \in Runs \ {r} : RunOK(q)' BY <1>2, <1>9, OthersKept
<1>11. Shape' BY <1>1, <1>2, <1>4 DEF Inv, Shape
<1> QED BY <1>8, <1>10, <1>11 DEF Inv

LEMMA HarvestDiesStep == ASSUME Inv, HarvestDies PROVE Inv'
<1>1. PICK r \in Harvests, corpus \in Corpora, last \in Cells :
        /\ pc[r] = "idle" /\ pc' = [pc EXCEPT ![r] = "killed"]
        /\ tree' = [tree EXCEPT ![r].cells = Written(corpus, {c \in Cells : c <= last})]
        /\ UNCHANGED <<latest, shared, clock, job>>
  BY Zenon DEF HarvestDies
<1>2. r \in Runs /\ r \notin Checks BY RunsAssumption
<1> DEFINE docs == Written(corpus, {c \in Cells : c <= last})
<1>3. CellsOK(docs) BY WrittenOK
<1> HIDE DEF docs
<1>4. tree[r] = NoTree BY <1>1, <1>2 DEF Inv, RunOK
<1>5. /\ tree'[r] = [cells |-> docs, topics |-> <<>>, tail |-> {}, manifest |-> None]
      /\ pc'[r] = "killed" /\ \A q \in Runs \ {r} : tree'[q] = tree[q] /\ pc'[q] = pc[q]
  <2>1. tree' = [tree EXCEPT ![r].cells = docs] BY <1>1 DEF docs
  <2>2. tree'[r] = [tree[r] EXCEPT !.cells = docs] BY <1>2, <2>1 DEF Inv, Shape
  <2>3. tree'[r] = [cells |-> docs, topics |-> <<>>, tail |-> {}, manifest |-> None]
    <3>1. tree'[r] = [NoTree EXCEPT !.cells = docs] BY <1>4, <2>2
    <3> QED BY <3>1 DEF NoTree
  <2>4. \A q \in Runs \ {r} : tree'[q] = tree[q] BY <2>1 DEF Inv, Shape
  <2> QED BY <1>1, <1>2, <2>3, <2>4 DEF Inv, Shape
<1>6. TreeOK(tree'[r]) BY <1>3, <1>5 DEF TreeOK
<1>7. RunOK(r)' BY <1>2, <1>5, <1>6 DEF RunOK, Active
<1>8. StepOf(r)
  <2>1. DOMAIN tree[r].cells # Cells BY <1>4, TopicsAssumption DEF NoTree
  <2> QED BY <1>1, <1>5, <2>1 DEF StepOf
<1>9. \A q \in Runs \ {r} : RunOK(q)' BY <1>2, <1>8, OthersKept
<1>10. Shape' BY <1>1, <1>2 DEF Inv, Shape
<1> QED BY <1>7, <1>9, <1>10 DEF Inv

-----------------------------------------------------------------------------
(* Asking.                                                                 *)

LEMMA BeginStep == ASSUME Inv, Begin PROVE Inv'
<1>1. PICK r \in Checks, b \in Runs, n \in 1..MaxSample :
        /\ pc[r] = "idle" /\ MayBegin(r, b) /\ ReadClock
        /\ FullRecords(tree[b].cells) # {}
        /\ job' = [job EXCEPT ![r] =
               [base |-> b, sample |-> n, stamp |-> clock', cells |-> tree[b].cells,
                todo |-> SelectSample(FullRecords(tree[b].cells), n), spent |-> FALSE,
                asked |-> [k \in Identities |-> 0], outcomes |-> <<>>, by |-> <<>>,
                built |-> <<>>]]
        /\ pc' = [pc EXCEPT ![r] = "fetch"] /\ UNCHANGED <<rootVars, faults>>
  BY Zenon DEF Begin
<1> DEFINE cells == tree[b].cells
           full == FullRecords(cells)
           j == [base |-> b, sample |-> n, stamp |-> clock', cells |-> cells,
                 todo |-> SelectSample(full, n), spent |-> FALSE,
                 asked |-> [k \in Identities |-> 0], outcomes |-> <<>>, by |-> <<>>,
                 built |-> <<>>]
<1>2. r \in Runs /\ r \notin Harvests /\ tree[r] = NoTree
  BY <1>1, RunsAssumption DEF Inv, RunOK
<1>3. /\ job'[r] = j /\ pc'[r] = "fetch" /\ tree' = tree
      /\ \A q \in Runs \ {r} : job'[q] = job[q] /\ pc'[q] = pc[q]
  <2> HIDE DEF cells, full
  <2> QED BY <1>1, <1>2 DEF Inv, Shape, rootVars, cells, full
<1>4. clock' \in 1..MaxClock BY <1>1, BoundsAssumption DEF ReadClock, Inv, Shape
<1>5. b # r /\ DOMAIN cells = Cells BY <1>1 DEF MayBegin, Readable
<1>6. CellsOK(cells) /\ full # {} BY <1>1 DEF Inv, RunOK, TreeOK
<1> HIDE DEF cells
<1>7. JobOK(j)
  <2>1. DOMAIN j.by = {} /\ DOMAIN j.outcomes = {} OBVIOUS
  <2>2. BaseOK(j) BY <1>4, <1>5, <1>6, <2>1 DEF BaseOK
  <2>3. AskedOK(j) BY <2>1 DEF AskedOK
  <2>4. SampledOK(j)
    <3>1. SelectSample(full, n) \ j.todo = {} OBVIOUS
    <3>2. {RecordId(x) : x \in SelectSample(full, n) \ j.todo} = {} BY <3>1
    <3> QED BY <2>1, <3>2 DEF SampledOK
  <2> QED BY <2>2, <2>3, <2>4 DEF JobOK
<1>8. BasedOn(r, job[r])' BY <1>3, <1>5 DEF BasedOn, cells
<1>9. Working(r)'
  <2>1. /\ DOMAIN job'[r].built = {} /\ tree'[r].cells = job'[r].built
        /\ tree'[r] = NoTree /\ tree'[r].manifest = None
    BY <1>2, <1>3 DEF NoTree
  <2>2. JobOK(job'[r]) BY <1>3, <1>7
  <2>3. pc'[r] = "fetch" BY <1>3
  <2> QED BY <1>8, <2>1, <2>2, <2>3 DEF Working
<1>10. RunOK(r)'
  BY <1>1, <1>2, <1>3, <1>9, NoTreeOK DEF RunOK, NoTree
<1>11. StepOf(r) BY <1>3 DEF StepOf
<1>12. \A q \in Runs \ {r} : RunOK(q)' BY <1>2, <1>11, OthersKept
<1>13. Shape' BY <1>1, <1>2, <1>4 DEF Inv, Shape, rootVars, Active
<1> QED BY <1>10, <1>12, <1>13 DEF Inv

(* What an answer to the question after a record leaves of a check.        *)
LEMMA SeenFields ==
  ASSUME Inv, NEW r \in Runs, NEW rec, NEW asked, NEW outcome, NEW spent,
         Seen(r, rec, asked, outcome, spent), JobOK(job[r])
  PROVE  /\ DOMAIN job'[r] = DOMAIN job[r]
         /\ job'[r].base = job[r].base /\ job'[r].sample = job[r].sample
         /\ job'[r].stamp = job[r].stamp /\ job'[r].cells = job[r].cells
         /\ job'[r].built = job[r].built /\ job'[r].todo = job[r].todo \ {rec}
         /\ job'[r].asked = [i \in DOMAIN job[r].asked |-> job'[r].asked[i]]
         /\ \A i \in DOMAIN job[r].asked :
              job'[r].asked[i] = job[r].asked[i] + IF i = Canon[rec.url] THEN asked ELSE 0
         /\ job'[r].outcomes = With(job[r].outcomes, Canon[rec.url], outcome)
         /\ job'[r].by = With(job[r].by, RecordId(rec), outcome)
         /\ \A q \in Runs \ {r} : job'[q] = job[q]
         /\ job' = [q \in Runs |-> job'[q]]
<1> DEFINE j == job[r]
           k == Canon[rec.url]
           w == With(j.outcomes, k, outcome)
           b == With(j.by, RecordId(rec), outcome)
           a == [j.asked EXCEPT ![k] = @ + asked]
           t == j.todo \ {rec}
           n == [j EXCEPT !.todo = t, !.spent = spent, !.asked = a, !.outcomes = w, !.by = b]
<1>1. job' = [job EXCEPT ![r] = n] BY ZenonT(30) DEF Seen
<1>2. job = [q \in Runs |-> job[q]] BY DEF Inv, Shape
<1>3. DOMAIN j = {"base", "sample", "stamp", "cells", "todo", "spent", "asked", "outcomes",
                  "by", "built"}
  BY DEF JobOK
<1>4. job'[r] = n /\ (\A q \in Runs \ {r} : job'[q] = job[q]) /\ job' = [q \in Runs |-> job'[q]]
  <2> HIDE DEF n
  <2> QED BY <1>1, <1>2
<1>5. /\ DOMAIN n = DOMAIN j
      /\ n.base = j.base /\ n.sample = j.sample /\ n.stamp = j.stamp /\ n.cells = j.cells
      /\ n.built = j.built /\ n.todo = t /\ n.asked = a /\ n.outcomes = w /\ n.by = b
  <2> HIDE DEF j, k, w, b, a, t
  <2> QED BY <1>3
<1>6. /\ a = [i \in DOMAIN j.asked |-> a[i]]
      /\ \A i \in DOMAIN j.asked : a[i] = j.asked[i] + IF i = k THEN asked ELSE 0
  <2>1. j.asked \in [Identities -> Nat] BY DEF JobOK, AskedOK
  <2> HIDE DEF j, k
  <2> QED BY <2>1
<1> HIDE DEF a, w, b
<1>7. w = With(j.outcomes, k, outcome) /\ b = With(j.by, RecordId(rec), outcome) BY DEF w, b
<1> HIDE DEF t, n
<1> QED BY <1>4, <1>5, <1>6, <1>7 DEF t

LEMMA AnsweredJob ==
  ASSUME Inv, NEW r \in Runs, NEW rec \in job[r].todo, NEW asked \in Nat, NEW outcome \in Outcomes,
         NEW spent, Seen(r, rec, asked, outcome, spent), JobOK(job[r]),
         job[r].asked[Canon[rec.url]] + asked <= 1,
         Canon[rec.url] \in DOMAIN job[r].outcomes => outcome = job[r].outcomes[Canon[rec.url]]
  PROVE  JobOK(job'[r])
<1> DEFINE j == job[r]
           n == job'[r]
           k == Canon[rec.url]
           full == FullRecords(j.cells)
           sampled == SelectSample(full, j.sample)
<1> HIDE DEF n, j, k
<1>1. /\ DOMAIN n = DOMAIN j
      /\ n.base = j.base /\ n.sample = j.sample /\ n.stamp = j.stamp /\ n.cells = j.cells
      /\ n.built = j.built /\ n.todo = j.todo \ {rec}
      /\ n.asked = [i \in DOMAIN j.asked |-> n.asked[i]]
      /\ \A i \in DOMAIN j.asked : n.asked[i] = j.asked[i] + IF i = k THEN asked ELSE 0
      /\ n.outcomes = With(j.outcomes, k, outcome)
      /\ n.by = With(j.by, RecordId(rec), outcome)
  BY SeenFields DEF n, j, k
<1>2. BaseOK(j) /\ AskedOK(j) /\ SampledOK(j) BY DEF JobOK, j
<1>3. rec \in sampled /\ sampled \subseteq full /\ rec \in full
  BY <1>2 DEF SampledOK, SelectSample, j
<1>4. rec.url \in DOMAIN Canon /\ \A x \in full : RecordId(x) = RecordId(rec) => x.url = rec.url
  BY <1>2, <1>3, FullOfCells DEF BaseOK
<1>5. k \in Identities BY <1>4, PagesAssumption DEF k
<1> HIDE DEF full, sampled
<1>6. /\ DOMAIN n.by = DOMAIN j.by \cup {RecordId(rec)} /\ n.by[RecordId(rec)] = outcome
      /\ \A id \in DOMAIN j.by \ {RecordId(rec)} : n.by[id] = j.by[id]
      /\ DOMAIN n.outcomes = DOMAIN j.outcomes \cup {k} /\ n.outcomes[k] = outcome
      /\ \A i \in DOMAIN j.outcomes \ {k} : n.outcomes[i] = j.outcomes[i]
  BY <1>1 DEF With
<1>7. BaseOK(n) BY <1>1, <1>2, <1>6 DEF BaseOK
<1>8. AskedOK(n)
  <2>1. /\ n.asked \in [Identities -> Nat]
        /\ \A i \in Identities : n.asked[i] <= IF i \in DOMAIN n.outcomes THEN 1 ELSE 0
    <3>1. j.asked \in [Identities -> Nat] /\ j.asked[k] + asked <= 1 BY <1>2 DEF AskedOK, j, k
    <3>2. /\ n.asked \in [Identities -> Nat] /\ n.asked[k] = j.asked[k] + asked
          /\ \A i \in Identities \ {k} : n.asked[i] = j.asked[i]
      <4>1. DOMAIN j.asked = Identities /\ \A i \in Identities : j.asked[i] \in Nat BY <3>1
      <4>2. \A i \in Identities : n.asked[i] = j.asked[i] + IF i = k THEN asked ELSE 0
        BY <1>1, <4>1
      <4>3. \A i \in Identities : n.asked[i] \in Nat BY <4>1, <4>2
      <4>4. n.asked = [i \in Identities |-> n.asked[i]] BY <1>1, <4>1
      <4>5. n.asked \in [Identities -> Nat] BY <4>3, <4>4
      <4> QED BY <1>5, <4>1, <4>2, <4>5
    <3> QED BY <1>2, <1>5, <1>6, <3>1, <3>2 DEF AskedOK
  <2>2. \A i \in DOMAIN n.outcomes : n.outcomes[i] \in Outcomes BY <1>2, <1>6 DEF AskedOK
  <2>3. ASSUME NEW x \in full, RecordId(x) \in DOMAIN n.by
        PROVE  Canon[x.url] \in DOMAIN n.outcomes
               /\ n.by[RecordId(x)] = n.outcomes[Canon[x.url]]
    <3>1. CASE RecordId(x) = RecordId(rec) BY <1>4, <1>6, <3>1 DEF k
    <3>2. CASE RecordId(x) # RecordId(rec)
      <4>1. RecordId(x) \in DOMAIN j.by /\ n.by[RecordId(x)] = j.by[RecordId(x)]
        BY <1>6, <2>3, <3>2
      <4>2. Canon[x.url] \in DOMAIN j.outcomes
            /\ j.by[RecordId(x)] = j.outcomes[Canon[x.url]]
        BY <1>2, <4>1 DEF AskedOK, full
      <4>3. k \in DOMAIN j.outcomes => outcome = j.outcomes[k] BY DEF j, k
      <4> QED BY <1>6, <4>1, <4>2, <4>3
    <3> QED BY <3>1, <3>2
  <2> QED BY <1>1, <2>1, <2>2, <2>3 DEF AskedOK, full
<1>9. SampledOK(n)
  <2>1. j.todo \subseteq sampled /\ DOMAIN j.by = {RecordId(x) : x \in sampled \ j.todo}
    BY <1>2 DEF SampledOK, sampled, full
  <2>2. sampled \ n.todo = (sampled \ j.todo) \cup {rec} BY <1>1, <1>3
  <2>3. DOMAIN n.by = {RecordId(x) : x \in sampled \ n.todo} BY <1>6, <2>1, <2>2
  <2> QED BY <1>1, <2>1, <2>3 DEF SampledOK, sampled, full
<1>10. DOMAIN n = {"base", "sample", "stamp", "cells", "todo", "spent", "asked", "outcomes",
                   "by", "built"}
  BY <1>1 DEF JobOK, j
<1>11. JobOK(n) BY <1>7, <1>8, <1>9, <1>10 DEF JobOK
<1> QED BY <1>11 DEF n

LEMMA Answered ==
  ASSUME Inv, NEW r \in Checks, pc[r] = "fetch", NEW rec \in job[r].todo,
         NEW asked \in Nat, NEW outcome \in Outcomes, NEW spent,
         Seen(r, rec, asked, outcome, spent), UNCHANGED <<rootVars, clock, pc, faults>>,
         job[r].asked[Canon[rec.url]] + asked <= 1,
         Canon[rec.url] \in DOMAIN job[r].outcomes => outcome = job[r].outcomes[Canon[rec.url]]
  PROVE  Inv'
<1>1. r \in Runs /\ r \notin Harvests /\ pc[r] \in Active BY RunsAssumption DEF Active
<1>2. RunOK(r) /\ Working(r) /\ JobOK(job[r]) BY <1>1 DEF Inv, RunOK, Working
<1>3. /\ job'[r].base = job[r].base /\ job'[r].cells = job[r].cells
      /\ job'[r].built = job[r].built
      /\ \A q \in Runs \ {r} : job'[q] = job[q]
      /\ job' = [q \in Runs |-> job'[q]]
  BY <1>1, <1>2, SeenFields
<1>4. JobOK(job'[r]) BY <1>1, <1>2, AnsweredJob
<1>5. tree' = tree /\ pc' = pc BY DEF rootVars
<1>6. tree[r] = NoTree /\ job[r].built = <<>> BY <1>2 DEF Working, NoTree
<1>7. Working(r)'
  <2>1. BasedOn(r, job[r])' BY <1>2, <1>3, <1>5 DEF Working, BasedOn
  <2>2. /\ tree'[r] = NoTree /\ tree'[r].cells = job'[r].built
        /\ DOMAIN job'[r].built = {} /\ tree'[r].manifest = None
    BY <1>3, <1>5, <1>6 DEF NoTree
  <2>3. pc'[r] = "fetch" BY <1>5
  <2> QED BY <1>4, <2>1, <2>2, <2>3 DEF Working
<1>8. RunOK(r)' BY <1>1, <1>2, <1>5, <1>6, <1>7, NoTreeOK DEF RunOK, NoTree
<1>9. StepOf(r) BY <1>3, <1>5 DEF StepOf
<1>10. \A q \in Runs \ {r} : RunOK(q)' BY <1>1, <1>9, OthersKept
<1>11. Shape' BY <1>3 DEF Inv, Shape, rootVars
<1> QED BY <1>8, <1>10, <1>11 DEF Inv

LEMMA FetchStep == ASSUME Inv, Fetch PROVE Inv'
<1>1. PICK r \in Checks : pc[r] = "fetch" /\ \E rec \in job[r].todo :
         /\ IsNext(r, rec) /\ Unowned(r, Canon[rec.url])
         /\ \/ /\ ~job[r].spent
               /\ \E outcome \in Answers[Canon[rec.url]] : Seen(r, rec, 1, outcome, FALSE)
            \/ Seen(r, rec, 1, NotChecked, TRUE)
  BY Zenon DEF Fetch
<1>2. PICK rec \in job[r].todo :
         /\ Unowned(r, Canon[rec.url])
         /\ \/ \E outcome \in Answers[Canon[rec.url]] : Seen(r, rec, 1, outcome, FALSE)
            \/ Seen(r, rec, 1, NotChecked, TRUE)
  BY <1>1
<1>3. UNCHANGED <<rootVars, clock, pc, faults>> BY DEF Fetch
<1>4. JobOK(job[r]) BY <1>1, RunsAssumption DEF Inv, RunOK, Working, Active
<1>5. Canon[rec.url] \in Identities
  <2>1. rec \in FullRecords(job[r].cells) BY <1>4 DEF JobOK, SampledOK, SelectSample
  <2>2. rec.url \in DOMAIN Canon BY <1>4, <2>1, FullOfCells DEF JobOK, BaseOK
  <2> QED BY <2>2, PagesAssumption
<1>6. Canon[rec.url] \notin DOMAIN job[r].outcomes BY <1>2 DEF Unowned
<1>7. job[r].asked[Canon[rec.url]] + 1 <= 1 BY <1>4, <1>5, <1>6 DEF JobOK, AskedOK
<1>8. NotChecked \in Outcomes /\ Answers[Canon[rec.url]] \subseteq Outcomes
  BY <1>5, PagesAssumption DEF NotChecked, Outcomes
<1>9. PICK outcome \in Outcomes, spent \in BOOLEAN : Seen(r, rec, 1, outcome, spent)
  BY <1>2, <1>8
<1> QED BY <1>1, <1>3, <1>6, <1>7, <1>9, Answered

LEMMA ReuseStep == ASSUME Inv, Reuse PROVE Inv'
<1>1. PICK r \in Checks : pc[r] = "fetch" /\ \E rec \in job[r].todo :
         /\ IsNext(r, rec) /\ ~Unowned(r, Canon[rec.url])
         /\ Seen(r, rec, 0, job[r].outcomes[Canon[rec.url]], job[r].spent)
  BY Zenon DEF Reuse
<1>2. PICK rec \in job[r].todo :
         /\ ~Unowned(r, Canon[rec.url])
         /\ Seen(r, rec, 0, job[r].outcomes[Canon[rec.url]], job[r].spent)
  BY <1>1
<1>3. UNCHANGED <<rootVars, clock, pc, faults>> BY DEF Reuse
<1>4. JobOK(job[r]) BY <1>1, RunsAssumption DEF Inv, RunOK, Working, Active
<1>5. Canon[rec.url] \in Identities
  <2>1. rec \in FullRecords(job[r].cells) BY <1>4 DEF JobOK, SampledOK, SelectSample
  <2>2. rec.url \in DOMAIN Canon BY <1>4, <2>1, FullOfCells DEF JobOK, BaseOK
  <2> QED BY <2>2, PagesAssumption
<1>6. Canon[rec.url] \in DOMAIN job[r].outcomes BY <1>2 DEF Unowned
<1>7. job[r].asked[Canon[rec.url]] + 0 <= 1 BY <1>4, <1>5, <1>6 DEF JobOK, AskedOK
<1>8. job[r].outcomes[Canon[rec.url]] \in Outcomes BY <1>4, <1>6 DEF JobOK, AskedOK
<1> QED BY <1>1, <1>2, <1>3, <1>7, <1>8, Answered

LEMMA RebuildStep == ASSUME Inv, Rebuild PROVE Inv'
<1>1. PICK r \in Checks : pc[r] = "fetch" /\ job[r].todo = {} /\ pc' = [pc EXCEPT ![r] = "write"]
  BY DEF Rebuild
<1>2. r \in Runs /\ r \notin Harvests /\ tree' = tree /\ job' = job
      /\ UNCHANGED <<latest, shared, clock>>
  BY RunsAssumption DEF Rebuild, rootVars
<1>3. pc'[r] = "write" /\ \A q \in Runs \ {r} : pc'[q] = pc[q] BY <1>1, <1>2 DEF Inv, Shape
<1>4. RunOK(r) /\ Working(r) BY <1>1, <1>2 DEF Inv, RunOK, Active
<1>5. Working(r)' BY <1>1, <1>2, <1>3, <1>4 DEF Working, BasedOn, NoTree
<1>6. RunOK(r)'
  <2>1. tree'[r].manifest = None BY <1>2, <1>3, <1>5 DEF Working
  <2> QED BY <1>2, <1>3, <1>4, <1>5, <2>1 DEF RunOK
<1>7. StepOf(r) BY <1>2, <1>3 DEF StepOf
<1>8. \A q \in Runs \ {r} : RunOK(q)' BY <1>2, <1>7, OthersKept
<1>9. Shape' BY <1>1, <1>2 DEF Inv, Shape, Active
<1> QED BY <1>6, <1>8, <1>9 DEF Inv

-----------------------------------------------------------------------------
(* Writing.                                                                *)

LEMMA WriteCellStep == ASSUME Inv, WriteCell PROVE Inv'
<1>1. PICK r \in Checks, c \in Cells :
        /\ AtCell(r, c)
        /\ job' = [job EXCEPT ![r].built = With(@, c, CellDoc(RebuiltCell(job[r], c)))]
        /\ tree' = [tree EXCEPT ![r].cells = With(@, c, CellDoc(RebuiltCell(job[r], c)))]
        /\ UNCHANGED <<latest, shared, debris, clock, pc, faults>>
  BY Zenon DEF WriteCell
<1> DEFINE j == job[r]
           doc == CellDoc(RebuiltCell(j, c))
           cells == With(j.built, c, doc)
<1>2. /\ r \in Runs /\ r \notin Harvests /\ pc[r] = "write" /\ pc[r] \in Active
      /\ c \notin DOMAIN j.built
  BY <1>1, RunsAssumption DEF AtCell, Active, Least
<1>3. RunOK(r) /\ Working(r) BY <1>2 DEF Inv, RunOK
<1>4. /\ DOMAIN j = {"base", "sample", "stamp", "cells", "todo", "spent", "asked", "outcomes",
                     "by", "built"}
      /\ tree[r].cells = j.built
  BY <1>3 DEF Working, JobOK
<1>5. DOMAIN tree[r] = {"cells", "topics", "tail", "manifest"} BY <1>3 DEF RunOK, TreeOK
<1>6. /\ DOMAIN cells = DOMAIN j.built \cup {c} /\ cells[c] = doc
      /\ \A d \in DOMAIN j.built : cells[d] = j.built[d]
  <2> HIDE DEF j, doc
  <2> QED BY <1>2 DEF With
<1> HIDE DEF j, doc, cells
<1>7. /\ tree'[r] = [tree[r] EXCEPT !.cells = cells] /\ job'[r] = [j EXCEPT !.built = cells]
      /\ \A q \in Runs \ {r} : tree'[q] = tree[q] /\ job'[q] = job[q]
      /\ tree' = [q \in Runs |-> tree'[q]] /\ job' = [q \in Runs |-> job'[q]]
  <2>1. tree = [q \in Runs |-> tree[q]] /\ job = [q \in Runs |-> job[q]] BY DEF Inv, Shape
  <2>2. /\ job' = [job EXCEPT ![r].built = With(@, c, doc)]
        /\ tree' = [tree EXCEPT ![r].cells = With(@, c, doc)]
    BY <1>1 DEF doc, j
  <2>3. job'[r] = [job[r] EXCEPT !.built = With(job[r].built, c, doc)]
        /\ (\A q \in Runs \ {r} : job'[q] = job[q]) /\ job' = [q \in Runs |-> job'[q]]
    BY <1>2, <2>1, <2>2
  <2>4. tree'[r] = [tree[r] EXCEPT !.cells = With(tree[r].cells, c, doc)]
        /\ (\A q \in Runs \ {r} : tree'[q] = tree[q]) /\ tree' = [q \in Runs |-> tree'[q]]
    BY <1>2, <2>1, <2>2
  <2> QED BY <1>4, <2>3, <2>4 DEF cells, j
<1>8. /\ DOMAIN job'[r] = DOMAIN j /\ job'[r].built = cells
      /\ job'[r].base = j.base /\ job'[r].sample = j.sample /\ job'[r].stamp = j.stamp
      /\ job'[r].cells = j.cells /\ job'[r].todo = j.todo /\ job'[r].asked = j.asked
      /\ job'[r].outcomes = j.outcomes /\ job'[r].by = j.by
  BY <1>4, <1>7
<1>9. /\ DOMAIN tree'[r] = DOMAIN tree[r] /\ tree'[r].cells = cells
      /\ tree'[r].topics = tree[r].topics /\ tree'[r].tail = tree[r].tail
      /\ tree'[r].manifest = tree[r].manifest
      /\ tree'[r] = [cells |-> tree'[r].cells, topics |-> tree'[r].topics,
                     tail |-> tree'[r].tail, manifest |-> tree'[r].manifest]
  <2>1. tree[r] = [cells |-> tree[r].cells, topics |-> tree[r].topics,
                   tail |-> tree[r].tail, manifest |-> tree[r].manifest]
    BY <1>3 DEF RunOK, TreeOK
  <2> QED BY <1>7, <2>1
<1>10. JobOK(job'[r])
  <2>1. BaseOK(j) /\ AskedOK(j) /\ SampledOK(j) BY <1>3 DEF Working, JobOK, j
  <2>2. BaseOK(job'[r]) /\ AskedOK(job'[r]) /\ SampledOK(job'[r])
    BY <1>8, <2>1 DEF BaseOK, AskedOK, SampledOK
  <2>3. DOMAIN job'[r] = {"base", "sample", "stamp", "cells", "todo", "spent", "asked",
                          "outcomes", "by", "built"}
    BY <1>4, <1>8
  <2> QED BY <2>2, <2>3 DEF JobOK
<1>11. \A d \in Cells : RebuiltCell(job'[r], d) = RebuiltCell(j, d)
  BY <1>8 DEF RebuiltCell, Checked
<1>12. \A d \in DOMAIN cells : cells[d] = CellDoc(RebuiltCell(j, d))
  BY <1>3, <1>6 DEF Working, j, doc
<1>13. DOMAIN cells \subseteq Cells /\ CellsOK(cells)
  <2>1. DOMAIN j.built \subseteq Cells BY <1>3, <1>4 DEF RunOK, TreeOK, CellsOK
  <2>2. BaseOK(j) BY <1>3 DEF Working, JobOK, j
  <2> QED BY <1>6, <1>12, <2>1, <2>2, RebuiltOK
<1>14. DOMAIN tree[r].cells # Cells BY <1>2, <1>4
<1>15. tree[r].manifest = None BY <1>2, <1>3 DEF Working
<1>16. TreeOK(tree'[r])
  <2>1. DOMAIN tree[r].topics = {} /\ tree[r].tail \subseteq Closing
    BY <1>3, <1>14 DEF RunOK, TreeOK
  <2> QED BY <1>9, <1>13, <1>15, <2>1 DEF TreeOK
<1>17. StepOf(r) BY <1>1, <1>7, <1>14 DEF StepOf
<1>18. Working(r)'
  <2>1. j.base \in Runs \ {r} /\ DOMAIN tree[j.base].cells = Cells /\ j.cells = tree[j.base].cells
    BY <1>3 DEF Working, BasedOn, j
  <2>2. BasedOn(r, job[r])' BY <1>7, <1>8, <2>1 DEF BasedOn
  <2>3. \A d \in DOMAIN cells : cells[d] = CellDoc(RebuiltCell(job'[r], d))
    BY <1>11, <1>12, <1>13
  <2>4. pc'[r] = "write" /\ job'[r].todo = {} BY <1>1, <1>2, <1>3, <1>8 DEF Working, j
  <2> QED BY <1>8, <1>9, <1>10, <1>15, <2>2, <2>3, <2>4 DEF Working
<1>19. RunOK(r)' BY <1>1, <1>2, <1>9, <1>15, <1>16, <1>18 DEF RunOK
<1>20. \A q \in Runs \ {r} : RunOK(q)' BY <1>2, <1>17, OthersKept
<1>21. Shape' BY <1>1, <1>7 DEF Inv, Shape
<1> QED BY <1>19, <1>20, <1>21 DEF Inv

(* A document of a check that still writes, after its cells.               *)
LEMMA WritingKept ==
  ASSUME Inv, NEW r \in Checks, pc[r] = "write", CellsWritten(r), TreeOK(tree'[r]),
         tree'[r].cells = tree[r].cells, tree'[r].manifest = tree[r].manifest,
         \A q \in Runs \ {r} : tree'[q] = tree[q], tree' = [q \in Runs |-> tree'[q]],
         UNCHANGED <<latest, shared, clock, pc, job>>
  PROVE  Inv'
<1>1. r \in Runs /\ r \notin Harvests /\ pc[r] \in Active BY RunsAssumption DEF Active
<1>2. Working(r) BY <1>1 DEF Inv, RunOK
<1>3. StepOf(r) BY DEF StepOf
<1>4. Working(r)'
  <2>1. BasedOn(r, job[r])' BY <1>1, <1>2 DEF Working, BasedOn
  <2> QED BY <1>2, <2>1 DEF Working
<1>5. tree'[r].manifest = None BY <1>2 DEF Working
<1>6. RunOK(r)' BY <1>1, <1>4, <1>5 DEF RunOK
<1>7. \A q \in Runs \ {r} : RunOK(q)' BY <1>1, <1>3, OthersKept
<1>8. Shape' BY DEF Inv, Shape
<1> QED BY <1>6, <1>7, <1>8 DEF Inv

(* A check that ends, wherever it is.                                      *)
LEMMA StoppedKept ==
  ASSUME Inv, NEW r \in Checks, pc[r] \in Active,
         \E end \in {"done", "raised", "killed"} : pc' = [pc EXCEPT ![r] = end],
         job' = [job EXCEPT ![r] = None],
         UNCHANGED <<tree, shared, clock>>, latest' \in Runs \cup {None}
  PROVE  Inv'
<1> PICK end \in {"done", "raised", "killed"} : pc' = [pc EXCEPT ![r] = end] OBVIOUS
<1>1. r \in Runs /\ r \notin Harvests BY RunsAssumption
<1>2. /\ pc'[r] = end /\ end \notin Active \cup {"idle"}
      /\ \A q \in Runs \ {r} : pc'[q] = pc[q] /\ job'[q] = job[q]
  BY <1>1 DEF Inv, Shape, Active
<1>3. StepOf(r) BY <1>2 DEF StepOf
<1>4. RunOK(r) BY <1>1 DEF Inv
<1>5. ASSUME tree[r].manifest # None PROVE Descends(r)'
  <2>1. PICK j : /\ JobOK(j) /\ BasedOn(r, j) /\ j.todo = {}
                 /\ tree[r].manifest = Manifest(j)
                 /\ \A c \in Cells : tree[r].cells[c] = CellDoc(RebuiltCell(j, c))
    BY <1>4, <1>5 DEF RunOK, Descends
  <2>2. BasedOn(r, j)' BY <1>1, <1>3, <2>1, BasedKept
  <2> QED BY <2>1, <2>2 DEF Descends
<1>6. RunOK(r)' BY <1>1, <1>2, <1>4, <1>5 DEF RunOK
<1>7. \A q \in Runs \ {r} : RunOK(q)' BY <1>1, <1>3, OthersKept
<1>8. Shape' BY <1>1 DEF Inv, Shape
<1> QED BY <1>6, <1>7, <1>8 DEF Inv

LEMMA WriteTopicStep == ASSUME Inv, WriteTopic PROVE Inv'
<1>1. PICK r \in Checks, t \in Topics :
        /\ pc[r] = "write" /\ CellsWritten(r) /\ t \notin DOMAIN tree[r].topics
        /\ tree' = [tree EXCEPT ![r].topics = With(@, t, TopicDoc(t, job[r].built))]
        /\ UNCHANGED <<latest, shared, debris, clock, pc, job, faults>>
  BY DEF WriteTopic, Least
<1> DEFINE doc == TopicDoc(t, job[r].built)
           topics == With(tree[r].topics, t, doc)
<1>2. r \in Runs /\ r \notin Harvests /\ pc[r] \in Active BY <1>1, RunsAssumption DEF Active
<1>3. RunOK(r) /\ Working(r) BY <1>2 DEF Inv, RunOK
<1>4. tree[r].cells = job[r].built /\ DOMAIN tree[r].cells = Cells /\ tree[r].manifest = None
  BY <1>1, <1>3 DEF Working, CellsWritten
<1>5. /\ DOMAIN topics = DOMAIN tree[r].topics \cup {t} /\ topics[t] = doc
      /\ \A s \in DOMAIN tree[r].topics : topics[s] = tree[r].topics[s]
  <2> HIDE DEF doc
  <2> QED BY <1>1 DEF With
<1> HIDE DEF doc, topics
<1>6. /\ tree'[r] = [tree[r] EXCEPT !.topics = topics]
      /\ \A q \in Runs \ {r} : tree'[q] = tree[q]
      /\ tree' = [q \in Runs |-> tree'[q]]
  <2>1. tree = [q \in Runs |-> tree[q]] BY DEF Inv, Shape
  <2>2. tree' = [tree EXCEPT ![r].topics = With(@, t, doc)] BY <1>1 DEF doc
  <2>3. tree'[r] = [tree[r] EXCEPT !.topics = With(tree[r].topics, t, doc)]
        /\ (\A q \in Runs \ {r} : tree'[q] = tree[q]) /\ tree' = [q \in Runs |-> tree'[q]]
    BY <1>2, <2>1, <2>2
  <2> QED BY <2>3 DEF topics
<1>7. /\ tree'[r].topics = topics /\ tree'[r].cells = tree[r].cells
      /\ tree'[r].tail = tree[r].tail /\ tree'[r].manifest = tree[r].manifest
      /\ tree'[r] = [cells |-> tree'[r].cells, topics |-> tree'[r].topics,
                     tail |-> tree'[r].tail, manifest |-> tree'[r].manifest]
  <2>1. tree[r] = [cells |-> tree[r].cells, topics |-> tree[r].topics,
                   tail |-> tree[r].tail, manifest |-> tree[r].manifest]
    BY <1>3 DEF RunOK, TreeOK
  <2> QED BY <1>6, <2>1
<1>8. TreeOK(tree'[r])
  <2>1. /\ CellsOK(tree[r].cells) /\ DOMAIN tree[r].topics \subseteq Topics
        /\ tree[r].tail \subseteq Closing
        /\ \A s \in DOMAIN tree[r].topics : tree[r].topics[s] = TopicDoc(s, tree[r].cells)
    BY <1>3 DEF RunOK, TreeOK
  <2>2. \A s \in DOMAIN topics : topics[s] = TopicDoc(s, tree[r].cells)
    BY <1>4, <1>5, <2>1 DEF doc
  <2> QED BY <1>4, <1>5, <1>7, <2>1, <2>2 DEF TreeOK
<1> QED BY <1>1, <1>2, <1>6, <1>7, <1>8, WritingKept

LEMMA WriteClosingStep == ASSUME Inv, WriteClosing PROVE Inv'
<1>1. PICK r \in Checks, d \in Closing :
        /\ pc[r] = "write" /\ TopicsWritten(r)
        /\ tree' = [tree EXCEPT ![r].tail = @ \cup {d}]
        /\ UNCHANGED <<latest, shared, debris, clock, pc, job, faults>>
  BY DEF WriteClosing
<1>2. r \in Runs /\ r \notin Harvests /\ pc[r] \in Active BY <1>1, RunsAssumption DEF Active
<1>3. RunOK(r) /\ Working(r) BY <1>2 DEF Inv, RunOK
<1>4. tree[r].manifest = None /\ DOMAIN tree[r].cells = Cells
  BY <1>1, <1>3 DEF Working, TopicsWritten, CellsWritten
<1>5. /\ tree'[r] = [tree[r] EXCEPT !.tail = tree[r].tail \cup {d}]
      /\ \A q \in Runs \ {r} : tree'[q] = tree[q]
      /\ tree' = [q \in Runs |-> tree'[q]]
  <2>1. tree = [q \in Runs |-> tree[q]] BY DEF Inv, Shape
  <2> QED BY <1>1, <1>2, <2>1
<1>6. /\ tree'[r].topics = tree[r].topics /\ tree'[r].cells = tree[r].cells
      /\ tree'[r].tail = tree[r].tail \cup {d} /\ tree'[r].manifest = tree[r].manifest
      /\ tree'[r] = [cells |-> tree'[r].cells, topics |-> tree'[r].topics,
                     tail |-> tree'[r].tail, manifest |-> tree'[r].manifest]
  <2>1. tree[r] = [cells |-> tree[r].cells, topics |-> tree[r].topics,
                   tail |-> tree[r].tail, manifest |-> tree[r].manifest]
    BY <1>3 DEF RunOK, TreeOK
  <2> QED BY <1>5, <2>1
<1>7. TreeOK(tree'[r]) BY <1>3, <1>4, <1>6 DEF RunOK, TreeOK
<1>8. CellsWritten(r) BY <1>1 DEF TopicsWritten
<1> QED BY <1>1, <1>5, <1>6, <1>7, <1>8, WritingKept


LEMMA RaiseStep == ASSUME Inv, Raise PROVE Inv'
<1>1. PICK r \in Checks :
        /\ pc[r] = "write" /\ pc' = [pc EXCEPT ![r] = "raised"]
        /\ job' = [job EXCEPT ![r] = None] /\ UNCHANGED <<rootVars, clock, faults>>
  BY DEF Raise
<1>2. /\ pc[r] \in Active /\ UNCHANGED <<tree, shared, clock>> /\ latest' \in Runs \cup {None}
      /\ \E end \in {"done", "raised", "killed"} : pc' = [pc EXCEPT ![r] = end]
  BY <1>1 DEF Active, rootVars, Inv, Shape
<1>3. job' = [job EXCEPT ![r] = None] BY <1>1
<1> QED BY <1>2, <1>3, StoppedKept

LEMMA FaultStep == ASSUME Inv, Fault PROVE Inv'
<1>1. PICK r \in Checks, how \in {"killed", "raised"} :
        /\ pc[r] \in Active /\ pc' = [pc EXCEPT ![r] = how]
        /\ job' = [job EXCEPT ![r] = None] /\ UNCHANGED <<tree, latest, shared, clock>>
  BY DEF Fault
<1>2. /\ UNCHANGED <<tree, shared, clock>> /\ latest' \in Runs \cup {None}
      /\ \E end \in {"done", "raised", "killed"} : pc' = [pc EXCEPT ![r] = end]
  BY <1>1 DEF Inv, Shape
<1> QED BY <1>1, <1>2, StoppedKept

LEMMA PointStep == ASSUME Inv, Point PROVE Inv'
<1>1. PICK r \in Checks :
        /\ pc[r] = "point" /\ latest' = r
        /\ pc' = [pc EXCEPT ![r] = "done"] /\ job' = [job EXCEPT ![r] = None]
        /\ UNCHANGED <<tree, shared, debris, clock, faults>>
  BY DEF Point
<1>2. /\ pc[r] \in Active /\ UNCHANGED <<tree, shared, clock>> /\ latest' \in Runs \cup {None}
      /\ \E end \in {"done", "raised", "killed"} : pc' = [pc EXCEPT ![r] = end]
  BY <1>1, RunsAssumption DEF Active
<1> QED BY <1>1, <1>2, StoppedKept

LEMMA ManifestOK == ASSUME NEW j, BaseOK(j), j.base \in Runs PROVE Manifest(j) \in Manifests
<1>1. Manifest(j).rows \in [Cells -> Rows] BY DEF Manifest, Rows
<1> QED BY <1>1 DEF Manifest, Manifests, BaseOK

LEMMA WriteManifestStep == ASSUME Inv, WriteManifest PROVE Inv'
<1>1. PICK r \in Checks :
        /\ pc[r] = "write" /\ AllWritten(r)
        /\ tree' = [tree EXCEPT ![r].manifest = Manifest(job[r])]
        /\ pc' = [pc EXCEPT ![r] = "point"]
        /\ UNCHANGED <<latest, shared, debris, clock, job, faults>>
  BY DEF WriteManifest
<1> DEFINE m == Manifest(job[r])
<1>2. r \in Runs /\ r \notin Harvests /\ pc[r] \in Active BY <1>1, RunsAssumption DEF Active
<1>3. RunOK(r) /\ Working(r) BY <1>2 DEF Inv, RunOK
<1>4. m \in Manifests
  <2>1. BaseOK(job[r]) /\ job[r].base \in Runs BY <1>3 DEF Working, JobOK, BasedOn
  <2> QED BY <2>1, ManifestOK
<1> HIDE DEF m
<1>5. /\ tree'[r] = [tree[r] EXCEPT !.manifest = m]
      /\ \A q \in Runs \ {r} : tree'[q] = tree[q]
      /\ tree' = [q \in Runs |-> tree'[q]]
  <2>1. tree = [q \in Runs |-> tree[q]] BY DEF Inv, Shape
  <2>2. tree' = [tree EXCEPT ![r].manifest = m] BY <1>1 DEF m
  <2> QED BY <1>2, <2>1, <2>2
<1>6. /\ tree'[r].topics = tree[r].topics /\ tree'[r].cells = tree[r].cells
      /\ tree'[r].tail = tree[r].tail /\ tree'[r].manifest = m
      /\ tree'[r] = [cells |-> tree'[r].cells, topics |-> tree'[r].topics,
                     tail |-> tree'[r].tail, manifest |-> tree'[r].manifest]
  <2>1. tree[r] = [cells |-> tree[r].cells, topics |-> tree[r].topics,
                   tail |-> tree[r].tail, manifest |-> tree[r].manifest]
    BY <1>3 DEF RunOK, TreeOK
  <2> QED BY <1>5, <2>1
<1>7. /\ tree[r].cells = job[r].built /\ DOMAIN tree[r].cells = Cells
      /\ DOMAIN tree[r].topics = Topics /\ tree[r].tail = Closing
  BY <1>1, <1>3 DEF Working, AllWritten, TopicsWritten, CellsWritten
<1>8. TreeOK(tree'[r]) BY <1>3, <1>4, <1>6, <1>7 DEF RunOK, TreeOK
<1>9. StepOf(r)
  <2>1. \A q \in Runs \ {r} : pc'[q] = pc[q] BY <1>1 DEF Inv, Shape
  <2> QED BY <1>1, <1>5, <1>6, <2>1 DEF StepOf
<1>10. JobOK(job[r]) /\ BasedOn(r, job[r])' /\ job[r].todo = {} /\ pc'[r] = "point"
  <2>1. BasedOn(r, job[r])' BY <1>1, <1>2, <1>3, <1>5 DEF Working, BasedOn
  <2> QED BY <1>1, <1>2, <1>3, <2>1 DEF Working, Inv, Shape
<1>11. Working(r)' BY <1>1, <1>3, <1>6, <1>10 DEF Working
<1>12. Descends(r)'
  <2> DEFINE j == job'[r]
  <2>1. j = job[r] BY <1>1
  <2>2. JobOK(j) /\ j.todo = {} /\ tree'[r].manifest = Manifest(j)
    BY <1>6, <1>10, <2>1 DEF m
  <2>3. /\ j.base \in Runs /\ j.base # r /\ DOMAIN tree'[j.base].cells = Cells
        /\ j.cells = tree'[j.base].cells
    BY <1>10 DEF BasedOn
  <2>4. \A c \in Cells : tree'[r].cells[c] = CellDoc(RebuiltCell(j, c))
    BY <1>3, <1>6, <1>7, <2>1 DEF Working
  <2> HIDE DEF j
  <2> QED BY <2>2, <2>3, <2>4 DEF Descends, BasedOn
<1>13. RunOK(r)' BY <1>2, <1>8, <1>10, <1>11, <1>12 DEF RunOK
<1>14. \A q \in Runs \ {r} : RunOK(q)' BY <1>2, <1>9, OthersKept
<1>15. Shape' BY <1>1, <1>2, <1>5 DEF Inv, Shape, Active
<1> QED BY <1>13, <1>14, <1>15 DEF Inv

LEMMA NextInv == Inv /\ [Next]_vars => Inv'
<1> SUFFICES ASSUME Inv, [Next]_vars PROVE Inv' OBVIOUS
<1>1. CASE Harvest BY <1>1, HarvestStep
<1>2. CASE HarvestDies BY <1>2, HarvestDiesStep
<1>3. CASE Begin BY <1>3, BeginStep
<1>4. CASE Fetch BY <1>4, FetchStep
<1>5. CASE Reuse BY <1>5, ReuseStep
<1>6. CASE Rebuild BY <1>6, RebuildStep
<1>7. CASE WriteCell BY <1>7, WriteCellStep
<1>8. CASE Raise BY <1>8, RaiseStep
<1>9. CASE WriteTopic BY <1>9, WriteTopicStep
<1>10. CASE WriteClosing BY <1>10, WriteClosingStep
<1>11. CASE WriteManifest BY <1>11, WriteManifestStep
<1>12. CASE Point BY <1>12, PointStep
<1>13. CASE Fault BY <1>13, FaultStep
<1>14. CASE UNCHANGED vars
  <2>1. tree' = tree /\ job' = job /\ pc' = pc /\ UNCHANGED <<latest, shared, clock>>
    BY <1>14 DEF vars, rootVars
  <2>2. Shape' BY <2>1 DEF Inv, Shape
  <2>3. ASSUME NEW r \in Runs PROVE RunOK(r)'
    <3>1. RunOK(r) BY DEF Inv
    <3>2. ASSUME Working(r) PROVE Working(r)' BY <2>1, <3>2 DEF Working, BasedOn
    <3>3. ASSUME Descends(r) PROVE Descends(r)' BY <2>1, <3>3 DEF Descends, BasedOn
    <3> QED BY <2>1, <3>1, <3>2, <3>3 DEF RunOK
  <2> QED BY <2>2, <2>3 DEF Inv
<1> QED
  BY <1>1, <1>2, <1>3, <1>4, <1>5, <1>6, <1>7, <1>8, <1>9, <1>10, <1>11, <1>12, <1>13, <1>14
  DEF Next

-----------------------------------------------------------------------------
(* What is read from the invariant.                                        *)

LEMMA InvCheckInv == Inv => CheckInv
<1> SUFFICES ASSUME Inv PROVE CheckInv OBVIOUS
<1>1. ASSUME NEW r \in Runs
      PROVE  DOMAIN tree[r].cells \subseteq Cells /\ DOMAIN tree[r].topics \subseteq Topics
  BY DEF Inv, RunOK, TreeOK, CellsOK
<1>2. ASSUME NEW r \in Checks, pc[r] \in Active
      PROVE LET full == FullRecords(job[r].cells)
                mine == {x \in full : RecordId(x) \in DOMAIN job[r].by} \cup job[r].todo
            IN /\ Cardinality({RecordId(x) : x \in mine}) <= job[r].sample
               /\ \A x \in full, y \in job[r].todo : Before(x, y) => x \in mine
  <2> DEFINE j == job[r]
             full == FullRecords(j.cells)
             sampled == SelectSample(full, j.sample)
             mine == {x \in full : RecordId(x) \in DOMAIN j.by} \cup j.todo
             ids == {RecordId(x) : x \in mine}
             f == [x \in sampled |-> RecordId(x)]
  <2>1. BaseOK(j) /\ SampledOK(j)
    BY <1>2, RunsAssumption DEF Inv, RunOK, Working, JobOK
  <2>2. /\ IsFiniteSet(full) /\ full \subseteq Records /\ Ordered(full)
        /\ j.sample \in Nat \ {0}
    BY <2>1, FullOfCells, SampleAssumption DEF BaseOK
  <2>3. /\ sampled \subseteq full /\ j.todo \subseteq sampled
        /\ DOMAIN j.by = {RecordId(x) : x \in sampled \ j.todo}
    BY <2>1 DEF SampledOK, SelectSample
  <2>4. IsFiniteSet(sampled) /\ Cardinality(sampled) <= j.sample
        /\ Cardinality(sampled) \in Nat
    BY <2>2, SampleBounded, FS_CardinalityType
  <2> HIDE DEF j, full, sampled
  <2>5. ids = {RecordId(x) : x \in sampled} BY <2>3
  <2>6. f \in Surjection(sampled, ids)
    <3>1. f \in [sampled -> ids] /\ \A t \in ids : \E x \in sampled : f[x] = t BY <2>5
    <3> HIDE DEF f, ids
    <3> QED BY <3>1, Fun_IsSurj
  <2>7. Cardinality(ids) <= j.sample
    <3>1. IsFiniteSet(ids) /\ Cardinality(ids) <= Cardinality(sampled)
      <4> HIDE DEF f, ids
      <4> QED BY <2>4, <2>6, FS_Surjection
    <3>2. Cardinality(ids) \in Nat BY <3>1, FS_CardinalityType
    <3> QED BY <2>2, <2>4, <3>1, <3>2
  <2>8. \A x \in full, y \in j.todo : Before(x, y) => x \in mine
    <3>1. \A x \in full, y \in j.todo : Before(x, y) => x \in sampled
      BY <2>2, <2>3, SampleIsPrefix DEF sampled
    <3> QED BY <2>3, <3>1
  <2> QED BY <2>7, <2>8 DEF j, full
<1> QED BY <1>1, <1>2 DEF CheckInv, Inv, Shape

(* The pointer, the clock and the documents are what they say they are; a  *)
(* link check looks at the first full records of its base, no more of them *)
(* than it was asked for, whatever the sample and the corpus.              *)
THEOREM SampleIsRespected == Spec => []CheckInv
<1>1. Spec => []Inv BY InitInv, NextInv, PTL DEF Spec
<1> QED BY <1>1, InvCheckInv, PTL

LEMMA InvOneRequest == Inv => OneRequest
<1> SUFFICES ASSUME Inv, NEW r \in Checks, pc[r] \in Active
             PROVE  /\ \A k \in Identities : job[r].asked[k] <= 1
                    /\ \A p, q \in FullRecords(job[r].cells) :
                         /\ {RecordId(p), RecordId(q)} \subseteq DOMAIN job[r].by
                         /\ Canon[p.url] = Canon[q.url]
                         => job[r].by[RecordId(p)] = job[r].by[RecordId(q)]
  BY DEF OneRequest
<1>1. AskedOK(job[r]) BY RunsAssumption DEF Inv, RunOK, Working, JobOK
<1>2. \A k \in Identities : job[r].asked[k] <= 1
  <2> SUFFICES ASSUME NEW k \in Identities PROVE job[r].asked[k] <= 1 OBVIOUS
  <2>1. job[r].asked[k] \in Nat
        /\ job[r].asked[k] <= IF k \in DOMAIN job[r].outcomes THEN 1 ELSE 0
    BY <1>1 DEF AskedOK
  <2> QED BY <2>1
<1> QED BY <1>1, <1>2 DEF AskedOK

(* A link check asks for the page of an identity once, and the records     *)
(* that share it share the answer, whatever the number of checks at work   *)
(* and wherever a harvest or a kill comes between.                         *)
THEOREM OneFetchPerIdentity == Spec => []OneRequest
<1>1. Spec => []Inv BY InitInv, NextInv, PTL DEF Spec
<1> QED BY <1>1, InvOneRequest, PTL

LEMMA RebuiltBijection ==
  ASSUME NEW j, BaseOK(j), NEW c \in Cells
  PROVE  Cardinality(RebuiltCell(j, c)) = Cardinality(j.cells[c].records)
<1> DEFINE old == j.cells[c].records
           new == RebuiltCell(j, c)
           f == [rec \in old |-> Made(j, rec)]
<1>1. InCell(old, c) BY DEF BaseOK, CellsOK
<1>2. new = {Made(j, rec) : rec \in old} BY DEF RebuiltCell, Made
<1>3. ASSUME NEW x \in old, NEW y \in old, Made(j, x) = Made(j, y) PROVE x = y
  <2>1. x \in Records /\ y \in Records BY <1>1 DEF InCell
  <2>2. /\ Made(j, x) = [x EXCEPT !.history = Made(j, x).history]
        /\ Made(j, y) = [y EXCEPT !.history = Made(j, y).history]
    BY <2>1, MadeContinues DEF BaseOK
  <2>3. Made(j, x).key = x.key /\ Made(j, y).key = y.key BY <2>1, <2>2 DEF Records
  <2> QED BY <1>1, <1>3, <2>3 DEF InCell
<1>4. /\ f \in [old -> new] /\ \A x, y \in old : f[x] = f[y] => x = y
      /\ \A t \in new : \E x \in old : f[x] = t
  BY <1>2, <1>3
<1>5. IsFiniteSet(old) BY <1>1 DEF InCell
<1> HIDE DEF f, old, new
<1>6. f \in Injection(old, new) /\ f \in Surjection(old, new) BY <1>4, Fun_IsInj, Fun_IsSurj
<1>7. Cardinality(new) = Cardinality(old) BY <1>5, <1>6, FS_Surjection
<1> QED BY <1>7 DEF old, new

LEMMA InvHistoryKept == Inv => HistoryKept
<1> SUFFICES ASSUME Inv, NEW r \in Checks, Finished(r)
             PROVE
    LET b == tree[r].manifest.base
        bare(rec) == [rec EXCEPT !.history = <<>>]
        continues(rec, old) ==
          /\ bare(rec) = bare(old)
          /\ \/ rec.history = old.history
             \/ /\ Len(rec.history) = Len(old.history) + 1
                /\ \A i \in DOMAIN old.history : rec.history[i] = old.history[i]
                /\ rec.history[Len(rec.history)].at = tree[r].manifest.stamp
    IN \A c \in Cells :
         LET new == tree[r].cells[c].records
             old == tree[b].cells[c].records
         IN /\ Cardinality(new) = Cardinality(old)
            /\ \A x \in old : \E y \in new : continues(y, x)
  BY DEF HistoryKept
<1> DEFINE bare(rec) == [rec EXCEPT !.history = <<>>]
           continues(rec, old) ==
             /\ bare(rec) = bare(old)
             /\ \/ rec.history = old.history
                \/ /\ Len(rec.history) = Len(old.history) + 1
                   /\ \A i \in DOMAIN old.history : rec.history[i] = old.history[i]
                   /\ rec.history[Len(rec.history)].at = tree[r].manifest.stamp
<1>1. tree[r].manifest # None BY DEF Finished, RunIsFinished, Root
<1>2. PICK j : /\ JobOK(j) /\ BasedOn(r, j) /\ tree[r].manifest = Manifest(j)
               /\ \A c \in Cells : tree[r].cells[c] = CellDoc(RebuiltCell(j, c))
  BY <1>1, RunsAssumption DEF Inv, RunOK, Descends
<1>3. /\ BaseOK(j) /\ tree[r].manifest.base = j.base /\ tree[r].manifest.stamp = j.stamp
      /\ j.cells = tree[j.base].cells
  BY <1>2 DEF JobOK, BasedOn, Manifest
<1>4. ASSUME NEW c \in Cells
      PROVE  /\ Cardinality(tree[r].cells[c].records)
                  = Cardinality(tree[tree[r].manifest.base].cells[c].records)
             /\ \A x \in tree[tree[r].manifest.base].cells[c].records :
                  \E y \in tree[r].cells[c].records : continues(y, x)
  <2> DEFINE old == j.cells[c].records
  <2>1. tree[r].cells[c].records = RebuiltCell(j, c)
    <3>1. tree[r].cells[c] = CellDoc(RebuiltCell(j, c)) BY <1>2
    <3> QED BY <3>1 DEF CellDoc
  <2>2. Cardinality(RebuiltCell(j, c)) = Cardinality(old) BY <1>3, RebuiltBijection
  <2>3. ASSUME NEW x \in old
        PROVE  Made(j, x) \in RebuiltCell(j, c) /\ continues(Made(j, x), x)
    <3>1. x \in Records BY <1>3 DEF BaseOK, CellsOK, InCell
    <3>2. /\ Made(j, x) \in Records
          /\ Made(j, x) = [x EXCEPT !.history = Made(j, x).history]
          /\ ~Checked(j, x) => Made(j, x) = x
          /\ Checked(j, x) =>
               /\ Len(Made(j, x).history) = Len(x.history) + 1
               /\ \A i \in DOMAIN x.history : Made(j, x).history[i] = x.history[i]
               /\ Made(j, x).history[Len(x.history) + 1].at = j.stamp
      BY <1>3, <3>1, MadeContinues DEF BaseOK
    <3>3. bare(Made(j, x)) = bare(x) BY <3>1, <3>2 DEF Records
    <3>4. Made(j, x) \in RebuiltCell(j, c) BY DEF RebuiltCell, Made
    <3> HIDE DEF bare
    <3> QED BY <1>3, <3>2, <3>3, <3>4
  <2> HIDE DEF continues
  <2> QED BY <1>3, <2>1, <2>2, <2>3
<1> QED BY <1>4

(* Link checking never loses, re-judges or rewrites: what a finished check *)
(* holds of a cell is the records of its base, each with its history and   *)
(* at most one entry of this check after it.                               *)
THEOREM NothingIsLost == Spec => []HistoryKept
<1>1. Spec => []Inv BY InitInv, NextInv, PTL DEF Spec
<1> QED BY <1>1, InvHistoryKept, PTL

-----------------------------------------------------------------------------
(* The validator.                                                          *)

LEMMA RootFields == Root.tree = tree /\ Root.latest = latest
                    /\ Root.shared = shared /\ Root.debris = debris
BY DEF Root

(* What the validator finds, part by part.                                 *)
LEMMA WhenEmpty == ASSUME NEW wrong, NEW what, NEW of PROVE When(wrong, what, of) = {} <=> ~wrong
BY DEF When, Finding

LEMMA ValidateParts ==
  ASSUME NEW root, NEW r
  PROVE  ValidateRun(root, r) = {} <=>
           /\ ListingFindings(root, r) = {}
           /\ \A c \in DOMAIN root.tree[r].cells : CountFindings("cells", c, root.tree[r].cells[c]) = {}
           /\ \A s \in DOMAIN root.tree[r].topics :
                CountFindings("topics", s, root.tree[r].topics[s]) = {}
           /\ TopicFindings(root, r) = {} /\ ManifestFindings(root, r) = {}
           /\ PointerFindings(root, r) = {} /\ root.debris = {}
<1> DEFINE t == root.tree[r]
           listing == ListingFindings(root, r)
           cell(c) == CountFindings("cells", c, t.cells[c])
           cells == UNION {cell(c) : c \in DOMAIN t.cells}
           topic(s) == CountFindings("topics", s, t.topics[s])
           topics == UNION {topic(s) : s \in DOMAIN t.topics}
           totals == TopicFindings(root, r)
           manifest == ManifestFindings(root, r)
           pointer == PointerFindings(root, r)
           left == {<<"debris", d>> : d \in root.debris}
<1>1. ValidateRun(root, r) = listing \cup cells \cup topics \cup totals \cup manifest
                               \cup pointer \cup left
  BY Zenon DEF ValidateRun
<1>2. cells = {} <=> \A c \in DOMAIN t.cells : cell(c) = {}
  <2> HIDE DEF cell, t
  <2> QED OBVIOUS
<1>3. topics = {} <=> \A s \in DOMAIN t.topics : topic(s) = {}
  <2> HIDE DEF topic, t
  <2> QED OBVIOUS
<1>4. left = {} <=> root.debris = {} OBVIOUS
<1>5. ValidateRun(root, r) = {} <=> /\ listing = {} /\ cells = {} /\ topics = {} /\ totals = {}
                                    /\ manifest = {} /\ pointer = {} /\ left = {}
  <2> HIDE DEF listing, cells, topics, totals, manifest, pointer, left
  <2> QED BY <1>1
<1> QED BY <1>2, <1>3, <1>4, <1>5

(* What a link check must claim, and have done.                            *)
LinkcheckSound(root, r, m) ==
  LET docs == root.tree[r].cells
      ok   == {c \in DOMAIN m.rows : m.rows[c].status = "ok"}
      checked == {c \in DOMAIN docs : StampedAt(docs[c], m.stamp) # {}}
  IN /\ m.base # r /\ HasDirectory(root, m.base) /\ RunIsFinished(root, m.base)
     /\ m.enrich /\ ~(m.bounds = None \/ m.bounds \notin 1..MaxSample) /\ ~m.probed
     /\ \A c \in DOMAIN m.rows : m.rows[c].status \in {"ok", "not_run"}
     /\ ok # {} /\ checked # {}
     /\ ok \cap DOMAIN docs \subseteq checked /\ checked \subseteq ok

LEMMA LinkcheckParts ==
  ASSUME NEW root, NEW r, NEW m
  PROVE  LinkcheckFindings(root, r, m) = {} <=> LinkcheckSound(root, r, m)
<1> DEFINE docs == root.tree[r].cells
           ok   == {c \in DOMAIN m.rows : m.rows[c].status = "ok"}
           checked == {c \in DOMAIN docs : StampedAt(docs[c], m.stamp) # {}}
           f1 == When(m.base = r, "own base", r)
           f2 == When(m.base # r /\ ~HasDirectory(root, m.base), "no base", m.base)
           f3 == When(m.base # r /\ HasDirectory(root, m.base) /\ ~RunIsFinished(root, m.base),
                      "incomplete base", m.base)
           f4 == When(~m.enrich, "not enriched", m.mode)
           f5 == When(m.bounds = None \/ m.bounds \notin 1..MaxSample, "sample", m.mode)
           f6 == When(m.probed, "preflight", m.mode)
           row(c) == When(m.rows[c].status \notin {"ok", "not_run"}, "status", c)
           f7 == UNION {row(c) : c \in DOMAIN m.rows}
           f8 == When(ok = {}, "nothing ok", r)
           f9 == When(checked = {}, "nothing checked", r)
           f10 == {<<"ok unchecked", c>> : c \in (ok \cap DOMAIN docs) \ checked}
           f11 == {<<"checked not ok", c>> : c \in checked \ ok}
<1>1. LinkcheckFindings(root, r, m) =
        f1 \cup f2 \cup f3 \cup f4 \cup f5 \cup f6 \cup f7 \cup f8 \cup f9 \cup f10 \cup f11
  BY Zenon DEF LinkcheckFindings
<1>2. /\ f1 = {} <=> m.base # r
      /\ f2 = {} <=> ~(m.base # r /\ ~HasDirectory(root, m.base))
      /\ f3 = {} <=> ~(m.base # r /\ HasDirectory(root, m.base) /\ ~RunIsFinished(root, m.base))
      /\ f4 = {} <=> m.enrich
      /\ f5 = {} <=> ~(m.bounds = None \/ m.bounds \notin 1..MaxSample)
      /\ f6 = {} <=> ~m.probed
      /\ f8 = {} <=> ok # {}
      /\ f9 = {} <=> checked # {}
  <2> HIDE DEF ok, checked
  <2> QED BY WhenEmpty
<1>3. f7 = {} <=> \A c \in DOMAIN m.rows : m.rows[c].status \in {"ok", "not_run"}
  <2>1. \A c : row(c) = {} <=> m.rows[c].status \in {"ok", "not_run"} BY WhenEmpty
  <2> HIDE DEF row
  <2> QED BY <2>1
<1>4. /\ f10 = {} <=> ok \cap DOMAIN docs \subseteq checked
      /\ f11 = {} <=> checked \subseteq ok
  <2> HIDE DEF ok, checked, docs
  <2> QED OBVIOUS
<1>5. LinkcheckFindings(root, r, m) = {} <=>
        /\ f1 = {} /\ f2 = {} /\ f3 = {} /\ f4 = {} /\ f5 = {} /\ f6 = {} /\ f7 = {} /\ f8 = {}
        /\ f9 = {} /\ f10 = {} /\ f11 = {}
  <2> HIDE DEF f1, f2, f3, f4, f5, f6, f7, f8, f9, f10, f11
  <2> QED BY <1>1
<1> HIDE DEF f1, f2, f3, f4, f5, f6, f7, f8, f9, f10, f11, ok, checked, docs
<1>6. LinkcheckFindings(root, r, m) = {} <=>
              /\ m.base # r /\ HasDirectory(root, m.base) /\ RunIsFinished(root, m.base)
              /\ m.enrich /\ ~(m.bounds = None \/ m.bounds \notin 1..MaxSample) /\ ~m.probed
              /\ \A c \in DOMAIN m.rows : m.rows[c].status \in {"ok", "not_run"}
              /\ ok # {} /\ checked # {}
              /\ ok \cap DOMAIN docs \subseteq checked /\ checked \subseteq ok
  BY <1>2, <1>3, <1>4, <1>5
<1> QED BY <1>6 DEF ok, checked, docs, LinkcheckSound

LEMMA InvAcceptedWhole == Inv => AcceptedWhole
<1> SUFFICES ASSUME Inv, NEW r \in Runs, HasDirectory(Root, r), ValidateRun(Root, r) = {}
             PROVE  /\ latest = r /\ Finished(r)
                    /\ DOMAIN tree[r].cells = Cells
                    /\ \A s \in Topics : tree[r].topics[s] = TopicDoc(s, tree[r].cells)
                    /\ tree[r].manifest.mode = "linkcheck" =>
                         /\ Finished(tree[r].manifest.base)
                         /\ \E c \in Cells : StampedAt(tree[r].cells[c], tree[r].manifest.stamp) # {}
  BY DEF AcceptedWhole
<1> DEFINE m == tree[r].manifest
           b == m.base
           docs == tree[r].cells
<1>1. /\ ListingFindings(Root, r) = {} /\ ManifestFindings(Root, r) = {}
      /\ PointerFindings(Root, r) = {}
  BY ValidateParts
<1>2. latest = r /\ Finished(r)
  <2>1. Root.latest = r BY <1>1 DEF PointerFindings, When, Finding
  <2>2. RunIsFinished(Root, r) BY <1>1, <2>1 DEF PointerFindings, When, Finding
  <2> QED BY <2>1, <2>2, RootFields DEF Finished
<1>3. DOMAIN docs = Cells /\ DOMAIN tree[r].topics = Topics
  <2>1. /\ Differs("cells", DOMAIN Root.tree[r].cells, Cells) = {}
        /\ Differs("topics", DOMAIN Root.tree[r].topics, Topics) = {}
    BY <1>1 DEF ListingFindings
  <2>2. DOMAIN Root.tree[r].cells = Cells /\ DOMAIN Root.tree[r].topics = Topics
    BY <2>1 DEF Differs
  <2> QED BY <2>2, RootFields
<1>4. \A s \in Topics : tree[r].topics[s] = TopicDoc(s, docs) BY <1>3 DEF Inv, RunOK, TreeOK
<1>5. ASSUME m.mode = "linkcheck"
      PROVE  Finished(b) /\ \E c \in Cells : StampedAt(docs[c], m.stamp) # {}
  <2>1. m # None BY <1>2, RootFields DEF Finished, RunIsFinished
  <2>2. LinkcheckFindings(Root, r, m) = {}
    <3>1. ManifestFindings(Root, r) =
            Differs("rows", DOMAIN m.rows, Cells) \cup SightingFindings(m.rows)
              \cup When(m.eligible, "eligible", m.mode) \cup LinkcheckFindings(Root, r, m)
      BY <1>5, <2>1, RootFields DEF ManifestFindings
    <3> QED BY <1>1, <3>1
  <2> DEFINE checked == {c \in DOMAIN docs : StampedAt(docs[c], m.stamp) # {}}
  <2>3. /\ b # r /\ HasDirectory(Root, b) /\ RunIsFinished(Root, b) /\ checked # {}
    BY <2>2, LinkcheckParts, RootFields, SMTT(30) DEF LinkcheckSound
  <2> QED BY <1>3, <2>3 DEF Finished
<1> QED BY <1>2, <1>3, <1>4, <1>5

(* The validator sees damage: a run it accepts has all its cells and the   *)
(* topics that follow from them, is the one the pointer names, and, if it  *)
(* is a link check, has looked at the pages of a finished run.             *)
THEOREM ValidatorIsSound == Spec => []AcceptedWhole
<1>1. Spec => []Inv BY InitInv, NextInv, PTL DEF Spec
<1> QED BY <1>1, InvAcceptedWhole, PTL

-----------------------------------------------------------------------------
(* The pointer names a finished run.                                       *)

Pointed ==
  /\ latest # None => tree[latest].manifest # None
  /\ \A r \in Checks : pc[r] = "point" => tree[r].manifest # None

LEMMA PointedKept ==
  ASSUME Inv, Pointed,
         \A q \in Runs : tree[q].manifest # None => tree'[q].manifest # None,
         latest' = latest \/ (latest' \in Runs /\ tree'[latest'].manifest # None),
         \A q \in Checks : pc'[q] = "point" => pc[q] = "point" \/ tree'[q].manifest # None
  PROVE  Pointed'
<1>1. ASSUME latest' # None PROVE tree'[latest'].manifest # None
  <2>1. CASE latest' = latest BY <1>1, <2>1 DEF Pointed, Inv, Shape
  <2>2. CASE latest' # latest BY <2>2
  <2> QED BY <2>1, <2>2
<1>2. \A r \in Checks : pc'[r] = "point" => tree'[r].manifest # None
  BY RunsAssumption DEF Pointed
<1> QED BY <1>1, <1>2 DEF Pointed

LEMMA PointedStep == Inv /\ Pointed /\ [Next]_vars => Pointed'
<1> SUFFICES ASSUME Inv, Pointed, [Next]_vars PROVE Pointed' OBVIOUS
<1>1. /\ tree = [q \in Runs |-> tree[q]] /\ job = [q \in Runs |-> job[q]]
      /\ DOMAIN pc = Runs /\ Checks \subseteq Runs /\ Harvests \subseteq Runs
      /\ \A q \in Runs : DOMAIN tree[q] = {"cells", "topics", "tail", "manifest"}
  <2>1. /\ tree = [q \in Runs |-> tree[q]] /\ job = [q \in Runs |-> job[q]]
        /\ DOMAIN pc = Runs /\ Checks \subseteq Runs /\ Harvests \subseteq Runs
    BY RunsAssumption DEF Inv, Shape
  <2>2. ASSUME NEW q \in Runs PROVE DOMAIN tree[q] = {"cells", "topics", "tail", "manifest"}
    <3>1. TreeOK(tree[q]) BY DEF Inv, RunOK
    <3> QED BY <3>1 DEF TreeOK
  <2> QED BY <2>1, <2>2
<1>2. CASE Harvest
  <2>1. PICK r \in Harvests, corpus \in Corpora, mode \in {"smoke", "harvest"} :
          /\ pc[r] = "idle" /\ ReadClock /\ pc' = [pc EXCEPT ![r] = "done"]
          /\ tree' = [tree EXCEPT ![r] =
                        [cells |-> Written(corpus, Cells),
                         topics |-> [t \in Topics |-> TopicDoc(t, Written(corpus, Cells))],
                         tail |-> Closing, manifest |-> HarvestManifest(mode, corpus)]]
          /\ latest' = r /\ shared' = Cells /\ UNCHANGED <<debris, job, faults>>
    BY <1>2, Zenon DEF Harvest
  <2>2. HarvestManifest(mode, corpus) # None BY <2>1, HarvestManifestOK, NoneAssumption
  <2> DEFINE t == [cells |-> Written(corpus, Cells),
                   topics |-> [t \in Topics |-> TopicDoc(t, Written(corpus, Cells))],
                   tail |-> Closing, manifest |-> HarvestManifest(mode, corpus)]
  <2>3. t.manifest # None BY <2>2
  <2>4. tree' = [tree EXCEPT ![r] = t] BY <2>1
  <2> HIDE DEF t
  <2>5. tree'[r] = t /\ \A q \in Runs \ {r} : tree'[q] = tree[q] BY <1>1, <2>4
  <2>6. \A q \in Runs : tree[q].manifest # None => tree'[q].manifest # None BY <2>3, <2>5
  <2>7. \A q \in Checks : pc'[q] = "point" => pc[q] = "point" BY <1>1, <2>1
  <2> QED BY <1>1, <2>1, <2>3, <2>5, <2>6, <2>7, PointedKept
<1>3. CASE HarvestDies
  <2>1. PICK r \in Harvests, corpus \in Corpora, last \in Cells :
          /\ pc[r] = "idle" /\ pc' = [pc EXCEPT ![r] = "killed"]
          /\ tree' = [tree EXCEPT ![r].cells = Written(corpus, {c \in Cells : c <= last})]
          /\ UNCHANGED <<latest, shared, clock, job>>
    BY <1>3, Zenon DEF HarvestDies
  <2>2. \A q \in Runs : tree[q].manifest # None => tree'[q].manifest # None BY <1>1, <2>1
  <2>3. \A q \in Checks : pc'[q] = "point" => pc[q] = "point" BY <1>1, <2>1
  <2> QED BY <2>1, <2>2, <2>3, PointedKept
<1>4. CASE Begin \/ Fetch \/ Reuse \/ Rebuild \/ Raise
  <2>1. /\ tree' = tree /\ latest' = latest
        /\ \/ pc' = pc
           \/ \E r \in Checks, v \in {"fetch", "write", "raised"} : pc' = [pc EXCEPT ![r] = v]
    BY <1>4 DEF Begin, Fetch, Reuse, Rebuild, Raise, rootVars
  <2>2. \A q \in Checks : pc'[q] = "point" => pc[q] = "point" BY <1>1, <2>1
  <2> QED BY <2>1, <2>2, PointedKept
<1>5. CASE WriteCell
  <2>1. PICK r \in Checks, c \in Cells :
          /\ tree' = [tree EXCEPT ![r].cells = With(@, c, CellDoc(RebuiltCell(job[r], c)))]
          /\ UNCHANGED <<latest, pc>>
    BY <1>5 DEF WriteCell
  <2>2. \A q \in Runs : tree[q].manifest # None => tree'[q].manifest # None BY <1>1, <2>1
  <2> QED BY <2>1, <2>2, PointedKept
<1>6. CASE WriteTopic
  <2>1. PICK r \in Checks, t \in Topics :
          /\ tree' = [tree EXCEPT ![r].topics = With(@, t, TopicDoc(t, job[r].built))]
          /\ UNCHANGED <<latest, pc>>
    BY <1>6 DEF WriteTopic
  <2>2. \A q \in Runs : tree[q].manifest # None => tree'[q].manifest # None BY <1>1, <2>1
  <2> QED BY <2>1, <2>2, PointedKept
<1>7. CASE WriteClosing
  <2>1. PICK r \in Checks, d \in Closing :
          /\ tree' = [tree EXCEPT ![r].tail = @ \cup {d}] /\ UNCHANGED <<latest, pc>>
    BY <1>7 DEF WriteClosing
  <2>2. \A q \in Runs : tree[q].manifest # None => tree'[q].manifest # None BY <1>1, <2>1
  <2> QED BY <2>1, <2>2, PointedKept
<1>8. CASE WriteManifest
  <2>1. PICK r \in Checks :
          /\ pc[r] = "write" /\ tree' = [tree EXCEPT ![r].manifest = Manifest(job[r])]
          /\ pc' = [pc EXCEPT ![r] = "point"] /\ latest' = latest
    BY <1>8 DEF WriteManifest
  <2>2. BaseOK(job[r]) /\ job[r].base \in Runs
    BY <1>1, <2>1 DEF Inv, RunOK, Active, Working, JobOK, BasedOn
  <2>3. Manifest(job[r]) # None BY <2>2, ManifestOK, NoneAssumption
  <2> DEFINE m == Manifest(job[r])
  <2> HIDE DEF m
  <2>4. tree' = [tree EXCEPT ![r].manifest = m] BY <2>1 DEF m
  <2>5. tree'[r].manifest = m /\ \A q \in Runs \ {r} : tree'[q] = tree[q] BY <1>1, <2>4
  <2>6. \A q \in Runs : tree[q].manifest # None => tree'[q].manifest # None BY <2>3, <2>5 DEF m
  <2>7. \A q \in Checks : pc'[q] = "point" => pc[q] = "point" \/ tree'[q].manifest # None
    BY <1>1, <2>1, <2>3, <2>5 DEF m
  <2> QED BY <2>1, <2>6, <2>7, PointedKept
<1>9. CASE Point \/ Fault
  <2>1. PICK r \in Checks, end \in {"done", "raised", "killed"} :
          /\ tree' = tree /\ pc' = [pc EXCEPT ![r] = end]
          /\ latest' = latest \/ (latest' = r /\ pc[r] = "point")
    BY <1>9 DEF Point, Fault
  <2>2. latest' = latest \/ (latest' \in Runs /\ tree'[latest'].manifest # None)
    BY <1>1, <2>1 DEF Pointed
  <2>3. \A q \in Checks : pc'[q] = "point" => pc[q] = "point" BY <1>1, <2>1
  <2> QED BY <2>1, <2>2, <2>3, PointedKept
<1>10. CASE UNCHANGED vars BY <1>10 DEF vars, rootVars, Pointed
<1> QED BY <1>2, <1>3, <1>4, <1>5, <1>6, <1>7, <1>8, <1>9, <1>10 DEF Next

-----------------------------------------------------------------------------
(* The totals of a topic.                                                  *)

LEMMA HeldIsNat ==
  ASSUME NEW cells, CellsOK(cells), NEW cs \in SUBSET DOMAIN cells, NEW type
  PROVE  /\ IsFiniteSet(UNION {{c} \X OfType(cells[c].records, type) : c \in cs})
         /\ Held(cells, cs, type) \in Nat
<1> DEFINE P == UNION {{c} \X OfType(cells[c].records, type) : c \in cs}
<1>1. P \subseteq (DOMAIN cells) \X Contents(cells) BY DEF OfType, Contents
<1>2. IsFiniteSet(DOMAIN cells) BY TopicsAssumption, FS_Subset DEF CellsOK
<1>3. IsFiniteSet((DOMAIN cells) \X Contents(cells)) BY <1>2, ContentsFinite, FS_Product
<1> HIDE DEF P
<1>4. IsFiniteSet(P) /\ Cardinality(P) \in Nat BY <1>1, <1>3, FS_Subset, FS_CardinalityType
<1> QED BY <1>4 DEF P, Held

LEMMA HeldBounds ==
  ASSUME NEW cells, CellsOK(cells), NEW cs \in SUBSET DOMAIN cells, NEW type,
         NEW kept, kept \subseteq UNION {cells[c].records : c \in cs}
  PROVE  /\ IsFiniteSet(OfType(kept, type))
         /\ Cardinality(OfType(kept, type)) <= Held(cells, cs, type)
<1> DEFINE K == OfType(kept, type)
           P == UNION {{c} \X OfType(cells[c].records, type) : c \in cs}
           f == [x \in K |-> <<x.cell, x>>]
<1>1. ASSUME NEW x \in K
      PROVE  x.cell \in cs /\ x \in OfType(cells[x.cell].records, type)
  <2>1. PICK c \in cs : x \in cells[c].records BY DEF OfType
  <2>2. x.cell = c BY <2>1 DEF CellsOK, InCell
  <2> QED BY <2>1, <2>2 DEF OfType
<1>2. f \in [K -> P]
  <2>1. \A x \in K : <<x.cell, x>> \in P BY <1>1
  <2> HIDE DEF K, P
  <2> QED BY <2>1
<1>3. \A x, y \in K : f[x] = f[y] => x = y
  <2> HIDE DEF K
  <2> QED OBVIOUS
<1>4. IsFiniteSet(P) BY HeldIsNat
<1> HIDE DEF f, K, P
<1>5. f \in Injection(K, P) BY <1>2, <1>3, Fun_IsInj
<1>6. IsFiniteSet(K) /\ Cardinality(K) <= Cardinality(P) BY <1>4, <1>5, FS_Injection
<1> QED BY <1>6 DEF K, P, Held

(* The sum of what each category holds is what all of them hold.           *)
LEMMA TotalCounts ==
  ASSUME NEW K, IsFiniteSet(K), NEW cs, \A x \in K : x.cell \in cs
  PROVE  Total([c \in cs |-> Cardinality({x \in K : x.cell = c})]) = Cardinality(K)
<1> DEFINE In(c) == {x \in K : x.cell = c}
           n == [c \in cs |-> Cardinality(In(c))]
           g == [c \in cs |-> CHOOSE h : h \in Bijection(1..n[c], In(c))]
           P == UNION {{c} \X (1..n[c]) : c \in DOMAIN n}
           f == [p \in P |-> g[p[1]][p[2]]]
<1>1. ASSUME NEW c \in cs PROVE g[c] \in Bijection(1..n[c], In(c))
  <2>1. IsFiniteSet(In(c)) BY FS_Subset
  <2>2. n[c] = Cardinality(In(c)) /\ n[c] \in Nat BY <2>1, FS_CardinalityType
  <2>3. IsFiniteSet(1..n[c]) /\ Cardinality(1..n[c]) = n[c]
    <3> HIDE DEF n
    <3> QED BY <2>2, FS_Interval
  <2> HIDE DEF In, n
  <2>4. ExistsBijection(1..n[c], In(c)) BY <2>1, <2>2, <2>3, FS_SameCardinalityBij
  <2>5. \E h : h \in Bijection(1..n[c], In(c)) BY <2>4 DEF ExistsBijection
  <2> QED BY <2>5
<1>2. ASSUME NEW c \in cs
      PROVE  /\ \A i \in 1..n[c] : g[c][i] \in K /\ g[c][i].cell = c
             /\ \A i, k \in 1..n[c] : g[c][i] = g[c][k] => i = k
             /\ \A x \in In(c) : \E i \in 1..n[c] : g[c][i] = x
  <2> DEFINE h == g[c]
             I == 1..n[c]
             T == In(c)
  <2>1. h \in Bijection(I, T) BY <1>1
  <2>2. \A x \in T : x \in K /\ x.cell = c OBVIOUS
  <2> HIDE DEF h, I, T
  <2>3. \A i \in I : h[i] \in T BY <2>1 DEF Bijection, Injection, IsInjective
  <2>4. \A i, k \in I : h[i] = h[k] => i = k BY <2>1 DEF Bijection, Injection, IsInjective
  <2>5. \A x \in T : \E i \in I : h[i] = x BY <2>1 DEF Bijection, Surjection
  <2> QED BY <2>2, <2>3, <2>4, <2>5 DEF h, I, T
<1> HIDE DEF g
<1>3. \A p \in P : p = <<p[1], p[2]>> /\ p[1] \in cs /\ p[2] \in 1..n[p[1]]
  <2>1. DOMAIN n = cs OBVIOUS
  <2> HIDE DEF n
  <2> QED BY <2>1
<1>4. \A c \in cs : \A i \in 1..n[c] : <<c, i>> \in P
  <2>1. DOMAIN n = cs OBVIOUS
  <2> HIDE DEF n
  <2> QED BY <2>1
<1> HIDE DEF P, n
<1>5. f \in [P -> K] BY <1>2, <1>3
<1>6. \A p, q \in P : f[p] = f[q] => p = q BY <1>2, <1>3
<1>7. \A x \in K : \E p \in P : f[p] = x
  <2>1. SUFFICES ASSUME NEW x \in K PROVE \E p \in P : f[p] = x OBVIOUS
  <2>2. x.cell \in cs /\ x \in In(x.cell) OBVIOUS
  <2>3. PICK i \in 1..n[x.cell] : g[x.cell][i] = x BY <1>2, <2>2
  <2>4. <<x.cell, i>> \in P BY <1>4, <2>2
  <2> QED BY <2>3, <2>4
<1> HIDE DEF f
<1>8. f \in Injection(P, K) /\ f \in Surjection(P, K) BY <1>5, <1>6, <1>7, Fun_IsInj, Fun_IsSurj
<1>9. Cardinality(P) = Cardinality(K) BY <1>8, FS_Injection
<1>10. Total(n) = Cardinality(P) BY DEF Total, P
<1> QED BY <1>9, <1>10 DEF n

LEMMA TopicTotals ==
  ASSUME NEW cells, CellsOK(cells), DOMAIN cells = Cells, NEW s \in Topics, NEW doc,
         doc = TopicDoc(s, cells)
  PROVE  /\ doc.counts = Counts(doc.records)
         /\ doc.counts.full <= Held(cells, MembersOf(s), "full")
         /\ doc.counts.cross <= Held(cells, MembersOf(s), "cross_reference")
         /\ Total(doc.byCategory) = doc.counts.full
         /\ doc.counts.full \in Nat /\ doc.counts.cross \in Nat
<1> DEFINE kept == Survivors(UNION {cells[c].records : c \in MembersOf(s)})
           K == OfType(kept, "full")
           n == [c \in MembersOf(s) |-> Cardinality(OfType({x \in kept : x.cell = c}, "full"))]
           sum == [c \in MembersOf(s) |-> Cardinality({x \in K : x.cell = c})]
<1>1. doc = [records |-> kept, counts |-> Counts(kept), byCategory |-> n]
  BY Zenon DEF TopicDoc
<1>2. kept \subseteq UNION {cells[c].records : c \in MembersOf(s)} BY DEF Survivors
<1>3. MembersOf(s) \in SUBSET DOMAIN cells BY DEF MembersOf
<1>4. \A x \in K : x.cell \in MembersOf(s)
  <2>1. SUFFICES ASSUME NEW x \in K PROVE x.cell \in MembersOf(s) OBVIOUS
  <2>2. PICK c \in MembersOf(s) : x \in cells[c].records BY <1>2 DEF OfType
  <2>3. x.cell = c BY <1>3, <2>2 DEF CellsOK, InCell
  <2> QED BY <2>2, <2>3
<1>5. n = sum
  <2>1. \A c : OfType({x \in kept : x.cell = c}, "full") = {x \in K : x.cell = c} BY DEF OfType
  <2> HIDE DEF K, kept
  <2> QED BY <2>1
<1> HIDE DEF kept, n
<1>6. /\ IsFiniteSet(K) /\ Cardinality(K) <= Held(cells, MembersOf(s), "full")
      /\ IsFiniteSet(OfType(kept, "cross_reference"))
      /\ Cardinality(OfType(kept, "cross_reference"))
           <= Held(cells, MembersOf(s), "cross_reference")
  BY <1>2, <1>3, HeldBounds
<1>7. Total(sum) = Cardinality(K)
  <2> HIDE DEF K
  <2> QED BY <1>4, <1>6, TotalCounts
<1> HIDE DEF sum
<1>8. /\ doc.counts.full = Cardinality(K)
      /\ doc.counts.cross = Cardinality(OfType(kept, "cross_reference"))
      /\ doc.byCategory = n /\ doc.counts = Counts(doc.records)
  BY <1>1 DEF Counts
<1> QED BY <1>5, <1>6, <1>7, <1>8, FS_CardinalityType

(* The directory of a finished run, whatever made it.                      *)
LEMMA FinishedWhole ==
  ASSUME Inv, NEW r \in Runs, tree[r].manifest # None, debris = {}, shared = Cells, latest = r
  PROVE  /\ ListingFindings(Root, r) = {} /\ TopicFindings(Root, r) = {}
         /\ PointerFindings(Root, r) = {}
         /\ \A c \in DOMAIN tree[r].cells : CountFindings("cells", c, tree[r].cells[c]) = {}
         /\ \A s \in DOMAIN tree[r].topics : CountFindings("topics", s, tree[r].topics[s]) = {}
<1> DEFINE t == tree[r]
<1>1. /\ CellsOK(t.cells) /\ DOMAIN t.cells = Cells /\ DOMAIN t.topics = Topics
      /\ t.tail = Closing /\ \A s \in Topics : t.topics[s] = TopicDoc(s, t.cells)
  BY DEF Inv, RunOK, TreeOK
<1>2. \A what, S : Differs(what, S, S) = {} BY DEF Differs
<1>3. ListingFindings(Root, r) = {}
  <2>1. /\ Differs("cells", DOMAIN t.cells, Cells) = {} /\ Differs("topics", DOMAIN t.topics, Topics) = {}
        /\ Differs("run", t.tail, Closing) = {} /\ Differs("shared", shared, Cells) = {}
    BY <1>1, <1>2
  <2>2. When(t.manifest = None, "manifest", "missing") = {} BY WhenEmpty
  <2>3. {<<d[2], "unexpected", "temp">> : d \in {x \in debris : x[1] = r}} = {} OBVIOUS
  <2>4. ListingFindings(Root, r) =
          Differs("cells", DOMAIN t.cells, Cells) \cup Differs("topics", DOMAIN t.topics, Topics)
            \cup Differs("run", t.tail, Closing) \cup When(t.manifest = None, "manifest", "missing")
            \cup Differs("shared", shared, Cells)
            \cup {<<d[2], "unexpected", "temp">> : d \in {x \in debris : x[1] = r}}
    BY RootFields DEF ListingFindings
  <2> QED BY <2>1, <2>2, <2>3, <2>4
<1>4. PointerFindings(Root, r) = {}
  <2>1. ~(Root.latest # r) /\ ~(Root.latest = r /\ ~RunIsFinished(Root, r))
    BY RootFields DEF RunIsFinished
  <2>2. When(Root.latest # r, "pointer", r) = {}
        /\ When(Root.latest = r /\ ~RunIsFinished(Root, r), "pointer", None) = {}
    BY <2>1, WhenEmpty
  <2> QED BY <2>2 DEF PointerFindings
<1>5. \A c \in DOMAIN t.cells : CountFindings("cells", c, t.cells[c]) = {}
  <2>1. SUFFICES ASSUME NEW c \in DOMAIN t.cells PROVE CountFindings("cells", c, t.cells[c]) = {}
    OBVIOUS
  <2>2. t.cells[c] = CellDoc(t.cells[c].records) BY <1>1 DEF CellsOK
  <2>3. t.cells[c].counts = Counts(t.cells[c].records) BY <2>2 DEF CellDoc
  <2> QED BY <2>3, WhenEmpty DEF CountFindings
<1>6. \A s \in Topics : /\ t.topics[s].counts = Counts(t.topics[s].records)
                        /\ ~(t.topics[s].counts.full > Held(t.cells, MembersOf(s), "full"))
                        /\ ~(t.topics[s].counts.cross > Held(t.cells, MembersOf(s), "cross_reference"))
                        /\ Total(t.topics[s].byCategory) = t.topics[s].counts.full
  <2>1. SUFFICES ASSUME NEW s \in Topics
                 PROVE  /\ t.topics[s].counts = Counts(t.topics[s].records)
                        /\ ~(t.topics[s].counts.full > Held(t.cells, MembersOf(s), "full"))
                        /\ ~(t.topics[s].counts.cross > Held(t.cells, MembersOf(s), "cross_reference"))
                        /\ Total(t.topics[s].byCategory) = t.topics[s].counts.full
    OBVIOUS
  <2> DEFINE doc == t.topics[s]
             cells == t.cells
             full == Held(cells, MembersOf(s), "full")
             cross == Held(cells, MembersOf(s), "cross_reference")
  <2>2. /\ doc.counts = Counts(doc.records) /\ Total(doc.byCategory) = doc.counts.full
        /\ doc.counts.full <= full /\ doc.counts.cross <= cross
        /\ doc.counts.full \in Nat /\ doc.counts.cross \in Nat
    BY <1>1, TopicTotals
  <2>3. full \in Nat /\ cross \in Nat BY <1>1, HeldIsNat DEF MembersOf
  <2> HIDE DEF doc, full, cross
  <2>4. ~(doc.counts.full > full) /\ ~(doc.counts.cross > cross) BY <2>2, <2>3
  <2> QED BY <2>2, <2>4 DEF doc, full, cross
<1>7. \A s \in DOMAIN t.topics : CountFindings("topics", s, t.topics[s]) = {}
  <2>1. SUFFICES ASSUME NEW s \in Topics PROVE CountFindings("topics", s, t.topics[s]) = {}
    BY <1>1
  <2> QED BY <1>6, WhenEmpty DEF CountFindings
<1>8. TopicFindings(Root, r) = {}
  <2> DEFINE wrong(s) == \/ t.topics[s].counts.full > Held(t.cells, MembersOf(s), "full")
                         \/ t.topics[s].counts.cross > Held(t.cells, MembersOf(s), "cross_reference")
                         \/ Total(t.topics[s].byCategory) # t.topics[s].counts.full
             whole == {s \in DOMAIN t.topics : MembersOf(s) \subseteq DOMAIN t.cells}
             found(s) == When(wrong(s), "topic totals", s)
  <2>1. TopicFindings(Root, r) = UNION {found(s) : s \in whole}
    BY Zenon, RootFields DEF TopicFindings
  <2>2. \A s \in whole : ~wrong(s) BY <1>1, <1>6
  <2>3. \A s \in whole : found(s) = {}
    <3> HIDE DEF wrong, whole
    <3> QED BY <2>2, WhenEmpty
  <2> HIDE DEF found, whole
  <2> QED BY <2>1, <2>3
<1> QED BY <1>3, <1>4, <1>5, <1>7, <1>8

LEMMA LinkcheckAccepted ==
  ASSUME Inv, NEW r \in Checks, tree[r].manifest # None, Finished(tree[r].manifest.base),
         tree[r].manifest.stamp \notin Stamps(tree[r].manifest.base)
  PROVE  /\ LinkcheckFindings(Root, r, tree[r].manifest) = {}
         /\ tree[r].manifest.mode = "linkcheck" /\ ~tree[r].manifest.eligible
<1> DEFINE m == tree[r].manifest
           docs == tree[r].cells
<1>1. PICK j : /\ JobOK(j) /\ BasedOn(r, j) /\ j.todo = {} /\ m = Manifest(j)
               /\ \A c \in Cells : docs[c] = CellDoc(RebuiltCell(j, c))
  BY RunsAssumption DEF Inv, RunOK, Descends
<1>2. DOMAIN docs = Cells BY RunsAssumption DEF Inv, RunOK, TreeOK
<1>3. /\ m.base = j.base /\ m.stamp = j.stamp /\ m.enrich /\ m.bounds = j.sample /\ ~m.probed
      /\ m.mode = "linkcheck" /\ ~m.eligible /\ DOMAIN m.rows = Cells
      /\ \A c \in Cells : m.rows[c].status = IF c \in CheckedCells(j) THEN "ok" ELSE "not_run"
  BY <1>1 DEF Manifest
<1>4. BaseOK(j) /\ SampledOK(j) BY <1>1 DEF JobOK
<1>5. m.base \in Runs /\ m.base # r /\ RunIsFinished(Root, m.base) /\ HasDirectory(Root, m.base)
  <2>1. RunIsFinished(Root, m.base) BY DEF Finished
  <2>2. tree[m.base].manifest # None BY <2>1, RootFields DEF RunIsFinished
  <2>3. tree[m.base] # NoTree BY <2>2 DEF NoTree
  <2> QED BY <1>1, <1>3, <2>1, <2>3, RootFields DEF BasedOn, HasDirectory
<1>6. m.bounds \in 1..MaxSample /\ m.bounds # None BY <1>3, <1>4, NoneAssumption DEF BaseOK
<1> DEFINE ok == {c \in DOMAIN m.rows : m.rows[c].status = "ok"}
           checked == {c \in DOMAIN docs : StampedAt(docs[c], m.stamp) # {}}
<1>7. ok = CheckedCells(j) BY <1>3 DEF CheckedCells
<1>8. CheckedCells(j) # {}
  <2> DEFINE full == FullRecords(j.cells)
  <2>1. IsFiniteSet(full) /\ full \subseteq Records /\ full # {} /\ j.sample \in Nat \ {0}
    BY <1>4, FullOfCells, SampleAssumption DEF BaseOK
  <2>2. SelectSample(full, j.sample) # {}
    <3> HIDE DEF full
    <3> QED BY <2>1, SampleIsPrefix
  <2>3. PICK x \in SelectSample(full, j.sample) : TRUE BY <2>2
  <2>4. RecordId(x) \in DOMAIN j.by BY <1>1, <1>4, <2>3 DEF SampledOK
  <2>5. PICK c \in DOMAIN j.cells : x \in j.cells[c].records
    BY <2>3 DEF SelectSample, FullRecords, OfType
  <2>6. c \in Cells BY <1>4, <2>5 DEF BaseOK
  <2> QED BY <2>4, <2>5, <2>6 DEF CheckedCells, Checked
<1>9. ASSUME NEW c \in Cells
      PROVE  /\ docs[c].records = RebuiltCell(j, c)
             /\ \A x \in j.cells[c].records : x \in Records /\ Made(j, x) \in docs[c].records
             /\ \A y \in docs[c].records : \E x \in j.cells[c].records : y = Made(j, x)
  <2>1. docs[c] = CellDoc(RebuiltCell(j, c)) BY <1>1
  <2>2. docs[c].records = RebuiltCell(j, c)
    <3> HIDE DEF docs
    <3> QED BY <2>1 DEF CellDoc
  <2>3. RebuiltCell(j, c) = {Made(j, x) : x \in j.cells[c].records} BY DEF RebuiltCell, Made
  <2>4. \A x \in j.cells[c].records : x \in Records BY <1>4 DEF BaseOK, CellsOK, InCell
  <2> HIDE DEF docs
  <2> QED BY <2>2, <2>3, <2>4
<1>10. ASSUME NEW c \in CheckedCells(j) PROVE c \in checked
  <2>1. c \in Cells /\ \E x \in j.cells[c].records : Checked(j, x) BY DEF CheckedCells
  <2>2. PICK x \in j.cells[c].records : Checked(j, x) BY <2>1
  <2> DEFINE y == Made(j, x)
  <2>3. x \in Records /\ y \in docs[c].records BY <1>9, <2>1
  <2>4. /\ y \in Records /\ x.history \in Seq(Entries)
        /\ Len(y.history) = Len(x.history) + 1
        /\ y.history[Len(x.history) + 1].at = j.stamp
    BY <1>4, <2>2, <2>3, MadeContinues DEF BaseOK, Records
  <2> HIDE DEF y
  <2>5. Len(x.history) + 1 \in DOMAIN y.history
    <3>1. y.history \in Seq(Entries) /\ Len(x.history) \in Nat BY <2>4 DEF Records
    <3> QED BY <2>4, <3>1
  <2>6. y \in StampedAt(docs[c], m.stamp) BY <1>3, <2>3, <2>4, <2>5 DEF StampedAt
  <2> QED BY <1>2, <2>1, <2>6
<1>11. ASSUME NEW c \in checked PROVE c \in CheckedCells(j)
  <2>1. c \in Cells /\ StampedAt(docs[c], m.stamp) # {} BY <1>2
  <2>2. PICK y \in docs[c].records : \E i \in DOMAIN y.history : y.history[i].at = m.stamp
    BY <2>1 DEF StampedAt
  <2>3. PICK x \in j.cells[c].records : y = Made(j, x) BY <1>9, <2>1
  <2>4. ASSUME ~Checked(j, x) PROVE FALSE
    <3>1. y = x BY <2>3, <2>4 DEF Made
    <3> DEFINE of(rec) == {rec.history[i].at : i \in DOMAIN rec.history}
               all == UNION {tree[m.base].cells[d].records : d \in Cells}
    <3>2. x \in all BY <1>1, <1>3, <2>1 DEF BasedOn
    <3>3. m.stamp \in of(x) BY <2>2, <3>1
    <3>4. Stamps(m.base) = UNION {of(rec) : rec \in all} BY Zenon DEF Stamps
    <3> HIDE DEF of, all
    <3> QED BY <3>2, <3>3, <3>4
  <2> QED BY <2>1, <2>3, <2>4 DEF CheckedCells
<1>12. /\ \A c \in DOMAIN m.rows : m.rows[c].status \in {"ok", "not_run"}
       /\ ok # {} /\ checked # {} /\ ok \cap DOMAIN docs \subseteq checked /\ checked \subseteq ok
  <2>1. \A c \in DOMAIN m.rows : m.rows[c].status \in {"ok", "not_run"} BY <1>3
  <2> HIDE DEF ok, checked
  <2> QED BY <1>7, <1>8, <1>10, <1>11, <2>1
<1>13. LinkcheckFindings(Root, r, m) = {}
  <2>1. Root.tree[r].cells = docs BY RootFields
  <2> HIDE DEF m
  <2>2. LinkcheckSound(Root, r, m) BY <1>3, <1>5, <1>6, <1>12, <2>1 DEF LinkcheckSound
  <2> QED BY <2>2, LinkcheckParts
<1> QED BY <1>3, <1>13

LEMMA InvPublishedValid == Inv /\ Pointed => PublishedValid
<1> SUFFICES ASSUME Inv, Pointed, NEW r \in Runs,
                    latest = r, debris = {}, shared = Cells,
                    \/ /\ tree[r].manifest.mode = "smoke"
                       /\ \A c \in Cells : tree[r].manifest.rows[c].status # "not_run"
                    \/ /\ tree[r].manifest.mode = "linkcheck"
                       /\ Finished(tree[r].manifest.base)
                       /\ tree[r].manifest.stamp \notin Stamps(tree[r].manifest.base)
             PROVE  ValidateRun(Root, r) = {}
  BY DEF PublishedValid
<1> DEFINE m == tree[r].manifest
           rest == CASE m.mode = "smoke" -> SmokeFindings(m)
                     [] m.mode = "linkcheck" -> LinkcheckFindings(Root, r, m)
                     [] OTHER -> Finding("mode", m.mode)
<1>1. m # None /\ m \in Manifests
  <2>1. m # None BY NoneAssumption DEF Pointed
  <2> QED BY <2>1 DEF Inv, RunOK, TreeOK
<1>2. /\ DOMAIN m.rows = Cells /\ \A c \in Cells : m.rows[c].sightings \in {Sightings, None}
      /\ m.bounds \in 1..MaxSample
  <2>1. m.rows \in [Cells -> Rows] /\ m.bounds \in 1..MaxSample BY <1>1 DEF Manifests
  <2>2. \A row \in Rows : row.sightings \in {Sightings, None} BY DEF Rows
  <2> HIDE DEF m
  <2> QED BY <2>1, <2>2
<1>3. Differs("rows", DOMAIN m.rows, Cells) = {} BY <1>2 DEF Differs
<1>4. SightingFindings(m.rows) = {}
  <2> DEFINE seen(c) == m.rows[c].sightings
             wrong(c) == seen(c) # None /\ seen(c).observations # seen(c).unique + seen(c).repeated
  <2>1. \A c \in DOMAIN m.rows : ~wrong(c)
    <3>1. Sightings.observations = Sightings.unique + Sightings.repeated BY DEF Sightings
    <3> HIDE DEF m
    <3> QED BY <1>2, <3>1
  <2>2. SightingFindings(m.rows) = UNION {When(wrong(c), "sightings", c) : c \in DOMAIN m.rows}
    BY Zenon DEF SightingFindings
  <2>3. \A c \in DOMAIN m.rows : When(wrong(c), "sightings", c) = {}
    <3> HIDE DEF wrong, m
    <3> QED BY <2>1, WhenEmpty
  <2> HIDE DEF wrong, m
  <2> QED BY <2>2, <2>3
<1>5. ASSUME m.mode = "smoke", \A c \in Cells : m.rows[c].status # "not_run"
      PROVE  ~m.eligible /\ rest = {}
  <2>1. r \in Harvests
    <3>1. ASSUME r \in Checks PROVE FALSE
      <4>1. PICK j : m = Manifest(j) BY <1>1, <3>1 DEF Inv, RunOK, Descends
      <4> QED BY <1>5, <4>1 DEF Manifest
    <3> QED BY <3>1, RunsAssumption
  <2>2. ~m.enrich /\ m.probed /\ ~m.eligible
    BY <1>1, <1>5, <2>1 DEF Inv, RunOK, Harvested
  <2>3. \A c \in DOMAIN m.rows : When(m.rows[c].status = "not_run", "not run", c) = {}
    <3> HIDE DEF m
    <3> QED BY <1>2, <1>5, WhenEmpty
  <2>4. /\ When(m.enrich, "enriched", m.mode) = {} /\ When(~m.probed, "preflight", m.mode) = {}
        /\ When(m.bounds = None, "bounds", m.mode) = {}
    <3>1. m.bounds # None BY <1>2, NoneAssumption
    <3> QED BY <2>2, <3>1, WhenEmpty
  <2>5. SmokeFindings(m) = {}
    <3> DEFINE rows == UNION {When(m.rows[c].status = "not_run", "not run", c) : c \in DOMAIN m.rows}
    <3>1. rows = {}
      <4> HIDE DEF m
      <4> QED BY <2>3
    <3>2. SmokeFindings(m) = rows \cup When(m.enrich, "enriched", m.mode)
                               \cup When(m.bounds = None, "bounds", m.mode)
                               \cup When(~m.probed, "preflight", m.mode)
      BY Zenon DEF SmokeFindings
    <3> HIDE DEF rows, m
    <3> QED BY <2>4, <3>1, <3>2
  <2>6. rest = {} BY <1>5, <2>5
  <2> QED BY <2>2, <2>6
<1>6. ASSUME m.mode = "linkcheck", Finished(m.base), m.stamp \notin Stamps(m.base)
      PROVE  ~m.eligible /\ rest = {}
  <2>1. r \in Checks
    <3>1. ASSUME r \in Harvests PROVE FALSE
      BY <1>1, <1>6, <3>1 DEF Inv, RunOK, Harvested
    <3> QED BY <3>1, RunsAssumption
  <2>2. LinkcheckFindings(Root, r, m) = {} /\ ~m.eligible BY <1>1, <1>6, <2>1, LinkcheckAccepted
  <2>3. rest = {} BY <1>6, <2>2
  <2> QED BY <2>2, <2>3
<1>7. ~m.eligible /\ rest = {} BY <1>5, <1>6
<1>8. ManifestFindings(Root, r) = {}
  <2>1. Root.tree[r].manifest = m BY RootFields
  <2>2. ManifestFindings(Root, r) = Differs("rows", DOMAIN m.rows, Cells) \cup SightingFindings(m.rows)
                                      \cup When(m.eligible, "eligible", m.mode) \cup rest
    <3> HIDE DEF m
    <3> QED BY <1>1, <2>1 DEF ManifestFindings, m
  <2>3. When(m.eligible, "eligible", m.mode) = {} BY <1>7, WhenEmpty
  <2> HIDE DEF rest, m
  <2> QED BY <1>3, <1>4, <1>7, <2>2, <2>3
<1> QED BY <1>1, <1>8, FinishedWhole, ValidateParts, RootFields

(* What a run publishes its own validator accepts: of the run the pointer  *)
(* names, at rest, the documents, their totals and the claims of the       *)
(* manifest are consistent.                                                *)
THEOREM PublishedIsValid == Spec => []PublishedValid
<1>1. Init => Inv /\ Pointed
  <2>1. Init => Pointed BY RunsAssumption DEF Init, Pointed
  <2> QED BY <2>1, InitInv
<1>2. Inv /\ Pointed /\ [Next]_vars => (Inv /\ Pointed)' BY NextInv, PointedStep
<1>3. Spec => [](Inv /\ Pointed) BY <1>1, <1>2, PTL DEF Spec
<1> QED BY <1>3, InvPublishedValid, PTL
=============================================================================
