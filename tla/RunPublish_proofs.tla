------------------------- MODULE RunPublish_proofs -------------------------
(***************************************************************************)
(* Proofs about RunPublish, for any runs, cells, topics and URLs, any      *)
(* number of attempts, and processes that overlap or not: the inductive    *)
(* invariant, that published runs are an archive, that temp files are      *)
(* swept, and -- when runs do not overlap -- that outcomes are final.      *)
(***************************************************************************)
EXTENDS RunPublish, Integers, FiniteSetTheorems, TLAPS

LEMMA FunctionIsSeq ==
  ASSUME NEW n \in Nat, NEW S, NEW f \in [1..n -> S]
  PROVE  f \in Seq(S)
OBVIOUS

(* A run writes finitely many documents before its manifest.               *)
LEMMA BodyShape == Len(Body) \in Nat
<1> DEFINE Ds == [kind : Kinds, of : Nat]
<1>1. [c \in Cells |-> Doc("cell", c)] \in Seq(Ds)
  BY CellsAssumption DEF Cells, Doc, Kinds
<1>2. [t \in Topics |-> Doc("topic", t)] \in Seq(Ds)
  BY CellsAssumption DEF Topics, Doc, Kinds
<1>3. CellLogs \in Seq(Ds)
  <2>1. 2 * NCells \in Nat BY CellsAssumption
  <2>2. \A i \in 1..(2 * NCells) :
          Doc(IF i % 2 = 1 THEN "rejections" ELSE "ledger", (i + 1) \div 2) \in Ds
    BY <2>1 DEF Doc, Kinds
  <2>3. CellLogs \in [1..(2 * NCells) -> Ds] BY <2>2 DEF CellLogs
  <2> QED BY <2>1, <2>3, FunctionIsSeq
<1>4. <<Doc("coverage", 0), Doc("aliases", 0)>> \in Seq(Ds)
  BY DEF Doc, Kinds
<1>5. Body \in Seq(Ds)
  BY <1>1, <1>2, <1>3, <1>4 DEF Body
<1> QED BY <1>5

(* Where the manifest and the pointer come, and what a place can be.       *)
LEMMA PlacesShape ==
  /\ ManifestAt \in Nat /\ PointerAt \in Nat /\ 1 <= ManifestAt
  /\ ManifestAt < PointerAt
  /\ \A i \in Places : i \in Nat /\ 1 <= i /\ i <= PointerAt
  /\ \A i \in Places : i < ManifestAt => i \in 1..Len(Body) /\ Body[i] \in BodyDocs
  /\ \A i \in Places : i # PointerAt => i + 1 \in Places
  /\ \A i \in 1..Len(Body) : i \in Places /\ i < ManifestAt /\ Body[i] \in BodyDocs
  /\ 1 \in Places
  /\ \A i \in Places : i >= ManifestAt => i = ManifestAt \/ i = PointerAt
BY BodyShape DEF ManifestAt, PointerAt, Places, BodyDocs

(* Every manifest and every entry is typed, and None is neither.           *)
LEMMA NoneIsApart == /\ None \notin Runs /\ None \notin Manifests
                     /\ Absent \in Entries /\ Unseen \in Ledgers
BY NoneAssumption DEF Manifests, Numbers, Sightings, Absent, Entries, Unseen, Ledgers

(* merge_ledger returns a ledger.                                          *)
LEMMA MergeTyped ==
  ASSUME NEW old \in Ledgers, NEW obs \in [Urls -> Outcomes \cup {None}]
  PROVE  MergeLedger(old, obs) \in Ledgers
<1>1. ASSUME NEW v \in Urls, obs[v] # None
      PROVE [outcome |-> obs[v], seen |-> old[v].seen + 1] \in Entries
  BY <1>1 DEF Ledgers, Entries
<1> QED BY <1>1 DEF MergeLedger, Ledgers
-----------------------------------------------------------------------------
(* Types.                                                                  *)

LEMMA InitTyped == ASSUME Init PROVE TypeOK
<1>1. \A r \in Runs : [d \in BodyDocs |-> 0] \in [BodyDocs -> Numbers]
  BY CellsAssumption DEF Numbers
<1>2. 0 \in Numbers BY CellsAssumption DEF Numbers
<1> QED BY <1>1, <1>2, NoneIsApart, PlacesShape DEF Init, TypeOK, Sightings

LEMMA NextTyped == ASSUME TypeOK, [Next]_vars PROVE TypeOK'
<1> USE DEF TypeOK, Goto, Active
<1>n. ASSUME NEW r \in Runs
      PROVE  /\ noted[r] \cup {number[r]} \in SUBSET Numbers
             /\ noted[r] \ {number[r]} \in SUBSET Numbers
             /\ temps \cup {number[r]} \subseteq Numbers
  OBVIOUS
<1>1. ASSUME NEW r \in Runs, Start(r) PROVE TypeOK'
  <2>1. count' \in Numbers BY <1>1, CellsAssumption DEF Start, Numbers
  <2>2. chosen' \in [Runs -> SUBSET Cells] BY <1>1 DEF Start
  <2>3. number' \in [Runs -> Numbers] BY <1>1, <2>1 DEF Start
  <2>4. noted' \in [Runs -> SUBSET Numbers] BY <1>1 DEF Start
  <2> QED BY <1>1, <2>1, <2>2, <2>3, <2>4 DEF Start, root
<1>2. ASSUME NEW r \in Runs, Skip(r) PROVE TypeOK'
  <2>1. at[r] \in Places /\ at[r] # PointerAt BY <1>2, PlacesShape DEF Skip
  <2>2. at' \in [Runs -> Places] BY <1>2, <2>1, PlacesShape DEF Skip
  <2> QED BY <1>2, <2>2 DEF Skip, root
<1>3. ASSUME NEW r \in Runs, Merge(r) PROVE TypeOK'
  <2>1. PICK obs \in [Urls -> Outcomes \cup {None}], c \in Cells :
          /\ c = Here(r).of
          /\ IF Contradicts(ledger[c], obs)
               THEN /\ Goto(r, "sweep")
                    /\ UNCHANGED <<doc, saw, noted>>
               ELSE /\ doc' = [doc EXCEPT ![r] = MergeLedger(ledger[c], obs)]
                    /\ saw' = [saw EXCEPT ![r] = @ \cup
                                 {<<c, u>> : u \in {v \in Urls : obs[v] # None}}]
                    /\ noted' = [noted EXCEPT ![r] = @ \cup {number[r]}]
                    /\ Goto(r, "open")
    BY <1>3 DEF Merge
  <2>2. CASE Contradicts(ledger[c], obs)
    BY <1>3, <2>1, <2>2 DEF Merge, root
  <2>3. CASE ~Contradicts(ledger[c], obs)
    <3>1. MergeLedger(ledger[c], obs) \in Ledgers BY MergeTyped
    <3>2. {<<c, u>> : u \in {v \in Urls : obs[v] # None}} \subseteq Cells \X Urls
      OBVIOUS
    <3>3. saw' \in [Runs -> Sightings] BY <2>1, <2>3, <3>2 DEF Sightings
    <3>4. doc' \in [Runs -> Ledgers] BY <2>1, <2>3, <3>1
    <3>5. noted' \in [Runs -> SUBSET Numbers]
      <4>1. noted' = [noted EXCEPT ![r] = noted[r] \cup {number[r]}] BY <2>1, <2>3
      <4> QED BY <1>n, <4>1
    <3>6. pc' \in [Runs -> Active \cup {"idle"}] BY <2>1, <2>3
    <3> QED BY <1>3, <3>3, <3>4, <3>5, <3>6 DEF Merge, root
  <2> QED BY <2>2, <2>3
<1>4. ASSUME NEW r \in Runs, Note(r) PROVE TypeOK'
  <2>1. noted' \in [Runs -> SUBSET Numbers] /\ pc' \in [Runs -> Active \cup {"idle"}]
    BY <1>n, <1>4 DEF Note
  <2> QED BY <1>4, <2>1 DEF Note, root, driver
<1>5. ASSUME NEW r \in Runs, Open(r) PROVE TypeOK'
  BY <1>5 DEF Open, root, driver
<1>6. ASSUME NEW r \in Runs, Replace(r) PROVE TypeOK'
  <2> USE <1>6
  <2>1. UNCHANGED <<noted, driver, excused>> /\ temps' \subseteq Numbers /\ pc' \in [Runs -> Active \cup {"idle"}]
    BY DEF Replace
  <2>2. CASE PutFile(r)
    <3>1. [file[r] EXCEPT ![Here(r)] = number[r]] \in [BodyDocs -> Numbers]
      OBVIOUS
    <3> QED BY <2>1, <2>2, <3>1 DEF PutFile, driver
  <2>3. CASE PutLog(r) BY <2>1, <2>3 DEF PutLog, driver
  <2>4. CASE PutLedger(r) BY <2>1, <2>4 DEF PutLedger, driver
  <2>5. CASE PutManifest(r)
    <3>1. [by |-> number[r], cells |-> chosen[r], saw |-> saw[r]] \in Manifests
      BY DEF Manifests
    <3> QED BY <2>1, <2>5, <3>1 DEF PutManifest, driver
  <2>6. CASE PutPointer(r) BY <2>1, <2>6 DEF PutPointer, driver
  <2> QED BY <2>2, <2>3, <2>4, <2>5, <2>6 DEF Replace
<1>7. ASSUME NEW r \in Runs, Forget(r) PROVE TypeOK'
  <2>1. at' \in [Runs -> Places]
    <3>1. CASE at[r] = PointerAt BY <1>7, <3>1 DEF Forget
    <3>2. CASE at[r] # PointerAt
      <4>1. at[r] + 1 \in Places BY <3>2, PlacesShape
      <4> QED BY <1>7, <3>2, <4>1 DEF Forget
    <3> QED BY <3>1, <3>2
  <2>2. noted' \in [Runs -> SUBSET Numbers] BY <1>n, <1>7 DEF Forget
  <2> QED BY <1>7, <2>1, <2>2 DEF Forget, root
<1>8. ASSUME NEW r \in Runs, Raise(r) \/ Fail(r) \/ Unlink(r) PROVE TypeOK'
  BY <1>n, <1>8 DEF Raise, Fail, Unlink, root, driver
<1>l. ASSUME NEW r \in Runs, Leave(r)
      PROVE /\ pc' \in [Runs -> Active \cup {"idle"}] /\ at' \in [Runs -> Places]
            /\ chosen' \in [Runs -> SUBSET Cells] /\ doc' \in [Runs -> Ledgers]
            /\ saw' \in [Runs -> Sightings] /\ UNCHANGED <<number, count>>
  BY <1>l, PlacesShape, NoneIsApart DEF Leave, Sightings
<1>9. ASSUME NEW r \in Runs, Sweep(r) \/ Kill(r) PROVE TypeOK'
  <2>1. /\ noted' \in [Runs -> SUBSET Numbers] /\ temps' \subseteq Numbers
        /\ excused' \subseteq Numbers /\ UNCHANGED root /\ Leave(r)
    BY <1>9 DEF Sweep, Kill
  <2> QED BY <1>l, <2>1 DEF root
<1>10. CASE UNCHANGED vars
  BY <1>10 DEF vars, root, driver
<1> QED
  BY <1>1, <1>2, <1>3, <1>4, <1>5, <1>6, <1>7, <1>8, <1>9, <1>10
     DEF Next, Write, GoBack

(* Documents, ledgers, journals and counters have their types.             *)
THEOREM TypeCorrect == Spec => []TypeOK
<1>1. Init => TypeOK BY InitTyped
<1>2. TypeOK /\ [Next]_vars => TypeOK' BY NextTyped
<1> QED BY <1>1, <1>2, PTL DEF Spec
-----------------------------------------------------------------------------
(* The inductive invariant.                                                *)

LEMMA InitInv == ASSUME Init PROVE PublishInv
<1>1. TypeOK BY InitTyped
<1>2. Numbered BY CellsAssumption DEF Numbered, Init, Active
<1>3. InOrder BY DEF InOrder, Ordered, Init, Active
<1>4. Journalled BY DEF Journalled, Init
<1> QED BY <1>1, <1>2, <1>3, <1>4 DEF PublishInv, Init, Finished

(* A step that changes nothing but pc[r], the temp files and the journal   *)
(* keeps the documents in order, wherever it leads.                        *)
LEMMA QuietStep ==
  ASSUME PublishInv, TypeOK', NEW r \in Runs, NEW step \in Active,
         pc[r] \in Active, Goto(r, step), UNCHANGED <<root, driver>>,
         step \in {"open", "replace"} => pc[r] \in {"prepare", "open", "replace"},
         step # "prepare", step # "done"
  PROVE  /\ Numbered' /\ InOrder'
         /\ (\A q \in Runs : Finished(q) => Whole(q))'
         /\ (latest # None => Finished(latest))'
<1> USE DEF PublishInv, TypeOK, Goto, Active, root, driver
<1>1. Numbered' BY DEF Numbered
<1>2. InOrder' BY PlacesShape DEF InOrder, Ordered, Finished, Written
<1> QED BY <1>1, <1>2 DEF Finished, Whole

(* Leaving an attempt keeps what is on disk.                               *)
LEMMA LeaveStep ==
  ASSUME PublishInv, TypeOK', NEW r \in Runs, Leave(r), UNCHANGED root
  PROVE  /\ Numbered' /\ InOrder'
         /\ (\A q \in Runs : Finished(q) => Whole(q))'
         /\ (latest # None => Finished(latest))'
<1> USE DEF PublishInv, TypeOK, Goto, Active, root, Leave
<1>1. Numbered' BY DEF Numbered
<1>2. InOrder' BY PlacesShape DEF InOrder, Ordered, Finished, Written
<1> QED BY <1>1, <1>2 DEF Finished, Whole

LEMMA PublishInvInductive == ASSUME PublishInv, [Next]_vars PROVE PublishInv'
<1>0. TypeOK' BY NextTyped DEF PublishInv
<1> DEFINE Archives == (\A q \in Runs : Finished(q) => Whole(q))
           Points   == (latest # None => Finished(latest))
<1>1. ASSUME NEW r \in Runs, Start(r) PROVE PublishInv'
  <2> USE <1>0, <1>1 DEF PublishInv, TypeOK
  <2>1. count' = count + 1 /\ number' = [number EXCEPT ![r] = count + 1] /\ count \in Nat
    BY CellsAssumption DEF Start, Numbers
  <2>2. \A q \in Runs : number[q] \in Nat BY CellsAssumption DEF Numbers
  <2>3. Numbered' BY <2>1, <2>2 DEF Numbered, Start, Goto, Active
  <2>4. InOrder'
    <3>1. ASSUME NEW q \in Runs, q # r
          PROVE UNCHANGED <<pc[q], at[q], chosen[q], number[q], manifest[q], file[q]>>
      BY <3>1, <2>1 DEF Start, Goto, root
    <3>2. pc'[r] = "prepare" /\ at'[r] = 1 /\ ~Finished(r)'
      BY DEF Start, Goto, root, InOrder, Ordered, Finished
    <3>3. \A i \in 1..Len(Body) : ~(i < 1) BY PlacesShape
    <3>4. 1 # PointerAt BY PlacesShape
    <3>5. Ordered(r)' BY <3>2, <3>3, <3>4 DEF Ordered
    <3>6. ASSUME NEW q \in Runs, q # r PROVE Ordered(q)'
      <4>1. Ordered(q) BY DEF InOrder
      <4>2. \A i : Written(q, i)' <=> Written(q, i) BY <3>1, <3>6 DEF Written
      <4>3. Finished(q)' <=> Finished(q) BY <3>1, <3>6 DEF Finished
      <4> QED BY <3>1, <3>6, <4>1, <4>2, <4>3 DEF Ordered
    <3> QED BY <3>5, <3>6 DEF InOrder
  <2>5. Journalled' BY <2>1 DEF Journalled, Start, Goto
  <2>6. Archives' /\ Points' BY DEF Start, root, Finished, Whole
  <2> QED BY <2>3, <2>4, <2>5, <2>6
<1>2. ASSUME NEW r \in Runs, Skip(r) PROVE PublishInv'
  <2> USE <1>0, <1>2 DEF PublishInv, TypeOK
  <2>1. Numbered' BY DEF Numbered, Skip
  <2>2. at[r] \in 1..Len(Body) /\ at[r] \in Nat /\ at[r] < ManifestAt /\ at'[r] = at[r] + 1
    BY PlacesShape DEF Skip
  <2>3. InOrder'
    <3>1. ~Finished(r) /\ at'[r] # PointerAt
      BY <2>2, PlacesShape DEF InOrder, Ordered, Skip
    <3>2. \A i \in 1..Len(Body) : i < at'[r] => i < at[r] \/ i = at[r]
      BY <2>2, PlacesShape
    <3>3. Written(r, at[r]) BY DEF Skip, Written, Here
    <3>4. \A i \in 1..Len(Body) : i < at'[r] => Written(r, i)
      BY <3>2, <3>3 DEF InOrder, Ordered, Skip, Active
    <3> QED BY <3>1, <3>4 DEF InOrder, Ordered, Written, Finished, Skip, root
  <2>4. Journalled' BY DEF Journalled, Skip
  <2>5. Archives' /\ Points' BY DEF Skip, root, Finished, Whole
  <2> QED BY <2>1, <2>3, <2>4, <2>5
<1>3. ASSUME NEW r \in Runs, Merge(r) PROVE PublishInv'
  <2> USE <1>0 DEF PublishInv, TypeOK
  <2>1. \/ pc' = [pc EXCEPT ![r] = "sweep"] /\ noted' = noted
        \/ pc' = [pc EXCEPT ![r] = "open"]
           /\ noted' = [noted EXCEPT ![r] = noted[r] \cup {number[r]}]
    BY <1>3 DEF Merge, Goto
  <2>2. pc[r] = "prepare" /\ UNCHANGED <<root, temps, number, chosen, at, count>>
    BY <1>3 DEF Merge
  <2>3. Numbered' BY <2>1, <2>2 DEF Numbered, Active
  <2>4. InOrder' BY <2>1, <2>2 DEF InOrder, Ordered, Written, Finished, root, Active
  <2>5. Journalled' BY <2>1, <2>2 DEF Journalled
  <2>6. Archives' /\ Points' BY <2>2 DEF root, Finished, Whole
  <2> QED BY <2>3, <2>4, <2>5, <2>6
<1>4. ASSUME NEW r \in Runs, Note(r) PROVE PublishInv'
  <2>1. PICK step \in {"sweep", "open"} :
          /\ Goto(r, step)
          /\ step = "open" => noted' = [noted EXCEPT ![r] = noted[r] \cup {number[r]}]
          /\ step = "sweep" => noted' = noted
    BY <1>4 DEF Note
  <2>2. pc[r] = "prepare" /\ UNCHANGED <<root, temps, driver>> BY <1>4 DEF Note
  <2>3. Numbered' /\ InOrder' /\ Archives' /\ Points'
    BY <1>0, <2>1, <2>2, QuietStep DEF Active
  <2>4. Journalled'
    BY <1>0, <2>1, <2>2 DEF PublishInv, TypeOK, Journalled, Goto, driver
  <2> QED BY <1>0, <2>3, <2>4 DEF PublishInv
<1>5. ASSUME NEW r \in Runs, Open(r) PROVE PublishInv'
  <2>1. Numbered' /\ InOrder' /\ Archives' /\ Points'
    BY <1>0, <1>5, QuietStep DEF Open, Active
  <2>2. \A q \in Runs : q # r => number[q] # number[r] \/ pc[q] = "idle" \/ pc[q] # "done"
    BY <1>5 DEF PublishInv, Numbered, Open, Active
  <2>3. Journalled'
    BY <1>0, <1>5, <2>2 DEF PublishInv, TypeOK, Journalled, Open, Goto, driver
  <2> QED BY <1>0, <2>1, <2>3 DEF PublishInv
<1>6. ASSUME NEW r \in Runs, Replace(r) PROVE PublishInv'
  <2> USE <1>0, <1>6 DEF PublishInv, TypeOK
  <2>1. /\ pc[r] = "replace" /\ pc' = [pc EXCEPT ![r] = "done"]
        /\ temps' = temps \ {number[r]} /\ UNCHANGED <<noted, driver>>
    BY DEF Replace, Goto
  <2>2. Numbered' BY <2>1 DEF Numbered, Active, driver
  <2>3. Journalled' BY <2>1 DEF Journalled, driver
  <2>4. Finished(r) <=> at[r] = PointerAt BY <2>1 DEF InOrder, Ordered
  <2>5. ASSUME at[r] < ManifestAt, UNCHANGED <<manifest, latest>>, Written(r, at[r])',
               \A q \in Runs \ {r} : file'[q] = file[q],
               \A i \in 1..Len(Body) : Written(r, i) => Written(r, i)'
        PROVE  InOrder' /\ Archives' /\ Points'
    <3>1. ~Finished(r) BY <2>4, <2>5, PlacesShape
    <3>2. ~(at[r] >= ManifestAt) BY <2>5, PlacesShape
    <3>3. Ordered(r)'
      BY <2>1, <2>5, <3>1, <3>2 DEF InOrder, Ordered, Finished, Active, driver
    <3>4. ASSUME NEW q \in Runs, q # r PROVE Ordered(q)'
      BY <2>1, <2>5, <3>4 DEF InOrder, Ordered, Written, Finished, driver
    <3> QED BY <2>5, <3>1, <3>3, <3>4 DEF InOrder, Finished, Whole
  <2>6. CASE PutFile(r)
    <3>1. at[r] < ManifestAt /\ at[r] \in 1..Len(Body) /\ Here(r) \in BodyDocs
          /\ file' = [file EXCEPT ![r] = [file[r] EXCEPT ![Here(r)] = number[r]]]
          /\ UNCHANGED <<manifest, latest>>
      BY <2>6, PlacesShape DEF PutFile, Here
    <3>2. Written(r, at[r])' BY <2>1, <3>1 DEF Written, Here, driver
    <3>3. \A i \in 1..Len(Body) : Written(r, i) => Written(r, i)'
      BY <2>1, <3>1, PlacesShape DEF Written, driver
    <3> QED BY <2>2, <2>3, <2>5, <3>1, <3>2, <3>3
  <2>7. CASE PutLog(r) \/ PutLedger(r)
    <3>1. at[r] < ManifestAt /\ ~Archived(Here(r)) /\ UNCHANGED <<manifest, latest, file>>
      BY <2>7 DEF PutLog, PutLedger, Archived
    <3>2. Written(r, at[r])' BY <2>1, <3>1 DEF Written, Here, driver
    <3>3. \A i \in 1..Len(Body) : Written(r, i) => Written(r, i)'
      BY <2>1, <3>1 DEF Written, driver
    <3> QED BY <2>2, <2>3, <2>5, <3>1, <3>2, <3>3
  <2>8. CASE PutManifest(r)
    <3>1. /\ at[r] = ManifestAt /\ UNCHANGED <<latest, file>>
          /\ manifest' = [manifest EXCEPT ![r] =
                            [by |-> number[r], cells |-> chosen[r], saw |-> saw[r]]]
      BY <2>8 DEF PutManifest
    <3>2. manifest'[r].by = number[r] /\ manifest'[r].cells = chosen[r] /\ manifest'[r] # None
      <4>1. [by |-> number[r], cells |-> chosen[r], saw |-> saw[r]] \in Manifests
        BY DEF Manifests
      <4> QED BY <3>1, <4>1, NoneIsApart
    <3>3. \A i \in 1..Len(Body) : Written(r, i)
      BY <2>1, <3>1, PlacesShape DEF InOrder, Ordered, Active
    <3>4. Whole(r)' BY <3>1, <3>2, <3>3 DEF Whole, Written
    <3>5. \A q \in Runs \ {r} : manifest'[q] = manifest[q] BY <3>1
    <3>6. Archives' BY <3>1, <3>4, <3>5 DEF Finished, Whole
    <3>7. Points' BY <3>1, <3>2, <3>5 DEF Finished
    <3>8. ~(at[r] < ManifestAt) /\ at[r] >= ManifestAt BY <3>1, PlacesShape
    <3>9. InOrder'
      BY <2>1, <3>1, <3>2, <3>3, <3>5, <3>8 DEF InOrder, Ordered, Written, Finished, Active, driver
    <3> QED BY <2>2, <2>3, <3>6, <3>7, <3>9
  <2>9. CASE PutPointer(r)
    <3>1. at[r] = PointerAt /\ latest' = r /\ UNCHANGED <<manifest, file>>
      BY <2>9 DEF PutPointer
    <3>2. ~(at[r] < ManifestAt) /\ at[r] >= ManifestAt BY <3>1, PlacesShape
    <3>3. Finished(r) BY <2>4, <3>1
    <3>4. InOrder'
      BY <2>1, <3>1, <3>2, <3>3 DEF InOrder, Ordered, Written, Finished, Active, driver
    <3> QED BY <2>2, <2>3, <3>1, <3>3, <3>4 DEF Finished, Whole
  <2> QED BY <2>6, <2>7, <2>8, <2>9 DEF Replace
<1>7. ASSUME NEW r \in Runs, Forget(r) PROVE PublishInv'
  <2> USE <1>0, <1>7 DEF PublishInv, TypeOK
  <2>1. /\ pc[r] = "done" /\ UNCHANGED <<root, temps, number, chosen, count>>
        /\ noted' = [noted EXCEPT ![r] = noted[r] \ {number[r]}]
    BY DEF Forget
  <2>2. Archives' /\ Points' BY <2>1 DEF root, Finished, Whole
  <2>3. CASE at[r] = PointerAt
    <3>1. pc' = [pc EXCEPT ![r] = "sweep"] /\ at' = at BY <2>3 DEF Forget, Goto
    <3>2. Numbered' BY <2>1, <3>1 DEF Numbered, Active
    <3>3. InOrder' BY <2>1, <3>1 DEF InOrder, Ordered, Written, Finished, root, Active
    <3>4. Journalled' BY <2>1, <3>1 DEF Journalled
    <3> QED BY <2>2, <3>2, <3>3, <3>4
  <2>4. CASE at[r] # PointerAt
    <3>1. pc' = [pc EXCEPT ![r] = "prepare"] /\ at' = [at EXCEPT ![r] = at[r] + 1]
      BY <2>4 DEF Forget, Goto
    <3>2. Numbered' BY <2>1, <3>1 DEF Numbered, Active
    <3>3. Journalled' BY <2>1, <3>1 DEF Journalled
    <3>4. at[r] \in Nat /\ at'[r] = at[r] + 1 BY <3>1, PlacesShape
    <3>5. Finished(r) <=> at'[r] = PointerAt
      <4>1. at[r] >= ManifestAt <=> at[r] + 1 = PointerAt
        BY <2>4, <3>4, PlacesShape DEF ManifestAt, PointerAt
      <4> QED BY <2>1, <3>4, <4>1 DEF InOrder, Ordered
    <3>6. \A i \in 1..Len(Body) : i < at'[r] => Written(r, i)
      <4>1. ASSUME NEW i \in 1..Len(Body), i < at'[r] PROVE i < at[r] \/ i = at[r]
        BY <3>4, <4>1, PlacesShape
      <4>2. ASSUME at[r] \in 1..Len(Body) PROVE Written(r, at[r])
        BY <2>1, <4>2, PlacesShape DEF InOrder, Ordered
      <4> QED BY <2>1, <4>1, <4>2 DEF InOrder, Ordered, Active
    <3>7. InOrder' BY <2>1, <3>1, <3>5, <3>6 DEF InOrder, Ordered, Written, Finished, root, Active
    <3> QED BY <2>2, <3>2, <3>3, <3>7
  <2> QED BY <2>3, <2>4
<1>8. ASSUME NEW r \in Runs, Raise(r) \/ Fail(r) \/ Unlink(r) PROVE PublishInv'
  <2>1. PICK step \in {"sweep", "unlink"} : Goto(r, step)
          /\ (step = "unlink" => pc[r] \in {"open", "replace"})
    BY <1>8 DEF Raise, Fail, Unlink
  <2>2. pc[r] \in Active /\ UNCHANGED <<root, noted, driver>>
        /\ temps' \subseteq temps \cup {number[r]}
    BY <1>8 DEF Raise, Fail, Unlink, Active
  <2>3. Numbered' /\ InOrder' /\ Archives' /\ Points'
    BY <1>0, <2>1, <2>2, QuietStep DEF Active
  <2>4. \A q \in Runs : q # r /\ pc[q] = "done" => number[q] # number[r]
    BY <2>2 DEF PublishInv, Numbered, Active
  <2>5. Journalled'
    BY <1>0, <2>1, <2>2, <2>4 DEF PublishInv, TypeOK, Journalled, Goto, driver
  <2> QED BY <1>0, <2>3, <2>5 DEF PublishInv
<1>9. ASSUME NEW r \in Runs, Sweep(r) \/ Kill(r) PROVE PublishInv'
  <2>1. Leave(r) /\ UNCHANGED root /\ temps' \subseteq temps
        /\ \A q \in Runs \ {r} : noted'[q] = noted[q]
    BY <1>9 DEF Sweep, Kill, PublishInv, TypeOK
  <2>2. Numbered' /\ InOrder' /\ Archives' /\ Points' BY <1>0, <2>1, LeaveStep
  <2>3. Journalled'
    BY <1>0, <2>1 DEF PublishInv, TypeOK, Journalled, Leave, Goto
  <2> QED BY <1>0, <2>2, <2>3 DEF PublishInv
<1>10. CASE UNCHANGED vars
  BY <1>0, <1>10 DEF vars, root, driver, PublishInv, Numbered, InOrder, Ordered,
                     Journalled, Written, Whole, Finished
<1> QED
  BY <1>1, <1>2, <1>3, <1>4, <1>5, <1>6, <1>7, <1>8, <1>9, <1>10
     DEF Next, Write, GoBack

(* The manifest of a run comes after all of its documents, whatever fails  *)
(* and whoever else is writing.                                            *)
THEOREM PublishInvHolds == Spec => []PublishInv
<1>1. Init => PublishInv BY InitInv
<1>2. PublishInv /\ [Next]_vars => PublishInv' BY PublishInvInductive
<1> QED BY <1>1, <1>2, PTL DEF Spec
-----------------------------------------------------------------------------
(* What a reader finds.                                                    *)

(* Publishing implements RunArchive: a run appears at once, whole, never   *)
(* changes again, and the pointer names only such runs.                    *)
THEOREM PublishingImplementsRunArchive == Spec => ImplementsRunArchive
<1> DEFINE seen == [r \in Runs |-> IF Finished(r) /\ Whole(r) THEN manifest[r] ELSE None]
<1>1. Init => Archive!Init
  BY DEF Init, Archive!Init, Finished
<1>2. ASSUME PublishInv, PublishInv', [Next]_vars PROVE [Archive!Next]_(Archive!vars)
  <2>1. seen = manifest BY <1>2 DEF PublishInv, TypeOK, Finished
  <2>2. seen' = manifest' BY <1>2 DEF PublishInv, TypeOK, Finished
  <2> HIDE DEF seen
  <2>3. ASSUME NEW r \in Runs, PutManifest(r), Replace(r) PROVE Archive!Publish(r)
    <3>1. manifest[r] = None
      <4>1. at[r] # PointerAt BY <2>3, PlacesShape DEF PutManifest
      <4> QED BY <1>2, <2>3, <4>1 DEF PublishInv, InOrder, Ordered, Replace, Finished
    <3>2. [by |-> number[r], cells |-> chosen[r], saw |-> saw[r]] \in Manifests
      BY <1>2 DEF PublishInv, TypeOK, Manifests
    <3>3. /\ manifest'[r] \in Manifests /\ UNCHANGED latest
          /\ manifest' = [manifest EXCEPT ![r] = manifest'[r]]
      BY <1>2, <2>3, <3>2 DEF PutManifest, PublishInv, TypeOK
    <3> QED BY <2>1, <2>2, <3>1, <3>3 DEF Archive!Publish, seen
  <2>4. ASSUME NEW r \in Runs, PutPointer(r), Replace(r) PROVE Archive!Point(r)
    <3>1. manifest[r] # None
      BY <1>2, <2>4 DEF PublishInv, InOrder, Ordered, Replace, PutPointer, Finished
    <3> QED BY <2>1, <2>2, <2>4, <3>1 DEF Archive!Point, PutPointer, seen
  <2>5. ASSUME NEW r \in Runs, Replace(r),
               PutFile(r) \/ PutLog(r) \/ PutLedger(r)
        PROVE  UNCHANGED <<manifest, latest>>
    BY <2>5 DEF PutFile, PutLog, PutLedger
  <2>6. ASSUME NEW r \in Runs,
               Start(r) \/ Skip(r) \/ Merge(r) \/ Note(r) \/ Open(r) \/ Forget(r) \/ GoBack(r)
        PROVE  UNCHANGED <<manifest, latest>>
    BY <2>6 DEF Start, Skip, Merge, Note, Open, Forget, GoBack, Raise, Fail, Unlink,
                Sweep, Kill, root
  <2>7. ASSUME UNCHANGED <<manifest, latest>> PROVE UNCHANGED Archive!vars
    BY <2>1, <2>2, <2>7 DEF Archive!vars, seen
  <2>8. CASE UNCHANGED vars
    <3>1. UNCHANGED <<manifest, latest>> BY <2>8 DEF vars, root
    <3> QED BY <2>7, <3>1
  <2>9. CASE \E r \in Runs : Start(r) \/ Write(r) \/ GoBack(r)
    <3>1. PICK r \in Runs : Start(r) \/ Write(r) \/ GoBack(r) BY <2>9
    <3>2. CASE Replace(r)
      BY <2>3, <2>4, <2>5, <2>7, <3>2 DEF Replace, Archive!Next
    <3>3. CASE ~Replace(r)
      BY <2>6, <2>7, <3>1, <3>3 DEF Write
    <3> QED BY <3>2, <3>3
  <2> QED BY <1>2, <2>8, <2>9 DEF Next
<1> QED
  BY <1>1, <1>2, PublishInvHolds, PTL DEF Spec, ImplementsRunArchive, Archive!Spec

(* A temp file is either a living attempt's, known to its journal, or was  *)
(* left by a kill or by an unlink that failed: nothing else stays.         *)
THEOREM TempsAreSwept == Spec => []NoDebris
<1> DEFINE Mine(t, r) == pc[r] \in Active /\ t = number[r] /\ t \in noted[r]
<1>1. Init => NoDebris BY DEF Init, NoDebris
<1>2. ASSUME PublishInv, NoDebris, [Next]_vars PROVE NoDebris'
  <2> USE DEF PublishInv, TypeOK, Goto, Active
  <2>1. ASSUME NEW r \in Runs, NEW t \in temps', t \notin excused',
               \A q \in Runs \ {r} : UNCHANGED <<pc[q], number[q], noted[q]>>,
               excused \subseteq excused', t # number[r] \/ pc[r] = "idle", t \in temps
        PROVE  \E q \in Runs : Mine(t, q)'
    <3>1. PICK q \in Runs : Mine(t, q) BY <1>2, <2>1 DEF NoDebris
    <3>2. q # r BY <2>1, <3>1
    <3> QED BY <2>1, <3>1, <3>2
  <2>2. ASSUME NEW r \in Runs, Start(r) PROVE NoDebris'
    <3>1. pc[r] = "idle" /\ temps' = temps /\ excused' = excused
          /\ \A q \in Runs \ {r} : UNCHANGED <<pc[q], number[q], noted[q]>>
      BY <1>2, <2>2 DEF Start
    <3> QED BY <2>1, <3>1 DEF NoDebris
  <2>3. ASSUME NEW r \in Runs, Write(r) \/ Raise(r) \/ Fail(r) \/ Unlink(r)
        PROVE  NoDebris'
    <3>1. /\ \A q \in Runs \ {r} : UNCHANGED <<pc[q], number[q], noted[q]>>
          /\ excused' = excused /\ number' = number /\ pc[r] \in Active /\ pc'[r] \in Active
          /\ temps' \subseteq temps \cup {number[r]}
      BY <1>2, <2>3 DEF Write, Skip, Merge, Note, Open, Replace, Forget, Raise, Fail,
                        Unlink, driver
    <3>2. ASSUME number[r] \in temps' PROVE number[r] \in noted'[r] \/ number[r] \in excused
      BY <1>2, <2>3, <3>2 DEF NoDebris, Journalled, Numbered, Write, Skip, Merge, Note,
             Open, Replace, Forget, Raise, Fail, Unlink, driver
    <3>3. ASSUME NEW t \in temps', t \notin excused' PROVE \E q \in Runs : Mine(t, q)'
      <4>1. CASE t = number[r] BY <3>1, <3>2, <3>3, <4>1
      <4>2. CASE t # number[r] BY <2>1, <3>1, <3>3, <4>2
      <4> QED BY <4>1, <4>2
    <3> QED BY <3>3 DEF NoDebris
  <2>4. ASSUME NEW r \in Runs, Sweep(r) PROVE NoDebris'
    <3>1. /\ \A q \in Runs \ {r} : UNCHANGED <<pc[q], number[q], noted[q]>>
          /\ excused \subseteq excused' /\ temps' \subseteq temps /\ pc[r] \in Active
      BY <1>2, <2>4 DEF Sweep, Leave
    <3>2. ASSUME number[r] \in temps' PROVE number[r] \in excused'
      <4>1. PICK stuck \in SUBSET (noted[r] \cap temps) :
              /\ temps' = (temps \ noted[r]) \cup stuck
              /\ excused' = IF stuck = {} THEN excused ELSE excused \cup {number[r]}
        BY <2>4 DEF Sweep
      <4>2. CASE number[r] \in stuck BY <4>1, <4>2
      <4>3. CASE number[r] \notin stuck
        <5>1. number[r] \in temps /\ number[r] \notin noted[r] BY <3>2, <4>1, <4>3
        <5>2. \A q \in Runs : Mine(number[r], q) => q = r
          BY <1>2, <3>1 DEF Numbered, Numbers
        <5>3. number[r] \in excused BY <1>2, <5>1, <5>2 DEF NoDebris
        <5> QED BY <3>1, <5>3
      <4> QED BY <4>2, <4>3
    <3>3. ASSUME NEW t \in temps', t \notin excused' PROVE \E q \in Runs : Mine(t, q)'
      <4>1. t # number[r] BY <3>2, <3>3
      <4> QED BY <2>1, <3>1, <3>3, <4>1
    <3> QED BY <3>3 DEF NoDebris
  <2>5. ASSUME NEW r \in Runs, Kill(r) PROVE NoDebris'
    <3>1. /\ \A q \in Runs \ {r} : UNCHANGED <<pc[q], number[q], noted[q]>>
          /\ excused' = excused \cup {number[r]} /\ temps' = temps
      BY <1>2, <2>5 DEF Kill, Leave
    <3>2. ASSUME NEW t \in temps', t \notin excused' PROVE \E q \in Runs : Mine(t, q)'
      BY <2>1, <3>1, <3>2
    <3> QED BY <3>2 DEF NoDebris
  <2>6. CASE UNCHANGED vars BY <1>2, <2>6 DEF vars, driver, NoDebris
  <2> QED BY <1>2, <2>2, <2>3, <2>4, <2>5, <2>6 DEF Next, GoBack
<1> QED BY <1>1, <1>2, PublishInvHolds, PTL DEF Spec
-----------------------------------------------------------------------------
(* Ledgers.                                                                *)

(* merge_ledger keeps every entry, and every outcome it does not refuse.   *)
LEMMA MergeExtends ==
  ASSUME NEW old \in Ledgers, NEW obs \in [Urls -> Outcomes \cup {None}],
         ~Contradicts(old, obs)
  PROVE  Extends(MergeLedger(old, obs), old)
<1> SUFFICES ASSUME NEW u \in Urls
             PROVE /\ MergeLedger(old, obs)[u].seen >= old[u].seen
                   /\ old[u].outcome # None => MergeLedger(old, obs)[u].outcome = old[u].outcome
  BY DEF Extends
<1>1. old[u].seen \in Nat BY DEF Ledgers, Entries
<1>2. CASE obs[u] = None BY <1>1, <1>2 DEF MergeLedger
<1>3. CASE obs[u] # None BY <1>1, <1>3 DEF MergeLedger, Contradicts
<1> QED BY <1>2, <1>3

LEMMA ExtendsItself == ASSUME NEW old \in Ledgers PROVE Extends(old, old)
BY DEF Extends, Ledgers, Entries

(* One process at a time, and what it is about to write extends the ledger *)
(* it has read.                                                            *)
OneAtATime == \A q, r \in Runs : pc[q] \in Active /\ pc[r] \in Active => q = r

Held == \A r \in Runs :
          pc[r] \in {"open", "replace"} /\ at[r] < ManifestAt /\ Here(r).kind = "ledger"
            => Extends(doc[r], ledger[Here(r).of])

LedgerInv == TypeOK /\ OneAtATime /\ Held

LEMMA LedgerStep ==
  ASSUME ~Overlap, LedgerInv, [Next]_vars
  PROVE  LedgerInv' /\ \A c \in Cells : Extends(ledger'[c], ledger[c])
<1>0. TypeOK' BY NextTyped DEF LedgerInv
<1>k. ASSUME UNCHANGED ledger PROVE \A c \in Cells : Extends(ledger'[c], ledger[c])
  BY <1>k, ExtendsItself DEF LedgerInv, TypeOK
<1> USE <1>0 DEF LedgerInv, TypeOK, Goto, Active
<1>1. ASSUME NEW r \in Runs, Start(r) PROVE LedgerInv' /\ UNCHANGED ledger
  <2>1. \A q \in Runs : pc[q] = "idle" BY <1>1 DEF Start
  <2>2. pc' = [pc EXCEPT ![r] = "prepare"] /\ UNCHANGED ledger BY <1>1 DEF Start, root
  <2> QED BY <2>1, <2>2 DEF OneAtATime, Held
<1>2. ASSUME NEW r \in Runs, Skip(r) PROVE LedgerInv' /\ UNCHANGED ledger
  BY <1>2 DEF Skip, OneAtATime, Held, Here, root
<1>3. ASSUME NEW r \in Runs, Merge(r) PROVE LedgerInv' /\ UNCHANGED ledger
  <2>1. PICK obs \in [Urls -> Outcomes \cup {None}], c \in Cells :
          /\ c = Here(r).of
          /\ \/ pc' = [pc EXCEPT ![r] = "sweep"]
             \/ /\ pc' = [pc EXCEPT ![r] = "open"] /\ ~Contradicts(ledger[c], obs)
                /\ doc' = [doc EXCEPT ![r] = MergeLedger(ledger[c], obs)]
    BY <1>3 DEF Merge
  <2>2. pc[r] = "prepare" /\ UNCHANGED <<ledger, at>> BY <1>3 DEF Merge, root
  <2>3. \A q \in Runs : q # r => pc[q] \notin Active /\ pc'[q] = pc[q]
    BY <2>1, <2>2 DEF OneAtATime
  <2>4. ~Contradicts(ledger[c], obs) => Extends(MergeLedger(ledger[c], obs), ledger[c])
    BY MergeExtends
  <2>5. OneAtATime' BY <2>1, <2>2, <2>3 DEF OneAtATime
  <2>6. Held'
    <3>1. ASSUME pc'[r] = "open" PROVE Extends(doc'[r], ledger'[Here(r).of])
      BY <2>1, <2>2, <2>4, <3>1
    <3> QED BY <2>1, <2>2, <2>3, <3>1 DEF Held, Here
  <2> QED BY <2>2, <2>5, <2>6
<1>4. ASSUME NEW r \in Runs, Note(r) PROVE LedgerInv' /\ UNCHANGED ledger
  <2>1. /\ pc[r] = "prepare" /\ UNCHANGED <<ledger, at, doc>>
        /\ at[r] < ManifestAt => Here(r).kind # "ledger"
        /\ \E step \in {"sweep", "open"} : pc' = [pc EXCEPT ![r] = step]
    BY <1>4 DEF Note, root, driver
  <2> QED BY <2>1 DEF OneAtATime, Held, Here
<1>5. ASSUME NEW r \in Runs, Open(r) PROVE LedgerInv' /\ UNCHANGED ledger
  BY <1>5 DEF Open, OneAtATime, Held, Here, root, driver
<1>6. ASSUME NEW r \in Runs, Replace(r)
      PROVE  LedgerInv' /\ \A c \in Cells : Extends(ledger'[c], ledger[c])
  <2>1. pc[r] = "replace" /\ pc' = [pc EXCEPT ![r] = "done"] /\ UNCHANGED <<at, doc>>
    BY <1>6 DEF Replace, driver
  <2>2. \A q \in Runs : q # r => pc[q] \notin Active /\ pc'[q] = pc[q]
    BY <2>1 DEF OneAtATime
  <2>3. OneAtATime' /\ Held' BY <2>1, <2>2 DEF OneAtATime, Held
  <2>4. CASE PutLedger(r)
    <3>1. Extends(doc[r], ledger[Here(r).of]) BY <2>1, <2>4 DEF PutLedger, Held
    <3>2. ASSUME NEW c \in Cells PROVE Extends(ledger'[c], ledger[c])
      <4>1. CASE c = Here(r).of BY <2>4, <3>1, <4>1 DEF PutLedger
      <4>2. CASE c # Here(r).of
        <5>1. ledger'[c] = ledger[c] BY <2>4, <4>2 DEF PutLedger
        <5> QED BY <5>1, ExtendsItself
      <4> QED BY <4>1, <4>2
    <3> QED BY <2>3, <3>2
  <2>5. CASE ~PutLedger(r)
    <3>1. UNCHANGED ledger
      BY <1>6, <2>5 DEF Replace, PutFile, PutLog, PutManifest, PutPointer
    <3> QED BY <1>k, <2>3, <3>1
  <2> QED BY <2>4, <2>5
<1>7. ASSUME NEW r \in Runs, Forget(r) PROVE LedgerInv' /\ UNCHANGED ledger
  <2>1. /\ pc[r] = "done" /\ UNCHANGED <<ledger, doc>>
        /\ \E step \in {"sweep", "prepare"} : pc' = [pc EXCEPT ![r] = step]
        /\ \A q \in Runs \ {r} : at'[q] = at[q]
    BY <1>7 DEF Forget, root
  <2> QED BY <2>1 DEF OneAtATime, Held, Here
<1>8. ASSUME NEW r \in Runs, Raise(r) \/ Fail(r) \/ Unlink(r)
      PROVE  LedgerInv' /\ UNCHANGED ledger
  <2>1. /\ pc[r] \in Active /\ UNCHANGED <<ledger, doc, at>>
        /\ \E step \in {"sweep", "unlink"} : pc' = [pc EXCEPT ![r] = step]
    BY <1>8 DEF Raise, Fail, Unlink, root, driver
  <2> QED BY <2>1 DEF OneAtATime, Held, Here
<1>9. ASSUME NEW r \in Runs, Sweep(r) \/ Kill(r) PROVE LedgerInv' /\ UNCHANGED ledger
  <2>1. /\ UNCHANGED ledger /\ pc' = [pc EXCEPT ![r] = "idle"]
        /\ \A q \in Runs \ {r} : UNCHANGED <<at[q], doc[q]>>
    BY <1>9 DEF Sweep, Kill, Leave, root
  <2> QED BY <2>1 DEF OneAtATime, Held, Here
<1>10. CASE UNCHANGED vars
  <2>1. LedgerInv' /\ UNCHANGED ledger
    BY <1>10 DEF vars, root, driver, OneAtATime, Held, Here
  <2> QED BY <1>k, <2>1
<1> QED
  BY <1>k, <1>1, <1>2, <1>3, <1>4, <1>5, <1>6, <1>7, <1>8, <1>9, <1>10
     DEF Next, Write, GoBack

(* While runs of a root do not overlap, no ledger ever forgets a URL,      *)
(* counts it less often, or changes a verdict it has recorded.             *)
THEOREM OutcomesAreFinal == ASSUME ~Overlap PROVE Spec => OutcomesFinal
<1>1. Init => LedgerInv BY InitTyped DEF LedgerInv, OneAtATime, Held, Init, Active
<1>2. LedgerInv /\ [Next]_vars => LedgerInv' BY LedgerStep
<1>3. LedgerInv /\ [Next]_vars => [\A c \in Cells : Extends(ledger'[c], ledger[c])]_vars
  BY LedgerStep
<1> QED BY <1>1, <1>2, <1>3, PTL DEF Spec, OutcomesFinal
-----------------------------------------------------------------------------
(* What stands where in two sequences put together.                        *)
LEMMA ConcatShape ==
  ASSUME NEW S, NEW s \in Seq(S), NEW t \in Seq(S)
  PROVE  /\ s \o t \in Seq(S) /\ Len(s \o t) = Len(s) + Len(t)
         /\ \A j \in 1..(Len(s) + Len(t)) :
              (s \o t)[j] = IF j <= Len(s) THEN s[j] ELSE t[j - Len(s)]
OBVIOUS

(* The log of a cell comes right before its ledger.                        *)
LEMMA LogBeforeLedger ==
  ASSUME NEW i \in 1..Len(Body), Body[i].kind = "ledger"
  PROVE  /\ i - 1 \in 1..Len(Body)
         /\ Body[i - 1] = Doc("rejections", Body[i].of)
<1> DEFINE Ds    == [kind : Kinds, of : Nat]
           cs    == [c \in Cells |-> Doc("cell", c)]
           ts    == [t \in Topics |-> Doc("topic", t)]
           close == <<Doc("coverage", 0), Doc("aliases", 0)>>
           n     == NCells + NTopics
<1>0. NCells \in Nat /\ NTopics \in Nat /\ 2 * NCells \in Nat BY CellsAssumption
<1>1. cs \in Seq(Ds) /\ Len(cs) = NCells
  <2>1. \A c \in Cells : Doc("cell", c) \in Ds BY <1>0 DEF Cells, Doc, Kinds
  <2>2. cs \in [1..NCells -> Ds] BY <2>1 DEF Cells
  <2> QED BY <1>0, <2>2, FunctionIsSeq
<1>2. ts \in Seq(Ds) /\ Len(ts) = NTopics
  <2>1. \A t \in Topics : Doc("topic", t) \in Ds BY <1>0 DEF Topics, Doc, Kinds
  <2>2. ts \in [1..NTopics -> Ds] BY <2>1 DEF Topics
  <2> QED BY <1>0, <2>2, FunctionIsSeq
<1>3. /\ CellLogs \in Seq(Ds) /\ Len(CellLogs) = 2 * NCells
      /\ \A j \in 1..(2 * NCells) :
           CellLogs[j] = Doc(IF j % 2 = 1 THEN "rejections" ELSE "ledger", (j + 1) \div 2)
  <2>1. \A j \in 1..(2 * NCells) :
          Doc(IF j % 2 = 1 THEN "rejections" ELSE "ledger", (j + 1) \div 2) \in Ds
    BY <1>0 DEF Doc, Kinds
  <2>2. CellLogs \in [1..(2 * NCells) -> Ds] BY <2>1 DEF CellLogs
  <2>3. CellLogs \in Seq(Ds) BY <1>0, <2>2, FunctionIsSeq
  <2> QED BY <1>0, <2>2, <2>3 DEF CellLogs
<1>4. close \in Seq(Ds) /\ Len(close) = 2
      /\ \A j \in 1..2 : close[j].kind \in {"coverage", "aliases"}
  BY DEF Doc, Kinds
<1>5. /\ \A j \in 1..NCells : cs[j].kind = "cell"
      /\ \A j \in 1..NTopics : ts[j].kind = "topic"
  BY DEF Cells, Topics, Doc
<1> DEFINE a == cs \o ts
           b == a \o CellLogs
           m == n + 2 * NCells
<1>6. Body = b \o close BY DEF Body
<1> HIDE DEF cs, ts, close, Ds
<1>7. /\ a \in Seq(Ds) /\ Len(a) = n
      /\ \A j \in 1..n : a[j] = IF j <= NCells THEN cs[j] ELSE ts[j - NCells]
  BY <1>0, <1>1, <1>2
<1> HIDE DEF a
<1>8. n \in Nat /\ m \in Nat /\ n <= m BY <1>0
<1>9. /\ b \in Seq(Ds) /\ Len(b) = m
      /\ \A j \in 1..m : b[j] = IF j <= n THEN a[j] ELSE CellLogs[j - n]
  <2>1. a \in Seq(Ds) /\ CellLogs \in Seq(Ds) BY <1>3, <1>7
  <2>2. /\ b \in Seq(Ds) /\ Len(b) = Len(a) + Len(CellLogs)
        /\ \A j \in 1..(Len(a) + Len(CellLogs)) :
             b[j] = IF j <= Len(a) THEN a[j] ELSE CellLogs[j - Len(a)]
    BY <2>1, ConcatShape, Zenon
  <2> QED BY <1>3, <1>7, <2>2, Zenon
<1> HIDE DEF b, m
<1>10. /\ Len(Body) = m + 2
       /\ \A j \in 1..(m + 2) : Body[j] = IF j <= m THEN b[j] ELSE close[j - m]
  <2>1. b \in Seq(Ds) /\ close \in Seq(Ds) BY <1>4, <1>9
  <2>2. /\ Len(Body) = Len(b) + Len(close)
        /\ \A j \in 1..(Len(b) + Len(close)) :
             Body[j] = IF j <= Len(b) THEN b[j] ELSE close[j - Len(b)]
    BY <1>6, <2>1, ConcatShape, Zenon
  <2> QED BY <1>4, <1>9, <2>2, Zenon
<1>11. i \in Nat /\ 1 <= i /\ i <= m + 2 BY <1>8, <1>10
<1>12. i <= m
  <2>1. SUFFICES ASSUME i > m PROVE FALSE BY <1>8, <1>11
  <2>2. i - m \in 1..2 /\ Body[i] = close[i - m] BY <1>8, <1>10, <1>11, <2>1
  <2> QED BY <1>4, <2>2
<1>13. i > n
  <2>1. SUFFICES ASSUME i <= n PROVE FALSE BY <1>8, <1>11
  <2>2. Body[i] = a[i]
    <3> HIDE DEF n
    <3> QED BY <1>8, <1>9, <1>10, <1>11, <1>12, <2>1
  <2>3. CASE i <= NCells
    <3>1. Body[i] = cs[i] BY <1>0, <1>7, <1>11, <2>1, <2>2, <2>3
    <3> QED BY <1>0, <1>5, <1>11, <2>3, <3>1
  <2>4. CASE i > NCells
    <3>1. Body[i] = ts[i - NCells] BY <1>0, <1>7, <1>11, <2>1, <2>2, <2>4
    <3>2. i - NCells \in 1..NTopics BY <1>0, <1>11, <2>1, <2>4
    <3> QED BY <1>5, <3>1, <3>2
  <2> QED BY <1>0, <1>11, <2>3, <2>4
<1> DEFINE j == i - n
<1>14. j \in 1..(2 * NCells) BY <1>0, <1>11, <1>12, <1>13 DEF m
<1> HIDE DEF n
<1>15. Body[i] = CellLogs[j] BY <1>8, <1>9, <1>10, <1>11, <1>12, <1>13
<1>16. j % 2 # 1 /\ Body[i].of = (j + 1) \div 2
  <2> HIDE DEF j
  <2> QED BY <1>3, <1>14, <1>15 DEF Doc
<1>17. j - 1 \in 1..(2 * NCells) /\ (j - 1) % 2 = 1 /\ (j - 1 + 1) \div 2 = (j + 1) \div 2
  <2> HIDE DEF j
  <2> QED BY <1>0, <1>14, <1>16
<1>18. i - 1 \in 1..Len(Body) /\ Body[i - 1] = CellLogs[j - 1]
  <2>1. i - 1 \in Nat /\ i - 1 > n /\ i - 1 <= m BY <1>0, <1>8, <1>11, <1>12, <1>14, <1>17
  <2>2. i - 1 - n = j - 1 BY <1>8, <1>11
  <2> QED BY <1>8, <1>9, <1>10, <2>1, <2>2
<1>19. CellLogs[j - 1] = Doc("rejections", (j + 1) \div 2)
  <2> HIDE DEF j
  <2> QED BY <1>3, <1>17
<1> QED BY <1>16, <1>18, <1>19

(* Whoever is at work has logged the rejections of every cell it is past.  *)
Logs(r, i) ==
  Body[i].kind = "rejections" /\ Wanted(Body[i], chosen[r]) => logged[Body[i].of] = number[r]

Explained ==
  /\ \A c \in Cells : merged[c] <= logged[c] /\ logged[c] <= count
  /\ \A r \in Runs : pc[r] \in Active =>
       /\ number[r] = count
       /\ pc[r] \in {"open", "replace"} /\ at[r] < ManifestAt => Wanted(Here(r), chosen[r])
       /\ \A i \in 1..Len(Body) : i < at[r] \/ (i = at[r] /\ pc[r] = "done") => Logs(r, i)

(* A step that puts nothing in place and moves nobody on keeps it.         *)
LEMMA ExplainedQuiet ==
  ASSUME TypeOK, TypeOK', Explained, NEW r \in Runs, NEW step \in Active \cup {"idle"},
         UNCHANGED <<logged, merged, number, count>>, Goto(r, step),
         step = "idle" \/ (pc[r] \in Active /\ step # "done" /\ UNCHANGED <<at, chosen>>),
         step \in {"open", "replace"} /\ at[r] < ManifestAt => Wanted(Here(r), chosen[r]),
         \A q \in Runs \ {r} : UNCHANGED <<at[q], chosen[q]>>
  PROVE  Explained'
<1> USE DEF TypeOK, Goto, Active
<1>1. \A c \in Cells : merged'[c] <= logged'[c] /\ logged'[c] <= count' BY DEF Explained
<1>2. ASSUME NEW q \in Runs, pc'[q] \in Active
      PROVE  /\ number'[q] = count'
             /\ pc'[q] \in {"open", "replace"} /\ at'[q] < ManifestAt
                  => Wanted(Here(q)', chosen'[q])
             /\ \A i \in 1..Len(Body) :
                  i < at'[q] \/ (i = at'[q] /\ pc'[q] = "done") => Logs(q, i)'
  <2>1. pc[q] \in Active /\ at'[q] = at[q] /\ chosen'[q] = chosen[q]
        /\ (pc'[q] = "done" => pc[q] = "done")
    BY <1>2
  <2>2. number'[q] = count' BY <2>1 DEF Explained
  <2>3. pc'[q] \in {"open", "replace"} /\ at'[q] < ManifestAt => Wanted(Here(q)', chosen'[q])
    <3>1. CASE q = r BY <2>1, <3>1 DEF Here
    <3>2. CASE q # r BY <2>1, <3>2 DEF Here, Explained
    <3> QED BY <3>1, <3>2
  <2>4. ASSUME NEW i \in 1..Len(Body), i < at'[q] \/ (i = at'[q] /\ pc'[q] = "done")
        PROVE  Logs(q, i)'
    <3>1. Logs(q, i) BY <2>1, <2>4 DEF Explained
    <3> QED BY <2>1, <3>1 DEF Logs
  <2> QED BY <2>2, <2>3, <2>4
<1> QED BY <1>1, <1>2 DEF Explained

LEMMA ExplainedStep ==
  ASSUME ~Overlap, PublishInv, LedgerInv, Explained, [Next]_vars PROVE Explained'
<1>0. TypeOK /\ OneAtATime /\ TypeOK' BY NextTyped DEF LedgerInv
<1> USE <1>0 DEF TypeOK, Goto, Active
<1>n. /\ count \in Nat /\ \A r \in Runs : number[r] \in Nat
      /\ \A c \in Cells : logged[c] \in Nat /\ merged[c] \in Nat
  BY CellsAssumption DEF Numbers
<1>w. ASSUME NEW r \in Runs, NEW i \in 1..Len(Body), Body[i].kind \in {"rejections", "ledger"},
             Wanted(Body[i], chosen[r])
      PROVE  Body[i].of \in Cells
  BY <1>w DEF Wanted
<1>1. ASSUME NEW r \in Runs, Start(r) PROVE Explained'
  <2>1. /\ \A q \in Runs : q # r => pc'[q] = "idle"
        /\ count' = count + 1 /\ number'[r] = count + 1 /\ pc'[r] = "prepare"
        /\ UNCHANGED <<logged, merged, at>> /\ pc[r] = "idle"
    BY <1>1 DEF Start, root
  <2>2. \A c \in Cells : merged'[c] <= logged'[c] /\ logged'[c] <= count'
    BY <1>n, <2>1 DEF Explained
  <2>3. at'[r] = 1 BY <2>1 DEF PublishInv, InOrder, Ordered
  <2>4. \A i \in 1..Len(Body) : ~(i < 1) BY PlacesShape
  <2> QED BY <2>1, <2>2, <2>3, <2>4 DEF Explained
<1>2. ASSUME NEW r \in Runs, Skip(r) PROVE Explained'
  <2>1. /\ pc[r] = "prepare" /\ at[r] < ManifestAt /\ ~Wanted(Body[at[r]], chosen[r])
        /\ at' = [at EXCEPT ![r] = at[r] + 1]
        /\ UNCHANGED <<logged, merged, pc, number, chosen, count>>
    BY <1>2 DEF Skip, Here, root
  <2>2. \A i \in 1..Len(Body) : i < at'[r] => i < at[r] \/ i = at[r]
    BY <2>1, PlacesShape
  <2>3. \A i \in 1..Len(Body) : i < at'[r] => Logs(r, i)' BY <2>1, <2>2 DEF Explained, Logs
  <2>4. \A q \in Runs : q # r => pc'[q] \notin Active BY <2>1 DEF OneAtATime
  <2> QED BY <2>1, <2>3, <2>4 DEF Explained
<1>3. ASSUME NEW r \in Runs, Merge(r) \/ Note(r) \/ Open(r) \/ Raise(r) \/ Fail(r) \/ Unlink(r)
      PROVE  Explained'
  <2>1. PICK step \in {"open", "replace", "sweep", "unlink"} : Goto(r, step)
    BY <1>3 DEF Merge, Note, Open, Raise, Fail, Unlink
  <2>2. /\ pc[r] \in Active
        /\ UNCHANGED <<logged, merged, number, count, at, chosen>>
    BY <1>3 DEF Merge, Note, Open, Raise, Fail, Unlink, root, driver
  <2>3. ASSUME step \in {"open", "replace"}, at[r] < ManifestAt
        PROVE  Wanted(Here(r), chosen[r])
    BY <1>3, <2>1, <2>3 DEF Merge, Note, Open, Raise, Fail, Unlink, Explained
  <2> QED BY <2>1, <2>2, <2>3, ExplainedQuiet
<1>4. ASSUME NEW r \in Runs, Sweep(r) \/ Kill(r) PROVE Explained'
  <2>1. /\ Goto(r, "idle") /\ UNCHANGED <<logged, merged, number, count>>
        /\ \A q \in Runs \ {r} : UNCHANGED <<at[q], chosen[q]>>
    BY <1>4 DEF Sweep, Kill, Leave, root
  <2> QED BY <2>1, ExplainedQuiet
<1>5. ASSUME NEW r \in Runs, Replace(r) PROVE Explained'
  <2>1. /\ pc[r] = "replace" /\ pc' = [pc EXCEPT ![r] = "done"]
        /\ UNCHANGED <<number, chosen, at, count>>
    BY <1>5 DEF Replace, driver
  <2>2. \A q \in Runs : q # r => pc'[q] \notin Active BY <2>1 DEF OneAtATime
  <2>3. /\ number[r] = count /\ \A i \in 1..Len(Body) : i < at[r] => Logs(r, i)
        /\ at[r] < ManifestAt => Wanted(Here(r), chosen[r])
    BY <2>1 DEF Explained
  <2>4. SUFFICES
          /\ \A c \in Cells : merged'[c] <= logged'[c] /\ logged'[c] <= count
          /\ \A i \in 1..Len(Body) : i < at[r] \/ i = at[r] => Logs(r, i)'
    BY <2>1, <2>2, <2>3 DEF Explained
  <2>5. CASE PutLog(r)
    <3>1. /\ at[r] < ManifestAt /\ Here(r).kind = "rejections"
          /\ logged' = [logged EXCEPT ![Here(r).of] = count] /\ UNCHANGED merged
      BY <2>3, <2>5 DEF PutLog
    <3>2. \A c \in Cells : logged'[c] = logged[c] \/ logged'[c] = count BY <3>1
    <3>3. \A c \in Cells : merged'[c] <= logged'[c] /\ logged'[c] <= count
      BY <1>n, <3>1, <3>2 DEF Explained
    <3>4. ASSUME NEW i \in 1..Len(Body), i < at[r] \/ i = at[r] PROVE Logs(r, i)'
      <4>1. SUFFICES ASSUME Body[i].kind = "rejections", Wanted(Body[i], chosen[r])
                     PROVE  logged'[Body[i].of] = count
        BY <2>1, <2>3 DEF Logs
      <4>2. Body[i].of \in Cells BY <1>w, <4>1
      <4>3. CASE i = at[r] BY <3>1, <4>2, <4>3 DEF Here
      <4>4. CASE i < at[r]
        <5>1. logged[Body[i].of] = count BY <2>3, <4>1, <4>4 DEF Logs
        <5> QED BY <3>1, <4>2, <5>1
      <4> QED BY <3>4, <4>3, <4>4
    <3> QED BY <3>3, <3>4
  <2>6. CASE PutLedger(r)
    <3>1. /\ at[r] < ManifestAt /\ Here(r).kind = "ledger"
          /\ merged' = [merged EXCEPT ![Here(r).of] = count] /\ UNCHANGED logged
      BY <2>3, <2>6 DEF PutLedger
    <3>2. at[r] \in 1..Len(Body) BY <3>1, PlacesShape
    <3>3. /\ at[r] - 1 \in 1..Len(Body) /\ at[r] - 1 < at[r]
          /\ Body[at[r] - 1] = Doc("rejections", Here(r).of)
      BY <3>1, <3>2, LogBeforeLedger DEF Here
    <3>4. Logs(r, at[r] - 1) BY <2>3, <3>3
    <3>5. ASSUME NEW c \in Cells PROVE merged'[c] <= logged'[c] /\ logged'[c] <= count
      <4>1. CASE c = Here(r).of
        <5>1. logged[c] = count
          BY <2>3, <3>1, <3>3, <3>4, <4>1 DEF Logs, Wanted, Doc
        <5> QED BY <1>n, <3>1, <4>1, <5>1 DEF Explained
      <4>2. CASE c # Here(r).of BY <3>1, <4>2 DEF Explained
      <4> QED BY <4>1, <4>2
    <3>6. ASSUME NEW i \in 1..Len(Body), i < at[r] \/ i = at[r] PROVE Logs(r, i)'
      <4>1. CASE i = at[r] BY <3>1, <4>1 DEF Logs, Here
      <4>2. CASE i < at[r] BY <2>1, <2>3, <3>1, <4>2 DEF Logs
      <4> QED BY <3>6, <4>1, <4>2
    <3> QED BY <3>5, <3>6
  <2>7. CASE PutFile(r) \/ PutManifest(r) \/ PutPointer(r)
    <3>1. UNCHANGED <<logged, merged>> BY <2>7 DEF PutFile, PutManifest, PutPointer
    <3>2. \A i \in 1..Len(Body) : i = at[r] => Body[i].kind # "rejections"
      BY <2>7, PlacesShape DEF PutFile, PutManifest, PutPointer, Here, Archived
    <3> QED BY <2>1, <2>3, <3>1, <3>2 DEF Explained, Logs
  <2> QED BY <1>5, <2>5, <2>6, <2>7 DEF Replace
<1>6. ASSUME NEW r \in Runs, Forget(r) PROVE Explained'
  <2>1. /\ pc[r] = "done" /\ UNCHANGED <<logged, merged, number, chosen, count>>
        /\ \/ Goto(r, "sweep") /\ at' = at
           \/ Goto(r, "prepare") /\ at' = [at EXCEPT ![r] = at[r] + 1] /\ at[r] # PointerAt
    BY <1>6 DEF Forget, root
  <2>2. \A i \in 1..Len(Body) : i < at'[r] => i < at[r] \/ i = at[r]
    BY <2>1, PlacesShape
  <2>3. \A i \in 1..Len(Body) : i < at'[r] => Logs(r, i)' BY <2>1, <2>2 DEF Explained, Logs
  <2>4. \A q \in Runs : q # r => pc'[q] \notin Active BY <2>1 DEF OneAtATime
  <2>5. pc'[r] # "done" BY <2>1
  <2> QED BY <2>1, <2>3, <2>4, <2>5 DEF Explained
<1>7. CASE UNCHANGED vars BY <1>7 DEF vars, root, driver, Explained, Logs, Here
<1> QED BY <1>1, <1>2, <1>3, <1>4, <1>5, <1>6, <1>7 DEF Next, Write, GoBack

(* While runs of a root do not overlap, what a ledger says was rejected is *)
(* explained in the log of its cell, by the same attempt or a later one.   *)
THEOREM RejectionsAreExplained == ASSUME ~Overlap PROVE Spec => []RejectionsExplained
<1>1. Init => LedgerInv /\ Explained
  <2>1. Init => Explained BY CellsAssumption DEF Explained, Init, Active
  <2>2. Init => LedgerInv BY InitTyped DEF LedgerInv, OneAtATime, Held, Init, Active
  <2> QED BY <2>1, <2>2
<1>2. PublishInv /\ LedgerInv /\ Explained /\ [Next]_vars => LedgerInv' /\ Explained'
  BY LedgerStep, ExplainedStep
<1>3. Explained => RejectionsExplained BY DEF Explained, RejectionsExplained
<1> QED BY <1>1, <1>2, <1>3, PublishInvHolds, PTL DEF Spec

(* The published runs that saw a URL; and an attempt that has merged it    *)
(* has counted one more, in the ledger it writes or in the one written.    *)
SeenBy(c, u) == {r \in Runs : Finished(r) /\ <<c, u>> \in manifest[r].saw}

Writes(r, c) == /\ pc[r] \in {"open", "replace"} /\ at[r] < ManifestAt
                /\ Here(r).kind = "ledger" /\ Here(r).of = c
Counting(r, c) == IF Writes(r, c) THEN doc[r] ELSE ledger[c]

Ahead(r) == \A c \in Cells, u \in Urls :
              <<c, u>> \in saw[r] => Counting(r, c)[u].seen > Cardinality(SeenBy(c, u))

Rising(r) == pc[r] \in {"prepare", "open", "replace", "done"} /\ ~Finished(r)

Counted ==
  /\ \A r \in Runs : pc[r] = "idle" => saw[r] = {}
  /\ \A c \in Cells, u \in Urls :
       IsFiniteSet(SeenBy(c, u)) /\ ledger[c][u].seen >= Cardinality(SeenBy(c, u))
  /\ \A r \in Runs : Rising(r) => Ahead(r)

(* Where no ledger and no manifest is put in place, only the one at work   *)
(* can break it.                                                           *)
LEMMA CountedQuiet ==
  ASSUME OneAtATime', Counted, UNCHANGED <<manifest, ledger>>, NEW r \in Runs,
         pc'[r] = "idle" => saw'[r] = {},
         \A q \in Runs \ {r} : pc'[q] = pc[q] /\ saw'[q] = saw[q],
         pc'[r] \notin Active => pc[r] \in Active \/ \A q \in Runs : pc[q] \notin Active,
         OneAtATime, Rising(r)' => Ahead(r)'
  PROVE  Counted'
<1>1. \A c, u : SeenBy(c, u)' = SeenBy(c, u) BY DEF SeenBy, Finished
<1>2. ASSUME NEW q \in Runs, q # r PROVE ~Rising(q)'
  <2>1. CASE pc'[r] \in Active BY <1>2, <2>1 DEF OneAtATime, Rising, Active
  <2>2. CASE pc'[r] \notin Active
    <3>1. pc[q] \notin Active BY <1>2, <2>2 DEF OneAtATime
    <3> QED BY <1>2, <3>1 DEF Rising, Active
  <2> QED BY <2>1, <2>2
<1> QED BY <1>1, <1>2 DEF Counted

LEMMA CountedStep ==
  ASSUME ~Overlap, PublishInv, LedgerInv, Counted, [Next]_vars PROVE Counted'
<1>0. TypeOK /\ OneAtATime /\ TypeOK' /\ OneAtATime' BY LedgerStep, NextTyped DEF LedgerInv
<1> USE <1>0 DEF TypeOK, Goto
<1>n. /\ \A c \in Cells, u \in Urls : ledger[c][u].seen \in Nat /\ ledger'[c][u].seen \in Nat
      /\ \A r \in Runs, u \in Urls : doc[r][u].seen \in Nat
      /\ \A c \in Cells, u \in Urls :
           IsFiniteSet(SeenBy(c, u)) /\ Cardinality(SeenBy(c, u)) \in Nat
  BY FS_CardinalityType DEF Ledgers, Entries, Counted
<1>s. ASSUME UNCHANGED manifest PROVE \A c, u : SeenBy(c, u)' = SeenBy(c, u)
  BY <1>s DEF SeenBy, Finished
<1>1. ASSUME NEW r \in Runs, Start(r) PROVE Counted'
  <2>1. /\ pc[r] = "idle" /\ UNCHANGED <<manifest, ledger, saw>> /\ saw[r] = {}
        /\ pc' = [pc EXCEPT ![r] = "prepare"]
    BY <1>1 DEF Start, root, Counted
  <2>2. Ahead(r)' BY <2>1 DEF Ahead
  <2> QED BY <2>1, <2>2, CountedQuiet DEF Active
<1>2. ASSUME NEW r \in Runs, Merge(r) PROVE Counted'
  <2>1. PICK obs \in [Urls -> Outcomes \cup {None}], c \in Cells :
          /\ c = Here(r).of
          /\ IF Contradicts(ledger[c], obs)
               THEN Goto(r, "sweep") /\ UNCHANGED <<doc, saw, noted>>
               ELSE /\ doc' = [doc EXCEPT ![r] = MergeLedger(ledger[c], obs)]
                    /\ saw' = [saw EXCEPT ![r] = @ \cup
                                 {<<c, u>> : u \in {v \in Urls : obs[v] # None}}]
                    /\ noted' = [noted EXCEPT ![r] = @ \cup {number[r]}]
                    /\ Goto(r, "open")
    BY <1>2, Zenon DEF Merge
  <2>2. pc[r] = "prepare" /\ UNCHANGED <<manifest, ledger, at>>
        /\ at[r] < ManifestAt /\ Here(r).kind = "ledger"
    BY <1>2 DEF Merge, root
  <2>3. ASSUME Rising(r)' PROVE Ahead(r)'
    <3>0. ~Contradicts(ledger[c], obs) BY <2>1, <2>3 DEF Rising
    <3>1. /\ pc' = [pc EXCEPT ![r] = "open"]
          /\ doc' = [doc EXCEPT ![r] = MergeLedger(ledger[c], obs)]
          /\ saw' = [saw EXCEPT ![r] = saw[r] \cup
                       {<<c, u>> : u \in {v \in Urls : obs[v] # None}}]
      BY <2>1, <3>0
    <3>2. Rising(r) /\ \A d \in Cells : ~Writes(r, d)
      BY <2>2, <2>3 DEF Rising, Finished, Writes
    <3>3. \A d \in Cells : Counting(r, d)' = IF d = c THEN MergeLedger(ledger[c], obs) ELSE ledger[d]
      BY <2>1, <2>2, <3>1 DEF Counting, Writes, Here
    <3>4. SUFFICES ASSUME NEW d \in Cells, NEW u \in Urls, <<d, u>> \in saw'[r]
                   PROVE  Counting(r, d)'[u].seen > Cardinality(SeenBy(d, u))
      BY <1>s, <2>2 DEF Ahead
    <3>5. ASSUME <<d, u>> \in saw[r] PROVE ledger[d][u].seen > Cardinality(SeenBy(d, u))
      BY <3>2, <3>5 DEF Counted, Ahead, Counting
    <3>6. CASE d # c
      <4>1. <<d, u>> \in saw[r] BY <3>1, <3>4, <3>6
      <4> QED BY <3>3, <3>5, <3>6, <4>1
    <3>7. CASE d = c /\ obs[u] # None
      <4>1. Counting(r, d)'[u].seen = ledger[c][u].seen + 1 BY <3>3, <3>7 DEF MergeLedger
      <4>2. ledger[c][u].seen >= Cardinality(SeenBy(c, u)) BY DEF Counted
      <4> QED BY <1>n, <3>7, <4>1, <4>2
    <3>8. CASE d = c /\ obs[u] = None
      <4>1. Counting(r, d)'[u].seen = ledger[c][u].seen BY <3>3, <3>8 DEF MergeLedger
      <4>2. <<d, u>> \in saw[r] BY <3>1, <3>4, <3>8
      <4> QED BY <3>5, <3>8, <4>1, <4>2
    <3> QED BY <3>6, <3>7, <3>8
  <2>4. \A q \in Runs \ {r} : pc'[q] = pc[q] /\ saw'[q] = saw[q]
    <3>1. CASE Contradicts(ledger[c], obs) BY <2>1, <3>1
    <3>2. CASE ~Contradicts(ledger[c], obs) BY <2>1, <3>2
    <3> QED BY <3>1, <3>2
  <2>5. pc'[r] \in Active BY <2>1 DEF Active
  <2> QED BY <2>2, <2>3, <2>4, <2>5, CountedQuiet DEF Active
<1>3. ASSUME NEW r \in Runs,
             Skip(r) \/ Note(r) \/ Open(r) \/ Forget(r) \/ Raise(r) \/ Fail(r) \/ Unlink(r)
      PROVE  Counted'
  <2>1. /\ pc[r] \in Active /\ pc'[r] \in Active /\ UNCHANGED <<manifest, ledger, saw, doc>>
        /\ \A q \in Runs \ {r} : pc'[q] = pc[q]
    BY <1>3 DEF Skip, Note, Open, Forget, Raise, Fail, Unlink, root, driver, Active
  <2>2. ASSUME Rising(r)' PROVE Ahead(r)'
    <3>1. Rising(r) BY <1>3, <2>1, <2>2 DEF Skip, Note, Open, Forget, Raise, Fail, Unlink,
                                            Rising, Finished
    <3>2. \A c \in Cells : Writes(r, c)' <=> Writes(r, c)
      BY <1>3, <2>2 DEF Skip, Note, Open, Forget, Raise, Fail, Unlink, Rising, Writes,
                        Here, driver
    <3> QED BY <1>s, <2>1, <3>1, <3>2 DEF Counted, Ahead, Counting
  <2> QED BY <2>1, <2>2, CountedQuiet DEF Active
<1>4. ASSUME NEW r \in Runs, Sweep(r) \/ Kill(r) PROVE Counted'
  <2>1. /\ pc[r] \in Active /\ UNCHANGED <<manifest, ledger>>
        /\ pc' = [pc EXCEPT ![r] = "idle"] /\ saw' = [saw EXCEPT ![r] = {}]
    BY <1>4 DEF Sweep, Kill, Leave, root, Active
  <2>2. ~Rising(r)' BY <2>1 DEF Rising
  <2> QED BY <2>1, <2>2, CountedQuiet DEF Active
<1>5. ASSUME NEW r \in Runs, Replace(r) PROVE Counted'
  <2>1. /\ pc[r] = "replace" /\ pc' = [pc EXCEPT ![r] = "done"]
        /\ UNCHANGED <<saw, doc, at>>
    BY <1>5 DEF Replace, driver
  <2>2. \A q \in Runs : q # r => ~Rising(q)' BY <2>1 DEF OneAtATime, Rising, Active
  <2>3. ~Finished(r) => Ahead(r) BY <2>1 DEF Counted, Rising
  <2>4. \A c \in Cells : ~Writes(r, c)' BY <2>1 DEF Writes
  <2>5. CASE PutFile(r) \/ PutLog(r) \/ PutPointer(r)
    <3>1. UNCHANGED <<manifest, ledger>> BY <2>5 DEF PutFile, PutLog, PutPointer
    <3>2. \A c \in Cells : ~Writes(r, c)
      BY <2>5, PlacesShape DEF PutFile, PutLog, PutPointer, Writes, Archived
    <3>3. Rising(r)' => Ahead(r)'
      BY <1>s, <2>1, <2>3, <2>4, <3>1, <3>2 DEF Rising, Finished, Ahead, Counting
    <3> QED BY <2>1, <3>1, <3>3, CountedQuiet DEF Active
  <2>6. CASE PutLedger(r)
    <3>1. /\ at[r] < ManifestAt /\ Here(r).kind = "ledger" /\ UNCHANGED manifest
          /\ ledger' = [ledger EXCEPT ![Here(r).of] = doc[r]]
      BY <2>6 DEF PutLedger
    <3>2. Extends(doc[r], ledger[Here(r).of]) BY <2>1, <3>1 DEF LedgerInv, Held
    <3>3. ASSUME NEW c \in Cells
          PROVE  ledger'[c] = IF c = Here(r).of THEN doc[r] ELSE ledger[c]
      BY <3>1
    <3>4. ASSUME NEW c \in Cells, NEW u \in Urls PROVE ledger'[c][u].seen >= ledger[c][u].seen
      <4>1. CASE c = Here(r).of
        <5>1. ledger'[c] = doc[r] BY <3>3, <4>1
        <5> QED BY <3>2, <4>1, <5>1 DEF Extends
      <4>2. CASE c # Here(r).of BY <1>n, <3>3, <4>2
      <4> QED BY <4>1, <4>2
    <3>5. \A c \in Cells, u \in Urls :
            IsFiniteSet(SeenBy(c, u)') /\ ledger'[c][u].seen >= Cardinality(SeenBy(c, u)')
      BY <1>n, <1>s, <3>1, <3>4 DEF Counted
    <3>6. \A c \in Cells : Counting(r, c)' = Counting(r, c)
      BY <2>1, <2>4, <3>1, <3>3 DEF Counting, Writes
    <3>7. Rising(r)' => Ahead(r)'
      BY <1>s, <2>1, <2>3, <3>1, <3>6 DEF Rising, Finished, Ahead
    <3> QED BY <2>1, <2>2, <3>5, <3>7 DEF Counted
  <2>7. CASE PutManifest(r)
    <3>1. /\ at[r] = ManifestAt /\ UNCHANGED ledger /\ ~Finished(r)
          /\ manifest' = [manifest EXCEPT ![r] = [by |-> number[r], cells |-> chosen[r], saw |-> saw[r]]]
      BY <2>1, <2>7, PlacesShape DEF PutManifest, PublishInv, InOrder, Ordered
    <3>2. Finished(r)'
      <4>1. [by |-> number[r], cells |-> chosen[r], saw |-> saw[r]] \in Manifests BY DEF Manifests
      <4> QED BY <3>1, <4>1, NoneIsApart DEF Finished
    <3>3. ASSUME NEW c \in Cells, NEW u \in Urls
          PROVE  SeenBy(c, u)' = IF <<c, u>> \in saw[r] THEN SeenBy(c, u) \cup {r} ELSE SeenBy(c, u)
      <4>1. manifest'[r].saw = saw[r] BY <3>1
      <4>2. \A q \in Runs : q # r => manifest'[q] = manifest[q] BY <3>1
      <4>3. r \notin SeenBy(c, u) BY <3>1 DEF SeenBy
      <4> QED BY <3>2, <4>1, <4>2, <4>3 DEF SeenBy, Finished
    <3>4. ASSUME NEW c \in Cells, NEW u \in Urls
          PROVE  IsFiniteSet(SeenBy(c, u)') /\ ledger'[c][u].seen >= Cardinality(SeenBy(c, u)')
      <4>1. CASE <<c, u>> \in saw[r]
        <5>1. r \notin SeenBy(c, u) BY <3>1 DEF SeenBy
        <5>2. /\ IsFiniteSet(SeenBy(c, u) \cup {r})
              /\ Cardinality(SeenBy(c, u) \cup {r}) = Cardinality(SeenBy(c, u)) + 1
          BY <1>n, <5>1, FS_AddElement
        <5>3. ~Writes(r, c) BY <3>1, PlacesShape DEF Writes
        <5>4. ledger[c][u].seen > Cardinality(SeenBy(c, u))
          BY <2>3, <3>1, <4>1, <5>3 DEF Ahead, Counting
        <5>5. SeenBy(c, u)' = SeenBy(c, u) \cup {r} /\ ledger'[c][u] = ledger[c][u]
          BY <3>1, <3>3, <4>1
        <5>6. Cardinality(SeenBy(c, u)) \in Nat /\ ledger[c][u].seen \in Nat BY <1>n
        <5> HIDE DEF SeenBy
        <5>7. Cardinality(SeenBy(c, u)') = Cardinality(SeenBy(c, u)) + 1 BY <5>2, <5>5
        <5>8. ledger'[c][u].seen >= Cardinality(SeenBy(c, u)') BY <5>4, <5>5, <5>6, <5>7
        <5> QED BY <5>2, <5>5, <5>8
      <4>2. CASE <<c, u>> \notin saw[r] BY <1>n, <3>1, <3>3, <4>2 DEF Counted
      <4> QED BY <4>1, <4>2
    <3> QED BY <2>1, <2>2, <3>2, <3>4 DEF Counted, Rising
  <2> QED BY <1>5, <2>5, <2>6, <2>7 DEF Replace
<1>6. CASE UNCHANGED vars
  BY <1>6, <1>s DEF vars, root, driver, Counted, Rising, Finished, Ahead, Counting, Writes, Here
<1> QED BY <1>1, <1>2, <1>3, <1>4, <1>5, <1>6 DEF Next, Write, GoBack

(* While runs of a root do not overlap, no failure and no later run loses  *)
(* a sighting: a URL was counted at least once for each of the published   *)
(* runs that extracted it.                                                 *)
THEOREM EverySightingCounted == ASSUME ~Overlap PROVE Spec => []PublishedRunsCounted
<1>1. Init => LedgerInv /\ Counted
  <2>1. Init => LedgerInv BY InitTyped DEF LedgerInv, OneAtATime, Held, Init, Active
  <2>2. ASSUME Init PROVE Counted
    <3>1. \A c, u : SeenBy(c, u) = {} BY <2>2 DEF SeenBy, Finished, Init
    <3>2. \A c \in Cells, u \in Urls : ledger[c][u].seen = 0 BY <2>2 DEF Init, Unseen, Absent
    <3>3. IsFiniteSet({}) /\ Cardinality({}) = 0 BY FS_EmptySet
    <3>4. \A r \in Runs : pc[r] = "idle" /\ saw[r] = {} BY <2>2 DEF Init
    <3>5. ASSUME NEW c \in Cells, NEW u \in Urls
          PROVE  IsFiniteSet(SeenBy(c, u)) /\ ledger[c][u].seen >= Cardinality(SeenBy(c, u))
      BY <3>1, <3>2, <3>3
    <3>6. ASSUME NEW r \in Runs PROVE Ahead(r) BY <3>4 DEF Ahead
    <3> QED BY <3>4, <3>5, <3>6 DEF Counted
  <2> QED BY <2>1, <2>2
<1>2. PublishInv /\ LedgerInv /\ Counted /\ [Next]_vars => LedgerInv' /\ Counted'
  BY LedgerStep, CountedStep
<1>3. Counted => PublishedRunsCounted BY DEF Counted, SeenBy, PublishedRunsCounted
<1> QED BY <1>1, <1>2, <1>3, PublishInvHolds, PTL DEF Spec
=============================================================================
