------------------------------ MODULE LinkCheck ------------------------------
(***************************************************************************)
(* run() of linkcheck.py: the pages of an existing run's records are asked *)
(* for again, and a run of its own says what was seen.  Several processes  *)
(* may work on one root: harvests, that leave a finished run or die on the *)
(* way, and link checks, one document at a time.                           *)
(*                                                                         *)
(* A record has a topic, an identity (key), the cell it lives in, the URL  *)
(* to ask for, the hash of the page it was made from and its history.  The *)
(* instants of the clock are seconds: two runs may see the same one.       *)
(* What the code sorts is a set here, of which a loop takes the least.     *)
(***************************************************************************)
EXTENDS RunValidate, Sequences

CONSTANTS Hashes, Accesses,         \* of the pages, and the ways of finding them
          Canon,                    \* URL -> the identity it canonicalizes to
          Answers,                  \* identity -> the outcomes of asking for it
          Corpora,                  \* cell -> records: what harvests may leave
          Harvests, Checks,         \* the ids of harvests and of link checks
          MaxClock,
          MaxActive,                \* bound on the link checks at work at a time
          MaxFaults                 \* bound on the kills and failing writes

ASSUME RunsAssumption ==
         Runs = Harvests \cup Checks /\ Harvests \cap Checks = {}
ASSUME BoundsAssumption == MaxClock \in Nat \ {0} /\ MaxActive \in Nat /\ MaxFaults \in Nat

Identities == DOMAIN Answers
Outcomes   == [access : Accesses, hash : Hashes \cup {None}]
NotChecked == [access |-> "not_checked", hash |-> None]
Entries    == [at : 1..MaxClock, access : Accesses, changed : BOOLEAN \cup {None}]
Records    == [type : {"full", "cross_reference"}, topic : Topics, cell : Cells, key : Nat,
               url : DOMAIN Canon \cup {None}, hash : Hashes \cup {None}, history : Seq(Entries)]

RecordId(rec) == <<rec.topic, rec.key>>

(* The records of a cell, at most one of an identity (_dedupe_records).    *)
InCell(rs, c) ==
  /\ rs \subseteq Records /\ IsFiniteSet(rs)
  /\ \A x \in rs : /\ x.cell = c /\ x.topic = TopicOf[c]
                   /\ x.type = "full" => x.url \in DOMAIN Canon
  /\ \A x, y \in rs : x.key = y.key => x = y

(* Two cells of a topic may both hold a record of an identity; a run has   *)
(* fetched it once, and its preferred URL is what that fetch showed.       *)
OneUrl(rs) ==
  \A x, y \in rs : x.type = "full" /\ y.type = "full" /\ RecordId(x) = RecordId(y)
                   => x.url = y.url

(* Of the cells a harvest has run, how many sightings were of a new key.   *)
Sightings == [observations |-> 2, unique |-> 1, repeated |-> 1]
Rows      == [status : {"ok", "zero_result", "not_run"}, sightings : {Sightings, None}]
Manifests == [mode : {"smoke", "harvest", "linkcheck"}, base : Runs \cup {None},
              stamp : 1..MaxClock, enrich : BOOLEAN, bounds : 1..MaxSample,
              probed : BOOLEAN, eligible : BOOLEAN, rows : [Cells -> Rows]]

ASSUME NoneAssumption == /\ None \notin Runs /\ None \notin Manifests /\ None # Sightings
                         /\ None \notin 1..MaxSample
ASSUME PagesAssumption ==
         /\ Canon \in [DOMAIN Canon -> Identities] /\ Answers \in [Identities -> SUBSET Outcomes]
         /\ "not_checked" \in Accesses
ASSUME CorporaAssumption ==
         \A corpus \in Corpora :
           /\ DOMAIN corpus = Cells /\ \A c \in Cells : InCell(corpus[c], c)
           /\ \A c \in Cells : \A x \in corpus[c] : x.history = <<>>
           /\ OneUrl(UNION {corpus[c] : c \in Cells})

VARIABLES tree, latest, shared, debris,
          clock,
          pc,         \* pc[r]: "idle", "fetch", "write", "done", "raised", "killed"
          job,        \* job[r]: what the link check holds in memory, None outside it
          faults      \* how many processes were killed or failed

rootVars == <<tree, latest, shared, debris>>
vars == <<rootVars, clock, pc, job, faults>>

Root == [tree |-> tree, latest |-> latest, shared |-> shared, debris |-> debris]
With(f, x, v) == [y \in DOMAIN f \cup {x} |-> IF y = x THEN v ELSE f[y]]

Active == {"fetch", "write", "point"}

Init ==
  /\ tree = [r \in Runs |-> NoTree] /\ latest = None /\ shared = {} /\ debris = {}
  /\ clock = 1
  /\ pc = [r \in Runs |-> "idle"] /\ job = [r \in Runs |-> None]
  /\ faults = 0

(* The instant a run reads once, and writes everywhere.                    *)
ReadClock == clock' \in clock..MaxClock

-----------------------------------------------------------------------------
(* Harvests (RunPublish has their steps): a finished smoke or harvest of   *)
(* every cell, or the documents it had written when it died.               *)

HarvestManifest(mode, corpus) ==
  [mode |-> mode, base |-> None, stamp |-> clock',
   enrich |-> mode = "harvest", bounds |-> 1, probed |-> TRUE, eligible |-> mode = "harvest",
   rows |-> [c \in Cells |->
               [status |-> IF corpus[c] = {} THEN "zero_result" ELSE "ok",
                sightings |-> Sightings]]]

Written(corpus, cs) == [c \in cs |-> CellDoc(corpus[c])]

Harvest ==
  \E r \in Harvests, corpus \in Corpora, mode \in {"smoke", "harvest"} :
    /\ pc[r] = "idle" /\ ReadClock
    /\ pc' = [pc EXCEPT ![r] = "done"]
    /\ LET docs == Written(corpus, Cells)
       IN tree' = [tree EXCEPT ![r] =
                     [cells |-> docs, topics |-> [t \in Topics |-> TopicDoc(t, docs)],
                      tail |-> Closing, manifest |-> HarvestManifest(mode, corpus)]]
    /\ latest' = r /\ shared' = Cells
    /\ UNCHANGED <<debris, job, faults>>

HarvestDies ==
  \E r \in Harvests, corpus \in Corpora, last \in Cells :
    /\ pc[r] = "idle"
    /\ pc' = [pc EXCEPT ![r] = "killed"]
    /\ tree' = [tree EXCEPT ![r].cells = Written(corpus, {c \in Cells : c <= last})]
    /\ faults < MaxFaults /\ faults' = faults + 1
    /\ UNCHANGED <<latest, shared, debris, clock, job>>

-----------------------------------------------------------------------------
(* The sample: the first full records, in the order of topic, category and *)
(* record id.                                                              *)

Before(p, q) == p.cell < q.cell \/ (p.cell = q.cell /\ p.key < q.key)

FullRecords(cells) == UNION {OfType(cells[c].records, "full") : c \in DOMAIN cells}

Preceding(records, x) == {y \in records : Before(y, x)}

(* Mutant: one record more.                                                *)
SelectSampleMore(records, n) == {x \in records : Cardinality(Preceding(records, x)) <= n}

SelectSample(records, n) == {x \in records : Cardinality(Preceding(records, x)) < n}

(* The base run must have the document of every cell; its manifest is not  *)
(* asked for.  A check refused here has written and asked for nothing.     *)
Readable(b) == HasDirectory(Root, b) /\ DOMAIN tree[b].cells = Cells

MayBegin(r, b) == Readable(b) /\ r # b /\ ~RunIsFinished(Root, r)

Begin ==
  \E r \in Checks, b \in Runs, n \in 1..MaxSample :
    /\ pc[r] = "idle" /\ MayBegin(r, b)
    /\ Cardinality({q \in Checks : pc[q] \in Active}) < MaxActive
    /\ ReadClock
    /\ LET records == FullRecords(tree[b].cells)
       IN /\ records # {}
          /\ job' = [job EXCEPT ![r] =
               [base |-> b, sample |-> n, stamp |-> clock', cells |-> tree[b].cells,
                todo |-> SelectSample(records, n), spent |-> FALSE,
                asked |-> [k \in Identities |-> 0], outcomes |-> <<>>, by |-> <<>>,
                built |-> <<>>]]
    /\ pc' = [pc EXCEPT ![r] = "fetch"]
    /\ UNCHANGED <<rootVars, faults>>

-----------------------------------------------------------------------------
(* One request per identity; records that share it share its outcome.      *)

(* Mutant: the gate of the pool lets every record through.                 *)
UnownedAlways(r, k) == TRUE

Unowned(r, k) == k \notin DOMAIN job[r].outcomes

IsNext(r, rec) == rec \in job[r].todo /\ Preceding(job[r].todo, rec) = {}

Seen(r, rec, asked, outcome, spent) ==
  job' = [job EXCEPT ![r].todo = @ \ {rec}, ![r].spent = spent,
                     ![r].asked[Canon[rec.url]] = @ + asked,
                     ![r].outcomes = With(@, Canon[rec.url], outcome),
                     ![r].by = With(@, RecordId(rec), outcome)]

Fetch ==
  \E r \in Checks :
    /\ pc[r] = "fetch"
    /\ \E rec \in job[r].todo :
         /\ IsNext(r, rec) /\ Unowned(r, Canon[rec.url])
         /\ \/ /\ ~job[r].spent
               /\ \E outcome \in Answers[Canon[rec.url]] : Seen(r, rec, 1, outcome, FALSE)
            \/ Seen(r, rec, 1, NotChecked, TRUE)       \* the budget is spent
    /\ UNCHANGED <<rootVars, clock, pc, faults>>

Reuse ==
  \E r \in Checks :
    /\ pc[r] = "fetch"
    /\ \E rec \in job[r].todo :
         /\ IsNext(r, rec) /\ ~Unowned(r, Canon[rec.url])
         /\ Seen(r, rec, 0, job[r].outcomes[Canon[rec.url]], job[r].spent)
    /\ UNCHANGED <<rootVars, clock, pc, faults>>

Rebuild ==
  \E r \in Checks :
    /\ pc[r] = "fetch" /\ job[r].todo = {}
    /\ pc' = [pc EXCEPT ![r] = "write"]
    /\ UNCHANGED <<rootVars, clock, job, faults>>

-----------------------------------------------------------------------------
(* The tree, one document at a time: cells, topics, coverage and conflicts *)
(* from memory, then the manifest, then the pointer.                       *)

Entry(stamp, outcome, previous) ==
  [at |-> stamp, access |-> outcome.access,
   changed |-> IF outcome.hash = None \/ previous = None THEN None ELSE outcome.hash # previous]

Checked(j, rec) == RecordId(rec) \in DOMAIN j.by

(* Mutant: the last entry is replaced.                                     *)
AppendedOver(rec, entry) ==
  [rec EXCEPT !.history = Append(SubSeq(@, 1, Len(@) - 1), entry)]

Appended(rec, entry) == [rec EXCEPT !.history = Append(@, entry)]

RebuiltCell(j, c) ==
  {IF Checked(j, rec) THEN Appended(rec, Entry(j.stamp, j.by[RecordId(rec)], rec.hash)) ELSE rec :
     rec \in j.cells[c].records}

(* A pointer has no history: the schema refuses the record.                *)
Refused(j, c) == \E rec \in j.cells[c].records : Checked(j, rec) /\ rec.type = "cross_reference"

Least(S, x) == x \in S /\ \A y \in S : x <= y

CellsWritten(r)  == DOMAIN job[r].built = Cells
TopicsWritten(r) == CellsWritten(r) /\ DOMAIN tree[r].topics = Topics
AllWritten(r)    == TopicsWritten(r) /\ tree[r].tail = Closing

AtCell(r, c) == pc[r] = "write" /\ Least(Cells \ DOMAIN job[r].built, c)

WriteCell ==
  \E r \in Checks, c \in Cells :
    /\ AtCell(r, c) /\ ~Refused(job[r], c)
    /\ LET doc == CellDoc(RebuiltCell(job[r], c))
       IN /\ job' = [job EXCEPT ![r].built = With(@, c, doc)]
          /\ tree' = [tree EXCEPT ![r].cells = With(@, c, doc)]
    /\ UNCHANGED <<latest, shared, debris, clock, pc, faults>>

(* Mutant: a cell is ok when the sample was drawn from it.                 *)
CheckedCellsSampled(j) ==
  {rec.cell : rec \in SelectSample(FullRecords(j.cells), j.sample)}

CheckedCells(j) == {c \in Cells : \E rec \in j.cells[c].records : Checked(j, rec)}

WriteTopic ==
  \E r \in Checks, t \in Topics :
    /\ pc[r] = "write" /\ CellsWritten(r) /\ CheckedCells(job[r]) # {}
    /\ Least(Topics \ DOMAIN tree[r].topics, t)
    /\ tree' = [tree EXCEPT ![r].topics = With(@, t, TopicDoc(t, job[r].built))]
    /\ UNCHANGED <<latest, shared, debris, clock, pc, job, faults>>

WriteClosing ==
  \E r \in Checks, d \in Closing :
    /\ pc[r] = "write" /\ TopicsWritten(r) /\ d \notin tree[r].tail
    /\ d = "conflicts" => "coverage" \in tree[r].tail
    /\ tree' = [tree EXCEPT ![r].tail = @ \cup {d}]
    /\ UNCHANGED <<latest, shared, debris, clock, pc, job, faults>>

Manifest(j) ==
  [mode |-> "linkcheck", base |-> j.base, stamp |-> j.stamp,
   enrich |-> TRUE, bounds |-> j.sample, probed |-> FALSE, eligible |-> FALSE,
   rows |-> [c \in Cells |-> [status |-> IF c \in CheckedCells(j) THEN "ok" ELSE "not_run",
                             sightings |-> None]]]

(* publish_run: the manifest, if there is none, and then the pointer.      *)
WriteManifest ==
  \E r \in Checks :
    /\ pc[r] = "write" /\ AllWritten(r) /\ ~RunIsFinished(Root, r)
    /\ tree' = [tree EXCEPT ![r].manifest = Manifest(job[r])]
    /\ pc' = [pc EXCEPT ![r] = "point"]
    /\ UNCHANGED <<latest, shared, debris, clock, job, faults>>

Point ==
  \E r \in Checks :
    /\ pc[r] = "point"
    /\ latest' = r
    /\ pc' = [pc EXCEPT ![r] = "done"] /\ job' = [job EXCEPT ![r] = None]
    /\ UNCHANGED <<tree, shared, debris, clock, faults>>

-----------------------------------------------------------------------------
(* What ends a check with an exception whatever else happens: a record the *)
(* schema refuses, a tree without a checked cell, and an id that finished  *)
(* since the check began.  What is written stays.                          *)
Refuses(r) ==
  \/ \E c \in Cells : AtCell(r, c) /\ Refused(job[r], c)
  \/ CellsWritten(r) /\ CheckedCells(job[r]) = {}
  \/ AllWritten(r) /\ RunIsFinished(Root, r)

Raise ==
  \E r \in Checks :
    /\ pc[r] = "write" /\ Refuses(r)
    /\ pc' = [pc EXCEPT ![r] = "raised"] /\ job' = [job EXCEPT ![r] = None]
    /\ UNCHANGED <<rootVars, clock, faults>>

(* A kill, a write that fails or a document refused for some other reason  *)
(* (the manifest among them) leaves what is written, and maybe the temp    *)
(* file of the document it came in the middle of, when its unlink fails    *)
(* too: a link check keeps no journal of them.                             *)
PlaceOf(r) ==
  IF pc[r] = "point" THEN "root"
  ELSE IF TopicsWritten(r) THEN "run"
  ELSE IF CellsWritten(r) THEN "topics" ELSE "cells"

Fault ==
  \E r \in Checks, how \in {"killed", "raised"} :
    /\ pc[r] \in Active
    /\ \/ debris' = debris
       \/ pc[r] # "fetch" /\ debris' = debris \cup {<<r, PlaceOf(r)>>}
    /\ pc' = [pc EXCEPT ![r] = how] /\ job' = [job EXCEPT ![r] = None]
    /\ faults < MaxFaults /\ faults' = faults + 1
    /\ UNCHANGED <<tree, latest, shared, clock>>

Next == \/ Harvest \/ HarvestDies \/ Begin \/ Fetch \/ Reuse \/ Rebuild
        \/ WriteCell \/ WriteTopic \/ WriteClosing
        \/ WriteManifest \/ Point \/ Raise \/ Fault

Spec == Init /\ [][Next]_vars

-----------------------------------------------------------------------------
Finished(r) == RunIsFinished(Root, r)
Quiet == \A r \in Checks : pc[r] \notin Active
Stamps(b) == UNION {{rec.history[i].at : i \in DOMAIN rec.history} :
                      rec \in UNION {tree[b].cells[c].records : c \in Cells}}

(* Types; and a check looks at the first full records of its base, no more *)
(* of them than it was asked for.                                          *)
CheckInv ==
  /\ latest \in Runs \cup {None} /\ shared \subseteq Cells /\ clock \in 1..MaxClock
  /\ pc \in [Runs -> Active \cup {"idle", "done", "raised", "killed"}]
  /\ \A r \in Runs : /\ DOMAIN tree[r].cells \subseteq Cells
                     /\ DOMAIN tree[r].topics \subseteq Topics
  /\ \A r \in Checks : pc[r] \in Active =>
       LET full == FullRecords(job[r].cells)
           mine == {x \in full : RecordId(x) \in DOMAIN job[r].by} \cup job[r].todo
       IN /\ Cardinality({RecordId(x) : x \in mine}) <= job[r].sample
          /\ \A x \in full, y \in job[r].todo : Before(x, y) => x \in mine

(* A link check asks for the page of an identity once, and every record of *)
(* that identity in its sample sees the one answer (linkcheck.py:23-25:    *)
(* "ONE FETCH PER CANONICAL IDENTITY").                                    *)
OneRequest ==
  \A r \in Checks :
    pc[r] \in Active =>
      /\ \A k \in Identities : job[r].asked[k] <= 1
      /\ \A p, q \in FullRecords(job[r].cells) :
           /\ {RecordId(p), RecordId(q)} \subseteq DOMAIN job[r].by
           /\ Canon[p.url] = Canon[q.url]
           => job[r].by[RecordId(p)] = job[r].by[RecordId(q)]

(* Link checking never loses, re-judges or rewrites: whatever a finished   *)
(* check holds is a record of its base, in the same cell, with the same    *)
(* history and at most one entry after it (linkcheck.py:17-20), and every  *)
(* record of the base is there.                                            *)
HistoryKept ==
  \A r \in Checks : Finished(r) =>
    LET b == tree[r].manifest.base
        bare(rec) == [rec EXCEPT !.history = <<>>]
        continues(rec, old) ==
          /\ bare(rec) = bare(old)
          /\ \/ rec.history = old.history
             \/ /\ Len(rec.history) = Len(old.history) + 1
                /\ \A i \in DOMAIN old.history : rec.history[i] = old.history[i]
                /\ rec.history[Len(rec.history)].at = tree[r].manifest.stamp
    IN \A c \in Cells :
         LET new == tree[r].cells[c].records
             old == tree[b].cells[c].records
         IN /\ Cardinality(new) = Cardinality(old)
            /\ \A x \in old : \E y \in new : continues(y, x)

(* What a run publishes its own validator accepts: the pointer names it,   *)
(* no process is at work, no temp file is left and every cell has its      *)
(* ledger and log.  Of a link check it is asked that its base is finished, *)
(* and that no check its base stems from was made in the same second.      *)
PublishedValid ==
  \A r \in Runs :
    /\ latest = r /\ Quiet /\ debris = {} /\ shared = Cells
    /\ \/ tree[r].manifest.mode = "smoke" /\ \A c \in Cells : tree[r].manifest.rows[c].status # "not_run"
       \/ /\ tree[r].manifest.mode = "linkcheck"
          /\ Finished(tree[r].manifest.base)
          /\ tree[r].manifest.stamp \notin Stamps(tree[r].manifest.base)
    => ValidateRun(Root, r) = {}

(* The validator sees damage: what it accepts is whole, was published last *)
(* and, for a link check, has looked at the pages of a finished run.       *)
AcceptedWhole ==
  \A r \in Runs : HasDirectory(Root, r) /\ ValidateRun(Root, r) = {} =>
    /\ latest = r /\ Finished(r)
    /\ DOMAIN tree[r].cells = Cells
    /\ \A s \in Topics : tree[r].topics[s] = TopicDoc(s, tree[r].cells)
    /\ tree[r].manifest.mode = "linkcheck" =>
         /\ Finished(tree[r].manifest.base)
         /\ \E c \in Cells : StampedAt(tree[r].cells[c], tree[r].manifest.stamp) # {}
=============================================================================
