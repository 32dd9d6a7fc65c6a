----------------------------- MODULE RunPublish -----------------------------
(***************************************************************************)
(* The writing half of a harvest run: run() of src/src/harvest/run_cells.py*)
(* from the moment its cells have been harvested, through write_atomic and *)
(* the write journal of artifacts.py, merge_ledger of ledger.py, and       *)
(* publish_run.                                                            *)
(*                                                                         *)
(* A run is one process; an attempt is one call of run() with its id, and  *)
(* attempts are numbered as they begin.  A document is known by the number *)
(* of the attempt that wrote it; of the ledgers the outcome and seen_count *)
(* of every URL are kept.  A step is one system call, so that an exception *)
(* or an interrupt may come between any two, and a kill too.               *)
(*                                                                         *)
(* Cells and topics are numbered in the order in which run() writes them.  *)
(* Two constants describe the environment:                                 *)
(*   Overlap       whether several processes work on one root at a time    *)
(*   StuckTemps    whether the unlink of a temp file may fail              *)
(***************************************************************************)
EXTENDS Naturals, Sequences, FiniteSets

CONSTANTS Runs, Urls, None,
          NCells, NTopics, TopicOf,   \* TopicOf[c]: the topic of cell c
          MaxAttempts,                \* bound on the calls of run()
          Overlap, StuckTemps

Cells  == 1..NCells
Topics == 1..NTopics

ASSUME NoneAssumption ==
         /\ None \notin Runs
         /\ None \notin {"accepted", "rejected"}
         /\ None \notin [by : Nat, cells : SUBSET Cells, saw : SUBSET (Cells \X Urls)]
ASSUME CellsAssumption ==
         /\ NCells \in Nat /\ NTopics \in Nat /\ MaxAttempts \in Nat
         /\ TopicOf \in [Cells -> Topics]
ASSUME RegimeAssumption == Overlap \in BOOLEAN /\ StuckTemps \in BOOLEAN

-----------------------------------------------------------------------------
(* The documents, in the order in which a run writes them.                 *)

Kinds == {"cell", "topic", "rejections", "ledger", "coverage", "aliases"}
Docs  == [kind : Kinds, of : Nat]
Doc(k, n) == [kind |-> k, of |-> n]

(* Mutant: the ledger before the log that explains it.                     *)
CellLogsSwapped ==
  [i \in 1..(2 * NCells) |->
     Doc(IF i % 2 = 0 THEN "rejections" ELSE "ledger", (i + 1) \div 2)]

CellLogs == [i \in 1..(2 * NCells) |->
               Doc(IF i % 2 = 1 THEN "rejections" ELSE "ledger", (i + 1) \div 2)]

Body == [c \in Cells |-> Doc("cell", c)] \o [t \in Topics |-> Doc("topic", t)]
          \o CellLogs \o <<Doc("coverage", 0), Doc("aliases", 0)>>

ManifestAt == Len(Body) + 1
PointerAt  == Len(Body) + 2
Places     == 1..PointerAt

(* Those a run writes when it has run the cells cs.                        *)
Wanted(d, cs) ==
  /\ d.kind \in {"cell", "rejections", "ledger"} => d.of \in cs
  /\ d.kind = "topic" => \E c \in cs : TopicOf[c] = d.of

(* Those kept below runs/<run_id>; ledgers and rejection logs belong to    *)
(* their cell and outlive the run.                                         *)
Archived(d) == d.kind \in {"cell", "topic", "coverage", "aliases"}

BodyDocs   == {Body[i] : i \in 1..Len(Body)}
Numbers    == 0..MaxAttempts
Sightings  == SUBSET (Cells \X Urls)
Manifests  == [by : Numbers, cells : SUBSET Cells, saw : Sightings]
Outcomes   == {"accepted", "rejected"}
Entries    == [outcome : Outcomes \cup {None}, seen : Nat]
Ledgers    == [Urls -> Entries]
Absent     == [outcome |-> None, seen |-> 0]
Unseen     == [u \in Urls |-> Absent]

-----------------------------------------------------------------------------
VARIABLES
  manifest,   \* manifest[r]: None, or the attempt, the cells it has run and
              \* the <<cell, URL>> pairs it extracted
  latest,     \* the run LATEST_RUN_ID names, or None
  file,       \* file[r][d]: the attempt that wrote document d of r, 0 if none
  ledger,     \* ledger[c][u]: outcome and seen_count, Absent when unseen
  logged,     \* logged[c]: the attempt that wrote the cell's rejection log
  merged,     \* merged[c]: the attempt that last wrote the cell's ledger
  temps,      \* the temp files that exist, by the number of the attempt: the
              \* first write that fails ends it, so it has one at a time
  pc,         \* pc[r]: "idle" between attempts, else the next system call
  number,     \* number[r]: the number of r's latest attempt, 0 before it
  chosen,     \* chosen[r]: the cells this attempt has run
  at,         \* at[r]: the place of the document being written
  doc,        \* doc[r]: the ledger to be written, merged in memory
  noted,      \* noted[r]: the journal's outstanding temp files
  saw,        \* saw[r]: the <<cell, URL>> pairs merged so far
  count,      \* how many attempts were begun
  excused     \* attempts that were killed, or met a temp file that stuck (history)

root    == <<manifest, latest, file, ledger, logged, merged>>
driver  == <<number, chosen, at, doc, saw, count>>
vars    == <<root, temps, pc, noted, driver, excused>>

Active == {"prepare", "open", "replace", "done", "unlink", "sweep"}

TypeOK ==
  /\ manifest \in [Runs -> Manifests \cup {None}]
  /\ latest   \in Runs \cup {None}
  /\ file     \in [Runs -> [BodyDocs -> Numbers]]
  /\ ledger   \in [Cells -> Ledgers]
  /\ logged   \in [Cells -> Numbers]
  /\ merged   \in [Cells -> Numbers]
  /\ temps    \subseteq Numbers
  /\ pc       \in [Runs -> Active \cup {"idle"}]
  /\ number   \in [Runs -> Numbers]
  /\ chosen   \in [Runs -> SUBSET Cells]
  /\ at       \in [Runs -> Places]
  /\ doc      \in [Runs -> Ledgers]
  /\ noted    \in [Runs -> SUBSET Numbers]
  /\ saw      \in [Runs -> Sightings]
  /\ count    \in Numbers
  /\ excused  \subseteq Numbers

Init ==
  /\ manifest = [r \in Runs |-> None]
  /\ latest = None
  /\ file = [r \in Runs |-> [d \in BodyDocs |-> 0]]
  /\ ledger = [c \in Cells |-> Unseen]
  /\ logged = [c \in Cells |-> 0]
  /\ merged = [c \in Cells |-> 0]
  /\ temps = {}
  /\ pc = [r \in Runs |-> "idle"]
  /\ number = [r \in Runs |-> 0]
  /\ chosen = [r \in Runs |-> {}]
  /\ at = [r \in Runs |-> 1]
  /\ doc = [r \in Runs |-> Unseen]
  /\ noted = [r \in Runs |-> {}]
  /\ saw = [r \in Runs |-> {}]
  /\ count = 0
  /\ excused = {}

Goto(r, step) == pc' = [pc EXCEPT ![r] = step]
Here(r)       == Body[at[r]]

(* What the process forgets when the attempt ends.                         *)
Leave(r) ==
  /\ Goto(r, "idle")
  /\ at'     = [at EXCEPT ![r] = 1]
  /\ chosen' = [chosen EXCEPT ![r] = {}]
  /\ doc'    = [doc EXCEPT ![r] = Unseen]
  /\ saw'    = [saw EXCEPT ![r] = {}]
  /\ UNCHANGED <<number, count>>

-----------------------------------------------------------------------------
(* Mutant: a finished run may be run again.                                *)
StartFinished(r) ==
  /\ pc[r] = "idle"
  /\ Overlap \/ \A q \in Runs : pc[q] = "idle"
  /\ count < MaxAttempts
  /\ count' = count + 1
  /\ number' = [number EXCEPT ![r] = count + 1]
  /\ \E cs \in (SUBSET Cells) \ {{}} : chosen' = [chosen EXCEPT ![r] = cs]
  /\ noted' = [noted EXCEPT ![r] = {}]
  /\ Goto(r, "prepare")
  /\ UNCHANGED <<root, temps, at, doc, saw, excused>>

(* run() up to its first write: a finished run is refused before anything  *)
(* changes, and so is one whose time is up or whose routing fails.         *)

Start(r) ==
  /\ pc[r] = "idle"
  /\ manifest[r] = None
  /\ Overlap \/ \A q \in Runs : pc[q] = "idle"
  /\ count < MaxAttempts
  /\ count' = count + 1
  /\ number' = [number EXCEPT ![r] = count + 1]
  /\ \E cs \in (SUBSET Cells) \ {{}} : chosen' = [chosen EXCEPT ![r] = cs]
  /\ noted' = [noted EXCEPT ![r] = {}]
  /\ Goto(r, "prepare")
  /\ UNCHANGED <<root, temps, at, doc, saw, excused>>

-----------------------------------------------------------------------------
(* One document: build and validate it, note and write a temp file, rename *)
(* it, forget it.                                                          *)

(* A cell or topic this attempt has not run.                               *)
Skip(r) ==
  /\ pc[r] = "prepare"
  /\ at[r] < ManifestAt /\ ~Wanted(Here(r), chosen[r])
  /\ at' = [at EXCEPT ![r] = @ + 1]
  /\ UNCHANGED <<root, temps, pc, noted, number, chosen, doc, saw, count, excused>>

(* Mutant: the latest verdict wins.                                        *)
ContradictsNever(old, obs) == FALSE

(* merge_ledger: an outcome once recorded is final, and a sighting that    *)
(* contradicts it is refused; obs[u] is None for a URL not extracted.      *)
Contradicts(old, obs) ==
  \E u \in Urls : old[u].outcome # None /\ obs[u] # None /\ obs[u] # old[u].outcome

(* Mutant: load_ledger takes what it cannot use for an empty ledger.       *)
MergeLedgerAfresh(old, obs) ==
  [u \in Urls |-> IF obs[u] = None THEN Absent
                  ELSE [outcome |-> obs[u], seen |-> 1]]

MergeLedger(old, obs) ==
  [u \in Urls |-> IF obs[u] = None THEN old[u]
                  ELSE [outcome |-> obs[u], seen |-> old[u].seen + 1]]

Merge(r) ==
  /\ pc[r] = "prepare" /\ at[r] < ManifestAt
  /\ Wanted(Here(r), chosen[r]) /\ Here(r).kind = "ledger"
  /\ \E obs \in [Urls -> Outcomes \cup {None}], c \in Cells :
       /\ c = Here(r).of
       /\ IF Contradicts(ledger[c], obs)
            THEN /\ Goto(r, "sweep")
                 /\ UNCHANGED <<doc, saw, noted>>
            ELSE /\ doc' = [doc EXCEPT ![r] = MergeLedger(ledger[c], obs)]
                 /\ saw' = [saw EXCEPT ![r] = @ \cup {<<c, u>> : u \in {v \in Urls : obs[v] # None}}]
                 /\ noted' = [noted EXCEPT ![r] = @ \cup {number[r]}]
                 /\ Goto(r, "open")
  /\ UNCHANGED <<root, temps, number, chosen, at, count, excused>>

(* Any other document.  publish_run looks for a manifest once more.        *)
Note(r) ==
  /\ pc[r] = "prepare"
  /\ at[r] < ManifestAt => Wanted(Here(r), chosen[r]) /\ Here(r).kind # "ledger"
  /\ IF at[r] = ManifestAt /\ manifest[r] # None
       THEN Goto(r, "sweep") /\ UNCHANGED noted
       ELSE /\ noted' = [noted EXCEPT ![r] = @ \cup {number[r]}]
            /\ Goto(r, "open")
  /\ UNCHANGED <<root, temps, driver, excused>>

Open(r) ==
  /\ pc[r] = "open"
  /\ temps' = temps \cup {number[r]}
  /\ Goto(r, "replace")
  /\ UNCHANGED <<root, noted, driver, excused>>

(* What os.replace puts in the place of the document at[r].                *)
PutFile(r) ==
  /\ at[r] < ManifestAt /\ Archived(Here(r))
  /\ file' = [file EXCEPT ![r] = [@ EXCEPT ![Here(r)] = number[r]]]
  /\ UNCHANGED <<manifest, latest, ledger, logged, merged>>

PutLog(r) ==
  /\ at[r] < ManifestAt /\ Here(r).kind = "rejections"
  /\ logged' = [logged EXCEPT ![Here(r).of] = number[r]]
  /\ UNCHANGED <<manifest, latest, file, ledger, merged>>

PutLedger(r) ==
  /\ at[r] < ManifestAt /\ Here(r).kind = "ledger"
  /\ ledger' = [ledger EXCEPT ![Here(r).of] = doc[r]]
  /\ merged' = [merged EXCEPT ![Here(r).of] = number[r]]
  /\ UNCHANGED <<manifest, latest, file, logged>>

PutManifest(r) ==
  /\ at[r] = ManifestAt
  /\ manifest' = [manifest EXCEPT ![r] = [by |-> number[r], cells |-> chosen[r], saw |-> saw[r]]]
  /\ UNCHANGED <<latest, file, ledger, logged, merged>>

PutPointer(r) ==
  /\ at[r] = PointerAt
  /\ latest' = r
  /\ UNCHANGED <<manifest, file, ledger, logged, merged>>

Replace(r) ==
  /\ pc[r] = "replace"
  /\ PutFile(r) \/ PutLog(r) \/ PutLedger(r) \/ PutManifest(r) \/ PutPointer(r)
  /\ temps' = temps \ {number[r]}
  /\ Goto(r, "done")
  /\ UNCHANGED <<noted, driver, excused>>

Forget(r) ==
  /\ pc[r] = "done"
  /\ noted' = [noted EXCEPT ![r] = @ \ {number[r]}]
  /\ IF at[r] = PointerAt THEN Goto(r, "sweep") /\ UNCHANGED at
                          ELSE Goto(r, "prepare") /\ at' = [at EXCEPT ![r] = @ + 1]
  /\ UNCHANGED <<root, temps, number, chosen, doc, saw, count, excused>>

-----------------------------------------------------------------------------
(* What goes wrong.                                                        *)

(* An invalid document, or an interrupt between two writes.                *)
Raise(r) ==
  /\ pc[r] \in {"prepare", "done"}
  /\ Goto(r, "sweep")
  /\ UNCHANGED <<root, temps, noted, driver, excused>>

(* Mutant: a write that fails is taken for done.                           *)
FailSwallowed(r) ==
  /\ pc[r] \in {"open", "replace"}
  /\ Goto(r, "done")
  /\ UNCHANGED <<root, temps, noted, driver, excused>>

(* makedirs, open, write, fsync or replace fails or is interrupted; what   *)
(* open has made by then is there to be removed.                           *)
Fail(r) ==
  /\ pc[r] \in {"open", "replace"}
  /\ \/ temps' = temps
     \/ pc[r] = "open" /\ temps' = temps \cup {number[r]}
  /\ Goto(r, "unlink")
  /\ UNCHANGED <<root, noted, driver, excused>>

Unlink(r) ==
  /\ pc[r] = "unlink"
  /\ \/ temps' = temps \ {number[r]}
     \/ StuckTemps /\ UNCHANGED temps
  /\ Goto(r, "sweep")
  /\ UNCHANGED <<root, noted, driver, excused>>

(* Mutant: the journal forgets a temp file when its write fails.           *)
SweepNothing(r) ==
  /\ pc[r] = "sweep"
  /\ Leave(r)
  /\ noted' = [noted EXCEPT ![r] = {}]
  /\ UNCHANGED <<root, temps, excused>>

(* WriteJournal.sweep removes what is still there, best effort.            *)
Sweep(r) ==
  /\ pc[r] = "sweep"
  /\ \E stuck \in SUBSET (noted[r] \cap temps) :
       /\ stuck # {} => StuckTemps
       /\ temps' = (temps \ noted[r]) \cup stuck
       /\ noted' = [noted EXCEPT ![r] = stuck]
       /\ excused' = IF stuck = {} THEN excused ELSE excused \cup {number[r]}
  /\ Leave(r)
  /\ UNCHANGED root

Kill(r) ==
  /\ pc[r] \in Active
  /\ noted' = [noted EXCEPT ![r] = {}]
  /\ excused' = excused \cup {number[r]}
  /\ Leave(r)
  /\ UNCHANGED <<root, temps>>

Write(r)  == Skip(r) \/ Merge(r) \/ Note(r) \/ Open(r) \/ Replace(r) \/ Forget(r)
GoBack(r) == Raise(r) \/ Fail(r) \/ Unlink(r) \/ Sweep(r) \/ Kill(r)

Next == \E r \in Runs : Start(r) \/ Write(r) \/ GoBack(r)

Spec == Init /\ [][Next]_vars
-----------------------------------------------------------------------------
(* What publishing promises.                                               *)

Finished(r) == manifest[r] # None

(* Attempts are told apart by their numbers.                               *)
Numbered ==
  /\ \A r \in Runs : number[r] <= count
  /\ \A r \in Runs : pc[r] \in Active => number[r] > 0
  /\ \A q, r \in Runs : q # r /\ number[q] = number[r] => number[q] = 0

(* An attempt has written every document before the place it is at, the    *)
(* manifest after all of them.                                             *)
Written(r, i) ==
  Archived(Body[i]) /\ Wanted(Body[i], chosen[r]) => file[r][Body[i]] = number[r]

Ordered(r) ==
  /\ pc[r] = "idle" => at[r] = 1
  /\ pc[r] \in Active => \A i \in 1..Len(Body) : i < at[r] => Written(r, i)
  /\ pc[r] = "done" /\ at[r] < ManifestAt => Written(r, at[r])
  /\ pc[r] \in {"prepare", "open", "replace"} => (Finished(r) <=> at[r] = PointerAt)
  /\ pc[r] = "done" => (Finished(r) <=> at[r] >= ManifestAt)

InOrder == \A r \in Runs : Ordered(r)

(* The temp file of a write is in the journal before it is on disk, and    *)
(* off the disk before it is out of the journal.                           *)
Journalled ==
  \A r \in Runs : /\ pc[r] \in {"open", "replace", "unlink"} => number[r] \in noted[r]
                  /\ pc[r] = "done" => number[r] \notin temps

(* A run is archived once its manifest is there and every document the     *)
(* manifest accounts for is of the same attempt.                           *)
Whole(r) ==
  \A i \in 1..Len(Body) :
    Archived(Body[i]) /\ Wanted(Body[i], manifest[r].cells)
      => file[r][Body[i]] = manifest[r].by

(* The inductive invariant, of whatever number of overlapping processes.   *)
PublishInv ==
  /\ TypeOK /\ Numbered /\ InOrder /\ Journalled
  /\ \A r \in Runs : Finished(r) => Whole(r)
  /\ latest # None => Finished(latest)

(* A temp file that outlives its attempt was left by a kill or could not   *)
(* be removed: every other one is swept ("its own debris can be swept",    *)
(* WriteJournal), and it is never another run's in-flight file.            *)
NoDebris ==
  \A t \in temps : t \in excused
                   \/ \E r \in Runs : pc[r] \in Active /\ t = number[r] /\ t \in noted[r]

(* Whatever a published run extracted is in the ledgers, counted at least  *)
(* once for each of the published runs that saw it: no failure, and no     *)
(* other run, loses a sighting (ledger.py, "LOSING A LEDGER IS EXPENSIVE").*)
PublishedRunsCounted ==
  \A c \in Cells, u \in Urls :
    ledger[c][u].seen >= Cardinality({r \in Runs : Finished(r) /\ <<c, u>> \in manifest[r].saw})

(* A ledger is never ahead of its cell's rejection log: the attempt that   *)
(* recorded a rejection has explained it, or a later one has replaced the  *)
(* explanation.                                                            *)
RejectionsExplained == \A c \in Cells : merged[c] <= logged[c]

Extends(new, old) ==
  \A u \in Urls : /\ new[u].seen >= old[u].seen
                  /\ old[u].outcome # None => new[u].outcome = old[u].outcome

(* A decided URL stays decided, and its count never falls (ledger.py, "A   *)
(* REJECTED URL STAYS REJECTED", "an outcome, once terminal, is final").   *)
OutcomesFinal == [][\A c \in Cells : Extends(ledger'[c], ledger[c])]_vars

(* What a reader finds below the root is RunArchive: a run is archived at  *)
(* once, never changes afterwards, and the pointer names archived runs     *)
(* only (publish_run; verify_latest_run_id's four impossible states).      *)
Archive == INSTANCE RunArchive WITH
  Snapshots <- Manifests,
  archive   <- [r \in Runs |-> IF Finished(r) /\ Whole(r) THEN manifest[r] ELSE None],
  latest    <- latest

ImplementsRunArchive == Archive!Spec
=============================================================================
