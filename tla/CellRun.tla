------------------------------- MODULE CellRun -------------------------------
(***************************************************************************)
(* The harvesting half of a run: run() of src/src/harvest/run_cells.py     *)
(* from its first cell to the documents it is about to write (RunPublish   *)
(* goes on from there).  One process: a cell asks its sources, judges the  *)
(* candidates they deliver, fetches the pages of those it accepts, and is  *)
(* closed; when every selected cell has run the records are routed to the  *)
(* cells they belong to.                                                   *)
(*                                                                         *)
(* A step is one source, the judgement of a cell, one target, or the       *)
(* routing.  What the network answers is chosen from the constants         *)
(* Deliveries and Answers; the time scopes of RequestBudget may end at     *)
(* any request, and the run's own at any cell boundary.                    *)
(***************************************************************************)
EXTENDS Coverage, Aliases

CONSTANTS SourcesOf,            \* SourcesOf[c]: the sources of a cell, as configured
          MaxCandidates,        \* MaxCandidates[s]: the cap of a source
          Deliveries,           \* Deliveries[s]: the bodies s may deliver
          Reasons,              \* the reasons for which a source may fail ...
          InfrastructureReasons, \* ... and those that are the network's fault
          Answers,              \* Answers[k]: what the client may answer for k
          KeyOrder,             \* the order of the candidate keys
          CellMaxRequests, MaxTargetFetches,
          Regimes               \* [mode, cells, caps, enrich]: what run() is called with

NoCap  == 1000                  \* more than any cell delivers
NoCaps == [candidates |-> NoCap, accepted |-> NoCap]
Budget == "budget_exhausted"

ASSUME KeyOrderAssumption ==
         /\ KeyOrder \in [Urls -> Nat]
         /\ \A k, l \in Urls : KeyOrder[k] = KeyOrder[l] => k = l
ASSUME AnswersAssumption ==
         \A k \in Urls : \A a \in Answers[k] :
           /\ a.tags \in Seq(Urls \cup {NoUrl})
           /\ a.final \in Urls \cup {NoUrl} /\ a.permanent \in BOOLEAN
(* A source is configured once (check_config.py:125, preflight.py:79-95),  *)
(* and delivers items.                                                     *)
ASSUME SourcesAssumption ==
         /\ \A c \in Cells :
              /\ SourcesOf[c] \in Seq(Sources)
              /\ \A i, j \in DOMAIN SourcesOf[c] : SourcesOf[c][i] = SourcesOf[c][j] => i = j
         /\ \A s \in Sources : /\ MaxCandidates[s] \in Nat
                               /\ \A body \in Deliveries[s] : body \in Seq(Items)
ASSUME BudgetAssumption == Budget \in InfrastructureReasons
ASSUME RegimesAssumption ==
         /\ \A r \in Regimes :
              /\ r.cells \subseteq Cells /\ r.enrich \in BOOLEAN
              /\ r.caps \in [candidates : Nat, accepted : Nat]
              /\ r.caps.accepted <= r.caps.candidates
         /\ CellMaxRequests \in Nat /\ MaxTargetFetches \in Nat

VARIABLES
  regime,      \* what this run was asked to do
  phase,       \* "next" | "discover" | "fetch" | "done" | "raised"
  cell,        \* the cell under way, 0 between cells
  results,     \* what its sources answered, in the order they were asked
  left,        \* the requests left in its budget scope
  todo,        \* its accepted keys whose pages are still to be looked at
  stopped,     \* _fetch_targets' exhausted
  fetchedHere, \* _fetch_targets' fetched_here
  runs,        \* the CellRun of every cell judged so far
  outcomes,    \* target_outcomes: one per identity that has an owner
  requests,    \* how often each identity was requested (history)
  made         \* what the routing made: artifacts, records, rows, eligible

vars == <<regime, phase, cell, results, left, todo, stopped, fetchedHere, runs,
          outcomes, requests, made>>

Nothing == [artifacts |-> <<>>, records |-> {}, conflicts |-> {}, rows |-> <<>>,
            coverage |-> <<>>, eligible |-> FALSE]

Init == /\ regime \in Regimes
        /\ phase = "next" /\ cell = 0 /\ results = <<>> /\ left = 0
        /\ todo = {} /\ stopped = FALSE /\ fetchedHere = 0
        /\ runs = <<>> /\ outcomes = <<>>
        /\ requests = [k \in Urls |-> 0] /\ made = Nothing

With(f, x, v) == [y \in DOMAIN f \cup {x} |-> IF y = x THEN v ELSE f[y]]

(* The n first of a set of keys.                                           *)
Prefix(keys, n) == {k \in keys : Cardinality({l \in keys : KeyOrder[l] < KeyOrder[k]}) < n}

-----------------------------------------------------------------------------
(* One source.  _discover turns whatever goes wrong into a result.         *)

Bucket(reason) == IF reason \in InfrastructureReasons THEN "infrastructure_error"
                  ELSE "adapter_error"

Delivered(s, body) ==
  IF body = <<>>
  THEN [source |-> s, result |-> "zero_result", reason |-> "no_items_in_window", items |-> <<>>]
  ELSE [source |-> s, result |-> "ok", reason |-> "none", items |-> Capped(body, MaxCandidates[s])]

Failed(s, reason) ==
  [source |-> s, result |-> Bucket(reason), reason |-> reason, items |-> <<>>]

StartCell ==
  /\ phase = "next" /\ regime.cells # DOMAIN runs
  /\ cell' = Min(regime.cells \ DOMAIN runs)
  /\ phase' = "discover" /\ left' = CellMaxRequests /\ results' = <<>>
  /\ UNCHANGED <<regime, todo, stopped, fetchedHere, runs, outcomes, requests, made>>

NextSource == SourcesOf[cell][Len(results) + 1]

Discover ==
  /\ phase = "discover" /\ Len(results) < Len(SourcesOf[cell])
  /\ \/ /\ left > 0 /\ left' \in 0..(left - 1)   \* redirects, retries, robots
        /\ \/ \E body \in Deliveries[NextSource] :
                results' = Append(results, Delivered(NextSource, body))
           \/ \E why \in Reasons : results' = Append(results, Failed(NextSource, why))
     \/ /\ left' \in 0..left                   \* any scope, by count or by time
        /\ results' = Append(results, Failed(NextSource, Budget))
  /\ UNCHANGED <<regime, phase, cell, todo, stopped, fetchedHere, runs, outcomes,
                 requests, made>>

-----------------------------------------------------------------------------
(* The judgement of a cell: group, count, cap, classify, verify, cap.      *)

(* The keys up to the cap-th accepted one, or all of them.                 *)
AcceptedPrefix(keys, accepted, cap) ==
  {k \in keys : Cardinality({l \in accepted : KeyOrder[l] < KeyOrder[k]}) < cap}

(* One candidate's: its cell, its verdict and what its facets come to.     *)
CaseOf(candidate, contexts) ==
  LET class == Classify(candidate, contexts)
  IN [key       |-> candidate.key,
      candidate |-> candidate,
      class     |-> class,
      verdict   |-> Decide(candidate, class.cell),
      facets    |-> Facets(candidate, class.cell)]

Judged(c, rs, caps) ==
  LET sightings == Observations(rs)
      found == Prefix(Keys(sightings), caps.candidates)
      cases == {CaseOf(Normalize(k, Group(sightings, k)), <<c>>) : k \in found}
      kept == AcceptedPrefix(found, {j.key : j \in {i \in cases : i.verdict = Accept}},
                             caps.accepted)
  IN [sightings |-> SightingCounts(sightings),
      failures  |-> {rs[i].result : i \in DOMAIN rs} \ {"ok", "zero_result"},
      cases     |-> {j \in cases : j.key \in kept},
      resolved  |-> <<>>]                      \* the adjudications, as they are made

Case(c, k)  == CHOOSE j \in runs[c].cases : j.key = k
Home(c, k)  == Case(c, k).class.cell
Kept(c)     == {j.key : j \in runs[c].cases}
AcceptedOf(run) == {j.key : j \in {i \in run.cases : i.verdict = Accept}}
Accepted(c) == AcceptedOf(runs[c])
Rejected(c) == Kept(c) \ Accepted(c)

Judge ==
  /\ phase = "discover" /\ Len(results) = Len(SourcesOf[cell])
  /\ phase' = "fetch" /\ stopped' = FALSE /\ fetchedHere' = 0
  /\ \E run \in {Judged(cell, results, regime.caps)} :
       /\ runs' = With(runs, cell, run)
       /\ todo' = IF regime.enrich THEN AcceptedOf(run) ELSE {}
  /\ UNCHANGED <<regime, cell, results, left, outcomes, requests, made>>

-----------------------------------------------------------------------------
(* The target pages of the accepted, in the order of their keys: fetched   *)
(* once per identity and run, however many cells accept it.                *)

Pending(k) == phase = "fetch" /\ k \in todo /\ \A l \in todo : KeyOrder[k] <= KeyOrder[l]
TargetOf(k) == Case(cell, k).candidate.target

(* The outcome of k reaches its owner here, and is adjudicated for it: no  *)
(* robots verdict is asked for.                                            *)
Conclude(k, outcome) ==
  /\ outcomes' = With(outcomes, k, outcome)
  /\ runs' = [runs EXCEPT ![cell].resolved =
                            With(@, k, Adjudicate(k, k, outcome, FALSE))]
  /\ todo' = todo \ {k}
  /\ UNCHANGED <<regime, phase, cell, results, made>>

(* Mutant: the ownership gate lets every owner fetch.                      *)
UnownedAlways(k) == TRUE

Unowned(k) == k \notin DOMAIN outcomes
(* Mutant: the cap of a cell's fetches is not looked at.                   *)
MayFetchUncapped == ~stopped
MayFetch   == ~stopped /\ fetchedHere < MaxTargetFetches

FetchTarget ==
  \E k \in Urls :
    /\ Pending(k) /\ Unowned(k) /\ MayFetch
    /\ \/ \E answer \in Answers[k] :
            /\ left > 0 /\ left' \in 0..(left - 1)
            /\ Conclude(k, Outcome(TargetOf(k), answer))
       \/ left' \in 0..left /\ Conclude(k, Unfetched(TargetOf(k)))
    /\ requests' = [requests EXCEPT ![k] = @ + 1]
    /\ fetchedHere' = fetchedHere + 1
    /\ stopped' = (outcomes'[k].access = NotChecked)

SkipTarget ==
  \E k \in Urls :
    /\ Pending(k) /\ Unowned(k) /\ ~MayFetch
    /\ Conclude(k, Unfetched(TargetOf(k)))
    /\ UNCHANGED <<left, stopped, fetchedHere, requests>>

ReuseOutcome ==
  \E k \in Urls :
    /\ Pending(k) /\ ~Unowned(k)
    /\ Conclude(k, outcomes[k])
    /\ UNCHANGED <<left, stopped, fetchedHere, requests>>

CloseCell ==
  /\ phase = "fetch" /\ todo = {}
  /\ phase' = "next" /\ cell' = 0 /\ results' = <<>> /\ left' = 0
  /\ stopped' = FALSE /\ fetchedHere' = 0
  /\ UNCHANGED <<regime, todo, runs, outcomes, requests, made>>

(* The clock of a bounded run is read at the cell boundaries only.         *)
OutOfTime ==
  /\ phase = "next" /\ regime.caps # NoCaps
  /\ phase' = "raised"
  /\ UNCHANGED <<regime, cell, results, left, todo, stopped, fetchedHere, runs,
                 outcomes, requests, made>>

-----------------------------------------------------------------------------
(* Routing: a record to the cell the classification names, a pointer to    *)
(* every other topic's cell that claims the candidate.                     *)

FullRecord(c, k) ==
  LET home == Home(c, k)
      fetched == k \in DOMAIN runs[c].resolved
  IN [type |-> "full", topic |-> TopicOf[home], key |-> k, cell |-> home,
      owner     |-> TopicOf[home],
      access    |-> IF fetched THEN outcomes[k].access ELSE NotChecked,
      canonical |-> IF fetched THEN runs[c].resolved[k].canonical ELSE k,
      aliases   |-> IF fetched THEN runs[c].resolved[k].aliases ELSE {},
      facets    |-> Case(c, k).facets]

Pointers(c, k) ==
  LET home == Home(c, k)
  IN {[type |-> "cross_reference", topic |-> TopicOf[p], key |-> k, cell |-> p,
       owner |-> TopicOf[home], access |-> NotChecked, canonical |-> k,
       aliases |-> {}, facets |-> NoFacets] :
        p \in {q \in Case(c, k).class.competing : TopicOf[q] # TopicOf[home]}}

AllRecords == UNION {UNION {{FullRecord(c, k)} \cup Pointers(c, k) : k \in Accepted(c)} :
                       c \in DOMAIN runs}

(* Mutant: the pointer before the record.                                  *)
NotAfterReversed(r, q) == \/ r.cell < q.cell
                          \/ r.cell = q.cell /\ (q.type = "full" \/ r.type # "full")

(* One record per topic and identity: the first cell, and in one cell the  *)
(* record before the pointer (its bytes come first).                       *)
NotAfter(r, q) == \/ r.cell < q.cell
                  \/ r.cell = q.cell /\ (r.type = "full" \/ q.type # "full")

Deduped(records) ==
  {CHOOSE r \in records : /\ <<r.topic, r.key>> = id
                          /\ \A q \in records : <<q.topic, q.key>> = id => NotAfter(r, q) :
     id \in {<<r.topic, r.key>> : r \in records}}

(* The reason a cell without a record reports: the most frequent one.      *)
ReasonFor(rejection) ==
  CASE rejection \in {"off_topic", "below_relevance_threshold"} -> "all_below_relevance_threshold"
    [] rejection \in {"below_quality_threshold", "insufficient_evidence"} -> "all_rejected_quality"
    [] OTHER -> "category_exclusion_applied"

ReasonPrecedence == <<"all_below_relevance_threshold", "all_rejected_quality",
                      "category_exclusion_applied">>

Votes(c, i) == Cardinality({k \in Rejected(c) : ReasonFor(Case(c, k).verdict) = ReasonPrecedence[i]})

MostFrequent(c) == {i \in 1..3 : \A j \in 1..3 : Votes(c, j) <= Votes(c, i)}

ZeroReason(c) == IF Rejected(c) = {} THEN "no_items_in_window"
                 ELSE ReasonPrecedence[Min(MostFrequent(c))]

(* Mutant: the failures of the sources are not looked at.                  *)
CellRowBlind(c, artifact) ==
  LET row(status, why) == [status |-> status, reason |-> why]
  IN IF Accepted(c) # {} \/ artifact # {} THEN row("ok", "none")
     ELSE row("zero_result", ZeroReason(c))

CellRow(c, artifact) ==
  LET row(status, why) == [status |-> status, reason |-> why]
  IN IF Accepted(c) # {} \/ artifact # {} THEN row("ok", "none")
     ELSE IF Kept(c) # {} THEN row("zero_result", ZeroReason(c))
     ELSE IF "infrastructure_error" \in runs[c].failures THEN row("infrastructure_error", "none")
     ELSE IF runs[c].failures # {} THEN row("adapter_error", "none")
     ELSE row("zero_result", "no_items_in_window")

ErrorStatuses == {"adapter_error", "infrastructure_error"}

(* Mutant: one owner is enough.                                            *)
EligibleOwned(rows, records) ==
  /\ regime.mode = "harvest" /\ DOMAIN outcomes # {}
  /\ \A c \in DOMAIN rows : rows[c].status \notin ErrorStatuses

(* Only a harvest that fetched, in which no cell failed and every record   *)
(* was looked at, may be published.                                        *)
Eligible(rows, records) ==
  /\ regime.mode = "harvest" /\ DOMAIN outcomes # {}
  /\ \A c \in DOMAIN rows : rows[c].status \notin ErrorStatuses
  /\ \A r \in records : r.type = "full" => r.access # NotChecked

AllRun   == phase = "next" /\ DOMAIN runs = regime.cells

(* A record or pointer for a cell that did not run, or that a rule names   *)
(* and no topic configures: either way the run is refused.                 *)
Homeless == {r \in AllRecords : r.cell \notin regime.cells}

Refuse ==
  /\ AllRun /\ Homeless # {}
  /\ phase' = "raised"
  /\ UNCHANGED <<regime, cell, results, left, todo, stopped, fetchedHere, runs,
                 outcomes, requests, made>>

Made(all) ==
  LET artifacts == [c \in regime.cells |-> Deduped({r \in all : r.cell = c})]
      records == Deduped(all)
      rows == [c \in regime.cells |-> CellRow(c, artifacts[c])]
  IN [artifacts |-> artifacts, records |-> records, rows |-> rows,
      conflicts |-> UNION {UNION {runs[c].resolved[k].conflicts :
                                    k \in DOMAIN runs[c].resolved} : c \in DOMAIN runs},
      coverage |-> CoverageReport(records),
      eligible |-> Eligible(rows, records)]

Route ==
  /\ AllRun /\ Homeless = {}
  /\ phase' = "done"
  /\ \E all \in {AllRecords} : made' \in {Made(all)}
  /\ UNCHANGED <<regime, cell, results, left, todo, stopped, fetchedHere, runs,
                 outcomes, requests>>

(* The program has ended, or handed over to RunPublish.                    *)
Ended == phase \in {"done", "raised"} /\ UNCHANGED vars

Next == StartCell \/ Discover \/ Judge \/ FetchTarget \/ SkipTarget \/ ReuseOutcome
          \/ CloseCell \/ OutOfTime \/ Refuse \/ Route \/ Ended

Spec == Init /\ [][Next]_vars

-----------------------------------------------------------------------------
(* Properties.                                                             *)

(* Type invariant, and where the run is: between cells nothing is pending, *)
(* only a run that was routed has made anything, and the caps cut what is  *)
(* judged, first candidates first.                                         *)
CellInv ==
  /\ regime \in Regimes
  /\ phase \in {"next", "discover", "fetch", "done", "raised"}
  /\ cell \in Cells \cup {0} /\ (cell = 0 <=> phase \notin {"discover", "fetch"})
  /\ left \in 0..CellMaxRequests /\ fetchedHere \in 0..MaxTargetFetches
  /\ stopped \in BOOLEAN /\ todo \subseteq Urls
  /\ DOMAIN runs \subseteq regime.cells
  /\ phase = "fetch" => todo \subseteq Accepted(cell)
  /\ DOMAIN outcomes \subseteq Urls /\ \A k \in DOMAIN outcomes : outcomes[k] \in Outcomes
  /\ requests \in [Urls -> Nat]
  /\ made # Nothing => phase = "done"
  /\ \A c \in DOMAIN runs :
       /\ Cardinality(Kept(c)) <= regime.caps.candidates
       /\ Cardinality(Accepted(c)) <= regime.caps.accepted
       /\ Cardinality(Kept(c)) < Least(runs[c].sightings.unique, regime.caps.candidates)
            => Cardinality(Accepted(c)) = regime.caps.accepted

(* pool.acquire_target_fetch: an identity is requested at most once in a   *)
(* run, in whichever cells and topics it is accepted, and never unless     *)
(* some cell accepted it (run_cells.py:700-761); and every record of it    *)
(* carries the one evidence, not_checked unless its page was asked for.    *)
OneRequest ==
  /\ \A k \in Urls : /\ requests[k] <= 1
                     /\ requests[k] = 1 => \E c \in DOMAIN runs : k \in Accepted(c)
  /\ phase = "done" =>
       \A c, d \in DOMAIN made.artifacts :
         \A r \in made.artifacts[c], q \in made.artifacts[d] :
           r.type = "full" /\ q.type = "full" /\ r.key = q.key =>
             /\ <<r.access, r.canonical, r.aliases>> = <<q.access, q.canonical, q.aliases>>
             /\ r.access # NotChecked => requests[r.key] = 1

(* What a cell accepted is in the artifact of the cell it was classified   *)
(* into, as a record and not as a pointer; every record there was accepted *)
(* by some cell; and every pointer leads to a record: the topic it names   *)
(* as the owner holds the identity in full (run_cells.py:1069-1134,        *)
(* 1318-1362).                                                             *)
NothingLost ==
  phase = "done" =>
    /\ \A c \in DOMAIN runs : \A k \in Accepted(c) :
         \E r \in made.artifacts[Home(c, k)] : r.type = "full" /\ r.key = k
    /\ \A c \in DOMAIN made.artifacts : \A r \in made.artifacts[c] :
         \/ /\ r.type = "full"
            /\ \E d \in DOMAIN runs : r.key \in Accepted(d) /\ Home(d, r.key) = c
         \/ /\ r.type = "cross_reference" /\ r.owner # r.topic
            /\ \E d \in DOMAIN made.artifacts : \E q \in made.artifacts[d] :
                 q.type = "full" /\ q.topic = r.owner /\ q.key = r.key

(* A preferred URL that differs from the identity was earned: by a chain   *)
(* of redirects all of which were permanent, or by a tag that a migration  *)
(* rule trusts; a tag of the same domain never moves it, because the run   *)
(* asks for no robots verdict (run_cells.py:752-760).                      *)
CanonicalEarned ==
  phase = "done" =>
    \A r \in made.records :
      /\ r.canonical # r.key =>
           \/ outcomes[r.key].permanent /\ r.canonical = outcomes[r.key].final
           \/ /\ r.canonical \in {outcomes[r.key].tags[i] : i \in DOMAIN outcomes[r.key].tags}
              /\ \E from \in {r.key, outcomes[r.key].final} :
                   <<Host[from], Host[r.canonical]>> \in Migrations
      /\ \A a \in r.aliases : a.kind # "canonical_tag"

(* A cell reports a zero result only when something was judged and all of  *)
(* it refused, or when every source of it answered; an error only when it  *)
(* judged nothing and holds nothing (run_cells.py:938-965).                *)
ZeroIsHonest ==
  phase = "done" =>
    \A c \in DOMAIN made.rows :
      /\ made.rows[c].status = "zero_result" =>
           /\ Accepted(c) = {} /\ made.artifacts[c] = {}
           /\ Rejected(c) # {} \/ runs[c].failures = {}
      /\ made.rows[c].status \in ErrorStatuses =>
           Kept(c) = {} /\ made.artifacts[c] = {} /\ runs[c].failures # {}

(* A run that may be published looked at the page of everything any cell   *)
(* accepted, although eligibility is derived from the deduplicated records *)
(* of the topics only (artifacts.py:690-722): one of them in full stands   *)
(* for all of its identity.  An identity that pointers hide in every topic *)
(* is not asked about (TopicHoldsAccepted).                                *)
EligibleMeansChecked ==
  made.eligible =>
    LET held == {r.key : r \in {q \in made.records : q.type = "full"}}
    IN /\ \A c \in DOMAIN runs : \A k \in Accepted(c) \cap held :
            k \in DOMAIN outcomes /\ outcomes[k].access # NotChecked
       /\ \A c \in DOMAIN made.artifacts : \A r \in made.artifacts[c] :
            r.type = "full" /\ r.key \in held => r.access # NotChecked

(* What the row of a cell is to count: the identities its artifact holds   *)
(* as records, but not those an earlier cell of its topic holds, as a      *)
(* record or a pointer.                                                    *)
Counted(c) ==
  {r.key : r \in {q \in made.artifacts[c] :
                    /\ q.type = "full"
                    /\ \A d \in DOMAIN made.artifacts :
                         d < c /\ TopicOf[d] = TopicOf[c] =>
                           \A p \in made.artifacts[d] : p.key # q.key}}

(* The report has a row for exactly the cells that have something to       *)
(* count, and the row counts all of it once: pointers never, an identity   *)
(* of two cells of a topic in the first of them.  What is withheld is the  *)
(* rest of what is eligible, and of gated cells only; and facets release a *)
(* record of a gated cell only when one industry is the best supported of  *)
(* all in what may ground one, and a function or a use case is supported   *)
(* (facets.py:282-374, coverage.py:123-190).                               *)
CoverageHonest ==
  phase = "done" =>
    /\ DOMAIN made.coverage = {c \in DOMAIN made.artifacts : Counted(c) # {}}
    /\ \A c \in DOMAIN made.coverage :
         LET row == made.coverage[c]
         IN /\ row.applicable = Cardinality(Counted(c))
            /\ row.applicable = row.eligible + Cardinality(row.withheld)
            /\ row.withheld # {} => c \in GatedCells
    /\ \A r \in made.records :
         Gated(r) /\ PublicationEligible(r) =>
           \E d \in DOMAIN runs :
             /\ r.key \in Accepted(d) /\ Home(d, r.key) = r.cell
             /\ LET seen == Case(d, r.key).candidate
                IN /\ \E s \in Supported(seen, Industry) :
                        \A t \in Supported(seen, Industry) \ {s} :
                          Support(seen, Industry, t) < Support(seen, Industry, s)
                   /\ \E axis \in Multi : Supported(seen, axis) # {}

(* run_cells.py:1334 refuses "to drop an accepted record": what a cell     *)
(* accepted is in the topic artifact, as a record.                         *)
TopicHoldsAccepted ==
  phase = "done" =>
    \A c \in DOMAIN runs : \A k \in Accepted(c) :
      \E r \in made.records :
        r.type = "full" /\ r.topic = TopicOf[Home(c, k)] /\ r.key = k
=============================================================================
