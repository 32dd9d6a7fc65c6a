------------------------------- MODULE Rounds -------------------------------
(***************************************************************************)
(* The adaptive rounds of scheduler.py over the gaps of coverage.py, and   *)
(* the lanes of a round at work on the pool.  The first round has the      *)
(* lanes of the configured cells; a later one has lanes for the gaps that  *)
(* rank highest, until a stop condition holds.                             *)
(*                                                                         *)
(* What the scheduler calls to run a round (round_fn) is given to it from  *)
(* outside: here the lanes of CandidatePool work until all of them rest,   *)
(* and the pages accepted are its records.                                 *)
(***************************************************************************)
EXTENDS CandidatePool, Integers

CONSTANTS Slugs,                    \* the values of the axes, in the order of axis and slug
          Policy, Target,           \* of a slug: its tier, and target_min
          Values,                   \* key of a page -> the slugs its record carries
          NeverGap,                 \* the slugs no lane is opened for
          GapLane,                  \* slug -> the lane for it
          Configured,               \* the lanes of the configured cells
          Stats, Weights,           \* lane_stats of a slug; gap_rank_weights
          MaxRounds, MaxLanes, NoProgressMin, DuplicateRateStop,
          DuplicateRates, BudgetLeft

ASSUME RoundsAssumption == /\ MaxRounds \in Nat \ {0} /\ MaxLanes \in Nat \ {0}
                           /\ NoProgressMin \in Int /\ BudgetLeft \subseteq Int
                           /\ Configured \subseteq Lanes

(* The registers of facets: each value of an axis has a tier, a number of  *)
(* records sought, a lane and the statistics of earlier runs.              *)
ASSUME SlugsAssumption == /\ Slugs \subseteq Nat /\ IsFiniteSet(Slugs)
                          /\ Target \in [Slugs -> Nat]
                          /\ Policy \in [Slugs -> {"priority", "standard", "record_only"}]
                          /\ GapLane \in [Slugs -> Lanes]
                          /\ Stats \in [Slugs -> [yield: Int, duplicates: Int, rejections: Int]]
                          /\ Weights \in [{"gap", "tier", "yield", "duplicates", "rejections",
                                           "credible", "budget"} -> Int]

(* Why a run stops, in the order of the code.                              *)
Reasons == <<"budget_exhausted", "duplicate_rate", "no_progress", "all_targets_met", "max_rounds">>

ASSUME ReasonsAssumption == None \notin ToSet(Reasons) \cup {"no_credible_source"}

VARIABLES round, phase,    \* "plan", "work", "stop"
          left,            \* remaining_budget_frac of the round, in percent
          records,         \* the records of the rounds before
          rounds,          \* what was recorded of each round
          opened, skipped  \* the lanes of the round, and the gaps without a source

schedVars == <<round, phase, left, records, rounds, opened, skipped>>
vars == <<poolVars, schedVars>>

Init ==
  /\ PoolInit
  /\ round = 0 /\ phase = "plan" /\ left = 0 /\ records = <<>> /\ rounds = <<>>
  /\ opened = {} /\ skipped = {}

-----------------------------------------------------------------------------
(* Gaps.                                                                   *)

Observed(recs, s) == Cardinality({i \in DOMAIN recs : s \in Values[recs[i]]})
Gap(recs, s) == IF Target[s] > Observed(recs, s) THEN Target[s] - Observed(recs, s) ELSE 0

OpenGaps(recs) == {s \in Slugs \ NeverGap : Gap(recs, s) > 0 /\ Policy[s] # "record_only"}

Credible(s) == RequestsOf[GapLane[s]] # <<>>
Tier == [priority |-> 100, standard |-> 50]

(* n of d parts, in millionths: what round(x, 6) keeps of them.            *)
Millionths(n, d) == (2000000 * n + d) \div (2 * d)

(* Seven factors, two of them penalties.  Weights and factors are percents *)
(* but for the first factor, which is what is missing of the target.       *)
Score(s, budget) ==
    Millionths(Weights.gap * Gap(records, s), 100 * Target[s])
      + 100 * (Weights.tier * Tier[Policy[s]]
                 + Weights.yield * Stats[s].yield - Weights.duplicates * Stats[s].duplicates
                 - Weights.rejections * Stats[s].rejections
                 + Weights.credible * (IF Credible(s) THEN 100 ELSE 0) + Weights.budget * budget)

RanksAbove(s, t, budget) ==
  \/ Score(s, budget) > Score(t, budget)
  \/ Score(s, budget) = Score(t, budget) /\ s < t

(* The gaps that may have a lane before s.                                 *)
Before(s, budget) == {t \in OpenGaps(records) : Credible(t) /\ RanksAbove(t, s, budget)}

(* Mutant: one lane more than allowed.                                     *)
OpenedOfMore(budget) ==
  {s \in OpenGaps(records) : Credible(s) /\ Cardinality(Before(s, budget)) <= MaxLanes}

OpenedOf(budget) ==
  {s \in OpenGaps(records) : Credible(s) /\ Cardinality(Before(s, budget)) < MaxLanes}

(* The gaps without a source, up to the first that no lane was left for.   *)
SkippedOf(budget) ==
  {s \in OpenGaps(records) : ~Credible(s) /\ Cardinality(Before(s, budget)) <= MaxLanes}

-----------------------------------------------------------------------------
Entry(lanes, new, duplicates, stop) ==
  [lanes |-> lanes, new |-> new, duplicates |-> duplicates, stop |-> stop, skipped |-> skipped']

Record(lanes, new, duplicates, stop) ==
  /\ rounds' = Append(rounds, Entry(lanes, new, duplicates, stop))
  /\ phase' = IF stop = None THEN "plan" ELSE "stop"

Nowhere(gaps) == IF gaps # {} THEN "no_credible_source" ELSE "all_targets_met"

PlanFirst ==
  /\ phase = "plan" /\ round = 0
  /\ round' = 1 /\ left' \in BudgetLeft
  /\ opened' = Configured /\ skipped' = {}
  /\ Assign(Configured) /\ phase' = "work"
  /\ UNCHANGED <<sources, candidates, found, version, delivered, history, records, rounds>>

PlanNext ==
  /\ phase = "plan" /\ round \in 1..(MaxRounds - 1)
  /\ round' = round + 1 /\ left' \in BudgetLeft
  /\ opened' = {GapLane[s] : s \in OpenedOf(left')} /\ skipped' = SkippedOf(left')
  /\ IF opened' = {}
     THEN Record({}, 0, None, Nowhere(skipped')) /\ UNCHANGED work
     ELSE Assign(opened') /\ phase' = "work" /\ UNCHANGED rounds
  /\ UNCHANGED <<sources, candidates, found, version, delivered, history, records>>

Work == phase = "work" /\ (PoolStep(round) \/ Publish) /\ UNCHANGED schedVars

-----------------------------------------------------------------------------
(* After a round: the reasons that hold, by their place, and the first.    *)

Held(after, new, duplicates, exhausted) ==
  {i \in DOMAIN Reasons :
     \/ i = 1 /\ (exhausted \/ left <= 0)
     \/ i = 2 /\ duplicates # None /\ duplicates > DuplicateRateStop
     \/ i = 3 /\ round > 1 /\ new < NoProgressMin
     \/ i = 4 /\ OpenGaps(after) = {}
     \/ i = 5 /\ round = MaxRounds}

StopReason(after, new, duplicates, exhausted) ==
  LET held == Held(after, new, duplicates, exhausted)
  IN IF held = {} THEN None ELSE Reasons[Least(held)]

(* What a round calls new_accepted is its own count, of its records or of  *)
(* fewer.                                                                  *)
Close ==
  /\ phase = "work" /\ Resting
  /\ \E duplicates \in DuplicateRates, exhausted \in BOOLEAN, new \in 0..Len(found) :
       /\ records' = records \o found
       /\ skipped' = skipped
       /\ Record(opened, new, duplicates,
                 StopReason(records \o found, new, duplicates, exhausted))
  /\ found' = <<>>
  /\ UNCHANGED <<sources, candidates, work, version, delivered, history, round, left, opened>>

Next == PlanFirst \/ PlanNext \/ Work \/ Close

Spec == Init /\ [][Next]_vars

-----------------------------------------------------------------------------
(* Types; a run has at most MaxRounds rounds and stops in its last; a lane *)
(* for a gap is for one that may have a lane and has a source, and a round *)
(* has no more of them than allowed; the records are the accepted pages.   *)
RoundsInv ==
  /\ round \in 0..MaxRounds /\ phase \in {"plan", "work", "stop"}
  /\ Len(rounds) \in {round, round - 1} /\ (phase = "stop" => Len(rounds) = round)
  /\ \A i \in DOMAIN rounds : rounds[i].stop # None <=> (i = Len(rounds) /\ phase = "stop")
  /\ \A i \in 2..Len(rounds) :
       /\ Cardinality(rounds[i].lanes) <= MaxLanes
       /\ rounds[i].lanes \subseteq {GapLane[s] : s \in {t \in Slugs \ NeverGap : Credible(t)}}
  /\ phase # "work" => found = <<>>
  /\ \A i \in DOMAIN records : records[i] \in Good /\ candidates[records[i]].extractionOwner # None

(* The reason a run stops for is true of the distinct pages it accepted,   *)
(* whatever lanes found them again: "all_targets_met" when they meet every *)
(* target a lane may be opened for, no_credible_source when the ones still *)
(* open are without a source, no_progress after a later round that counted *)
(* too few, and that before anything is said of targets or rounds; a round *)
(* of too few is the last (scheduler.py:7-8, 142-166: an unmet target is   *)
(* reported as one, and "nothing left to seek" is told from "nowhere to    *)
(* look").                                                                 *)
ReasonsHonest ==
  /\ \A i \in 2..Len(rounds) :
       rounds[i].lanes # {} /\ rounds[i].new < NoProgressMin => rounds[i].stop # None
  /\ phase = "stop" =>
       LET accepted == ToSet(records)
           wanting  == {s \in Slugs \ NeverGap : /\ Policy[s] # "record_only"
                          /\ Cardinality({c \in accepted : s \in Values[c]}) < Target[s]}
           last     == Last(rounds)
           stalled  == round > 1 /\ last.lanes # {} /\ last.new < NoProgressMin
       IN /\ last.stop = "all_targets_met" => wanting = {} /\ ~stalled
          /\ last.stop = "no_progress" => stalled
          /\ last.stop = "no_credible_source" => \A s \in wanting : ~Credible(s)
          /\ last.stop = "max_rounds" => round = MaxRounds /\ wanting # {} /\ ~stalled
          /\ wanting = {} => last.stop \notin {"no_credible_source", "max_rounds"}
=============================================================================
