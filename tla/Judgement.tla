------------------------------ MODULE Judgement ------------------------------
(***************************************************************************)
(* What is decided of a candidate before anything is fetched: classify()   *)
(* of classify.py puts it in one cell, score() and decide() of verify.py   *)
(* accept it or name the reason it is refused, and assign() of             *)
(* facetassign.py grounds its facets in what it says.                      *)
(*                                                                         *)
(* A configured term is a word, and a term is found when a field says it:  *)
(* tokens, stems, patterns and quotes are left out.  Scores are integers:  *)
(* relevance in 1/300, the others in 1/100, with the numbers of verify.py  *)
(* and of config/harvest/policy.v1.json.                                   *)
(***************************************************************************)
EXTENDS Candidates, FiniteSetsExt

CONSTANTS Words,
          Says,                     \* Says[x]: the words of a text or a URL
          Substantial,              \* the texts as long as a full summary
          Freshness,                \* Freshness[d]: what the date d scores
          Cells, Topics, TopicOf,   \* cells are numbered in the order of their ids
          Signals,                  \* name -> [terms, min]
          Composites,               \* name -> the signals it needs
          DeveloperTool,            \* the signal of a developer tool
          Rules,                    \* [all, none, cell], in committed order
          Discovery,                \* the cell of the rule that claims nothing
          Vocabulary,               \* cell -> [require, boost, exclude]
          FacetTerms,               \* axis -> the words of its slugs, in order
          Grounded,                 \* the industries a URL may not ground
          MaxMultiValues,           \* of a function or a use case
          FacetTopics, GatedCells

ASSUME CellsAssumption ==
         /\ Cells \subseteq Nat \ {0} /\ TopicOf \in [Cells -> Topics]
         /\ Discovery \notin Cells
ASSUME RulesAssumption ==
         /\ \A i \in DOMAIN Rules : Rules[i].cell \in Cells \cup {Discovery}
         /\ \E i \in DOMAIN Rules : Rules[i].cell = Discovery

Least(a, b) == IF a < b THEN a ELSE b

WordsIn(c, fields) ==
  UNION {IF c[f] = Blank THEN {} ELSE Says[c[f]] : f \in fields}

EvidenceFields == {"title", "summary", "publisher", "target"}
Text(c)        == WordsIn(c, EvidenceFields)

-----------------------------------------------------------------------------
(* Which signals fire: the simple ones, then those made of them.           *)

FiredSignals(c) ==
  LET simple == {n \in DOMAIN Signals :
                   Cardinality(Signals[n].terms \cap Text(c)) >= Signals[n].min}
  IN simple \cup {n \in DOMAIN Composites : Composites[n] \subseteq simple}

RuleFires(rule, fired) == rule.all \subseteq fired /\ rule.none \cap fired = {}

(* The first rule that claims the candidate gives it its cell, and the     *)
(* other claims are kept; unclaimed, it stays where it was found.          *)
Classify(c, contexts) ==
  LET fired  == FiredSignals(c)
      claims == {i \in DOMAIN Rules : /\ Rules[i].cell # Discovery
                                      /\ RuleFires(Rules[i], fired)}
  IN IF claims = {}
     THEN [cell |-> contexts[1],
           competing |-> {contexts[i] : i \in 2..Len(contexts)}]
     ELSE [cell |-> Rules[Min(claims)].cell,
           competing |-> {Rules[i].cell : i \in claims \ {Min(claims)}}]

-----------------------------------------------------------------------------
(* The four scores of a candidate in the cell it was put in.               *)

Saturation == 3
Hits(c, terms) == Cardinality(terms \cap Text(c))

Excluded(c, cell) == Hits(c, Vocabulary[cell].exclude) > 0

Relevance(c, cell) ==                              \* of 300
  LET v == Vocabulary[cell]
  IN CASE Excluded(c, cell) -> 0
       [] ~Excluded(c, cell) /\ v.require # {} /\ Hits(c, v.require) = 0 -> 0
       [] ~Excluded(c, cell) /\ v.require = {} /\ v.boost = {} -> 204
       [] OTHER -> 68 * Least(Hits(c, v.require), Saturation)
                     + 32 * Least(Hits(c, v.boost), Saturation)

Quality(c) ==                                      \* of 100
  LET part(field, share) == IF c[field] = Blank THEN 0 ELSE share
      summary == IF c.summary \in Substantial THEN 34 ELSE part("summary", 17)
      sources == Cardinality(c.sources)
      bonus   == IF sources > 1 THEN Least(8 * (sources - 1), 24) ELSE 0
  IN Least(part("title", 22) + summary + part("publisher", 22)
             + part("date", 22) + bonus, 100)

AudienceFit(c, cell) == IF Excluded(c, cell) THEN 0 ELSE 100

(* The weighted sum in 1/30000 of the weights that could be scored.        *)
CompositePasses(c, cell) ==
  LET dated == c.date # Blank
      sum   == 40 * Relevance(c, cell) + 75 * Quality(c) + 60 * AudienceFit(c, cell)
                 + IF dated THEN 45 * Freshness[c.date] ELSE 0
  IN sum >= 120 * (IF dated THEN 100 ELSE 85)

(* The gates in their order; None of the reasons is acceptance.            *)
Accept == "accepted"

Decide(c, cell) ==
  CASE Excluded(c, cell) /\ DeveloperTool \in FiredSignals(c)
         -> "developer_only_audience"
    [] Excluded(c, cell) /\ DeveloperTool \notin FiredSignals(c)
         -> "category_exclusion_applied"
    [] OTHER ->
         IF c.title = Blank /\ c.summary = Blank THEN "insufficient_evidence"
         ELSE IF Vocabulary[cell].require # {} /\ Hits(c, Vocabulary[cell].require) = 0
              THEN "off_topic"
         ELSE IF Relevance(c, cell) < 105 THEN "below_relevance_threshold"
         ELSE IF Quality(c) < 30 THEN "below_quality_threshold"
         ELSE IF AudienceFit(c, cell) < 20 \/ ~CompositePasses(c, cell)
              THEN "insufficient_evidence"
         ELSE Accept

-----------------------------------------------------------------------------
(* Facets: what the candidate's own words ground, on the three axes.  The  *)
(* slugs of an axis are numbered in their order, and Unclear is none.      *)

Industry == "industry"
Multi    == {"business_function", "use_case_type"}
Unclear  == 0

(* The vocabularies of the axes: so many slugs, so many words for each.    *)
ASSUME FacetsAssumption ==
  \A axis \in {Industry} \cup Multi :
    /\ IsFiniteSet(DOMAIN FacetTerms[axis])
    /\ \A s \in DOMAIN FacetTerms[axis] : IsFiniteSet(FacetTerms[axis][s])

NoFacets == [industry |-> {}, business_function |-> {}, use_case_type |-> {},
             applies |-> FALSE]

(* An industry is not grounded in who printed it, nor some in where.       *)
GroundFields(axis, slug) ==
  EvidenceFields \ (IF axis # Industry THEN {}
                    ELSE IF slug \in Grounded THEN {"publisher", "target"} ELSE {"publisher"})

Support(c, axis, slug) ==
  Cardinality(FacetTerms[axis][slug] \cap WordsIn(c, GroundFields(axis, slug)))

Supported(c, axis) == {s \in DOMAIN FacetTerms[axis] : Support(c, axis, s) > 0}

(* s comes before t: stronger, then the smaller slug.                      *)
Stronger(c, axis, s, t) ==
  \/ Support(c, axis, s) > Support(c, axis, t)
  \/ Support(c, axis, s) = Support(c, axis, t) /\ s < t

Strongest(c, axis, n) ==
  {s \in Supported(c, axis) :
     Cardinality({t \in Supported(c, axis) : Stronger(c, axis, t, s)}) < n}

(* Mutant: the first of equals instead of an ambiguity.                    *)
PrimaryIndustryFirst(c) == Strongest(c, Industry, 1)

(* The one best supported; equals are an ambiguity, not a coin toss.       *)
PrimaryIndustry(c) ==
  LET best == {s \in Supported(c, Industry) :
                 \A t \in Supported(c, Industry) : Support(c, Industry, t) <= Support(c, Industry, s)}
  IN IF Cardinality(best) > 1 THEN {Unclear} ELSE best

Facets(c, cell) ==
  IF TopicOf[cell] \notin FacetTopics THEN NoFacets
  ELSE [industry          |-> PrimaryIndustry(c),
        business_function |-> Strongest(c, "business_function", MaxMultiValues),
        use_case_type     |-> Strongest(c, "use_case_type", MaxMultiValues),
        applies           |-> TRUE]
=============================================================================
