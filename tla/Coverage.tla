------------------------------ MODULE Coverage ------------------------------
(***************************************************************************)
(* The coverage report of a run: build_coverage_report() of coverage.py    *)
(* over the records of the run, with the reporting states and the gate of  *)
(* facets.py.  A record is what CellRun routes; the state of a record and  *)
(* its eligibility are derived here and kept nowhere else.                 *)
(***************************************************************************)
EXTENDS Judgement

CONSTANTS Target                    \* Target[axis]: target_min of each slug

Axes == {Industry} \cup Multi

(* resolved: an industry that is one, and a function or a use case.        *)
Resolved(facets) ==
  facets.industry \ {Unclear} # {} /\ UNION {facets[a] : a \in Multi} # {}

Populated(facets) == UNION {facets[a] : a \in Axes} # {}

Applicable(records) == {r \in records : r.type = "full"}

ReportingState(r) ==
  CASE ~r.facets.applies                                 -> "not_enriched"
    [] r.facets.applies /\ Resolved(r.facets)            -> "facet_complete"
    [] r.facets.applies /\ ~Resolved(r.facets)
         -> IF Populated(r.facets) THEN "facet_partial" ELSE "unresolved"

ReportingStates == {"facet_complete", "facet_partial", "unresolved", "not_enriched"}

(* Facets may withhold a record of a gated cell, and no other.             *)
Gated(r)               == r.type = "full" /\ r.cell \in GatedCells
PublicationEligible(r) == Gated(r) => ReportingState(r) = "facet_complete"

(* How many of the records carry a value, on each axis.                    *)
Observed(records, axis, slug) ==
  Cardinality({r \in Applicable(records) : slug \in r.facets[axis]})

Gap(records, axis, slug) ==
  LET missing == Target[axis][slug] - Observed(records, axis, slug)
  IN IF missing > 0 THEN missing ELSE 0

(* One row per cell that has a record of its own.                          *)
Row(records, cell) ==
  LET scoped == {r \in Applicable(records) : r.cell = cell}
  IN [applicable |-> Cardinality(scoped),
      states   |-> [s \in ReportingStates |-> Cardinality({r \in scoped : ReportingState(r) = s})],
      eligible |-> Cardinality({r \in scoped : PublicationEligible(r)}),
      withheld |-> {r.key : r \in {q \in scoped : ~PublicationEligible(q)}},
      gaps     |-> [axis \in Axes |-> [slug \in DOMAIN Target[axis] |-> Gap(scoped, axis, slug)]]]

CoverageReport(records) ==
  [c \in {r.cell : r \in Applicable(records)} |-> Row(records, c)]
=============================================================================
