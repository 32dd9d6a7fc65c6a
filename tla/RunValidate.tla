----------------------------- MODULE RunValidate -----------------------------
(***************************************************************************)
(* The documents of a finished run and their validator: build_cell_artifact*)
(* and build_topic_artifact of artifacts.py make them, validate_run of     *)
(* runvalidate.py reads a state root and says what is wrong with the run   *)
(* its pointer names.                                                      *)
(*                                                                         *)
(* A root is a record: the tree of every run, the pointer, the cells whose *)
(* ledger and rejection log exist, and the places with a temp file left in *)
(* them.  A run's tree holds the documents that exist.  A record is known  *)
(* by its topic and identity, which its record_id is made of.  A document  *)
(* names the run in whose directory it is, and is well-formed JSON.        *)
(***************************************************************************)
EXTENDS Naturals, FiniteSets

CONSTANTS Runs,
          Cells, Topics, TopicOf,   \* cells and topics are numbered in the order of
                                    \* their ids
          None,
          MaxSample

ASSUME TopicsAssumption ==
         /\ Cells \subseteq Nat /\ IsFiniteSet(Cells) /\ Cells # {}
         /\ Topics \subseteq Nat /\ TopicOf \in [Cells -> Topics]
ASSUME SampleAssumption == MaxSample \in Nat \ {0}

MembersOf(t) == {c \in Cells : TopicOf[c] = t}
OfType(rs, type) == {r \in rs : r.type = type}
Counts(rs) == [full |-> Cardinality(OfType(rs, "full")),
               cross |-> Cardinality(OfType(rs, "cross_reference"))]

CellDoc(rs) == [records |-> rs, counts |-> Counts(rs)]

(* Of the records of one identity in a topic the one of the first category.*)
Survivors(merged) ==
  {r \in merged : \A q \in merged : q.key = r.key => r.cell <= q.cell}

TopicDoc(t, cells) ==
  LET kept == Survivors(UNION {cells[c].records : c \in MembersOf(t)})
  IN [records |-> kept, counts |-> Counts(kept),
      byCategory |-> [c \in MembersOf(t) |->
                        Cardinality(OfType({r \in kept : r.cell = c}, "full"))]]

Closing == {"coverage", "conflicts"}
NoTree  == [cells |-> <<>>, topics |-> <<>>, tail |-> {}, manifest |-> None]

RunIsFinished(root, r) == root.tree[r].manifest # None
HasDirectory(root, r)  == root.tree[r] # NoTree

-----------------------------------------------------------------------------
(* The findings, a set: the validator collects and does not stop.          *)

Finding(what, of) == {<<what, of>>}
When(wrong, what, of) == IF wrong THEN Finding(what, of) ELSE {}

Differs(label, present, expected) ==
  {<<label, "missing", n>> : n \in expected \ present}
    \cup {<<label, "unexpected", n>> : n \in present \ expected}

(* The files of the run and the shared ones, no more and no fewer.         *)
ListingFindings(root, r) ==
  LET t == root.tree[r]
  IN Differs("cells", DOMAIN t.cells, Cells) \cup Differs("topics", DOMAIN t.topics, Topics)
       \cup Differs("run", t.tail, Closing) \cup When(t.manifest = None, "manifest", "missing")
       \cup Differs("shared", root.shared, Cells)
       \cup {<<d[2], "unexpected", "temp">> : d \in {x \in root.debris : x[1] = r}}

CountFindings(label, n, doc) ==
  When(doc.counts # Counts(doc.records), label, n)

(* A sum, as the number of pairs: of a cell and a record of its document,  *)
(* of a category and a number up to the one declared for it.               *)
Held(docs, cs, type) == Cardinality(UNION {{c} \X OfType(docs[c].records, type) : c \in cs})
Total(declared) == Cardinality(UNION {{c} \X (1..declared[c]) : c \in DOMAIN declared})

(* A topic may hold fewer records than its cells, never more.              *)
TopicFindings(root, r) ==
  LET t == root.tree[r]
      whole == {s \in DOMAIN t.topics : MembersOf(s) \subseteq DOMAIN t.cells}
  IN UNION {When(\/ t.topics[s].counts.full > Held(t.cells, MembersOf(s), "full")
                 \/ t.topics[s].counts.cross > Held(t.cells, MembersOf(s), "cross_reference")
                 \/ Total(t.topics[s].byCategory) # t.topics[s].counts.full,
                 "topic totals", s) : s \in whole}

(* Every sighting of a candidate is the first of its key or a repeat.      *)
SightingFindings(rows) ==
  UNION {LET seen == rows[c].sightings
         IN When(seen # None /\ seen.observations # seen.unique + seen.repeated,
                 "sightings", c) : c \in DOMAIN rows}

SmokeFindings(m) ==
  (UNION {When(m.rows[c].status = "not_run", "not run", c) : c \in DOMAIN m.rows})
    \cup When(m.enrich, "enriched", m.mode)
    \cup When(m.bounds = None, "bounds", m.mode)
    \cup When(~m.probed, "preflight", m.mode)

(* A link check names a finished run, and its cells are ok exactly when an *)
(* entry of this run's instant is in them.                                 *)
StampedAt(doc, stamp) ==
  {r \in doc.records : \E i \in DOMAIN r.history : r.history[i].at = stamp}

LinkcheckFindings(root, r, m) ==
  LET docs == root.tree[r].cells
      ok   == {c \in DOMAIN m.rows : m.rows[c].status = "ok"}
      checked == {c \in DOMAIN docs : StampedAt(docs[c], m.stamp) # {}}
  IN When(m.base = r, "own base", r)
       \cup When(m.base # r /\ ~HasDirectory(root, m.base), "no base", m.base)
       \cup When(m.base # r /\ HasDirectory(root, m.base) /\ ~RunIsFinished(root, m.base),
                 "incomplete base", m.base)
       \cup When(~m.enrich, "not enriched", m.mode)
       \cup When(m.bounds = None \/ m.bounds \notin 1..MaxSample, "sample", m.mode)
       \cup When(m.probed, "preflight", m.mode)
       \cup (UNION {When(m.rows[c].status \notin {"ok", "not_run"}, "status", c) :
                      c \in DOMAIN m.rows})
       \cup When(ok = {}, "nothing ok", r) \cup When(checked = {}, "nothing checked", r)
       \cup {<<"ok unchecked", c>> : c \in (ok \cap DOMAIN docs) \ checked}
       \cup {<<"checked not ok", c>> : c \in checked \ ok}

ManifestFindings(root, r) ==
  LET m == root.tree[r].manifest
  IN IF m = None THEN {} ELSE
       Differs("rows", DOMAIN m.rows, Cells) \cup SightingFindings(m.rows)
         \cup When(m.eligible, "eligible", m.mode)
         \cup (CASE m.mode = "smoke" -> SmokeFindings(m)
                 [] m.mode = "linkcheck" -> LinkcheckFindings(root, r, m)
                 [] OTHER -> Finding("mode", m.mode))

(* Mutant: any finished run is accepted.                                   *)
PointerFindingsAny(root, r) ==
  When(root.latest # None /\ ~RunIsFinished(root, root.latest), "pointer", None)

(* The pointer names this run, and what it names has a manifest.           *)
PointerFindings(root, r) ==
  When(root.latest # r, "pointer", r)
    \cup When(root.latest = r /\ ~RunIsFinished(root, r), "pointer", None)

ValidateRun(root, r) ==
  LET t == root.tree[r]
  IN ListingFindings(root, r)
       \cup (UNION {CountFindings("cells", c, t.cells[c]) : c \in DOMAIN t.cells})
       \cup (UNION {CountFindings("topics", s, t.topics[s]) : s \in DOMAIN t.topics})
       \cup TopicFindings(root, r) \cup ManifestFindings(root, r)
       \cup PointerFindings(root, r) \cup {<<"debris", d>> : d \in root.debris}
=============================================================================
