----------------------------- MODULE Candidates -----------------------------
(***************************************************************************)
(* From what the sources of a cell deliver to one candidate per target:    *)
(* the cap of adapters/base.py, group() of dedupe.py, normalize() of       *)
(* extract.py and the sighting counts of run_cells.py.                     *)
(*                                                                         *)
(* A text is a name with the words it says, a date a name with the         *)
(* freshness it scores; a URL is a name, and Canon gives the one every     *)
(* spelling of it is reduced to (NoUrl when it cannot be).  An item is     *)
(* what a source says of one target; its place is its position.            *)
(***************************************************************************)
EXTENDS Naturals, Sequences, FiniteSets

CONSTANTS Urls, NoUrl,
          Canon,                    \* Canon[u]: the canonical spelling of u
          Texts, Blank,             \* what a field may say, and nothing at all
          Unknown,                  \* the legacy text that says "unknown"
          Dates,                    \* what a date may be
          Unreadable,               \* those no parser understands
          Sources,
          Authority                 \* Authority[s]: role first, then name; less is more

ASSUME UrlsAssumption ==
         /\ NoUrl \notin Urls
         /\ Canon \in [Urls -> Urls \cup {NoUrl}]
         /\ \A u \in Urls : Canon[u] # NoUrl => Canon[Canon[u]] = Canon[u]
ASSUME TextsAssumption ==
         /\ Blank \notin Texts \cup Dates
         /\ Unknown \in Texts /\ Unreadable \subseteq Dates
ASSUME AuthorityAssumption ==
         /\ Authority \in [Sources -> Nat]
         /\ \A r, s \in Sources : Authority[r] = Authority[s] => r = s

Items == [url : Urls, title : Texts \cup {Blank}, summary : Texts \cup {Blank},
          publisher : Texts \cup {Blank}, date : Dates \cup {Blank}]

(* What remains of a body: its first items, in document order.             *)
Capped(items, cap) == SubSeq(items, 1, IF Len(items) < cap THEN Len(items) ELSE cap)

-----------------------------------------------------------------------------
(* Observations: one per item, known by its source and its place.          *)

Observations(results) ==
  UNION {{[source |-> results[i].source, at |-> j, item |-> results[i].items[j]] :
            j \in DOMAIN results[i].items} : i \in DOMAIN results}

Usable(sightings)   == {o \in sightings : Canon[o.item.url] # NoUrl}
Unusable(sightings) == sightings \ Usable(sightings)

(* Authority first, then the item's own place; never the arrival.          *)
Before(o, p) == \/ Authority[o.source] < Authority[p.source]
                \/ o.source = p.source /\ o.at < p.at

(* The identities that were sighted, and the sightings of one of them.     *)
Keys(sightings)     == {Canon[o.item.url] : o \in Usable(sightings)}
Group(sightings, k) == {o \in Usable(sightings) : Canon[o.item.url] = k}

(* The value a record shows: the first in that order that is not blank.    *)
Display(group, field) ==
  LET said == {o \in group : o.item[field] # Blank}
  IN IF said = {} THEN Blank
     ELSE (CHOOSE o \in said : \A p \in said : o = p \/ Before(o, p)).item[field]

Clean(text) == IF text = Unknown THEN Blank ELSE text
Readable(date) == IF date \in Unreadable THEN Blank ELSE date

Normalize(key, group) ==
  [key       |-> key,
   target    |-> Display(group, "url"),
   title     |-> Clean(Display(group, "title")),
   summary   |-> Clean(Display(group, "summary")),
   publisher |-> Clean(Display(group, "publisher")),
   date      |-> Readable(Display(group, "date")),
   sources   |-> {o.source : o \in group}]

Candidates == [key : Urls, target : Urls,
               title : Texts \cup {Blank}, summary : Texts \cup {Blank},
               publisher : Texts \cup {Blank}, date : Dates \cup {Blank},
               sources : SUBSET Sources]

-----------------------------------------------------------------------------
(* The sightings, counted before anything is cut.                          *)

SightingCounts(sightings) ==
  [observations |-> Cardinality(Usable(sightings)),
   unique       |-> Cardinality(Keys(sightings)),
   repeated     |-> Cardinality(Usable(sightings)) - Cardinality(Keys(sightings)),
   unusable     |-> Cardinality(Unusable(sightings))]
=============================================================================
