--------------------------- MODULE CandidatePool ---------------------------
(***************************************************************************)
(* The shared source snapshots and candidates of a run: CandidatePool of   *)
(* pool.py, with the request keys of request_key.py.  The lanes of a round *)
(* take their sources from the pool and put the pages they list into it,   *)
(* one call at a time and in any order; Rounds decides which lanes work.   *)
(*                                                                         *)
(* A lane is known by the place of its id among the ids.  A request has a  *)
(* source, the URL without its query, the query (a sequence of pairs, the  *)
(* name of each a number), the policy of its order and the adapter mode;   *)
(* method, body, headers and version travel with the mode.                 *)
(***************************************************************************)
EXTENDS Naturals, FiniteSets, SequencesExt

CONSTANTS None,
          RequestsOf,               \* lane -> the requests it makes, in order
          Listing,                  \* URL of a source -> version -> the pages it lists
          CandidateKey,             \* URL of a page -> its canonical key
          Good,                     \* the keys of the pages a lane accepts
          MaxVersion                \* bound on the changes of a source

Lanes == DOMAIN RequestsOf
Bases == DOMAIN Listing
Requests == UNION {ToSet(RequestsOf[l]) : l \in Lanes}

ASSUME NoneAssumption == None \notin {"200", "304"} /\ None \notin Lanes

(* A lane reads the requests it has one after the other, a query is a      *)
(* sequence of names with their values, and lanes are ordered.             *)
ASSUME RequestsAssumption ==
  /\ Lanes \subseteq Nat
  /\ \A l \in Lanes : RequestsOf[l] \in Seq(Requests)
  /\ \A q \in Requests : q.query \in Seq(Nat \X Nat)

VARIABLES sources,      \* key -> row
          candidates,   \* key -> row
          work,         \* work[l]: what lane l has yet to do in this round
          found,        \* the keys accepted in this round, in order
          version,      \* version[b]: what a fetch of b would deliver
          delivered     \* the keys of the pages whose fetch has answered

(* History: the calls that found or made something, without their order.   *)
VARIABLES asked,        \* lanes, and the keys whose row has them
          views,        \* the snapshots, with the request they answered
          reads,        \* who read which body under which key, in which round
          sighted,      \* which lane added which page, from which source
          wanted,       \* the pages whose fetch was acquired ...
          extracted     \* ... and those whose extraction was

history  == <<asked, views, reads, sighted, wanted, extracted>>
poolVars == <<sources, candidates, work, found, version, delivered, history>>

With(f, x, v) == [y \in DOMAIN f \cup {x} |-> IF y = x THEN v ELSE f[y]]
Added(seq, x) == IF x \in ToSet(seq) THEN seq ELSE Append(seq, x)

-----------------------------------------------------------------------------
(* The identity of a normalized request.                                   *)

(* Mutant: pairs are sorted whole, and a repeated name loses its order.    *)
SortedStableWhole(query) ==
  SetToSortSeq(ToSet(query), LAMBDA p, q : p[1] < q[1] \/ (p[1] = q[1] /\ p[2] < q[2]))

(* Between distinct names only: pairs of one name keep their order.        *)
Place(query, i) ==
  Cardinality({j \in DOMAIN query : \/ query[j][1] < query[i][1]
                                    \/ query[j][1] = query[i][1] /\ j <= i})

SortedStable(query) ==
  [n \in DOMAIN query |-> query[CHOOSE i \in DOMAIN query : Place(query, i) = n]]

CanonicalQuery(q) ==
  IF q.policy = "sort-distinct-keys-stable" THEN SortedStable(q.query) ELSE q.query

RequestKey(q) == <<q.source, q.base, CanonicalQuery(q), q.mode>>

-----------------------------------------------------------------------------
(* A lane has requests to make, perhaps the body of the next one in hand,  *)
(* and the pages still to be looked at of the one before.                  *)
Idle == [todo |-> <<>>, body |-> None, key |-> None, pages |-> <<>>]

PoolInit ==
  /\ sources = <<>> /\ candidates = <<>>
  /\ work = [l \in Lanes |-> Idle] /\ found = <<>>
  /\ version = [b \in Bases |-> 1] /\ delivered = {}
  /\ asked = {} /\ views = {} /\ reads = {} /\ sighted = {} /\ wanted = {} /\ extracted = {}

(* A round gives its lanes their requests.                                 *)
Assign(lanes) ==
  work' = [l \in Lanes |-> IF l \in lanes THEN [Idle EXCEPT !.todo = RequestsOf[l]] ELSE Idle]

Resting == \A l \in Lanes : work[l].todo = <<>> /\ work[l].pages = <<>>

(* A source changes while a run is on.                                     *)
Publish ==
  \E b \in Bases :
    /\ version[b] < MaxVersion
    /\ ~Resting
    /\ version' = [version EXCEPT ![b] = @ + 1]
    /\ UNCHANGED <<sources, candidates, work, found, delivered, history>>

-----------------------------------------------------------------------------
(* Sources.  A lane may call what it likes for its next request, in any    *)
(* order: the pool knows owners but asks nobody whether he is one.         *)

Asks(l)     == work[l].pages = <<>> /\ work[l].todo # <<>>
Question(l) == Head(work[l].todo)
KeyOf(l)    == RequestKey(Question(l))

Row(l, by, body) ==
  [by |-> by, body |-> body, owner |-> l, lanes |-> <<l>>, rounds |-> <<>>]

(* 304: the body an earlier run kept is still the current one.             *)
EstablishedBy(body) == IF body = 1 THEN "304" ELSE "200"

(* The lane goes through the listing it was given; what it read, of what.  *)
Reads(l, r, body) ==
  /\ work' = [work EXCEPT ![l] = [todo |-> Tail(@.todo), body |-> None, key |-> KeyOf(l),
                                  pages |-> Listing[Question(l).base][body]]]
  /\ reads' = reads \cup {[lane |-> l, round |-> r, nth |-> Len(work[l].todo),
                           request |-> Question(l), key |-> KeyOf(l), body |-> body]}
Asked(l)       == asked' = asked \cup {[lane |-> l, key |-> KeyOf(l)]}
Viewed(l, body) == views' = views \cup {[key |-> KeyOf(l), body |-> body, request |-> Question(l)]}

(* True for who makes the row, False for the others.                       *)
AcquireSource(l) ==
  /\ Asks(l) /\ Asked(l)
  /\ sources' = IF KeyOf(l) \in DOMAIN sources
                THEN [sources EXCEPT ![KeyOf(l)].lanes = Added(@, l)]
                ELSE With(sources, KeyOf(l), Row(l, None, None))
  /\ UNCHANGED <<candidates, work, found, version, delivered,
                 views, reads, sighted, wanted, extracted>>

(* The fetch, which need not come to an end before the lane gives up.      *)
Fetch(l) ==
  /\ Asks(l) /\ work[l].body = None
  /\ work' = [work EXCEPT ![l].body = version[Question(l).base]]
  /\ UNCHANGED <<sources, candidates, found, version, delivered, history>>

(* Whoever fetched fills a row that is without a snapshot.                 *)
EstablishSnapshot(l, r) ==
  LET k == KeyOf(l)
      body == work[l].body
  IN /\ Asks(l) /\ body # None
     /\ k \in DOMAIN sources /\ sources[k].by = None
     /\ sources' = [sources EXCEPT ![k] = [@ EXCEPT !.by = EstablishedBy(body), !.body = body]]
     /\ Reads(l, r, body) /\ Viewed(l, body)
     /\ UNCHANGED <<candidates, found, version, delivered, asked, sighted, wanted, extracted>>

(* Both in one call, for a key without a row.                              *)
RecordEstablishedSource(l, r) ==
  LET body == work[l].body
  IN /\ Asks(l) /\ body # None
     /\ KeyOf(l) \notin DOMAIN sources
     /\ sources' = With(sources, KeyOf(l), Row(l, EstablishedBy(body), body))
     /\ Reads(l, r, body) /\ Viewed(l, body) /\ Asked(l)
     /\ UNCHANGED <<candidates, found, version, delivered, sighted, wanted, extracted>>

(* The two calls are refused with an exception, one of them for whatever   *)
(* is there, and the body is lost.                                         *)
Refused(l) ==
  /\ Asks(l) /\ work[l].body # None
  /\ work' = [work EXCEPT ![l].body = None]
  /\ UNCHANGED <<sources, candidates, found, version, delivered, history>>

ReuseSnapshot(l, r) ==
  LET k == KeyOf(l)
      row == sources[k]
  IN /\ Asks(l) /\ work[l].body = None
     /\ k \in DOMAIN sources /\ row.by # None
     /\ sources' = [sources EXCEPT ![k] = [row EXCEPT !.lanes = Added(@, l), !.rounds = Added(@, r)]]
     /\ Reads(l, r, row.body) /\ Asked(l)
     /\ UNCHANGED <<candidates, found, version, delivered, views, sighted, wanted, extracted>>

(* A fetch or a call has failed, and the lane goes on without the source.  *)
GivesUp(l) ==
  /\ Asks(l)
  /\ work' = [work EXCEPT ![l] = [work[l] EXCEPT !.todo = Tail(@), !.body = None]]
  /\ UNCHANGED <<sources, candidates, found, version, delivered, history>>

-----------------------------------------------------------------------------
(* Candidates.                                                             *)

Looks(l)  == work[l].pages # <<>>
PageOf(l) == CandidateKey[Head(work[l].pages)]

(* The page was added by this lane, now or in an earlier round.            *)
Holds(l)  == PageOf(l) \in DOMAIN candidates /\ l \in ToSet(candidates[PageOf(l)].lanes)

NewCandidate(l) ==
  [url |-> Head(work[l].pages), first |-> l, lanes |-> <<l>>, sources |-> <<work[l].key>>,
   fetchOwner |-> None, extractionOwner |-> None]

AddCandidate(l) ==
  LET c == PageOf(l)
      row == IF c \in DOMAIN candidates
             THEN [candidates[c] EXCEPT !.lanes = Added(@, l), !.sources = Added(@, work[l].key)]
             ELSE NewCandidate(l)
  IN /\ Looks(l)
     /\ candidates' = With(candidates, c, row)
     /\ sighted' = sighted \cup {[lane |-> l, page |-> c, source |-> work[l].key]}
     /\ UNCHANGED <<sources, work, found, version, delivered, asked, views, reads, wanted, extracted>>

(* Mutant: a body is extracted for every lane that asks.                   *)
MayExtractAgain(row) == TRUE

MayFetch(row)   == row.fetchOwner = None
MayExtract(row) == row.extractionOwner = None

AcquireTargetFetch(l) ==
  LET c == PageOf(l)
  IN /\ Looks(l) /\ Holds(l) /\ MayFetch(candidates[c])
     /\ candidates' = [candidates EXCEPT ![c].fetchOwner = l]
     /\ wanted' = wanted \cup {c}
     /\ UNCHANGED <<sources, work, found, version, delivered, asked, views, reads, sighted, extracted>>

(* The owner's fetch answers; one that fails never does.                   *)
TargetFetched(l) ==
  LET c == PageOf(l)
  IN /\ Looks(l) /\ Holds(l) /\ candidates[c].fetchOwner = l
     /\ delivered' = delivered \cup {c}
     /\ UNCHANGED <<sources, candidates, work, found, version, history>>

(* Any lane that holds the page may ask for the body that was fetched; who *)
(* is told True extracts it, and its record is accepted or not.            *)
AcquireExtraction(l) ==
  LET c == PageOf(l)
  IN /\ Looks(l) /\ Holds(l) /\ c \in delivered /\ MayExtract(candidates[c])
     /\ candidates' = [candidates EXCEPT ![c].extractionOwner = l]
     /\ found' = IF c \in Good THEN Append(found, c) ELSE found
     /\ extracted' = extracted \cup {c}
     /\ UNCHANGED <<sources, work, version, delivered, asked, views, reads, sighted, wanted>>

(* Done with the page: told False, failed, or only listed.                 *)
NextPage(l) ==
  /\ Looks(l)
  /\ work' = [work EXCEPT ![l].pages = Tail(@)]
  /\ UNCHANGED <<sources, candidates, found, version, delivered, history>>

PoolStep(r) ==
  \E l \in Lanes :
    \/ AcquireSource(l) \/ Fetch(l) \/ EstablishSnapshot(l, r) \/ RecordEstablishedSource(l, r)
    \/ Refused(l) \/ ReuseSnapshot(l, r) \/ GivesUp(l)
    \/ AddCandidate(l) \/ AcquireTargetFetch(l) \/ TargetFetched(l) \/ AcquireExtraction(l)
    \/ NextPage(l)

-----------------------------------------------------------------------------
(* The document: set-like provenance sorted, race-made owners replaced by  *)
(* the least lane of the row.                                              *)

Sorted(set) == SetToSortSeq(set, <)
Least(lanes) == CHOOSE l \in lanes : \A m \in lanes : l <= m

(* Mutant: the designation is who ran it.                                  *)
DesignateOwner(lanes, done) == done

Designate(lanes, done) == IF done = None THEN None ELSE Least(lanes)

SourceDocument(row) ==
  LET lanes == ToSet(row.lanes)
  IN [by |-> row.by, body |-> row.body, designated |-> Designate(lanes, row.owner),
      lanes |-> Sorted(lanes), rounds |-> Sorted(ToSet(row.rounds))]

CandidateDocument(row) ==
  LET lanes == ToSet(row.lanes)
  IN [primary |-> Designate(lanes, row.first), lanes |-> Sorted(lanes),
      sources |-> ToSet(row.sources), fetched |-> Designate(lanes, row.fetchOwner),
      extracted |-> Designate(lanes, row.extractionOwner)]

Document ==
  [sources |-> [k \in DOMAIN sources |-> SourceDocument(sources[k])],
   candidates |-> [c \in DOMAIN candidates |-> CandidateDocument(candidates[c])]]

(* Logical owners, beside the HTTP attempts of the client.                 *)
Accounting ==
  [sources     |-> Cardinality(DOMAIN sources),
   fetches     |-> Cardinality({c \in DOMAIN candidates : ~MayFetch(candidates[c])}),
   extractions |-> Cardinality({c \in DOMAIN candidates : ~MayExtract(candidates[c])})]

-----------------------------------------------------------------------------
(* What the document must say, from what was done and not from its order.  *)

SourceOf(k) ==
  LET lanes == {a.lane : a \in {x \in asked : x.key = k}}
      here  == {v \in views : v.key = k}
      body  == (CHOOSE v \in here : TRUE).body
      read  == {x \in reads : x.key = k}
      again == {x \in read : \E y \in read : y.round < x.round \/ (y.round = x.round /\ y # x)}
  IN [by     |-> IF here = {} THEN None ELSE EstablishedBy(body),
      body   |-> IF here = {} THEN None ELSE body,
      designated |-> Least(lanes), lanes |-> Sorted(lanes),
      rounds |-> Sorted({x.round : x \in again})]

CandidateOf(c) ==
  LET here  == {s \in sighted : s.page = c}
      lanes == {s.lane : s \in here}
  IN [primary |-> Least(lanes), lanes |-> Sorted(lanes), sources |-> {s.source : s \in here},
      fetched   |-> IF c \in wanted THEN Least(lanes) ELSE None,
      extracted |-> IF c \in extracted THEN Least(lanes) ELSE None]

(* Who came first does not show in the document, but for the spelling of a *)
(* page's URL, which is the first seen (pool.py:382 calls it               *)
(* "byte-identical for equal input"), nor in the counts of logical owners: *)
(* both are those of the calls without their order.  What the calls were   *)
(* may depend on the order: a lane whose fetch is beaten reads in another  *)
(* way than the one that beats it, but the rounds of a source are those in *)
(* which it was read, the first reading apart, whoever made it and whoever *)
(* gave up between its calls.                                              *)
DocumentOrderFree ==
  /\ Document.sources = [k \in {a.key : a \in asked} |-> SourceOf(k)]
  /\ Document.candidates = [c \in {s.page : s \in sighted} |-> CandidateOf(c)]
  /\ Accounting = [sources |-> Cardinality({a.key : a \in asked}),
                   fetches |-> Cardinality(wanted),
                   extractions |-> Cardinality(extracted)]

(* The pairs of one query are those of the other, and none has passed      *)
(* another of its name.                                                    *)
Reordered(x, y) ==
  \E move \in Bijection(DOMAIN x, DOMAIN y) :
    /\ \A i \in DOMAIN x : y[move[i]] = x[i]
    /\ \A i, j \in DOMAIN x : x[i][1] = x[j][1] /\ i < j => move[i] < move[j]

(* Two requests the pool may answer with one view: of each name the same   *)
(* values in the same order, and the same query when neither lets the      *)
(* names be reordered.                                                     *)
SameQuestion(p, q) ==
  /\ p.source = q.source /\ p.base = q.base /\ p.mode = q.mode
  /\ Reordered(p.query, q.query)
  /\ p.policy = "preserve" /\ q.policy = "preserve" => p.query = q.query

(* The run's single view (pool.py:6-13): a key has at most one snapshot,   *)
(* however many lanes fetched for it, and whatever lane reads it, in       *)
(* whatever round and however the source has changed since, reads that     *)
(* body ...                                                                *)
SingleView ==
  /\ \A f, g \in views : f.key = g.key => f = g
  /\ \A x \in reads : \E f \in views : f.key = x.key /\ f.body = x.body

(* ... which is the answer to its own question.                            *)
OneView ==
  /\ SingleView
  /\ \A x \in reads, f \in views : f.key = x.key => SameQuestion(f.request, x.request)
=============================================================================
