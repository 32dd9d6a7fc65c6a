---------------------------- MODULE CellRun_proofs ----------------------------
(***************************************************************************)
(* Proofs about CellRun, for any cells, sources, pages and ways of calling *)
(* run().  While the cells run, an invariant keeps who asked for a page    *)
(* and what came of it (IInv), and another what the caps left of what the  *)
(* sources delivered (Measured); the routing is a function of the state it *)
(* finds, so what it made is judged from that state afterwards.            *)
(***************************************************************************)
EXTENDS CellRun, WellFoundedInduction, FiniteSetTheorems, FunctionTheorems, TLAPS

-----------------------------------------------------------------------------
(* Cells are numbers: of any of them there is a first.                     *)
LEMMA FirstCell ==
  ASSUME NEW S \in SUBSET Nat, S # {}
  PROVE  \E c \in S : \A d \in S : c <= d
<1> DEFINE R == {ss \in Nat \X Nat : ss[1] < ss[2]}
<1>1. IsWellFoundedOn(R, Nat) BY NatLessThanWellFounded, Zenon DEF OpToRel
<1>2. PICK c \in S : \A d \in S : ~(<<d, c>> \in R)
  <2> HIDE DEF R
  <2> QED BY <1>1, WFMin
<1>3. ASSUME NEW d \in S PROVE c <= d
  <2>1. <<d, c>> \in Nat \X Nat OBVIOUS
  <2> QED BY <1>2, <2>1
<1> QED BY <1>3

(* What is kept of records with one topic and key is one of them, none of  *)
(* the others is before it, and it alone is kept.                          *)
LEMMA DedupedIsFirst ==
  ASSUME NEW all, \A r \in all : r.cell \in Nat, NEW d \in Deduped(all)
  PROVE  /\ d \in all
         /\ \A q \in all : q.topic = d.topic /\ q.key = d.key => NotAfter(d, q)
         /\ d = CHOOSE r \in all :
                  /\ <<r.topic, r.key>> = <<d.topic, d.key>>
                  /\ \A q \in all : <<q.topic, q.key>> = <<d.topic, d.key>> => NotAfter(r, q)
<1> DEFINE Same(id) == {r \in all : <<r.topic, r.key>> = id}
           IsFirst(id, r) == /\ <<r.topic, r.key>> = id
                             /\ \A q \in all : <<q.topic, q.key>> = id => NotAfter(r, q)
<1>1. PICK id \in {<<r.topic, r.key>> : r \in all} : d = CHOOSE r \in all : IsFirst(id, r)
  BY Zenon DEF Deduped
<1> DEFINE C == {r.cell : r \in Same(id)}
<1>2. PICK c \in C : \A e \in C : c <= e
  <2>1. C \in SUBSET Nat OBVIOUS
  <2>2. C # {} OBVIOUS
  <2> HIDE DEF C
  <2> QED BY <2>1, <2>2, FirstCell
<1>3. \E r \in all : IsFirst(id, r)
  <2>1. \A q \in Same(id) : q.cell = c \/ c < q.cell BY <1>2
  <2>2. CASE \E r \in Same(id) : r.cell = c /\ r.type = "full"
    BY <2>1, <2>2 DEF NotAfter
  <2>3. CASE \A r \in Same(id) : r.cell = c => r.type # "full"
    <3>1. PICK r \in Same(id) : r.cell = c BY <1>2
    <3> QED BY <2>1, <2>3, <3>1 DEF NotAfter
  <2> QED BY <2>2, <2>3
<1>4. d \in all /\ IsFirst(id, d)
  <2> HIDE DEF IsFirst
  <2> QED BY <1>1, <1>3
<1>5. id = <<d.topic, d.key>> BY <1>4
<1>6. d = CHOOSE r \in all : IsFirst(<<d.topic, d.key>>, r) BY <1>1, <1>5, Zenon
<1> QED BY <1>4, <1>6

(* And of each topic and key one is kept.                                  *)
LEMMA DedupedHolds ==
  ASSUME NEW all, \A r \in all : r.cell \in Nat, NEW q \in all
  PROVE  \E d \in Deduped(all) : d.topic = q.topic /\ d.key = q.key /\ NotAfter(d, q)
<1> DEFINE id == <<q.topic, q.key>>
           d == CHOOSE r \in all : /\ <<r.topic, r.key>> = id
                                   /\ \A p \in all : <<p.topic, p.key>> = id => NotAfter(r, p)
           Same == {r \in all : <<r.topic, r.key>> = id}
           C == {r.cell : r \in Same}
<1>1. d \in Deduped(all) BY DEF Deduped
<1>2. PICK c \in C : \A e \in C : c <= e
  <2>1. C \in SUBSET Nat /\ q.cell \in C OBVIOUS
  <2> HIDE DEF C
  <2> QED BY <2>1, FirstCell
<1>3. \E r \in all : /\ <<r.topic, r.key>> = id
                     /\ \A p \in all : <<p.topic, p.key>> = id => NotAfter(r, p)
  <2>1. \A p \in Same : p.cell = c \/ c < p.cell BY <1>2
  <2>2. CASE \E r \in Same : r.cell = c /\ r.type = "full"
    BY <2>1, <2>2 DEF NotAfter
  <2>3. CASE \A r \in Same : r.cell = c => r.type # "full"
    <3>1. PICK r \in Same : r.cell = c BY <1>2
    <3> QED BY <2>1, <2>3, <3>1 DEF NotAfter
  <2> QED BY <2>2, <2>3
<1>4. <<d.topic, d.key>> = id /\ NotAfter(d, q)
  <2>1. \A p \in all : <<p.topic, p.key>> = id => NotAfter(d, p) BY <1>3
  <2>2. <<d.topic, d.key>> = id BY <1>3
  <2> QED BY <2>1, <2>2
<1> QED BY <1>1, <1>4

-----------------------------------------------------------------------------
(* The invariant: where the run is, what was asked, what came of it.       *)

Shaped(run) == run = [sightings |-> run.sightings, failures |-> run.failures,
                      cases |-> run.cases, resolved |-> run.resolved]

Progress ==
  /\ regime \in Regimes /\ DOMAIN runs \subseteq regime.cells
  /\ phase \in {"next", "discover", "fetch", "done", "raised"}
  /\ phase = "discover" => cell \in regime.cells \ DOMAIN runs
  /\ phase = "fetch" => cell \in DOMAIN runs /\ todo \subseteq Accepted(cell)
  /\ phase # "fetch" \/ ~regime.enrich => todo = {}
  /\ \A c \in DOMAIN runs : Shaped(runs[c])

Asked ==
  /\ requests \in [Urls -> Nat]
  /\ \A k \in Urls :
       /\ requests[k] <= 1
       /\ requests[k] = 1 => k \in DOMAIN outcomes /\ \E c \in DOMAIN runs : k \in Accepted(c)

Answered ==
  \A k \in DOMAIN outcomes :
    /\ k \in Urls /\ outcomes[k].tags \in Seq(Urls \cup {NoUrl})
    /\ outcomes[k].access # NotChecked => requests[k] = 1

(* What a cell resolved is what the outcome of the run says, and while its *)
(* pages are looked at the ones it still has to resolve are those to do.   *)
Settled ==
  \A c \in DOMAIN runs :
    LET resolved == runs[c].resolved
    IN /\ \A k \in DOMAIN resolved :
            /\ regime.enrich /\ k \in DOMAIN outcomes
            /\ resolved[k] = Adjudicate(k, k, outcomes[k], FALSE)
       /\ regime.enrich => \A k \in Accepted(c) :
            k \in DOMAIN resolved \/ (phase = "fetch" /\ c = cell /\ k \in todo)

(* The routing is a function of what it finds, and nothing moves after it. *)
Routed ==
  IF phase = "done"
  THEN DOMAIN runs = regime.cells /\ Homeless = {} /\ made = Made(AllRecords)
  ELSE made = Nothing

IInv == Progress /\ Asked /\ Answered /\ Settled /\ Routed

LEMMA InitHolds == Init => IInv
<1> SUFFICES ASSUME Init PROVE IInv OBVIOUS
<1>1. DOMAIN runs = {} /\ DOMAIN outcomes = {} BY DEF Init
<1> QED BY <1>1 DEF Init, IInv, Progress, Asked, Answered, Settled, Routed, Nothing

LEMMA StartCellKeeps == ASSUME IInv, StartCell PROVE IInv'
<1>1. cell' \in regime.cells \ DOMAIN runs
  <2>1. regime.cells \ DOMAIN runs \in SUBSET Nat /\ regime.cells \ DOMAIN runs # {}
    BY RegimesAssumption, CellsAssumption DEF IInv, Progress, StartCell
  <2> DEFINE S == regime.cells \ DOMAIN runs
  <2>2. \E c \in S : \A d \in S : c <= d
    <3> HIDE DEF S
    <3> QED BY <2>1, FirstCell DEF S
  <2>3. cell' = CHOOSE x \in S : \A y \in S : x =< y BY Zenon DEF StartCell, Min
  <2> HIDE DEF S
  <2> QED BY <2>2, <2>3 DEF S
<1>2. /\ UNCHANGED <<regime, todo, runs, outcomes, requests, made>>
      /\ phase = "next" /\ phase' = "discover"
  BY DEF StartCell
<1>3. Progress' BY <1>1, <1>2 DEF IInv, Progress
<1>4. Asked' /\ Answered' BY <1>2 DEF IInv, Asked, Answered, Accepted
<1>5. Settled' BY <1>2 DEF IInv, Settled, Accepted
<1>6. Routed' BY <1>2 DEF IInv, Routed
<1> QED BY <1>3, <1>4, <1>5, <1>6 DEF IInv

LEMMA DiscoverKeeps == ASSUME IInv, Discover PROVE IInv'
<1>1. UNCHANGED <<regime, phase, cell, todo, runs, outcomes, requests, made>> BY DEF Discover
<1>2. Progress' BY <1>1 DEF IInv, Progress, Accepted
<1>3. Asked' /\ Answered' BY <1>1 DEF IInv, Asked, Answered, Accepted
<1>4. Settled' BY <1>1 DEF IInv, Settled, Accepted
<1>5. Routed' BY <1>1 DEF IInv, Routed, Discover
<1> QED BY <1>2, <1>3, <1>4, <1>5 DEF IInv

(* A cell is judged once, so that the ones before it stay as they are.     *)
LEMMA JudgeKeeps == ASSUME IInv, Judge PROVE IInv'
<1>1. /\ phase = "discover" /\ phase' = "fetch"
      /\ UNCHANGED <<regime, cell, outcomes, requests, made>>
      /\ cell \in regime.cells \ DOMAIN runs
  BY DEF Judge, IInv, Progress
<1>2. PICK run : /\ run = Judged(cell, results, regime.caps)
                 /\ runs' = With(runs, cell, run)
                 /\ todo' = IF regime.enrich THEN AcceptedOf(run) ELSE {}
  BY DEF Judge
<1>3. Shaped(run) /\ run.resolved = <<>> BY <1>2 DEF Judged, Shaped
<1>4. /\ DOMAIN runs' = DOMAIN runs \cup {cell} /\ runs'[cell] = run
      /\ \A c \in DOMAIN runs : runs'[c] = runs[c]
  BY <1>1, <1>2 DEF With
<1>5. Progress'
  <2>1. todo' \subseteq Accepted(cell)' /\ (~regime.enrich => todo' = {})
    BY <1>1, <1>2, <1>4 DEF Accepted
  <2>2. \A c \in DOMAIN runs' : Shaped(runs'[c]) BY <1>3, <1>4 DEF IInv, Progress
  <2>3. DOMAIN runs' \subseteq regime'.cells /\ cell' \in DOMAIN runs'
    BY <1>1, <1>4 DEF IInv, Progress
  <2>4. regime' \in Regimes BY <1>1 DEF IInv, Progress
  <2> QED BY <1>1, <2>1, <2>2, <2>3, <2>4 DEF Progress
<1>6. Asked' /\ Answered' BY <1>1, <1>4 DEF IInv, Asked, Answered, Accepted
<1>7. Settled'
  <2>1. ASSUME NEW c \in DOMAIN runs
        PROVE  /\ \A k \in DOMAIN runs'[c].resolved :
                    /\ regime'.enrich /\ k \in DOMAIN outcomes'
                    /\ runs'[c].resolved[k] = Adjudicate(k, k, outcomes'[k], FALSE)
               /\ regime'.enrich => \A k \in AcceptedOf(runs'[c]) : k \in DOMAIN runs'[c].resolved
    BY <1>1, <1>4 DEF IInv, Settled, Accepted
  <2>2. DOMAIN runs'[cell].resolved = {} BY <1>3, <1>4
  <2>3. regime'.enrich => AcceptedOf(runs'[cell]) = todo' BY <1>1, <1>2, <1>4
  <2> QED BY <1>1, <1>4, <2>1, <2>2, <2>3 DEF Settled, Accepted
<1>8. Routed' BY <1>1 DEF IInv, Routed
<1> QED BY <1>5, <1>6, <1>7, <1>8 DEF IInv

-----------------------------------------------------------------------------
(* The outcome of a page reaches the cell that waits for it, and no other. *)
LEMMA ConcludeKeeps ==
  ASSUME IInv, NEW k \in Urls, Pending(k), NEW outcome, Conclude(k, outcome),
         outcome.tags \in Seq(Urls \cup {NoUrl}),
         k \in DOMAIN outcomes => outcome = outcomes[k]
  PROVE  /\ Progress' /\ Settled' /\ Routed'
         /\ DOMAIN outcomes' = DOMAIN outcomes \cup {k} /\ outcomes'[k] = outcome
         /\ \A l \in DOMAIN outcomes : outcomes'[l] = outcomes[l]
         /\ DOMAIN runs' = DOMAIN runs /\ \A c \in DOMAIN runs : Accepted(c)' = Accepted(c)
         /\ cell \in DOMAIN runs /\ k \in Accepted(cell)
<1>1. k \in todo /\ phase = "fetch"
  BY DEF Pending
<1>2. cell \in DOMAIN runs /\ k \in Accepted(cell) /\ Shaped(runs[cell])
  BY <1>1 DEF IInv, Progress
<1>3. /\ outcomes' = With(outcomes, k, outcome)
      /\ runs' = [runs EXCEPT ![cell].resolved = With(@, k, Adjudicate(k, k, outcome, FALSE))]
      /\ todo' = todo \ {k} /\ UNCHANGED <<regime, phase, cell, made>>
  BY DEF Conclude
<1>4. /\ DOMAIN outcomes' = DOMAIN outcomes \cup {k} /\ outcomes'[k] = outcome
      /\ \A l \in DOMAIN outcomes : outcomes'[l] = outcomes[l]
  BY <1>3 DEF With
<1> DEFINE r == runs[cell]
           s == With(r.resolved, k, Adjudicate(k, k, outcome, FALSE))
<1>5. /\ DOMAIN runs' = DOMAIN runs /\ \A c \in DOMAIN runs \ {cell} : runs'[c] = runs[c]
      /\ runs'[cell] = [sightings |-> r.sightings, failures |-> r.failures,
                        cases |-> r.cases, resolved |-> s]
  <2>1. runs'[cell] = [r EXCEPT !.resolved = s] BY <1>2, <1>3
  <2>2. [r EXCEPT !.resolved = s] = [sightings |-> r.sightings, failures |-> r.failures,
                                     cases |-> r.cases, resolved |-> s]
    <3> HIDE DEF r, s
    <3> QED BY <1>2 DEF Shaped, r
  <2> QED BY <1>3, <2>1, <2>2
<1>6. \A c \in DOMAIN runs : AcceptedOf(runs'[c]) = AcceptedOf(runs[c])
  <2>1. AcceptedOf(runs'[cell]) = AcceptedOf(runs[cell]) BY <1>5 DEF AcceptedOf
  <2> QED BY <1>5, <2>1
<1>7. \A c \in DOMAIN runs : Accepted(c)' = Accepted(c) BY <1>5, <1>6 DEF Accepted
<1>8. regime.enrich BY <1>1 DEF IInv, Progress
<1>9. Progress'
  <2>1. \A c \in DOMAIN runs' : Shaped(runs'[c])
    BY <1>5 DEF IInv, Progress, Shaped
  <2>2. todo' \subseteq Accepted(cell)' BY <1>1, <1>2, <1>3, <1>7 DEF IInv, Progress
  <2> QED BY <1>1, <1>2, <1>3, <1>5, <1>8, <2>1, <2>2 DEF IInv, Progress
<1>10. Settled'
  <2>1. DOMAIN s = DOMAIN r.resolved \cup {k} /\ s[k] = Adjudicate(k, k, outcome, FALSE)
        /\ \A l \in DOMAIN r.resolved \ {k} : s[l] = r.resolved[l]
    BY Zenon DEF With
  <2>2. ASSUME NEW c \in DOMAIN runs', NEW l \in DOMAIN runs'[c].resolved
        PROVE  /\ regime'.enrich /\ l \in DOMAIN outcomes'
               /\ runs'[c].resolved[l] = Adjudicate(l, l, outcomes'[l], FALSE)
    <3> HIDE DEF s
    <3>1. CASE c = cell /\ l = k
      <4>1. runs'[c].resolved = s BY <1>5, <3>1
      <4>2. regime'.enrich /\ l \in DOMAIN outcomes' /\ outcomes'[l] = outcome
        BY <1>3, <1>4, <1>8, <3>1
      <4> QED BY <2>1, <3>1, <4>1, <4>2, Zenon
    <3>2. CASE c = cell /\ l # k
      <4>1. l \in DOMAIN r.resolved /\ runs'[c].resolved[l] = r.resolved[l]
        BY <1>5, <2>1, <2>2, <3>2
      <4>2. l \in DOMAIN outcomes /\ r.resolved[l] = Adjudicate(l, l, outcomes[l], FALSE)
        BY <1>2, <4>1 DEF IInv, Settled
      <4> QED BY <1>3, <1>4, <1>8, <4>1, <4>2
    <3>3. CASE c # cell
      <4>1. c \in DOMAIN runs /\ runs'[c] = runs[c] BY <1>5, <2>2, <3>3
      <4>2. l \in DOMAIN outcomes /\ runs[c].resolved[l] = Adjudicate(l, l, outcomes[l], FALSE)
        BY <2>2, <4>1 DEF IInv, Settled
      <4> QED BY <1>3, <1>4, <1>8, <4>1, <4>2
    <3> QED BY <3>1, <3>2, <3>3
  <2>3. ASSUME NEW c \in DOMAIN runs', NEW l \in AcceptedOf(runs'[c])
        PROVE  l \in DOMAIN runs'[c].resolved \/ (phase' = "fetch" /\ c = cell' /\ l \in todo')
    <3> HIDE DEF s
    <3>1. c \in DOMAIN runs /\ l \in Accepted(c) BY <1>5, <1>6, <2>3 DEF Accepted
    <3>2. l \in DOMAIN runs[c].resolved \/ (c = cell /\ l \in todo)
      BY <1>8, <3>1 DEF IInv, Settled
    <3> QED BY <1>1, <1>3, <1>5, <2>1, <3>1, <3>2
  <2> HIDE DEF r, s
  <2> QED BY <2>2, <2>3 DEF Settled, Accepted
<1>11. Routed' BY <1>1, <1>3 DEF IInv, Routed
<1> QED BY <1>2, <1>4, <1>5, <1>7, <1>9, <1>10, <1>11

(* Only an identity without an outcome is asked for, and it gets one.      *)
LEMMA FetchTargetKeeps == ASSUME IInv, FetchTarget PROVE IInv'
<1>1. PICK k \in Urls :
        /\ Pending(k) /\ Unowned(k)
        /\ \/ \E answer \in Answers[k] : Conclude(k, Outcome(TargetOf(k), answer))
           \/ Conclude(k, Unfetched(TargetOf(k)))
        /\ requests' = [requests EXCEPT ![k] = @ + 1]
  BY DEF FetchTarget
<1>2. \A answer \in Answers[k] : Outcome(TargetOf(k), answer).tags \in Seq(Urls \cup {NoUrl})
  BY AnswersAssumption DEF Outcome
<1>3. Unfetched(TargetOf(k)).tags \in Seq(Urls \cup {NoUrl}) BY DEF Unfetched, Outcome, Failure
<1>4. PICK outcome : Conclude(k, outcome) /\ outcome.tags \in Seq(Urls \cup {NoUrl})
  BY <1>1, <1>2, <1>3
<1>5. k \notin DOMAIN outcomes BY <1>1 DEF Unowned
<1>6. /\ Progress' /\ Settled' /\ Routed'
      /\ DOMAIN outcomes' = DOMAIN outcomes \cup {k} /\ outcomes'[k] = outcome
      /\ \A l \in DOMAIN outcomes : outcomes'[l] = outcomes[l]
      /\ DOMAIN runs' = DOMAIN runs /\ \A c \in DOMAIN runs : Accepted(c)' = Accepted(c)
      /\ cell \in DOMAIN runs /\ k \in Accepted(cell)
  BY <1>1, <1>4, <1>5, ConcludeKeeps
<1>7. requests[k] = 0 BY <1>5 DEF IInv, Asked
<1>8. requests' \in [Urls -> Nat] /\ requests'[k] = 1 /\ \A l \in Urls \ {k} : requests'[l] = requests[l]
  BY <1>1, <1>7 DEF IInv, Asked
<1>9. Asked' BY <1>6, <1>8 DEF IInv, Asked
<1>10. Answered' BY <1>4, <1>5, <1>6, <1>8 DEF IInv, Answered
<1> QED BY <1>6, <1>9, <1>10 DEF IInv

LEMMA SkipTargetKeeps == ASSUME IInv, SkipTarget PROVE IInv'
<1>1. PICK k \in Urls : /\ Pending(k) /\ Unowned(k) /\ Conclude(k, Unfetched(TargetOf(k)))
                        /\ UNCHANGED requests
  BY DEF SkipTarget
<1> DEFINE outcome == Unfetched(TargetOf(k))
<1>2. outcome.tags \in Seq(Urls \cup {NoUrl}) /\ outcome.access = NotChecked
  BY DEF Unfetched, Outcome, Failure, AccessStatusFor, NoError
<1>3. k \notin DOMAIN outcomes BY <1>1 DEF Unowned
<1>4. /\ Progress' /\ Settled' /\ Routed'
      /\ DOMAIN outcomes' = DOMAIN outcomes \cup {k} /\ outcomes'[k] = outcome
      /\ \A l \in DOMAIN outcomes : outcomes'[l] = outcomes[l]
      /\ DOMAIN runs' = DOMAIN runs /\ \A c \in DOMAIN runs : Accepted(c)' = Accepted(c)
  <2> HIDE DEF outcome
  <2>1. Conclude(k, outcome) BY <1>1 DEF outcome
  <2> QED BY <1>1, <1>2, <1>3, <2>1, ConcludeKeeps
<1> HIDE DEF outcome
<1>5. Asked' BY <1>1, <1>4 DEF IInv, Asked
<1>6. Answered' BY <1>1, <1>2, <1>3, <1>4 DEF IInv, Answered
<1> QED BY <1>4, <1>5, <1>6 DEF IInv

LEMMA ReuseOutcomeKeeps == ASSUME IInv, ReuseOutcome PROVE IInv'
<1>1. PICK k \in Urls : /\ Pending(k) /\ ~Unowned(k) /\ Conclude(k, outcomes[k])
                        /\ UNCHANGED requests
  BY DEF ReuseOutcome
<1>2. k \in DOMAIN outcomes BY <1>1 DEF Unowned
<1>3. outcomes[k].tags \in Seq(Urls \cup {NoUrl}) BY <1>2 DEF IInv, Answered
<1>4. /\ Progress' /\ Settled' /\ Routed'
      /\ DOMAIN outcomes' = DOMAIN outcomes \cup {k} /\ outcomes'[k] = outcomes[k]
      /\ \A l \in DOMAIN outcomes : outcomes'[l] = outcomes[l]
      /\ DOMAIN runs' = DOMAIN runs /\ \A c \in DOMAIN runs : Accepted(c)' = Accepted(c)
  <2> DEFINE outcome == outcomes[k]
  <2>1. Conclude(k, outcome) /\ outcome.tags \in Seq(Urls \cup {NoUrl}) BY <1>1, <1>3
  <2> HIDE DEF outcome
  <2> QED BY <1>1, <2>1, ConcludeKeeps DEF outcome
<1>5. Asked' BY <1>1, <1>4 DEF IInv, Asked
<1>6. Answered' BY <1>1, <1>2, <1>4 DEF IInv, Answered
<1> QED BY <1>4, <1>5, <1>6 DEF IInv

-----------------------------------------------------------------------------
(* A cell is closed when nothing is left to do, and then every page of it  *)
(* has its outcome.                                                        *)
LEMMA CloseCellKeeps == ASSUME IInv, CloseCell PROVE IInv'
<1>1. /\ UNCHANGED <<regime, todo, runs, outcomes, requests, made>>
      /\ phase = "fetch" /\ phase' = "next" /\ todo = {}
  BY DEF CloseCell
<1>2. Progress' BY <1>1 DEF IInv, Progress
<1>3. Asked' /\ Answered' BY <1>1 DEF IInv, Asked, Answered, Accepted
<1>4. Settled' BY <1>1 DEF IInv, Settled, Accepted
<1>5. Routed' BY <1>1 DEF IInv, Routed
<1> QED BY <1>2, <1>3, <1>4, <1>5 DEF IInv

(* A run that raises, out of time or for a record without a cell.          *)
LEMMA RaiseKeeps == ASSUME IInv, OutOfTime \/ Refuse PROVE IInv'
<1>1. /\ UNCHANGED <<regime, todo, runs, outcomes, requests, made>>
      /\ phase = "next" /\ phase' = "raised"
  BY DEF OutOfTime, Refuse, AllRun
<1>2. Progress' BY <1>1 DEF IInv, Progress
<1>3. Asked' /\ Answered' BY <1>1 DEF IInv, Asked, Answered, Accepted
<1>4. Settled' BY <1>1 DEF IInv, Settled, Accepted
<1>5. Routed' BY <1>1 DEF IInv, Routed
<1> QED BY <1>2, <1>3, <1>4, <1>5 DEF IInv

(* What the routing makes depends on these variables only.                 *)
LEMMA RoutingIsAFunction ==
  ASSUME UNCHANGED <<regime, runs, outcomes>>
  PROVE  Homeless' = Homeless /\ Made(AllRecords)' = Made(AllRecords)
<1>1. /\ \A c, k : Case(c, k)' = Case(c, k)
      /\ \A c : Accepted(c)' = Accepted(c) /\ Kept(c)' = Kept(c)
  BY DEF Case, Accepted, Kept
<1>2. \A c, k : Home(c, k)' = Home(c, k) BY <1>1 DEF Home
<1>3. \A c, k : FullRecord(c, k)' = FullRecord(c, k) BY <1>1, <1>2 DEF FullRecord
<1>4. \A c, k : Pointers(c, k)' = Pointers(c, k) BY <1>1, <1>2 DEF Pointers
<1>5. AllRecords' = AllRecords BY <1>1, <1>3, <1>4 DEF AllRecords
<1>6. Homeless' = Homeless BY <1>5 DEF Homeless
<1>7. \A c : Rejected(c)' = Rejected(c) BY <1>1 DEF Rejected
<1>8. \A c : ZeroReason(c)' = ZeroReason(c)
  <2>1. ASSUME NEW c, NEW i PROVE Votes(c, i)' = Votes(c, i)
    <3>1. {k \in Rejected(c)' : ReasonFor(Case(c, k)'.verdict) = ReasonPrecedence[i]}
            = {k \in Rejected(c) : ReasonFor(Case(c, k).verdict) = ReasonPrecedence[i]}
      BY <1>1, <1>7
    <3> QED BY <3>1 DEF Votes
  <2>2. ASSUME NEW c PROVE MostFrequent(c)' = MostFrequent(c) BY <2>1 DEF MostFrequent
  <2> QED BY <1>7, <2>2 DEF ZeroReason
<1>9. \A c, a : CellRow(c, a)' = CellRow(c, a) BY <1>1, <1>8 DEF CellRow
<1>10. \A rows, records : Eligible(rows, records)' = Eligible(rows, records) BY DEF Eligible
<1>11. ASSUME NEW all PROVE Made(all)' = Made(all)
  <2> DEFINE artifacts == [c \in regime.cells |-> Deduped({r \in all : r.cell = c})]
             rows == [c \in regime.cells |-> CellRow(c, artifacts[c])]
             conflicts == UNION {UNION {runs[c].resolved[k].conflicts :
                                    k \in DOMAIN runs[c].resolved} : c \in DOMAIN runs}
  <2>1. artifacts' = artifacts OBVIOUS
  <2>2. rows' = rows
    <3> HIDE DEF artifacts
    <3> QED BY <1>9, <2>1
  <2>3. conflicts' = conflicts OBVIOUS
  <2>4. Made(all) = [artifacts |-> artifacts, records |-> Deduped(all), rows |-> rows,
                     conflicts |-> conflicts, coverage |-> CoverageReport(Deduped(all)),
                     eligible |-> Eligible(rows, Deduped(all))]
    BY Zenon DEF Made
  <2>5. Made(all)' = [artifacts |-> artifacts', records |-> Deduped(all), rows |-> rows',
                      conflicts |-> conflicts', coverage |-> CoverageReport(Deduped(all)),
                      eligible |-> Eligible(rows, Deduped(all))']
    BY Zenon DEF Made
  <2>6. Eligible(rows, Deduped(all))' = Eligible(rows, Deduped(all)) BY <2>2 DEF Eligible
  <2> HIDE DEF artifacts, rows, conflicts
  <2> QED BY <2>1, <2>2, <2>3, <2>4, <2>5, <2>6
<1> QED BY <1>5, <1>6, <1>11

LEMMA RouteKeeps == ASSUME IInv, Route PROVE IInv'
<1>1. /\ UNCHANGED <<regime, todo, runs, outcomes, requests>>
      /\ phase = "next" /\ phase' = "done" /\ DOMAIN runs = regime.cells
      /\ Homeless = {} /\ made' = Made(AllRecords)
  BY DEF Route, AllRun
<1>2. Progress' BY <1>1 DEF IInv, Progress
<1>3. Asked' /\ Answered' BY <1>1 DEF IInv, Asked, Answered, Accepted
<1>4. Settled' BY <1>1 DEF IInv, Settled, Accepted
<1>5. Routed'
  <2>1. Homeless' = Homeless /\ Made(AllRecords)' = Made(AllRecords) BY <1>1, RoutingIsAFunction
  <2> QED BY <1>1, <2>1 DEF Routed
<1> QED BY <1>2, <1>3, <1>4, <1>5 DEF IInv

LEMMA StutterKeeps == ASSUME IInv, UNCHANGED vars PROVE IInv'
<1>1. UNCHANGED <<regime, phase, cell, todo, runs, outcomes, requests, made>> BY DEF vars
<1>2. Progress' BY <1>1 DEF IInv, Progress, Accepted
<1>3. Asked' /\ Answered' BY <1>1 DEF IInv, Asked, Answered, Accepted
<1>4. Settled' BY <1>1 DEF IInv, Settled, Accepted
<1>5. Routed'
  <2>1. Homeless' = Homeless /\ Made(AllRecords)' = Made(AllRecords) BY <1>1, RoutingIsAFunction
  <2> QED BY <1>1, <2>1 DEF IInv, Routed
<1> QED BY <1>2, <1>3, <1>4, <1>5 DEF IInv

(* The invariant of a run, whatever the sources deliver and the pages      *)
(* answer.                                                                 *)
THEOREM IInvHolds == Spec => []IInv
<1>1. IInv /\ [Next]_vars => IInv'
  BY StartCellKeeps, DiscoverKeeps, JudgeKeeps, FetchTargetKeeps, SkipTargetKeeps,
     ReuseOutcomeKeeps, CloseCellKeeps, RaiseKeeps, RouteKeeps, StutterKeeps DEF Next, Ended
<1> QED BY InitHolds, <1>1, PTL DEF Spec

-----------------------------------------------------------------------------
(* What a routed state is made of.                                         *)

LEMMA RecordsAre ==
  ASSUME IInv, phase = "done", NEW r \in AllRecords
  PROVE  /\ r.cell \in regime.cells /\ r.cell \in Nat
         /\ \E c \in DOMAIN runs : \E k \in Accepted(c) :
              /\ r = FullRecord(c, k) \/ r \in Pointers(c, k)
              /\ r.topic = TopicOf[r.cell] /\ r.key = k
<1>1. r.cell \in regime.cells BY DEF IInv, Routed, Homeless
<1>2. r.cell \in Nat BY <1>1, RegimesAssumption, CellsAssumption DEF IInv, Progress
<1>3. PICK c \in DOMAIN runs :
        \E k \in Accepted(c) : r = FullRecord(c, k) \/ r \in Pointers(c, k)
  BY DEF AllRecords
<1>4. PICK k \in Accepted(c) : r = FullRecord(c, k) \/ r \in Pointers(c, k) BY <1>3
<1>5. r.topic = TopicOf[r.cell] /\ r.key = k BY <1>4 DEF FullRecord, Pointers
<1> QED BY <1>1, <1>2, <1>4, <1>5

LEMMA MadeIs ==
  ASSUME IInv, phase = "done"
  PROVE  /\ made.artifacts = [c \in regime.cells |-> Deduped({r \in AllRecords : r.cell = c})]
         /\ made.records = Deduped(AllRecords)
         /\ made.rows = [c \in regime.cells |-> CellRow(c, made.artifacts[c])]
         /\ made.coverage = CoverageReport(made.records)
         /\ made.eligible = Eligible(made.rows, made.records)
         /\ DOMAIN runs = regime.cells
<1>1. made = Made(AllRecords) /\ DOMAIN runs = regime.cells BY DEF IInv, Routed
<1> DEFINE all == AllRecords
<1>2. made = Made(all) BY <1>1
<1> HIDE DEF all
<1> DEFINE a == [c \in regime.cells |-> Deduped({r \in all : r.cell = c})]
           w == [c \in regime.cells |-> CellRow(c, a[c])]
<1>3. made.artifacts = a /\ made.records = Deduped(all) /\ made.rows = w
      /\ made.eligible = Eligible(w, Deduped(all))
      /\ made.coverage = CoverageReport(Deduped(all))
  BY <1>2 DEF Made
<1> QED BY <1>1, <1>3 DEF all

(* An artifact holds records of its cell, and of one topic and key the     *)
(* first: a full record whenever there is one.                             *)
LEMMA ArtifactsHold ==
  ASSUME IInv, phase = "done", NEW c \in regime.cells
  PROVE  /\ \A r \in made.artifacts[c] :
              /\ r \in AllRecords /\ r.cell = c
              /\ \A q \in AllRecords : q.cell = c /\ q.topic = r.topic /\ q.key = r.key
                                         => NotAfter(r, q)
         /\ \A q \in AllRecords : q.cell = c =>
              \E r \in made.artifacts[c] : r.topic = q.topic /\ r.key = q.key /\ NotAfter(r, q)
<1> DEFINE here == {r \in AllRecords : r.cell = c}
<1>1. made.artifacts[c] = Deduped(here) BY MadeIs
<1>2. \A r \in here : r.cell \in Nat BY RecordsAre
<1>3. \A r \in Deduped(here) :
        /\ r \in here
        /\ \A q \in here : q.topic = r.topic /\ q.key = r.key => NotAfter(r, q)
  <2> HIDE DEF here
  <2> QED BY <1>2, DedupedIsFirst
<1>4. \A q \in here : \E r \in Deduped(here) : r.topic = q.topic /\ r.key = q.key /\ NotAfter(r, q)
  <2> HIDE DEF here
  <2> QED BY <1>2, DedupedHolds
<1> QED BY <1>1, <1>3, <1>4

(* The record of an accepted identity is in the artifact of its cell.      *)
LEMMA AcceptedIsHeld ==
  ASSUME IInv, phase = "done", NEW c \in DOMAIN runs, NEW k \in Accepted(c)
  PROVE  /\ Home(c, k) \in regime.cells
         /\ \E r \in made.artifacts[Home(c, k)] :
              r.type = "full" /\ r.key = k /\ r.topic = TopicOf[Home(c, k)] /\ r.cell = Home(c, k)
<1> DEFINE q == FullRecord(c, k)
<1>1. q \in AllRecords BY DEF AllRecords
<1>2. q.type = "full" /\ q.cell = Home(c, k) /\ q.key = k /\ q.topic = TopicOf[Home(c, k)]
  BY DEF FullRecord
<1>3. q.cell \in regime.cells /\ q.cell \in Nat BY <1>1, RecordsAre
<1> HIDE DEF q
<1>4. PICK r \in made.artifacts[q.cell] : r.topic = q.topic /\ r.key = q.key /\ NotAfter(r, q)
  BY <1>1, <1>3, ArtifactsHold
<1>5. r.cell = q.cell BY <1>3, <1>4, ArtifactsHold
<1>6. r.type = "full" BY <1>2, <1>3, <1>4, <1>5 DEF NotAfter
<1> QED BY <1>2, <1>3, <1>4, <1>5, <1>6

-----------------------------------------------------------------------------
(* The properties.                                                         *)

(* A full record carries what the run knows of its identity, in whichever  *)
(* cell it was accepted.                                                   *)
LEMMA FullRecordIs ==
  ASSUME IInv, phase = "done", NEW r \in AllRecords, r.type = "full"
  PROVE  /\ \E c \in DOMAIN runs : r.key \in Accepted(c) /\ Home(c, r.key) = r.cell
         /\ IF regime.enrich
            THEN LET a == Adjudicate(r.key, r.key, outcomes[r.key], FALSE)
                 IN /\ r.key \in DOMAIN outcomes /\ r.access = outcomes[r.key].access
                    /\ r.canonical = a.canonical /\ r.aliases = a.aliases
            ELSE r.access = NotChecked /\ r.canonical = r.key /\ r.aliases = {}
<1>1. PICK c \in DOMAIN runs :
        \E k \in Accepted(c) : (r = FullRecord(c, k) \/ r \in Pointers(c, k)) /\ r.key = k
  BY RecordsAre
<1>2. r.key \in Accepted(c) /\ (r = FullRecord(c, r.key) \/ r \in Pointers(c, r.key)) BY <1>1
<1>3. r = FullRecord(c, r.key) BY <1>2 DEF Pointers
<1> DEFINE k == r.key
           known == runs[c].resolved
<1>4. /\ r.cell = Home(c, k)
      /\ r.access = IF k \in DOMAIN known THEN outcomes[k].access ELSE NotChecked
      /\ r.canonical = IF k \in DOMAIN known THEN known[k].canonical ELSE k
      /\ r.aliases = IF k \in DOMAIN known THEN known[k].aliases ELSE {}
  <2>1. \A l : r = FullRecord(c, l) =>
          /\ r.cell = Home(c, l)
          /\ r.access = IF l \in DOMAIN known THEN outcomes[l].access ELSE NotChecked
          /\ r.canonical = IF l \in DOMAIN known THEN known[l].canonical ELSE l
          /\ r.aliases = IF l \in DOMAIN known THEN known[l].aliases ELSE {}
    BY DEF FullRecord
  <2> QED BY <1>3, <2>1
<1>5. CASE regime.enrich
  <2>1. k \in DOMAIN known BY <1>2, <1>5 DEF IInv, Settled
  <2>2. k \in DOMAIN outcomes /\ known[k] = Adjudicate(k, k, outcomes[k], FALSE)
    BY <2>1 DEF IInv, Settled
  <2> QED BY <1>2, <1>4, <1>5, <2>1, <2>2
<1>6. CASE ~regime.enrich
  <2>1. k \notin DOMAIN known BY <1>6 DEF IInv, Settled
  <2> QED BY <1>2, <1>4, <1>6, <2>1
<1> QED BY <1>5, <1>6

LEMMA OneRequestFollows == ASSUME IInv PROVE OneRequest
<1>1. \A k \in Urls : /\ requests[k] <= 1
                      /\ requests[k] = 1 => \E c \in DOMAIN runs : k \in Accepted(c)
  BY DEF IInv, Asked
<1>2. ASSUME phase = "done", NEW c \in DOMAIN made.artifacts, NEW d \in DOMAIN made.artifacts,
             NEW r \in made.artifacts[c], NEW q \in made.artifacts[d],
             r.type = "full", q.type = "full", r.key = q.key
      PROVE  /\ <<r.access, r.canonical, r.aliases>> = <<q.access, q.canonical, q.aliases>>
             /\ r.access # NotChecked => requests[r.key] = 1
  <2>1. c \in regime.cells /\ d \in regime.cells BY <1>2, MadeIs
  <2>2. r \in AllRecords /\ q \in AllRecords BY <1>2, <2>1, ArtifactsHold
  <2>3. <<r.access, r.canonical, r.aliases>> = <<q.access, q.canonical, q.aliases>>
    <3>1. CASE regime.enrich BY <1>2, <2>2, <3>1, FullRecordIs
    <3>2. CASE ~regime.enrich BY <1>2, <2>2, <3>2, FullRecordIs
    <3> QED BY <3>1, <3>2
  <2>4. r.access # NotChecked => r.key \in DOMAIN outcomes /\ r.access = outcomes[r.key].access
    BY <1>2, <2>2, FullRecordIs
  <2> QED BY <2>3, <2>4 DEF IInv, Answered
<1> QED BY <1>1, <1>2 DEF OneRequest

LEMMA NothingLostFollows == ASSUME IInv PROVE NothingLost
<1> SUFFICES ASSUME phase = "done" PROVE NothingLost BY DEF NothingLost
<1>1. DOMAIN made.artifacts = regime.cells BY MadeIs
<1>2. \A c \in DOMAIN runs : \A k \in Accepted(c) :
        \E r \in made.artifacts[Home(c, k)] : r.type = "full" /\ r.key = k
  BY AcceptedIsHeld
<1>3. ASSUME NEW c \in regime.cells, NEW r \in made.artifacts[c]
      PROVE  \/ /\ r.type = "full"
                /\ \E d \in DOMAIN runs : r.key \in Accepted(d) /\ Home(d, r.key) = c
             \/ /\ r.type = "cross_reference" /\ r.owner # r.topic
                /\ \E d \in DOMAIN made.artifacts : \E q \in made.artifacts[d] :
                     q.type = "full" /\ q.topic = r.owner /\ q.key = r.key
  <2>1. r \in AllRecords /\ r.cell = c BY <1>3, ArtifactsHold
  <2>2. CASE r.type = "full" BY <2>1, <2>2, FullRecordIs
  <2>3. CASE r.type # "full"
    <3>1. PICK d \in DOMAIN runs :
            \E k \in Accepted(d) : (r = FullRecord(d, k) \/ r \in Pointers(d, k)) /\ r.key = k
      BY <2>1, RecordsAre
    <3>2. PICK k \in Accepted(d) : r \in Pointers(d, k) /\ r.key = k
      BY <2>3, <3>1 DEF FullRecord
    <3>3. r.type = "cross_reference" /\ r.owner = TopicOf[Home(d, k)] /\ r.owner # r.topic
      BY <3>2 DEF Pointers
    <3>4. PICK q \in made.artifacts[Home(d, k)] :
            q.type = "full" /\ q.key = k /\ q.topic = TopicOf[Home(d, k)]
      BY AcceptedIsHeld
    <3>5. Home(d, k) \in DOMAIN made.artifacts BY <1>1, AcceptedIsHeld
    <3> QED BY <3>2, <3>3, <3>4, <3>5
  <2> QED BY <2>2, <2>3
<1> QED BY <1>1, <1>2, <1>3 DEF NothingLost

LEMMA ZeroIsHonestFollows == ASSUME IInv PROVE ZeroIsHonest
<1> SUFFICES ASSUME phase = "done", NEW c \in DOMAIN made.rows
             PROVE  /\ made.rows[c].status = "zero_result" =>
                         /\ Accepted(c) = {} /\ made.artifacts[c] = {}
                         /\ Rejected(c) # {} \/ runs[c].failures = {}
                    /\ made.rows[c].status \in ErrorStatuses =>
                         Kept(c) = {} /\ made.artifacts[c] = {} /\ runs[c].failures # {}
  BY DEF ZeroIsHonest
<1>1. made.rows[c] = CellRow(c, made.artifacts[c]) BY MadeIs
<1> QED BY <1>1 DEF CellRow, ErrorStatuses, Rejected

LEMMA EligibleMeansCheckedFollows == ASSUME IInv PROVE EligibleMeansChecked
<1> SUFFICES ASSUME made.eligible PROVE EligibleMeansChecked BY DEF EligibleMeansChecked
<1>1. phase = "done" BY DEF IInv, Routed, Nothing
<1> DEFINE held == {r.key : r \in {q \in made.records : q.type = "full"}}
<1>2. ASSUME NEW k \in held
      PROVE  regime.enrich /\ k \in DOMAIN outcomes /\ outcomes[k].access # NotChecked
  <2>1. PICK r \in made.records : r.type = "full" /\ r.key = k BY <1>2
  <2>2. r \in AllRecords
    <3>1. \A q \in AllRecords : q.cell \in Nat BY <1>1, RecordsAre
    <3>2. r \in Deduped(AllRecords) BY <1>1, <2>1, MadeIs
    <3> DEFINE all == AllRecords
    <3> HIDE DEF all
    <3>3. r \in Deduped(all) /\ \A q \in all : q.cell \in Nat BY <3>1, <3>2 DEF all
    <3>4. r \in all BY <3>3, DedupedIsFirst
    <3> QED BY <3>4 DEF all
  <2>3. Eligible(made.rows, made.records) BY <1>1, MadeIs
  <2>4. r.access # NotChecked BY <2>1, <2>3 DEF Eligible
  <2> QED BY <1>1, <2>1, <2>2, <2>4, FullRecordIs
<1>3. ASSUME NEW c \in DOMAIN made.artifacts, NEW r \in made.artifacts[c],
             r.type = "full", r.key \in held
      PROVE  r.access # NotChecked
  <2>1. r \in AllRecords BY <1>1, <1>3, MadeIs, ArtifactsHold
  <2>2. regime.enrich /\ outcomes[r.key].access # NotChecked BY <1>2, <1>3
  <2> QED BY <1>1, <1>3, <2>1, <2>2, FullRecordIs
<1> HIDE DEF held
<1>4. \A c \in DOMAIN runs : \A k \in Accepted(c) \cap held :
        k \in DOMAIN outcomes /\ outcomes[k].access # NotChecked
  BY <1>2
<1> QED BY <1>3, <1>4 DEF EligibleMeansChecked, held

(* Without a robots verdict, only redirects that are permanent and tags of *)
(* a migration move a preferred URL.                                       *)
LEMMA AdjudicateEarns ==
  ASSUME NEW k, NEW outcome, outcome.tags \in Seq(Urls \cup {NoUrl})
  PROVE  LET a == Adjudicate(k, k, outcome, FALSE)
         IN /\ a.canonical # k =>
                 \/ outcome.permanent /\ a.canonical = outcome.final
                 \/ /\ a.canonical \in {outcome.tags[i] : i \in DOMAIN outcome.tags}
                    /\ \E from \in {k, outcome.final} :
                         <<Host[from], Host[a.canonical]>> \in Migrations
            /\ \A x \in a.aliases : x.kind # "canonical_tag"
<1> DEFINE moved == Redirected(k, outcome)
           current == IF moved THEN outcome.final ELSE k
           tag == TagVerdict(current, outcome, FALSE)
           a == Adjudicate(k, k, outcome, FALSE)
<1>1. moved => outcome.permanent BY DEF Redirected
<1>2. tag.verdict \in TrustedTags =>
        /\ tag.verdict = "domain_rule"
        /\ tag.proposed \in {outcome.tags[i] : i \in DOMAIN outcome.tags}
        /\ <<Host[current], Host[tag.proposed]>> \in Migrations
  <2> DEFINE now == current
  <2> HIDE DEF now
  <2>1. ASSUME NEW u, TagVerdict(u, outcome, FALSE).verdict \in TrustedTags
        PROVE  LET t == TagVerdict(u, outcome, FALSE)
               IN /\ t.verdict = "domain_rule"
                  /\ t.proposed = outcome.tags[1] /\ outcome.tags # <<>>
                  /\ <<Host[u], Host[t.proposed]>> \in Migrations
    <3> HIDE DEF a, tag, current, moved
    <3>1. CASE outcome.tags = <<>> BY <2>1, <3>1 DEF TagVerdict, TrustedTags
    <3>2. CASE outcome.tags # <<>> /\ \E i \in DOMAIN outcome.tags : outcome.tags[i] = NoUrl
      BY <2>1, <3>2 DEF TagVerdict, TrustedTags
    <3>3. CASE outcome.tags # <<>> /\ ~(\E i \in DOMAIN outcome.tags : outcome.tags[i] = NoUrl)
      BY <2>1, <3>3 DEF TagVerdict, TrustedTags
    <3> QED BY <3>1, <3>2, <3>3
  <2>2. outcome.tags # <<>> => 1 \in DOMAIN outcome.tags OBVIOUS
  <2> QED BY <2>1, <2>2
<1>3. /\ a.canonical = IF tag.verdict \in TrustedTags THEN tag.proposed ELSE current
      /\ \A x \in a.aliases : \/ x = Alias(current, "permanent_redirect")
                              \/ tag.verdict \in TrustedTags /\ x = Alias(tag.proposed, tag.verdict)
  <2> HIDE DEF tag
  <2> QED BY DEF Adjudicate, tag
<1>4. current \in {k, outcome.final} OBVIOUS
<1> HIDE DEF a, tag
<1>5. a.canonical # k =>
        \/ outcome.permanent /\ a.canonical = outcome.final
        \/ /\ a.canonical \in {outcome.tags[i] : i \in DOMAIN outcome.tags}
           /\ \E from \in {k, outcome.final} : <<Host[from], Host[a.canonical]>> \in Migrations
  BY <1>1, <1>2, <1>3, <1>4
<1>6. \A x \in a.aliases : x.kind # "canonical_tag" BY <1>2, <1>3 DEF Alias
<1> QED BY <1>5, <1>6 DEF a

LEMMA CanonicalEarnedFollows == ASSUME IInv PROVE CanonicalEarned
<1> SUFFICES ASSUME phase = "done", NEW r \in made.records
             PROVE  /\ r.canonical # r.key =>
                         \/ outcomes[r.key].permanent /\ r.canonical = outcomes[r.key].final
                         \/ /\ r.canonical \in {outcomes[r.key].tags[i] : i \in DOMAIN outcomes[r.key].tags}
                            /\ \E from \in {r.key, outcomes[r.key].final} :
                                 <<Host[from], Host[r.canonical]>> \in Migrations
                    /\ \A a \in r.aliases : a.kind # "canonical_tag"
  BY DEF CanonicalEarned
<1> DEFINE all == AllRecords
<1>1. r \in all
  <2>1. r \in Deduped(all) /\ \A q \in all : q.cell \in Nat BY MadeIs, RecordsAre
  <2> HIDE DEF all
  <2> QED BY <2>1, DedupedIsFirst
<1>2. CASE r.type = "full" /\ regime.enrich
  <2>1. r.key \in DOMAIN outcomes /\ outcomes[r.key].tags \in Seq(Urls \cup {NoUrl})
    BY <1>1, <1>2, FullRecordIs DEF IInv, Answered
  <2> DEFINE k == r.key
             o == outcomes[r.key]
             a == Adjudicate(k, k, o, FALSE)
  <2>2. r.canonical = a.canonical /\ r.aliases = a.aliases BY <1>1, <1>2, FullRecordIs
  <2> HIDE DEF k, o
  <2>3. o.tags \in Seq(Urls \cup {NoUrl}) BY <2>1 DEF o
  <2>4. /\ a.canonical # k =>
             \/ o.permanent /\ a.canonical = o.final
             \/ /\ a.canonical \in {o.tags[i] : i \in DOMAIN o.tags}
                /\ \E from \in {k, o.final} : <<Host[from], Host[a.canonical]>> \in Migrations
        /\ \A x \in a.aliases : x.kind # "canonical_tag"
    BY <2>3, AdjudicateEarns
  <2> HIDE DEF a
  <2> QED BY <2>2, <2>4 DEF k, o
<1>3. CASE r.type = "full" /\ ~regime.enrich BY <1>1, <1>3, FullRecordIs
<1>4. CASE r.type # "full"
  <2>1. PICK c \in DOMAIN runs :
          \E k \in Accepted(c) : (r = FullRecord(c, k) \/ r \in Pointers(c, k)) /\ r.key = k
    BY <1>1, RecordsAre
  <2>2. PICK k \in Accepted(c) : r \in Pointers(c, k) /\ r.key = k BY <1>4, <2>1 DEF FullRecord
  <2> QED BY <2>2 DEF Pointers
<1> QED BY <1>2, <1>3, <1>4

-----------------------------------------------------------------------------
(* The caps and the facets: what is judged of a cell.                      *)

ResultRows == [source : Sources, items : Seq(Items),
               reason : Reasons \cup {"none", "no_items_in_window", Budget},
               result : {"ok", "zero_result", "infrastructure_error", "adapter_error"}]

(* What the sources of the cell under way answered, and its budgets.       *)
UnderWay ==
  /\ cell \in Cells \cup {0} /\ (cell = 0 <=> phase \notin {"discover", "fetch"})
  /\ left \in 0..CellMaxRequests /\ fetchedHere \in 0..MaxTargetFetches /\ stopped \in BOOLEAN
  /\ results \in Seq(ResultRows)
  /\ cell # 0 => /\ Len(results) <= Len(SourcesOf[cell])
                 /\ \A i \in DOMAIN results : results[i].source = SourcesOf[cell][i]

(* The caps cut what is judged, first candidates first.                    *)
Cut(run, caps) ==
  LET kept == {j.key : j \in run.cases}
      accepted == AcceptedOf(run)
  IN /\ Cardinality(kept) <= caps.candidates /\ Cardinality(accepted) <= caps.accepted
     /\ Cardinality(kept) < Least(run.sightings.unique, caps.candidates)
          => Cardinality(accepted) = caps.accepted

(* A cell's cases, each of a candidate with a page.                        *)
Cases(run, c) ==
  /\ IsFiniteSet(run.cases)
  /\ \A j \in run.cases : /\ j = CaseOf(j.candidate, <<c>>) /\ j.key \in Urls
                          /\ j.candidate.target \in Urls

JudgedRuns ==
  /\ IsFiniteSet(DOMAIN runs) /\ \A c \in DOMAIN runs : Cases(runs[c], c) /\ Cut(runs[c], regime.caps)
  /\ \A k \in DOMAIN outcomes : outcomes[k] \in Outcomes

(* A source answers once, and what it delivers are items.                  *)
AnsweredOnce(rs) ==
  /\ rs \in Seq(ResultRows)
  /\ \A i, j \in DOMAIN rs : rs[i].source = rs[j].source => i = j

-----------------------------------------------------------------------------
(* Counting: a prefix of a finite set of keys has as many as were asked    *)
(* for, or all of them.                                                    *)
LEMMA PrefixIs ==
  ASSUME NEW S \in SUBSET Urls, IsFiniteSet(S), NEW n \in Nat
  PROVE  /\ Prefix(S, n) \subseteq S /\ IsFiniteSet(Prefix(S, n))
         /\ Cardinality(Prefix(S, n)) = Least(Cardinality(S), n)
<1> DEFINE N == Cardinality(S)
           D == 0..(N - 1)
           low(k) == {l \in S : KeyOrder[l] < KeyOrder[k]}
           rank == [k \in S |-> Cardinality(low(k))]
<1>1. N \in Nat BY FS_CardinalityType
<1>2. \A k \in S : KeyOrder[k] \in Nat BY KeyOrderAssumption
<1>3. ASSUME NEW k \in S
      PROVE  IsFiniteSet(low(k)) /\ Cardinality(low(k)) \in Nat /\ Cardinality(low(k)) < N
  <2>1. low(k) \subseteq S /\ k \notin low(k) BY <1>2
  <2> HIDE DEF low
  <2>2. IsFiniteSet(low(k)) /\ Cardinality(low(k)) <= N /\ N # Cardinality(low(k))
    BY <2>1, FS_Subset
  <2> QED BY <1>1, <2>2, FS_CardinalityType
<1>4. ASSUME NEW k \in S, NEW l \in S, KeyOrder[k] < KeyOrder[l]
      PROVE  Cardinality(low(k)) < Cardinality(low(l))
  <2>1. low(k) \subseteq low(l) /\ k \in low(l) /\ k \notin low(k) BY <1>2, <1>4
  <2>2. IsFiniteSet(low(l)) BY <1>3
  <2> HIDE DEF low
  <2>3. Cardinality(low(k)) <= Cardinality(low(l)) /\ Cardinality(low(k)) # Cardinality(low(l))
    BY <2>1, <2>2, FS_Subset
  <2> QED BY <1>3, <2>3
<1>5. \A k, l \in S : k = l \/ KeyOrder[k] < KeyOrder[l] \/ KeyOrder[l] < KeyOrder[k]
  BY <1>2, KeyOrderAssumption
<1>6. rank \in [S -> D] /\ \A k \in S : rank[k] = Cardinality(low(k))
  <2> SUFFICES ASSUME NEW k \in S PROVE Cardinality(low(k)) \in D OBVIOUS
  <2> HIDE DEF low, N
  <2> QED BY <1>1, <1>3
<1> HIDE DEF rank
<1>7. \A k, l \in S : rank[k] = rank[l] => k = l
  <2> SUFFICES ASSUME NEW k \in S, NEW l \in S, rank[k] = rank[l], k # l PROVE FALSE OBVIOUS
  <2>1. /\ KeyOrder[k] < KeyOrder[l] => Cardinality(low(k)) < Cardinality(low(l))
        /\ KeyOrder[l] < KeyOrder[k] => Cardinality(low(l)) < Cardinality(low(k))
    BY <1>4
  <2>2. Cardinality(low(k)) = Cardinality(low(l)) /\ Cardinality(low(k)) \in Nat BY <1>3, <1>6
  <2> HIDE DEF low
  <2> QED BY <1>5, <2>1, <2>2
<1>8. IsFiniteSet(D) /\ Cardinality(D) = N
  <2> HIDE DEF N
  <2> QED BY <1>1, FS_Interval
<1>9. rank \in Surjection(S, D)
  <2>1. rank \in Injection(S, D) BY <1>6, <1>7, Fun_IsInj, Zenon
  <2> HIDE DEF D
  <2> QED BY <1>8, <2>1, FS_Injection, Zenon
<1>10. \A d \in D : \E k \in S : rank[k] = d BY <1>9, Zenon DEF Surjection
<1> DEFINE P == Prefix(S, n)
           m == Least(N, n)
           E == 0..(m - 1)
           f == [k \in P |-> rank[k]]
<1>11. P \subseteq S /\ \A k \in S : k \in P <=> rank[k] < n
  <2> HIDE DEF low, D
  <2>1. \A k \in S : low(k) = {l \in S : KeyOrder[l] < KeyOrder[k]} BY DEF low
  <2>2. P \subseteq S BY Zenon DEF Prefix
  <2>3. ASSUME NEW k \in S PROVE k \in P <=> rank[k] < n
    <3>1. k \in P <=> Cardinality({l \in S : KeyOrder[l] < KeyOrder[k]}) < n BY Zenon DEF Prefix
    <3> QED BY <1>6, <2>1, <3>1, Zenon
  <2> QED BY <2>2, <2>3
<1>12. m \in Nat /\ m <= N /\ m <= n /\ (m = N \/ m = n) BY <1>1 DEF Least
<1> HIDE DEF N, m, P
<1>13. f \in [P -> E]
  <2> SUFFICES ASSUME NEW k \in P PROVE rank[k] \in E OBVIOUS
  <2>1. rank[k] \in D /\ rank[k] < n BY <1>6, <1>11
  <2> QED BY <1>1, <1>12, <2>1
<1>14. \A k, l \in P : f[k] = f[l] => k = l BY <1>7, <1>11
<1>15. \A e \in E : \E k \in P : f[k] = e
  <2> SUFFICES ASSUME NEW e \in E PROVE \E k \in P : f[k] = e OBVIOUS
  <2>1. e \in D /\ e < n BY <1>1, <1>12
  <2>2. PICK k \in S : rank[k] = e BY <1>10, <2>1
  <2> QED BY <1>11, <2>1, <2>2
<1>16. IsFiniteSet(P) BY <1>11, FS_Subset
<1>17. Cardinality(E) = m BY <1>12, FS_Interval
<1> HIDE DEF E, f
<1>18. f \in Bijection(P, E) BY <1>13, <1>14, <1>15, Fun_IsBij, Zenon
<1>19. Cardinality(E) = Cardinality(P) BY <1>16, <1>18, FS_Bijection, Zenon DEF ExistsBijection
<1> QED BY <1>11, <1>16, <1>17, <1>19 DEF P, m, N

(* The sightings of a cell: a source answers once, so that a sighting is   *)
(* known by its source and its place.                                      *)
LEMMA SightingsAre ==
  ASSUME NEW rs, AnsweredOnce(rs)
  PROVE  /\ IsFiniteSet(Observations(rs))
         /\ \A o \in Observations(rs) :
              /\ o.source \in Sources /\ o.at \in Nat /\ o.item \in Items
              /\ \A p \in Observations(rs) : o.source = p.source /\ o.at = p.at => o = p
<1> DEFINE row(i) == {[source |-> rs[i].source, at |-> j, item |-> rs[i].items[j]] :
                        j \in DOMAIN rs[i].items}
           all == {row(i) : i \in DOMAIN rs}
<1>1. Len(rs) \in Nat /\ DOMAIN rs = 1..Len(rs) BY DEF AnsweredOnce
<1>2. IsFiniteSet(DOMAIN rs) BY <1>1, FS_Interval
<1>3. ASSUME NEW i \in DOMAIN rs PROVE rs[i] \in ResultRows BY DEF AnsweredOnce
<1>4. ASSUME NEW i \in DOMAIN rs PROVE IsFiniteSet(row(i))
  <2> DEFINE f == [j \in DOMAIN rs[i].items |->
                     [source |-> rs[i].source, at |-> j, item |-> rs[i].items[j]]]
             S == DOMAIN rs[i].items
             T == row(i)
  <2>1. rs[i].items \in Seq(Items) BY <1>3 DEF ResultRows
  <2>2. Len(rs[i].items) \in Nat /\ S = 1..Len(rs[i].items) BY <2>1
  <2>3. IsFiniteSet(S) BY <2>2, FS_Interval
  <2>4. f \in [S -> T] /\ \A t \in T : \E s \in S : f[s] = t OBVIOUS
  <2> HIDE DEF f, S, T
  <2>5. f \in Surjection(S, T) BY <2>4, Fun_IsSurj, Zenon
  <2>6. IsFiniteSet(T) BY <2>3, <2>5, FS_Surjection, Zenon
  <2> QED BY <2>6 DEF T
<1>5. IsFiniteSet(all)
  <2> DEFINE f == [i \in DOMAIN rs |-> row(i)]
             S == DOMAIN rs
  <2> HIDE DEF row
  <2>1. f \in [S -> all] /\ \A t \in all : \E s \in S : f[s] = t OBVIOUS
  <2> HIDE DEF f, all
  <2>2. f \in Surjection(S, all) BY <2>1, Fun_IsSurj, Zenon
  <2> QED BY <1>2, <2>2, FS_Surjection, Zenon
<1>6. Observations(rs) = UNION all BY Zenon DEF Observations
<1>7. IsFiniteSet(Observations(rs))
  <2>1. \A t \in all : IsFiniteSet(t) BY <1>4
  <2> HIDE DEF all
  <2> QED BY <1>5, <1>6, <2>1, FS_UNION
<1>8. ASSUME NEW o \in Observations(rs)
      PROVE  \E i \in DOMAIN rs : o \in row(i)
  BY <1>6, <1>8
<1>9. ASSUME NEW o \in Observations(rs)
      PROVE  o.source \in Sources /\ o.at \in Nat /\ o.item \in Items
  <2>1. PICK i \in DOMAIN rs : o \in row(i) BY <1>8
  <2>2. PICK j \in DOMAIN rs[i].items :
          o = [source |-> rs[i].source, at |-> j, item |-> rs[i].items[j]]
    BY <2>1
  <2>3. rs[i].source \in Sources /\ rs[i].items \in Seq(Items) BY <1>3 DEF ResultRows
  <2>4. j \in Nat /\ rs[i].items[j] \in Items BY <2>3
  <2> QED BY <2>2, <2>3, <2>4
<1>10. ASSUME NEW o \in Observations(rs), NEW p \in Observations(rs),
              o.source = p.source, o.at = p.at
       PROVE  o = p
  <2>1. PICK i \in DOMAIN rs : o \in row(i) BY <1>8
  <2>2. PICK j \in DOMAIN rs : p \in row(j) BY <1>8
  <2>3. o.source = rs[i].source /\ o.item = rs[i].items[o.at]
        /\ o = [source |-> o.source, at |-> o.at, item |-> o.item]
    BY <2>1
  <2>4. p.source = rs[j].source /\ p.item = rs[j].items[p.at]
        /\ p = [source |-> p.source, at |-> p.at, item |-> p.item]
    BY <2>2
  <2>5. i = j BY <1>10, <2>3, <2>4 DEF AnsweredOnce
  <2> QED BY <1>10, <2>3, <2>4, <2>5
<1> QED BY <1>7, <1>9, <1>10

LEMMA KeysAre ==
  ASSUME NEW rs, AnsweredOnce(rs)
  PROVE  Keys(Observations(rs)) \subseteq Urls /\ IsFiniteSet(Keys(Observations(rs)))
<1> DEFINE sightings == Observations(rs)
           S == Usable(sightings)
           K == Keys(sightings)
           f == [o \in S |-> Canon[o.item.url]]
<1>1. S \subseteq sightings /\ \A o \in S : Canon[o.item.url] # NoUrl BY DEF Usable
<1>2. IsFiniteSet(S) BY <1>1, SightingsAre, FS_Subset
<1>3. \A o \in S : o.item \in Items BY <1>1, SightingsAre
<1>4. \A o \in S : Canon[o.item.url] \in Urls BY <1>1, <1>3, UrlsAssumption DEF Items
<1>5. K = {Canon[o.item.url] : o \in S} BY DEF Keys
<1>6. f \in [S -> K] /\ \A t \in K : \E s \in S : f[s] = t BY <1>5
<1> HIDE DEF f, S, sightings
<1>7. K \subseteq Urls BY <1>4, <1>5
<1> HIDE DEF K
<1>8. f \in Surjection(S, K) BY <1>6, Fun_IsSurj, Zenon
<1>9. IsFiniteSet(K) BY <1>2, <1>8, FS_Surjection, Zenon
<1> QED BY <1>7, <1>9 DEF K, sightings

(* Of the sightings that say something one comes before all the others, so *)
(* that the URL a candidate shows is one of those it was sighted under.    *)
LEMMA TargetIs ==
  ASSUME NEW rs, AnsweredOnce(rs), NEW k \in Keys(Observations(rs))
  PROVE  Display(Group(Observations(rs), k), "url") \in Urls
<1> DEFINE group == Group(Observations(rs), k)
           said == {o \in group : o.item["url"] # Blank}
<1>1. group \subseteq Observations(rs) BY DEF Group, Usable
<1>2. \A o \in group : /\ o.source \in Sources /\ o.at \in Nat /\ o.item.url \in Urls
                       /\ \A p \in group : o.source = p.source /\ o.at = p.at => o = p
  <2>1. \A o \in group : o.item \in Items BY <1>1, SightingsAre
  <2>2. \A o \in group : o.item.url \in Urls BY <2>1 DEF Items
  <2> HIDE DEF group
  <2> QED BY <1>1, <2>2, SightingsAre
<1>3. group # {} BY DEF Group, Keys
<1> HIDE DEF group
<1>4. CASE said = {}
  <2>1. Blank \in Urls BY <1>2, <1>3, <1>4
  <2> QED BY <1>4, <2>1 DEF Display, group
<1>5. CASE said # {}
  <2> DEFINE A == {Authority[o.source] : o \in said}
  <2>1. A \in SUBSET Nat /\ A # {} BY <1>2, <1>5, AuthorityAssumption
  <2>2. PICK a \in A : \A b \in A : a <= b
    <3> HIDE DEF A
    <3> QED BY <2>1, FirstCell
  <2> DEFINE best == {o \in said : Authority[o.source] = a}
             T == {o.at : o \in best}
  <2>3. T \in SUBSET Nat /\ T # {} BY <1>2, <2>2
  <2>4. PICK t \in T : \A u \in T : t <= u
    <3> HIDE DEF T
    <3> QED BY <2>3, FirstCell
  <2>5. PICK o \in best : o.at = t BY <2>4
  <2>6. ASSUME NEW p \in said PROVE o = p \/ Before(o, p)
    <3>1. Authority[o.source] = a /\ Authority[p.source] \in Nat /\ a <= Authority[p.source] /\ a \in Nat
      BY <2>1, <2>2, <2>5
    <3>2. CASE Authority[p.source] = a
      <4>1. o.source = p.source BY <1>2, <3>1, <3>2, AuthorityAssumption
      <4>2. o.at <= p.at /\ o.at \in Nat /\ p.at \in Nat BY <1>2, <2>4, <2>5, <3>2
      <4>3. o.at = p.at => o = p BY <1>2, <4>1
      <4> QED BY <4>1, <4>2, <4>3 DEF Before
    <3>3. CASE Authority[p.source] # a BY <3>1, <3>3 DEF Before
    <3> QED BY <3>2, <3>3
  <2> DEFINE shown == CHOOSE q \in said : \A p \in said : q = p \/ Before(q, p)
  <2>7. shown \in said BY <2>5, <2>6
  <2>8. Display(group, "url") = shown.item["url"] BY <1>5 DEF Display
  <2> HIDE DEF shown
  <2>9. shown.item.url \in Urls BY <1>2, <2>7
  <2> QED BY <2>8, <2>9 DEF group
<1> QED BY <1>4, <1>5

(* What a cell judges is cut by the caps and nothing else: a candidate is  *)
(* left out only when there are more than may be judged, or when as many   *)
(* as may be were accepted before it.                                      *)
LEMMA JudgedIs ==
  ASSUME NEW c, NEW rs, AnsweredOnce(rs), NEW caps \in [candidates : Nat, accepted : Nat]
  PROVE  Cases(Judged(c, rs, caps), c) /\ Cut(Judged(c, rs, caps), caps)
<1> DEFINE sightings == Observations(rs)
           keys  == Keys(sightings)
           found == Prefix(keys, caps.candidates)
           case(k) == CaseOf(Normalize(k, Group(sightings, k)), <<c>>)
           cases == {case(k) : k \in found}
           acc   == {j.key : j \in {i \in cases : i.verdict = Accept}}
           kept  == AcceptedPrefix(found, acc, caps.accepted)
           run   == Judged(c, rs, caps)
<1>1. /\ run.sightings = SightingCounts(sightings)
      /\ run.cases = {j \in cases : j.key \in kept}
  BY Zenon DEF Judged
<1>2. run.sightings.unique = Cardinality(keys) BY <1>1 DEF SightingCounts
<1>3. caps.candidates \in Nat /\ caps.accepted \in Nat OBVIOUS
<1>4. keys \subseteq Urls /\ IsFiniteSet(keys) BY KeysAre
<1>5. /\ found \subseteq keys /\ IsFiniteSet(found)
      /\ Cardinality(found) = Least(Cardinality(keys), caps.candidates)
  <2> HIDE DEF keys
  <2> QED BY <1>3, <1>4, PrefixIs
<1>6. ASSUME NEW k \in found
      PROVE  /\ case(k).key = k /\ case(k) = CaseOf(case(k).candidate, <<c>>)
             /\ case(k).candidate.target \in Urls
  <2> DEFINE seen == Normalize(k, Group(sightings, k))
  <2>1. seen.key = k /\ seen.target = Display(Group(sightings, k), "url") BY DEF Normalize
  <2>2. seen.target \in Urls BY <1>5, <2>1, TargetIs
  <2> HIDE DEF seen
  <2>3. CaseOf(seen, <<c>>).key = seen.key /\ CaseOf(seen, <<c>>).candidate = seen BY DEF CaseOf
  <2> QED BY <2>1, <2>2, <2>3, Zenon DEF seen
<1>7. IsFiniteSet(cases)
  <2> DEFINE f == [k \in found |-> case(k)]
  <2> HIDE DEF case, found
  <2>1. f \in [found -> cases] /\ \A t \in cases : \E k \in found : f[k] = t OBVIOUS
  <2> HIDE DEF f, cases
  <2>2. f \in Surjection(found, cases) BY <2>1, Fun_IsSurj, Zenon
  <2> QED BY <1>5, <2>2, FS_Surjection, Zenon
<1> HIDE DEF case, run
<1>8. Cases(run, c)
  <2>1. IsFiniteSet(run.cases)
    <3> HIDE DEF cases, kept
    <3> QED BY <1>1, <1>7, FS_Subset
  <2>2. ASSUME NEW j \in run.cases
        PROVE  j = CaseOf(j.candidate, <<c>>) /\ j.key \in Urls /\ j.candidate.target \in Urls
    <3>1. PICK k \in found : j = case(k) BY <1>1
    <3> HIDE DEF found
    <3> QED BY <1>4, <1>5, <1>6, <3>1
  <2> QED BY <2>1, <2>2 DEF Cases
(* The accepted that are kept are the first of the accepted.               *)
<1>9. /\ acc \subseteq found /\ IsFiniteSet(acc)
      /\ \A k : k \in acc <=> k \in found /\ case(k).verdict = Accept
  <2>1. \A k : k \in acc <=> k \in found /\ case(k).verdict = Accept
    <3> HIDE DEF found
    <3> QED BY <1>6
  <2> HIDE DEF acc, found
  <2> QED BY <1>5, <2>1, FS_Subset
<1>10. kept \subseteq found /\ {j.key : j \in run.cases} = kept
  <2>1. kept \subseteq found BY Zenon DEF AcceptedPrefix
  <2>2. ASSUME NEW j \in run.cases PROVE j.key \in kept
    <3> HIDE DEF cases, kept
    <3> QED BY <1>1
  <2>3. ASSUME NEW k \in kept PROVE \E j \in run.cases : j.key = k
    <3>1. case(k) \in cases /\ case(k).key = k BY <1>6, <2>1
    <3> HIDE DEF cases, kept
    <3> QED BY <1>1, <3>1
  <2> HIDE DEF kept
  <2> QED BY <2>1, <2>2, <2>3
<1>11. AcceptedOf(run) = Prefix(acc, caps.accepted)
  <2> DEFINE n == caps.accepted
             ahead(k) == Cardinality({l \in acc : KeyOrder[l] < KeyOrder[k]}) < n
  <2>1. \A k : k \in Prefix(acc, n) <=> k \in acc /\ ahead(k)
    <3> HIDE DEF acc
    <3> QED BY Zenon DEF Prefix
  <2>2. \A k : k \in kept <=> k \in found /\ ahead(k)
    <3> HIDE DEF acc, found
    <3> QED BY Zenon DEF AcceptedPrefix
  <2>3. \A k : k \in AcceptedOf(run) <=> \E j \in run.cases : j.verdict = Accept /\ j.key = k
    BY Zenon DEF AcceptedOf
  <2> HIDE DEF kept, acc, ahead
  <2>4. ASSUME NEW k \in AcceptedOf(run) PROVE k \in acc /\ k \in kept
    <3>1. PICK j \in run.cases : j.verdict = Accept /\ j.key = k BY <2>3
    <3>2. j \in cases /\ j.key \in kept BY <1>1, <3>1
    <3>3. PICK l \in found : j = case(l) BY <3>2
    <3>4. l = k BY <1>6, <3>1, <3>3
    <3> HIDE DEF found
    <3> QED BY <1>9, <3>1, <3>2, <3>3, <3>4
  <2>5. ASSUME NEW k \in acc, k \in kept PROVE k \in AcceptedOf(run)
    <3>1. k \in found /\ case(k).verdict = Accept BY <1>9
    <3>2. case(k) \in cases /\ case(k).key = k BY <1>6, <3>1
    <3>3. case(k) \in run.cases
      <4> HIDE DEF cases
      <4> QED BY <1>1, <2>5, <3>2
    <3> QED BY <2>3, <3>1, <3>2, <3>3
  <2>6. \A k : k \in AcceptedOf(run) <=> k \in acc /\ ahead(k)
    <3> HIDE DEF found
    <3> QED BY <1>9, <2>2, <2>4, <2>5
  <2> QED BY <2>1, <2>6 DEF n
<1>12. /\ IsFiniteSet(AcceptedOf(run))
       /\ Cardinality(AcceptedOf(run)) = Least(Cardinality(acc), caps.accepted)
  <2>1. acc \subseteq Urls BY <1>4, <1>5, <1>9
  <2> HIDE DEF acc
  <2> QED BY <1>3, <1>9, <1>11, <2>1, PrefixIs
(* One that was left out has as many accepted before it as may be.         *)
<1>13. ASSUME NEW k \in found, k \notin kept
       PROVE  Cardinality(acc) >= caps.accepted
  <2> DEFINE before == {l \in acc : KeyOrder[l] < KeyOrder[k]}
  <2>1. ~(Cardinality(before) < caps.accepted) BY <1>13, Zenon DEF AcceptedPrefix
  <2>2. before \subseteq acc OBVIOUS
  <2> HIDE DEF before, acc
  <2>3. IsFiniteSet(before) /\ Cardinality(before) <= Cardinality(acc) BY <1>9, <2>2, FS_Subset
  <2>4. Cardinality(before) \in Nat /\ Cardinality(acc) \in Nat BY <1>9, <2>3, FS_CardinalityType
  <2> QED BY <1>3, <2>1, <2>3, <2>4
<1>14. Cut(run, caps)
  <2> HIDE DEF kept, acc, found, keys, cases
  <2>1. /\ Cardinality(keys) \in Nat /\ Cardinality(found) \in Nat /\ Cardinality(acc) \in Nat
        /\ Cardinality(AcceptedOf(run)) \in Nat
    BY <1>4, <1>5, <1>9, <1>12, FS_CardinalityType
  <2>2. Cardinality(kept) \in Nat /\ Cardinality(kept) <= Cardinality(found)
        /\ (Cardinality(kept) = Cardinality(found) => kept = found)
    BY <1>5, <1>10, FS_Subset, FS_CardinalityType
  <2>3. ASSUME Cardinality(kept) < Cardinality(found) PROVE \E k \in found : k \notin kept
    <3>1. kept # found BY <2>1, <2>3
    <3> QED BY <1>10, <3>1
  <2>4. Cardinality(kept) <= caps.candidates /\ Cardinality(AcceptedOf(run)) <= caps.accepted
    BY <1>3, <1>5, <1>12, <2>1, <2>2 DEF Least
  <2>5. Cardinality(kept) < Cardinality(found) => Cardinality(AcceptedOf(run)) = caps.accepted
    BY <1>3, <1>12, <1>13, <2>1, <2>3 DEF Least
  <2>6. Cardinality(found) = Least(run.sightings.unique, caps.candidates) BY <1>2, <1>5
  <2> QED BY <1>10, <2>4, <2>5, <2>6, Zenon DEF Cut
<1> QED BY <1>8, <1>14 DEF run

-----------------------------------------------------------------------------
(* UnderWay and JudgedRuns, step by step.                                  *)

(* The second half of the invariant, kept as long as the first is.         *)
Measured == UnderWay /\ JudgedRuns

LEMMA SourcesAnswerOnce ==
  ASSUME UnderWay, cell # 0
  PROVE  AnsweredOnce(results)
<1>1. /\ results \in Seq(ResultRows) /\ Len(results) <= Len(SourcesOf[cell])
      /\ \A i \in DOMAIN results : results[i].source = SourcesOf[cell][i]
  BY DEF UnderWay
<1>2. cell \in Cells BY DEF UnderWay
<1>3. /\ SourcesOf[cell] \in Seq(Sources)
      /\ \A i, j \in DOMAIN SourcesOf[cell] : SourcesOf[cell][i] = SourcesOf[cell][j] => i = j
  BY <1>2, SourcesAssumption
<1>4. DOMAIN results \subseteq DOMAIN SourcesOf[cell] BY <1>1, <1>3
<1> QED BY <1>1, <1>3, <1>4 DEF AnsweredOnce

LEMMA RowsAre ==
  ASSUME NEW s \in Sources
  PROVE  /\ \A body \in Deliveries[s] : Delivered(s, body) \in ResultRows
         /\ \A why \in Reasons \cup {Budget} : Failed(s, why) \in ResultRows
         /\ \A body : Delivered(s, body).source = s
         /\ \A why : Failed(s, why).source = s
<1>1. ASSUME NEW body \in Deliveries[s] PROVE Delivered(s, body) \in ResultRows
  <2>1. body \in Seq(Items) /\ MaxCandidates[s] \in Nat BY SourcesAssumption
  <2>2. Capped(body, MaxCandidates[s]) \in Seq(Items) BY <2>1 DEF Capped
  <2>3. <<>> \in Seq(Items) OBVIOUS
  <2>4. CASE body = <<>> BY <2>3, <2>4 DEF Delivered, ResultRows
  <2>5. CASE body # <<>>
    <3> DEFINE items == Capped(body, MaxCandidates[s])
    <3>1. Delivered(s, body) = [source |-> s, result |-> "ok", reason |-> "none", items |-> items]
      BY <2>5 DEF Delivered
    <3> HIDE DEF items
    <3>2. items \in Seq(Items) BY <2>2 DEF items
    <3> QED BY <3>1, <3>2 DEF ResultRows
  <2> QED BY <2>4, <2>5
<1>2. ASSUME NEW why \in Reasons \cup {Budget} PROVE Failed(s, why) \in ResultRows
  <2>1. <<>> \in Seq(Items) OBVIOUS
  <2> QED BY <2>1 DEF Failed, ResultRows, Bucket
<1>3. \A body : Delivered(s, body).source = s BY DEF Delivered
<1>4. \A why : Failed(s, why).source = s BY DEF Failed
<1> QED BY <1>1, <1>2, <1>3, <1>4

LEMMA BudgetsAre ==
  /\ CellMaxRequests \in Nat /\ MaxTargetFetches \in Nat
  /\ 0 \in 0..CellMaxRequests /\ 0 \in 0..MaxTargetFetches /\ CellMaxRequests \in 0..CellMaxRequests
  /\ \A n \in 0..CellMaxRequests : 0..n \subseteq 0..CellMaxRequests /\ 0..(n - 1) \subseteq 0..n
  /\ \A n \in 0..MaxTargetFetches : n < MaxTargetFetches => n + 1 \in 0..MaxTargetFetches
<1>1. CellMaxRequests \in Nat /\ MaxTargetFetches \in Nat BY RegimesAssumption
<1> QED BY <1>1

LEMMA InitMeasures == Init => Measured
<1> SUFFICES ASSUME Init PROVE Measured OBVIOUS
<1>1. DOMAIN runs = {} /\ DOMAIN outcomes = {} BY DEF Init
<1>2. UnderWay
  <2>1. cell = 0 /\ phase = "next" /\ left = 0 /\ fetchedHere = 0 /\ stopped = FALSE /\ results = <<>>
    BY DEF Init
  <2>2. left \in 0..CellMaxRequests /\ fetchedHere \in 0..MaxTargetFetches BY <2>1, BudgetsAre
  <2>3. <<>> \in Seq(ResultRows) OBVIOUS
  <2> QED BY <2>1, <2>2, <2>3 DEF UnderWay
<1>3. JudgedRuns BY <1>1, FS_EmptySet DEF JudgedRuns
<1> QED BY <1>2, <1>3 DEF Measured

LEMMA StartCellMeasures == ASSUME IInv, Measured, StartCell, IInv' PROVE Measured'
<1>1. /\ cell' \in regime.cells /\ phase' = "discover" /\ left' = CellMaxRequests /\ results' = <<>>
      /\ UNCHANGED <<regime, stopped, fetchedHere, runs, outcomes>>
  BY DEF StartCell, IInv, Progress
<1>2. cell' \in Cells /\ cell' # 0
  BY <1>1, RegimesAssumption, CellsAssumption DEF IInv, Progress
<1>3. Len(SourcesOf[cell']) \in Nat BY <1>2, SourcesAssumption
<1>4. UnderWay' BY <1>1, <1>2, <1>3, RegimesAssumption DEF Measured, UnderWay
<1>5. JudgedRuns' BY <1>1 DEF Measured, JudgedRuns
<1> QED BY <1>4, <1>5 DEF Measured

LEMMA DiscoverMeasures == ASSUME IInv, Measured, Discover PROVE Measured'
<1>1. /\ phase = "discover" /\ Len(results) < Len(SourcesOf[cell]) /\ left' \in 0..left
      /\ UNCHANGED <<regime, phase, cell, stopped, fetchedHere, runs, outcomes>>
  BY RegimesAssumption DEF Discover, Measured, UnderWay
<1>2. cell \in Cells /\ cell # 0 BY <1>1, CellsAssumption DEF Measured, UnderWay
<1>3. SourcesOf[cell] \in Seq(Sources) /\ results \in Seq(ResultRows) /\ Len(results) <= Len(SourcesOf[cell])
      /\ \A i \in DOMAIN results : results[i].source = SourcesOf[cell][i]
  BY <1>2, SourcesAssumption DEF Measured, UnderWay
<1> DEFINE s == NextSource
<1>4. s = SourcesOf[cell][Len(results) + 1] /\ s \in Sources BY <1>1, <1>3 DEF NextSource
<1>5. PICK row \in ResultRows : row.source = s /\ results' = Append(results, row)
  <2>1. \/ \E body \in Deliveries[s] : results' = Append(results, Delivered(s, body))
        \/ \E why \in Reasons \cup {Budget} : results' = Append(results, Failed(s, why))
    BY DEF Discover
  <2> HIDE DEF s
  <2> QED BY <1>4, <2>1, RowsAre
<1> HIDE DEF s
<1>6. /\ results' \in Seq(ResultRows) /\ Len(results') = Len(results) + 1
      /\ \A i \in DOMAIN results : results'[i] = results[i]
      /\ results'[Len(results) + 1] = row /\ DOMAIN results' = DOMAIN results \cup {Len(results) + 1}
  BY <1>3, <1>5
<1>7. Len(results') <= Len(SourcesOf[cell]) BY <1>1, <1>3, <1>6
<1>8. \A i \in DOMAIN results' : results'[i].source = SourcesOf[cell][i]
  BY <1>3, <1>4, <1>5, <1>6
<1>9. left' \in 0..CellMaxRequests BY <1>1, RegimesAssumption DEF Measured, UnderWay
<1>10. UnderWay' BY <1>1, <1>2, <1>6, <1>7, <1>8, <1>9 DEF Measured, UnderWay
<1>11. JudgedRuns' BY <1>1 DEF Measured, JudgedRuns
<1> QED BY <1>10, <1>11 DEF Measured

LEMMA JudgeMeasures == ASSUME IInv, Measured, Judge PROVE Measured'
<1>1. /\ phase = "discover" /\ phase' = "fetch" /\ stopped' = FALSE /\ fetchedHere' = 0
      /\ UNCHANGED <<regime, cell, results, left, outcomes>>
  BY DEF Judge
<1>2. PICK run : run = Judged(cell, results, regime.caps) /\ runs' = With(runs, cell, run)
  BY DEF Judge
<1>3. /\ DOMAIN runs' = DOMAIN runs \cup {cell} /\ runs'[cell] = run
      /\ \A c \in DOMAIN runs : c # cell => runs'[c] = runs[c]
  BY <1>2 DEF With
<1>4. cell # 0 /\ UnderWay BY <1>1 DEF Measured, UnderWay
<1>5. regime.caps \in [candidates : Nat, accepted : Nat] BY RegimesAssumption DEF IInv, Progress
<1>6. AnsweredOnce(results) BY <1>4, SourcesAnswerOnce
<1>7. Cases(run, cell) /\ Cut(run, regime.caps)
  <2> DEFINE caps == regime.caps
  <2>1. caps \in [candidates : Nat, accepted : Nat] /\ run = Judged(cell, results, caps)
    BY <1>2, <1>5
  <2> HIDE DEF caps
  <2>2. Cases(run, cell) /\ Cut(run, caps) BY <1>6, <2>1, JudgedIs
  <2> QED BY <2>2 DEF caps
<1>8. IsFiniteSet(DOMAIN runs') BY <1>3, FS_AddElement DEF Measured, JudgedRuns
<1>9. \A c \in DOMAIN runs' : Cases(runs'[c], c) /\ Cut(runs'[c], regime.caps)
  BY <1>3, <1>7 DEF Measured, JudgedRuns
<1>10. JudgedRuns' BY <1>1, <1>8, <1>9 DEF Measured, JudgedRuns
<1>11. UnderWay'
  <2>1. fetchedHere' \in 0..MaxTargetFetches BY <1>1, BudgetsAre
  <2> QED BY <1>1, <2>1 DEF Measured, UnderWay
<1> QED BY <1>10, <1>11 DEF Measured

(* An outcome says of a page that it has one.                              *)
LEMMA OutcomesAre ==
  ASSUME NEW url \in Urls
  PROVE  /\ \A k \in Urls : \A answer \in Answers[k] : Outcome(url, answer) \in Outcomes
         /\ Unfetched(url) \in Outcomes
<1>1. \A class, status : AccessStatusFor(class, status) \in AccessStatuses
  <2> TAKE class, status
  <2>1. ClientStatus(status) \in AccessStatuses BY DEF ClientStatus, AccessStatuses
  <2> HIDE DEF AccessStatuses
  <2>2. /\ NotChecked \in AccessStatuses /\ "robots_denied" \in AccessStatuses
        /\ "timeout" \in AccessStatuses /\ "server_error" \in AccessStatuses
        /\ "unreachable" \in AccessStatuses
    BY DEF AccessStatuses
  <2> QED BY <2>1, <2>2 DEF AccessStatusFor
<1>2. "redirected" \in AccessStatuses /\ "ok" \in AccessStatuses BY DEF AccessStatuses
<1>3. ASSUME NEW answer, answer.tags \in Seq(Urls \cup {NoUrl}),
             answer.final \in Urls \cup {NoUrl}, answer.permanent \in BOOLEAN
      PROVE  Outcome(url, answer) \in Outcomes
  <2> DEFINE access == IF answer.error # NoError
                       THEN AccessStatusFor(answer.error, answer.status)
                       ELSE IF answer.permanent THEN "redirected" ELSE "ok"
  <2>1. access \in AccessStatuses BY <1>1, <1>2
  <2>2. Outcome(url, answer) = [requested |-> url, access |-> access, final |-> answer.final,
                                permanent |-> answer.permanent, tags |-> answer.tags]
    BY Zenon DEF Outcome
  <2> HIDE DEF access
  <2> QED BY <1>3, <2>1, <2>2 DEF Outcomes
<1>4. \A k \in Urls : \A answer \in Answers[k] : Outcome(url, answer) \in Outcomes
  BY <1>3, AnswersAssumption
<1>5. Unfetched(url) \in Outcomes
  <2> DEFINE f == Failure("BudgetExhausted", 0)
  <2>1. f.tags \in Seq(Urls \cup {NoUrl}) /\ f.final \in Urls \cup {NoUrl} /\ f.permanent \in BOOLEAN
    BY DEF Failure
  <2> HIDE DEF f
  <2>2. Outcome(url, f) \in Outcomes BY <1>3, <2>1
  <2> QED BY <2>2 DEF Unfetched, f
<1> QED BY <1>4, <1>5

LEMMA CaseIs ==
  ASSUME JudgedRuns, NEW c \in DOMAIN runs, NEW k \in Kept(c)
  PROVE  /\ Case(c, k) \in runs[c].cases /\ Case(c, k).key = k
         /\ Case(c, k) = CaseOf(Case(c, k).candidate, <<c>>)
         /\ Case(c, k).candidate.target \in Urls
<1>1. \E j \in runs[c].cases : j.key = k BY DEF Kept
<1>2. Case(c, k) \in runs[c].cases /\ Case(c, k).key = k BY <1>1 DEF Case
<1> QED BY <1>2 DEF JudgedRuns, Cases

LEMMA SameCases ==
  ASSUME NEW r, NEW s, NEW c, NEW caps, r.cases = s.cases, r.sightings = s.sightings,
         Cases(r, c), Cut(r, caps)
  PROVE  Cases(s, c) /\ Cut(s, caps)
BY DEF Cases, Cut, AcceptedOf

(* What a page answers changes nothing of what was judged.                 *)
LEMMA ConcludeMeasures ==
  ASSUME IInv, Measured, NEW k \in Urls, Pending(k), NEW outcome \in Outcomes, Conclude(k, outcome)
  PROVE  JudgedRuns'
<1>1. cell \in DOMAIN runs /\ Shaped(runs[cell]) BY DEF Pending, IInv, Progress
<1>2. /\ outcomes' = With(outcomes, k, outcome) /\ regime' = regime
      /\ runs' = [runs EXCEPT ![cell].resolved = With(@, k, Adjudicate(k, k, outcome, FALSE))]
  BY DEF Conclude
<1>3. \A l \in DOMAIN outcomes' : outcomes'[l] \in Outcomes
  BY <1>2 DEF With, Measured, JudgedRuns
<1>4. /\ DOMAIN runs' = DOMAIN runs
      /\ \A c \in DOMAIN runs : /\ runs'[c].cases = runs[c].cases
                                /\ runs'[c].sightings = runs[c].sightings
  <2> DEFINE r == runs[cell]
             s == With(r.resolved, k, Adjudicate(k, k, outcome, FALSE))
  <2>1. runs'[cell] = [r EXCEPT !.resolved = s] BY <1>1, <1>2
  <2>2. [r EXCEPT !.resolved = s].cases = r.cases /\ [r EXCEPT !.resolved = s].sightings = r.sightings
    <3> HIDE DEF r, s
    <3> QED BY <1>1 DEF Shaped, r
  <2>3. \A c \in DOMAIN runs : c # cell => runs'[c] = runs[c] BY <1>2
  <2> HIDE DEF s
  <2> QED BY <1>2, <2>1, <2>2, <2>3 DEF r
<1>5. ASSUME NEW c \in DOMAIN runs PROVE Cases(runs'[c], c) /\ Cut(runs'[c], regime.caps)
  <2>1. Cases(runs[c], c) /\ Cut(runs[c], regime.caps) BY DEF Measured, JudgedRuns
  <2> QED BY <1>4, <2>1, SameCases
<1> QED BY <1>2, <1>3, <1>4, <1>5 DEF Measured, JudgedRuns

LEMMA FetchMeasures ==
  ASSUME IInv, Measured, FetchTarget \/ SkipTarget \/ ReuseOutcome
  PROVE  Measured'
<1>1. PICK k \in Urls :
        /\ Pending(k)
        /\ \/ /\ MayFetch /\ left' \in 0..left /\ fetchedHere' = fetchedHere + 1
              /\ stopped' = (outcomes'[k].access = NotChecked)
              /\ \/ \E answer \in Answers[k] : Conclude(k, Outcome(TargetOf(k), answer))
                 \/ Conclude(k, Unfetched(TargetOf(k)))
           \/ /\ UNCHANGED <<left, stopped, fetchedHere>>
              /\ \/ Conclude(k, Unfetched(TargetOf(k)))
                 \/ k \in DOMAIN outcomes /\ Conclude(k, outcomes[k])
  <2>1. CASE FetchTarget BY <2>1, RegimesAssumption DEF FetchTarget, Measured, UnderWay
  <2>2. CASE SkipTarget BY <2>2 DEF SkipTarget
  <2>3. CASE ReuseOutcome BY <2>3 DEF ReuseOutcome, Unowned
  <2> QED BY <2>1, <2>2, <2>3
<1>2. TargetOf(k) \in Urls
  <2>1. cell \in DOMAIN runs /\ k \in Accepted(cell) BY <1>1 DEF Pending, IInv, Progress
  <2>2. k \in Kept(cell) BY <2>1 DEF Accepted, AcceptedOf, Kept
  <2> QED BY <2>1, <2>2, CaseIs DEF Measured, TargetOf
<1>3. PICK outcome \in Outcomes : Conclude(k, outcome)
  <2>1. k \in DOMAIN outcomes => outcomes[k] \in Outcomes BY DEF Measured, JudgedRuns
  <2>2. /\ \A answer \in Answers[k] : Outcome(TargetOf(k), answer) \in Outcomes
        /\ Unfetched(TargetOf(k)) \in Outcomes
    BY <1>2, OutcomesAre
  <2> QED BY <1>1, <2>1, <2>2
<1>4. JudgedRuns' BY <1>1, <1>3, ConcludeMeasures
<1>5. UNCHANGED <<regime, phase, cell, results>> BY <1>3 DEF Conclude
<1>6. left' \in 0..CellMaxRequests /\ fetchedHere' \in 0..MaxTargetFetches /\ stopped' \in BOOLEAN
  <2>1. left \in 0..CellMaxRequests /\ fetchedHere \in 0..MaxTargetFetches /\ stopped \in BOOLEAN
    BY DEF Measured, UnderWay
  <2>2. left' \in 0..CellMaxRequests BY <1>1, <2>1, BudgetsAre
  <2>3. fetchedHere' \in 0..MaxTargetFetches BY <1>1, <2>1, BudgetsAre DEF MayFetch
  <2>4. stopped' \in BOOLEAN BY <1>1, <2>1
  <2> QED BY <2>2, <2>3, <2>4
<1>7. UnderWay' BY <1>5, <1>6 DEF Measured, UnderWay
<1> QED BY <1>4, <1>7 DEF Measured

LEMMA OtherStepsMeasure ==
  ASSUME IInv, Measured, CloseCell \/ OutOfTime \/ Refuse \/ Route \/ UNCHANGED vars
  PROVE  Measured'
<1>1. UNCHANGED <<regime, runs, outcomes>> BY DEF CloseCell, OutOfTime, Refuse, Route, vars
<1>2. JudgedRuns' BY <1>1 DEF Measured, JudgedRuns
<1>3. UnderWay'
  <2>1. CASE CloseCell
    <3>1. /\ cell' = 0 /\ phase' = "next" /\ results' = <<>> /\ left' = 0
          /\ stopped' = FALSE /\ fetchedHere' = 0
      BY <2>1 DEF CloseCell
    <3>2. left' \in 0..CellMaxRequests /\ fetchedHere' \in 0..MaxTargetFetches BY <3>1, BudgetsAre
    <3>3. <<>> \in Seq(ResultRows) OBVIOUS
    <3> QED BY <3>1, <3>2, <3>3 DEF UnderWay
  <2>2. CASE OutOfTime \/ Refuse \/ Route
    BY <2>2 DEF OutOfTime, Refuse, Route, AllRun, Measured, UnderWay
  <2>3. CASE UNCHANGED vars BY <2>3 DEF vars, Measured, UnderWay
  <2> QED BY <2>1, <2>2, <2>3
<1> QED BY <1>2, <1>3 DEF Measured

THEOREM MeasuredHolds == Spec => [](IInv /\ Measured)
<1>1. Init => IInv /\ Measured BY InitHolds, InitMeasures
<1>2. IInv /\ Measured /\ [Next]_vars => (IInv /\ Measured)'
  <2> SUFFICES ASSUME IInv, Measured, [Next]_vars PROVE IInv' /\ Measured' OBVIOUS
  <2>1. IInv'
    BY StartCellKeeps, DiscoverKeeps, JudgeKeeps, FetchTargetKeeps, SkipTargetKeeps,
       ReuseOutcomeKeeps, CloseCellKeeps, RaiseKeeps, RouteKeeps, StutterKeeps DEF Next, Ended
  <2>2. Measured'
    BY <2>1, StartCellMeasures, DiscoverMeasures, JudgeMeasures, FetchMeasures,
       OtherStepsMeasure DEF Next, Ended
  <2> QED BY <2>1, <2>2
<1> QED BY <1>1, <1>2, PTL DEF Spec

-----------------------------------------------------------------------------
LEMMA CellInvFollows == ASSUME IInv, Measured PROVE CellInv
<1>1. /\ cell \in Cells \cup {0} /\ (cell = 0 <=> phase \notin {"discover", "fetch"})
      /\ left \in 0..CellMaxRequests /\ fetchedHere \in 0..MaxTargetFetches /\ stopped \in BOOLEAN
  BY DEF Measured, UnderWay
<1>2. ASSUME NEW c \in DOMAIN runs PROVE Accepted(c) \subseteq Urls
  BY DEF Measured, JudgedRuns, Cases, Accepted, AcceptedOf
<1>3. todo \subseteq Urls BY <1>2 DEF IInv, Progress
<1>4. DOMAIN outcomes \subseteq Urls /\ \A k \in DOMAIN outcomes : outcomes[k] \in Outcomes
  BY DEF IInv, Answered, Measured, JudgedRuns
<1>5. made # Nothing => phase = "done" BY DEF IInv, Routed
<1>6. ASSUME NEW c \in DOMAIN runs
      PROVE  /\ Cardinality(Kept(c)) <= regime.caps.candidates
             /\ Cardinality(Accepted(c)) <= regime.caps.accepted
             /\ Cardinality(Kept(c)) < Least(runs[c].sightings.unique, regime.caps.candidates)
                  => Cardinality(Accepted(c)) = regime.caps.accepted
  <2>1. Cut(runs[c], regime.caps) BY DEF Measured, JudgedRuns
  <2> QED BY <2>1, Zenon DEF Cut, Kept, Accepted
<1> QED BY <1>1, <1>3, <1>4, <1>5, <1>6 DEF CellInv, IInv, Progress, Asked

-----------------------------------------------------------------------------
(* The coverage report.                                                    *)

LEMMA DedupedOnce ==
  ASSUME NEW all, \A r \in all : r.cell \in Nat, NEW d \in Deduped(all), NEW e \in Deduped(all),
         d.topic = e.topic, d.key = e.key
  PROVE  d = e
<1> DEFINE first(topic, key) ==
             CHOOSE r \in all : /\ <<r.topic, r.key>> = <<topic, key>>
                                /\ \A q \in all : <<q.topic, q.key>> = <<topic, key>> => NotAfter(r, q)
<1>1. d = first(d.topic, d.key) /\ e = first(e.topic, e.key) BY DedupedIsFirst
<1> HIDE DEF first
<1> QED BY <1>1

(* The full records a cell has in its topic: known by their keys, and      *)
(* these are what the cell is to count.                                    *)
LEMMA ScopedAre ==
  ASSUME IInv, Measured, phase = "done", NEW c \in regime.cells
  PROVE  LET scoped == {r \in Applicable(made.records) : r.cell = c}
         IN /\ IsFiniteSet(scoped) /\ Cardinality(scoped) = Cardinality(Counted(c))
            /\ \A r, q \in scoped : r.key = q.key => r = q
            /\ scoped # {} <=> Counted(c) # {}
<1> DEFINE scoped == {r \in Applicable(made.records) : r.cell = c}
           held   == {r.key : r \in {q \in made.artifacts[c] : q.type = "full"}}
           counted == Counted(c)
           all    == AllRecords
           f      == [r \in scoped |-> r.key]
<1>1. /\ made.records = Deduped(all) /\ \A r \in all : r.cell \in Nat
      /\ DOMAIN made.artifacts = regime.cells
  BY MadeIs, RecordsAre
<1>2. \A d \in Deduped(all) :
        /\ d \in all
        /\ \A q \in all : q.topic = d.topic /\ q.key = d.key => NotAfter(d, q)
  <2> HIDE DEF all
  <2> QED BY <1>1, DedupedIsFirst
<1>3. ASSUME NEW r \in scoped
      PROVE  /\ r \in Deduped(all) /\ r \in AllRecords /\ r.type = "full" /\ r.cell = c
             /\ r.topic = TopicOf[c]
  <2>1. r \in Deduped(all) /\ r.type = "full" /\ r.cell = c BY <1>1 DEF Applicable
  <2>2. r \in AllRecords BY <1>2, <2>1
  <2> QED BY <2>1, <2>2, RecordsAre
<1>4. ASSUME NEW r \in scoped, NEW q \in scoped, r.key = q.key PROVE r = q
  <2>1. r \in Deduped(all) /\ q \in Deduped(all) /\ r.topic = q.topic BY <1>3
  <2> HIDE DEF all
  <2> QED BY <1>1, <1>4, <2>1, DedupedOnce
<1>5. ASSUME NEW r \in scoped PROVE r.key \in counted
  <2>1. r \in AllRecords /\ r.cell = c /\ r.type = "full" /\ r.topic = TopicOf[c] BY <1>3
  <2>2. PICK q \in made.artifacts[c] : q.key = r.key /\ NotAfter(q, r) BY <2>1, ArtifactsHold
  <2>3. q.cell = c /\ c \in Nat BY <2>1, <2>2, ArtifactsHold, RecordsAre
  <2>4. q.type = "full" BY <2>1, <2>2, <2>3 DEF NotAfter
  <2>5. ASSUME NEW d \in DOMAIN made.artifacts, d < c, TopicOf[d] = TopicOf[c],
               NEW p \in made.artifacts[d], p.key = q.key
        PROVE  FALSE
    <3>1. d \in regime.cells BY <1>1
    <3>2. p \in AllRecords /\ p.cell = d BY <3>1, ArtifactsHold
    <3>3. p.topic = r.topic /\ p.key = r.key /\ d \in Nat
      BY <2>1, <2>2, <2>5, <3>2, RecordsAre
    <3>4. NotAfter(r, p) BY <1>2, <1>3, <3>2, <3>3
    <3> QED BY <2>1, <2>3, <2>5, <3>2, <3>3, <3>4 DEF NotAfter
  <2> QED BY <2>2, <2>4, <2>5 DEF Counted
<1>6. ASSUME NEW k \in counted PROVE \E r \in scoped : r.key = k
  <2>1. PICK q \in made.artifacts[c] :
          /\ q.type = "full" /\ q.key = k
          /\ \A d \in DOMAIN made.artifacts :
               d < c /\ TopicOf[d] = TopicOf[c] => \A p \in made.artifacts[d] : p.key # q.key
    BY DEF Counted
  <2>2. q \in AllRecords /\ q.cell = c /\ c \in Nat /\ q.topic = TopicOf[c]
    BY ArtifactsHold, RecordsAre
  <2>3. PICK e \in Deduped(all) : e.topic = q.topic /\ e.key = q.key /\ NotAfter(e, q)
    <3>1. q \in all BY <2>2
    <3> HIDE DEF all
    <3> QED BY <1>1, <3>1, DedupedHolds
  <2>4. e \in AllRecords /\ e.cell \in regime.cells /\ e.cell \in Nat /\ e.topic = TopicOf[e.cell]
    BY <1>2, RecordsAre
  <2>5. ~(e.cell < c)
    <3>1. PICK p \in made.artifacts[e.cell] : p.key = e.key BY <2>4, ArtifactsHold
    <3> QED BY <1>1, <2>1, <2>2, <2>3, <2>4, <3>1
  <2>6. e.cell = c /\ e.type = "full" BY <2>1, <2>2, <2>3, <2>4, <2>5 DEF NotAfter
  <2> QED BY <1>1, <2>1, <2>3, <2>6 DEF Applicable
<1>7. IsFiniteSet(held)
  <2> DEFINE A == {Accepted(d) : d \in DOMAIN runs}
             D == DOMAIN runs
             g == [d \in D |-> Accepted(d)]
  <2>1. ASSUME NEW d \in D PROVE IsFiniteSet(Accepted(d))
    <3> DEFINE S == {j \in runs[d].cases : j.verdict = Accept}
               T == Accepted(d)
               h == [j \in S |-> j.key]
    <3>1. IsFiniteSet(runs[d].cases) BY DEF Measured, JudgedRuns, Cases
    <3>2. IsFiniteSet(S) BY <3>1, FS_Subset
    <3>3. T = {j.key : j \in S} BY DEF Accepted, AcceptedOf
    <3>4. h \in [S -> T] /\ \A t \in T : \E j \in S : h[j] = t BY <3>3
    <3> HIDE DEF S, T, h
    <3>5. h \in Surjection(S, T) BY <3>4, Fun_IsSurj, Zenon
    <3>6. IsFiniteSet(T) BY <3>2, <3>5, FS_Surjection, Zenon
    <3> QED BY <3>6 DEF T
  <2>2. IsFiniteSet(D) BY DEF Measured, JudgedRuns
  <2>3. g \in [D -> A] /\ \A t \in A : \E d \in D : g[d] = t OBVIOUS
  <2>4. \A a \in A : IsFiniteSet(a) BY <2>1
  <2>5. ASSUME NEW r \in made.artifacts[c], r.type = "full" PROVE \E a \in A : r.key \in a
    <3>1. r \in AllRecords BY <2>5, ArtifactsHold
    <3>2. PICK d \in DOMAIN runs : r.key \in Accepted(d) BY <2>5, <3>1, FullRecordIs
    <3> QED BY <3>2
  <2>6. held \subseteq UNION A BY <2>5
  <2> HIDE DEF A, D, g, held
  <2>7. g \in Surjection(D, A) BY <2>3, Fun_IsSurj, Zenon
  <2>8. IsFiniteSet(A) BY <2>2, <2>7, FS_Surjection, Zenon
  <2>9. IsFiniteSet(UNION A) BY <2>4, <2>8, FS_UNION
  <2> QED BY <2>6, <2>9, FS_Subset
<1>8. IsFiniteSet(counted)
  <2>1. counted \subseteq held BY DEF Counted
  <2> HIDE DEF counted, held
  <2> QED BY <1>7, <2>1, FS_Subset
<1>9. /\ f \in [scoped -> counted] /\ \A k \in counted : \E r \in scoped : f[r] = k
      /\ \A r, q \in scoped : f[r] = f[q] => r = q
  BY <1>4, <1>5, <1>6
<1>10. scoped # {} <=> counted # {} BY <1>5, <1>6
<1> HIDE DEF scoped, counted, f
<1>11. f \in Bijection(scoped, counted) /\ f \in Injection(scoped, counted)
  BY <1>9, Fun_IsBij, Fun_IsInj, Zenon
<1>12. IsFiniteSet(scoped) BY <1>8, <1>11, FS_Injection, Zenon
<1>13. Cardinality(scoped) = Cardinality(counted)
  BY <1>11, <1>12, FS_Bijection, Zenon DEF ExistsBijection
<1> QED BY <1>4, <1>10, <1>12, <1>13 DEF scoped, counted

(* Records known by their keys: some of them and the keys of the others    *)
(* add up to all.                                                          *)
LEMMA SplitByKey ==
  ASSUME NEW S, IsFiniteSet(S), \A r, q \in S : r.key = q.key => r = q, NEW T \in SUBSET S
  PROVE  Cardinality(S) = Cardinality(T) + Cardinality({r.key : r \in S \ T})
<1> DEFINE W == S \ T
           K == {r.key : r \in W}
           f == [r \in W |-> r.key]
<1>1. f \in [W -> K] /\ (\A k \in K : \E r \in W : f[r] = k) /\ \A r, q \in W : f[r] = f[q] => r = q
  OBVIOUS
<1>2. IsFiniteSet(T) /\ IsFiniteSet(W) /\ Cardinality(W) = Cardinality(S) - Cardinality(S \cap T)
  BY FS_Subset, FS_Difference
<1>3. S \cap T = T OBVIOUS
<1>4. Cardinality(S) \in Nat /\ Cardinality(T) \in Nat /\ Cardinality(W) \in Nat
  BY <1>2, FS_CardinalityType
<1> HIDE DEF W, K, f
<1>5. f \in Bijection(W, K) BY <1>1, Fun_IsBij, Zenon
<1>6. Cardinality(K) = Cardinality(W) BY <1>2, <1>5, FS_Bijection, Zenon DEF ExistsBijection
<1>7. Cardinality(S) = Cardinality(T) + Cardinality(K) BY <1>2, <1>3, <1>4, <1>6
<1> QED BY <1>7 DEF K, W

(* A cell has a row when it has something to count.                        *)
LEMMA CoveredAre ==
  ASSUME IInv, Measured, phase = "done"
  PROVE  /\ DOMAIN made.coverage = {c \in DOMAIN made.artifacts : Counted(c) # {}}
         /\ DOMAIN made.coverage \subseteq regime.cells
<1> DEFINE all == AllRecords
<1>1. /\ DOMAIN made.coverage = {r.cell : r \in Applicable(made.records)}
      /\ DOMAIN made.artifacts = regime.cells
  BY MadeIs DEF CoverageReport
<1>2. ASSUME NEW r \in Applicable(made.records) PROVE r.cell \in regime.cells
  <2>1. r \in Deduped(all) /\ \A q \in all : q.cell \in Nat
    BY MadeIs, RecordsAre DEF Applicable
  <2>2. r \in all
    <3> HIDE DEF all
    <3> QED BY <2>1, DedupedIsFirst
  <2> QED BY <2>2, RecordsAre
<1>3. ASSUME NEW c \in regime.cells
      PROVE  (\E r \in Applicable(made.records) : r.cell = c) <=> Counted(c) # {}
  <2>1. {r \in Applicable(made.records) : r.cell = c} # {} <=> Counted(c) # {} BY ScopedAre
  <2> QED BY <2>1
<1> QED BY <1>1, <1>2, <1>3

LEMMA RowIsHonest ==
  ASSUME IInv, Measured, phase = "done", NEW c \in DOMAIN made.coverage
  PROVE  LET row == made.coverage[c]
         IN /\ row.applicable = Cardinality(Counted(c))
            /\ row.applicable = row.eligible + Cardinality(row.withheld)
            /\ row.withheld # {} => c \in GatedCells
<1> DEFINE records == made.records
           scoped == {r \in Applicable(records) : r.cell = c}
           released == {r \in scoped : PublicationEligible(r)}
           kept == {q \in scoped : ~PublicationEligible(q)}
           row == made.coverage[c]
<1>1. c \in {r.cell : r \in Applicable(records)} /\ row = Row(records, c)
  BY MadeIs DEF CoverageReport
<1>2. c \in regime.cells BY CoveredAre
<1>3. /\ row.applicable = Cardinality(scoped) /\ row.eligible = Cardinality(released)
      /\ row.withheld = {r.key : r \in kept}
  <2> DEFINE states == [s \in ReportingStates |-> Cardinality({r \in scoped : ReportingState(r) = s})]
             gaps == [axis \in Axes |-> [slug \in DOMAIN Target[axis] |-> Gap(scoped, axis, slug)]]
             withheld == {r.key : r \in kept}
  <2>1. row = [applicable |-> Cardinality(scoped), states |-> states,
               eligible |-> Cardinality(released), withheld |-> withheld, gaps |-> gaps]
    BY <1>1, Zenon DEF Row
  <2> HIDE DEF scoped, released, withheld, states, gaps, row
  <2>2. /\ row.applicable = Cardinality(scoped) /\ row.eligible = Cardinality(released)
        /\ row.withheld = withheld
    BY <2>1
  <2> QED BY <2>2 DEF withheld
<1>4. /\ IsFiniteSet(scoped) /\ Cardinality(scoped) = Cardinality(Counted(c))
      /\ \A r, q \in scoped : r.key = q.key => r = q
  BY <1>2, ScopedAre
<1>5. kept = scoped \ released /\ released \subseteq scoped OBVIOUS
<1>6. ASSUME kept # {} PROVE c \in GatedCells
  <2>1. PICK q \in kept : TRUE BY <1>6
  <2> QED BY <2>1 DEF PublicationEligible, Gated
<1>7. row.withheld # {} => kept # {} BY <1>3
<1>8. Cardinality(scoped) = Cardinality(released) + Cardinality(row.withheld)
  <2> HIDE DEF scoped, released, row
  <2> QED BY <1>3, <1>4, <1>5, SplitByKey
<1> HIDE DEF scoped, released, kept, row
<1>9. /\ row.applicable = Cardinality(Counted(c))
      /\ row.applicable = row.eligible + Cardinality(row.withheld)
      /\ row.withheld # {} => c \in GatedCells
  BY <1>3, <1>4, <1>6, <1>7, <1>8, Zenon
<1> QED BY <1>9 DEF row

(* One industry that is not an ambiguity is better supported than others.  *)
LEMMA BestIsOne ==
  ASSUME NEW seen, PrimaryIndustry(seen) \ {Unclear} # {}
  PROVE  \E s \in Supported(seen, Industry) :
           \A t \in Supported(seen, Industry) \ {s} :
             Support(seen, Industry, t) < Support(seen, Industry, s)
<1> DEFINE all == Supported(seen, Industry)
           n(s) == Support(seen, Industry, s)
           best == {s \in all : \A t \in all : n(t) <= n(s)}
<1>1. all \subseteq DOMAIN FacetTerms[Industry] BY DEF Supported
<1>2. ASSUME NEW s \in all PROVE n(s) \in Nat
  <2>1. IsFiniteSet(FacetTerms[Industry][s]) BY <1>1, FacetsAssumption
  <2> QED BY <2>1, FS_Intersection, FS_CardinalityType DEF Support
<1>3. IsFiniteSet(best)
  <2>1. IsFiniteSet(DOMAIN FacetTerms[Industry]) BY FacetsAssumption
  <2>2. best \subseteq DOMAIN FacetTerms[Industry] BY <1>1
  <2> HIDE DEF best
  <2> QED BY <2>1, <2>2, FS_Subset
<1>4. PrimaryIndustry(seen) = IF Cardinality(best) > 1 THEN {Unclear} ELSE best
  BY Zenon DEF PrimaryIndustry
<1>5. best # {} /\ ~(Cardinality(best) > 1)
  <2> HIDE DEF best
  <2> QED BY <1>4
<1>6. PICK s \in best : best \subseteq {s}
  <2> HIDE DEF best
  <2>1. Cardinality(best) \in Nat /\ Cardinality(best) # 0
    BY <1>3, <1>5, FS_EmptySet, FS_CardinalityType
  <2>2. Cardinality(best) = 1 BY <1>5, <2>1
  <2> QED BY <1>3, <2>2, FS_Singleton
<1>7. ASSUME NEW t \in all \ {s} PROVE n(t) < n(s)
  <2> HIDE DEF n, all
  <2>1. t \notin best BY <1>6, <1>7
  <2>2. PICK u \in all : ~(n(u) <= n(t)) BY <2>1, <1>7
  <2>3. n(u) <= n(s) BY <2>2
  <2>4. n(u) \in Nat /\ n(t) \in Nat /\ n(s) \in Nat BY <1>2, <1>7, <2>2
  <2> QED BY <2>2, <2>3, <2>4
<1>8. s \in all OBVIOUS
<1> QED BY <1>7, <1>8

LEMMA ReleasedIsGrounded ==
  ASSUME IInv, Measured, phase = "done", NEW r \in made.records, Gated(r), PublicationEligible(r)
  PROVE  \E d \in DOMAIN runs :
           /\ r.key \in Accepted(d) /\ Home(d, r.key) = r.cell
           /\ LET seen == Case(d, r.key).candidate
              IN /\ \E s \in Supported(seen, Industry) :
                      \A t \in Supported(seen, Industry) \ {s} :
                        Support(seen, Industry, t) < Support(seen, Industry, s)
                 /\ \E axis \in Multi : Supported(seen, axis) # {}
<1> DEFINE all == AllRecords
           k   == r.key
<1>1. r \in all
  <2>1. r \in Deduped(all) /\ \A q \in all : q.cell \in Nat BY MadeIs, RecordsAre
  <2> HIDE DEF all
  <2> QED BY <2>1, DedupedIsFirst
<1>2. r.type = "full" /\ r.facets.applies /\ Resolved(r.facets)
  BY DEF Gated, PublicationEligible, ReportingState
<1>3. PICK d \in DOMAIN runs :
        \E l \in Accepted(d) : (r = FullRecord(d, l) \/ r \in Pointers(d, l)) /\ k = l
  BY <1>1, RecordsAre
<1>4. k \in Accepted(d) /\ r = FullRecord(d, k) BY <1>2, <1>3 DEF Pointers
<1>5. r.cell = Home(d, k) /\ r.facets = Case(d, k).facets
  <2> DEFINE l == k
  <2>1. r = FullRecord(d, l) BY <1>4
  <2> HIDE DEF l
  <2>2. r.cell = Home(d, l) /\ r.facets = Case(d, l).facets BY <2>1 DEF FullRecord
  <2> QED BY <2>2 DEF l
<1>6. k \in Kept(d) BY <1>4 DEF Accepted, AcceptedOf, Kept
<1> DEFINE seen == Case(d, k).candidate
           home == Classify(seen, <<d>>).cell
<1>7. r.facets = Facets(seen, home)
  <2>1. Case(d, k) = CaseOf(seen, <<d>>) BY <1>6, CaseIs DEF Measured
  <2> DEFINE x == seen
  <2> HIDE DEF x
  <2>2. CaseOf(x, <<d>>).facets = Facets(x, Classify(x, <<d>>).cell) BY DEF CaseOf
  <2> QED BY <1>5, <2>1, <2>2 DEF x
<1> HIDE DEF seen, home, k
<1>8. r.facets.industry = PrimaryIndustry(seen) BY <1>2, <1>7 DEF Facets, NoFacets
<1>9. PrimaryIndustry(seen) \ {Unclear} # {} BY <1>2, <1>8 DEF Resolved
<1>10. \E s \in Supported(seen, Industry) :
         \A t \in Supported(seen, Industry) \ {s} :
           Support(seen, Industry, t) < Support(seen, Industry, s)
  BY <1>9, BestIsOne
<1>11. \E axis \in Multi : Supported(seen, axis) # {}
  <2>1. PICK axis \in Multi : r.facets[axis] # {} BY <1>2 DEF Resolved
  <2>2. r.facets[axis] = Strongest(seen, axis, MaxMultiValues)
    BY <1>2, <1>7, <2>1 DEF Facets, NoFacets, Multi
  <2>3. Strongest(seen, axis, MaxMultiValues) \subseteq Supported(seen, axis) BY DEF Strongest
  <2> QED BY <2>1, <2>2, <2>3
<1> QED BY <1>4, <1>5, <1>10, <1>11, Zenon DEF k, seen

LEMMA CoverageHonestFollows == ASSUME IInv, Measured PROVE CoverageHonest
BY CoveredAre, RowIsHonest, ReleasedIsGrounded, Zenon DEF CoverageHonest

-----------------------------------------------------------------------------
(* run() asks for the page of an identity once, in however many cells and  *)
(* topics it is accepted, and every record of it carries the one answer.   *)
THEOREM RequestedOnce == Spec => []OneRequest
BY IInvHolds, OneRequestFollows, PTL

(* Routing and deduplication of a cell's artifact lose no accepted record  *)
(* and leave no pointer without the record it names.                       *)
THEOREM AcceptedIsKept == Spec => []NothingLost
BY IInvHolds, NothingLostFollows, PTL

(* A preferred URL moves by permanent redirects and migration rules only.  *)
THEOREM CanonicalIsEarned == Spec => []CanonicalEarned
BY IInvHolds, CanonicalEarnedFollows, PTL

(* A cell reports a zero result only for what was judged or fully looked   *)
(* for, and an error only when it holds nothing.                           *)
THEOREM ZerosAreHonest == Spec => []ZeroIsHonest
BY IInvHolds, ZeroIsHonestFollows, PTL

(* A run that may be published looked at the page of every identity it     *)
(* publishes a record of.                                                  *)
THEOREM EligibleIsChecked == Spec => []EligibleMeansChecked
BY IInvHolds, EligibleMeansCheckedFollows, PTL

(* The caps of a run cut what is judged, first candidates first, and every *)
(* variable is what it should be, whatever the sources deliver.            *)
THEOREM CapsCutInOrder == Spec => []CellInv
BY MeasuredHolds, CellInvFollows, PTL

(* The report has a row for exactly the cells that hold something to count *)
(* and counts it all, every identity of a topic once; and a record of a    *)
(* gated cell is released only when one industry is best supported by its  *)
(* own words, and a function or a use case is (facets.py, coverage.py).    *)
THEOREM CoverageIsHonest == Spec => []CoverageHonest
BY MeasuredHolds, CoverageHonestFollows, PTL
=============================================================================
