---------------------------- MODULE Rounds_proofs ----------------------------
(***************************************************************************)
(* Proofs about Rounds and its pool, for any lanes, sources and targets:   *)
(* the run has one view of every source, the document of the pool does not *)
(* tell the order it was made in, the rounds keep their bounds, and the    *)
(* reason a run stops for is true of its records.                          *)
(***************************************************************************)
EXTENDS Rounds, FiniteSetTheorems, FunctionTheorems, WellFoundedInduction, TLAPS

-----------------------------------------------------------------------------
(* Moving the pairs of a query.                                            *)

LEMMA FunctionIsSeq ==
  ASSUME NEW n \in Nat, NEW S, NEW f \in [1..n -> S] PROVE f \in Seq(S)
OBVIOUS

LEMMA ReorderedReflexive == ASSUME NEW x PROVE Reordered(x, x)
<1> DEFINE D == DOMAIN x
           f == [i \in D |-> i]
<1>1. f \in [D -> D] /\ \A a, b \in D : f[a] = f[b] => a = b OBVIOUS
<1>2. \A t \in D : \E s \in D : f[s] = t OBVIOUS
<1> HIDE DEF f
<1>3. f \in Bijection(D, D) BY <1>1, <1>2, Fun_IsBij, Zenon
<1> QED BY <1>3 DEF Reordered, f

LEMMA ReorderedSymmetric ==
  ASSUME NEW S, NEW T, NEW x \in Seq(S), NEW y \in Seq(T), Reordered(x, y) PROVE Reordered(y, x)
<1> DEFINE D == DOMAIN x
           E == DOMAIN y
<1>1. PICK f \in Bijection(D, E) :
        /\ \A i \in D : y[f[i]] = x[i]
        /\ \A i, j \in D : x[i][1] = x[j][1] /\ i < j => f[i] < f[j]
  BY DEF Reordered
<1>2. /\ f \in [D -> E] /\ \A t \in E : \E s \in D : f[s] = t
  BY <1>1 DEF Bijection, Surjection
<1> DEFINE g == Inverse(f, D, E)
<1>3. g \in Bijection(E, D) /\ \A s \in D : g[f[s]] = s BY Fun_BijInverse, Zenon
<1>4. g \in [E -> D] BY <1>3, Fun_BijectionProperties, Zenon
<1>5. \A t \in E : f[g[t]] = t BY <1>2, <1>3
<1> HIDE DEF g
<1>6. \A i \in E : x[g[i]] = y[i] BY <1>1, <1>4, <1>5
<1>7. ASSUME NEW i \in E, NEW j \in E, y[i][1] = y[j][1], i < j PROVE g[i] < g[j]
  <2>1. D \subseteq Nat /\ E \subseteq Nat OBVIOUS
  <2>2. g[i] \in D /\ g[j] \in D /\ f[g[i]] = i /\ f[g[j]] = j BY <1>4, <1>5
  <2>3. x[g[j]][1] = x[g[i]][1] BY <1>6, <1>7
  <2>4. ~(g[j] < g[i])
    <3>1. g[j] < g[i] => f[g[j]] < f[g[i]] BY <1>1, <2>2, <2>3
    <3> QED BY <1>7, <2>1, <2>2, <3>1
  <2>5. g[i] # g[j] BY <1>7, <2>1, <2>2
  <2> QED BY <2>1, <2>2, <2>4, <2>5
<1> QED BY <1>3, <1>6, <1>7 DEF Reordered

LEMMA ReorderedTransitive ==
  ASSUME NEW S, NEW x \in Seq(S), NEW y \in Seq(S), NEW z \in Seq(S),
         Reordered(x, y), Reordered(y, z)
  PROVE  Reordered(x, z)
<1> DEFINE D == DOMAIN x
           E == DOMAIN y
           F == DOMAIN z
<1>1. PICK f \in Bijection(D, E) :
        /\ \A i \in D : y[f[i]] = x[i]
        /\ \A i, j \in D : x[i][1] = x[j][1] /\ i < j => f[i] < f[j]
  BY DEF Reordered
<1>2. PICK g \in Bijection(E, F) :
        /\ \A i \in E : z[g[i]] = y[i]
        /\ \A i, j \in E : y[i][1] = y[j][1] /\ i < j => g[i] < g[j]
  BY DEF Reordered
<1> DEFINE h == [i \in D |-> g[f[i]]]
<1>3. h \in Bijection(D, F) BY Fun_BijTransitive, Zenon
<1>4. f \in [D -> E] BY Fun_BijectionProperties, Zenon
<1>5. \A i \in D : h[i] = g[f[i]] /\ f[i] \in E BY <1>4
<1> HIDE DEF h
<1>6. \A i \in D : z[h[i]] = x[i] BY <1>1, <1>2, <1>5
<1>7. ASSUME NEW i \in D, NEW j \in D, x[i][1] = x[j][1], i < j PROVE h[i] < h[j]
  <2>1. f[i] < f[j] BY <1>1, <1>7
  <2>2. y[f[i]][1] = y[f[j]][1] BY <1>1, <1>7
  <2> QED BY <1>2, <1>5, <2>1, <2>2
<1> QED BY <1>3, <1>6, <1>7 DEF Reordered

(* Sorting by name moves the pairs so: their places are a permutation that *)
(* keeps the order of equal names.                                         *)
LEMMA SortedStableReorders ==
  ASSUME NEW x \in Seq(Nat \X Nat)
  PROVE  SortedStable(x) \in Seq(Nat \X Nat) /\ Reordered(x, SortedStable(x))
<1> DEFINE D       == DOMAIN x
           low(i)  == {j \in D : \/ x[j][1] < x[i][1]
                                 \/ x[j][1] = x[i][1] /\ j <= i}
           place   == [i \in D |-> Cardinality(low(i))]
<1>1. D = 1..Len(x) /\ Len(x) \in Nat /\ \A i \in D : i \in Nat /\ x[i][1] \in Nat /\ x[i] \in Nat \X Nat
  OBVIOUS
<1>2. IsFiniteSet(D) /\ Cardinality(D) = Len(x)
  <2> DEFINE n == Len(x)
  <2>1. D = 1..n /\ n \in Nat BY <1>1
  <2> HIDE DEF n, D
  <2>2. IsFiniteSet(1..n) /\ Cardinality(1..n) = n BY <2>1, FS_Interval
  <2> QED BY <2>1, <2>2 DEF n
<1>3. \A i \in D : low(i) \subseteq D /\ i \in low(i) BY <1>1
<1>4. \A i \in D : IsFiniteSet(low(i)) /\ Cardinality(low(i)) \in Nat /\ Cardinality(low(i)) <= Len(x)
  <2> SUFFICES ASSUME NEW i \in D
               PROVE  IsFiniteSet(low(i)) /\ Cardinality(low(i)) \in Nat /\ Cardinality(low(i)) <= Len(x)
    OBVIOUS
  <2>1. low(i) \subseteq D BY <1>3
  <2> HIDE DEF low, D
  <2> QED BY <1>2, <2>1, FS_Subset, FS_CardinalityType
<1>5. \A i \in D : Cardinality(low(i)) # 0
  <2> SUFFICES ASSUME NEW i \in D PROVE Cardinality(low(i)) # 0 OBVIOUS
  <2>1. low(i) # {} BY <1>3
  <2>2. IsFiniteSet(low(i)) BY <1>4
  <2> HIDE DEF low
  <2> QED BY <2>1, <2>2, FS_EmptySet
(* Whoever stands lower has the lower place.                               *)
<1>6. ASSUME NEW i \in D, NEW j \in D, i \in low(j), i # j
      PROVE  Cardinality(low(i)) < Cardinality(low(j))
  <2>1. low(i) \subseteq low(j) /\ j \notin low(i) /\ j \in low(j) BY <1>1, <1>6, SMTT(30)
  <2>2. IsFiniteSet(low(j)) /\ low(i) # low(j) BY <1>4, <2>1
  <2> HIDE DEF low
  <2>3. Cardinality(low(i)) <= Cardinality(low(j)) /\ Cardinality(low(i)) # Cardinality(low(j))
    BY <2>1, <2>2, FS_Subset
  <2> QED BY <1>4, <2>3
<1>7. \A i, j \in D : i = j \/ i \in low(j) \/ j \in low(i) BY <1>1
<1>8. place \in [D -> D]
  <2> SUFFICES ASSUME NEW i \in D PROVE Cardinality(low(i)) \in D OBVIOUS
  <2> HIDE DEF low
  <2> QED BY <1>1, <1>4, <1>5
<1>9. \A i \in D : place[i] = Cardinality(low(i)) OBVIOUS
<1> HIDE DEF place
<1>10. \A i, j \in D : place[i] = place[j] => i = j
  <2> SUFFICES ASSUME NEW i \in D, NEW j \in D, place[i] = place[j], i # j PROVE FALSE OBVIOUS
  <2>1. Cardinality(low(i)) = Cardinality(low(j)) /\ Cardinality(low(i)) \in Nat BY <1>4, <1>9
  <2>2. i \in low(j) \/ j \in low(i) BY <1>7
  <2>3. i \in low(j) => Cardinality(low(i)) < Cardinality(low(j)) BY <1>6
  <2>4. j \in low(i) => Cardinality(low(j)) < Cardinality(low(i)) BY <1>6
  <2> HIDE DEF low
  <2> QED BY <2>1, <2>2, <2>3, <2>4
<1>11. place \in Injection(D, D) BY <1>8, <1>10, Fun_IsInj, Zenon
<1>12. place \in Surjection(D, D) BY <1>2, <1>11, FS_Injection, Zenon
<1>13. place \in Bijection(D, D) BY <1>11, <1>12 DEF Bijection
<1>14. \A n \in D : \E i \in D : place[i] = n BY <1>12 DEF Surjection
<1>15. \A i \in D : Place(x, i) = place[i] BY <1>9, Zenon DEF Place
<1> DEFINE y == SortedStable(x)
           at(n) == CHOOSE i \in D : Place(x, i) = n
<1>16. \A n \in D : at(n) \in D /\ place[at(n)] = n BY <1>14, <1>15
<1>17. DOMAIN y = D /\ \A n \in D : y[n] = x[at(n)] BY Zenon DEF SortedStable
<1>18. \A i \in D : y[place[i]] = x[i]
  <2> SUFFICES ASSUME NEW i \in D PROVE y[place[i]] = x[i] OBVIOUS
  <2>1. place[i] \in D BY <1>8
  <2>2. at(place[i]) \in D /\ place[at(place[i])] = place[i] BY <1>16, <2>1
  <2>3. at(place[i]) = i BY <1>10, <2>2
  <2> HIDE DEF at
  <2> QED BY <1>17, <2>1, <2>3
<1>19. ASSUME NEW i \in D, NEW j \in D, x[i][1] = x[j][1], i < j PROVE place[i] < place[j]
  <2>1. i \in low(j) /\ i # j BY <1>1, <1>19
  <2> HIDE DEF low
  <2> QED BY <1>6, <1>9, <2>1
<1>20. y \in [1..Len(x) -> Nat \X Nat]
  <2>1. y = [n \in D |-> x[at(n)]] BY Zenon DEF SortedStable
  <2>2. \A n \in D : x[at(n)] \in Nat \X Nat
    <3> HIDE DEF at
    <3> QED BY <1>1, <1>16
  <2> HIDE DEF at, y
  <2> QED BY <1>1, <2>1, <2>2
<1> HIDE DEF y
<1>21. y \in Seq(Nat \X Nat) BY <1>1, <1>20, FunctionIsSeq
<1>22. Reordered(x, y) BY <1>13, <1>17, <1>18, <1>19 DEF Reordered
<1> QED BY <1>21, <1>22 DEF y

(* What is asked under one key is one question.                            *)
LEMMA KeysTellQuestions ==
  ASSUME NEW p \in Requests, NEW q \in Requests, RequestKey(p) = RequestKey(q)
  PROVE  SameQuestion(p, q)
<1>1. /\ p.source = q.source /\ p.base = q.base /\ p.mode = q.mode
      /\ CanonicalQuery(p) = CanonicalQuery(q)
  <2> DEFINE x == CanonicalQuery(p)
             y == CanonicalQuery(q)
  <2>1. <<p.source, p.base, x, p.mode>> = <<q.source, q.base, y, q.mode>> BY DEF RequestKey
  <2> HIDE DEF x, y
  <2>2. p.source = q.source /\ p.base = q.base /\ p.mode = q.mode /\ x = y BY <2>1
  <2> QED BY <2>2 DEF x, y
<1>2. \A r \in Requests : /\ r.query \in Seq(Nat \X Nat) /\ CanonicalQuery(r) \in Seq(Nat \X Nat)
                          /\ Reordered(r.query, CanonicalQuery(r))
  BY RequestsAssumption, SortedStableReorders, ReorderedReflexive DEF CanonicalQuery
<1>3. Reordered(CanonicalQuery(q), q.query) BY <1>2, ReorderedSymmetric
<1>4. Reordered(p.query, q.query) BY <1>1, <1>2, <1>3, ReorderedTransitive
<1>5. p.policy = "preserve" /\ q.policy = "preserve" => p.query = q.query
  BY <1>1 DEF CanonicalQuery
<1> QED BY <1>1, <1>4, <1>5 DEF SameQuestion

-----------------------------------------------------------------------------
(* Sequences that only grow.                                               *)
IsSeq(s) == s \in Seq(ToSet(s))

LEMMA AppendIs ==
  ASSUME NEW s, NEW x, IsSeq(s)
  PROVE  /\ IsSeq(Append(s, x)) /\ ToSet(Append(s, x)) = ToSet(s) \cup {x}
         /\ Len(s) \in Nat /\ Len(Append(s, x)) = Len(s) + 1
         /\ \A i \in 1..Len(s) : Append(s, x)[i] = s[i]
         /\ Append(s, x)[Len(s) + 1] = x
<1> DEFINE S == ToSet(s)
           T == S \cup {x}
           t == Append(s, x)
<1>1. s \in Seq(S) /\ \A i \in DOMAIN s : s[i] \in S BY DEF IsSeq, ToSet
<1>2. \A e \in S : \E i \in DOMAIN s : s[i] = e BY DEF ToSet
<1> HIDE DEF S
<1>3. s \in Seq(T) /\ x \in T
  <2>1. s \in [1..Len(s) -> T] /\ Len(s) \in Nat BY <1>1
  <2> HIDE DEF T
  <2> QED BY <2>1, FunctionIsSeq DEF T
<1>4. /\ t \in Seq(T) /\ Len(s) \in Nat /\ Len(t) = Len(s) + 1 /\ DOMAIN t = 1..(Len(s) + 1)
      /\ \A i \in 1..Len(s) : t[i] = s[i]
      /\ t[Len(s) + 1] = x
  <2> HIDE DEF T
  <2> QED BY <1>3
<1>5. ToSet(t) = T
  <2> HIDE DEF t
  <2>1. \A i \in DOMAIN t : t[i] \in T BY <1>4
  <2>2. \A e \in T : \E i \in DOMAIN t : t[i] = e
    <3> SUFFICES ASSUME NEW e \in T PROVE \E i \in DOMAIN t : t[i] = e OBVIOUS
    <3>1. CASE e = x BY <1>4, <3>1
    <3>2. CASE e \in S
      <4>1. PICK i \in DOMAIN s : s[i] = e BY <1>2, <3>2
      <4>2. i \in 1..Len(s) BY <1>1
      <4> QED BY <1>4, <4>1, <4>2
    <3> QED BY <3>1, <3>2
  <2> HIDE DEF T
  <2> QED BY <2>1, <2>2 DEF ToSet
<1> HIDE DEF t
<1> QED BY <1>4, <1>5 DEF IsSeq, S, t

LEMMA AddedIs ==
  ASSUME NEW s, NEW x, IsSeq(s)
  PROVE  IsSeq(Added(s, x)) /\ ToSet(Added(s, x)) = ToSet(s) \cup {x}
<1>1. CASE x \in ToSet(s) BY <1>1 DEF Added
<1>2. CASE x \notin ToSet(s)
  <2>1. Added(s, x) = Append(s, x) BY <1>2 DEF Added
  <2> HIDE DEF Added
  <2> QED BY <2>1, AppendIs
<1> QED BY <1>1, <1>2

LEMMA SmallSeqs ==
  /\ IsSeq(<<>>) /\ ToSet(<<>>) = {}
  /\ \A x : IsSeq(<<x>>) /\ ToSet(<<x>>) = {x}
<1>1. IsSeq(<<>>) /\ ToSet(<<>>) = {} BY DEF IsSeq, ToSet
<1>2. ASSUME NEW x PROVE IsSeq(<<x>>) /\ ToSet(<<x>>) = {x} BY DEF IsSeq, ToSet
<1> QED BY <1>1, <1>2

-----------------------------------------------------------------------------
(* What a lane has yet to ask, and what has been read and answered.        *)
IsTask(w) == w = [todo |-> w.todo, body |-> w.body, key |-> w.key, pages |-> w.pages]

Tasks ==
  /\ DOMAIN work = Lanes
  /\ \A l \in Lanes : IsTask(work[l]) /\ work[l].todo \in Seq(Requests)

Answers ==
  /\ \A x \in reads : x.request \in Requests /\ x.key = RequestKey(x.request)
  /\ \A f \in views : f.request \in Requests /\ f.key = RequestKey(f.request)

(* No two readings are one: a lane has ever less to ask.                   *)
Numbered ==
  \A x \in reads :
    /\ x.lane \in Lanes /\ x.round \in Nat /\ x.nth \in Nat /\ x.round <= round
    /\ x.round = round => x.nth > Len(work[x.lane].todo)

LEMMA TaskFields ==
  ASSUME NEW w, IsTask(w), NEW t, NEW b, NEW p
  PROVE  /\ [w EXCEPT !.body = b] = [todo |-> w.todo, body |-> b, key |-> w.key, pages |-> w.pages]
         /\ [w EXCEPT !.pages = p] = [todo |-> w.todo, body |-> w.body, key |-> w.key, pages |-> p]
<1>1. [w EXCEPT !.body = b] = [todo |-> w.todo, body |-> b, key |-> w.key, pages |-> w.pages]
  BY DEF IsTask
<1>2. [w EXCEPT !.pages = p] = [todo |-> w.todo, body |-> w.body, key |-> w.key, pages |-> p]
  BY DEF IsTask
<1> QED BY <1>1, <1>2

LEMMA TaskDropped ==
  ASSUME NEW w, IsTask(w), NEW t, NEW b
  PROVE  [w EXCEPT !.todo = t, !.body = b] = [todo |-> t, body |-> b, key |-> w.key, pages |-> w.pages]
<1> DEFINE once == [w EXCEPT !.todo = t]
<1>1. once = [todo |-> t, body |-> w.body, key |-> w.key, pages |-> w.pages] BY DEF IsTask
<1>2. [w EXCEPT !.todo = t, !.body = b] = [once EXCEPT !.body = b] OBVIOUS
<1> HIDE DEF once
<1>3. [once EXCEPT !.body = b] = [todo |-> t, body |-> b, key |-> w.key, pages |-> w.pages]
  BY <1>1
<1> QED BY <1>2, <1>3

LEMMA WorkIs ==
  ASSUME Tasks, NEW l \in Lanes, NEW w, IsTask(w), w.todo \in Seq(Requests),
         work' = [work EXCEPT ![l] = w]
  PROVE  Tasks' /\ work'[l].todo = w.todo /\ \A m \in Lanes \ {l} : work'[m] = work[m]
<1>1. DOMAIN work' = Lanes /\ work'[l] = w /\ \A m \in Lanes \ {l} : work'[m] = work[m]
  BY DEF Tasks
<1>2. ASSUME NEW m \in Lanes PROVE IsTask(work[m])' /\ work'[m].todo \in Seq(Requests)
  <2>1. CASE m = l
    <3>1. work'[m] = w BY <1>1, <2>1
    <3> QED BY <3>1 DEF IsTask
  <2>2. CASE m # l BY <1>1, <2>2 DEF Tasks, IsTask
  <2> QED BY <2>1, <2>2
<1>3. Tasks' BY <1>1, <1>2 DEF Tasks
<1> QED BY <1>1, <1>3

(* A lane that has its next request answered, or does without.             *)
LEMMA LaneGoesOn ==
  ASSUME Tasks, NEW l \in Lanes, work[l].todo # <<>>, NEW b, NEW k, NEW p,
         work' = [work EXCEPT ![l] = [todo |-> Tail(work[l].todo), body |-> b, key |-> k, pages |-> p]]
  PROVE  /\ Tasks' /\ Question(l) \in Requests
         /\ Len(work[l].todo) \in Nat /\ Len(work'[l].todo) = Len(work[l].todo) - 1
         /\ \A m \in Lanes \ {l} : work'[m] = work[m]
<1> DEFINE t == work[l].todo
<1>1. t \in Seq(Requests) /\ t # <<>> BY DEF Tasks
<1>2. Head(t) \in Requests /\ Tail(t) \in Seq(Requests) /\ Len(t) \in Nat /\ Len(Tail(t)) = Len(t) - 1
  <2> HIDE DEF t
  <2> QED BY <1>1
<1> HIDE DEF t
<1>3. work' = [work EXCEPT ![l] = [todo |-> Tail(t), body |-> b, key |-> k, pages |-> p]] BY DEF t
<1> DEFINE w == [todo |-> Tail(t), body |-> b, key |-> k, pages |-> p]
<1>4. w.todo = Tail(t) /\ IsTask(w) /\ work' = [work EXCEPT ![l] = w] BY <1>3 DEF IsTask
<1> HIDE DEF w
<1>5. Tasks' /\ work'[l].todo = Tail(t) /\ \A m \in Lanes \ {l} : work'[m] = work[m]
  BY <1>2, <1>4, WorkIs
<1> QED BY <1>2, <1>5 DEF t, Question

(* A lane that has something in hand or done, and as much to ask.          *)
LEMMA LaneStays ==
  ASSUME Tasks, NEW l \in Lanes,
         \/ \E b : work' = [work EXCEPT ![l].body = b]
         \/ \E p : work' = [work EXCEPT ![l].pages = p]
  PROVE  Tasks' /\ \A m \in Lanes : work'[m].todo = work[m].todo
<1> DEFINE w == work[l]
<1>1. IsTask(w) /\ w.todo \in Seq(Requests) BY DEF Tasks
<1>2. PICK b, p : work' = [work EXCEPT ![l] = [todo |-> w.todo, body |-> b, key |-> w.key, pages |-> p]]
  <2>1. CASE \E b : work' = [work EXCEPT ![l].body = b]
    <3>1. PICK b : work' = [work EXCEPT ![l] = [w EXCEPT !.body = b]] BY <2>1, Zenon
    <3>2. [w EXCEPT !.body = b] = [todo |-> w.todo, body |-> b, key |-> w.key, pages |-> w.pages]
      BY <1>1, TaskFields
    <3> QED BY <3>1, <3>2, Zenon
  <2>2. CASE \E p : work' = [work EXCEPT ![l].pages = p]
    <3>1. PICK p : work' = [work EXCEPT ![l] = [w EXCEPT !.pages = p]] BY <2>2, Zenon
    <3>2. [w EXCEPT !.pages = p] = [todo |-> w.todo, body |-> w.body, key |-> w.key, pages |-> p]
      BY <1>1, TaskFields
    <3> QED BY <3>1, <3>2, Zenon
  <2> QED BY <2>1, <2>2
<1> HIDE DEF w
<1> DEFINE u == [todo |-> w.todo, body |-> b, key |-> w.key, pages |-> p]
<1>3. u.todo = w.todo /\ IsTask(u) /\ work' = [work EXCEPT ![l] = u] BY <1>2 DEF IsTask
<1> HIDE DEF u
<1>4. Tasks' /\ work'[l].todo = w.todo /\ \A m \in Lanes \ {l} : work'[m] = work[m]
  BY <1>1, <1>3, WorkIs
<1> QED BY <1>4 DEF w

LEMMA NoneReads ==
  ASSUME Tasks, Numbered, UNCHANGED <<reads, round>>,
         \A m \in Lanes : work'[m].todo = work[m].todo \/ Len(work'[m].todo) = Len(work[m].todo) - 1
  PROVE  Numbered'
<1> SUFFICES ASSUME NEW x \in reads
             PROVE  /\ x.lane \in Lanes /\ x.round \in Nat /\ x.nth \in Nat /\ x.round <= round
                    /\ x.round = round => x.nth > Len(work'[x.lane].todo)
  BY DEF Numbered
<1>1. /\ x.lane \in Lanes /\ x.round \in Nat /\ x.nth \in Nat /\ x.round <= round
      /\ x.round = round => x.nth > Len(work[x.lane].todo)
  BY DEF Numbered
<1>2. work[x.lane].todo \in Seq(Requests) BY <1>1 DEF Tasks
<1>3. Len(work[x.lane].todo) \in Nat BY <1>2
<1> QED BY <1>1, <1>3

(* One reading: the lane goes on, and no reading before was this one.      *)
Reading(l, r, body) ==
  [lane |-> l, round |-> r, nth |-> Len(work[l].todo),
   request |-> Question(l), key |-> KeyOf(l), body |-> body]

LEMMA ReadsOnce ==
  ASSUME Tasks, Numbered, round \in Nat, UNCHANGED round, NEW l \in Lanes, Asks(l), NEW body,
         Reads(l, round, body)
  PROVE  /\ Tasks' /\ Numbered' /\ Question(l) \in Requests
         /\ reads' = reads \cup {Reading(l, round, body)} /\ Reading(l, round, body) \notin reads
         /\ \A x \in reads : x.round \in Nat /\ x.round <= round
<1> DEFINE n == Len(work[l].todo)
           x0 == Reading(l, round, body)
<1>1. work[l].todo # <<>> BY DEF Asks
<1>2. PICK k, p : work' = [work EXCEPT ![l] = [todo |-> Tail(work[l].todo), body |-> None,
                                               key |-> k, pages |-> p]]
  BY Zenon DEF Reads
<1>3. /\ Tasks' /\ Question(l) \in Requests /\ n \in Nat /\ Len(work'[l].todo) = n - 1
      /\ \A m \in Lanes \ {l} : work'[m] = work[m]
  BY <1>1, <1>2, LaneGoesOn, Zenon
<1>4. reads' = reads \cup {x0} BY Zenon DEF Reads, Reading
<1>5. x0.lane = l /\ x0.round = round /\ x0.nth = n BY DEF Reading
<1> HIDE DEF n, x0
<1>6. x0 \notin reads
  <2> SUFFICES ASSUME x0 \in reads PROVE FALSE OBVIOUS
  <2>1. n > Len(work[l].todo) BY <1>5 DEF Numbered
  <2> QED BY <1>3, <2>1 DEF n
<1>7. ASSUME NEW x \in reads'
      PROVE  /\ x.lane \in Lanes /\ x.round \in Nat /\ x.nth \in Nat /\ x.round <= round'
             /\ x.round = round' => x.nth > Len(work'[x.lane].todo)
  <2>1. CASE x = x0 BY <1>3, <1>5, <2>1
  <2>2. CASE x \in reads
    <3>1. /\ x.lane \in Lanes /\ x.round \in Nat /\ x.nth \in Nat /\ x.round <= round
          /\ x.round = round => x.nth > Len(work[x.lane].todo)
      BY <2>2 DEF Numbered
    <3>2. CASE x.lane = l
      <4>1. Len(work'[x.lane].todo) = n - 1 /\ Len(work[x.lane].todo) = n BY <1>3, <3>2 DEF n
      <4> QED BY <1>3, <3>1, <4>1
    <3>3. CASE x.lane # l BY <1>3, <3>1, <3>3
    <3> QED BY <3>2, <3>3
  <2> QED BY <1>4, <2>1, <2>2
<1>8. Numbered' BY <1>7 DEF Numbered
<1> QED BY <1>3, <1>4, <1>6, <1>8 DEF Numbered, x0

(* The questions of what was read and answered are in the requests.        *)
LEMMA AnswersKept ==
  ASSUME Answers, NEW l \in Lanes, NEW r, NEW body, Question(l) \in Requests,
         reads' = reads \cup {Reading(l, r, body)},
         \/ views' = views
         \/ views' = views \cup {[key |-> KeyOf(l), body |-> body, request |-> Question(l)]}
  PROVE  Answers'
<1> DEFINE x0 == Reading(l, r, body)
           f0 == [key |-> KeyOf(l), body |-> body, request |-> Question(l)]
<1>1. x0.request = Question(l) /\ x0.key = KeyOf(l) BY DEF Reading
<1>2. f0.request = Question(l) /\ f0.key = KeyOf(l) OBVIOUS
<1>3. KeyOf(l) = RequestKey(Question(l)) BY Zenon DEF KeyOf
<1> DEFINE k == KeyOf(l)
           q == Question(l)
           key(p) == RequestKey(p)
<1>4. /\ x0.request = q /\ x0.key = k /\ f0.request = q /\ f0.key = k
      /\ k = key(q) /\ q \in Requests
      /\ reads' = reads \cup {x0} /\ views' \in {views, views \cup {f0}}
  BY <1>1, <1>2, <1>3
<1>5. /\ \A x \in reads : x.request \in Requests /\ x.key = key(x.request)
      /\ \A f \in views : f.request \in Requests /\ f.key = key(f.request)
  BY DEF Answers
<1> HIDE DEF x0, f0, k, q, key
<1>6. /\ \A x \in reads' : x.request \in Requests /\ x.key = key(x.request)
      /\ \A f \in views' : f.request \in Requests /\ f.key = key(f.request)
  BY <1>4, <1>5
<1> QED BY <1>6 DEF Answers, key

-----------------------------------------------------------------------------
(* What the row of a source says is what was done with its key.            *)
Of(set, k) == {x \in set : x.key = k}
Again(read) == {x \in read : \E y \in read : y.round < x.round \/ (y.round = x.round /\ y # x)}

IsRow(row) ==
  row = [by |-> row.by, body |-> row.body, owner |-> row.owner,
         lanes |-> row.lanes, rounds |-> row.rounds]

RowTells(row, here, seen, read) ==
  /\ IsRow(row) /\ row.owner \in Lanes
  /\ IsSeq(row.lanes) /\ ToSet(row.lanes) = {a.lane : a \in here}
  /\ IsSeq(row.rounds) /\ ToSet(row.rounds) = {x.round : x \in Again(read)}
  /\ row.by = None => row.body = None /\ seen = {} /\ read = {}
  /\ row.by # None => /\ row.by = EstablishedBy(row.body)
                      /\ read # {} /\ \A x \in read : x.body = row.body
                      /\ \E f \in seen : seen = {f} /\ f.body = row.body

SourceRows ==
  /\ DOMAIN sources = {a.key : a \in asked}
  /\ \A x \in reads \cup views : x.key \in DOMAIN sources
  /\ \A k \in DOMAIN sources : RowTells(sources[k], Of(asked, k), Of(views, k), Of(reads, k))

LEMMA LanesField ==
  ASSUME NEW row, IsRow(row), NEW x
  PROVE  [row EXCEPT !.lanes = x] = [by |-> row.by, body |-> row.body, owner |-> row.owner,
                                     lanes |-> x, rounds |-> row.rounds]
BY DEF IsRow

LEMMA SnapshotFields ==
  ASSUME NEW row, IsRow(row), NEW x, NEW y, NEW next, next = [row EXCEPT !.by = x, !.body = y]
  PROVE  next = [by |-> x, body |-> y, owner |-> row.owner, lanes |-> row.lanes, rounds |-> row.rounds]
<1> DEFINE once == [row EXCEPT !.by = x]
<1>1. next = [once EXCEPT !.body = y] OBVIOUS
<1>2. once = [by |-> x, body |-> row.body, owner |-> row.owner,
              lanes |-> row.lanes, rounds |-> row.rounds]
  BY DEF IsRow
<1> HIDE DEF once
<1> QED BY <1>1, <1>2

LEMMA ReuseFields ==
  ASSUME NEW row, IsRow(row), NEW x, NEW y, NEW next, next = [row EXCEPT !.lanes = x, !.rounds = y]
  PROVE  next = [by |-> row.by, body |-> row.body, owner |-> row.owner, lanes |-> x, rounds |-> y]
<1> DEFINE once == [row EXCEPT !.lanes = x]
<1>1. next = [once EXCEPT !.rounds = y] OBVIOUS
<1>2. once = [by |-> row.by, body |-> row.body, owner |-> row.owner,
              lanes |-> x, rounds |-> row.rounds]
  BY DEF IsRow
<1> HIDE DEF once
<1> QED BY <1>1, <1>2

(* A call about one key: its row tells what was done, and the others what  *)
(* they told.                                                              *)
LEMMA OneRowChanges ==
  ASSUME SourceRows, NEW k, NEW row, NEW A, NEW V, NEW X,
         \A x \in A \cup V \cup X : x.key = k,
         asked' = asked \cup A, views' = views \cup V, reads' = reads \cup X,
         k \in DOMAIN sources \/ A # {},
         DOMAIN sources' = DOMAIN sources \cup {k}, sources'[k] = row,
         \A j \in DOMAIN sources \ {k} : sources'[j] = sources[j],
         RowTells(row, Of(asked, k) \cup A, Of(views, k) \cup V, Of(reads, k) \cup X)
  PROVE  SourceRows'
<1>1. /\ Of(asked', k) = Of(asked, k) \cup A
      /\ Of(views', k) = Of(views, k) \cup V
      /\ Of(reads', k) = Of(reads, k) \cup X
  BY DEF Of
<1>2. \A j : j # k => /\ Of(asked', j) = Of(asked, j)
                      /\ Of(views', j) = Of(views, j)
                      /\ Of(reads', j) = Of(reads, j)
  BY DEF Of
<1>3. DOMAIN sources' = {a.key : a \in asked'}
  <2>1. DOMAIN sources = {a.key : a \in asked} BY DEF SourceRows
  <2>2. {a.key : a \in asked'} \subseteq DOMAIN sources' BY <2>1
  <2>3. DOMAIN sources' \subseteq {a.key : a \in asked'} BY <2>1
  <2> QED BY <2>2, <2>3
<1>4. \A x \in reads' \cup views' : x.key \in DOMAIN sources' BY DEF SourceRows
<1>5. ASSUME NEW j \in DOMAIN sources'
      PROVE  RowTells(sources'[j], Of(asked', j), Of(views', j), Of(reads', j))
  <2>1. CASE j = k
    <3>1. RowTells(row, Of(asked', k), Of(views', k), Of(reads', k)) BY <1>1, Zenon
    <3> QED BY <2>1, <3>1, Zenon
  <2>2. CASE j # k
    <3>1. j \in DOMAIN sources /\ sources'[j] = sources[j] BY <2>2
    <3>2. RowTells(sources[j], Of(asked, j), Of(views, j), Of(reads, j)) BY <3>1, Zenon DEF SourceRows
    <3> QED BY <1>2, <2>2, <3>1, <3>2, Zenon
  <2> QED BY <2>1, <2>2
<1> QED BY <1>3, <1>4, <1>5, Zenon DEF SourceRows

LEMMA NothingOf ==
  ASSUME SourceRows, NEW k, k \notin DOMAIN sources
  PROVE  Of(asked, k) = {} /\ Of(views, k) = {} /\ Of(reads, k) = {}
BY DEF SourceRows, Of

LEMMA AgainIs ==
  /\ Again({}) = {}
  /\ \A x : x.round \in Nat => Again({x}) = {}
<1>1. Again({}) = {} BY DEF Again
<1>2. ASSUME NEW x, x.round \in Nat PROVE Again({x}) = {}
  <2>1. \A y, z \in {x} : ~(y.round < z.round \/ (y.round = z.round /\ y # z))
    <3>1. ~(x.round < x.round) BY <1>2
    <3> QED BY <3>1
  <2> QED BY <2>1, Zenon DEF Again
<1> QED BY <1>1, <1>2

(* One more reading, in a round not before those of the others.            *)
LEMMA AgainGrows ==
  ASSUME NEW S, S # {}, NEW x0, x0 \notin S, x0.round \in Nat,
         \A x \in S : x.round \in Nat /\ x.round <= x0.round
  PROVE  {x.round : x \in Again(S \cup {x0})} = {x.round : x \in Again(S)} \cup {x0.round}
<1> DEFINE T == S \cup {x0}
           U == Again(T)
           V == Again(S)
<1>1. U = {x \in T : \E y \in T : y.round < x.round \/ (y.round = x.round /\ y # x)}
  BY Zenon DEF Again
<1>2. V = {x \in S : \E y \in S : y.round < x.round \/ (y.round = x.round /\ y # x)}
  BY Zenon DEF Again
<1>3. S \subseteq T /\ x0 \in T /\ \A x \in T : x \in S \/ x = x0 OBVIOUS
<1> HIDE DEF T, U, V
<1>4. PICK y0 \in S : TRUE OBVIOUS
<1>5. x0 \in U
  <2>1. y0 \in T /\ y0 # x0 /\ y0.round \in Nat /\ y0.round <= x0.round BY <1>3, <1>4
  <2>2. y0.round < x0.round \/ y0.round = x0.round BY <2>1
  <2> QED BY <1>1, <1>3, <2>1, <2>2
<1>6. V \subseteq U BY <1>1, <1>2, <1>3
<1>7. ASSUME NEW x \in U PROVE x \in V \/ x.round = x0.round
  <2>1. PICK y \in T : y.round < x.round \/ (y.round = x.round /\ y # x) BY <1>1
  <2>2. x \in T BY <1>1
  <2>3. CASE x = x0 BY <2>3
  <2>4. CASE x \in S /\ y \in S BY <1>2, <2>1, <2>4
  <2>5. CASE x \in S /\ y = x0
    <3>1. x.round \in Nat /\ x.round <= x0.round BY <2>5
    <3> QED BY <2>1, <2>5, <3>1
  <2> QED BY <1>3, <2>2, <2>3, <2>4, <2>5
<1>8. {x.round : x \in U} = {x.round : x \in V} \cup {x0.round} BY <1>5, <1>6, <1>7
<1> QED BY <1>8 DEF T, U, V

(* acquire_source: a row without a snapshot, or one more lane of a row.    *)
LEMMA AcquireRows ==
  ASSUME SourceRows, NEW l \in Lanes, AcquireSource(l) PROVE SourceRows'
<1> DEFINE k == KeyOf(l)
           a0 == [lane |-> l, key |-> k]
           old == sources[k]
           first == Row(l, None, None)
           later == [old EXCEPT !.lanes = Added(old.lanes, l)]
<1>1. /\ asked' = asked \cup {a0} /\ UNCHANGED <<views, reads>>
      /\ sources' = IF k \in DOMAIN sources
                    THEN [sources EXCEPT ![k].lanes = Added(@, l)] ELSE With(sources, k, first)
  BY Zenon DEF AcquireSource, Asked
<1>2. a0.key = k /\ a0.lane = l OBVIOUS
<1>3. /\ IsRow(first) /\ first.by = None /\ first.body = None /\ first.owner = l
      /\ first.lanes = <<l>> /\ first.rounds = <<>>
  BY DEF Row, IsRow
<1>4. CASE k \notin DOMAIN sources
  <2> HIDE DEF k, a0, first
  <2>1. /\ DOMAIN sources' = DOMAIN sources \cup {k} /\ sources'[k] = first
        /\ \A j \in DOMAIN sources \ {k} : sources'[j] = sources[j]
    BY <1>1, <1>4 DEF With
  <2>2. Of(asked, k) = {} /\ Of(views, k) = {} /\ Of(reads, k) = {} BY <1>4, NothingOf
  <2>3. {a.lane : a \in {a0}} = {l} /\ {x.round : x \in {}} = {} BY <1>2
  <2>4. /\ IsSeq(first.lanes) /\ ToSet(first.lanes) = {a.lane : a \in {a0}}
        /\ IsSeq(first.rounds) /\ ToSet(first.rounds) = {x.round : x \in Again({})}
    BY <1>3, <2>3, SmallSeqs, AgainIs
  <2>5. RowTells(first, {a0}, {}, {}) BY <1>3, <2>4 DEF RowTells
  <2> DEFINE none == {}
  <2>6. RowTells(first, Of(asked, k) \cup {a0}, Of(views, k) \cup none, Of(reads, k) \cup none)
    <3>1. {} \cup {a0} = {a0} /\ {} \cup none = {} OBVIOUS
    <3> QED BY <2>2, <2>5, <3>1, Zenon
  <2>7. /\ asked' = asked \cup {a0}
        /\ views' = views \cup none /\ reads' = reads \cup none /\ {a0} # {}
        /\ \A x \in {a0} \cup none \cup none : x.key = k
    BY <1>1, <1>2
  <2> HIDE DEF none
  <2> QED BY <2>1, <2>6, <2>7, OneRowChanges
<1>5. CASE k \in DOMAIN sources
  <2>1. RowTells(old, Of(asked, k), Of(views, k), Of(reads, k)) BY <1>5, Zenon DEF SourceRows
  <2>2. later = [by |-> old.by, body |-> old.body, owner |-> old.owner,
                 lanes |-> Added(old.lanes, l), rounds |-> old.rounds]
    BY <2>1, LanesField, Zenon DEF RowTells
  <2>3. sources' = [sources EXCEPT ![k] = later] BY <1>1, <1>5
  <2>4. /\ later.by = old.by /\ later.body = old.body /\ later.owner = old.owner
        /\ later.lanes = Added(old.lanes, l) /\ later.rounds = old.rounds /\ IsRow(later)
    BY <2>2 DEF IsRow
  <2> HIDE DEF k, a0, later, old
  <2>5. /\ DOMAIN sources' = DOMAIN sources \cup {k} /\ sources'[k] = later
        /\ \A j \in DOMAIN sources \ {k} : sources'[j] = sources[j]
    BY <1>5, <2>3
  <2>6. /\ IsSeq(later.lanes)
        /\ ToSet(later.lanes) = {a.lane : a \in Of(asked, k) \cup {a0}}
    <3> DEFINE S == Of(asked, k)
    <3>1. IsSeq(old.lanes) /\ ToSet(old.lanes) = {a.lane : a \in S} BY <2>1, Zenon DEF RowTells
    <3> HIDE DEF S
    <3>2. {a.lane : a \in S \cup {a0}} = {a.lane : a \in S} \cup {l} BY <1>2
    <3>3. IsSeq(later.lanes) /\ ToSet(later.lanes) = ToSet(old.lanes) \cup {l}
      BY <2>4, <3>1, AddedIs, Zenon
    <3> QED BY <3>1, <3>2, <3>3 DEF S
  <2>7. RowTells(later, Of(asked, k) \cup {a0}, Of(views, k), Of(reads, k))
    BY <2>1, <2>4, <2>6, Zenon DEF RowTells
  <2> DEFINE none == {}
  <2>8. RowTells(later, Of(asked, k) \cup {a0}, Of(views, k) \cup none, Of(reads, k) \cup none)
    <3>1. Of(views, k) \cup none = Of(views, k) /\ Of(reads, k) \cup none = Of(reads, k) OBVIOUS
    <3> QED BY <2>7, <3>1, Zenon
  <2>9. /\ asked' = asked \cup {a0}
        /\ views' = views \cup none /\ reads' = reads \cup none /\ {a0} # {}
        /\ \A x \in {a0} \cup none \cup none : x.key = k
    BY <1>1, <1>2
  <2> HIDE DEF none
  <2> QED BY <2>5, <2>8, <2>9, OneRowChanges
<1> QED BY <1>4, <1>5

(* The first snapshot of a row, and the first reading of it.               *)
LEMMA FirstReading ==
  ASSUME NEW row, NEW here, NEW f0, NEW x0, x0.round \in Nat, row.owner \in Lanes, IsRow(row),
         IsSeq(row.lanes), ToSet(row.lanes) = {a.lane : a \in here},
         IsSeq(row.rounds), ToSet(row.rounds) = {},
         row.by = EstablishedBy(row.body), f0.body = row.body, x0.body = row.body
  PROVE  RowTells(row, here, {f0}, {x0})
<1>1. row.by # None BY NoneAssumption DEF EstablishedBy
<1>2. {x.round : x \in Again({x0})} = {}
  <2>1. Again({x0}) = {} BY AgainIs
  <2> QED BY <2>1
<1>3. /\ {x0} # {} /\ \A x \in {x0} : x.body = row.body
      /\ \E f \in {f0} : {f0} = {f} /\ f.body = row.body
  OBVIOUS
<1> QED BY <1>1, <1>2, <1>3, Zenon DEF RowTells

(* establish_snapshot: a row that had none has its snapshot.               *)
LEMMA EstablishRows ==
  ASSUME SourceRows, NEW l \in Lanes, NEW r \in Nat, EstablishSnapshot(l, r) PROVE SourceRows'
<1> DEFINE k == KeyOf(l)
           body == work[l].body
           old == sources[k]
           row == [old EXCEPT !.by = EstablishedBy(body), !.body = body]
           x0 == Reading(l, r, body)
           f0 == [key |-> k, body |-> body, request |-> Question(l)]
<1>1. /\ asked' = asked /\ views' = views \cup {f0} /\ reads' = reads \cup {x0}
      /\ k \in DOMAIN sources /\ old.by = None
      /\ sources' = [sources EXCEPT ![k] = [@ EXCEPT !.by = EstablishedBy(body), !.body = body]]
  BY Zenon DEF EstablishSnapshot, Reads, Viewed, Reading
<1>2. x0.key = k /\ x0.body = body /\ x0.round = r /\ f0.key = k /\ f0.body = body BY DEF Reading
<1>3. RowTells(old, Of(asked, k), Of(views, k), Of(reads, k)) BY <1>1, Zenon DEF SourceRows
<1>4. row = [by |-> EstablishedBy(body), body |-> body, owner |-> old.owner,
             lanes |-> old.lanes, rounds |-> old.rounds]
  <2>1. IsRow(old) BY <1>3, Zenon DEF RowTells
  <2>2. row = [old EXCEPT !.by = EstablishedBy(body), !.body = body] OBVIOUS
  <2> HIDE DEF row, old, body
  <2> QED BY <2>1, <2>2, SnapshotFields
<1>5. sources' = [sources EXCEPT ![k] = row] BY <1>1
<1>6. /\ row.by = EstablishedBy(body) /\ row.body = body /\ row.owner = old.owner
      /\ row.lanes = old.lanes /\ row.rounds = old.rounds /\ IsRow(row)
  BY <1>4 DEF IsRow
<1> HIDE DEF k, body, old, row, x0, f0
<1>7. /\ DOMAIN sources' = DOMAIN sources \cup {k} /\ sources'[k] = row
      /\ \A j \in DOMAIN sources \ {k} : sources'[j] = sources[j]
  BY <1>1, <1>5
<1>8. Of(views, k) = {} /\ Of(reads, k) = {} BY <1>1, <1>3, Zenon DEF RowTells
<1>9. IsSeq(old.rounds) /\ ToSet(old.rounds) = {}
  <2>1. IsSeq(old.rounds) /\ ToSet(old.rounds) = {x.round : x \in Again(Of(reads, k))}
    BY <1>3, Zenon DEF RowTells
  <2>2. Again(Of(reads, k)) = {} BY <1>8, AgainIs
  <2> QED BY <2>1, <2>2
<1>10. row.owner \in Lanes /\ IsSeq(row.lanes) /\ ToSet(row.lanes) = {a.lane : a \in Of(asked, k)}
  BY <1>3, <1>6, Zenon DEF RowTells
<1>11. RowTells(row, Of(asked, k), {f0}, {x0}) BY <1>2, <1>6, <1>9, <1>10, FirstReading
<1>12. RowTells(row, Of(asked, k) \cup {}, Of(views, k) \cup {f0}, Of(reads, k) \cup {x0})
  <2>1. /\ Of(asked, k) \cup {} = Of(asked, k)
        /\ {} \cup {f0} = {f0} /\ {} \cup {x0} = {x0}
    OBVIOUS
  <2> QED BY <1>8, <1>11, <2>1, Zenon
<1>13. asked' = asked \cup {} /\ \A x \in {} \cup {f0} \cup {x0} : x.key = k BY <1>1, <1>2
<1> QED BY <1>1, <1>7, <1>12, <1>13, OneRowChanges

(* record_established_source: the row and its snapshot at once.            *)
LEMMA RecordRows ==
  ASSUME SourceRows, NEW l \in Lanes, NEW r \in Nat, RecordEstablishedSource(l, r) PROVE SourceRows'
<1> DEFINE k == KeyOf(l)
           body == work[l].body
           row == Row(l, EstablishedBy(body), body)
           a0 == [lane |-> l, key |-> k]
           x0 == Reading(l, r, body)
           f0 == [key |-> k, body |-> body, request |-> Question(l)]
<1>1. /\ asked' = asked \cup {a0} /\ views' = views \cup {f0} /\ reads' = reads \cup {x0}
      /\ k \notin DOMAIN sources /\ sources' = With(sources, k, row)
  BY Zenon DEF RecordEstablishedSource, Asked, Reads, Viewed, Reading
<1>2. /\ x0.key = k /\ x0.body = body /\ x0.round = r /\ f0.key = k /\ f0.body = body
      /\ a0.key = k /\ a0.lane = l
  BY DEF Reading
<1>3. /\ row.by = EstablishedBy(body) /\ row.body = body /\ row.owner = l
      /\ row.lanes = <<l>> /\ row.rounds = <<>> /\ IsRow(row)
  BY DEF Row, IsRow
<1> HIDE DEF k, body, row, x0, f0, a0
<1>4. /\ DOMAIN sources' = DOMAIN sources \cup {k} /\ sources'[k] = row
      /\ \A j \in DOMAIN sources \ {k} : sources'[j] = sources[j]
  BY <1>1 DEF With
<1>5. Of(asked, k) = {} /\ Of(views, k) = {} /\ Of(reads, k) = {} BY <1>1, NothingOf
<1>6. {a.lane : a \in {a0}} = {l} BY <1>2
<1>7. /\ IsSeq(row.lanes) /\ ToSet(row.lanes) = {a.lane : a \in {a0}}
      /\ IsSeq(row.rounds) /\ ToSet(row.rounds) = {}
  BY <1>3, <1>6, SmallSeqs
<1>8. RowTells(row, {a0}, {f0}, {x0}) BY <1>2, <1>3, <1>7, FirstReading
<1>9. RowTells(row, Of(asked, k) \cup {a0}, Of(views, k) \cup {f0}, Of(reads, k) \cup {x0})
  <2>1. {} \cup {a0} = {a0} /\ {} \cup {f0} = {f0} /\ {} \cup {x0} = {x0} OBVIOUS
  <2> QED BY <1>5, <1>8, <2>1, Zenon
<1>10. {a0} # {} /\ \A x \in {a0} \cup {f0} \cup {x0} : x.key = k BY <1>2
<1> QED BY <1>1, <1>4, <1>9, <1>10, OneRowChanges

(* reuse_snapshot: one more lane and one more round of a row.              *)
LEMMA ReuseRows ==
  ASSUME SourceRows, Tasks, Numbered, round \in Nat, UNCHANGED round, NEW l \in Lanes,
         ReuseSnapshot(l, round)
  PROVE  SourceRows'
<1> DEFINE k == KeyOf(l)
           old == sources[k]
           row == [old EXCEPT !.lanes = Added(@, l), !.rounds = Added(@, round)]
           a0 == [lane |-> l, key |-> k]
           x0 == Reading(l, round, old.body)
<1>1. /\ Asks(l) /\ Reads(l, round, old.body)
      /\ asked' = asked \cup {a0} /\ views' = views
      /\ k \in DOMAIN sources /\ old.by # None
      /\ sources' = [sources EXCEPT ![k] = [old EXCEPT !.lanes = Added(@, l), !.rounds = Added(@, round)]]
  BY Zenon DEF ReuseSnapshot, Asked
<1>2. /\ reads' = reads \cup {x0} /\ x0 \notin reads
      /\ \A x \in reads : x.round \in Nat /\ x.round <= round
  BY <1>1, ReadsOnce
<1>3. x0.key = k /\ x0.body = old.body /\ x0.round = round /\ a0.key = k /\ a0.lane = l
  BY DEF Reading
<1>4. RowTells(old, Of(asked, k), Of(views, k), Of(reads, k)) BY <1>1, Zenon DEF SourceRows
<1>5. row = [by |-> old.by, body |-> old.body, owner |-> old.owner,
             lanes |-> Added(old.lanes, l), rounds |-> Added(old.rounds, round)]
  <2> DEFINE x == Added(old.lanes, l)
             y == Added(old.rounds, round)
  <2>1. IsRow(old) BY <1>4, Zenon DEF RowTells
  <2>2. row = [old EXCEPT !.lanes = x, !.rounds = y] OBVIOUS
  <2> HIDE DEF row, old, x, y
  <2>3. row = [by |-> old.by, body |-> old.body, owner |-> old.owner, lanes |-> x, rounds |-> y]
    BY <2>1, <2>2, ReuseFields
  <2> QED BY <2>3 DEF x, y
<1>6. sources' = [sources EXCEPT ![k] = row] BY <1>1
<1>7. /\ row.by = old.by /\ row.body = old.body /\ row.owner = old.owner /\ IsRow(row)
      /\ row.lanes = Added(old.lanes, l) /\ row.rounds = Added(old.rounds, round)
  BY <1>5 DEF IsRow
<1> HIDE DEF k, old, row, x0, a0
<1>8. /\ DOMAIN sources' = DOMAIN sources \cup {k} /\ sources'[k] = row
      /\ \A j \in DOMAIN sources \ {k} : sources'[j] = sources[j]
  BY <1>1, <1>6
<1>9. /\ old.owner \in Lanes
      /\ IsSeq(old.lanes) /\ ToSet(old.lanes) = {a.lane : a \in Of(asked, k)}
      /\ IsSeq(old.rounds) /\ ToSet(old.rounds) = {x.round : x \in Again(Of(reads, k))}
      /\ old.by = EstablishedBy(old.body) /\ Of(reads, k) # {}
      /\ \A x \in Of(reads, k) : x.body = old.body
      /\ \E f \in Of(views, k) : Of(views, k) = {f} /\ f.body = old.body
  BY <1>1, <1>4, Zenon DEF RowTells
<1> DEFINE S == Of(asked, k)
           R == Of(reads, k)
           V == Of(views, k)
<1>10. x0 \notin R /\ \A x \in R : x.round \in Nat /\ x.round <= x0.round BY <1>2, <1>3 DEF Of
<1> HIDE DEF S, R, V
<1>11. IsSeq(row.lanes) /\ ToSet(row.lanes) = {a.lane : a \in S \cup {a0}}
  <2>1. {a.lane : a \in S \cup {a0}} = {a.lane : a \in S} \cup {l} BY <1>3
  <2>2. IsSeq(Added(old.lanes, l)) /\ ToSet(Added(old.lanes, l)) = ToSet(old.lanes) \cup {l}
    BY <1>9, AddedIs, Zenon
  <2> QED BY <1>7, <1>9, <2>1, <2>2 DEF S
<1>12. IsSeq(row.rounds) /\ ToSet(row.rounds) = {x.round : x \in Again(R \cup {x0})}
  <2>1. {x.round : x \in Again(R \cup {x0})} = {x.round : x \in Again(R)} \cup {x0.round}
    BY <1>3, <1>9, <1>10, AgainGrows DEF R
  <2>2. /\ IsSeq(Added(old.rounds, round))
        /\ ToSet(Added(old.rounds, round)) = ToSet(old.rounds) \cup {round}
    BY <1>9, AddedIs, Zenon
  <2> QED BY <1>3, <1>7, <1>9, <2>1, <2>2 DEF R
<1>13. /\ R \cup {x0} # {} /\ \A x \in R \cup {x0} : x.body = row.body
       /\ \E f \in V : V = {f} /\ f.body = row.body
       /\ row.by = EstablishedBy(row.body) /\ row.by # None /\ row.owner \in Lanes
  <2>1. \A x \in R : x.body = old.body BY <1>9 DEF R
  <2>2. \E f \in V : V = {f} /\ f.body = old.body BY <1>9, Zenon DEF V
  <2> QED BY <1>1, <1>3, <1>7, <1>9, <2>1, <2>2
<1>14. RowTells(row, S \cup {a0}, V, R \cup {x0})
  BY <1>7, <1>11, <1>12, <1>13, Zenon DEF RowTells
<1>15. RowTells(row, S \cup {a0}, V \cup {}, R \cup {x0})
  <2>1. V \cup {} = V OBVIOUS
  <2> QED BY <1>14, <2>1, Zenon
<1>16. views' = views \cup {} /\ {a0} # {} /\ \A x \in {a0} \cup {} \cup {x0} : x.key = k
  BY <1>1, <1>3
<1> QED BY <1>1, <1>2, <1>8, <1>15, <1>16, OneRowChanges DEF S, R, V

-----------------------------------------------------------------------------
(* What the row of a page says is what was done with its page.             *)
On(set, c) == {s \in set : s.page = c}

IsPage(row) ==
  row = [url |-> row.url, first |-> row.first, lanes |-> row.lanes, sources |-> row.sources,
         fetchOwner |-> row.fetchOwner, extractionOwner |-> row.extractionOwner]

PageTells(row, here) ==
  /\ IsPage(row) /\ row.first \in Lanes
  /\ IsSeq(row.lanes) /\ ToSet(row.lanes) = {s.lane : s \in here}
  /\ IsSeq(row.sources) /\ ToSet(row.sources) = {s.source : s \in here}

PageRows ==
  /\ DOMAIN candidates = {s.page : s \in sighted}
  /\ wanted \subseteq DOMAIN candidates /\ extracted \subseteq DOMAIN candidates
  /\ \A c \in DOMAIN candidates :
       /\ PageTells(candidates[c], On(sighted, c))
       /\ candidates[c].fetchOwner # None <=> c \in wanted
       /\ candidates[c].extractionOwner # None <=> c \in extracted

LEMMA OwnerField ==
  ASSUME NEW row, IsPage(row), NEW x
  PROVE  /\ [row EXCEPT !.fetchOwner = x] =
              [url |-> row.url, first |-> row.first, lanes |-> row.lanes, sources |-> row.sources,
               fetchOwner |-> x, extractionOwner |-> row.extractionOwner]
         /\ [row EXCEPT !.extractionOwner = x] =
              [url |-> row.url, first |-> row.first, lanes |-> row.lanes, sources |-> row.sources,
               fetchOwner |-> row.fetchOwner, extractionOwner |-> x]
<1>1. [row EXCEPT !.fetchOwner = x] =
        [url |-> row.url, first |-> row.first, lanes |-> row.lanes, sources |-> row.sources,
         fetchOwner |-> x, extractionOwner |-> row.extractionOwner]
  BY DEF IsPage
<1>2. [row EXCEPT !.extractionOwner = x] =
        [url |-> row.url, first |-> row.first, lanes |-> row.lanes, sources |-> row.sources,
         fetchOwner |-> row.fetchOwner, extractionOwner |-> x]
  BY DEF IsPage
<1> QED BY <1>1, <1>2

LEMMA SightFields ==
  ASSUME NEW row, IsPage(row), NEW x, NEW y, NEW next, next = [row EXCEPT !.lanes = x, !.sources = y]
  PROVE  next = [url |-> row.url, first |-> row.first, lanes |-> x, sources |-> y,
                 fetchOwner |-> row.fetchOwner, extractionOwner |-> row.extractionOwner]
<1> DEFINE once == [row EXCEPT !.lanes = x]
<1>1. next = [once EXCEPT !.sources = y] OBVIOUS
<1>2. once = [url |-> row.url, first |-> row.first, lanes |-> x, sources |-> row.sources,
              fetchOwner |-> row.fetchOwner, extractionOwner |-> row.extractionOwner]
  BY DEF IsPage
<1> HIDE DEF once
<1> QED BY <1>1, <1>2

(* A call about one page: its row tells what was done, and the others what *)
(* they told.                                                              *)
LEMMA OnePageChanges ==
  ASSUME PageRows, NEW c, NEW row, NEW S, \A s \in S : s.page = c,
         sighted' = sighted \cup S, c \in DOMAIN candidates \/ S # {},
         wanted \subseteq wanted', wanted' \subseteq wanted \cup {c},
         extracted \subseteq extracted', extracted' \subseteq extracted \cup {c},
         DOMAIN candidates' = DOMAIN candidates \cup {c}, candidates'[c] = row,
         \A d \in DOMAIN candidates \ {c} : candidates'[d] = candidates[d],
         PageTells(row, On(sighted, c) \cup S),
         row.fetchOwner # None <=> c \in wanted', row.extractionOwner # None <=> c \in extracted'
  PROVE  PageRows'
<1>1. On(sighted', c) = On(sighted, c) \cup S BY DEF On
<1>2. \A d : d # c => On(sighted', d) = On(sighted, d) BY DEF On
<1>3. DOMAIN candidates' = {s.page : s \in sighted'}
  <2>1. DOMAIN candidates = {s.page : s \in sighted} BY DEF PageRows
  <2>2. {s.page : s \in sighted'} \subseteq DOMAIN candidates' BY <2>1
  <2>3. DOMAIN candidates' \subseteq {s.page : s \in sighted'} BY <2>1
  <2> QED BY <2>2, <2>3
<1>4. wanted' \subseteq DOMAIN candidates' /\ extracted' \subseteq DOMAIN candidates' BY DEF PageRows
<1>5. ASSUME NEW d \in DOMAIN candidates'
      PROVE  /\ PageTells(candidates'[d], On(sighted', d))
             /\ candidates'[d].fetchOwner # None <=> d \in wanted'
             /\ candidates'[d].extractionOwner # None <=> d \in extracted'
  <2>1. CASE d = c
    <3>1. PageTells(row, On(sighted', c)) BY <1>1, Zenon
    <3> QED BY <2>1, <3>1, Zenon
  <2>2. CASE d # c
    <3>1. d \in DOMAIN candidates /\ candidates'[d] = candidates[d] BY <2>2
    <3>2. /\ PageTells(candidates[d], On(sighted, d))
          /\ candidates[d].fetchOwner # None <=> d \in wanted
          /\ candidates[d].extractionOwner # None <=> d \in extracted
      BY <3>1, Zenon DEF PageRows
    <3>3. (d \in wanted <=> d \in wanted') /\ (d \in extracted <=> d \in extracted') BY <2>2
    <3> QED BY <1>2, <2>2, <3>1, <3>2, <3>3, Zenon
  <2> QED BY <2>1, <2>2
<1> QED BY <1>3, <1>4, <1>5, Zenon DEF PageRows

(* add_candidate: a new row, or one more lane and source of a row; owners  *)
(* stay as they are.                                                       *)
LEMMA AddEffect ==
  ASSUME PageRows, NEW l \in Lanes, AddCandidate(l)
  PROVE  /\ PageRows'
         /\ DOMAIN candidates \subseteq DOMAIN candidates'
         /\ \A d \in DOMAIN candidates : candidates'[d].extractionOwner = candidates[d].extractionOwner
<1> DEFINE c == PageOf(l)
           k == work[l].key
           old == candidates[c]
           first == NewCandidate(l)
           later == [old EXCEPT !.lanes = Added(@, l), !.sources = Added(@, k)]
           s0 == [lane |-> l, page |-> c, source |-> k]
<1>1. /\ candidates' = With(candidates, c, IF c \in DOMAIN candidates THEN later ELSE first)
      /\ sighted' = sighted \cup {s0} /\ UNCHANGED <<wanted, extracted>>
  BY Zenon DEF AddCandidate
<1>2. s0.page = c /\ s0.lane = l /\ s0.source = k OBVIOUS
<1>3. CASE c \notin DOMAIN candidates
  <2>1. /\ IsPage(first) /\ first.first = l /\ first.lanes = <<l>> /\ first.sources = <<k>>
        /\ first.fetchOwner = None /\ first.extractionOwner = None
    BY DEF NewCandidate, IsPage
  <2> HIDE DEF c, k, first, later, s0
  <2>2. /\ DOMAIN candidates' = DOMAIN candidates \cup {c} /\ candidates'[c] = first
        /\ \A d \in DOMAIN candidates \ {c} : candidates'[d] = candidates[d]
    BY <1>1, <1>3 DEF With
  <2>3. On(sighted, c) = {} BY <1>3 DEF PageRows, On
  <2>4. {s.lane : s \in {s0}} = {l} /\ {s.source : s \in {s0}} = {k} BY <1>2
  <2>5. PageTells(first, {s0}) BY <2>1, <2>4, SmallSeqs DEF PageTells
  <2>6. PageTells(first, On(sighted, c) \cup {s0})
    <3>1. {} \cup {s0} = {s0} OBVIOUS
    <3> QED BY <2>3, <2>5, <3>1, Zenon
  <2>7. c \notin wanted /\ c \notin extracted BY <1>3 DEF PageRows
  <2>8. PageRows'
    <3>1. /\ \A s \in {s0} : s.page = c
          /\ sighted' = sighted \cup {s0} /\ {s0} # {} /\ wanted' = wanted /\ extracted' = extracted
      BY <1>1, <1>2
    <3>2. /\ first.fetchOwner # None <=> c \in wanted'
          /\ first.extractionOwner # None <=> c \in extracted'
      BY <2>1, <2>7, <3>1
    <3> QED BY <2>2, <2>6, <3>1, <3>2, OnePageChanges, Zenon
  <2> QED BY <1>3, <2>2, <2>8
<1>4. CASE c \in DOMAIN candidates
  <2>1. /\ PageTells(old, On(sighted, c))
        /\ old.fetchOwner # None <=> c \in wanted
        /\ old.extractionOwner # None <=> c \in extracted
    BY <1>4, Zenon DEF PageRows
  <2>2. /\ IsPage(later) /\ later.first = old.first
        /\ later.lanes = Added(old.lanes, l) /\ later.sources = Added(old.sources, k)
        /\ later.fetchOwner = old.fetchOwner /\ later.extractionOwner = old.extractionOwner
    <3> DEFINE x == Added(old.lanes, l)
               y == Added(old.sources, k)
    <3>1. IsPage(old) BY <2>1, Zenon DEF PageTells
    <3>2. later = [old EXCEPT !.lanes = x, !.sources = y] OBVIOUS
    <3> HIDE DEF later, old, x, y
    <3>3. later = [url |-> old.url, first |-> old.first, lanes |-> x, sources |-> y,
                   fetchOwner |-> old.fetchOwner, extractionOwner |-> old.extractionOwner]
      BY <3>1, <3>2, SightFields
    <3>4. /\ IsPage(later) /\ later.first = old.first /\ later.lanes = x /\ later.sources = y
          /\ later.fetchOwner = old.fetchOwner /\ later.extractionOwner = old.extractionOwner
      BY <3>3 DEF IsPage
    <3> QED BY <3>4 DEF x, y
  <2> HIDE DEF c, k, old, later, s0
  <2>3. /\ DOMAIN candidates' = DOMAIN candidates \cup {c} /\ candidates'[c] = later
        /\ \A d \in DOMAIN candidates \ {c} : candidates'[d] = candidates[d]
    BY <1>1, <1>4 DEF With
  <2> DEFINE S == On(sighted, c)
  <2>4. /\ old.first \in Lanes /\ IsSeq(old.lanes) /\ ToSet(old.lanes) = {s.lane : s \in S}
        /\ IsSeq(old.sources) /\ ToSet(old.sources) = {s.source : s \in S}
    BY <2>1, Zenon DEF PageTells
  <2> HIDE DEF S
  <2>5. /\ {s.lane : s \in S \cup {s0}} = {s.lane : s \in S} \cup {l}
        /\ {s.source : s \in S \cup {s0}} = {s.source : s \in S} \cup {k}
    BY <1>2
  <2>6. /\ IsSeq(Added(old.lanes, l)) /\ ToSet(Added(old.lanes, l)) = ToSet(old.lanes) \cup {l}
        /\ IsSeq(Added(old.sources, k)) /\ ToSet(Added(old.sources, k)) = ToSet(old.sources) \cup {k}
    BY <2>4, AddedIs, Zenon
  <2>7. PageTells(later, S \cup {s0}) BY <2>2, <2>4, <2>5, <2>6 DEF PageTells
  <2>8. PageRows'
    <3>1. /\ \A s \in {s0} : s.page = c
          /\ sighted' = sighted \cup {s0} /\ {s0} # {} /\ wanted' = wanted /\ extracted' = extracted
      BY <1>1, <1>2
    <3>2. PageTells(later, On(sighted, c) \cup {s0}) BY <2>7 DEF S
    <3>3. /\ later.fetchOwner # None <=> c \in wanted'
          /\ later.extractionOwner # None <=> c \in extracted'
      BY <2>1, <2>2, <3>1
    <3> QED BY <2>3, <3>1, <3>2, <3>3, OnePageChanges, Zenon
  <2>9. \A d \in DOMAIN candidates : candidates'[d].extractionOwner = candidates[d].extractionOwner
    BY <2>2, <2>3 DEF old
  <2> QED BY <2>3, <2>8, <2>9
<1> QED BY <1>3, <1>4

(* acquire_target_fetch: the row has its owner.                            *)
LEMMA WantEffect ==
  ASSUME PageRows, NEW l \in Lanes, AcquireTargetFetch(l)
  PROVE  /\ PageRows' /\ DOMAIN candidates' = DOMAIN candidates
         /\ \A d \in DOMAIN candidates : candidates'[d].extractionOwner = candidates[d].extractionOwner
<1> DEFINE c == PageOf(l)
           old == candidates[c]
           row == [old EXCEPT !.fetchOwner = l]
<1>1. /\ c \in DOMAIN candidates /\ candidates' = [candidates EXCEPT ![c].fetchOwner = l]
      /\ wanted' = wanted \cup {c} /\ UNCHANGED <<sighted, extracted>>
  BY Zenon DEF AcquireTargetFetch, Holds
<1>2. candidates' = [candidates EXCEPT ![c] = row] BY <1>1
<1>3. PageTells(old, On(sighted, c)) /\ (old.extractionOwner # None <=> c \in extracted)
  BY <1>1, Zenon DEF PageRows
<1>4. row = [url |-> old.url, first |-> old.first, lanes |-> old.lanes, sources |-> old.sources,
             fetchOwner |-> l, extractionOwner |-> old.extractionOwner]
  BY <1>3, OwnerField, Zenon DEF PageTells
<1> HIDE DEF c, old, row
<1>5. /\ IsPage(row) /\ row.first = old.first /\ row.lanes = old.lanes /\ row.sources = old.sources
      /\ row.fetchOwner = l /\ row.extractionOwner = old.extractionOwner
  BY <1>4 DEF IsPage
<1>6. /\ DOMAIN candidates' = DOMAIN candidates \cup {c} /\ candidates'[c] = row
      /\ \A d \in DOMAIN candidates \ {c} : candidates'[d] = candidates[d]
  BY <1>1, <1>2
<1>7. PageTells(row, On(sighted, c)) BY <1>3, <1>5, Zenon DEF PageTells
<1>8. PageRows'
  <2> DEFINE none == {}
  <2>1. On(sighted, c) \cup none = On(sighted, c) /\ sighted' = sighted \cup none BY <1>1
  <2>2. \A s \in none : s.page = c OBVIOUS
  <2> HIDE DEF none
  <2>3. PageTells(row, On(sighted, c) \cup none) BY <1>7, <2>1, Zenon
  <2>4. l # None BY NoneAssumption
  <2>5. /\ row.fetchOwner # None <=> c \in wanted'
        /\ row.extractionOwner # None <=> c \in extracted'
    BY <1>1, <1>3, <1>5, <2>4
  <2>6. wanted' = wanted \cup {c} /\ extracted' = extracted BY <1>1
  <2> QED BY <1>1, <1>6, <2>1, <2>2, <2>3, <2>5, <2>6, OnePageChanges
<1> QED BY <1>1, <1>5, <1>6, <1>8 DEF old

(* acquire_extraction: the row has the other owner.                        *)
LEMMA ExtractEffect ==
  ASSUME PageRows, NEW l \in Lanes, AcquireExtraction(l)
  PROVE  /\ PageRows' /\ DOMAIN candidates' = DOMAIN candidates
         /\ PageOf(l) \in DOMAIN candidates
         /\ candidates[PageOf(l)].extractionOwner = None
         /\ candidates'[PageOf(l)].extractionOwner # None
         /\ \A d \in DOMAIN candidates \ {PageOf(l)} : candidates'[d] = candidates[d]
<1> DEFINE c == PageOf(l)
           old == candidates[c]
           row == [old EXCEPT !.extractionOwner = l]
<1>1. /\ c \in DOMAIN candidates /\ candidates' = [candidates EXCEPT ![c].extractionOwner = l]
      /\ extracted' = extracted \cup {c} /\ UNCHANGED <<sighted, wanted>>
      /\ old.extractionOwner = None
  BY Zenon DEF AcquireExtraction, Holds, MayExtract
<1>2. candidates' = [candidates EXCEPT ![c] = row] BY <1>1
<1>3. PageTells(old, On(sighted, c)) /\ (old.fetchOwner # None <=> c \in wanted)
  BY <1>1, Zenon DEF PageRows
<1>4. row = [url |-> old.url, first |-> old.first, lanes |-> old.lanes, sources |-> old.sources,
             fetchOwner |-> old.fetchOwner, extractionOwner |-> l]
  BY <1>3, OwnerField, Zenon DEF PageTells
<1>0. c = PageOf(l) /\ old = candidates[c] OBVIOUS
<1> HIDE DEF c, old, row
<1>5. /\ IsPage(row) /\ row.first = old.first /\ row.lanes = old.lanes /\ row.sources = old.sources
      /\ row.fetchOwner = old.fetchOwner /\ row.extractionOwner = l
  BY <1>4 DEF IsPage
<1>6. /\ DOMAIN candidates' = DOMAIN candidates \cup {c} /\ candidates'[c] = row
      /\ \A d \in DOMAIN candidates \ {c} : candidates'[d] = candidates[d]
  BY <1>1, <1>2
<1>7. PageTells(row, On(sighted, c)) BY <1>3, <1>5, Zenon DEF PageTells
<1>9. l # None BY NoneAssumption
<1>8. PageRows'
  <2> DEFINE none == {}
  <2>1. On(sighted, c) \cup none = On(sighted, c) /\ sighted' = sighted \cup none BY <1>1
  <2>2. \A s \in none : s.page = c OBVIOUS
  <2> HIDE DEF none
  <2>3. PageTells(row, On(sighted, c) \cup none) BY <1>7, <2>1, Zenon
  <2>5. /\ row.fetchOwner # None <=> c \in wanted'
        /\ row.extractionOwner # None <=> c \in extracted'
    BY <1>1, <1>3, <1>5, <1>9
  <2>6. wanted' = wanted /\ extracted' = extracted \cup {c} BY <1>1
  <2> QED BY <1>1, <1>6, <2>1, <2>2, <2>3, <2>5, <2>6, OnePageChanges
<1> QED BY <1>0, <1>1, <1>5, <1>6, <1>8, <1>9

-----------------------------------------------------------------------------
(* What the rows tell is what the document says.                           *)
LEMMA SourcesTold ==
  ASSUME SourceRows, NEW k \in DOMAIN sources
  PROVE  SourceDocument(sources[k]) = SourceOf(k)
<1> DEFINE row   == sources[k]
           lanes == {a.lane : a \in Of(asked, k)}
           here  == Of(views, k)
           body  == (CHOOSE v \in here : TRUE).body
           read  == Of(reads, k)
           turns == {x.round : x \in Again(read)}
           by1   == IF here = {} THEN None ELSE EstablishedBy(body)
           body1 == IF here = {} THEN None ELSE body
<1>1. RowTells(row, Of(asked, k), here, read) BY Zenon DEF SourceRows
<1>2. row.by = by1 /\ row.body = body1
  <2>1. CASE row.by = None
    <3>1. here = {} /\ row.body = None BY <1>1, <2>1, Zenon DEF RowTells
    <3> QED BY <2>1, <3>1
  <2>2. CASE row.by # None
    <3>1. row.by = EstablishedBy(row.body) BY <1>1, <2>2, Zenon DEF RowTells
    <3>2. PICK f \in here : here = {f} /\ f.body = row.body BY <1>1, <2>2, Zenon DEF RowTells
    <3> HIDE DEF here, row
    <3>3. (CHOOSE v \in here : TRUE) \in here BY <3>2
    <3>4. body = row.body /\ here # {} BY <3>2, <3>3
    <3> HIDE DEF body
    <3> QED BY <3>1, <3>4
  <2> QED BY <2>1, <2>2
<1>3. ToSet(row.lanes) = lanes /\ ToSet(row.rounds) = turns BY <1>1, Zenon DEF RowTells
<1>4. row.owner # None BY <1>1, NoneAssumption DEF RowTells
<1>5. Designate(ToSet(row.lanes), row.owner) = Least(lanes)
  <2> HIDE DEF lanes
  <2> QED BY <1>3, <1>4, Zenon DEF Designate
<1>6. SourceOf(k) = [by |-> by1, body |-> body1, designated |-> Least(lanes),
                     lanes |-> Sorted(lanes), rounds |-> Sorted(turns)]
  BY Zenon DEF SourceOf, Of, Again
<1>7. SourceDocument(row) =
        [by |-> row.by, body |-> row.body, designated |-> Designate(ToSet(row.lanes), row.owner),
         lanes |-> Sorted(ToSet(row.lanes)), rounds |-> Sorted(ToSet(row.rounds))]
  BY Zenon DEF SourceDocument
<1> HIDE DEF row, lanes, turns, by1, body1
<1>8. SourceDocument(row) = SourceOf(k) BY <1>2, <1>3, <1>5, <1>6, <1>7, Zenon
<1> QED BY <1>8 DEF row

LEMMA PagesTold ==
  ASSUME PageRows, NEW c \in DOMAIN candidates
  PROVE  CandidateDocument(candidates[c]) = CandidateOf(c)
<1> DEFINE row   == candidates[c]
           here  == On(sighted, c)
           lanes == {s.lane : s \in here}
           from  == {s.source : s \in here}
           fetched1   == IF c \in wanted THEN Least(lanes) ELSE None
           extracted1 == IF c \in extracted THEN Least(lanes) ELSE None
<1>1. /\ PageTells(row, here)
      /\ row.fetchOwner # None <=> c \in wanted
      /\ row.extractionOwner # None <=> c \in extracted
  BY Zenon DEF PageRows
<1>2. ToSet(row.lanes) = lanes /\ ToSet(row.sources) = from /\ row.first \in Lanes
  BY <1>1, Zenon DEF PageTells
<1>3. row.first # None BY <1>2, NoneAssumption
<1>4. CandidateOf(c) = [primary |-> Least(lanes), lanes |-> Sorted(lanes), sources |-> from,
                        fetched |-> fetched1, extracted |-> extracted1]
  BY Zenon DEF CandidateOf, On
<1>5. CandidateDocument(row) =
        [primary |-> Designate(ToSet(row.lanes), row.first), lanes |-> Sorted(ToSet(row.lanes)),
         sources |-> ToSet(row.sources), fetched |-> Designate(ToSet(row.lanes), row.fetchOwner),
         extracted |-> Designate(ToSet(row.lanes), row.extractionOwner)]
  BY Zenon DEF CandidateDocument
<1>6. /\ Designate(lanes, row.first) = Least(lanes)
      /\ Designate(lanes, row.fetchOwner) = fetched1
      /\ Designate(lanes, row.extractionOwner) = extracted1
  <2> HIDE DEF here, lanes
  <2> QED BY <1>1, <1>3, Zenon DEF Designate, fetched1, extracted1
<1> HIDE DEF row, lanes, from, fetched1, extracted1
<1>7. CandidateDocument(row) = CandidateOf(c) BY <1>2, <1>4, <1>5, <1>6, Zenon
<1> QED BY <1>7 DEF row

LEMMA DocumentTold ==
  ASSUME SourceRows, PageRows PROVE DocumentOrderFree
<1>1. Document.sources = [k \in {a.key : a \in asked} |-> SourceOf(k)]
  <2>1. Document.sources = [k \in DOMAIN sources |-> SourceDocument(sources[k])] BY DEF Document
  <2>2. DOMAIN sources = {a.key : a \in asked} BY DEF SourceRows
  <2>3. \A k \in DOMAIN sources : SourceDocument(sources[k]) = SourceOf(k) BY SourcesTold
  <2> QED BY <2>1, <2>2, <2>3
<1>2. Document.candidates = [c \in {s.page : s \in sighted} |-> CandidateOf(c)]
  <2>1. Document.candidates = [c \in DOMAIN candidates |-> CandidateDocument(candidates[c])]
    BY DEF Document
  <2>2. DOMAIN candidates = {s.page : s \in sighted} BY DEF PageRows
  <2>3. \A c \in DOMAIN candidates : CandidateDocument(candidates[c]) = CandidateOf(c) BY PagesTold
  <2> QED BY <2>1, <2>2, <2>3
<1> DEFINE fetches  == {c \in DOMAIN candidates : ~MayFetch(candidates[c])}
           extracts == {c \in DOMAIN candidates : ~MayExtract(candidates[c])}
<1>3. fetches = wanted /\ extracts = extracted
  <2>1. \A c \in DOMAIN candidates : /\ ~MayFetch(candidates[c]) <=> c \in wanted
                                     /\ ~MayExtract(candidates[c]) <=> c \in extracted
    BY Zenon DEF PageRows, MayFetch, MayExtract
  <2>2. wanted \subseteq DOMAIN candidates /\ extracted \subseteq DOMAIN candidates BY DEF PageRows
  <2> QED BY <2>1, <2>2
<1>4. Cardinality(DOMAIN sources) = Cardinality({a.key : a \in asked}) BY Zenon DEF SourceRows
<1>5. Accounting = [sources |-> Cardinality(DOMAIN sources),
                    fetches |-> Cardinality(fetches), extractions |-> Cardinality(extracts)]
  BY Zenon DEF Accounting
<1>6. Accounting = [sources |-> Cardinality({a.key : a \in asked}),
                    fetches |-> Cardinality(wanted), extractions |-> Cardinality(extracted)]
  <2> HIDE DEF fetches, extracts
  <2> QED BY <1>3, <1>4, <1>5, Zenon
<1> QED BY <1>1, <1>2, <1>6, Zenon DEF DocumentOrderFree

(* A key has one snapshot, and whoever reads under the key reads it.       *)
LEMMA OneSnapshot == ASSUME SourceRows PROVE SingleView
<1>1. ASSUME NEW k \in DOMAIN sources, NEW x \in reads \cup views, x.key = k
      PROVE  \E f \in views : Of(views, k) = {f} /\ f.key = k /\ \A y \in Of(reads, k) : y.body = f.body
  <2> DEFINE row == sources[k]
  <2>1. RowTells(row, Of(asked, k), Of(views, k), Of(reads, k)) BY Zenon DEF SourceRows
  <2>2. Of(views, k) # {} \/ Of(reads, k) # {} BY <1>1 DEF Of
  <2> HIDE DEF row
  <2>3. row.by # None BY <2>1, <2>2, Zenon DEF RowTells
  <2>4. /\ \A y \in Of(reads, k) : y.body = row.body
        /\ \E f \in Of(views, k) : Of(views, k) = {f} /\ f.body = row.body
    BY <2>1, <2>3, Zenon DEF RowTells
  <2>5. \A f \in Of(views, k) : f \in views /\ f.key = k BY DEF Of
  <2> QED BY <2>4, <2>5
<1>2. \A x \in reads \cup views : x.key \in DOMAIN sources BY DEF SourceRows
<1>3. ASSUME NEW f \in views, NEW g \in views, f.key = g.key PROVE f = g
  <2>1. PICK h \in views : Of(views, f.key) = {h} BY <1>1, <1>2
  <2>2. f \in Of(views, f.key) /\ g \in Of(views, f.key) BY <1>3 DEF Of
  <2> QED BY <2>1, <2>2
<1>4. ASSUME NEW x \in reads PROVE \E f \in views : f.key = x.key /\ f.body = x.body
  <2>1. PICK h \in views : h.key = x.key /\ \A y \in Of(reads, x.key) : y.body = h.body BY <1>1, <1>2
  <2>2. x \in Of(reads, x.key) BY DEF Of
  <2> QED BY <2>1, <2>2
<1> QED BY <1>3, <1>4 DEF SingleView

LEMMA QuestionsAnswered == ASSUME SourceRows, Answers PROVE OneView
<1>1. ASSUME NEW x \in reads, NEW f \in views, f.key = x.key
      PROVE  SameQuestion(f.request, x.request)
  BY <1>1, KeysTellQuestions DEF Answers
<1> QED BY <1>1, OneSnapshot DEF OneView

-----------------------------------------------------------------------------
(* Ranks: the gaps of a round are in a strict order, so that those with    *)
(* fewer than MaxLanes credible ones before them are at most that many,    *)
(* and there is one as soon as there is a credible one.                    *)
LEMMA LeastNatural ==
  ASSUME NEW T \in SUBSET Nat, T # {}
  PROVE  \E n \in T : \A m \in T : n <= m
<1> DEFINE R == {ss \in Nat \X Nat : ss[1] < ss[2]}
<1>1. IsWellFoundedOn(R, Nat) BY NatLessThanWellFounded, Zenon DEF OpToRel
<1> HIDE DEF R
<1>2. PICK n \in T : \A y \in T : ~(<<y, n>> \in R) BY <1>1, WFMin, Zenon
<1>3. \A m \in T : ~(m < n) BY <1>2 DEF R
<1>4. \A m \in T : n <= m BY <1>3
<1> QED BY <1>4

LEMMA ObservedIs ==
  ASSUME NEW S, NEW recs \in Seq(S), NEW s PROVE Observed(recs, s) \in Nat
<1> DEFINE D == {i \in DOMAIN recs : s \in Values[recs[i]]}
<1>1. D \subseteq 1..Len(recs) /\ Len(recs) \in Nat OBVIOUS
<1>2. IsFiniteSet(1..Len(recs)) BY <1>1, FS_Interval
<1> HIDE DEF D
<1>3. IsFiniteSet(D) BY <1>1, <1>2, FS_Subset
<1>4. Cardinality(D) \in Nat BY <1>3, FS_CardinalityType
<1> QED BY <1>4 DEF Observed, D

LEMMA GapsAre ==
  ASSUME NEW S, NEW recs \in Seq(S)
  PROVE  /\ OpenGaps(recs) \subseteq Slugs /\ IsFiniteSet(OpenGaps(recs))
         /\ \A s \in OpenGaps(recs) : s \in Nat /\ Target[s] \in Nat \ {0} /\ Gap(recs, s) \in Nat
<1>1. OpenGaps(recs) \subseteq Slugs BY DEF OpenGaps
<1>2. IsFiniteSet(OpenGaps(recs)) BY <1>1, SlugsAssumption, FS_Subset
<1>3. ASSUME NEW s \in OpenGaps(recs)
      PROVE  s \in Nat /\ Target[s] \in Nat \ {0} /\ Gap(recs, s) \in Nat
  <2>1. s \in Nat /\ Target[s] \in Nat BY <1>1, SlugsAssumption
  <2>2. Observed(recs, s) \in Nat BY ObservedIs
  <2>3. Gap(recs, s) > 0 BY DEF OpenGaps
  <2> QED BY <2>1, <2>2, <2>3 DEF Gap
<1> QED BY <1>1, <1>2, <1>3

LEMMA ScoreIs ==
  ASSUME records \in Seq(Good), NEW s \in OpenGaps(records), NEW budget \in Int
  PROVE  Score(s, budget) \in Int
<1> DEFINE n == Weights.gap * Gap(records, s)
           d == 100 * Target[s]
           g == Millionths(n, d)
           c == IF Credible(s) THEN 100 ELSE 0
<1>1. s \in Slugs /\ Target[s] \in Nat \ {0} /\ Gap(records, s) \in Nat BY GapsAre
<1>2. g \in Int
  <2>1. Weights.gap \in Int /\ Gap(records, s) \in Int BY <1>1, SlugsAssumption
  <2>2. \A x, y \in Int : x * y \in Int OBVIOUS
  <2>3. n \in Int BY <2>1, <2>2
  <2>4. d \in Nat \ {0} BY <1>1
  <2> HIDE DEF n, d
  <2> QED BY <2>3, <2>4 DEF Millionths
<1>3. c \in Int OBVIOUS
<1>4. Policy[s] \in {"priority", "standard"}
  BY <1>1, SlugsAssumption DEF OpenGaps
<1>5. Tier[Policy[s]] \in Int BY <1>4 DEF Tier
<1>6. Stats[s].yield \in Int /\ Stats[s].duplicates \in Int /\ Stats[s].rejections \in Int
  BY <1>1, SlugsAssumption
<1>7. /\ Weights.gap \in Int /\ Weights.tier \in Int /\ Weights.yield \in Int /\ Weights.duplicates \in Int
      /\ Weights.rejections \in Int /\ Weights.credible \in Int /\ Weights.budget \in Int
  BY SlugsAssumption
<1> HIDE DEF n, d, g, c
<1>8. \A x, y \in Int : x * y \in Int OBVIOUS
<1> DEFINE a2 == Weights.tier * Tier[Policy[s]]
           a3 == Weights.yield * Stats[s].yield
           a4 == Weights.duplicates * Stats[s].duplicates
           a5 == Weights.rejections * Stats[s].rejections
           a6 == Weights.credible * c
           a7 == Weights.budget * budget
<1>9. a2 \in Int /\ a3 \in Int /\ a4 \in Int /\ a5 \in Int /\ a6 \in Int /\ a7 \in Int
  BY <1>2, <1>3, <1>5, <1>6, <1>7, <1>8
<1>10. Score(s, budget) = g + 100 * (a2 + a3 - a4 - a5 + a6 + a7) BY Zenon DEF Score, n, d, g, c
<1> HIDE DEF a2, a3, a4, a5, a6, a7
<1> QED BY <1>2, <1>9, <1>10

LEMMA Ranks ==
  ASSUME records \in Seq(Good), NEW budget \in Int
  PROVE  LET C == {s \in OpenGaps(records) : Credible(s)}
         IN /\ \A s \in OpenGaps(records) :
                 IsFiniteSet(Before(s, budget)) /\ Cardinality(Before(s, budget)) \in Nat
            /\ \A s, t \in C : s = t \/ RanksAbove(s, t, budget) \/ RanksAbove(t, s, budget)
            /\ \A s, t \in C : RanksAbove(s, t, budget) =>
                 Cardinality(Before(s, budget)) < Cardinality(Before(t, budget))
<1> DEFINE G == OpenGaps(records)
           C == {s \in G : Credible(s)}
           before(s) == Before(s, budget)
<1>1. IsFiniteSet(G) /\ \A s \in G : s \in Nat /\ Score(s, budget) \in Int BY GapsAre, ScoreIs
<1>2. \A s \in G : before(s) = {t \in C : RanksAbove(t, s, budget)} BY DEF Before
<1>3. \A s, t \in C : s = t \/ RanksAbove(s, t, budget) \/ RanksAbove(t, s, budget)
  BY <1>1 DEF RanksAbove
<1>4. \A s \in C : ~RanksAbove(s, s, budget) BY <1>1 DEF RanksAbove
<1>5. \A s, t, u \in C : RanksAbove(s, t, budget) /\ RanksAbove(t, u, budget) => RanksAbove(s, u, budget)
  BY <1>1 DEF RanksAbove
<1>6. C \subseteq G OBVIOUS
<1> HIDE DEF G, C, before
<1>7. \A s \in G : IsFiniteSet(before(s)) /\ Cardinality(before(s)) \in Nat
  <2> SUFFICES ASSUME NEW s \in G PROVE IsFiniteSet(before(s)) /\ Cardinality(before(s)) \in Nat
    OBVIOUS
  <2>1. before(s) \subseteq G BY <1>2, <1>6
  <2> QED BY <1>1, <2>1, FS_Subset, FS_CardinalityType
<1>8. ASSUME NEW s \in C, NEW t \in C, RanksAbove(s, t, budget)
      PROVE  Cardinality(before(s)) < Cardinality(before(t))
  <2>1. before(s) \subseteq before(t) BY <1>2, <1>5, <1>6, <1>8
  <2>2. s \in before(t) /\ s \notin before(s) BY <1>2, <1>4, <1>6, <1>8
  <2>3. IsFiniteSet(before(t)) BY <1>6, <1>7
  <2>4. Cardinality(before(s)) <= Cardinality(before(t)) /\ Cardinality(before(s)) # Cardinality(before(t))
    BY <2>1, <2>2, <2>3, FS_Subset
  <2> QED BY <1>6, <1>7, <2>4
<1> QED BY <1>3, <1>7, <1>8 DEF G, C, before

LEMMA OpenedIsBounded ==
  ASSUME records \in Seq(Good), NEW budget \in Int
  PROVE  IsFiniteSet(OpenedOf(budget)) /\ Cardinality(OpenedOf(budget)) <= MaxLanes
<1> DEFINE O == OpenedOf(budget)
           f == [s \in O |-> Cardinality(Before(s, budget))]
           T == 0..(MaxLanes - 1)
<1>1. MaxLanes \in Nat \ {0} BY RoundsAssumption
<1>2. \A s \in O : s \in OpenGaps(records) /\ Credible(s) /\ Cardinality(Before(s, budget)) < MaxLanes
  BY DEF OpenedOf
<1>3. \A s \in O : f[s] \in T
  <2> SUFFICES ASSUME NEW s \in O PROVE Cardinality(Before(s, budget)) \in T OBVIOUS
  <2>1. Cardinality(Before(s, budget)) \in Nat BY <1>2, Ranks
  <2> QED BY <1>1, <1>2, <2>1
<1>4. f \in [O -> T] BY <1>3
<1>5. ASSUME NEW s \in O, NEW t \in O, f[s] = f[t] PROVE s = t
  <2>1. Cardinality(Before(s, budget)) = Cardinality(Before(t, budget)) BY <1>5
  <2>2. Cardinality(Before(s, budget)) \in Nat BY <1>2, Ranks
  <2>3. /\ s = t \/ RanksAbove(s, t, budget) \/ RanksAbove(t, s, budget)
        /\ RanksAbove(s, t, budget) =>
             Cardinality(Before(s, budget)) < Cardinality(Before(t, budget))
        /\ RanksAbove(t, s, budget) =>
             Cardinality(Before(t, budget)) < Cardinality(Before(s, budget))
    BY <1>2, Ranks
  <2>4. \A n \in Nat : ~(n < n) OBVIOUS
  <2> QED BY <2>1, <2>2, <2>3, <2>4, Zenon
<1> HIDE DEF f, O
<1>6. f \in Injection(O, T) BY <1>4, <1>5, Fun_IsInj, Zenon
<1>7. IsFiniteSet(T) /\ Cardinality(T) = MaxLanes BY <1>1, FS_Interval
<1> HIDE DEF T
<1>8. IsFiniteSet(O) /\ Cardinality(O) <= Cardinality(T) BY <1>6, <1>7, FS_Injection, Zenon
<1> QED BY <1>7, <1>8 DEF O

LEMMA SomeoneIsOpened ==
  ASSUME records \in Seq(Good), NEW budget \in Int, NEW s0 \in OpenGaps(records), Credible(s0)
  PROVE  OpenedOf(budget) # {}
<1> DEFINE C == {s \in OpenGaps(records) : Credible(s)}
           T == {Cardinality(Before(s, budget)) : s \in C}
<1>1. T \in SUBSET Nat BY Ranks
<1>2. T # {} OBVIOUS
<1> HIDE DEF T
<1>3. PICK n \in T : \A m \in T : n <= m BY <1>1, <1>2, LeastNatural
<1>4. PICK s \in C : n = Cardinality(Before(s, budget)) BY <1>3 DEF T
<1>5. Before(s, budget) = {}
  <2> SUFFICES ASSUME NEW t \in Before(s, budget) PROVE FALSE OBVIOUS
  <2>1. t \in C /\ RanksAbove(t, s, budget) BY DEF Before
  <2>2. Cardinality(Before(t, budget)) < Cardinality(Before(s, budget)) BY <1>4, <2>1, Ranks
  <2>3. Cardinality(Before(t, budget)) \in T BY <2>1 DEF T
  <2>4. n <= Cardinality(Before(t, budget)) BY <1>3, <2>3
  <2>5. n \in Nat /\ Cardinality(Before(t, budget)) \in Nat BY <1>1, <1>3, <2>3
  <2>6. Cardinality(Before(t, budget)) < n BY <1>4, <2>2, Zenon
  <2>7. \A x, y \in Nat : ~(x < y /\ y <= x) OBVIOUS
  <2> QED BY <2>4, <2>5, <2>6, <2>7, Zenon
<1>6. Cardinality(Before(s, budget)) = 0 BY <1>5, FS_EmptySet
<1>7. s \in OpenedOf(budget) BY <1>4, <1>6, RoundsAssumption DEF OpenedOf
<1> QED BY <1>7

LEMMA LanesAreBounded ==
  ASSUME records \in Seq(Good), NEW budget \in Int
  PROVE  LET lanes == {GapLane[s] : s \in OpenedOf(budget)}
         IN /\ Cardinality(lanes) <= MaxLanes
            /\ lanes \subseteq {GapLane[s] : s \in {t \in Slugs \ NeverGap : Credible(t)}}
            /\ lanes = {} => \A s \in OpenGaps(records) : ~Credible(s)
<1> DEFINE O == OpenedOf(budget)
           lanes == {GapLane[s] : s \in O}
           f == [s \in O |-> GapLane[s]]
<1>1. IsFiniteSet(O) /\ Cardinality(O) <= MaxLanes /\ Cardinality(O) \in Nat
  BY OpenedIsBounded, FS_CardinalityType
<1>2. O \subseteq OpenGaps(records) /\ \A s \in O : s \in Slugs \ NeverGap /\ Credible(s)
  BY DEF OpenedOf, OpenGaps
<1>3. lanes = {} => \A s \in OpenGaps(records) : ~Credible(s)
  <2> SUFFICES ASSUME NEW s \in OpenGaps(records), Credible(s) PROVE lanes # {} OBVIOUS
  <2>1. O # {} BY SomeoneIsOpened
  <2> QED BY <2>1
<1> HIDE DEF O
<1>4. f \in [O -> lanes] /\ \A t \in lanes : \E s \in O : f[s] = t OBVIOUS
<1>5. lanes \subseteq {GapLane[s] : s \in {t \in Slugs \ NeverGap : Credible(t)}} BY <1>2
<1> HIDE DEF f, lanes
<1>7. f \in Surjection(O, lanes) BY <1>4, Fun_IsSurj, Zenon
<1>8. IsFiniteSet(lanes) /\ Cardinality(lanes) <= Cardinality(O) BY <1>1, <1>7, FS_Surjection, Zenon
<1>9. Cardinality(lanes) \in Nat BY <1>8, FS_CardinalityType
<1>10. Cardinality(lanes) <= MaxLanes BY <1>1, <1>8, <1>9, RoundsAssumption
<1> QED BY <1>3, <1>5, <1>10 DEF lanes, O

-----------------------------------------------------------------------------
(* The rounds.                                                             *)

(* The pages accepted are distinct, and each has been extracted.           *)
Accepted ==
  /\ records \in Seq(Good) /\ found \in Seq(Good)
  /\ LET all == records \o found
     IN /\ \A i, j \in DOMAIN all : all[i] = all[j] => i = j
        /\ \A i \in DOMAIN all :
             all[i] \in DOMAIN candidates /\ candidates[all[i]].extractionOwner # None

LanesAllowed(lanes) ==
  /\ Cardinality(lanes) <= MaxLanes
  /\ lanes \subseteq {GapLane[s] : s \in {t \in Slugs \ NeverGap : Credible(t)}}

(* A later round that had lanes and counted too few.                       *)
Slow(e) == e.lanes # {} /\ e.new < NoProgressMin

(* A round is recorded when it closes; a later one has lanes.              *)
Recorded ==
  /\ round \in 0..MaxRounds /\ phase \in {"plan", "work", "stop"} /\ left \in Int
  /\ IsSeq(rounds) /\ Len(rounds) = IF phase = "work" THEN round - 1 ELSE round
  /\ \A i \in 1..Len(rounds) : rounds[i].stop # None <=> (i = Len(rounds) /\ phase = "stop")
  /\ \A i \in 1..Len(rounds) : i >= 2 => LanesAllowed(rounds[i].lanes)
  /\ \A i \in 1..Len(rounds) : i >= 2 /\ Slow(rounds[i]) => rounds[i].stop # None
  /\ phase # "work" => found = <<>>
  /\ phase = "work" /\ round > 1 => LanesAllowed(opened) /\ opened # {}

(* What is recorded of the last round, about the gaps of the records.      *)
Tells(e, recs, last) ==
  LET stalled == last > 1 /\ Slow(e)
  IN /\ e.stop = "all_targets_met" => OpenGaps(recs) = {} /\ ~stalled
     /\ e.stop = "no_progress" => stalled
     /\ e.stop = "no_credible_source" => \A s \in OpenGaps(recs) : ~Credible(s)
     /\ e.stop = "max_rounds" => last = MaxRounds /\ OpenGaps(recs) # {} /\ ~stalled
     /\ OpenGaps(recs) = {} => e.stop \notin {"no_credible_source", "max_rounds"}

ReasonTold == phase = "stop" => Tells(rounds[Len(rounds)], records, round)

LEMMA CountedIs ==
  ASSUME NEW S, NEW recs \in Seq(S), \A i, j \in DOMAIN recs : recs[i] = recs[j] => i = j, NEW s
  PROVE  Cardinality({c \in ToSet(recs) : s \in Values[c]}) = Observed(recs, s)
<1> DEFINE D == {i \in DOMAIN recs : s \in Values[recs[i]]}
           C == {c \in ToSet(recs) : s \in Values[c]}
           f == [i \in D |-> recs[i]]
<1>1. D \subseteq 1..Len(recs) /\ Len(recs) \in Nat OBVIOUS
<1>2. f \in [D -> C] /\ \A t \in C : \E i \in D : f[i] = t BY DEF ToSet
<1>3. \A a, b \in D : f[a] = f[b] => a = b OBVIOUS
<1>4. IsFiniteSet(1..Len(recs)) BY <1>1, FS_Interval
<1> HIDE DEF D, C, f
<1>5. IsFiniteSet(D) BY <1>1, <1>4, FS_Subset
<1>6. f \in Bijection(D, C) BY <1>2, <1>3, Fun_IsBij, Zenon
<1>7. Cardinality(C) = Cardinality(D) BY <1>5, <1>6, FS_Bijection, Zenon DEF ExistsBijection
<1> QED BY <1>7, Zenon DEF C, D, Observed

LEMMA WantingIs ==
  ASSUME NEW S, NEW recs \in Seq(S), \A i, j \in DOMAIN recs : recs[i] = recs[j] => i = j
  PROVE  {s \in Slugs \ NeverGap : /\ Policy[s] # "record_only"
            /\ Cardinality({c \in ToSet(recs) : s \in Values[c]}) < Target[s]} = OpenGaps(recs)
<1>1. ASSUME NEW s \in Slugs \ NeverGap
      PROVE  Cardinality({c \in ToSet(recs) : s \in Values[c]}) < Target[s] <=> Gap(recs, s) > 0
  <2>1. Cardinality({c \in ToSet(recs) : s \in Values[c]}) = Observed(recs, s) BY CountedIs
  <2>2. Observed(recs, s) \in Nat /\ Target[s] \in Nat BY ObservedIs, SlugsAssumption
  <2>3. Observed(recs, s) < Target[s] <=> Gap(recs, s) > 0 BY <2>2 DEF Gap
  <2> QED BY <2>1, <2>3, Zenon
<1> QED BY <1>1, Zenon DEF OpenGaps

(* What the first reason of a closed round says.                           *)
LEMMA StopReasonIs ==
  ASSUME NEW after, NEW new \in Nat, NEW duplicates, NEW exhausted, round \in Nat, NEW reason,
         reason = StopReason(after, new, duplicates, exhausted)
  PROVE  /\ reason # "no_credible_source"
         /\ reason = "all_targets_met" => OpenGaps(after) = {} /\ ~(round > 1 /\ new < NoProgressMin)
         /\ reason = "no_progress" => round > 1 /\ new < NoProgressMin
         /\ reason = "max_rounds" =>
              round = MaxRounds /\ OpenGaps(after) # {} /\ ~(round > 1 /\ new < NoProgressMin)
         /\ round > 1 /\ new < NoProgressMin => reason # None
<1> DEFINE held == Held(after, new, duplicates, exhausted)
<1>1. Reasons[1] = "budget_exhausted" /\ Reasons[2] = "duplicate_rate" /\ Reasons[3] = "no_progress"
      /\ Reasons[4] = "all_targets_met" /\ Reasons[5] = "max_rounds" /\ DOMAIN Reasons = 1..5
  BY DEF Reasons
<1>2. held \subseteq 1..5 BY <1>1 DEF Held
<1>3. /\ 3 \in held <=> round > 1 /\ new < NoProgressMin
      /\ 4 \in held <=> OpenGaps(after) = {}
      /\ 5 \in held => round = MaxRounds
  BY <1>1 DEF Held
<1> HIDE DEF held
<1>4. reason = IF held = {} THEN None ELSE Reasons[Least(held)] BY DEF StopReason, held
<1>5. None \notin {"budget_exhausted", "duplicate_rate", "no_progress", "all_targets_met", "max_rounds",
                   "no_credible_source"}
  <2>1. \A i \in 1..5 : Reasons[i] \in ToSet(Reasons) BY <1>1 DEF ToSet
  <2> QED BY <1>1, <2>1, ReasonsAssumption
<1>6. CASE held = {} BY <1>3, <1>4, <1>5, <1>6
<1>7. CASE held # {}
  <2>1. held \in SUBSET Nat BY <1>2
  <2>2. \E n \in held : \A m \in held : n <= m BY <1>7, <2>1, LeastNatural
  <2> DEFINE n == Least(held)
  <2>3. n \in held /\ \A m \in held : n <= m BY <2>2 DEF Least
  <2>4. reason = Reasons[n] BY <1>4, <1>7
  <2> HIDE DEF n
  <2>5. n \in 1..5 BY <1>2, <2>3
  <2>6. n = 1 \/ n = 2 \/ n = 3 \/ n = 4 \/ n = 5 BY <2>5
  <2>7. /\ round > 1 /\ new < NoProgressMin => n <= 3
        /\ OpenGaps(after) = {} => n <= 4
    BY <1>3, <2>3
  <2> QED BY <1>1, <1>3, <1>5, <2>3, <2>4, <2>6, <2>7
<1> QED BY <1>6, <1>7

LEMMA RecordIs ==
  ASSUME IsSeq(rounds), NEW lanes, NEW new, NEW duplicates, NEW reason,
         Record(lanes, new, duplicates, reason)
  PROVE  /\ IsSeq(rounds') /\ Len(rounds) \in Nat /\ Len(rounds') = Len(rounds) + 1
         /\ \A i \in 1..Len(rounds) : rounds'[i] = rounds[i]
         /\ rounds'[Len(rounds')].lanes = lanes /\ rounds'[Len(rounds')].new = new
         /\ rounds'[Len(rounds')].stop = reason
         /\ phase' = IF reason = None THEN "plan" ELSE "stop"
<1> DEFINE e == Entry(lanes, new, duplicates, reason)
<1>1. e.lanes = lanes /\ e.new = new /\ e.stop = reason BY DEF Entry
<1> HIDE DEF e
<1>2. rounds' = Append(rounds, e) /\ phase' = IF reason = None THEN "plan" ELSE "stop"
  BY DEF Record, e
<1>3. /\ IsSeq(rounds') /\ Len(rounds) \in Nat /\ Len(rounds') = Len(rounds) + 1
      /\ \A i \in 1..Len(rounds) : rounds'[i] = rounds[i]
      /\ rounds'[Len(rounds) + 1] = e
  BY <1>2, AppendIs
<1> QED BY <1>1, <1>2, <1>3

LEMMA InitRounds == Init => Recorded /\ Accepted /\ ReasonTold
<1> SUFFICES ASSUME Init PROVE Recorded /\ Accepted /\ ReasonTold OBVIOUS
<1>1. /\ round = 0 /\ phase = "plan" /\ left = 0 /\ records = <<>> /\ rounds = <<>> /\ found = <<>>
  BY DEF Init, PoolInit
<1>2. Recorded BY <1>1, SmallSeqs, RoundsAssumption DEF Recorded
<1>3. Accepted BY <1>1 DEF Accepted
<1> QED BY <1>1, <1>2, <1>3 DEF ReasonTold

LEMMA PlanFirstRounds ==
  ASSUME Recorded, Accepted, PlanFirst PROVE Recorded' /\ Accepted' /\ ReasonTold'
<1>1. /\ round = 0 /\ phase = "plan" /\ round' = 1 /\ left' \in BudgetLeft /\ phase' = "work"
      /\ UNCHANGED <<candidates, found, records, rounds>>
  BY DEF PlanFirst
<1>2. Recorded' BY <1>1, RoundsAssumption DEF Recorded
<1>3. Accepted' BY <1>1 DEF Accepted
<1> QED BY <1>1, <1>2, <1>3 DEF ReasonTold

(* A gap that ranks high enough and has no source is skipped: when no lane *)
(* is opened, the gaps skipped are all that are open.                      *)
LEMMA SkippedAre ==
  ASSUME records \in Seq(Good), NEW budget \in Int, \A s \in OpenGaps(records) : ~Credible(s)
  PROVE  SkippedOf(budget) = OpenGaps(records)
<1>1. ASSUME NEW s \in OpenGaps(records) PROVE Cardinality(Before(s, budget)) <= MaxLanes
  <2>1. Before(s, budget) = {} BY DEF Before
  <2>2. Cardinality(Before(s, budget)) = 0 BY <2>1, FS_EmptySet
  <2> QED BY <2>2, RoundsAssumption
<1> QED BY <1>1, Zenon DEF SkippedOf

LEMMA PlanNextRounds ==
  ASSUME Recorded, Accepted, PlanNext PROVE Recorded' /\ Accepted' /\ ReasonTold'
<1>1. PICK b \in BudgetLeft : left' = b BY DEF PlanNext
<1> DEFINE lanes == {GapLane[s] : s \in OpenedOf(b)}
<1>2. /\ phase = "plan" /\ round \in 1..(MaxRounds - 1) /\ round' = round + 1
      /\ opened' = lanes /\ skipped' = SkippedOf(b)
      /\ UNCHANGED <<candidates, found, records>>
      /\ opened' = {} => Record({}, 0, None, Nowhere(skipped'))
      /\ opened' # {} => phase' = "work" /\ UNCHANGED rounds
  BY <1>1, Zenon DEF PlanNext
<1>3. b \in Int /\ MaxRounds \in Nat /\ records \in Seq(Good) BY <1>1, RoundsAssumption DEF Accepted
<1>4. /\ LanesAllowed(lanes)
      /\ lanes = {} => \A s \in OpenGaps(records) : ~Credible(s)
  BY <1>3, LanesAreBounded DEF LanesAllowed
<1> HIDE DEF lanes
<1>5. Accepted' BY <1>2 DEF Accepted
<1>6. CASE lanes # {}
  <2>1. phase' = "work" /\ rounds' = rounds /\ opened' = lanes /\ records' = records
    BY <1>2, <1>6
  <2>2. LanesAllowed(opened') BY <1>4, <2>1
  <2>3. Recorded' BY <1>1, <1>2, <1>3, <1>6, <2>1, <2>2 DEF Recorded, LanesAllowed, Slow
  <2> QED BY <1>5, <2>1, <2>3 DEF ReasonTold
<1>7. CASE lanes = {}
  <2> DEFINE reason == Nowhere(skipped')
  <2>1. skipped' = OpenGaps(records) BY <1>2, <1>3, <1>4, <1>7, SkippedAre
  <2>2. /\ OpenGaps(records) = {} => reason = "all_targets_met"
        /\ OpenGaps(records) # {} => reason = "no_credible_source"
    BY <2>1 DEF Nowhere
  <2>3. reason # None
    <3>1. "all_targets_met" \in ToSet(Reasons)
      <4>1. 4 \in DOMAIN Reasons /\ Reasons[4] = "all_targets_met" BY DEF Reasons
      <4> QED BY <4>1 DEF ToSet
    <3> QED BY <2>2, <3>1, ReasonsAssumption
  <2> HIDE DEF reason
  <2>4. IsSeq(rounds) /\ Len(rounds) = round BY <1>2 DEF Recorded
  <2>5. Record({}, 0, None, reason) BY <1>2, <1>7 DEF reason
  <2>6. /\ IsSeq(rounds') /\ Len(rounds') = round + 1
        /\ \A i \in 1..round : rounds'[i] = rounds[i]
        /\ rounds'[round + 1].lanes = {} /\ rounds'[round + 1].stop = reason
        /\ phase' = "stop"
    BY <2>3, <2>4, <2>5, RecordIs
  <2>7. LanesAllowed(rounds'[round + 1].lanes) BY <1>4, <1>7, <2>6
  <2>8. Recorded'
    <3>1. \A i \in 1..Len(rounds') : i \in 1..round \/ i = round + 1 BY <1>2, <1>3, <2>6
    <3>2. \A i \in 1..Len(rounds') : rounds'[i].stop # None <=> (i = Len(rounds') /\ phase' = "stop")
      BY <1>2, <1>3, <2>3, <2>4, <2>6, <3>1 DEF Recorded
    <3>3. \A i \in 1..Len(rounds') : i >= 2 => LanesAllowed(rounds'[i].lanes)
      BY <1>2, <1>3, <2>4, <2>6, <2>7, <3>1 DEF Recorded
    <3>4. \A i \in 1..Len(rounds') : i >= 2 => LanesAllowed(rounds[i].lanes)'
      BY <3>3 DEF LanesAllowed
    <3>5. \A i \in 1..Len(rounds') : i >= 2 /\ Slow(rounds[i])' => rounds'[i].stop # None
      <4>1. \A i \in 1..round : i >= 2 /\ Slow(rounds[i]) => rounds[i].stop # None
        BY <2>4 DEF Recorded
      <4> QED BY <2>3, <2>6, <3>1, <4>1 DEF Slow
    <3> QED BY <1>1, <1>2, <1>3, <2>6, <3>2, <3>4, <3>5 DEF Recorded
  <2>9. ReasonTold'
    <3> DEFINE e == rounds'[Len(rounds')]
               gaps == OpenGaps(records)
    <3>1. e.stop = reason /\ e.lanes = {} /\ records' = records BY <1>2, <1>3, <2>6
    <3> HIDE DEF e, gaps
    <3>2. Tells(e, records, round')
      <4>1. ~Slow(e) BY <3>1 DEF Slow
      <4>2. /\ gaps = {} => reason = "all_targets_met"
            /\ gaps # {} => reason = "no_credible_source"
            /\ \A s \in gaps : ~Credible(s)
        BY <1>4, <1>7, <2>2 DEF gaps
      <4>3. /\ reason # "no_progress" /\ reason # "max_rounds"
            /\ reason = "all_targets_met" => gaps = {}
            /\ gaps = {} => reason \notin {"no_credible_source", "max_rounds"}
        BY <4>2
      <4> QED BY <3>1, <4>1, <4>2, <4>3, Zenon DEF Tells, gaps
    <3> QED BY <3>1, <3>2, Zenon DEF ReasonTold, e
  <2> QED BY <1>5, <2>8, <2>9
<1> QED BY <1>6, <1>7

LEMMA CloseRounds ==
  ASSUME Recorded, Accepted, Close PROVE Recorded' /\ Accepted' /\ ReasonTold'
<1> DEFINE all == records \o found
<1>1. PICK duplicates \in DuplicateRates, exhausted \in BOOLEAN, new \in 0..Len(found) :
        /\ records' = all
        /\ Record(opened, new, duplicates, StopReason(all, new, duplicates, exhausted))
  BY Zenon DEF Close
<1>2. /\ phase = "work" /\ found' = <<>> /\ UNCHANGED <<candidates, round, left, opened>>
  BY DEF Close
<1> DEFINE reason == StopReason(all, new, duplicates, exhausted)
<1>3. /\ records \in Seq(Good) /\ found \in Seq(Good) /\ all \in Seq(Good) /\ new \in Nat
      /\ all \o <<>> = all
  BY DEF Accepted
<1>4. Accepted'
  <2>1. /\ \A i, j \in DOMAIN all : all[i] = all[j] => i = j
        /\ \A i \in DOMAIN all :
             all[i] \in DOMAIN candidates /\ candidates[all[i]].extractionOwner # None
    BY DEF Accepted
  <2> HIDE DEF all
  <2>2. (records \o found)' = all BY <1>1, <1>2, <1>3
  <2>3. found' \in Seq(Good) BY <1>2
  <2>4. records' \in Seq(Good) BY <1>1, <1>3
  <2>5. /\ \A i, j \in DOMAIN (records \o found)' :
             (records \o found)'[i] = (records \o found)'[j] => i = j
        /\ \A i \in DOMAIN (records \o found)' :
             /\ (records \o found)'[i] \in DOMAIN candidates'
             /\ candidates'[(records \o found)'[i]].extractionOwner # None
    BY <1>2, <2>1, <2>2, Zenon
  <2> QED BY <2>3, <2>4, <2>5 DEF Accepted
<1>5. round \in 0..MaxRounds /\ MaxRounds \in Nat /\ IsSeq(rounds) /\ Len(rounds) = round - 1
      /\ left \in Int
  BY <1>2, RoundsAssumption DEF Recorded
<1>6. round \in Nat /\ Len(rounds) \in Nat /\ round >= 1 BY <1>5 DEF IsSeq
<1> DEFINE slow == round > 1 /\ new < NoProgressMin
<1>7. /\ reason # "no_credible_source"
      /\ reason = "all_targets_met" => OpenGaps(all) = {} /\ ~slow
      /\ reason = "no_progress" => slow
      /\ reason = "max_rounds" => round = MaxRounds /\ OpenGaps(all) # {} /\ ~slow
      /\ slow => reason # None
  BY <1>3, <1>6, StopReasonIs
<1>8. round > 1 => LanesAllowed(opened) /\ opened # {} BY <1>2 DEF Recorded
<1> HIDE DEF all, reason
<1>9. /\ IsSeq(rounds') /\ Len(rounds') = round
      /\ \A i \in 1..Len(rounds) : rounds'[i] = rounds[i]
      /\ rounds'[round].lanes = opened /\ rounds'[round].new = new /\ rounds'[round].stop = reason
      /\ phase' = IF reason = None THEN "plan" ELSE "stop"
  <2>1. Record(opened, new, duplicates, reason) BY <1>1, Zenon DEF reason
  <2>2. /\ IsSeq(rounds') /\ Len(rounds') = Len(rounds) + 1
        /\ \A i \in 1..Len(rounds) : rounds'[i] = rounds[i]
        /\ rounds'[Len(rounds')].lanes = opened /\ rounds'[Len(rounds')].new = new
        /\ rounds'[Len(rounds')].stop = reason
        /\ phase' = IF reason = None THEN "plan" ELSE "stop"
    BY <1>5, <2>1, RecordIs
  <2>3. Len(rounds') = round BY <1>5, <1>6, <2>2
  <2> QED BY <2>2, <2>3, Zenon
<1>10. Recorded'
  <2>1. \A i \in 1..Len(rounds') : i \in 1..Len(rounds) \/ i = round BY <1>5, <1>6, <1>9
  <2>2. \A i \in 1..Len(rounds) : i # round BY <1>5, <1>6
  <2>3. \A i \in 1..Len(rounds) : rounds[i].stop = None BY <1>2 DEF Recorded
  <2>4. reason # None <=> phase' = "stop" BY <1>9
  <2>5. \A i \in 1..Len(rounds') : rounds'[i].stop # None <=> (i = Len(rounds') /\ phase' = "stop")
    BY <1>9, <2>1, <2>2, <2>3, <2>4
  <2>6. \A i \in 1..Len(rounds') : i >= 2 => LanesAllowed(rounds'[i].lanes)
    <3>1. round > 1 => LanesAllowed(opened) BY <1>8
    <3>2. \A i \in 1..Len(rounds) : i >= 2 => LanesAllowed(rounds[i].lanes) BY DEF Recorded
    <3>3. round >= 2 => round > 1 BY <1>6
    <3> QED BY <1>9, <2>1, <3>1, <3>2, <3>3
  <2>7. \A i \in 1..Len(rounds') : i >= 2 => LanesAllowed(rounds[i].lanes)'
    BY <2>6 DEF LanesAllowed
  <2>8. phase' \in {"plan", "stop"} BY <1>9
  <2>9. \A i \in 1..Len(rounds') : i >= 2 /\ Slow(rounds[i])' => rounds'[i].stop # None
    <3>1. \A i \in 1..Len(rounds) : i >= 2 /\ Slow(rounds[i]) => rounds[i].stop # None
      BY DEF Recorded
    <3>2. round >= 2 /\ Slow(rounds'[round]) => reason # None
      <4>1. round >= 2 => round > 1 BY <1>6
      <4> QED BY <1>7, <1>9, <4>1 DEF Slow
    <3>3. \A i \in 1..Len(rounds') : i >= 2 /\ Slow(rounds'[i]) => rounds'[i].stop # None
      BY <1>9, <2>1, <3>1, <3>2
    <3> QED BY <3>3 DEF Slow
  <2> QED BY <1>2, <1>5, <1>9, <2>5, <2>7, <2>8, <2>9 DEF Recorded
<1>11. ReasonTold'
  <2> DEFINE e == rounds'[Len(rounds')]
             gaps == OpenGaps(all)
  <2>1. e.stop = reason /\ e.lanes = opened /\ e.new = new /\ round' = round /\ records' = all
    BY <1>1, <1>2, <1>9
  <2> HIDE DEF e
  <2>2. (round > 1 /\ Slow(e)) <=> slow BY <1>8, <2>1 DEF Slow
  <2>3. /\ gaps = {} => reason \notin {"no_credible_source", "max_rounds"}
    BY <1>7
  <2> HIDE DEF slow, gaps
  <2>4. Tells(e, all, round)
    <3>1. /\ reason # "no_credible_source"
          /\ reason = "all_targets_met" => gaps = {} /\ ~slow
          /\ reason = "no_progress" => slow
          /\ reason = "max_rounds" => round = MaxRounds /\ gaps # {} /\ ~slow
      BY <1>7 DEF gaps, slow
    <3> QED BY <2>1, <2>2, <2>3, <3>1, Zenon DEF Tells, gaps
  <2> QED BY <2>1, <2>4, Zenon DEF ReasonTold, e
<1> QED BY <1>4, <1>10, <1>11

-----------------------------------------------------------------------------
(* The pool in the rounds.                                                 *)
PoolInv == Tasks /\ Answers /\ Numbered /\ SourceRows /\ PageRows

LEMMA InitPool == Init => PoolInv
<1> SUFFICES ASSUME Init PROVE PoolInv OBVIOUS
<1>1. /\ sources = <<>> /\ candidates = <<>> /\ work = [l \in Lanes |-> Idle]
      /\ asked = {} /\ views = {} /\ reads = {} /\ sighted = {} /\ wanted = {} /\ extracted = {}
  BY DEF Init, PoolInit
<1>2. DOMAIN sources = {} /\ DOMAIN candidates = {} BY <1>1
<1>3. Tasks
  <2>1. <<>> \in Seq(Requests) OBVIOUS
  <2> QED BY <1>1, <2>1 DEF Tasks, IsTask, Idle
<1>4. Answers /\ Numbered BY <1>1 DEF Answers, Numbered
<1>5. SourceRows BY <1>1, <1>2 DEF SourceRows
<1>6. PageRows BY <1>1, <1>2 DEF PageRows
<1> QED BY <1>3, <1>4, <1>5, <1>6 DEF PoolInv

LEMMA AssignGives == ASSUME NEW lanes, Assign(lanes) PROVE Tasks'
<1>1. ASSUME NEW l \in Lanes PROVE IsTask(work[l])' /\ work'[l].todo \in Seq(Requests)
  <2>1. RequestsOf[l] \in Seq(Requests) BY RequestsAssumption
  <2>2. work'[l] = IF l \in lanes THEN [Idle EXCEPT !.todo = RequestsOf[l]] ELSE Idle BY DEF Assign
  <2>3. CASE l \in lanes BY <2>1, <2>2, <2>3 DEF Idle, IsTask
  <2>4. CASE l \notin lanes
    <3>1. work'[l] = Idle BY <2>2, <2>4
    <3>2. <<>> \in Seq(Requests) OBVIOUS
    <3> QED BY <3>1, <3>2 DEF Idle, IsTask
  <2> QED BY <2>3, <2>4
<1>2. DOMAIN work' = Lanes BY DEF Assign
<1> QED BY <1>1, <1>2 DEF Tasks

LEMMA RowsStay ==
  ASSUME SourceRows, UNCHANGED <<sources, asked, views, reads>> PROVE SourceRows'
BY DEF SourceRows

LEMMA PagesStay ==
  ASSUME PageRows, UNCHANGED <<candidates, sighted, wanted, extracted>> PROVE PageRows'
BY DEF PageRows

LEMMA NextRoundKeeps ==
  ASSUME PoolInv, round \in Nat, round' = round + 1, Tasks', UNCHANGED <<sources, candidates, history>>
  PROVE  PoolInv'
<1>1. UNCHANGED <<sources, candidates, asked, views, reads, sighted, wanted, extracted>>
  BY DEF history
<1>2. Answers' BY <1>1 DEF PoolInv, Answers
<1>3. Numbered' BY <1>1 DEF PoolInv, Numbered
<1>4. SourceRows' /\ PageRows' BY <1>1, RowsStay, PagesStay DEF PoolInv
<1> QED BY <1>2, <1>3, <1>4 DEF PoolInv

LEMMA SameRoundKeeps ==
  ASSUME PoolInv, UNCHANGED <<sources, candidates, history, work, round>> PROVE PoolInv'
<1>1. UNCHANGED <<sources, candidates, asked, views, reads, sighted, wanted, extracted>>
  BY DEF history
<1>2. Answers' /\ Tasks' BY <1>1 DEF PoolInv, Answers, Tasks
<1>3. Numbered' BY <1>1 DEF PoolInv, Numbered
<1>4. SourceRows' /\ PageRows' BY <1>1, RowsStay, PagesStay DEF PoolInv
<1> QED BY <1>2, <1>3, <1>4 DEF PoolInv

(* Calls that read a source.                                               *)
LEMMA ReadingKeeps ==
  ASSUME PoolInv, round \in Nat, UNCHANGED round, NEW l \in Lanes,
         \/ EstablishSnapshot(l, round) \/ RecordEstablishedSource(l, round) \/ ReuseSnapshot(l, round)
  PROVE  PoolInv' /\ UNCHANGED <<candidates, found>>
<1> DEFINE f0(body) == [key |-> KeyOf(l), body |-> body, request |-> Question(l)]
<1>1. /\ \E body : /\ Asks(l) /\ Reads(l, round, body)
                   /\ \/ views' = views
                      \/ views' = views \cup {f0(body)}
      /\ UNCHANGED <<candidates, found, sighted, wanted, extracted>>
  <2>1. CASE EstablishSnapshot(l, round) BY <2>1, Zenon DEF EstablishSnapshot, Viewed
  <2>2. CASE RecordEstablishedSource(l, round) BY <2>2, Zenon DEF RecordEstablishedSource, Viewed
  <2>3. CASE ReuseSnapshot(l, round) BY <2>3, Zenon DEF ReuseSnapshot
  <2> QED BY <2>1, <2>2, <2>3, Zenon
<1>2. PICK body : Asks(l) /\ Reads(l, round, body) /\ (views' = views \/ views' = views \cup {f0(body)})
  BY <1>1, Zenon
<1>3. /\ Tasks' /\ Numbered' /\ Question(l) \in Requests
      /\ reads' = reads \cup {Reading(l, round, body)}
  BY <1>2, ReadsOnce DEF PoolInv
<1>4. Answers' BY <1>2, <1>3, AnswersKept, Zenon DEF PoolInv
<1>5. SourceRows' BY EstablishRows, RecordRows, ReuseRows DEF PoolInv
<1>6. PageRows' BY <1>1, PagesStay DEF PoolInv
<1> QED BY <1>1, <1>3, <1>4, <1>5, <1>6 DEF PoolInv

LEMMA AcquireKeeps ==
  ASSUME PoolInv, UNCHANGED round, NEW l \in Lanes, AcquireSource(l)
  PROVE  PoolInv' /\ UNCHANGED <<candidates, found>>
<1>1. UNCHANGED <<candidates, work, found, views, reads, sighted, wanted, extracted>>
  BY DEF AcquireSource
<1>2. Tasks' /\ Answers' /\ Numbered' BY <1>1 DEF PoolInv, Tasks, Answers, Numbered
<1>3. SourceRows' BY AcquireRows DEF PoolInv
<1>4. PageRows' BY <1>1, PagesStay DEF PoolInv
<1> QED BY <1>1, <1>2, <1>3, <1>4 DEF PoolInv

(* What a lane does for itself: it fetches, gives a body or a source up,   *)
(* has a page fetched, or goes on to the next.                             *)
LEMMA AloneKeeps ==
  ASSUME PoolInv, UNCHANGED round, NEW l \in Lanes,
         Fetch(l) \/ Refused(l) \/ GivesUp(l) \/ TargetFetched(l) \/ NextPage(l)
  PROVE  PoolInv' /\ UNCHANGED <<candidates, found>>
<1>1. UNCHANGED <<sources, candidates, found, history>>
  BY DEF Fetch, Refused, GivesUp, TargetFetched, NextPage
<1>2. UNCHANGED <<asked, views, reads, sighted, wanted, extracted>> BY <1>1 DEF history
<1>3. /\ Tasks'
      /\ \A m \in Lanes : work'[m].todo = work[m].todo \/ Len(work'[m].todo) = Len(work[m].todo) - 1
  <2>0. Tasks BY DEF PoolInv
  <2>1. CASE Fetch(l) \/ Refused(l) \/ NextPage(l)
    <3>1. \/ \E b : work' = [work EXCEPT ![l].body = b]
          \/ \E p : work' = [work EXCEPT ![l].pages = p]
      BY <2>1, Zenon DEF Fetch, Refused, NextPage
    <3> QED BY <2>0, <3>1, LaneStays
  <2>2. CASE TargetFetched(l)
    <3>1. work' = work BY <2>2 DEF TargetFetched
    <3> QED BY <2>0, <3>1 DEF Tasks
  <2>3. CASE GivesUp(l)
    <3> DEFINE w == work[l]
               t == Tail(w.todo)
    <3>1. w.todo # <<>> /\ work' = [work EXCEPT ![l] = [w EXCEPT !.todo = t, !.body = None]]
      BY <2>3 DEF GivesUp, Asks
    <3>2. IsTask(w) BY <2>0 DEF Tasks
    <3>3. [w EXCEPT !.todo = t, !.body = None] =
            [todo |-> t, body |-> None, key |-> w.key, pages |-> w.pages]
      <4> HIDE DEF w, t
      <4> QED BY <3>2, TaskDropped
    <3> DEFINE k == w.key
               p == w.pages
    <3>5. work[l].todo # <<>>
          /\ work' = [work EXCEPT ![l] = [todo |-> Tail(work[l].todo), body |-> None,
                                          key |-> k, pages |-> p]]
      BY <3>1, <3>3
    <3> HIDE DEF k, p, w, t
    <3>6. /\ Tasks' /\ Len(work'[l].todo) = Len(work[l].todo) - 1
          /\ \A m \in Lanes \ {l} : work'[m] = work[m]
      BY <2>0, <3>5, LaneGoesOn
    <3> QED BY <3>6
  <2> QED BY <2>1, <2>2, <2>3
<1>4. Numbered' BY <1>2, <1>3, NoneReads DEF PoolInv
<1>5. Answers' BY <1>2 DEF PoolInv, Answers
<1>6. SourceRows' /\ PageRows' BY <1>1, <1>2, RowsStay, PagesStay DEF PoolInv
<1> QED BY <1>1, <1>3, <1>4, <1>5, <1>6 DEF PoolInv

(* Calls about a page.                                                     *)
LEMMA PageKeeps ==
  ASSUME PoolInv, UNCHANGED round, NEW l \in Lanes,
         AddCandidate(l) \/ AcquireTargetFetch(l) \/ AcquireExtraction(l)
  PROVE  PoolInv'
<1>1. UNCHANGED <<sources, work, asked, views, reads>>
  BY DEF AddCandidate, AcquireTargetFetch, AcquireExtraction
<1>2. Tasks' /\ Answers' /\ Numbered' BY <1>1 DEF PoolInv, Tasks, Answers, Numbered
<1>3. SourceRows' BY <1>1, RowsStay DEF PoolInv
<1>4. PageRows' BY AddEffect, WantEffect, ExtractEffect DEF PoolInv
<1> QED BY <1>2, <1>3, <1>4 DEF PoolInv

LEMMA AcceptedStays ==
  ASSUME Accepted, UNCHANGED <<records, found>>, DOMAIN candidates \subseteq DOMAIN candidates',
         \A d \in DOMAIN candidates : candidates'[d].extractionOwner = candidates[d].extractionOwner
  PROVE  Accepted'
BY DEF Accepted

(* A page is accepted by the lane that becomes its extraction owner.       *)
LEMMA ExtractionAccepts ==
  ASSUME PoolInv, Accepted, NEW l \in Lanes, AcquireExtraction(l), UNCHANGED records
  PROVE  Accepted'
<1> DEFINE c == PageOf(l)
           all == records \o found
<1>1. /\ DOMAIN candidates' = DOMAIN candidates /\ c \in DOMAIN candidates
      /\ candidates[c].extractionOwner = None /\ candidates'[c].extractionOwner # None
      /\ \A d \in DOMAIN candidates \ {c} : candidates'[d] = candidates[d]
  BY ExtractEffect, Zenon DEF PoolInv
<1>2. found' = IF c \in Good THEN Append(found, c) ELSE found BY Zenon DEF AcquireExtraction
<1> HIDE DEF c
<1>3. /\ records \in Seq(Good) /\ found \in Seq(Good) /\ all \in Seq(Good)
      /\ \A i, j \in DOMAIN all : all[i] = all[j] => i = j
      /\ \A i \in DOMAIN all :
           all[i] \in DOMAIN candidates /\ candidates[all[i]].extractionOwner # None
  BY DEF Accepted
<1>4. \A i \in DOMAIN all : /\ all[i] # c /\ all[i] \in DOMAIN candidates'
                            /\ candidates'[all[i]].extractionOwner # None
  <2> HIDE DEF all
  <2> QED BY <1>1, <1>3
<1>5. CASE c \notin Good
  <2>1. found' = found BY <1>2, <1>5
  <2>2. (records \o found)' = all BY <2>1
  <2> HIDE DEF all
  <2>3. /\ \A i, j \in DOMAIN (records \o found)' :
             (records \o found)'[i] = (records \o found)'[j] => i = j
        /\ \A i \in DOMAIN (records \o found)' :
             /\ (records \o found)'[i] \in DOMAIN candidates'
             /\ candidates'[(records \o found)'[i]].extractionOwner # None
    BY <1>3, <1>4, <2>2, Zenon
  <2> QED BY <1>3, <2>1, <2>3 DEF Accepted
<1>6. CASE c \in Good
  <2> DEFINE more == Append(all, c)
  <2>1. found' = Append(found, c) BY <1>2, <1>6
  <2>2. found' \in Seq(Good) /\ (records \o found)' = more BY <1>3, <1>6, <2>1
  <2>3. /\ DOMAIN more = DOMAIN all \cup {Len(all) + 1} /\ more[Len(all) + 1] = c
        /\ \A i \in DOMAIN all : more[i] = all[i]
    <3> HIDE DEF all
    <3> QED BY <1>3, <1>6
  <2> HIDE DEF more, all
  <2>4. \A i, j \in DOMAIN more : more[i] = more[j] => i = j BY <1>3, <1>4, <2>3
  <2>5. \A i \in DOMAIN more : more[i] \in DOMAIN candidates' /\ candidates'[more[i]].extractionOwner # None
    BY <1>1, <1>4, <2>3
  <2>6. /\ \A i, j \in DOMAIN (records \o found)' :
             (records \o found)'[i] = (records \o found)'[j] => i = j
        /\ \A i \in DOMAIN (records \o found)' :
             /\ (records \o found)'[i] \in DOMAIN candidates'
             /\ candidates'[(records \o found)'[i]].extractionOwner # None
    BY <2>2, <2>4, <2>5, Zenon
  <2> QED BY <1>3, <2>2, <2>6 DEF Accepted
<1> QED BY <1>5, <1>6

-----------------------------------------------------------------------------
(* Every step keeps the invariant.                                         *)
IInv == PoolInv /\ Accepted /\ Recorded /\ ReasonTold

LEMMA WorkKeeps == ASSUME IInv, Work PROVE IInv'
<1>1. phase = "work" /\ round \in Nat /\ UNCHANGED schedVars
  BY RoundsAssumption DEF Work, IInv, Recorded
<1>2. UNCHANGED <<round, phase, left, records, rounds, opened>> BY <1>1 DEF schedVars
<1>3. Recorded' /\ ReasonTold'
  BY <1>1, <1>2 DEF IInv, Recorded, ReasonTold, LanesAllowed, Slow
<1>4. PoolInv' /\ Accepted'
  <2>1. CASE Publish
    <3>1. UNCHANGED <<sources, candidates, work, found, history>> BY <2>1 DEF Publish
    <3>2. PoolInv' BY <1>2, <3>1, SameRoundKeeps DEF IInv
    <3> QED BY <1>2, <3>1, <3>2, AcceptedStays DEF IInv
  <2>2. CASE PoolStep(round)
    <3>1. PICK l \in Lanes :
            \/ AcquireSource(l) \/ Fetch(l) \/ EstablishSnapshot(l, round)
            \/ RecordEstablishedSource(l, round) \/ Refused(l) \/ ReuseSnapshot(l, round)
            \/ GivesUp(l) \/ AddCandidate(l) \/ AcquireTargetFetch(l) \/ TargetFetched(l)
            \/ AcquireExtraction(l) \/ NextPage(l)
      BY <2>2 DEF PoolStep
    <3>2. CASE AcquireSource(l)
      BY <1>2, <3>2, AcquireKeeps, AcceptedStays DEF IInv
    <3>3. CASE \/ EstablishSnapshot(l, round) \/ RecordEstablishedSource(l, round)
               \/ ReuseSnapshot(l, round)
      BY <1>1, <1>2, <3>3, ReadingKeeps, AcceptedStays DEF IInv
    <3>4. CASE Fetch(l) \/ Refused(l) \/ GivesUp(l) \/ TargetFetched(l) \/ NextPage(l)
      BY <1>2, <3>4, AloneKeeps, AcceptedStays DEF IInv
    <3>5. CASE AddCandidate(l)
      <4>1. PoolInv' BY <1>2, <3>5, PageKeeps DEF IInv
      <4>2. found' = found BY <3>5 DEF AddCandidate
      <4> QED BY <1>2, <3>5, <4>1, <4>2, AddEffect, AcceptedStays DEF IInv, PoolInv
    <3>6. CASE AcquireTargetFetch(l)
      <4>1. PoolInv' BY <1>2, <3>6, PageKeeps DEF IInv
      <4>2. found' = found BY <3>6 DEF AcquireTargetFetch
      <4> QED BY <1>2, <3>6, <4>1, <4>2, WantEffect, AcceptedStays DEF IInv, PoolInv
    <3>7. CASE AcquireExtraction(l)
      BY <1>2, <3>7, PageKeeps, ExtractionAccepts DEF IInv
    <3> QED BY <3>1, <3>2, <3>3, <3>4, <3>5, <3>6, <3>7
  <2> QED BY <2>1, <2>2 DEF Work
<1> QED BY <1>3, <1>4 DEF IInv

LEMMA NextKeeps == IInv /\ [Next]_vars => IInv'
<1> SUFFICES ASSUME IInv, [Next]_vars PROVE IInv' OBVIOUS
<1>0. round \in Nat BY RoundsAssumption DEF IInv, Recorded
<1>1. CASE PlanFirst
  <2>1. /\ Assign(Configured) /\ round' = round + 1 /\ UNCHANGED <<sources, candidates, history>>
    BY <1>1 DEF PlanFirst
  <2>2. PoolInv' BY <1>0, <2>1, AssignGives, NextRoundKeeps DEF IInv
  <2> QED BY <1>1, <2>2, PlanFirstRounds DEF IInv
<1>2. CASE PlanNext
  <2>1. /\ round' = round + 1 /\ UNCHANGED <<sources, candidates, history>>
        /\ Assign(opened') \/ UNCHANGED work
    BY <1>2, Zenon DEF PlanNext
  <2>2. Tasks'
    <3>1. CASE UNCHANGED work BY <3>1 DEF IInv, PoolInv, Tasks
    <3>2. CASE Assign(opened')
      <4>1. PICK lanes : Assign(lanes) BY <3>2
      <4> QED BY <4>1, AssignGives
    <3> QED BY <2>1, <3>1, <3>2
  <2>3. PoolInv' BY <1>0, <2>1, <2>2, NextRoundKeeps DEF IInv
  <2> QED BY <1>2, <2>3, PlanNextRounds DEF IInv
<1>3. CASE Work BY <1>3, WorkKeeps
<1>4. CASE Close
  <2>1. UNCHANGED <<sources, candidates, history, work, round>> BY <1>4 DEF Close
  <2>2. PoolInv' BY <2>1, SameRoundKeeps DEF IInv
  <2> QED BY <1>4, <2>2, CloseRounds DEF IInv
<1>5. CASE UNCHANGED vars
  <2>1. /\ UNCHANGED <<sources, candidates, history, work, found>>
        /\ UNCHANGED <<round, phase, left, records, rounds, opened>>
    BY <1>5 DEF vars, poolVars, schedVars
  <2>2. PoolInv' BY <2>1, SameRoundKeeps DEF IInv
  <2>3. Accepted' BY <2>1 DEF IInv, Accepted
  <2>4. Recorded' BY <2>1 DEF IInv, Recorded, LanesAllowed, Slow
  <2>5. ReasonTold' BY <2>1 DEF IInv, ReasonTold
  <2> QED BY <2>2, <2>3, <2>4, <2>5 DEF IInv
<1> QED BY <1>1, <1>2, <1>3, <1>4, <1>5 DEF Next

LEMMA AlwaysIInv == Spec => []IInv
<1>1. Init => IInv BY InitPool, InitRounds DEF IInv
<1> QED BY <1>1, NextKeeps, PTL DEF Spec

-----------------------------------------------------------------------------
(* The run has one view of a source: whatever calls the lanes of its       *)
(* rounds make, in any order and however the source changes, a key has one *)
(* snapshot, everyone who reads reads it, and it is the answer to the      *)
(* question the reader asked (pool.py:6-13, request_key.py).               *)
THEOREM OneViewOfASource == Spec => []OneView
<1>1. IInv => OneView BY QuestionsAnswered DEF IInv, PoolInv
<1> QED BY <1>1, AlwaysIInv, PTL

(* What the pool writes down is told by the calls the lanes made, without  *)
(* their order: who made a row, who filled it and who came first among     *)
(* those who read do not show in the document nor in the counts of logical *)
(* owners, though any call of another lane may come between any two of one *)
(* (to_document and accounting of pool.py).                                *)
THEOREM DocumentIsOrderFree == Spec => []DocumentOrderFree
<1>1. IInv => DocumentOrderFree BY DocumentTold DEF IInv, PoolInv
<1> QED BY <1>1, AlwaysIInv, PTL

(* A run has at most MaxRounds rounds, each but the first with no more     *)
(* lanes than allowed and only for gaps with a source; it stops in the     *)
(* round whose reason it recorded, and every record it counts is a page    *)
(* that a lane extracted (plan_round and run of scheduler.py).             *)
THEOREM RoundsAreBounded == Spec => []RoundsInv
<1>1. ASSUME IInv PROVE RoundsInv
  <2>1. round \in 0..MaxRounds /\ MaxRounds \in Nat /\ phase \in {"plan", "work", "stop"}
    BY <1>1, RoundsAssumption DEF IInv, Recorded
  <2>2. DOMAIN rounds = 1..Len(rounds) /\ Len(rounds) \in Nat BY <1>1 DEF IInv, Recorded, IsSeq
  <2>3. Len(rounds) \in {round, round - 1} /\ (phase = "stop" => Len(rounds) = round)
    BY <1>1 DEF IInv, Recorded
  <2>4. \A i \in DOMAIN rounds : rounds[i].stop # None <=> (i = Len(rounds) /\ phase = "stop")
    BY <1>1, <2>2 DEF IInv, Recorded
  <2>5. \A i \in 2..Len(rounds) : i \in 1..Len(rounds) /\ i >= 2 BY <2>2
  <2>6. \A i \in 2..Len(rounds) : LanesAllowed(rounds[i].lanes) BY <1>1, <2>5 DEF IInv, Recorded
  <2>7. \A i \in DOMAIN records : records[i] \in Good /\ candidates[records[i]].extractionOwner # None
    <3> DEFINE all == records \o found
    <3>1. records \in Seq(Good) /\ found \in Seq(Good) BY <1>1 DEF IInv, Accepted
    <3>2. \A i \in DOMAIN records : records[i] \in Good /\ i \in DOMAIN all /\ all[i] = records[i]
      BY <3>1
    <3>3. \A i \in DOMAIN all : candidates[all[i]].extractionOwner # None BY <1>1 DEF IInv, Accepted
    <3> HIDE DEF all
    <3> QED BY <3>2, <3>3
  <2>8. phase # "work" => found = <<>> BY <1>1 DEF IInv, Recorded
  <2> QED BY <2>1, <2>3, <2>4, <2>6, <2>7, <2>8, Zenon DEF RoundsInv, LanesAllowed
<1> QED BY <1>1, AlwaysIInv, PTL

(* The reason a run gives for its end is true of the distinct pages it     *)
(* accepted, with any targets, policies, statistics, weights and budgets,  *)
(* any number of new records asked of a round, and whatever number a round *)
(* says it has found up to that of its records (Scheduler.run).            *)
THEOREM ReasonsAreHonest == Spec => []ReasonsHonest
<1>1. ASSUME IInv PROVE ReasonsHonest
  <2> DEFINE wanting == {s \in Slugs \ NeverGap : /\ Policy[s] # "record_only"
                           /\ Cardinality({c \in ToSet(records) : s \in Values[c]}) < Target[s]}
             last == Last(rounds)
             stalled == round > 1 /\ last.lanes # {} /\ last.new < NoProgressMin
  <2>1. \A i \in 2..Len(rounds) :
          rounds[i].lanes # {} /\ rounds[i].new < NoProgressMin => rounds[i].stop # None
    <3>1. \A i \in 1..Len(rounds) : i >= 2 /\ Slow(rounds[i]) => rounds[i].stop # None
      BY <1>1 DEF IInv, Recorded
    <3>2. \A i \in 2..Len(rounds) : i \in 1..Len(rounds) /\ i >= 2 BY <1>1 DEF IInv, Recorded, IsSeq
    <3> QED BY <3>1, <3>2 DEF Slow
  <2>2. ASSUME phase = "stop"
        PROVE  /\ last.stop = "all_targets_met" => wanting = {} /\ ~stalled
               /\ last.stop = "no_progress" => stalled
               /\ last.stop = "no_credible_source" => \A s \in wanting : ~Credible(s)
               /\ last.stop = "max_rounds" => round = MaxRounds /\ wanting # {} /\ ~stalled
               /\ wanting = {} => last.stop \notin {"no_credible_source", "max_rounds"}
    <3>1. /\ records \in Seq(Good) /\ found = <<>>
          /\ \A i, j \in DOMAIN (records \o found) :
               (records \o found)[i] = (records \o found)[j] => i = j
      BY <1>1, <2>2 DEF IInv, Accepted, Recorded
    <3>2. records \o found = records BY <3>1
    <3>3. \A i, j \in DOMAIN records : records[i] = records[j] => i = j BY <3>1, <3>2, Zenon
    <3>4. wanting = OpenGaps(records) BY <3>1, <3>3, WantingIs, Zenon
    <3>5. last = rounds[Len(rounds)] BY DEF Last
    <3>6. Tells(last, records, round) BY <1>1, <2>2, <3>5 DEF IInv, ReasonTold
    <3>7. stalled <=> round > 1 /\ Slow(last) BY DEF Slow
    <3> HIDE DEF wanting, last, stalled
    <3> QED BY <3>4, <3>6, <3>7, Zenon DEF Tells
  <2> HIDE DEF wanting, last, stalled
  <2>3. phase = "stop" =>
          /\ last.stop = "all_targets_met" => wanting = {} /\ ~stalled
          /\ last.stop = "no_progress" => stalled
          /\ last.stop = "no_credible_source" => \A s \in wanting : ~Credible(s)
          /\ last.stop = "max_rounds" => round = MaxRounds /\ wanting # {} /\ ~stalled
          /\ wanting = {} => last.stop \notin {"no_credible_source", "max_rounds"}
    BY <2>2, Zenon
  <2> QED BY <2>1, <2>3, Zenon DEF ReasonsHonest, wanting, last, stalled
<1> QED BY <1>1, AlwaysIInv, PTL
=============================================================================
