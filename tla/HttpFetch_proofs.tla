-------------------------- MODULE HttpFetch_proofs --------------------------
(***************************************************************************)
(* Proofs about HttpFetch, for every set of URLs and hosts, any limits,    *)
(* nesting, number of attempts and redirects, and any delays.              *)
(***************************************************************************)
EXTENDS HttpFetch, TLAPS

(* What robots.txt answers is always an entry of the cache.                *)
LEMMA EntriesAreTyped ==
  ASSUME TypeOK, NEW h \in Hosts, NEW e \in RobotsNow(h)
  PROVE  e \in RobotsEntries
BY UrlsAssumption DEF TypeOK, RobotsNow, RobotsEntries

LEMMA HostIsTyped == TypeOK => Host \in Hosts
BY UrlsAssumption DEF TypeOK, Host

(* The URLs asked for and the rules remembered keep their types.           *)
LEMMA ZeroIsASpan == 0 \in Spans /\ Spans \subseteq Nat
BY TimesAssumption DEF Spans

LEMMA TypesInit == ASSUME Init PROVE TypeOK
<1>1. 0 \in 0..Depth
  BY LimitsAssumption
<1>2. NoCost \in [attempts : Nat, retries : Nat, hops : Nat, charges : Nat]
  BY DEF NoCost
<1>3. used \in [Levels -> Nat] /\ spent \in [Levels -> Nat]
      /\ gate \in [Hosts -> Spans] /\ banned \in [Hosts -> Spans]
      /\ robots \in [Hosts -> RobotsEntries \cup {None}]
  BY ZeroIsASpan DEF Init
<1> QED BY <1>1, <1>2, <1>3, ZeroIsASpan DEF Init, TypeOK

LEMMA TypesNext == TypeOK /\ [Next]_vars => TypeOK'
<1> SUFFICES ASSUME TypeOK, [Next]_vars PROVE TypeOK'
  OBVIOUS
<1> USE LimitsAssumption
<1>h. Host \in Hosts
  BY HostIsTyped
<1>e. ASSUME NEW e \in RobotsNow(Host), Remember(e)
      PROVE  e \in RobotsEntries /\ robots' \in [Hosts -> RobotsEntries \cup {None}]
  <2>1. e \in RobotsEntries
    BY <1>h, <1>e, EntriesAreTyped
  <2> QED BY <2>1, <1>e DEF Remember, TypeOK
<1>r. ASSUME NEW r \in Typed \cup {"untyped"}, End(r), UNCHANGED <<budget, turn>>,
             robots' \in [Hosts -> RobotsEntries \cup {None}],
             gate' \in [Hosts -> Spans], banned' \in [Hosts -> Spans]
      PROVE  TypeOK'
  BY <1>r, ZeroIsASpan DEF End, TypeOK, budget
<1>1. CASE Push
  <2>1. depth' \in 0..Depth
    BY <1>1 DEF Push, TypeOK
  <2>2. used' \in [Levels -> Nat] /\ spent' \in [Levels -> Nat]
    BY <1>1 DEF Push, TypeOK
  <2> QED BY <2>1, <2>2, <1>1 DEF Push, TypeOK, call, domain
<1>2. CASE Pop
  <2>1. depth' \in 0..Depth
    BY <1>2 DEF Pop, TypeOK
  <2>2. used' \in [Levels -> Nat] /\ spent' \in [Levels -> Nat]
    BY <1>2 DEF Pop, TypeOK
  <2> QED BY <2>1, <2>2, <1>2 DEF Pop, TypeOK, call, domain
<1>3. CASE Begin
  BY <1>3 DEF Begin, TypeOK, budget, domain, NoCost
<1>4. CASE Probe
  BY <1>4, <1>e DEF Probe, TypeOK, budget, call
<1>5. CASE CheckRobots
  <2> PICK e \in RobotsNow(Host) :
        /\ Remember(e)
        /\ \/ /\ url \in e.may
              /\ cleared' = url /\ pc' = "delay"
              /\ UNCHANGED <<caller, url, seen, permanent, tries, pace, acct,
                             result, rest, held>>
           \/ url \notin e.may /\ End("robots_denied")
    BY <1>5 DEF CheckRobots
  <2>1. CASE End("robots_denied")
    BY <2>1, <1>5, <1>e, <1>r DEF CheckRobots, TypeOK, Typed
  <2>2. CASE pc' = "delay"
    BY <2>2, <1>5, <1>e DEF CheckRobots, TypeOK, budget, End
  <2> QED BY <2>1, <2>2
<1>6. CASE ReadDelay
  <2> PICK e \in RobotsNow(Host) : Remember(e) /\ pace' = Larger(Floor, e.delay)
    BY <1>6 DEF ReadDelay
  <2>1. e.delay \in Spans
    <3>1. Delays \cup {0} \subseteq Spans
      BY ZeroIsASpan, TimesAssumption DEF Spans
    <3>2. e.delay \in Delays \cup {0}
      BY <1>e DEF RobotsEntries
    <3> QED BY <3>1, <3>2
  <2>2. pace' \in Spans
    BY <2>1, TimesAssumption DEF Larger, Spans
  <2> QED BY <2>2, <1>6, <1>e DEF ReadDelay, TypeOK, budget
<1>7. CASE Acquire
  <2>1. CASE \E r \in {"lease_timeout", "budget_exhausted"} : End(r)
    BY <2>1, <1>7, <1>r DEF Acquire, Typed, TypeOK, domain, budget
  <2>2. CASE held' = Host /\ pc' = "turn" /\ UNCHANGED <<call, rest>>
    BY <2>2, <1>7, <1>h DEF Acquire, TypeOK, call, domain, budget, Holding
  <2> QED BY <2>1, <2>2, <1>7 DEF Acquire
<1>8. CASE EnterTurn
  <2>1. CASE \E r \in {"lease_timeout", "budget_exhausted"} : End(r)
    BY <2>1, <1>8, <1>r DEF EnterTurn, Typed, TypeOK, domain, budget
  <2>2. CASE rest' = gate[Host] /\ pc' = "pace" /\ UNCHANGED <<call, held>>
    BY <2>2, <1>8, <1>h DEF EnterTurn, TypeOK, call, domain, budget, Holding
  <2> QED BY <2>1, <2>2, <1>8 DEF EnterTurn
<1>9. CASE TakeTurn
  BY <1>9, <1>h DEF TakeTurn, TypeOK, budget, Holding
<1>10. CASE Send
  <2>1. used' \in [Levels -> Nat]
    BY <1>10 DEF Send, TypeOK
  <2>2. acct' \in [attempts : Nat, retries : Nat, hops : Nat, charges : Nat]
    <3>1. acct.charges + 1 \in Nat /\ acct.attempts + 1 \in Nat
      BY DEF TypeOK
    <3>2. acct' = [acct EXCEPT !.charges = acct.charges + 1,
                               !.attempts = acct.attempts + 1]
      BY <1>10 DEF Send
    <3> QED BY <3>1, <3>2 DEF TypeOK
  <2> QED BY <2>1, <2>2, <1>10 DEF Send, TypeOK, domain, Holding
<1>11. CASE Refuse
  BY <1>11, <1>r DEF Refuse, Typed, TypeOK, domain, budget
<1>s. ASSUME NEW d \in Spans, NEW step \in {"rest", "obey"}, Sleep(d, step),
             UNCHANGED <<budget, turn>>, UNCHANGED robots,
             gate' \in [Hosts -> Spans], banned' \in [Hosts -> Spans]
      PROVE  TypeOK'
  BY <1>s DEF Sleep, TypeOK, budget, call, Holding
<1>b. Backoff \in Spans
  BY TimesAssumption DEF Spans
<1>12. CASE Fault
  <2>1. CASE \E r \in Faults : End(r)
    BY <2>1, <1>12, <1>r DEF Fault, Typed, TypeOK, domain, budget
  <2>2. CASE Sleep(Backoff, "rest")
    BY <2>2, <1>12, <1>s, <1>b DEF Fault, TypeOK, domain, budget
  <2> QED BY <2>1, <2>2, <1>12 DEF Fault
<1>13. CASE Broken
  BY <1>13, <1>r DEF Broken, TypeOK, domain, budget
<1>14. CASE Busy
  <2>1. CASE \E r \in {"http_5xx", "budget_exhausted"} : End(r)
    BY <2>1, <1>14, <1>r DEF Busy, Typed, Verdicts, TypeOK, domain, budget
  <2>2. CASE Sleep(Backoff, "rest")
    BY <2>2, <1>14, <1>s, <1>b DEF Busy, TypeOK, domain, budget
  <2> QED BY <2>1, <2>2, <1>14 DEF Busy
<1>15. CASE ToldToWait
  <2> PICK d \in RetryAfters :
       /\ gate' = [gate EXCEPT ![Host] = Larger(@, d)]
       /\ banned' = [banned EXCEPT ![Host] = Larger(@, d)]
       /\ \/ End("http_5xx") \/ End("budget_exhausted") \/ Sleep(d, "obey")
    BY <1>15 DEF ToldToWait
  <2>1. d \in Spans
    BY TimesAssumption DEF Spans
  <2>2. gate' \in [Hosts -> Spans] /\ banned' \in [Hosts -> Spans]
    BY <2>1, <1>h DEF TypeOK, Larger, Spans
  <2>3. CASE \E r \in {"http_5xx", "budget_exhausted"} : End(r)
    BY <2>2, <2>3, <1>15, <1>r DEF ToldToWait, Typed, Verdicts, TypeOK, budget
  <2>4. CASE Sleep(d, "obey")
    BY <2>1, <2>2, <2>4, <1>15, <1>s DEF ToldToWait, budget
  <2> QED BY <2>3, <2>4
<1>16. CASE Retry
  <2>1. tries' = tries + 1
    BY <1>16 DEF Retry
  <2>2. acct' \in [attempts : Nat, retries : Nat, hops : Nat, charges : Nat]
    BY <1>16 DEF Retry, TypeOK
  <2> QED BY <2>2, <1>16 DEF Retry, TypeOK, budget, domain, Holding
<1>17. CASE Conclude
  BY <1>17, <1>r DEF Conclude, Typed, TypeOK, domain, budget
<1>18. CASE Redirect
  <2>1. CASE End("http_5xx")
    BY <2>1, <1>18, <1>r DEF Redirect, Typed, Verdicts, TypeOK, domain, budget
  <2>2. CASE acct' = [acct EXCEPT !.hops = @ + 1]
    <3>1. acct' \in [attempts : Nat, retries : Nat, hops : Nat, charges : Nat]
      BY <2>2 DEF TypeOK
    <3> QED BY <2>1, <3>1, <1>18 DEF Redirect, TypeOK, domain, budget
  <2> QED BY <2>1, <2>2, <1>18 DEF Redirect
<1>19. CASE Return
  BY <1>19 DEF Return, TypeOK, budget, domain
<1>20. CASE Tick
  <2>1. spent' \in [Levels -> Nat]
    BY <1>20 DEF Tick, TypeOK, Older
  <2>2. gate' \in [Hosts -> Spans] /\ banned' \in [Hosts -> Spans] /\ rest' \in Spans
    <3>1. \A t \in Spans : Nearer(t) \in Spans
      BY TimesAssumption DEF Nearer, Spans
    <3> QED BY <3>1, <1>20 DEF Tick, TypeOK
  <2>3. robots' \in [Hosts -> RobotsEntries \cup {None}]
    BY <1>20 DEF Tick, TypeOK
  <2> QED BY <2>1, <2>2, <2>3, <1>20 DEF Tick, TypeOK, call
<1>21. CASE UNCHANGED vars
  BY <1>21 DEF vars, budget, domain, call, TypeOK
<1> QED
  BY <1>1, <1>2, <1>3, <1>4, <1>5, <1>6, <1>7, <1>8, <1>9, <1>10, <1>11, <1>12,
     <1>13, <1>14, <1>15, <1>16, <1>17, <1>18, <1>19, <1>20, <1>21
     DEF Next, Fetching

(* Types of the budget, the domain's gate, the robots cache and the call.  *)
THEOREM TypeCorrect == Spec => []TypeOK
BY TypesInit, TypesNext, PTL DEF Spec

-----------------------------------------------------------------------------
(* The slot and the robots rules.                                          *)

LEMMA LeasedNext ==
  ASSUME TypeOK, AskedAndLeased, [Next]_vars PROVE AskedAndLeased'
<1> USE DEF AskedAndLeased, Holding, Host
<1>r. ASSUME NEW r, End(r) PROVE AskedAndLeased'
  BY <1>r DEF End
<1>s. ASSUME NEW d, NEW step \in {"rest", "obey"}, pc = "reply", Sleep(d, step)
      PROVE  AskedAndLeased'
  BY <1>s DEF Sleep, call
<1>1. CASE Push \/ Pop \/ Begin \/ Tick \/ UNCHANGED vars
  BY <1>1 DEF Push, Pop, Begin, Tick, vars, call
<1>2. CASE Probe \/ ReadDelay \/ TakeTurn \/ Send \/ Retry \/ Return
  BY <1>2 DEF Probe, ReadDelay, TakeTurn, Send, Retry, Return, call
<1>3. CASE CheckRobots
  BY <1>3, <1>r DEF CheckRobots
<1>4. CASE Acquire \/ EnterTurn
  BY <1>4, <1>r DEF Acquire, EnterTurn, call
<1>5. CASE Refuse \/ Broken \/ Conclude
  BY <1>5, <1>r DEF Refuse, Broken, Conclude
<1>6. CASE Fault \/ Busy \/ ToldToWait
  BY <1>6, <1>r, <1>s DEF Fault, Busy, ToldToWait
<1>7. CASE Redirect
  BY <1>7, <1>r DEF Redirect
<1> QED
  BY <1>1, <1>2, <1>3, <1>4, <1>5, <1>6, <1>7 DEF Next, Fetching

-----------------------------------------------------------------------------
(* What a call costs.                                                      *)

LEMMA CostsNext ==
  ASSUME TypeOK, OneOutcome, CostsAddUp, [Next]_vars
  PROVE  OneOutcome' /\ CostsAddUp'
<1> USE DEF OneOutcome, CostsAddUp, Asking, Answered, Open
<1>n. None \notin Typed \cup {"untyped"}
  BY UrlsAssumption
<1>r. ASSUME NEW r \in Typed \cup {"untyped"}, End(r), UNCHANGED budget,
             r = "ok" => pc = "reply", pc # "ready"
      PROVE  OneOutcome' /\ CostsAddUp'
  BY <1>r, <1>n DEF End, budget
<1>s. ASSUME NEW d, NEW step \in {"rest", "obey"}, pc = "reply", Sleep(d, step),
             UNCHANGED budget
      PROVE  OneOutcome' /\ CostsAddUp'
  BY <1>s DEF Sleep, call, budget
<1>o. "ok" \in Typed /\ "robots_denied" \in Typed /\ "lease_timeout" \in Typed
      /\ "budget_exhausted" \in Typed /\ "http_5xx" \in Typed
      /\ Faults \subseteq Typed /\ Verdicts \subseteq Typed /\ "ok" \notin Faults
  BY DEF Typed, Faults, Verdicts
<1>1. CASE Push
  <2>0. depth \in Nat /\ depth < Depth /\ depth' = depth + 1 /\ Depth \in Nat
    BY <1>1, LimitsAssumption DEF Push, TypeOK
  <2>1. \A i \in 1..depth : i \in Levels /\ i # depth + 1
    BY <2>0 DEF Levels
  <2>2. depth + 1 \in Levels /\ 1..depth' = 1..depth \cup {depth + 1}
    BY <2>0 DEF Levels
  <2>3. used'[depth + 1] = 0 /\ \A i \in 1..depth : used'[i] = used[i] /\ used[i] \in Nat
    BY <2>1, <2>2, <1>1 DEF Push, TypeOK
  <2>4. MaxRequests[depth + 1] \in Nat
    BY <2>2, LimitsAssumption
  <2>5. \A i \in 1..depth' : used'[i] <= MaxRequests[i]
    BY <2>2, <2>3, <2>4, <1>1 DEF Push
  <2>6. \A i, j \in 1..depth' : i <= j => used'[j] <= used'[i]
    <3>1. SUFFICES ASSUME NEW i \in 1..depth', NEW j \in 1..depth', i <= j
                   PROVE  used'[j] <= used'[i]
      OBVIOUS
    <3>2. CASE j = depth + 1
      <4>1. used'[i] \in Nat
        BY <2>2, <2>3
      <4> QED BY <4>1, <3>2, <2>3
    <3>3. CASE j \in 1..depth
      <4>1. i \in 1..depth
        BY <3>1, <3>3, <2>0
      <4> QED BY <4>1, <3>1, <3>3, <2>3
    <3> QED BY <2>2, <3>2, <3>3
  <2> QED BY <2>5, <2>6, <1>1 DEF Push, call
<1>2. CASE Pop
  <2>1. 1..depth' \subseteq 1..depth /\ \A i \in 1..depth' : i # depth
    BY <1>2 DEF Pop, TypeOK
  <2>2. \A i \in 1..depth' : used'[i] = used[i]
    BY <2>1, <1>2 DEF Pop, TypeOK, Levels
  <2> QED BY <2>1, <2>2, <1>2 DEF Pop, call
<1>3. CASE Begin
  <2>1. \A i \in Open : used[i] \in Nat
    BY LimitsAssumption DEF TypeOK, Levels
  <2>2. acct' = NoCost /\ pc' \in {"robots", "probe"}
        /\ UNCHANGED <<depth, used, result>>
    BY <1>3 DEF Begin, budget
  <2> QED BY <2>1, <2>2, <1>3, <1>n, <1>o DEF Begin, NoCost
<1>4. CASE Send
  <2>1. acct'.attempts = acct.attempts + 1 /\ acct'.charges = acct.charges + 1
        /\ acct'.retries = acct.retries /\ acct'.hops = acct.hops
    BY <1>4 DEF Send, TypeOK
  <2>2. acct.attempts \in Nat /\ acct.charges \in Nat /\ acct.retries \in Nat
        /\ acct.hops \in Nat
    BY DEF TypeOK
  <2>3. \A i \in 1..depth : i \in Levels /\ used[i] \in Nat /\ MaxRequests[i] \in Nat
                          /\ used'[i] = used[i] + 1
    BY <1>4, LimitsAssumption DEF Send, TypeOK, Levels
  <2>4. depth' = depth /\ pc = "charge" /\ pc' = "reply" /\ result' = result
    BY <1>4 DEF Send
  <2>5. \A i \in 1..depth : used'[i] <= MaxRequests[i]
    BY <2>3, <1>4 DEF Send, Refused
  <2>6. \A i, j \in 1..depth : i <= j => used'[j] <= used'[i]
    BY <2>3
  <2>7. \A i \in 1..depth : acct'.attempts <= used'[i]
    BY <2>1, <2>2, <2>3, <2>4
  <2>8. acct'.attempts = 1 + acct'.retries + acct'.hops
    BY <2>1, <2>2, <2>4
  <2> QED BY <2>1, <2>2, <2>4, <2>5, <2>6, <2>7, <2>8
<1>5. CASE Retry
  <2>1. acct'.attempts = acct.attempts /\ acct'.charges = acct.charges
        /\ acct'.retries = acct.retries + 1 /\ acct'.hops = acct.hops
    BY <1>5 DEF Retry, TypeOK
  <2>2. acct.attempts \in Nat /\ acct.retries \in Nat /\ acct.hops \in Nat
    BY DEF TypeOK
  <2>3. pc \in {"rest", "obey"} /\ pc' = "charge" /\ UNCHANGED <<budget, result>>
    BY <1>5 DEF Retry
  <2> QED BY <2>1, <2>2, <2>3, <1>n, <1>o DEF budget
<1>6. CASE Redirect
  <2>1. CASE End("http_5xx")
    BY <2>1, <1>6, <1>r, <1>o DEF Redirect
  <2>2. CASE acct' = [acct EXCEPT !.hops = @ + 1] /\ pc' = "robots" /\ UNCHANGED result
    <3>1. acct'.attempts = acct.attempts /\ acct'.charges = acct.charges
          /\ acct'.retries = acct.retries /\ acct'.hops = acct.hops + 1
      BY <2>2 DEF TypeOK
    <3>2. acct.attempts \in Nat /\ acct.retries \in Nat /\ acct.hops \in Nat
      BY DEF TypeOK
    <3> QED BY <3>1, <3>2, <2>2, <1>6, <1>n, <1>o DEF Redirect, budget
  <2> QED BY <2>1, <2>2, <1>6 DEF Redirect
<1>7. CASE Probe \/ ReadDelay \/ TakeTurn
  BY <1>7 DEF Probe, ReadDelay, TakeTurn, call, budget
<1>8. CASE CheckRobots
  BY <1>8, <1>r, <1>o DEF CheckRobots, budget
<1>9. CASE Acquire \/ EnterTurn
  <2>1. CASE \E r \in {"lease_timeout", "budget_exhausted"} : End(r)
    BY <2>1, <1>9, <1>r, <1>o DEF Acquire, EnterTurn
  <2>2. CASE pc' \in {"turn", "pace"} /\ UNCHANGED call
    BY <2>2, <1>9 DEF Acquire, EnterTurn, call, budget
  <2> QED BY <2>1, <2>2, <1>9 DEF Acquire, EnterTurn
<1>10. CASE Refuse \/ Broken
  BY <1>10, <1>r, <1>o DEF Refuse, Broken
<1>11. CASE Conclude
  BY <1>11, <1>r, <1>o DEF Conclude
<1>12. CASE Fault \/ Busy
  BY <1>12, <1>r, <1>s, <1>o DEF Fault, Busy
<1>13. CASE ToldToWait
  BY <1>13, <1>r, <1>s, <1>o DEF ToldToWait
<1>14. CASE Return
  BY <1>14, <1>n, <1>o DEF Return, budget
<1>15. CASE Tick \/ UNCHANGED vars
  BY <1>15 DEF Tick, vars, call, budget
<1> QED
  BY <1>1, <1>2, <1>3, <1>4, <1>5, <1>6, <1>7, <1>8, <1>9, <1>10, <1>11, <1>12,
     <1>13, <1>14, <1>15 DEF Next, Fetching

-----------------------------------------------------------------------------
(* How many attempts.                                                      *)

LEMMA TriesNext ==
  ASSUME TypeOK, AttemptsBounded, TriesCounted, [Next]_vars
  PROVE  AttemptsBounded' /\ TriesCounted'
<1> DEFINE B(h) == MaxAttempts * h
<1> USE DEF AttemptsBounded, TriesCounted, Asking, Answered
<1>t. /\ acct.attempts \in Nat /\ acct.hops \in Nat /\ tries \in Nat
      /\ MaxAttempts \in Nat /\ 1 <= MaxAttempts /\ MaxRedirects \in Nat
  BY LimitsAssumption DEF TypeOK
<1>b. ASSUME NEW h \in Nat
      PROVE  B(h) \in Nat /\ B(h + 1) = B(h) + MaxAttempts /\ B(0) = 0
  BY <1>t
<1>c. acct.attempts <= B(acct.hops + 1) /\ acct.hops <= MaxRedirects
  OBVIOUS
<1>r. ASSUME NEW r, End(r) PROVE AttemptsBounded' /\ TriesCounted'
  BY <1>r, <1>c DEF End
<1>s. ASSUME NEW d, NEW step \in {"rest", "obey"}, pc = "reply", Sleep(d, step),
             tries < MaxAttempts
      PROVE  AttemptsBounded' /\ TriesCounted'
  BY <1>s DEF Sleep, call
<1>1. CASE Push \/ Pop \/ Probe \/ ReadDelay \/ Return \/ Tick \/ UNCHANGED vars
  BY <1>1 DEF Push, Pop, Probe, ReadDelay, Return, Tick, vars, call
<1>2. CASE Begin
  <2>1. acct'.attempts = 0 /\ acct'.hops = 0 /\ pc' \in {"robots", "probe"}
    BY <1>2 DEF Begin, NoCost
  <2>2. B(acct'.hops) = 0 /\ B(acct'.hops + 1) = MaxAttempts
    BY <2>1, <1>b, <1>t
  <2> QED BY <2>1, <2>2, <1>t
<1>3. CASE CheckRobots
  BY <1>3, <1>r DEF CheckRobots
<1>4. CASE Acquire \/ EnterTurn
  BY <1>4, <1>r DEF Acquire, EnterTurn, call
<1>5. CASE TakeTurn
  <2>1. acct' = acct /\ tries' = 1 /\ pc = "pace" /\ pc' = "charge"
    BY <1>5 DEF TakeTurn
  <2>2. acct.attempts <= B(acct.hops) /\ B(acct.hops) \in Nat
    BY <2>1, <1>b, <1>t
  <2>3. acct.attempts < B(acct.hops) + 1
    BY <2>2, <1>t
  <2> QED BY <2>1, <2>3, <1>c, <1>t
<1>6. CASE Send
  <2>1. acct'.attempts = acct.attempts + 1 /\ acct'.hops = acct.hops /\ tries' = tries
        /\ pc = "charge" /\ pc' = "reply"
    BY <1>6 DEF Send, TypeOK
  <2>2. acct.attempts < B(acct.hops) + tries /\ tries <= MaxAttempts
        /\ B(acct.hops) \in Nat /\ B(acct.hops + 1) = B(acct.hops) + MaxAttempts
    BY <2>1, <1>b, <1>t
  <2>3. acct'.attempts <= B(acct.hops) + tries /\ acct'.attempts <= B(acct.hops + 1)
    BY <2>1, <2>2, <1>t
  <2> QED BY <2>1, <2>2, <2>3, <1>c
<1>7. CASE Retry
  <2>1. acct'.attempts = acct.attempts /\ acct'.hops = acct.hops /\ tries' = tries + 1
        /\ pc \in {"rest", "obey"} /\ pc' = "charge"
    BY <1>7 DEF Retry, TypeOK
  <2>2. acct.attempts <= B(acct.hops) + tries /\ B(acct.hops) \in Nat
    BY <2>1, <1>b, <1>t
  <2>3. acct.attempts < B(acct.hops) + (tries + 1)
    BY <2>2, <1>t
  <2>4. tries + 1 <= MaxAttempts
    BY <2>1, <1>t
  <2> QED BY <2>1, <2>3, <2>4, <1>c
<1>8. CASE Redirect
  <2>1. CASE End("http_5xx")
    BY <2>1, <1>r
  <2>2. CASE acct.hops < MaxRedirects /\ acct' = [acct EXCEPT !.hops = @ + 1] /\ pc' = "robots"
    <3>1. acct'.attempts = acct.attempts /\ acct'.hops = acct.hops + 1
      BY <2>2 DEF TypeOK
    <3>2. acct'.attempts <= B(acct'.hops) /\ B(acct'.hops) \in Nat
      BY <3>1, <1>b, <1>t, <1>c
    <3>3. B(acct'.hops + 1) = B(acct'.hops) + MaxAttempts
      BY <3>1, <1>b, <1>t
    <3>4. acct'.attempts <= B(acct'.hops + 1) /\ acct'.hops <= MaxRedirects
      BY <3>1, <3>2, <3>3, <2>2, <1>t
    <3> QED BY <3>2, <3>4, <2>2
  <2> QED BY <2>1, <2>2, <1>8 DEF Redirect
<1>9. CASE Refuse \/ Broken \/ Conclude
  BY <1>9, <1>r DEF Refuse, Broken, Conclude
<1>10. CASE Fault \/ Busy \/ ToldToWait
  BY <1>10, <1>r, <1>s DEF Fault, Busy, ToldToWait
<1> QED
  BY <1>1, <1>2, <1>3, <1>4, <1>5, <1>6, <1>7, <1>8, <1>9, <1>10 DEF Next, Fetching

-----------------------------------------------------------------------------
(* What Retry-After asks for.                                              *)

LEMMA BansNext ==
  ASSUME TypeOK, GateCoversBans, [Next]_vars PROVE GateCoversBans'
<1> USE DEF GateCoversBans, Host
<1>t. /\ \A h \in Hosts : gate[h] \in Nat /\ banned[h] \in Nat
      /\ rest \in Nat /\ pace \in Nat /\ Host \in Hosts
  BY ZeroIsASpan, HostIsTyped DEF TypeOK
<1>r. ASSUME NEW r, End(r), UNCHANGED <<gate, banned>> PROVE GateCoversBans'
  BY <1>r DEF End
<1>s. ASSUME pc = "reply", Sleep(Backoff, "rest"), UNCHANGED <<gate, banned>>
      PROVE  GateCoversBans'
  BY <1>s DEF Sleep, call
<1>1. CASE Push \/ Pop \/ Begin \/ Probe \/ ReadDelay \/ Return \/ UNCHANGED vars
  BY <1>1 DEF Push, Pop, Begin, Probe, ReadDelay, Return, vars, call, domain
<1>2. CASE CheckRobots
  BY <1>2, <1>r DEF CheckRobots
<1>3. CASE Acquire
  BY <1>3, <1>r DEF Acquire, call, domain
<1>4. CASE EnterTurn
  <2>1. CASE rest' = gate[Host] /\ pc' = "pace" /\ UNCHANGED <<call, held>>
    BY <2>1, <1>4, <1>t DEF EnterTurn, call, domain
  <2> QED BY <2>1, <1>4, <1>r DEF EnterTurn, domain
<1>5. CASE TakeTurn
  <2>1. banned[Host] = 0
    BY <1>5, <1>t DEF TakeTurn
  <2>2. gate' = [gate EXCEPT ![Host] = pace] /\ UNCHANGED <<banned, url>> /\ pc' = "charge"
    BY <1>5 DEF TakeTurn
  <2>3. \A h \in Hosts : banned[h] <= gate'[h]
    BY <2>1, <2>2, <1>t DEF TypeOK
  <2> QED BY <2>1, <2>2, <2>3
<1>6. CASE Send \/ Refuse \/ Broken \/ Conclude
  BY <1>6, <1>r DEF Send, Refuse, Broken, Conclude, domain
<1>7. CASE Fault \/ Busy
  BY <1>7, <1>r, <1>s DEF Fault, Busy, domain
<1>8. CASE ToldToWait
  <2> PICK d \in RetryAfters :
       /\ gate' = [gate EXCEPT ![Host] = Larger(@, d)]
       /\ banned' = [banned EXCEPT ![Host] = Larger(@, d)]
       /\ \/ End("http_5xx") \/ End("budget_exhausted") \/ Sleep(d, "obey")
    BY <1>8 DEF ToldToWait
  <2>1. d \in Nat
    BY TimesAssumption
  <2>2. banned[Host] = 0
    BY <1>8 DEF ToldToWait
  <2>3. banned'[Host] = d /\ gate'[Host] = Larger(gate[Host], d)
        /\ \A h \in Hosts \ {Host} : banned'[h] = banned[h] /\ gate'[h] = gate[h]
    BY <2>1, <2>2, <1>t DEF Larger, TypeOK
  <2>4. \A h \in Hosts : banned'[h] <= gate'[h]
    BY <2>1, <2>3, <1>t DEF Larger
  <2>5. CASE Sleep(d, "obey")
    <3>1. rest' = d /\ pc' = "obey" /\ url' = url
      BY <2>5 DEF Sleep, call
    <3> QED BY <3>1, <2>1, <2>3, <2>4
  <2>6. CASE pc' = "done"
    BY <2>4, <2>6
  <2> QED BY <2>5, <2>6 DEF End
<1>9. CASE Retry
  <2>1. pc' = "charge" /\ pc \in {"rest", "obey"} /\ rest = 0
        /\ UNCHANGED <<gate, banned, url>>
    BY <1>9 DEF Retry, domain
  <2>2. banned[Host] = 0
    BY <2>1, <1>t
  <2> QED BY <2>1, <2>2
<1>10. CASE Redirect
  BY <1>10, <1>r DEF Redirect, domain
<1>11. CASE Tick
  <2>1. \A m, n \in Nat : m <= n => Nearer(m) <= Nearer(n)
    BY DEF Nearer
  <2>2. Nearer(0) = 0
    BY DEF Nearer
  <2>3. /\ \A h \in Hosts : gate'[h] = Nearer(gate[h]) /\ banned'[h] = Nearer(banned[h])
        /\ rest' = Nearer(rest) /\ UNCHANGED <<pc, url>>
    BY <1>11 DEF Tick, call
  <2> QED BY <2>1, <2>2, <2>3, <1>t
<1> QED
  BY <1>1, <1>2, <1>3, <1>4, <1>5, <1>6, <1>7, <1>8, <1>9, <1>10, <1>11
     DEF Next, Fetching

-----------------------------------------------------------------------------
LEMMA FetchInvInit == ASSUME Init PROVE FetchInv
<1>1. TypeOK
  BY TypesInit
<1>2. acct.attempts = 0 /\ acct.hops = 0 /\ acct.charges = 0 /\ acct.retries = 0
  BY DEF Init, NoCost
<1>3. depth = 0 /\ pc = "ready" /\ held = None /\ result = None
      /\ \A h \in Hosts : banned[h] = 0 /\ gate[h] = 0
  BY DEF Init
<1>4. OneOutcome /\ CostsAddUp
  <2>1. Open = {}
    BY <1>3 DEF Open
  <2> QED BY <1>2, <1>3, <2>1, UrlsAssumption
          DEF OneOutcome, CostsAddUp, Answered, Asking, Typed, Verdicts
<1>5. AskedAndLeased /\ TriesCounted /\ GateCoversBans
  BY <1>3 DEF AskedAndLeased, TriesCounted, GateCoversBans, Holding, Asking, Answered
<1>6. AttemptsBounded
  BY <1>2, LimitsAssumption DEF AttemptsBounded
<1> QED BY <1>1, <1>4, <1>5, <1>6 DEF FetchInv

LEMMA FetchInvNext == ASSUME FetchInv, [Next]_vars PROVE FetchInv'
BY TypesNext, LeasedNext, CostsNext, TriesNext, BansNext DEF FetchInv

(* The inductive invariant: what a call has cost, what it holds and what   *)
(* it still has to wait for, at each of its steps.                         *)
THEOREM FetchInvHolds == Spec => []FetchInv
BY FetchInvInit, FetchInvNext, PTL DEF Spec

(* Accounting is exact and no scope is overspent, at any nesting depth.    *)
THEOREM AccountsAreExact == Spec => []CostsAddUp
BY FetchInvHolds, PTL DEF FetchInv

(* Requests go to allowed URLs only, under a slot of their own host.       *)
THEOREM RequestsAreAskedAndLeased == Spec => []AskedAndLeased
BY FetchInvHolds, PTL DEF FetchInv

(* One call makes at most MaxAttempts attempts for each of its URLs.       *)
THEOREM CallsAreBounded == Spec => []AttemptsBounded
BY FetchInvHolds, PTL DEF FetchInv

(* No request is sent before a Retry-After of its host has run out.        *)
THEOREM RetryAfterIsObeyed == Spec => RetryAfterObeyed
<1>1. FetchInv /\ [Next]_vars => [pc = "charge" /\ pc' = "reply" => banned[Host] = 0]_vars
  BY DEF FetchInv, GateCoversBans
<1> QED BY <1>1, FetchInvHolds, PTL DEF Spec, RetryAfterObeyed
=============================================================================
