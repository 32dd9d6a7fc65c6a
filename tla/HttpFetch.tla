----------------------------- MODULE HttpFetch -----------------------------
(***************************************************************************)
(* HttpClient.get() and preflight() of src/src/harvest/httpclient.py over  *)
(* the nested scopes of src/src/harvest/budget.py: one client fetching one *)
(* URL after another, with robots rules, the domain's slot and gate,       *)
(* retries, redirects and the accounting of each call.                     *)
(*                                                                         *)
(* The contention of other processes is that of DomainSlots and PacingGate *)
(* and shows here only as a lease or a turn that is not to be had in time. *)
(* Times are relative to now and a Tick brings each one step nearer; a     *)
(* response matters as far as get() branches on it.                        *)
(***************************************************************************)
EXTENDS Naturals, FiniteSets

CONSTANTS Urls, Hosts, HostOf, None,
          Depth,         \* how deep budget scopes nest (run, cell, adapter)
          MaxRequests, MaxSeconds,  \* each level's limits
          MaxAttempts, MaxRedirects, Backoff,
          Floor,         \* min_interval_sec of the domain policy
          Delays,        \* the Crawl-delay values a robots.txt may give
          RetryAfters,   \* the Retry-After values a server may send
          Horizon        \* no time lies further ahead than this

Levels == 1..Depth

(* How a call ends: the reasons of HttpError and BudgetExhausted, or a     *)
(* Response ("ok").                                                        *)
Faults  == {"http_timeout", "dns_failure", "http_5xx"}
Verdicts == {"ok", "empty_response", "unexpected_content_type",
             "response_too_large", "http_4xx", "http_5xx"}
Typed   == Faults \cup Verdicts \cup
           {"robots_denied", "lease_timeout", "budget_exhausted"}

ASSUME UrlsAssumption ==
         /\ HostOf \in [Urls -> Hosts] /\ None \notin Urls \cup Hosts
         /\ None \notin [may : SUBSET Urls, delay : Delays \cup {0}]
         /\ None \notin Typed \cup {"untyped"}
ASSUME LimitsAssumption ==
         /\ Depth \in Nat
         /\ MaxRequests \in [Levels -> Nat] /\ MaxSeconds \in [Levels -> Nat]
         /\ MaxAttempts \in Nat \ {0} /\ MaxRedirects \in Nat
ASSUME TimesAssumption ==
         /\ Horizon \in Nat
         /\ Backoff \in 0..Horizon /\ Floor \in 0..Horizon
         /\ Delays \subseteq 0..Horizon /\ RetryAfters \subseteq 0..Horizon

VARIABLES
  depth,     \* how many budget scopes are open
  used,      \* used[i]: requests charged to the scope at level i
  spent,     \* spent[i]: seconds since it was opened, up to one past its limit
  robots,    \* robots[h]: the cached rules of host h, or None
  gate,      \* gate[h]: how long next_allowed_at of h still makes callers wait
  pc,        \* what the call does next; "ready" between calls
  caller,    \* "get" or "preflight"
  url,       \* current: the URL being fetched
  seen,      \* the URLs redirected from, without the order
  permanent, \* permanent_only
  tries,     \* attempt
  pace,      \* the interval of the lease in use
  rest,      \* what is left of a sleep
  held,      \* the host whose slot is held, or None
  acct,      \* the call's private accounting
  result,    \* how the call ended, or None
  cleared,   \* the URL that robots rules last allowed in this call (history)
  turn,      \* whether a turn was taken that no request has used (history)
  banned     \* banned[h]: what is left of the Retry-Afters of h (history)

budget == <<depth, used, spent>>
domain == <<robots, gate, banned>>
call   == <<caller, url, seen, permanent, tries, pace, acct, result, cleared>>
vars   == <<budget, domain, turn, call, pc, rest, held>>

RobotsEntries == [may : SUBSET Urls, delay : Delays \cup {0}]
Holding == {"turn", "pace", "charge", "reply", "rest", "obey"}
Asking  == {"probe", "robots", "delay", "lease", "turn", "pace", "charge"}
Answered == {"reply", "rest", "obey"}
Spans   == 0..Horizon
NoCost  == [attempts |-> 0, retries |-> 0, hops |-> 0, charges |-> 0]

TypeOK ==
  /\ depth     \in 0..Depth
  /\ used      \in [Levels -> Nat]
  /\ spent     \in [Levels -> Nat]
  /\ robots    \in [Hosts -> RobotsEntries \cup {None}]
  /\ gate      \in [Hosts -> Spans]
  /\ pc        \in Holding \cup {"ready", "probe", "robots", "delay", "lease", "done"}
  /\ caller    \in {"get", "preflight"}
  /\ url       \in Urls
  /\ seen      \subseteq Urls
  /\ permanent \in BOOLEAN
  /\ tries     \in Nat
  /\ pace      \in Spans
  /\ rest      \in Spans
  /\ held      \in Hosts \cup {None}
  /\ acct      \in [attempts : Nat, retries : Nat, hops : Nat, charges : Nat]
  /\ result    \in Typed \cup {"untyped", None}
  /\ cleared   \in Urls \cup {None}
  /\ turn      \in BOOLEAN
  /\ banned    \in [Hosts -> Spans]

Init ==
  /\ depth = 0
  /\ used = [i \in Levels |-> 0] /\ spent = [i \in Levels |-> 0]
  /\ robots = [h \in Hosts |-> None]
  /\ gate = [h \in Hosts |-> 0]
  /\ pc = "ready" /\ caller = "get" /\ url \in Urls
  /\ seen = {} /\ permanent = TRUE /\ tries = 1 /\ pace = 0
  /\ rest = 0 /\ held = None /\ acct = NoCost /\ result = None /\ cleared = None
  /\ turn = FALSE /\ banned = [h \in Hosts |-> 0]

Larger(a, b) == IF a >= b THEN a ELSE b
Host == HostOf[url]

-----------------------------------------------------------------------------
(* RequestBudget                                                           *)

Open == 1..depth

(* check_time() raises.                                                    *)
TimeIsUp == \E i \in Open : spent[i] > MaxSeconds[i]

WouldExceed(d) == \E i \in Open : spent[i] + d > MaxSeconds[i]

Push ==
  /\ pc = "ready" /\ depth < Depth
  /\ depth' = depth + 1
  /\ used'  = [used EXCEPT ![depth + 1] = 0]
  /\ spent' = [spent EXCEPT ![depth + 1] = 0]
  /\ UNCHANGED <<domain, turn, call, pc, rest, held>>

Pop ==
  /\ pc = "ready" /\ depth > 0
  /\ depth' = depth - 1
  /\ used'  = [used EXCEPT ![depth] = 0]
  /\ spent' = [spent EXCEPT ![depth] = 0]
  /\ UNCHANGED <<domain, turn, call, pc, rest, held>>

-----------------------------------------------------------------------------
(* get() and preflight(): the call, and its robots rules.                  *)

Begin ==
  /\ pc = "ready"
  /\ \E u \in Urls, c \in {"get", "preflight"} :
       /\ url' = u /\ caller' = c
       /\ pc' = IF c = "get" THEN "robots" ELSE "probe"
  /\ seen' = {} /\ permanent' = TRUE /\ acct' = NoCost /\ cleared' = None
  /\ UNCHANGED <<budget, domain, turn, tries, pace, result, rest, held>>

(* Every way out of get() passes the `finally` that releases the slot.     *)
End(r) ==
  /\ result' = r /\ pc' = "done" /\ held' = None /\ rest' = 0
  /\ UNCHANGED <<caller, url, seen, permanent, tries, pace, acct, cleared>>

Return ==
  /\ pc = "done"
  /\ pc' = "ready" /\ result' = None
  /\ UNCHANGED <<budget, domain, turn, caller, url, seen, permanent, tries,
                 pace, acct, cleared, rest, held>>

(* Cached rules, or those of a fetch: what a robots.txt says, everything   *)
(* (a 4xx or one that cannot be parsed) or nothing (5xx, 3xx, no answer).  *)
RobotsNow(h) ==
  IF robots[h] # None THEN {robots[h]}
  ELSE LET pages == {u \in Urls : HostOf[u] = h} IN
       [may : SUBSET pages, delay : Delays] \cup [may : {pages, {}}, delay : {0}]

Remember(e) == robots' = [robots EXCEPT ![Host] = e]

Probe ==
  /\ pc = "probe"
  /\ \E e \in RobotsNow(Host) : Remember(e)
  /\ pc' = "robots"
  /\ UNCHANGED <<budget, gate, banned, turn, call, rest, held>>

CheckRobots ==
  /\ pc = "robots"
  /\ \E e \in RobotsNow(Host) :
       /\ Remember(e)
       /\ \/ /\ url \in e.may
             /\ cleared' = url /\ pc' = "delay"
             /\ UNCHANGED <<caller, url, seen, permanent, tries, pace, acct,
                            result, rest, held>>
          \/ url \notin e.may /\ End("robots_denied")
  /\ UNCHANGED <<budget, gate, banned, turn>>

ReadDelay ==
  /\ pc = "delay"
  /\ \E e \in RobotsNow(Host) :
       Remember(e) /\ pace' = Larger(Floor, e.delay)
  /\ pc' = "lease"
  /\ UNCHANGED <<budget, gate, banned, turn, caller, url, seen, permanent, tries,
                 acct, result, cleared, rest, held>>

-----------------------------------------------------------------------------
(* The domain's slot and its turn.                                         *)

Acquire ==
  /\ pc = "lease"
  /\ \/ held' = Host /\ pc' = "turn" /\ UNCHANGED <<call, rest>>
     \/ End("lease_timeout")
     \/ TimeIsUp /\ End("budget_exhausted")
  /\ UNCHANGED <<budget, domain, turn>>

EnterTurn ==
  /\ pc = "turn"
  /\ \/ End("lease_timeout")
     \/ gate[Host] > 0 /\ WouldExceed(gate[Host]) /\ End("budget_exhausted")
     \/ /\ gate[Host] = 0 \/ ~WouldExceed(gate[Host])
        /\ rest' = gate[Host] /\ pc' = "pace"
        /\ UNCHANGED <<call, held>>
  /\ UNCHANGED <<budget, domain, turn>>

TakeTurn ==
  /\ pc = "pace" /\ rest = 0
  /\ gate' = [gate EXCEPT ![Host] = pace]
  /\ tries' = 1 /\ turn' = TRUE /\ pc' = "charge"
  /\ UNCHANGED <<budget, robots, banned, caller, url, seen, permanent,
                 pace, acct, result, cleared, rest, held>>

-----------------------------------------------------------------------------
(* _attempt(): charge, send, and act on what comes back.                   *)

Refused == TimeIsUp \/ \E i \in Open : used[i] + 1 > MaxRequests[i]

(* Mutant: only the innermost scope is charged.                            *)
SendChargesInner ==
  /\ pc = "charge" /\ ~Refused
  /\ used' = [i \in Levels |-> IF i = depth THEN used[i] + 1 ELSE used[i]]
  /\ acct' = [acct EXCEPT !.charges = @ + 1, !.attempts = @ + 1]
  /\ turn' = FALSE
  /\ pc' = "reply"
  /\ UNCHANGED <<depth, spent, domain, caller, url, seen, permanent, tries, pace,
                 result, cleared, rest, held>>

(* charge_request(), and the request goes out.                             *)
Send ==
  /\ pc = "charge" /\ ~Refused
  /\ used' = [i \in Levels |-> IF i \in Open THEN used[i] + 1 ELSE used[i]]
  /\ acct' = [acct EXCEPT !.charges = @ + 1, !.attempts = @ + 1]
  /\ turn' = FALSE
  /\ pc' = "reply"
  /\ UNCHANGED <<depth, spent, domain, caller, url, seen, permanent, tries, pace,
                 result, cleared, rest, held>>

(* Mutant: an exhausted budget is waited for.                              *)
RefuseNever == pc = "charge" /\ Refused /\ UNCHANGED vars

Refuse ==
  /\ pc = "charge" /\ Refused
  /\ End("budget_exhausted")
  /\ UNCHANGED <<budget, domain, turn>>

Sleep(d, step) == rest' = d /\ pc' = step /\ UNCHANGED <<call, held>>

(* A fault of transport that the opener translates.                        *)
Fault ==
  /\ pc = "reply"
  /\ \/ tries >= MaxAttempts /\ \E f \in Faults : End(f)
     \/ tries < MaxAttempts /\ Sleep(Backoff, "rest")
  /\ UNCHANGED <<budget, domain, turn>>

(* A fault it does not: a connection lost before the status line, or a     *)
(* body that stops coming while _read_capped() reads it.                   *)
Broken ==
  /\ pc = "reply"
  /\ End("untyped")
  /\ UNCHANGED <<budget, domain, turn>>

(* A status of retry_on_status without Retry-After.                        *)
Busy ==
  /\ pc = "reply"
  /\ \/ tries >= MaxAttempts /\ End("http_5xx")
     \/ tries < MaxAttempts /\ TimeIsUp /\ End("budget_exhausted")
     \/ tries < MaxAttempts /\ ~TimeIsUp /\ Sleep(Backoff, "rest")
  /\ UNCHANGED <<budget, domain, turn>>

(* Mutant: the last attempt does not penalize the domain.                  *)
ToldToWaitLast ==
  /\ pc = "reply"
  /\ \E d \in RetryAfters :
       /\ banned' = [banned EXCEPT ![Host] = Larger(@, d)]
       /\ \/ tries >= MaxAttempts /\ End("http_5xx") /\ UNCHANGED gate
          \/ /\ tries < MaxAttempts /\ Sleep(d, "obey")
             /\ gate' = [gate EXCEPT ![Host] = Larger(@, d)]
  /\ UNCHANGED <<budget, robots, turn>>

(* The same with Retry-After: penalize() the domain, and sleep as told.    *)
(* would_exceed_time() only leads to check_time(), which looks at now.     *)
ToldToWait ==
  /\ pc = "reply"
  /\ \E d \in RetryAfters :
       /\ gate' = [gate EXCEPT ![Host] = Larger(@, d)]
       /\ banned' = [banned EXCEPT ![Host] = Larger(@, d)]
       /\ \/ tries >= MaxAttempts /\ End("http_5xx")
          \/ tries < MaxAttempts /\ WouldExceed(d) /\ TimeIsUp /\ End("budget_exhausted")
          \/ tries < MaxAttempts /\ ~(WouldExceed(d) /\ TimeIsUp) /\ Sleep(d, "obey")
  /\ UNCHANGED <<budget, robots, turn>>

Retry ==
  /\ pc \in {"rest", "obey"} /\ rest = 0
  /\ acct' = [acct EXCEPT !.retries = @ + 1]
  /\ tries' = tries + 1 /\ pc' = "charge"
  /\ UNCHANGED <<budget, domain, turn, caller, url, seen, permanent, pace, result,
                 cleared, rest, held>>

(* An error that is not retried, a body, or what _get() finds wrong with it. *)
Conclude ==
  /\ pc = "reply"
  /\ \E r \in Verdicts : End(r)
  /\ UNCHANGED <<budget, domain, turn>>

(* Mutant: the target of a redirect on the same host is not asked about.   *)
RedirectUnasked ==
  /\ pc = "reply"
  /\ \/ End("http_5xx")
     \/ /\ acct.hops < MaxRedirects
        /\ \E u \in Urls \ seen, p \in BOOLEAN :
             url' = u /\ permanent' = (permanent /\ p)
        /\ seen' = seen \cup {url}
        /\ acct' = [acct EXCEPT !.hops = @ + 1]
        /\ pc' = "delay" /\ held' = None
        /\ UNCHANGED <<caller, tries, pace, result, cleared, rest>>
  /\ UNCHANGED <<budget, domain, turn>>

(* A redirect, with or without a Location, permanent or not.               *)
Redirect ==
  /\ pc = "reply"
  /\ \/ End("http_5xx")    \* no Location, too many, or one already seen
     \/ /\ acct.hops < MaxRedirects
        /\ \E u \in Urls \ seen, p \in BOOLEAN :
             url' = u /\ permanent' = (permanent /\ p)
        /\ seen' = seen \cup {url}
        /\ acct' = [acct EXCEPT !.hops = @ + 1]
        /\ pc' = "robots" /\ held' = None
        /\ UNCHANGED <<caller, tries, pace, result, cleared, rest>>
  /\ UNCHANGED <<budget, domain, turn>>

-----------------------------------------------------------------------------
Nearer(t) == IF t > 0 THEN t - 1 ELSE 0
Older(t, cap) == IF t < cap THEN t + 1 ELSE cap

(* Time passes, and a cached robots.txt may outlive its ttl_sec.           *)
Tick ==
  /\ spent'  = [i \in Levels |-> IF i \in Open THEN Older(spent[i], MaxSeconds[i] + 1)
                                               ELSE spent[i]]
  /\ gate'   = [h \in Hosts |-> Nearer(gate[h])]
  /\ banned' = [h \in Hosts |-> Nearer(banned[h])]
  /\ rest'   = Nearer(rest)
  /\ \E old \in SUBSET Hosts :
       robots' = [h \in Hosts |-> IF h \in old THEN None ELSE robots[h]]
  /\ UNCHANGED <<depth, used, turn, call, pc, held>>

Fetching == \/ Probe \/ CheckRobots \/ ReadDelay \/ Acquire \/ EnterTurn \/ TakeTurn
            \/ Send \/ Refuse \/ Fault \/ Broken \/ Busy \/ ToldToWait \/ Retry
            \/ Conclude \/ Redirect \/ Return

Next == Push \/ Pop \/ Begin \/ Fetching \/ Tick

Spec == Init /\ [][Next]_vars

(* Fairness: the process keeps running -- every request returns within its *)
(* timeout -- and time does not stand still.                               *)
FairSpec == Spec /\ WF_vars(Fetching) /\ WF_vars(Tick)
-----------------------------------------------------------------------------
(* What a fetch promises.                                                  *)

(* The accounting is exact, whichever way the call ends: every attempt was *)
(* charged, and is the first one of its URL, a retry or a followed         *)
(* redirect; a scope is charged for all that is charged inside it, and     *)
(* never beyond its limit (FetchAccounting; budget.py, "EVERY attempt      *)
(* decrements it").                                                        *)
CostsAddUp ==
  /\ acct.attempts = acct.charges
  /\ pc \in Answered \/ result = "ok"
       => acct.attempts = 1 + acct.retries + acct.hops
  /\ pc \in Asking => acct.attempts = acct.retries + acct.hops
  /\ pc # "ready" => \A i \in Open : acct.attempts <= used[i]
  /\ \A i \in Open : used[i] <= MaxRequests[i]
  /\ \A i, j \in Open : i <= j => used[j] <= used[i]

(* A request goes out only to a URL that the robots rules allowed in this  *)
(* call -- a redirect's target is asked for again -- and under a slot of   *)
(* its own host, and no slot is kept past the call or the redirect.        *)
AskedAndLeased ==
  /\ pc \in Holding \cup {"delay", "lease"} => cleared = url
  /\ held = IF pc \in Holding THEN Host ELSE None

(* No request goes to a host before the longest Retry-After it has sent is *)
(* over: not the retry, not a redirect back to it, not the next call.      *)
RetryAfterObeyed == [][pc = "charge" /\ pc' = "reply" => banned[Host] = 0]_vars

(* Attempts of one call are bounded, retries and redirects together.       *)
AttemptsBounded ==
  /\ acct.hops <= MaxRedirects
  /\ acct.attempts <= MaxAttempts * (acct.hops + 1)

(* What the above rests on: a call has a result exactly when it is over;   *)
(* how many attempts each URL may have had so far; and the shared gate, or *)
(* the sleep in progress, covers what is left of every Retry-After.        *)
OneOutcome == result # None <=> pc = "done"

TriesCounted ==
  /\ pc \in Asking \ {"charge"} => acct.attempts <= MaxAttempts * acct.hops
  /\ pc = "charge" => acct.attempts < MaxAttempts * acct.hops + tries
  /\ pc \in Answered => acct.attempts <= MaxAttempts * acct.hops + tries
  /\ pc \in {"charge", "reply"} => tries <= MaxAttempts
  /\ pc \in {"rest", "obey"} => tries < MaxAttempts

GateCoversBans ==
  /\ \A h \in Hosts : banned[h] <= gate[h]
  /\ pc \in {"pace", "obey"} => banned[Host] <= rest
  /\ pc \in {"charge", "reply", "rest"} => banned[Host] = 0

FetchInv ==
  /\ TypeOK       /\ OneOutcome      /\ CostsAddUp      /\ AskedAndLeased
  /\ TriesCounted /\ AttemptsBounded /\ GateCoversBans

(* get() comes back.                                                       *)
CallEnds == pc = "robots" ~> pc = "ready"

-----------------------------------------------------------------------------
(* What the code's own words say, and it does not do.                      *)

(* preflight() is "one bounded probe of a configured source. Never raises" *)
(* (httpclient.py:746): an error get() does not type passes it by.         *)
PreflightNeverRaises == ~(pc = "done" /\ caller = "preflight" /\ result = "untyped")

(* would_exceed_time() is there "so the client fails fast with a typed     *)
(* error instead of sleeping into an inevitable timeout" (budget.py:108).  *)
FailsFast == [][pc # "obey" /\ pc' = "obey" => ~WouldExceed(rest')]_vars

(* "Before each request a worker sleeps until that time, then pushes it    *)
(* forward by the effective interval" (domainlease.py:22).                 *)
EachRequestTakesATurn == [][pc = "charge" /\ pc' = "reply" => turn]_vars
=============================================================================
