------------------------------- MODULE Aliases -------------------------------
(***************************************************************************)
(* What a fetch of a target page says of its URL: fetch_target() of        *)
(* targetfetch.py turns the client's answer into an outcome, and           *)
(* adjudicate() of aliases.py decides from the outcome which URL is        *)
(* preferred, which others are aliases and which claims are conflicts.     *)
(*                                                                         *)
(* An answer of the client is its final URL, whether every hop was         *)
(* permanent, and the canonical tags of the page, in document order        *)
(* (NoUrl for one that is blank or resolves to nothing), or the class of   *)
(* its error with the HTTP status.                                         *)
(***************************************************************************)
EXTENDS Candidates

CONSTANTS Host,                     \* Host[u]: the registrable domain of u
          Migrations                \* the pairs of domains a rule allows

ErrorClasses == {"RobotsDenied", "HttpTimeout", "DnsFailure", "ServerError",
                 "LeaseUnavailable", "ResponseTooLarge", "UnexpectedContentType",
                 "EmptyResponse", "ClientError", "HttpError", "BudgetExhausted"}

NoError == "none"
NotChecked == "not_checked"

Answer(final, permanent, tags) ==
  [error |-> NoError, status |-> 200, final |-> final,
   permanent |-> permanent, tags |-> tags]
Failure(class, status) ==
  [error |-> class, status |-> status, final |-> NoUrl,
   permanent |-> FALSE, tags |-> <<>>]

-----------------------------------------------------------------------------
(* The outcome of one fetch.                                               *)

ClientStatus(status) ==
  CASE status \in {401, 403} -> "auth_required"
    [] status = 402          -> "paywalled"
    [] status = 404          -> "not_found"
    [] status = 410          -> "gone"
    [] OTHER                 -> "unreachable"

AccessStatusFor(class, status) ==
  CASE class = "BudgetExhausted" -> NotChecked
    [] class = "RobotsDenied"    -> "robots_denied"
    [] class = "HttpTimeout"     -> "timeout"
    [] class = "ServerError"     -> "server_error"
    [] class = "ClientError"     -> ClientStatus(status)
    [] OTHER                     -> "unreachable"

AccessStatuses == {NotChecked, "ok", "redirected", "not_found", "gone",
                   "auth_required", "paywalled", "server_error", "timeout",
                   "robots_denied", "unreachable"}

Outcome(url, answer) ==
  [requested |-> url,
   access    |-> IF answer.error # NoError
                 THEN AccessStatusFor(answer.error, answer.status)
                 ELSE IF answer.permanent THEN "redirected" ELSE "ok",
   final     |-> answer.final,
   permanent |-> answer.permanent,
   tags      |-> answer.tags]

Unfetched(url) == Outcome(url, Failure("BudgetExhausted", 0))

Outcomes == [requested : Urls, access : AccessStatuses, final : Urls \cup {NoUrl},
             permanent : BOOLEAN, tags : Seq(Urls \cup {NoUrl})]

-----------------------------------------------------------------------------
(* The evidence table.                                                     *)

Alias(url, kind) == [url |-> url, kind |-> kind]
Conflict(reason, identity, proposed) ==
  [reason |-> reason, identity |-> identity, proposed |-> proposed]

Equivalent(left, right) ==
  left # NoUrl /\ right # NoUrl /\ Canon[left] # NoUrl /\ Canon[left] = Canon[right]

SameDomain(left, right) == Host[left] = Host[right]

(* Mutant: any final location moves the preferred URL.                     *)
RedirectedAnyhow(current, outcome) == outcome.final \notin {NoUrl, current}

(* A chain of permanent redirects moves the preferred URL; one temporary   *)
(* hop in it and nothing moves.                                            *)
Redirected(current, outcome) ==
  outcome.final \notin {NoUrl, current} /\ outcome.permanent

(* The claims of the page's tags: spellings of one URL are one claim.      *)
Claims(tags) ==
  {i \in DOMAIN tags :
     \A j \in 1..(i - 1) : tags[i] # tags[j] /\ ~Equivalent(tags[i], tags[j])}

(* What the tags of the page claim of its preferred URL, in the order in   *)
(* which the trust tiers are tried: a verdict and the URL proposed.        *)
TagVerdict(current, outcome, robotsAllowed) ==
  LET tags == outcome.tags
      proposed == IF tags = <<>> THEN NoUrl ELSE tags[1]
      is(verdict) == [verdict |-> verdict, proposed |-> proposed]
  IN CASE tags = <<>> -> is("none")
       [] tags # <<>> /\ (\E i \in DOMAIN tags : tags[i] = NoUrl)
            -> [verdict |-> "malformed_or_unresolvable_canonical", proposed |-> NoUrl]
       [] OTHER ->
            IF Cardinality(Claims(tags)) > 1
            THEN [verdict |-> "multiple_conflicting_canonical_tags", proposed |-> NoUrl]
            ELSE IF Equivalent(proposed, current) THEN is("none")
            ELSE IF Equivalent(proposed, outcome.requested) /\ outcome.requested # current
            THEN is("circular_canonical_evidence")
            ELSE IF SameDomain(proposed, current)
            THEN is(IF robotsAllowed THEN "canonical_tag" ELSE "canonical_robots_not_verified")
            ELSE IF <<Host[current], Host[proposed]>> \in Migrations THEN is("domain_rule")
            ELSE is("cross_registrable_domain_without_rule")

TrustedTags == {"canonical_tag", "domain_rule"}

Adjudicate(identity, canonical, outcome, robotsAllowed) ==
  LET moved == Redirected(canonical, outcome)
      current == IF moved THEN outcome.final ELSE canonical
      tag == TagVerdict(current, outcome, robotsAllowed)
      trusted == tag.verdict \in TrustedTags
  IN [canonical |-> IF trusted THEN tag.proposed ELSE current,
      aliases   |-> (IF moved THEN {Alias(current, "permanent_redirect")} ELSE {})
                      \cup IF trusted THEN {Alias(tag.proposed, tag.verdict)} ELSE {},
      conflicts |-> IF trusted \/ tag.verdict = "none" THEN {}
                    ELSE {Conflict(tag.verdict, identity, tag.proposed)}]
=============================================================================
