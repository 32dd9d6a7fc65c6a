------------------------------ MODULE MCCellRun ------------------------------
(* An instance of CellRun for TLC: two cells of topic a, one of topic b;   *)
(* three targets, one of them with a second spelling, and a URL that       *)
(* cannot be canonicalized.                                                *)
EXTENDS CellRun

CONSTANTS k1, k2, k3, v1, kM, bad,
          tStory, tBoth, tFund, tTool, tTie,
          s1, s2, s3, s4, h1, h2, h3

MCUrls == {k1, k2, k3, v1, kM, bad}
MCCanon == [u \in MCUrls |-> CASE u = v1 -> k1 [] u = bad -> NoUrl [] OTHER -> u]
MCHost == [u \in MCUrls \cup {NoUrl} |->
             CASE u = kM -> h2 [] u \in {k2, k3} -> h3 [] OTHER -> h1]
MCMigrations == {<<h1, h2>>}
MCKeyOrder == [u \in MCUrls |-> CASE u = k1 -> 1 [] u = k2 -> 2 [] u = k3 -> 3
                                  [] u = v1 -> 4 [] u = kM -> 5 [] OTHER -> 6]

MCTexts == {tStory, tBoth, tFund, tTool, tTie, Unknown}
MCSays == [x \in MCTexts \cup MCUrls |->
             CASE x = tStory -> {"story", "detail", "bank", "lending"}
               [] x = tBoth  -> {"product", "user", "fund", "view", "bank", "shop", "firm", "result"}
               [] x = tFund  -> {"fund", "view", "firm", "result"}
               [] x = tTie   -> {"story", "detail", "bank", "shop", "lending"}
               [] x = tTool  -> {"tool", "product", "user"}
               [] OTHER      -> {}]

MCTopicOf == <<"a", "a", "b">>
MCSignals == [product |-> [terms |-> {"product", "user"}, min |-> 2],
              tool    |-> [terms |-> {"tool"}, min |-> 1],
              fund    |-> [terms |-> {"fund"}, min |-> 1],
              firm    |-> [terms |-> {"firm"}, min |-> 1],
              outcome |-> [terms |-> {"result"}, min |-> 1]]
MCComposites == [firm_outcome |-> {"firm", "outcome"}]
MCRules == << [all |-> {"product"}, none |-> {"tool"}, cell |-> 2],
              [all |-> {"fund"}, none |-> {}, cell |-> 3],
              [all |-> {"firm_outcome"}, none |-> {}, cell |-> 1],
              [all |-> {}, none |-> {}, cell |-> 0] >>
MCVocabulary ==
  << [require |-> {"story", "detail", "firm", "result"}, boost |-> {}, exclude |-> {"tool"}],
     [require |-> {"story", "detail", "product", "user"}, boost |-> {}, exclude |-> {"tool"}],
     [require |-> {"fund", "view"}, boost |-> {"product"}, exclude |-> {}] >>
MCFacetTerms == [industry |-> <<{"bank"}, {"shop"}>>,
                 business_function |-> <<{"lending"}, {"view"}>>,
                 use_case_type |-> <<{"user"}>>]
MCTarget == [industry |-> <<1, 1>>, business_function |-> <<2, 0>>, use_case_type |-> <<1>>]

MCSources == {s1, s2, s3, s4}
MCAuthority == [s \in MCSources |-> CASE s = s1 -> 1 [] s = s3 -> 2 [] s = s2 -> 3 [] OTHER -> 4]
MCSourcesOf == <<<<s1>>, <<s2, s3>>, <<s4>>>>
MCMaxCandidates == [s \in MCSources |-> 2]

Item(u, t) == [url |-> u, title |-> t, summary |-> t, publisher |-> Blank, date |-> Blank]
Bare(u, t) == [Item(u, t) EXCEPT !.summary = Blank]

MCDeliveries ==
  [s \in MCSources |->
     CASE s = s1 -> {<<Item(k1, tStory)>>, <<Item(k3, tTie)>>, <<Item(k2, tFund), Item(k3, tTool), Item(k1, tStory)>>}
       [] s = s2 -> {<<>>, <<Item(v1, tStory), Item(k2, tBoth)>>,
                     <<Bare(k1, tBoth), Item(k3, Unknown)>>}
       [] s = s3 -> {<<Item(k3, tBoth)>>, <<Bare(k1, tBoth), Item(bad, tBoth)>>}
       [] s = s4 -> {<<Item(k1, tFund)>>, <<Item(k2, tFund), Item(k1, tBoth)>>}]

MCReasons == {"dns_failure", "feed_parse_error"}
MCInfrastructureReasons == {"dns_failure", "budget_exhausted"}

MCAnswers ==
  [k \in MCUrls |->
     CASE k = k1 -> {Answer(kM, TRUE, <<>>), Answer(kM, FALSE, <<k1>>),
                     Answer(k1, FALSE, <<kM, kM>>)}
       [] k = k2 -> {Failure("ClientError", 404), Answer(k2, FALSE, <<kM, k3>>),
                     Answer(kM, TRUE, <<k2>>), Answer(k2, FALSE, <<k3>>)}
       [] OTHER -> {Answer(k, FALSE, <<kM>>), Answer(k, FALSE, <<NoUrl>>)}]

MCRegimes ==
  { [mode |-> "harvest", cells |-> {1, 2, 3}, caps |-> NoCaps, enrich |-> TRUE],
    [mode |-> "harvest", cells |-> {1, 2}, caps |-> NoCaps, enrich |-> TRUE],
    [mode |-> "smoke", cells |-> {1, 2, 3}, enrich |-> FALSE,
     caps |-> [candidates |-> 2, accepted |-> 1]],
    [mode |-> "harvest", cells |-> {1, 2, 3}, enrich |-> TRUE,
     caps |-> [candidates |-> 2, accepted |-> 1]] }
MCCells == {1, 2, 3}
=============================================================================
