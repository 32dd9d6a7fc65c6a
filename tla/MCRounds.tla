------------------------------ MODULE MCRounds ------------------------------
(* An instance of Rounds for TLC: two configured cells, three gaps of which *)
(* one has no source, two feeds, three pages.                              *)
EXTENDS Rounds

Feed(query, policy) == [source |-> "s1", base |-> "feed", query |-> query, policy |-> policy, mode |-> "index"]
Api(query, policy)  == [source |-> "s2", base |-> "api", query |-> query, policy |-> policy, mode |-> "index"]

Sorting == "sort-distinct-keys-stable"

MCRequestsOf ==
  << <<Feed(<<<<1, 1>>, <<2, 1>>>>, Sorting)>>,
     <<Feed(<<<<2, 1>>, <<1, 1>>>>, Sorting)>>,
     <<Api(<<<<1, 2>>, <<1, 1>>>>, Sorting)>>,
     <<Api(<<<<1, 1>>, <<1, 2>>>>, Sorting)>>,
     <<>>,
     <<Feed(<<>>, "preserve")>> >>
MCListing == [feed |-> << <<"a">>, <<"b">> >>, api |-> << <<"a/">>, <<"c">> >>]
MCCandidateKey == [u \in {"a", "a/", "b", "c"} |-> CASE u \in {"a", "a/"} -> 1 [] u = "b" -> 2 [] u = "c" -> 3]
MCGood == {1, 2, 3}
MCValues == << {1}, {2, 3, 4}, {1, 3} >>
MCPolicy == <<"priority", "standard", "standard", "standard", "record_only">>
MCTarget == <<1, 1, 2, 1, 0>>
MCGapLane == <<3, 4, 5, 6, 6>>
MCStats == [s \in 1..5 |-> [yield |-> 50, duplicates |-> IF s = 1 THEN 90 ELSE 0, rejections |-> 0]]
MCWeights == [gap |-> 30, tier |-> 20, yield |-> 15, duplicates |-> 10, rejections |-> 10,
              credible |-> 10, budget |-> 5]
=============================================================================
