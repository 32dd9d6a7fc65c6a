---------------------------- MODULE MCRunPublish ----------------------------
(* An instance of RunPublish for TLC: two cells of one topic.              *)
EXTENDS RunPublish

CONSTANTS r1, r2, u

TwoRuns  == {r1, r2}
OneUrl   == {u}
OneTopic == <<1, 1>>
=============================================================================
