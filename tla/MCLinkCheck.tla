----------------------------- MODULE MCLinkCheck -----------------------------
(* An instance of LinkCheck for TLC: three cells of two topics, three      *)
(* identities.                                                             *)
EXTENDS LinkCheck

CONSTANTS h1, h2, l1, l2, u1, u2, u3

MCTopicOf == <<1, 1, 2>>
MCCanon == [u \in {u1, u2, u3} |-> IF u = u3 THEN 1 ELSE IF u = u1 THEN 1 ELSE 2]

Saw(access, hash) == [access |-> access, hash |-> hash]
MCAnswers == [k \in {1, 2} |->
                IF k = 1 THEN {Saw("ok", "p"), Saw("not_found", None)}
                         ELSE {Saw("redirected", "q")}]

Full(c, k, u, hash) == [type |-> "full", topic |-> MCTopicOf[c], cell |-> c, key |-> k,
                        url |-> u, hash |-> hash, history |-> <<>>]
Pointer(c, k) == [Full(c, k, None, None) EXCEPT !.type = "cross_reference"]

MCCorpora ==
  { <<{Full(1, 1, u1, "p"), Full(1, 2, u2, None)}, {}, {Full(3, 3, u3, "q"), Pointer(3, 2)}>>,
    <<{Full(1, 1, u1, "p")}, {Full(2, 1, u1, "q"), Full(2, 2, u2, "q")}, {}>>,
    <<{Pointer(1, 1)}, {Full(2, 1, u1, None)}, {Full(3, 1, u3, "p")}>>,
    <<{}, {}, {}>> }
MCCells == {1, 2, 3}
=============================================================================
