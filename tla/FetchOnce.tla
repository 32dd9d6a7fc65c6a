----------------------------- MODULE FetchOnce -----------------------------
(***************************************************************************)
(* What the source cache promises its callers: each key is fetched at most *)
(* once in a run, its outcome -- success or failure -- is settled once and *)
(* never changes, and every answer a caller gets is that outcome.          *)
(***************************************************************************)
CONSTANTS Lanes, Keys, None

VARIABLES status,   \* status[k]: absent, pending, done or failed
          answer    \* answer[l]: None, or the <<key, outcome>> lane l was given

vars == <<status, answer>>

Outcomes == {"done", "failed"}

Init == /\ status = [k \in Keys |-> "absent"]
        /\ answer = [l \in Lanes |-> None]

Start(k) == /\ status[k] = "absent"
            /\ status' = [status EXCEPT ![k] = "pending"]
            /\ UNCHANGED answer

Settle(k) == /\ status[k] = "pending"
             /\ \E o \in Outcomes : status' = [status EXCEPT ![k] = o]
             /\ UNCHANGED answer

Deliver(l, k) == /\ answer[l] = None
                 /\ status[k] \in Outcomes
                 /\ answer' = [answer EXCEPT ![l] = <<k, status[k]>>]
                 /\ UNCHANGED status

AskAgain(l) == /\ answer[l] # None
               /\ answer' = [answer EXCEPT ![l] = None]
               /\ UNCHANGED status

Next == \/ \E k \in Keys : Start(k) \/ Settle(k)
        \/ \E l \in Lanes, k \in Keys : Deliver(l, k)
        \/ \E l \in Lanes : AskAgain(l)

Spec == Init /\ [][Next]_vars
=============================================================================
