------------------------- MODULE SourceCache_proofs -------------------------
(***************************************************************************)
(* Proofs about SourceCache, for any lanes, keys, number of calls and      *)
(* environment: the inductive invariant, the two safety properties it      *)
(* carries, and that the cache implements FetchOnce.                       *)
(***************************************************************************)
EXTENDS SourceCache, TLAPS

(* The lock's critical sections and the pool's rows keep the invariant:    *)
(* every step of get_or_fetch, by any lane, from any reachable state.      *)
LEMMA CacheInvInductive ==
  ASSUME CacheInv, [Next]_vars PROVE CacheInv'
<1> USE NoneAssumption, BoundsAssumption
<1> USE DEF CacheInv, TypeOK, RowIffDone, Terminal, Owning, Waiting, Rows, Goto, Answer
<1>1. ASSUME NEW l \in Lanes, Ask(l) PROVE CacheInv'
  <2>1. asks'[l] \in 0..MaxAsks BY <1>1 DEF Ask
  <2> QED BY <1>1, <2>1 DEF Ask, store
<1>2. ASSUME NEW l \in Lanes, Claim(l) PROVE CacheInv'
  <2>1. CASE state[key[l]] = "absent"
    <3>1. /\ state' = [state EXCEPT ![key[l]] = "pending"]
          /\ token' = [token EXCEPT ![key[l]] = l]
          /\ event' = [event EXCEPT ![key[l]] = FALSE]
          /\ pc' = [pc EXCEPT ![l] = "fetch"] /\ pc[l] = "claim"
          /\ UNCHANGED <<row, key, answer, fetches, asks>>
      BY <1>2, <2>1 DEF Claim, NewEntry
    <3>2. TypeOK'
      BY <3>1
    <3>3. \A m \in Lanes \ {l} : pc'[m] = pc[m] /\
            (pc[m] \notin {"idle", "claim", "answered", "left"} => key[m] # key[l])
      BY <2>1, <3>1
    <3>4. \A m \in Lanes \ {l} :
            /\ pc'[m] \in Owning => token'[key'[m]] = m /\ state'[key'[m]] = "pending"
            /\ pc'[m] \in {"fetch", "record", "fail"} => row'[key'[m]] = None
            /\ pc'[m] = "complete" => row'[key'[m]] # None
            /\ pc'[m] = "signal" => token'[key'[m]] = m /\ state'[key'[m]] \in Terminal
            /\ pc'[m] = "reread" => state'[key'[m]] \in Terminal
            /\ pc'[m] = "reuse" => state'[key'[m]] = "done"
            /\ pc'[m] = "fetch" => fetches'[key'[m]] = 0
      BY <3>1, <3>3
    <3>5. RowIffDone'
      BY <2>1, <3>1
    <3> QED
      BY <2>1, <3>1, <3>2, <3>4, <3>5
  <2>2. CASE state[key[l]] # "absent"
    BY <1>2, <2>2 DEF Claim, store
  <2> QED BY <2>1, <2>2
<1>3. ASSUME NEW l \in Lanes, Fetch(l) PROVE CacheInv'
  BY <1>3 DEF Fetch, store
<1>4. ASSUME NEW l \in Lanes, Record(l) PROVE CacheInv'
  <2>1. CASE row[key[l]] = None /\ NewRow(l) /\ Goto(l, "complete")
    <3>1. [owner |-> l, lanes |-> {l}] \in Rows OBVIOUS
    <3> QED BY <1>4, <2>1, <3>1 DEF Record, NewRow, store
  <2>2. CASE UNCHANGED row /\ (Goto(l, "fail") \/ Goto(l, "left"))
    BY <1>4, <2>2 DEF Record, store
  <2> QED BY <1>4, <2>1, <2>2 DEF Record
<1>5. ASSUME NEW l \in Lanes, Complete(l) PROVE CacheInv'
  BY <1>5 DEF Complete, Terminate
<1>6. ASSUME NEW l \in Lanes, Fail(l) PROVE CacheInv'
  BY <1>6 DEF Fail, Terminate
<1>7. ASSUME NEW l \in Lanes, Signal(l) PROVE CacheInv'
  BY <1>7 DEF Signal
<1>8. ASSUME NEW l \in Lanes, EnterWait(l) PROVE CacheInv'
  BY <1>8 DEF EnterWait, Take, store
<1>9. ASSUME NEW l \in Lanes, AwaitEvent(l) PROVE CacheInv'
  BY <1>9 DEF AwaitEvent, store
<1>10. ASSUME NEW l \in Lanes, Reread(l) PROVE CacheInv'
  BY <1>10 DEF Reread, Take, store
<1>11. ASSUME NEW l \in Lanes, Reuse(l) PROVE CacheInv'
  BY <1>11 DEF Reuse, store
<1>12. ASSUME NEW l \in Lanes, WaitTimeout(l) PROVE CacheInv'
  BY <1>12 DEF WaitTimeout, store
<1>13. CASE UNCHANGED vars
  BY <1>13 DEF vars, store
<1> QED
  BY <1>1, <1>2, <1>3, <1>4, <1>5, <1>6, <1>7, <1>8, <1>9, <1>10, <1>11, <1>12, <1>13
  DEF Next, Own, Await

(* Whatever the environment does, the cache never leaves its invariant.    *)
THEOREM CacheInvHolds == Spec => []CacheInv
<1>1. Init => CacheInv
  BY NoneAssumption, BoundsAssumption
  DEF Init, CacheInv, TypeOK, RowIffDone, Terminal, Owning, Waiting
<1>2. CacheInv /\ [Next]_vars => CacheInv'
  BY CacheInvInductive
<1> QED BY <1>1, <1>2, PTL DEF Spec

(* However many lanes race for a key, fetch_fn is called for it at most    *)
(* once in the run, also after a failure or a timed-out wait.              *)
THEOREM FetchedOnce == Spec => []OneFetch
<1>1. CacheInv => OneFetch BY DEF CacheInv, OneFetch
<1> QED BY <1>1, CacheInvHolds, PTL

(* A done key has its pool row, a failed one has none, and waiters are     *)
(* released only after that is so.                                         *)
THEOREM RowsMatchStates == Spec => []RowIffDone
<1>1. CacheInv => RowIffDone BY DEF CacheInv
<1> QED BY <1>1, CacheInvHolds, PTL

(* The cache implements FetchOnce: claiming starts a key, _terminate       *)
(* settles it, and each return or raise delivers the settled outcome.      *)
THEOREM CacheImplementsFetchOnce == Spec => ImplementsFetchOnce
<1>1. Init => Once!Init
  BY DEF Init, Once!Init
<1>2. CacheInv /\ [Next]_vars => [Once!Next]_(Once!vars)
  <2> SUFFICES ASSUME CacheInv, [Next]_vars
               PROVE  Once!Next \/ UNCHANGED <<state, answer>>
    BY DEF Once!vars
  <2> USE DEF CacheInv, TypeOK, Terminal, Owning, Waiting, Goto, Answer, store,
              Once!Outcomes
  <2>1. ASSUME NEW l \in Lanes, Ask(l)
        PROVE  Once!AskAgain(l) \/ UNCHANGED <<state, answer>>
    BY <2>1 DEF Ask, Once!AskAgain
  <2>2. ASSUME NEW l \in Lanes, Claim(l)
        PROVE  Once!Start(key[l]) \/ UNCHANGED <<state, answer>>
    BY <2>2 DEF Claim, NewEntry, Once!Start
  <2>3. ASSUME NEW l \in Lanes, Fetch(l) \/ Record(l) \/ AwaitEvent(l) \/ WaitTimeout(l)
        PROVE  UNCHANGED <<state, answer>>
    BY <2>3 DEF Fetch, Record, AwaitEvent, WaitTimeout
  <2>4. ASSUME NEW l \in Lanes, Complete(l) \/ Fail(l)
        PROVE  Once!Settle(key[l])
    BY <2>4 DEF Complete, Fail, Terminate, Once!Settle
  <2>5. ASSUME NEW l \in Lanes, Signal(l) \/ Reuse(l)
        PROVE  Once!Deliver(l, key[l])
    BY <2>5 DEF Signal, Reuse, Once!Deliver
  <2>6. ASSUME NEW l \in Lanes, EnterWait(l) \/ Reread(l)
        PROVE  Once!Deliver(l, key[l]) \/ UNCHANGED <<state, answer>>
    BY <2>6 DEF EnterWait, Reread, Take, Once!Deliver
  <2>7. \A l \in Lanes : key[l] \in Keys
    OBVIOUS
  <2>8. CASE UNCHANGED vars
    BY <2>8 DEF vars
  <2> QED
    BY <2>1, <2>2, <2>3, <2>4, <2>5, <2>6, <2>7, <2>8
    DEF Next, Own, Await, Once!Next
<1> QED
  BY <1>1, <1>2, CacheInvHolds, PTL DEF Spec, ImplementsFetchOnce, Once!Spec
=============================================================================
