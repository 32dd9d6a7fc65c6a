---------------------------- MODULE SourceCache ----------------------------
(***************************************************************************)
(* src/src/harvest/sourcecache.py over the source rows of pool.py: the     *)
(* lanes of a run call get_or_fetch() for the keys they need, from threads *)
(* of one process.                                                         *)
(*                                                                         *)
(* A step is a critical section of the store's or the pool's lock, or one  *)
(* of the things done between two of them: the fetch, event.set(), the     *)
(* wait for that event, the update of a row by reuse_snapshot().  What was *)
(* fetched matters only as far as it succeeded, failed or was refused by   *)
(* the pool's validation.                                                  *)
(*                                                                         *)
(* Two constants describe the environment:                                 *)
(*   TimedWaits  whether a lane bounds its wait (timeout or deadline)      *)
(*   Interrupts  whether KeyboardInterrupt or SystemExit may be raised     *)
(*               inside an owner's fetch or insertion                      *)
(***************************************************************************)
EXTENDS Naturals, FiniteSets

CONSTANTS Lanes, Keys, None, MaxAsks, TimedWaits, Interrupts

ASSUME NoneAssumption ==
         /\ None \notin Lanes
         /\ None \notin [owner : Lanes, lanes : SUBSET Lanes]
         /\ None \notin Keys \X {"done", "failed"}
ASSUME BoundsAssumption == MaxAsks \in Nat
ASSUME RegimeAssumption == TimedWaits \in BOOLEAN /\ Interrupts \in BOOLEAN

VARIABLES
  state,    \* state[k]: the entry's state, "absent" when there is none
  token,    \* token[k]: the lane that owns the entry's token, or None
  event,    \* event[k]: whether the entry's event is set
  row,      \* row[k]: the pool's row, [owner, lanes], or None
  pc,       \* pc[l]: the step lane l takes next
  key,      \* key[l]: the key lane l asks for
  answer,   \* answer[l]: None, or the <<key, outcome>> get_or_fetch gave l
  fetches,  \* fetches[k]: how often fetch_fn was called for k (fetch_calls)
  asks      \* asks[l]: how many calls lane l has made (bounded by MaxAsks)

store == <<state, token, event>>
vars  == <<store, row, pc, key, answer, fetches, asks>>

Terminal == {"done", "failed"}
Owning   == {"fetch", "record", "complete", "fail"}   \* holds a live token
Waiting  == {"enter", "wait", "reread"}
Rows     == [owner : Lanes, lanes : SUBSET Lanes]

TypeOK ==
  /\ state   \in [Keys -> {"absent", "pending"} \cup Terminal]
  /\ token   \in [Keys -> Lanes \cup {None}]
  /\ event   \in [Keys -> BOOLEAN]
  /\ row     \in [Keys -> Rows \cup {None}]
  /\ pc      \in [Lanes -> Owning \cup Waiting \cup
                           {"idle", "claim", "signal", "reuse", "answered", "left"}]
  /\ key     \in [Lanes -> Keys]
  /\ answer  \in [Lanes -> (Keys \X Terminal) \cup {None}]
  /\ fetches \in [Keys -> Nat]
  /\ asks    \in [Lanes -> 0..MaxAsks]

Init ==
  /\ state = [k \in Keys |-> "absent"]
  /\ token = [k \in Keys |-> None]
  /\ event = [k \in Keys |-> FALSE]
  /\ row = [k \in Keys |-> None]
  /\ pc = [l \in Lanes |-> "idle"]
  /\ key \in [Lanes -> Keys]
  /\ answer = [l \in Lanes |-> None]
  /\ fetches = [k \in Keys |-> 0]
  /\ asks = [l \in Lanes |-> 0]

Goto(l, step)   == pc' = [pc EXCEPT ![l] = step]
Answer(l, o)    == answer' = [answer EXCEPT ![l] = <<key[l], o>>]

-----------------------------------------------------------------------------
(* get_or_fetch(): claim, then own or wait.                                *)

Ask(l) ==
  /\ pc[l] \in {"idle", "answered"} /\ asks[l] < MaxAsks
  /\ \E k \in Keys : key' = [key EXCEPT ![l] = k]
  /\ asks' = [asks EXCEPT ![l] = @ + 1]
  /\ answer' = [answer EXCEPT ![l] = None]
  /\ Goto(l, "claim")
  /\ UNCHANGED <<store, row, fetches>>

NewEntry(l) ==
  /\ state' = [state EXCEPT ![key[l]] = "pending"]
  /\ token' = [token EXCEPT ![key[l]] = l]
  /\ event' = [event EXCEPT ![key[l]] = FALSE]
  /\ Goto(l, "fetch")

(* Mutant: a failed entry may be claimed again, so that it is retried.     *)
ClaimRetries(l) ==
  /\ pc[l] = "claim"
  /\ IF state[key[l]] \in {"absent", "failed"}
       THEN NewEntry(l)
       ELSE Goto(l, "enter") /\ UNCHANGED store
  /\ UNCHANGED <<row, key, answer, fetches, asks>>

Claim(l) ==
  /\ pc[l] = "claim"
  /\ IF state[key[l]] = "absent"
       THEN NewEntry(l)
       ELSE Goto(l, "enter") /\ UNCHANGED store
  /\ UNCHANGED <<row, key, answer, fetches, asks>>

(* fetch_fn() returns a result or raises; an interrupt is not caught.      *)
Fetch(l) ==
  /\ pc[l] = "fetch"
  /\ fetches' = [fetches EXCEPT ![key[l]] = @ + 1]
  /\ \/ \E step \in {"record", "fail"} : Goto(l, step)
     \/ Interrupts /\ Goto(l, "left")
  /\ UNCHANGED <<store, row, key, answer, asks>>

NewRow(l) == row' = [row EXCEPT ![key[l]] = [owner |-> l, lanes |-> {l}]]

(* Mutant: the row is published before it is validated.                    *)
RecordThenValidate(l) ==
  /\ pc[l] = "record"
  /\ \E step \in {"complete", "fail"} : Goto(l, step)
  /\ NewRow(l)
  /\ UNCHANGED <<store, key, answer, fetches, asks>>

(* record_established_source(): a row is refused as incomplete, or because *)
(* the key has one already, before anything is stored.                     *)
Record(l) ==
  /\ pc[l] = "record"
  /\ \/ row[key[l]] = None /\ NewRow(l) /\ Goto(l, "complete")
     \/ Goto(l, "fail") /\ UNCHANGED row
     \/ Interrupts /\ Goto(l, "left") /\ UNCHANGED row
  /\ UNCHANGED <<store, key, answer, fetches, asks>>

(* _terminate() by the owner of a pending entry; anyone else is refused.   *)
Terminate(l, o) ==
  /\ token[key[l]] = l /\ state[key[l]] = "pending"
  /\ state' = [state EXCEPT ![key[l]] = o]
  /\ Goto(l, "signal")
  /\ UNCHANGED <<token, event, row, key, answer, fetches, asks>>

Complete(l) == pc[l] = "complete" /\ Terminate(l, "done")

(* Mutant: a pool insertion that failed leaves the entry as it is.         *)
FailForgotten(l) ==
  /\ pc[l] = "fail"
  /\ Goto(l, "answered") /\ Answer(l, "failed")
  /\ UNCHANGED <<store, row, key, fetches, asks>>

Fail(l) == pc[l] = "fail" /\ Terminate(l, "failed")

(* event.set(), after which the owner's call returns or raises.            *)
Signal(l) ==
  /\ pc[l] = "signal"
  /\ event' = [event EXCEPT ![key[l]] = TRUE]
  /\ Answer(l, state[key[l]])
  /\ Goto(l, "answered")
  /\ UNCHANGED <<state, token, row, key, fetches, asks>>

-----------------------------------------------------------------------------
(* _await_existing(): wait for the entry and reuse what it came to.        *)

(* A failed entry raises; a done one is reused first.                      *)
Take(l) ==
  \/ /\ state[key[l]] = "failed"
     /\ Answer(l, "failed") /\ Goto(l, "answered")
  \/ /\ state[key[l]] = "done"
     /\ Goto(l, "reuse") /\ UNCHANGED answer

EnterWait(l) ==
  /\ pc[l] = "enter"
  /\ IF state[key[l]] \in Terminal
       THEN Take(l)
       ELSE Goto(l, "wait") /\ UNCHANGED answer
  /\ UNCHANGED <<store, row, key, fetches, asks>>

AwaitEvent(l) ==
  /\ pc[l] = "wait" /\ event[key[l]]
  /\ Goto(l, "reread")
  /\ UNCHANGED <<store, row, key, answer, fetches, asks>>

(* WaitTimeout is raised only while the event is not set, and changes      *)
(* nothing but the waiter.                                                 *)
WaitTimeout(l) ==
  /\ TimedWaits /\ pc[l] = "wait" /\ ~event[key[l]]
  /\ Goto(l, "idle")
  /\ UNCHANGED <<store, row, key, answer, fetches, asks>>

Reread(l) ==
  /\ pc[l] = "reread"
  /\ Take(l)
  /\ UNCHANGED <<store, row, key, fetches, asks>>

(* reuse_snapshot(): the row must be there; the lane is added to it.       *)
Reuse(l) ==
  /\ pc[l] = "reuse"
  /\ row[key[l]] # None
  /\ row' = [row EXCEPT ![key[l]].lanes = @ \cup {l}]
  /\ Answer(l, "done") /\ Goto(l, "answered")
  /\ UNCHANGED <<store, key, fetches, asks>>

-----------------------------------------------------------------------------
Own(l)   == Fetch(l) \/ Record(l) \/ Complete(l) \/ Fail(l) \/ Signal(l)
Await(l) == EnterWait(l) \/ AwaitEvent(l) \/ Reread(l) \/ Reuse(l)

Next == \E l \in Lanes : Ask(l) \/ Claim(l) \/ Own(l) \/ Await(l) \/ WaitTimeout(l)

Spec == Init /\ [][Next]_vars

(* Fairness: a thread in a call keeps running, and fetch_fn ends, because  *)
(* its request budget is finite.  Nobody has to call, nor to time out.     *)
FairSpec == Spec /\ \A l \in Lanes : WF_vars(Claim(l) \/ Own(l) \/ Await(l))
-----------------------------------------------------------------------------
(* What the cache promises.                                                *)

(* At most one logical fetch per key, however many lanes race for it and   *)
(* whatever came of it ("fetching at most once", get_or_fetch).            *)
OneFetch == \A k \in Keys : fetches[k] <= 1

(* No waiter is ever shown a key whose row is missing, and no failed key   *)
(* has one: "the pool row must exist and be complete BEFORE any waiter is  *)
(* released" (get_or_fetch), "any failure becomes FAILED with no pool row".*)
RowIffDone ==
  /\ \A k \in Keys : state[k] = "done" => row[k] # None
  /\ \A k \in Keys : state[k] \in {"failed", "absent"} => row[k] = None
  /\ \A k \in Keys : event[k] => state[k] \in Terminal

(* The lane that owns a live token of its entry, and what each step of an  *)
(* owner may rely on.  With it the two invariants above are inductive.     *)
CacheInv ==
  /\ TypeOK
  /\ RowIffDone
  /\ \A l \in Lanes : pc[l] \in Owning =>
       token[key[l]] = l /\ state[key[l]] = "pending"
  /\ \A l \in Lanes : pc[l] \in {"fetch", "record", "fail"} => row[key[l]] = None
  /\ \A l \in Lanes : pc[l] = "complete" => row[key[l]] # None
  /\ \A l \in Lanes : pc[l] = "signal" => token[key[l]] = l /\ state[key[l]] \in Terminal
  /\ \A l \in Lanes : pc[l] \in Waiting => state[key[l]] # "absent"
  /\ \A l \in Lanes : pc[l] = "reread" => state[key[l]] \in Terminal
  /\ \A l \in Lanes : pc[l] = "reuse" => state[key[l]] = "done"
  /\ \A k \in Keys : state[k] = "absent" => fetches[k] = 0
  /\ \A l \in Lanes : pc[l] = "fetch" => fetches[key[l]] = 0
  /\ \A k \in Keys : fetches[k] <= 1
  /\ \A l \in Lanes : pc[l] # "answered" => answer[l] = None

(* The cache implements the promise above it.                              *)
Once == INSTANCE FetchOnce WITH status <- state
ImplementsFetchOnce == Once!Spec

(* Unless an owner is interrupted, every lane that asks is answered or     *)
(* times out, and no waiter hangs, whether the fetch, its row or nothing   *)
(* failed.                                                                 *)
EveryoneAnswered ==
  [](\A l \in Lanes : pc[l] # "left") =>
    \A l \in Lanes : pc[l] = "claim" ~> pc[l] \in {"answered", "idle"}
=============================================================================
