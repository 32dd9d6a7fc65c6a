----------------------------- MODULE PacingGate -----------------------------
(***************************************************************************)
(* The spacing half of src/src/harvest/domainlease.py: one domain's shared *)
(* next_allowed_at file and the pace.lock directory that guards it, as     *)
(* wait_turn() and penalize() of several processes use them.               *)
(*                                                                         *)
(* Times are relative to now: gate is how long the file still keeps        *)
(* callers waiting, and a Tick brings every pending time one step nearer.  *)
(* A time that has passed is 0, which is all max(clock, nxt) can tell.     *)
(*                                                                         *)
(* mkdir, the read and the write of the file may fail at any time, and     *)
(* penalize() goes on when it does not get the lock.  Two constants        *)
(* describe the environment rather than the code:                          *)
(*   MaxCrashes       how many workers may be killed, at any point         *)
(*   Punctual         whether a live worker always lets go of the pace     *)
(*                    lock before others may break it                      *)
(***************************************************************************)
EXTENDS Naturals, FiniteSets

CONSTANTS Workers, None,
          Interval,     \* interval_sec of wait_turn(), in ticks
          Penalties,    \* the `seconds` penalize() may be asked for
          Horizon,      \* no gate lies further ahead than this
          Timeout,      \* timeout of _pace_lock_acquire (10 s)
          Break,        \* age beyond which the lock is broken (30 s)
          MaxCrashes, Punctual

ASSUME WorkersAssumption == None \notin Workers /\ IsFiniteSet(Workers)
ASSUME TimesAssumption ==
         /\ Horizon \in Nat /\ Timeout \in Nat \ {0} /\ Break \in Nat
         /\ Interval \in 0..Horizon
         /\ Penalties \subseteq 0..Horizon
         /\ MaxCrashes \in Nat
ASSUME RegimeAssumption == Punctual \in BOOLEAN

VARIABLES
  lock,     \* the worker whose mkdir made pace.lock, or None when absent
  lockAge,  \* age of that directory
  gate,     \* next_allowed_at - now, or 0 when it has passed or is absent
  pc,       \* pc[p]: the step worker p makes next
  op,       \* op[p]: "turn" for wait_turn, "pen" for penalize
  has,      \* has[p]: _pace_lock_acquire returned True to p
  nxt,      \* nxt[p]: the time p read, or is about to write, less now
  waited,   \* waited[p]: time p has spent in _pace_lock_acquire
  since,    \* time since a turn was last granted (history)
  trust,    \* "lapsed" from a penalize() without the lock, or a failed read or
            \* write of the file, to the next turn that is written (history)
  life      \* life[p]: whether worker p still runs

shared == <<lock, lockAge, gate>>
history == <<since, trust>>
vars   == <<shared, pc, op, has, nxt, waited, history, life>>

Locking  == {"mkdir", "stat", "break", "late"}
Critical == {"read", "sleep", "stamp", "aim", "compare", "write", "unlock"}
Spans    == 0..Horizon

TypeOK ==
  /\ lock    \in Workers \cup {None}
  /\ lockAge \in 0..(Break + 1)
  /\ gate    \in Spans
  /\ pc      \in [Workers -> Locking \cup Critical \cup {"idle", "dead"}]
  /\ op      \in [Workers -> {"turn", "pen"}]
  /\ has     \in [Workers -> BOOLEAN]
  /\ nxt     \in [Workers -> Spans]
  /\ waited  \in [Workers -> 0..Timeout]
  /\ since   \in 0..Interval
  /\ trust   \in {"kept", "lapsed"}
  /\ life    \in [Workers -> {"alive", "dead"}]

Init ==
  /\ lock = None /\ lockAge = 0 /\ gate = 0
  /\ pc     = [p \in Workers |-> "idle"]
  /\ op     = [p \in Workers |-> "turn"]
  /\ has    = [p \in Workers |-> FALSE]
  /\ nxt    = [p \in Workers |-> 0]
  /\ waited = [p \in Workers |-> 0]
  /\ since  = Interval
  /\ trust  = "kept"
  /\ life   = [p \in Workers |-> "alive"]

Goto(p, step) == pc' = [pc EXCEPT ![p] = step]

-----------------------------------------------------------------------------
(* _pace_lock_acquire and _pace_lock_release                               *)

Call(p) ==
  /\ pc[p] = "idle"
  /\ \E o \in {"turn", "pen"} : op' = [op EXCEPT ![p] = o]
  /\ Goto(p, "mkdir")
  /\ UNCHANGED <<shared, has, nxt, waited, history, life>>

Locked(p) ==
  /\ has' = [has EXCEPT ![p] = TRUE]
  /\ waited' = [waited EXCEPT ![p] = 0]
  /\ Goto(p, IF op[p] = "turn" THEN "read" ELSE "aim")

(* Mutant: wait_turn goes on without the lock, too, as it once did.        *)
NotLockedGoesOn(p) ==
  /\ Goto(p, IF op[p] = "turn" THEN "read" ELSE "aim")
  /\ waited' = [waited EXCEPT ![p] = 0]
  /\ trust' = IF op[p] = "pen" THEN "lapsed" ELSE trust
  /\ UNCHANGED has

(* No lock: wait_turn raises LeaseTimeout, penalize goes on without it.    *)
NotLocked(p) ==
  /\ Goto(p, IF op[p] = "turn" THEN "idle" ELSE "aim")
  /\ waited' = [waited EXCEPT ![p] = 0]
  /\ trust' = IF op[p] = "pen" THEN "lapsed" ELSE trust
  /\ UNCHANGED has

MakeLock(p) ==
  /\ pc[p] = "mkdir"
  /\ \/ /\ lock = None
        /\ lock' = p /\ lockAge' = 0
        /\ Locked(p) /\ UNCHANGED trust
     \/ /\ lock # None
        /\ Goto(p, "stat")
        /\ UNCHANGED <<lock, lockAge, has, waited, trust>>
     \/ /\ NotLocked(p)
        /\ UNCHANGED <<lock, lockAge>>
  /\ UNCHANGED <<gate, op, nxt, since, life>>

(* Mutant: any lock in the way is taken for a dead worker's.               *)
StatLockAnyAge(p) ==
  /\ pc[p] = "stat"
  /\ Goto(p, IF lock # None THEN "break" ELSE "late")
  /\ UNCHANGED <<shared, op, has, nxt, waited, history, life>>

(* Mutant: a lock is never broken.                                         *)
StatLockNever(p) ==
  /\ pc[p] = "stat"
  /\ Goto(p, "late")
  /\ UNCHANGED <<shared, op, has, nxt, waited, history, life>>

StatLock(p) ==
  /\ pc[p] = "stat"
  /\ Goto(p, IF lock # None /\ lockAge > Break THEN "break" ELSE "late")
  /\ UNCHANGED <<shared, op, has, nxt, waited, history, life>>

Rmdir == lock' = None /\ lockAge' = 0

(* The directory p looked at may be gone, or may be another one by now.    *)
BreakLock(p) ==
  /\ pc[p] = "break"
  /\ IF lock # None THEN Rmdir /\ Goto(p, "mkdir")
                    ELSE Goto(p, "late") /\ UNCHANGED <<lock, lockAge>>
  /\ UNCHANGED <<gate, op, has, nxt, waited, history, life>>

(* Mutant: the lock is waited for without a deadline.                      *)
LateNever(p) ==
  /\ pc[p] = "late"
  /\ Goto(p, "mkdir")
  /\ UNCHANGED <<shared, op, has, nxt, waited, history, life>>

Late(p) ==
  /\ pc[p] = "late"
  /\ IF waited[p] >= Timeout THEN NotLocked(p)
                             ELSE Goto(p, "mkdir") /\ UNCHANGED <<has, waited, trust>>
  /\ UNCHANGED <<shared, op, nxt, since, life>>

(* Releasing removes whatever directory is there.                          *)
Unlock(p) ==
  /\ pc[p] = "unlock"
  /\ IF has[p] /\ lock # None THEN Rmdir ELSE UNCHANGED <<lock, lockAge>>
  /\ has' = [has EXCEPT ![p] = FALSE]
  /\ nxt' = [nxt EXCEPT ![p] = 0]
  /\ Goto(p, "idle")
  /\ UNCHANGED <<gate, op, waited, history, life>>

-----------------------------------------------------------------------------
(* _read_next_allowed: a file that cannot be read holds nobody up.         *)
NextAllowed == {gate, 0}

(* wait_turn: read the gate, sleep until it opens, push it forward.  The   *)
(* caller's budget may refuse the sleep and leave the gate alone.          *)

ReadGate(p) ==
  /\ pc[p] = "read"
  /\ \E t \in NextAllowed :
       /\ nxt' = [nxt EXCEPT ![p] = t]
       /\ \/ t > 0 /\ Goto(p, "unlock")
          \/ Goto(p, "sleep")
       /\ trust' = IF t # gate THEN "lapsed" ELSE trust
  /\ UNCHANGED <<shared, op, has, waited, since, life>>

(* Mutant: the worker that had to wait does not sleep.                     *)
WakeEarly(p) ==
  /\ pc[p] = "sleep"
  /\ Goto(p, "stamp")
  /\ UNCHANGED <<shared, op, has, nxt, waited, history, life>>

Wake(p) ==
  /\ pc[p] = "sleep" /\ nxt[p] = 0
  /\ Goto(p, "stamp")
  /\ UNCHANGED <<shared, op, has, nxt, waited, history, life>>

(* max(clock, nxt) + interval, once nxt has passed.                        *)
Stamp(p) ==
  /\ pc[p] = "stamp"
  /\ nxt' = [nxt EXCEPT ![p] = Interval]
  /\ since' = 0
  /\ Goto(p, "write")
  /\ UNCHANGED <<shared, op, has, waited, trust, life>>

(* Who is about to touch the file without the lock.                        *)
Unlocked(p) == ~has[p] /\ pc[p] \in {"aim", "compare", "write"}

(* The write may fail and is then dropped; a turn that is written puts the *)
(* gate right again, unless somebody is still at it without the lock.      *)
WriteGate(p) ==
  /\ pc[p] = "write"
  /\ \/ /\ gate' = nxt[p]
        /\ trust' = IF op[p] = "turn" /\ \A q \in Workers : ~Unlocked(q)
                      THEN "kept" ELSE trust
     \/ /\ UNCHANGED gate
        /\ trust' = "lapsed"
  /\ Goto(p, "unlock")
  /\ UNCHANGED <<lock, lockAge, op, has, nxt, waited, since, life>>

-----------------------------------------------------------------------------
(* penalize: clock + seconds, written when it is later than the gate.      *)

Aim(p) ==
  /\ pc[p] = "aim"
  /\ \E d \in Penalties : nxt' = [nxt EXCEPT ![p] = d]
  /\ Goto(p, "compare")
  /\ UNCHANGED <<shared, op, has, waited, history, life>>

(* Mutant: the penalty is written whether or not it is later.              *)
CompareNot(p) ==
  /\ pc[p] = "compare"
  /\ Goto(p, "write")
  /\ UNCHANGED <<shared, op, has, nxt, waited, history, life>>

Compare(p) ==
  /\ pc[p] = "compare"
  /\ \E t \in NextAllowed :
       /\ Goto(p, IF nxt[p] > t THEN "write" ELSE "unlock")
       /\ trust' = IF t # gate THEN "lapsed" ELSE trust
  /\ UNCHANGED <<shared, op, has, nxt, waited, since, life>>

-----------------------------------------------------------------------------
(* The environment: a killed process, and time.                            *)

Crash(p) ==
  /\ life[p] = "alive" /\ pc[p] # "idle"
  /\ Cardinality({q \in Workers : life[q] = "dead"}) < MaxCrashes
  /\ life' = [life EXCEPT ![p] = "dead"]
  /\ Goto(p, "dead")
  /\ UNCHANGED <<shared, op, has, nxt, waited, history>>

Nearer(t) == IF t > 0 THEN t - 1 ELSE 0
Older(t, cap) == IF t < cap THEN t + 1 ELSE cap

Tick ==
  /\ Punctual => (lock # None /\ life[lock] = "alive" => lockAge < Break)
  /\ gate'    = Nearer(gate)
  /\ nxt'     = [p \in Workers |-> Nearer(nxt[p])]
  /\ lockAge' = IF lock = None THEN 0 ELSE Older(lockAge, Break + 1)
  /\ waited'  = [p \in Workers |-> IF pc[p] \in Locking THEN Older(waited[p], Timeout)
                                                        ELSE waited[p]]
  /\ since'   = Older(since, Interval)
  /\ UNCHANGED <<lock, pc, op, has, trust, life>>

AcquireLock(p) == MakeLock(p) \/ StatLock(p) \/ BreakLock(p) \/ Late(p)
UseGate(p)     == \/ ReadGate(p) \/ Wake(p)    \/ Stamp(p) \/ WriteGate(p)
                  \/ Aim(p)      \/ Compare(p) \/ Unlock(p)

Next ==
  \/ \E p \in Workers : Call(p) \/ AcquireLock(p) \/ UseGate(p) \/ Crash(p)
  \/ Tick

Spec == Init /\ [][Next]_vars

(* Fairness: a running process keeps executing, goes on to its next call   *)
(* for the domain, and time does not stand still.                          *)
Fairness ==
  /\ \A p \in Workers : WF_vars(Call(p)) /\ WF_vars(AcquireLock(p))
                        /\ WF_vars(UseGate(p))
  /\ WF_vars(Tick)

FairSpec == Spec /\ Fairness
-----------------------------------------------------------------------------
(* What the gate promises.                                                 *)

(* Whoever has the pace lock made the directory that is there, and only a *)
(* penalize() is ever past _pace_lock_acquire without it.                  *)
LockInv ==
  /\ TypeOK
  /\ \A p \in Workers : life[p] = "alive" /\ pc[p] \notin {"break", "dead"}
  /\ \A p \in Workers : has[p] <=> lock = p
  /\ \A p \in Workers : has[p] => pc[p] \in Critical
  /\ \A p \in Workers : pc[p] \in Critical /\ ~has[p] => Unlocked(p) \/ pc[p] = "unlock"
  /\ \A p \in Workers : Unlocked(p) => op[p] = "pen" /\ trust = "lapsed"
  /\ \A p \in Workers : pc[p] \in {"aim", "compare"} => op[p] = "pen"
  /\ \A p \in Workers : pc[p] \notin Locking => waited[p] = 0
  /\ lockAge <= Break

(* The gate is as its reader left it, and neither the gate nor a time      *)
(* about to be written lies less than Interval after the last turn.        *)
GateInv ==
  /\ \A p \in Workers : pc[p] = "sleep" => gate = nxt[p]
  /\ \A p \in Workers : pc[p] = "stamp" => gate = 0
  /\ \A p \in Workers : pc[p] = "write" => gate <= nxt[p] /\ nxt[p] + since >= Interval
  /\ (\A p \in Workers : pc[p] # "write") => gate + since >= Interval

(* The inductive invariant behind the promises below, while nobody is      *)
(* killed and no lock is held past Break: the lock excludes whatever fails,*)
(* and the gate is right unless something has lapsed since the last turn.  *)
PaceInv ==
  /\ LockInv
  /\ \A p \in Workers : pc[p] = "write" /\ op[p] = "turn" => nxt[p] + since >= Interval
  /\ trust = "kept" => GateInv

(* Two turns of the domain, whoever takes them, are at least the interval  *)
(* apart: "two workers could read the same gate and both proceed early.    *)
(* That is the one thing this gate exists to prevent" (wait_turn).  What a *)
(* penalize() without the lock or a failed access of the file may spoil is *)
(* put right by the next turn written while nobody is at it without lock.  *)
Spacing ==
  [][\A p \in Workers : pc[p] = "stamp" /\ pc'[p] = "write" =>
       since >= Interval \/ trust = "lapsed"]_vars

(* A Retry-After holds for every worker until it has run out: nobody's     *)
(* write brings the gate nearer, and no turn is granted while it is shut   *)
(* (penalize, "one worker being told to back off must slow every other").  *)
(* This too is lost to a lapse, and regained with the next turn written.   *)
GateHolds ==
  [][trust = "kept" =>
       /\ Tick \/ gate' >= gate
       /\ \A p \in Workers : pc[p] = "stamp" /\ pc'[p] = "write" => gate = 0]_vars

(* The file is written by the worker that holds the lock, or by a          *)
(* penalize() that could not get it (domainlease.py:386): wait_turn never  *)
(* goes on without it, "FAILS CLOSED" (:336).                              *)
TouchedUnderLock ==
  [][\A p \in Workers : pc[p] = "write" /\ pc'[p] = "unlock" =>
       lock = p \/ (op[p] = "pen" /\ ~has[p])]_vars

(* wait_turn and penalize return or raise, whatever becomes of the worker  *)
(* that holds the lock -- except that a caller whose competitors outlast   *)
(* Break time after time breaks one lock after another, and the `continue` *)
(* after a break skips the deadline (_pace_lock_acquire).                  *)
CallEnds ==
  \A p \in Workers :
    <>[](pc[p] # "break") => (pc[p] = "mkdir" ~> pc[p] \in {"idle", "dead"})

(* The lock a killed worker leaves behind is broken in the end, unless     *)
(* mkdir fails every time, so that nobody comes to look at it any more.    *)
LockFreed ==
  ([]<>\E p \in Workers : pc[p] = "stat") => []<>(lock = None \/ life[lock] = "alive")
=============================================================================
