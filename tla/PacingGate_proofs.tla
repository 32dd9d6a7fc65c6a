------------------------- MODULE PacingGate_proofs -------------------------
(***************************************************************************)
(* Proofs about PacingGate, for any workers, interval, penalties and       *)
(* timeouts, where nobody is killed and the pace lock is never held past   *)
(* its break age.  mkdir and the accesses of the file may fail, and a      *)
(* penalize() may go on without the lock.                                  *)
(***************************************************************************)
EXTENDS PacingGate, TLAPS, FiniteSetTheorems

Disciplined == Punctual /\ MaxCrashes = 0

(* Without crashes allowed, Crash is never enabled.                        *)
LEMMA NobodyCrashes ==
  ASSUME Disciplined, NEW p \in Workers PROVE ~Crash(p)
<1> DEFINE D == {q \in Workers : life[q] = "dead"}
<1>1. IsFiniteSet(D) BY WorkersAssumption, FS_Subset
<1>2. Cardinality(D) \in Nat BY <1>1, FS_CardinalityType
<1>3. ~(Cardinality(D) < 0) BY <1>2
<1> QED BY <1>3 DEF Crash, Disciplined

(* Types are kept by every step, in any environment: the horizon bounds    *)
(* whatever reaches the file.                                              *)
LEMMA TypePreserved ==
  ASSUME TypeOK, [Next]_vars PROVE TypeOK'
<1> USE TimesAssumption DEF TypeOK, Locking, Critical, Spans, Goto, shared, history
<1>1. ASSUME NEW p \in Workers, Call(p) PROVE TypeOK'
  BY <1>1 DEF Call
<1>2. ASSUME NEW p \in Workers, AcquireLock(p) PROVE TypeOK'
  <2>1. 0 \in 0..(Break + 1) /\ 0 \in 0..Timeout OBVIOUS
  <2>2. CASE MakeLock(p)
    <3> HIDE DEF Spans
    <3>1. CASE Locked(p) /\ lock' = p /\ lockAge' = 0
               /\ UNCHANGED <<gate, op, nxt, history, life>>
      BY <2>1, <3>1 DEF Locked
    <3>2. CASE NotLocked(p) /\ UNCHANGED <<lock, lockAge, gate, op, nxt, since, life>>
      BY <2>1, <3>2 DEF NotLocked
    <3>3. CASE Goto(p, "stat") /\ UNCHANGED <<shared, has, waited, op, nxt, history, life>>
      BY <3>3
    <3> QED BY <2>2, <3>1, <3>2, <3>3 DEF MakeLock
  <2>3. CASE StatLock(p) BY <2>3 DEF StatLock
  <2>4. CASE BreakLock(p) BY <2>1, <2>4 DEF BreakLock, Rmdir
  <2>5. CASE Late(p) BY <2>1, <2>5 DEF Late, NotLocked
  <2> QED BY <1>2, <2>2, <2>3, <2>4, <2>5 DEF AcquireLock
<1>3. ASSUME NEW p \in Workers, UseGate(p) PROVE TypeOK'
  <2>1. 0 \in 0..(Break + 1) /\ 0 \in 0..Interval /\ 0 \in 0..Horizon OBVIOUS
  <2>2. CASE ReadGate(p) BY <2>1, <2>2 DEF ReadGate, NextAllowed
  <2>3. CASE Wake(p) \/ Compare(p) BY <2>3 DEF Wake, Compare
  <2>4. CASE Stamp(p) BY <2>1, <2>4 DEF Stamp
  <2>5. CASE WriteGate(p) BY <2>5 DEF WriteGate
  <2>6. CASE Aim(p) BY <2>6 DEF Aim
  <2>7. CASE Unlock(p) BY <2>1, <2>7 DEF Unlock, Rmdir
  <2> QED BY <1>3, <2>2, <2>3, <2>4, <2>5, <2>6, <2>7 DEF UseGate
<1>4. ASSUME NEW p \in Workers, Crash(p) PROVE TypeOK'
  BY <1>4 DEF Crash
<1>5. CASE Tick
  <2>1. \A t \in Spans : Nearer(t) \in Spans BY DEF Nearer
  <2>2. \A t \in 0..Timeout : Older(t, Timeout) \in 0..Timeout BY DEF Older
  <2>3. \A t \in 0..Interval : Older(t, Interval) \in 0..Interval BY DEF Older
  <2>4. \A t \in 0..(Break + 1) : Older(t, Break + 1) \in 0..(Break + 1) BY DEF Older
  <2>5. 0 \in 0..(Break + 1) OBVIOUS
  <2> HIDE DEF Spans
  <2> QED BY <1>5, <2>1, <2>2, <2>3, <2>4, <2>5 DEF Tick
<1>6. CASE UNCHANGED vars
  BY <1>6 DEF vars
<1> QED BY <1>1, <1>2, <1>3, <1>4, <1>5, <1>6 DEF Next

(* Variables keep their types in every environment, crashes and disk       *)
(* faults included.                                                        *)
THEOREM TypeCorrect == Spec => []TypeOK
<1>1. Init => TypeOK
  BY TimesAssumption DEF Init, TypeOK, Spans, Locking, Critical
<1> QED BY <1>1, TypePreserved, PTL DEF Spec

(* The lock excludes: who has it made the directory that is there, and      *)
(* nobody but a penalize() goes on without it, whatever fails.              *)
LEMMA LockKept ==
  ASSUME Disciplined, LockInv, [Next]_vars PROVE LockInv'
<1> USE WorkersAssumption, TimesAssumption
    DEF LockInv, TypeOK, Spans, Unlocked, Locking, Critical, Goto, shared, history
<1>0. TypeOK' BY TypePreserved
<1>1. ASSUME NEW p \in Workers, Call(p) PROVE LockInv'
  BY <1>0, <1>1 DEF Call
<1>2. ASSUME NEW p \in Workers, AcquireLock(p) PROVE LockInv'
  <2>1. CASE MakeLock(p)
    <3>1. CASE Locked(p) /\ lock = None /\ lock' = p /\ lockAge' = 0
               /\ UNCHANGED <<gate, op, nxt, history, life>>
      BY <1>0, <3>1 DEF Locked
    <3>2. CASE NotLocked(p) /\ UNCHANGED <<lock, lockAge, gate, op, nxt, since, life>> /\ pc[p] = "mkdir"
      BY <1>0, <3>2 DEF NotLocked
    <3>3. CASE Goto(p, "stat") /\ UNCHANGED <<shared, has, waited, op, nxt, history, life>>
      BY <1>0, <3>3, <2>1 DEF MakeLock
    <3> QED BY <2>1, <3>1, <3>2, <3>3 DEF MakeLock
  <2>2. CASE StatLock(p) \/ BreakLock(p)
    <3>1. pc[p] = "stat" /\ pc' = [pc EXCEPT ![p] = "late"]
      BY <2>2 DEF StatLock, BreakLock
    <3>2. UNCHANGED <<lock, lockAge, gate, op, has, nxt, waited, since, trust, life>>
      BY <2>2 DEF StatLock, BreakLock
    <3> QED BY <1>0, <3>1, <3>2
  <2>3. CASE Late(p)
    <3>1. CASE NotLocked(p) /\ UNCHANGED <<shared, op, nxt, since, life>> /\ pc[p] = "late"
      BY <1>0, <3>1 DEF NotLocked
    <3>2. CASE Goto(p, "mkdir") /\ UNCHANGED <<shared, has, waited, op, nxt, history, life>> /\ pc[p] = "late"
      BY <1>0, <3>2
    <3> QED BY <2>3, <3>1, <3>2 DEF Late
  <2> QED BY <1>2, <2>1, <2>2, <2>3 DEF AcquireLock
<1>3. ASSUME NEW p \in Workers, UseGate(p) PROVE LockInv'
  <2>1. CASE ReadGate(p) BY <1>0, <2>1 DEF ReadGate
  <2>2. CASE Wake(p) BY <1>0, <2>2 DEF Wake
  <2>3. CASE Stamp(p) BY <1>0, <2>3 DEF Stamp
  <2>4. CASE WriteGate(p) BY <1>0, <2>4 DEF WriteGate
  <2>5. CASE Aim(p) BY <1>0, <2>5 DEF Aim
  <2>6. CASE Compare(p) BY <1>0, <2>6 DEF Compare
  <2>7. CASE Unlock(p) BY <1>0, <2>7 DEF Unlock, Rmdir
  <2> QED BY <1>3, <2>1, <2>2, <2>3, <2>4, <2>5, <2>6, <2>7 DEF UseGate
<1>4. CASE Tick
  <2>1. lockAge' <= Break
    BY <1>4 DEF Tick, Older, Disciplined
  <2> QED BY <1>0, <1>4, <2>1 DEF Tick
<1>5. CASE UNCHANGED vars
  BY <1>5 DEF vars
<1> QED BY <1>1, <1>2, <1>3, <1>4, <1>5, NobodyCrashes DEF Next

(* What a turn is about to write lies the interval after it, whatever has   *)
(* failed before.                                                           *)
TurnInv == \A p \in Workers : pc[p] = "write" /\ op[p] = "turn" => nxt[p] + since >= Interval

LEMMA TurnKept ==
  ASSUME Disciplined, LockInv, LockInv', TurnInv, [Next]_vars PROVE TurnInv'
<1> USE WorkersAssumption, TimesAssumption
    DEF TurnInv, LockInv, TypeOK, Spans, Unlocked, Critical, Goto, shared, history
<1>1. ASSUME NEW p \in Workers, Call(p) \/ AcquireLock(p) \/ Unlock(p) PROVE TurnInv'
  <2>1. /\ UNCHANGED <<since>>
        /\ \A q \in Workers : pc'[q] = "write" => pc[q] = "write" /\ op'[q] = op[q] /\ nxt'[q] = nxt[q]
    BY <1>1 DEF Call, AcquireLock, MakeLock, Locked, NotLocked, StatLock, BreakLock, Late, Unlock
  <2> QED BY <2>1
<1>2. ASSUME NEW p \in Workers,
             ReadGate(p) \/ Wake(p) \/ Aim(p) \/ Compare(p) \/ WriteGate(p)
      PROVE  TurnInv'
  <2>1. op[p] = "pen" \/ pc'[p] # "write"
    BY <1>2 DEF ReadGate, Wake, Aim, Compare, WriteGate
  <2> QED BY <1>2, <2>1 DEF ReadGate, Wake, Aim, Compare, WriteGate
<1>3. ASSUME NEW p \in Workers, Stamp(p) PROVE TurnInv'
  BY <1>3 DEF Stamp
<1>4. CASE Tick
  BY <1>4 DEF Tick, Nearer, Older
<1>5. CASE UNCHANGED vars
  BY <1>5 DEF vars
<1> QED BY <1>1, <1>2, <1>3, <1>4, <1>5, NobodyCrashes DEF Next, UseGate

(* Unless something has lapsed, the gate stays right.                       *)
LEMMA GateKept ==
  ASSUME Disciplined, PaceInv, LockInv', TurnInv', [Next]_vars, trust' = "kept"
  PROVE  GateInv'
<1> USE WorkersAssumption, TimesAssumption
    DEF PaceInv, LockInv, GateInv, TypeOK, Spans, Unlocked, Critical, Goto, shared, history
<1>1. ASSUME NEW p \in Workers, Call(p) \/ AcquireLock(p) \/ Unlock(p) PROVE GateInv'
  <2>1. /\ UNCHANGED <<since, gate>>
        /\ trust = "kept"
        /\ \A q \in Workers : pc'[q] \in {"sleep", "stamp", "write"} <=> pc[q] \in {"sleep", "stamp", "write"}
        /\ \A q \in Workers : pc[q] \in {"sleep", "stamp", "write"} => pc'[q] = pc[q] /\ nxt'[q] = nxt[q]
    BY <1>1 DEF Call, AcquireLock, MakeLock, Locked, NotLocked, StatLock, BreakLock, Late, Unlock
  <2>2. GateInv
    BY <2>1
  <2> QED BY <2>1, <2>2
<1>2. ASSUME NEW p \in Workers,
             ReadGate(p) \/ Wake(p) \/ Stamp(p) \/ WriteGate(p) \/ Aim(p) \/ Compare(p)
      PROVE  GateInv'
  <2>1. lock' = lock /\ lock = p /\ \A q \in Workers \ {p} : pc'[q] = pc[q] /\ nxt'[q] = nxt[q]
    <3>1. lock' = lock /\ has' = has /\ \A q \in Workers \ {p} : pc'[q] = pc[q] /\ nxt'[q] = nxt[q]
      BY <1>2 DEF ReadGate, Wake, Stamp, WriteGate, Aim, Compare
    <3>2. has[p]
      BY <1>2 DEF ReadGate, Wake, Stamp, WriteGate, Aim, Compare
    <3> QED BY <3>1, <3>2
  <2>2. \A q \in Workers \ {p} : pc[q] \notin {"sleep", "stamp", "write"}
    BY <2>1, trust' = "kept"
  <2>3. CASE ReadGate(p)
    BY <1>2, <2>1, <2>2, <2>3 DEF ReadGate
  <2>4. CASE Wake(p)
    BY <2>1, <2>2, <2>4 DEF Wake
  <2>5. CASE Stamp(p)
    BY <2>1, <2>2, <2>5 DEF Stamp
  <2>6. CASE WriteGate(p)
    BY <2>1, <2>2, <2>6 DEF WriteGate
  <2>7. CASE Aim(p)
    BY <2>1, <2>2, <2>7 DEF Aim
  <2>8. CASE Compare(p)
    BY <2>1, <2>2, <2>8 DEF Compare
  <2> QED BY <1>2, <2>3, <2>4, <2>5, <2>6, <2>7, <2>8
<1>3. CASE Tick
  BY <1>3 DEF Tick, Nearer, Older
<1>4. CASE UNCHANGED vars
  BY <1>4 DEF vars
<1> QED BY <1>1, <1>2, <1>3, <1>4, NobodyCrashes DEF Next, UseGate

(* While nobody is killed and no lock is held past its break age, the pace  *)
(* lock is a mutual exclusion, whatever mkdir and the file do, and the gate *)
(* never lies less than the interval after the last turn unless an access   *)
(* of it has lapsed since.                                                  *)
THEOREM PaceInvHolds == Disciplined /\ Spec => []PaceInv
<1> SUFFICES ASSUME Disciplined PROVE Spec => []PaceInv
  OBVIOUS
<1>1. Init => PaceInv
  <2>1. Init => TypeOK
    BY TimesAssumption DEF Init, TypeOK, Spans, Locking, Critical
  <2> QED
    BY <2>1, WorkersAssumption, TimesAssumption
    DEF Init, PaceInv, LockInv, GateInv, Unlocked, Locking, Critical
<1>2. PaceInv /\ [Next]_vars => PaceInv'
  <2> SUFFICES ASSUME PaceInv, [Next]_vars PROVE PaceInv'
    OBVIOUS
  <2>1. LockInv'
    BY LockKept DEF PaceInv
  <2>2. TurnInv'
    BY <2>1, TurnKept DEF PaceInv, TurnInv
  <2>3. trust' = "kept" => GateInv'
    BY <2>1, <2>2, GateKept
  <2> QED BY <2>1, <2>2, <2>3 DEF PaceInv, TurnInv
<1> QED BY <1>1, <1>2, PTL DEF Spec

(* In the same regime two turns of one domain are at least the interval     *)
(* apart, whichever of the workers take them, unless an access of the gate  *)
(* has lapsed since the last turn that was written.                         *)
THEOREM TurnsAreSpaced == Disciplined /\ Spec => Spacing
<1>1. ASSUME PaceInv, trust = "kept"
      PROVE  \A p \in Workers : pc[p] = "stamp" => since >= Interval
  <2> SUFFICES ASSUME NEW p \in Workers, pc[p] = "stamp" PROVE since >= Interval
    OBVIOUS
  <2>1. lock = p
    BY <1>1 DEF PaceInv, LockInv, Critical, Unlocked
  <2>2. \A q \in Workers : pc[q] # "write"
    BY <1>1, <2>1 DEF PaceInv, LockInv, Critical, Unlocked
  <2>3. gate = 0 /\ gate + since >= Interval /\ since \in 0..Interval
    BY <1>1, <2>2 DEF PaceInv, LockInv, GateInv, TypeOK
  <2> QED BY <2>3, TimesAssumption
<1>2. PaceInv => trust \in {"kept", "lapsed"}
  BY DEF PaceInv, LockInv, TypeOK
<1>3. PaceInv /\ [Next]_vars =>
        [\A p \in Workers : pc[p] = "stamp" /\ pc'[p] = "write" =>
           since >= Interval \/ trust = "lapsed"]_vars
  BY <1>1, <1>2
<1> QED BY <1>3, PaceInvHolds, PTL DEF Spec, Spacing

(* In the same regime a Retry-After delays every worker of the domain: no   *)
(* write brings the gate nearer, and no turn is granted while the gate is   *)
(* shut, except between a penalize() without the lock or a failed access    *)
(* and the next turn that is written.                                       *)
THEOREM PenaltiesHold == Disciplined /\ Spec => GateHolds
<1> SUFFICES ASSUME Disciplined PROVE Spec => GateHolds
  OBVIOUS
<1>1. PaceInv /\ [Next]_vars =>
        [trust = "kept" =>
           /\ Tick \/ gate' >= gate
           /\ \A p \in Workers : pc[p] = "stamp" /\ pc'[p] = "write" => gate = 0]_vars
  <2> SUFFICES ASSUME PaceInv, [Next]_vars, trust = "kept"
               PROVE  UNCHANGED vars \/ Tick \/ gate' >= gate
    BY DEF PaceInv, GateInv
  <2>1. gate \in Nat
    BY TimesAssumption DEF PaceInv, LockInv, TypeOK, Spans
  <2>2. ASSUME NEW p \in Workers, WriteGate(p) PROVE gate' >= gate
    BY <2>1, <2>2, TimesAssumption
    DEF WriteGate, PaceInv, LockInv, GateInv, TypeOK, Spans
  <2>3. ASSUME NEW p \in Workers, Call(p) \/ AcquireLock(p) \/ Unlock(p) \/ ReadGate(p)
                 \/ Wake(p) \/ Stamp(p) \/ Aim(p) \/ Compare(p) \/ Crash(p)
        PROVE  gate' = gate
    BY <2>3 DEF Call, AcquireLock, MakeLock, StatLock, BreakLock, Late, Unlock, ReadGate,
                Wake, Stamp, Aim, Compare, Crash, shared
  <2> QED BY <2>1, <2>2, <2>3 DEF Next, UseGate
<1> QED BY <1>1, PaceInvHolds, PTL DEF Spec, GateHolds

(* In the same regime the file is written by the worker that holds the lock *)
(* or by a penalize() that could not get it, and never by a wait_turn       *)
(* without the lock.                                                        *)
THEOREM GateTouchedUnderLock == Disciplined /\ Spec => TouchedUnderLock
<1>1. PaceInv /\ [Next]_vars =>
        [\A p \in Workers : pc[p] = "write" /\ pc'[p] = "unlock" =>
           lock = p \/ (op[p] = "pen" /\ ~has[p])]_vars
  BY DEF PaceInv, LockInv, Critical, Unlocked
<1> QED BY <1>1, PaceInvHolds, PTL DEF Spec, TouchedUnderLock
=============================================================================
