------------------------- MODULE DomainSlots_proofs -------------------------
(***************************************************************************)
(* Proofs about DomainSlots, for any number of workers and slots and any   *)
(* lease_stale_sec: type correctness in every environment, and -- while    *)
(* nobody crashes, overstays or dawdles and what is there can be removed   *)
(* -- the concurrency cap and the refinement of the semaphore              *)
(* DomainPermits.                                                          *)
(***************************************************************************)
EXTENDS DomainSlots, FiniteSetTheorems, TLAPS

(* The environment in which the cap is a theorem, whatever mkdir and the   *)
(* owner files do.  DomainSlots_steal shows what becomes of it elsewhere.  *)
Disciplined == MaxCrashes = 0 /\ MaxStuck = 0 /\ ~Overstay /\ Prompt

-----------------------------------------------------------------------------
(* Slots, ages and waiting times, as the actions use them.                 *)
LEMMA RangeFacts ==
  /\ 1 \in Slots
  /\ \A s \in Slots : s < MaxConcurrency => s + 1 \in Slots
  /\ 0 \in Ages
  /\ \A a \in Ages : Older(a) \in Ages
  /\ 0 \in 0..WaitMax
  /\ \A w \in 0..WaitMax : w < WaitMax => w + 1 \in 0..WaitMax
  /\ WaitMax \in 0..WaitMax
  /\ 0 \in 0..MaxStuck
  /\ \A n \in 0..MaxStuck : n < MaxStuck => n + 1 \in 0..MaxStuck
BY BoundsAssumption DEF Slots, Ages, Older

(* Every file, timestamp and local of the lease protocol keeps its type    *)
(* through every system call, crash and tick, in every environment.        *)
THEOREM TypeCorrect == Spec => []TypeOK
<1> USE RangeFacts DEF TypeOK, Steps, Resting, Probing, Breaking, Owning
<1>1. Init => TypeOK
  BY DEF Init
<1>2. TypeOK /\ [Next]_vars => TypeOK'
  <2> SUFFICES ASSUME TypeOK, [Next]_vars
               PROVE  TypeOK'
    OBVIOUS
  <2> USE DEF files, locals, env, Goto
  <2>1. ASSUME NEW p \in Workers, AcquireStart(p) PROVE TypeOK'
    BY <2>1 DEF AcquireStart
  <2>2. ASSUME NEW p \in Workers, Acquire(p) PROVE TypeOK'
    <3>1. CASE MkdirSlot(p)     BY <3>1 DEF MkdirSlot, Mkdir, NextSlot, Forget
    <3>2. CASE ReadOwner(p)     BY <3>2 DEF ReadOwner, OwnerReads
    <3>3. CASE JudgeStale(p)    BY <3>3 DEF JudgeStale, NextSlot, Forget
    <3>4. CASE BreakExists(p)   BY <3>4 DEF BreakExists
    <3>5. CASE BreakUnlink(p)   BY <3>5 DEF BreakUnlink, NextSlot, Forget, Unlink, RemovalFails
    <3>6. CASE BreakRmdir(p)    BY <3>6 DEF BreakRmdir, NextSlot, Forget, Rmdir, RemovalFails
    <3>7. CASE Remake(p)        BY <3>7 DEF Remake, NextSlot, Forget, Mkdir
    <3>8. CASE OpenOwner(p)     BY <3>8 DEF OpenOwner
    <3>9. CASE WriteOwner(p)    BY <3>9 DEF WriteOwner
    <3>10. CASE CheckDeadline(p) BY <3>10 DEF CheckDeadline
    <3>11. CASE Wake(p)         BY <3>11 DEF Wake
    <3>12. QED
      BY <2>2, <3>1, <3>2, <3>3, <3>4, <3>5, <3>6, <3>7, <3>8, <3>9, <3>10, <3>11
         DEF Acquire
  <2>3. ASSUME NEW p \in Workers, GiveBack(p) PROVE TypeOK'
    <3>1. CASE Release(p)       BY <3>1 DEF Release
    <3>2. CASE ReleaseExists(p) BY <3>2 DEF ReleaseExists
    <3>3. CASE ReleaseUnlink(p) BY <3>3 DEF ReleaseUnlink, Unlink, RemovalFails
    <3>4. CASE ReleaseRmdir(p)  BY <3>4 DEF ReleaseRmdir, Rmdir, RemovalFails
    <3>5. QED
      BY <2>3, <3>1, <3>2, <3>3, <3>4 DEF GiveBack
  <2>4. ASSUME NEW p \in Workers, Crash(p) PROVE TypeOK'
    BY <2>4 DEF Crash, Forget
  <2>5. CASE Tick
    BY <2>5 DEF Tick, NamesOwner
  <2>6. CASE UNCHANGED vars
    BY <2>6 DEF vars
  <2>7. QED
    BY <2>1, <2>2, <2>3, <2>4, <2>5, <2>6 DEF Next
<1>3. QED
  BY <1>1, <1>2, PTL DEF Spec

-----------------------------------------------------------------------------
(* The disciplined environment.                                            *)

(* With no crashes allowed, nobody crashes.                                *)
LEMMA NobodyCrashes ==
  ASSUME Disciplined, NEW p \in Workers
  PROVE  ~Crash(p)
<1> DEFINE Lost == {q \in Workers : ~Alive(q)}
<1>1. IsFiniteSet(Lost)
  BY WorkersAssumption, FS_Subset
<1>2. Cardinality(Lost) \in Nat
  BY <1>1, FS_CardinalityType
<1>3. ~(Cardinality(Lost) < 0)
  BY <1>2
<1>4. QED
  BY <1>3 DEF Crash, Disciplined

(* Nothing a waiting worker reads looks stale.                             *)
LEMMA NothingLooksStale ==
  ASSUME LeaseInv, NEW p \in Workers, pc[p] = "judge"
  PROVE  ~LooksStale(p)
<1>1. at[p] \in Slots /\ mtime[at[p]] \in Nat /\ Stale \in Nat /\ seenAge[p] \in Nat
  BY BoundsAssumption DEF LeaseInv, TypeOK, Ages
<1>2. mtime[at[p]] < Stale /\ seenAge[p] < Stale
  BY <1>1 DEF LeaseInv
<1>3. seen[p] # None => PidAlive(seen[p])
  BY DEF LeaseInv, TypeOK, PidAlive, Alive
<1>4. QED
  BY <1>1, <1>2, <1>3 DEF LooksStale

(* Nobody breaks a slot, and a directory and its owner find each other,    *)
(* through every step of the disciplined environment.                      *)
LEMMA LeaseInvInductive ==
  ASSUME Disciplined, LeaseInv, TypeOK', [Next]_vars
  PROVE  LeaseInv'
<1>0. 0 < Stale
  BY BoundsAssumption
<1> USE DEF LeaseInv, TypeOK, Owners, Owning, Breaking, Alive
<1>1. ASSUME NEW p \in Workers, AcquireStart(p) PROVE LeaseInv'
  BY <1>1 DEF AcquireStart, Goto, files, env
<1>2. ASSUME NEW p \in Workers, Acquire(p) PROVE LeaseInv'
  <2> USE DEF files, locals, env, Goto
  <2>1. CASE MkdirSlot(p)
    <3>1. CASE dir[at[p]] = None /\ Mkdir(p, at[p]) /\ Goto(p, "own") /\ UNCHANGED locals
      BY <2>1, <3>1, <1>0, WorkersAssumption DEF MkdirSlot, Mkdir
    <3>2. CASE Goto(p, "read") /\ UNCHANGED <<files, locals>>
      BY <2>1, <3>2 DEF MkdirSlot
    <3>3. CASE NextSlot(p) /\ UNCHANGED files
      BY <2>1, <3>3 DEF MkdirSlot, NextSlot, Forget
    <3>4. QED BY <2>1, <3>1, <3>2, <3>3 DEF MkdirSlot
  <2>2. CASE ReadOwner(p)
    BY <2>2, <1>0 DEF ReadOwner, OwnerReads
  <2>3. CASE JudgeStale(p)
    BY <2>3, NothingLooksStale DEF JudgeStale, NextSlot, Forget
  <2>4. CASE BreakExists(p)   BY <2>4 DEF BreakExists
  <2>5. CASE BreakUnlink(p)   BY <2>5 DEF BreakUnlink
  <2>6. CASE BreakRmdir(p)    BY <2>6 DEF BreakRmdir
  <2>7. CASE Remake(p)        BY <2>7 DEF Remake
  <2>8. CASE OpenOwner(p)     BY <2>8, <1>0, WorkersAssumption DEF OpenOwner
  <2>9. CASE WriteOwner(p)    BY <2>9, <1>0, WorkersAssumption DEF WriteOwner
  <2>10. CASE CheckDeadline(p) BY <2>10 DEF CheckDeadline
  <2>11. CASE Wake(p)         BY <2>11 DEF Wake
  <2>12. QED
    BY <1>2, <2>1, <2>2, <2>3, <2>4, <2>5, <2>6, <2>7, <2>8, <2>9, <2>10, <2>11
       DEF Acquire
<1>3. ASSUME NEW p \in Workers, GiveBack(p) PROVE LeaseInv'
  <2> USE DEF files, locals, env, Goto
  <2>0. ASSUME NEW possible, possible = TRUE PROVE ~RemovalFails(possible)
    BY <2>0 DEF RemovalFails, Disciplined
  <2>1. CASE Release(p)       BY <2>1, WorkersAssumption DEF Release, OwnerReads
  <2>2. CASE ReleaseExists(p) BY <2>2 DEF ReleaseExists
  <2>3. CASE ReleaseUnlink(p)
    <3>1. ~RemovalFails(owner[at[p]] # None)
      BY <2>0, <2>3 DEF ReleaseUnlink
    <3>2. QED
      BY <2>3, <3>1, <1>0, WorkersAssumption DEF ReleaseUnlink, Unlink
  <2>4. CASE ReleaseRmdir(p)
    <3>1. CanRmdir(at[p]) = TRUE
      BY <2>4, WorkersAssumption DEF ReleaseRmdir, CanRmdir
    <3>2. ~RemovalFails(CanRmdir(at[p]))
      BY <2>0, <3>1
    <3>3. QED
      BY <2>4, <3>2, <1>0, WorkersAssumption DEF ReleaseRmdir, Rmdir, CanRmdir
  <2>5. QED
    BY <1>3, <2>1, <2>2, <2>3, <2>4 DEF GiveBack
<1>4. CASE Tick
  <2>1. \A q \in Workers : pc[q] # "judge"
    BY <1>4 DEF Tick, Disciplined, Resting
  <2>2. \A s \in Slots : dir[s] # None => mtime[s] + 1 < Stale /\ epoch[s] + 1 < Stale
    BY <1>4 DEF Tick, Disciplined
  <2>3. \A s \in Slots : mtime[s] \in Nat /\ epoch[s] \in Nat
    BY BoundsAssumption DEF Ages
  <2>4. \A s \in Slots : mtime'[s] < Stale /\ epoch'[s] < Stale
    BY <1>0, <1>4, <2>2, <2>3, BoundsAssumption, WorkersAssumption DEF Tick, Older, NamesOwner
  <2>5. QED
    BY <1>4, <2>1, <2>4 DEF Tick, env
<1>5. CASE UNCHANGED vars
  BY <1>5 DEF vars, files, locals, env
<1>6. QED
  BY <1>1, <1>2, <1>3, <1>4, <1>5, NobodyCrashes DEF Next

LEMMA LeaseInvHolds == ASSUME Disciplined PROVE Spec => []LeaseInv
<1>1. Init => LeaseInv
  <2> SUFFICES ASSUME Init PROVE LeaseInv
    OBVIOUS
  <2>1. TypeOK
    BY RangeFacts DEF Init, TypeOK, Steps, Resting
  <2>2. 0 < Stale
    BY BoundsAssumption
  <2>3. QED
    BY <2>1, <2>2 DEF Init, LeaseInv, Owners, Owning, Breaking, Alive
<1>2. LeaseInv /\ TypeOK' /\ [Next]_vars => LeaseInv'
  BY LeaseInvInductive
<1>3. QED
  BY <1>1, <1>2, TypeCorrect, PTL DEF Spec

(* Owners have a slot each, so there are no more of them than slots.       *)
LEMMA OwnersBounded ==
  ASSUME LeaseInv
  PROVE  IsFiniteSet(Owners) /\ Cardinality(Owners) <= MaxConcurrency
<1>1. IsFiniteSet(Owners)
  BY WorkersAssumption, FS_Subset DEF Owners
<1>2. IsFiniteSet(Slots) /\ Cardinality(Slots) = MaxConcurrency
  BY BoundsAssumption, FS_Interval DEF Slots
<1>3. Cardinality(Owners) \in Nat /\ MaxConcurrency \in Nat
  BY <1>1, FS_CardinalityType, BoundsAssumption
<1>4. ~(Cardinality(Slots) < Cardinality(Owners))
  <2> SUFFICES ASSUME Cardinality(Slots) < Cardinality(Owners)
               PROVE  FALSE
    OBVIOUS
  <2> DEFINE slotOf == [p \in Owners |-> at[p]]
  <2>1. slotOf \in [Owners -> Slots]
    BY DEF LeaseInv, TypeOK, Owners
  <2> HIDE DEF slotOf
  <2>2. PICK p, q \in Owners : p # q /\ slotOf[p] = slotOf[q]
    BY <1>1, <1>2, <2>1, FS_PigeonHole
  <2>3. at[p] = at[q]
    BY <2>2 DEF slotOf
  <2>4. \A o \in Owners : dir[at[o]] = o
    BY DEF LeaseInv
  <2>5. QED
    BY <2>2, <2>3, <2>4
<1>5. QED
  BY <1>1, <1>2, <1>3, <1>4

(* While nobody crashes, overstays or dawdles, never more than             *)
(* max_concurrency workers are between acquire() and release(), however    *)
(* many workers there are and however their system calls interleave.       *)
THEOREM CapHolds == ASSUME Disciplined PROVE Spec => []ConcurrencyCap
<1>1. ASSUME LeaseInv PROVE ConcurrencyCap
  <2>1. Holders \in SUBSET Owners
    BY DEF Holders, Owners, Owning
  <2>2. IsFiniteSet(Owners) /\ Cardinality(Owners) <= MaxConcurrency
    BY <1>1, OwnersBounded
  <2>3. IsFiniteSet(Holders) /\ Cardinality(Holders) <= Cardinality(Owners)
    BY <2>1, <2>2, FS_Subset
  <2>4. Cardinality(Holders) \in Nat /\ Cardinality(Owners) \in Nat
    BY <2>2, <2>3, FS_CardinalityType
  <2>5. QED
    BY <2>2, <2>3, <2>4, BoundsAssumption DEF ConcurrencyCap
<1>2. QED
  BY <1>1, LeaseInvHolds, PTL

-----------------------------------------------------------------------------
(* The refinement of DomainPermits.                                        *)

(* A step that leaves every worker's hold as it was is invisible.          *)
LEMMA SameHolders ==
  ASSUME LeaseInv, LeaseInv', NEW p \in Workers,
         pc[p] # "hold", pc'[p] # "hold",
         \A q \in Workers : q # p => pc'[q] = pc[q]
  PROVE  Holders' = Holders
BY DEF Holders, LeaseInv

(* The last step of acquire(), the owner written or not, takes a permit:   *)
(* the worker owns its slot, so the others' permits leave one free.        *)
LEMMA ReturningTakes ==
  ASSUME LeaseInv, LeaseInv', NEW p \in Workers, pc[p] \in {"own", "write"},
         pc' = [pc EXCEPT ![p] = "hold"]
  PROVE  Permits!Take(p)
<1>1. pc[p] \in {"own", "write"} /\ pc' = [pc EXCEPT ![p] = "hold"]
  OBVIOUS
<1>2. p \notin Holders /\ Holders' = Holders \cup {p}
  BY <1>1 DEF Holders, LeaseInv, TypeOK
<1>3. Holders \cup {p} \in SUBSET Owners
  BY <1>1 DEF Holders, Owners, Owning
<1>4. IsFiniteSet(Owners) /\ Cardinality(Owners) <= MaxConcurrency
  BY OwnersBounded
<1>5. IsFiniteSet(Holders)
  BY <1>3, <1>4, FS_Subset
<1>6. Cardinality(Holders \cup {p}) = Cardinality(Holders) + 1
  BY <1>2, <1>5, FS_AddElement
<1>7. Cardinality(Holders \cup {p}) <= Cardinality(Owners)
  BY <1>3, <1>4, FS_Subset
<1>8. Cardinality(Holders) \in Nat /\ Cardinality(Owners) \in Nat
  BY <1>4, <1>5, FS_CardinalityType
<1>9. Cardinality(Holders) < MaxConcurrency
  BY <1>4, <1>6, <1>7, <1>8, BoundsAssumption
<1>10. Permits!Cardinality(Holders) = Cardinality(Holders)
  BY Zenon DEF Cardinality, Permits!Cardinality
<1>11. QED
  BY <1>2, <1>9, <1>10 DEF Permits!Take

(* The first step of release() gives one back.                             *)
LEMMA ReleaseGives ==
  ASSUME LeaseInv, LeaseInv', NEW p \in Workers, Release(p)
  PROVE  Permits!Give(p)
<1>1. pc[p] = "hold" /\ pc'[p] # "hold" /\ \A q \in Workers : q # p => pc'[q] = pc[q]
  BY DEF Release, Goto, LeaseInv, TypeOK
<1>2. p \in Holders /\ Holders' = Holders \ {p}
  BY <1>1 DEF Holders, LeaseInv
<1>3. QED
  BY <1>2 DEF Permits!Give

(* With no crash, no overstay and no dawdling the slot directories are a   *)
(* counting semaphore: every behaviour of the lease protocol is a          *)
(* behaviour of DomainPermits, for any number of workers and slots.        *)
THEOREM SlotsImplementPermits ==
  ASSUME Disciplined PROVE Spec => ImplementsPermits
<1>1. Init => Permits!Init
  BY DEF Init, Holders, Permits!Init
<1>2. ASSUME LeaseInv, LeaseInv', [Next]_vars
      PROVE  [Permits!Next]_Holders
  <2> USE <1>2
  <2>1. ASSUME NEW p \in Workers, OpenOwner(p) \/ WriteOwner(p)
        PROVE  Permits!Next \/ Holders' = Holders
    <3>1. CASE pc' = [pc EXCEPT ![p] = "hold"]
      <4>1. pc[p] \in {"own", "write"}
        BY <2>1 DEF OpenOwner, WriteOwner
      <4>2. QED
        BY <3>1, <4>1, ReturningTakes DEF Permits!Next
    <3>2. CASE pc[p] = "own" /\ pc' = [pc EXCEPT ![p] = "write"]
      <4>1. pc'[p] # "hold" /\ \A q \in Workers : q # p => pc'[q] = pc[q]
        BY <3>2 DEF LeaseInv, TypeOK
      <4>2. QED
        BY <3>2, <4>1, SameHolders
    <3>3. QED
      BY <2>1, <3>1, <3>2 DEF OpenOwner, WriteOwner, Goto
  <2>2. ASSUME NEW p \in Workers, Release(p) PROVE Permits!Next
    BY <2>2, ReleaseGives DEF Permits!Next
  <2>3. ASSUME NEW p \in Workers, AcquireStart(p) \/ Acquire(p) \/ GiveBack(p),
               ~OpenOwner(p), ~WriteOwner(p), ~Release(p)
        PROVE  Holders' = Holders
    <3>1. pc[p] # "hold" /\ pc'[p] # "hold" /\ \A q \in Workers : q # p => pc'[q] = pc[q]
      BY <2>3 DEF AcquireStart, Acquire, GiveBack, MkdirSlot, ReadOwner, JudgeStale,
                  BreakExists, BreakUnlink, BreakRmdir, Remake, CheckDeadline, Wake,
                  ReleaseExists, ReleaseUnlink, ReleaseRmdir, Goto, NextSlot,
                  LeaseInv, TypeOK
    <3>2. QED
      BY <3>1, SameHolders
  <2>4. CASE Tick \/ UNCHANGED vars
    BY <2>4 DEF Tick, vars, env, Holders, Alive
  <2>5. QED
    BY <2>1, <2>2, <2>3, <2>4, NobodyCrashes DEF Next
<1>3. QED
  BY <1>1, <1>2, LeaseInvHolds, PTL DEF Spec, ImplementsPermits, Permits!Spec
=============================================================================
