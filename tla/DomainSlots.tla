---------------------------- MODULE DomainSlots ----------------------------
(***************************************************************************)
(* The concurrency half of src/src/harvest/domainlease.py: the slot        *)
(* directories of one domain, taken, judged stale, broken and given back   *)
(* by processes that share nothing but the filesystem.                     *)
(*                                                                         *)
(* Every system call of acquire(), _try_break_stale() and release() is a   *)
(* step of its own, because the module's promise -- never more than        *)
(* max_concurrency requests in flight on a domain -- lives or dies in the  *)
(* gaps between them.  Time is relative: Tick ages every timestamp, and an *)
(* age saturates at Stale, where nothing distinguishes older values.       *)
(*                                                                         *)
(* mkdir, and the opening, writing and reading of an owner file, may fail  *)
(* at any time.  Four constants describe the environment rather than the   *)
(* code:                                                                   *)
(*   MaxCrashes  how many workers may be killed, at any point              *)
(*   MaxStuck    how often an owner file or a directory that is there      *)
(*               cannot be removed                                         *)
(*   Overstay    whether a live worker may keep a slot for Stale or longer *)
(*   Prompt      whether a worker's bookkeeping calls take no time, i.e.   *)
(*               time passes only while workers sleep, hold or are idle    *)
(***************************************************************************)
EXTENDS Naturals, FiniteSets

CONSTANTS Workers,         \* the processes that fetch from this domain
          None,            \* "no directory", "no owner file", "nothing read"
          Blank,           \* an owner file that is there and says nothing
          MaxConcurrency,  \* number of slot_<i>.lease directories
          Stale,           \* lease_stale_sec, in ticks
          WaitMax,         \* wait_max_sec of acquire(), in ticks
          MaxCrashes, MaxStuck, Overstay, Prompt

ASSUME WorkersAssumption ==
         None \notin Workers /\ Blank \notin Workers \cup {None} /\ IsFiniteSet(Workers)
ASSUME BoundsAssumption ==
         /\ MaxConcurrency \in Nat \ {0}
         /\ Stale \in Nat \ {0}
         /\ WaitMax \in Nat
         /\ MaxCrashes \in Nat /\ MaxStuck \in Nat
ASSUME RegimeAssumption == Overstay \in BOOLEAN /\ Prompt \in BOOLEAN

Slots == 1..MaxConcurrency
Ages  == 0..Stale

VARIABLES
  dir,      \* dir[s]: the worker whose mkdir made slot s, or None when absent
  mtime,    \* mtime[s]: age of the directory's last modification
  owner,    \* owner[s]: the pid in the owner file, Blank, or None without one
  epoch,    \* epoch[s]: age of the acquisition time in the owner file
  open,     \* the workers that have the owner file of their slot open
  pc,       \* pc[p]: the system call worker p makes next
  at,       \* at[p]: the slot worker p is trying, holding or giving back
  seen,     \* seen[p]: the pid p last read from an owner file
  seenAge,  \* seenAge[p]: the age of the epoch p read with it
  waited,   \* waited[p]: time since p entered acquire()
  life,     \* life[p]: running, or how its death looks to _pid_alive
  stuck     \* how often something that is there could not be removed

files   == <<dir, mtime, owner, epoch, open>>
locals  == <<at, seen, seenAge, waited>>
env     == <<life, stuck>>
vars    == <<files, pc, locals, env>>

(* Where a worker rests while time passes, and where it is in the middle   *)
(* of filesystem bookkeeping.                                              *)
Resting  == {"idle", "sleep", "hold"}
Probing  == {"mkdir", "judge", "deadline"}
Breaking == {"brkExists", "brkUnlink", "brkRmdir", "remake"}
Owning   == {"own", "write", "hold", "relExists", "relUnlink", "relRmdir"}
Steps    == Resting \cup Probing \cup Breaking \cup Owning \cup {"read", "dead"}

Alive(p)      == life[p] = "alive"
PidAlive(pid) == life[pid] # "gone"   \* _pid_alive: undeterminable is alive

TypeOK ==
  /\ dir     \in [Slots -> Workers \cup {None}]
  /\ mtime   \in [Slots -> Ages]
  /\ owner   \in [Slots -> Workers \cup {None, Blank}]
  /\ epoch   \in [Slots -> Ages]
  /\ open    \in SUBSET Workers
  /\ pc      \in [Workers -> Steps]
  /\ at      \in [Workers -> Slots]
  /\ seen    \in [Workers -> Workers \cup {None}]
  /\ seenAge \in [Workers -> Ages]
  /\ waited  \in [Workers -> 0..WaitMax]
  /\ life    \in [Workers -> {"alive", "gone", "unprovable"}]
  /\ stuck   \in 0..MaxStuck

Init ==
  /\ dir     = [s \in Slots |-> None]
  /\ mtime   = [s \in Slots |-> 0]
  /\ owner   = [s \in Slots |-> None]
  /\ epoch   = [s \in Slots |-> 0]
  /\ open    = {}
  /\ pc      = [p \in Workers |-> "idle"]
  /\ at      = [p \in Workers |-> 1]
  /\ seen    = [p \in Workers |-> None]
  /\ seenAge = [p \in Workers |-> 0]
  /\ waited  = [p \in Workers |-> 0]
  /\ life    = [p \in Workers |-> "alive"]
  /\ stuck   = 0

-----------------------------------------------------------------------------
(* Moving a worker on.                                                     *)

Goto(p, step) == pc' = [pc EXCEPT ![p] = step]

Forget(p) == /\ seen' = [seen EXCEPT ![p] = None]
             /\ seenAge' = [seenAge EXCEPT ![p] = 0]

(* `continue` in the slot loop: the next slot, or the deadline check after *)
(* the last one.                                                           *)
NextSlot(p) ==
  /\ IF at[p] < MaxConcurrency
       THEN at' = [at EXCEPT ![p] = @ + 1] /\ Goto(p, "mkdir")
       ELSE Goto(p, "deadline") /\ UNCHANGED at
  /\ Forget(p)
  /\ UNCHANGED waited

(* The filesystem calls the module makes.  A file that has lost its name    *)
(* is nobody's owner file any more, whoever still has it open.             *)
Mkdir(p, s) ==
  /\ dir' = [dir EXCEPT ![s] = p]
  /\ mtime' = [mtime EXCEPT ![s] = 0]
  /\ UNCHANGED <<owner, epoch, open>>

Unlink(s) ==
  /\ owner' = [owner EXCEPT ![s] = None]
  /\ mtime' = [mtime EXCEPT ![s] = 0]
  /\ epoch' = [epoch EXCEPT ![s] = 0]
  /\ open' = {p \in open : at[p] # s}
  /\ UNCHANGED dir

CanRmdir(s) == dir[s] # None /\ owner[s] = None

Rmdir(s) ==
  /\ dir' = [dir EXCEPT ![s] = None]
  /\ mtime' = [mtime EXCEPT ![s] = 0]
  /\ UNCHANGED <<owner, epoch, open>>

(* A removal raises when there is nothing to remove, and now and then when  *)
(* there is.                                                               *)
RemovalFails(possible) ==
  IF possible THEN stuck < MaxStuck /\ stuck' = stuck + 1
              ELSE UNCHANGED stuck

(* _read_owner: a missing, empty or unreadable file names nobody.          *)
OwnerReads(s) == {None} \cup ({owner[s]} \cap Workers)
NamesOwner(s) == owner[s] \in Workers

-----------------------------------------------------------------------------
(* acquire()                                                               *)

AcquireStart(p) ==
  /\ pc[p] = "idle"
  /\ Goto(p, "mkdir")
  /\ at' = [at EXCEPT ![p] = 1]
  /\ waited' = [waited EXCEPT ![p] = 0]
  /\ UNCHANGED <<files, seen, seenAge, env>>

(* Mutant: an existing directory counts as acquired (exist_ok).            *)
MkdirSlotExistOk(p) ==
  /\ pc[p] = "mkdir"
  /\ Mkdir(p, at[p]) /\ Goto(p, "own")
  /\ UNCHANGED <<locals, env>>

(* Any error but FileExistsError passes the slot over.                     *)
MkdirSlot(p) ==
  /\ pc[p] = "mkdir"
  /\ \/ /\ dir[at[p]] = None
        /\ Mkdir(p, at[p]) /\ Goto(p, "own") /\ UNCHANGED locals
     \/ /\ dir[at[p]] # None
        /\ Goto(p, "read") /\ UNCHANGED <<files, locals>>
     \/ NextSlot(p) /\ UNCHANGED files
  /\ UNCHANGED env

ReadOwner(p) ==
  /\ pc[p] = "read"
  /\ \E pid \in OwnerReads(at[p]) :
       /\ seen' = [seen EXCEPT ![p] = pid]
       /\ seenAge' = [seenAge EXCEPT ![p] = IF pid = None THEN 0 ELSE epoch[at[p]]]
  /\ Goto(p, "judge")
  /\ UNCHANGED <<files, at, waited, env>>

(* Mutants: an ownerless slot is broken at any age; the age rule is gone.  *)
LooksStaleAtOnce(p) ==
  IF seen[p] = None
    THEN dir[at[p]] # None
    ELSE ~PidAlive(seen[p]) \/ seenAge[p] >= Stale

LooksStaleByPid(p) == seen[p] # None /\ ~PidAlive(seen[p])

(* With an owner: break when its pid is provably gone or its epoch is old. *)
(* Without one: the slot may be half made, so age the directory out.       *)
LooksStale(p) ==
  IF seen[p] = None
    THEN dir[at[p]] # None /\ mtime[at[p]] >= Stale
    ELSE ~PidAlive(seen[p]) \/ seenAge[p] >= Stale

JudgeStale(p) ==
  /\ pc[p] = "judge"
  /\ IF LooksStale(p)
       THEN Goto(p, "brkExists") /\ Forget(p) /\ UNCHANGED <<at, waited>>
       ELSE NextSlot(p)
  /\ UNCHANGED <<files, env>>

BreakExists(p) ==
  /\ pc[p] = "brkExists"
  /\ Goto(p, IF owner[at[p]] # None THEN "brkUnlink" ELSE "brkRmdir")
  /\ UNCHANGED <<files, locals, env>>

BreakUnlink(p) ==
  /\ pc[p] = "brkUnlink"
  /\ \/ /\ owner[at[p]] # None
        /\ Unlink(at[p]) /\ Goto(p, "brkRmdir") /\ UNCHANGED <<locals, stuck>>
     \/ /\ RemovalFails(owner[at[p]] # None)
        /\ NextSlot(p) /\ UNCHANGED files
  /\ UNCHANGED life

BreakRmdir(p) ==
  /\ pc[p] = "brkRmdir"
  /\ \/ /\ CanRmdir(at[p])
        /\ Rmdir(at[p]) /\ Goto(p, "remake") /\ UNCHANGED <<locals, stuck>>
     \/ /\ RemovalFails(CanRmdir(at[p]))
        /\ NextSlot(p) /\ UNCHANGED files
  /\ UNCHANGED life

Remake(p) ==
  /\ pc[p] = "remake"
  /\ \/ /\ dir[at[p]] = None
        /\ Mkdir(p, at[p]) /\ Goto(p, "own") /\ UNCHANGED locals
     \/ NextSlot(p) /\ UNCHANGED files
  /\ UNCHANGED env

(* _write_owner, best effort: opening creates the file or empties it.  An  *)
(* error -- without its directory the open always fails -- is swallowed,   *)
(* and acquire() returns the slot all the same.                            *)
OpenOwner(p) ==
  /\ pc[p] = "own"
  /\ \/ /\ dir[at[p]] # None
        /\ owner' = [owner EXCEPT ![at[p]] = Blank]
        /\ epoch' = [epoch EXCEPT ![at[p]] = 0]
        /\ mtime' = [mtime EXCEPT ![at[p]] = IF owner[at[p]] = None THEN 0 ELSE @]
        /\ open' = open \cup {p}
        /\ Goto(p, "write")
        /\ UNCHANGED dir
     \/ Goto(p, "hold") /\ UNCHANGED files
  /\ UNCHANGED <<locals, env>>

(* The line written, unless that fails, too, or the file has been unlinked *)
(* and nobody will ever read it.                                           *)
WriteOwner(p) ==
  /\ pc[p] = "write"
  /\ \/ /\ p \in open
        /\ owner' = [owner EXCEPT ![at[p]] = p]
        /\ epoch' = [epoch EXCEPT ![at[p]] = 0]
     \/ UNCHANGED <<owner, epoch>>
  /\ open' = open \ {p}
  /\ Goto(p, "hold")
  /\ UNCHANGED <<dir, mtime, locals, env>>

(* Mutant: the wait has no deadline.                                       *)
CheckDeadlineNever(p) ==
  /\ pc[p] = "deadline"
  /\ Goto(p, "sleep")
  /\ UNCHANGED <<files, locals, env>>

(* No slot this time round: LeaseTimeout past the deadline, possibly the   *)
(* caller's BudgetExhausted before it, otherwise a jittered sleep.         *)
CheckDeadline(p) ==
  /\ pc[p] = "deadline"
  /\ \/ Goto(p, "idle")
     \/ waited[p] < WaitMax /\ Goto(p, "sleep")
  /\ UNCHANGED <<files, locals, env>>

Wake(p) ==
  /\ pc[p] = "sleep"
  /\ Goto(p, "mkdir")
  /\ at' = [at EXCEPT ![p] = 1]
  /\ UNCHANGED <<files, seen, seenAge, waited, env>>

-----------------------------------------------------------------------------
(* release()                                                               *)

Release(p) ==
  /\ pc[p] = "hold"
  /\ \E pid \in OwnerReads(at[p]) :
       Goto(p, IF pid \in {None, p} THEN "relExists" ELSE "idle")
  /\ UNCHANGED <<files, locals, env>>

ReleaseExists(p) ==
  /\ pc[p] = "relExists"
  /\ Goto(p, IF owner[at[p]] # None THEN "relUnlink" ELSE "relRmdir")
  /\ UNCHANGED <<files, locals, env>>

ReleaseUnlink(p) ==
  /\ pc[p] = "relUnlink"
  /\ \/ /\ owner[at[p]] # None
        /\ Unlink(at[p]) /\ Goto(p, "relRmdir") /\ UNCHANGED stuck
     \/ /\ RemovalFails(owner[at[p]] # None)
        /\ Goto(p, "idle") /\ UNCHANGED files
  /\ UNCHANGED <<locals, life>>

ReleaseRmdir(p) ==
  /\ pc[p] = "relRmdir"
  /\ Goto(p, "idle")
  /\ \/ CanRmdir(at[p]) /\ Rmdir(at[p]) /\ UNCHANGED stuck
     \/ RemovalFails(CanRmdir(at[p])) /\ UNCHANGED files
  /\ UNCHANGED <<locals, life>>

-----------------------------------------------------------------------------
(* The environment: a killed process, and time.                            *)

Crash(p) ==
  /\ Alive(p)
  /\ Cardinality({q \in Workers : ~Alive(q)}) < MaxCrashes
  /\ pc[p] # "idle"
  /\ \E d \in {"gone", "unprovable"} : life' = [life EXCEPT ![p] = d]
  /\ Goto(p, "dead")
  /\ Forget(p)
  /\ open' = open \ {p}
  /\ UNCHANGED <<dir, mtime, owner, epoch, at, waited, stuck>>

Older(a) == IF a < Stale THEN a + 1 ELSE Stale

Tick ==
  /\ Prompt => \A p \in Workers : Alive(p) => pc[p] \in Resting
  /\ ~Overstay => \A s \in Slots : dir[s] # None /\ Alive(dir[s]) =>
                     mtime[s] + 1 < Stale /\ epoch[s] + 1 < Stale
  /\ mtime'   = [s \in Slots |-> IF dir[s] = None THEN 0 ELSE Older(mtime[s])]
  /\ epoch'   = [s \in Slots |-> IF NamesOwner(s) THEN Older(epoch[s]) ELSE 0]
  /\ seenAge' = [p \in Workers |-> IF seen[p] = None THEN 0 ELSE Older(seenAge[p])]
  /\ waited'  = [p \in Workers |-> IF waited[p] < WaitMax THEN waited[p] + 1
                                                          ELSE WaitMax]
  /\ UNCHANGED <<dir, owner, open, pc, at, seen, env>>

Acquire(p) ==
  \/ MkdirSlot(p)   \/ ReadOwner(p)   \/ JudgeStale(p) \/ BreakExists(p)
  \/ BreakUnlink(p) \/ BreakRmdir(p)  \/ Remake(p)     \/ OpenOwner(p)
  \/ WriteOwner(p)  \/ CheckDeadline(p) \/ Wake(p)

GiveBack(p) ==
  \/ Release(p) \/ ReleaseExists(p) \/ ReleaseUnlink(p) \/ ReleaseRmdir(p)

Next ==
  \/ \E p \in Workers : AcquireStart(p) \/ Acquire(p) \/ GiveBack(p) \/ Crash(p)
  \/ Tick

Spec == Init /\ [][Next]_vars

(* Fairness: a running process keeps executing, its request ends, it goes  *)
(* on to its next request of the domain, and time does not stand still.    *)
Fairness ==
  /\ \A p \in Workers : WF_vars(AcquireStart(p)) /\ WF_vars(Acquire(p))
                        /\ WF_vars(GiveBack(p))
  /\ WF_vars(Tick)

FairSpec == Spec /\ Fairness
-----------------------------------------------------------------------------
(* What the module promises.                                               *)

Holders == {p \in Workers : Alive(p) /\ pc[p] = "hold"}

(* The workers that made a slot and have not yet removed it.               *)
Owners == {p \in Workers : pc[p] \in Owning}

(* At no time are more than max_concurrency workers between acquire() and  *)
(* release(): the cap of domainlease.py:4-8 that no in-process limiter     *)
(* could enforce.                                                          *)
ConcurrencyCap == Cardinality(Holders) <= MaxConcurrency

(* What makes the cap inductive while nobody crashes or overstays: a slot  *)
(* directory has exactly one owner and an owner exactly one directory, an  *)
(* owner file names the directory's maker, nothing on disk or in a         *)
(* worker's hand is old enough to justify breaking, so nobody breaks.      *)
LeaseInv ==
  /\ TypeOK
  /\ \A p \in Workers : Alive(p) /\ pc[p] \notin Breaking \cup {"dead"}
  /\ \A p \in Owners : dir[at[p]] = p
  /\ \A s \in Slots : dir[s] # None => dir[s] \in Owners /\ at[dir[s]] = s
  /\ \A s \in Slots : owner[s] \in {None, Blank, dir[s]}
  /\ \A s \in Slots : dir[s] = None => owner[s] = None
  /\ \A s \in Slots : mtime[s] < Stale /\ epoch[s] < Stale
  /\ \A p \in Workers : pc[p] = "judge" => seenAge[p] < Stale
  /\ \A p \in Workers : pc[p] = "relUnlink" => owner[at[p]] # None
  /\ \A p \in Workers : pc[p] = "relRmdir" => owner[at[p]] = None

(* Under the same regime the directories are a counting semaphore: every   *)
(* step of acquire() and release() takes or gives a permit, or is          *)
(* invisible to the callers of domainlease.py.                             *)
Permits == INSTANCE DomainPermits WITH holders <- Holders
ImplementsPermits == Permits!Spec

(* A slot directory removed while being broken was made by a process that  *)
(* is not running, or is at least lease_stale_sec old: "wrongly stealing a *)
(* live slot causes the exact over-concurrency this module exists to       *)
(* prevent" (domainlease.py:31-35, _try_break_stale).                      *)
StealsOnlyStale ==
  [][\A p \in Workers, s \in Slots :
       pc[p] = "brkRmdir" /\ pc'[p] = "remake" /\ s = at[p] /\ dir[s] # None
         => ~Alive(dir[s]) \/ mtime[s] >= Stale]_vars

(* release() removes nothing but the directory its caller made: "never     *)
(* releases another's slot" (domainlease.py:268).  No run checks this: it  *)
(* says nothing where no slot changes hands, and where one does            *)
(* (Overstay = TRUE) it is false, because release() takes a slot without a *)
(* readable owner for its own and does not look again before it removes.   *)
ReleasesOnlyOwn ==
  [][\A p \in Workers :
       pc[p] \in {"relUnlink", "relRmdir"} /\ pc'[p] # pc[p] /\ pc'[p] # "dead"
         /\ <<dir, owner>>' # <<dir, owner>>
         => dir[at[p]] = p]_vars

(* acquire() always returns or raises, whatever the other workers do and   *)
(* wherever they are killed ("rather than blocking forever", :230).        *)
AcquireEnds ==
  \A p \in Workers : pc[p] = "mkdir" ~> pc[p] \in {"hold", "idle", "dead"}

(* A worker killed at any system call does not wedge the domain, and nor   *)
(* does a live one whose release() could not remove its directory: as long *)
(* as somebody gets to look at the slot it is taken back in the end        *)
(* (domainlease.py:29-30).                                                 *)
NoWedge ==
  \A s \in Slots :
    ([]<>\E p \in Workers : pc[p] = "read" /\ at[p] = s)
      => []<>(dir[s] = None \/ (dir[s] \in Owners /\ at[dir[s]] = s))
=============================================================================
