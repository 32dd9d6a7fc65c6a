--------------------------- MODULE DomainPermits ---------------------------
(***************************************************************************)
(* What a domain lease promises, with no filesystem in sight: a counting   *)
(* semaphore of MaxConcurrency permits.  DomainSlots implements it as long *)
(* as no lease outlives its holder or its lease_stale_sec.                 *)
(***************************************************************************)
EXTENDS Naturals, FiniteSets

CONSTANTS Workers, MaxConcurrency

VARIABLE holders   \* the workers between acquire() and release()

Init == holders = {}

Take(p) ==
  /\ p \notin holders
  /\ Cardinality(holders) < MaxConcurrency
  /\ holders' = holders \cup {p}

Give(p) ==
  /\ p \in holders
  /\ holders' = holders \ {p}

Next == \E p \in Workers : Take(p) \/ Give(p)

Spec == Init /\ [][Next]_holders
=============================================================================
