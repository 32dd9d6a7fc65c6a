----------------------------- MODULE RunArchive -----------------------------
(***************************************************************************)
(* What publishing a run promises to those who read the state root: a run  *)
(* is archived at once and as a whole, an archived run never changes, and  *)
(* LATEST_RUN_ID names nothing but archived runs.                          *)
(***************************************************************************)
CONSTANTS Runs, Snapshots, None

VARIABLES archive,   \* archive[r]: the snapshot archived for run r, or None
          latest     \* the run LATEST_RUN_ID names, or None

vars == <<archive, latest>>

Init == /\ archive = [r \in Runs |-> None]
        /\ latest = None

Publish(r) == /\ archive[r] = None
              /\ archive'[r] \in Snapshots
              /\ archive' = [archive EXCEPT ![r] = archive'[r]]
              /\ UNCHANGED latest

Point(r) == /\ latest' = r
            /\ archive[r] # None
            /\ UNCHANGED archive

Next == \E r \in Runs : Point(r) \/ Publish(r)

Spec == Init /\ [][Next]_vars
=============================================================================
