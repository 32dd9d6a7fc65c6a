--------------------------- MODULE MCDomainSlots ---------------------------
(***************************************************************************)
(* DomainSlots for TLC: the configurations choose how many workers and     *)
(* slots there are and how the environment behaves.                        *)
(***************************************************************************)
EXTENDS DomainSlots
=============================================================================
