------------------------------- MODULE MCLmdb -------------------------------
(***************************************************************************)
(* Lmdb for TLC: transactions up to MaxTxn while the first reader reads,   *)
(* which is as many as it takes to use a page again, or fewer while they   *)
(* all read.                                                               *)
(***************************************************************************)
EXTENDS Lmdb

CONSTANT First     \* the first reader

VARIABLE crowded   \* whether they all read

Fewer == INSTANCE Lmdb WITH MaxTxn <- MaxTxn - 2

OnlyFirst == \A r \in Readers : rpc'[r] # "idle" => r = First

CrowdedInit == Init /\ crowded \in BOOLEAN

CrowdedNext ==
  /\ \/ crowded /\ Fewer!Next
     \/ ~crowded /\ Next /\ OnlyFirst
  /\ UNCHANGED crowded

CrowdedSpec == CrowdedInit /\ [][CrowdedNext]_<<vars, crowded>>

=============================================================================
