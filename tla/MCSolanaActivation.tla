-------------------------- MODULE MCSolanaActivation --------------------------
(***************************************************************************)
(* A small instance of SolanaActivation for TLC: two stake accounts, a     *)
(* rate of a quarter, and a rest of the cluster that lets stake in fast    *)
(* and out slowly, or the other way round, so that a warmup and a cooldown *)
(* take from one epoch to several.  The second account has not delegated   *)
(* yet.                                                                    *)
(***************************************************************************)
EXTENDS SolanaActivation

CONSTANTS s1, s2

MCStakeAccount == {s1, s2}

MCStake == [s \in MCStakeAccount |-> IF s = s1 THEN 5 ELSE 3]

MCRest ==
  {[effective |-> 12, activating |-> 0, deactivating |-> 6],
   [effective |-> 4, activating |-> 3, deactivating |-> 0]}

MCInit == ActivationInit /\ account[s2] = Initialized

MCSpec == MCInit /\ [][ActivationNext]_activationVars
=============================================================================
