-------------------------- MODULE MCSolanaDiscovery --------------------------
(***************************************************************************)
(* A small instance of SolanaDiscovery for TLC.  The scan takes two        *)
(* batches of two.  The chain starts with stake accounts at the first and  *)
(* the last seed and one that no seed derives; the seeds between are free  *)
(* or taken.  Accounts of other kinds come with the changes.               *)
(***************************************************************************)
EXTENDS SolanaDiscovery, TLC

CONSTANT o1

MCOther == {o1}

MCInit ==
  /\ Init
  /\ \A a \in Account :
       chain[a].kind \in IF a \in {0, SeedScanMax, o1} THEN {"stake"} ELSE {"none", "stake"}

Symmetry == Permutations(Caller)

MCSpec == MCInit /\ [][Next]_vars
=============================================================================
