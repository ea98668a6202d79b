-------------------------- MODULE MCSolanaSessions --------------------------
(***************************************************************************)
(* A small instance of SolanaSessions for TLC: two seeds, of which the     *)
(* second is free or holds a stake account, and a wallet that can pay one  *)
(* delegation to the last lamport, one and its own rent, or two.           *)
(***************************************************************************)
EXTENDS SolanaSessions, TLC

Holding(k, deact, lockup) == [kind |-> k, lamports |-> 3, deact |-> deact, lockup |-> lockup]

Staked == Holding("Stake", Never, 0)

\* The two accounts, the wallet, and whether preflight may be skipped.
Cases ==
  {<<NoAccount, NoAccount, 12, BOOLEAN>>, <<NoAccount, NoAccount, 6, {FALSE}>>,
   <<NoAccount, Staked, 7, {FALSE}>>, <<Staked, NoAccount, 7, {FALSE}>>,
   <<Holding("Stake", 0, 0), NoAccount, 7, BOOLEAN>>,
   <<Holding("Initialized", Never, 1), NoAccount, 7, {FALSE}>>,
   <<Holding("Foreign", Never, 0), NoAccount, 7, {FALSE}>>,
   <<Holding("Alien", Never, 0), Staked, 7, {FALSE}>>,
   <<Holding("Unreadable", Never, 0), Holding("Uninitialized", Never, 0), 7, {FALSE}>>}

MCInit ==
  /\ height = 0
  /\ \E c \in Cases :
       /\ account = (0 :> c[1] @@ 1 :> c[2])
       /\ wallet = c[3]
       /\ skipPreflight \in c[4]
  /\ pool = {} /\ landed = {} /\ refused = {}
  /\ deposits = 0
  /\ session = [s \in Session |-> Idle]

Symmetry == Permutations(Session)

MCSpec == MCInit /\ [][Next]_vars
=============================================================================
