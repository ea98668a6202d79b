---------------------------- MODULE MCTronSessions ----------------------------
(***************************************************************************)
(* A small instance of TronSessions for TLC: an account whose balance a    *)
(* Delegate can use up to the last SUN with no bandwidth left, and one     *)
(* with something frozen, voted, waiting, matured and earned, before its   *)
(* rewards are claimed and after.                                          *)
(***************************************************************************)
EXTENDS TronSessions, TLC

Poor ==
  [NoAccount EXCEPT !.balance = 3, !.frozen["ENERGY"] = 2]

Rich ==
  [NoAccount EXCEPT !.balance = 4, !.frozen["BANDWIDTH"] = 2, !.frozen["ENERGY"] = 3,
                    !.votes[AnySR] = 1, !.locked = <<1>>, !.matured = 2, !.reward = 1,
                    !.bandwidth = 2]

\* Two callers transact, or one does while the account changes on its own.
MCInit ==
  /\ height = 0
  /\ mempool = {} /\ landed = {} /\ refused = {}
  /\ \E alone \in BOOLEAN :
       /\ account \in {Poor, Rich} \cup IF alone THEN {[Rich EXCEPT !.cooling = TRUE]} ELSE {}
       /\ changes = IF alone THEN 0 ELSE MaxChanges
       /\ session \in [Session -> {Idle, [Idle EXCEPT !.pc = "threw"]}]
       /\ Cardinality({s \in Session : session[s] = Idle}) = IF alone THEN 1 ELSE 2

Symmetry == Permutations(Session)

MCSpec == MCInit /\ [][Next]_vars
=============================================================================
