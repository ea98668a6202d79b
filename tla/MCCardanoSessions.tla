-------------------------- MODULE MCCardanoSessions --------------------------
(***************************************************************************)
(* A small instance of CardanoSessions for TLC.  A unit of size is one     *)
(* input (36 bytes) and a lovelace here is 1600 of the chain's, so that    *)
(* fee, deposit, minimum UTXO and input are in the proportions of mainnet. *)
(***************************************************************************)
EXTENDS CardanoSessions, TLC

U(id, ada, pure) == [id |-> id, ada |-> ada, pure |-> pure]
A(state, rewards, deposit) == [state |-> state, rewards |-> rewards, deposit |-> deposit]

\* Wallets that need one UTXO more for signing than for the estimate, a token
\* between two pages, three UTXOs once the largest is spent, and lovelace
\* only behind the pages that are read.
Tight == <<U(1, 710, TRUE), U(2, 710, TRUE), U(3, 710, TRUE)>>
Token == <<U(1, 710, TRUE), U(2, 5000, FALSE), U(3, 2500, TRUE)>>
Large == <<U(1, 2500, TRUE), U(2, 710, TRUE), U(3, 710, TRUE), U(4, 710, TRUE)>>
Buried == [k \in 1 .. 5 |-> U(k, 2500, k = 5)]

Earning == A("Active", 5, 1250)
New == NoAccount
Retired == A("Idle", 0, 1250)

\* One caller while something else changes the ledger, or two callers that
\* change it for each other.
Cases ==
  {<<Tight, Earning, 0>>, <<Tight, New, 0>>, <<Token, New, 0>>, <<Token, Retired, 0>>,
   <<Large, New, 0>>, <<Buried, Earning, 0>>,
   <<Large, A("Active", 0, 1250), 0>>, <<Large, Earning, MaxChanges>>, <<Large, New, MaxChanges>>}

MCInit ==
  /\ slot = 1
  /\ births = 5
  /\ keyDeposit = 1250
  /\ mempool = {} /\ refused = {}
  /\ \E c \in Cases :
       /\ wallet = c[1] /\ account = c[2] /\ changes = c[3]
       /\ session \in [Session -> {Idle, [Idle EXCEPT !.pc = "threw"]}]
       /\ Cardinality({s \in Session : session[s] = Idle}) = IF c[3] = 0 THEN 1 ELSE 2

Symmetry == Permutations(Session)

MCSpec == MCInit /\ [][Next]_vars
=============================================================================
