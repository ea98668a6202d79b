----------------------------- MODULE MCBscWallet -----------------------------
(***************************************************************************)
(* A small instance of BscWallet for TLC: a position whose value converts  *)
(* back to one share less than it has, two unbond requests one of which is *)
(* unlocked, and at most two callers that transact while one lists.        *)
(***************************************************************************)
EXTENDS BscWallet, TLC

CONSTANTS v1, v2

\* What may happen beside the callers: a caller and a viewer, two callers, or
\* one caller while rewards are paid and validators slashed and released.
Company == {"viewer", "caller", "events"}

MCInit ==
  /\ nonce = 0 /\ requests = 2
  /\ shares = (v1 :> 2 @@ v2 :> 0)
  /\ pooled = (v1 :> 4 @@ v2 :> 3)
  /\ total = (v1 :> 3 @@ v2 :> 3)
  /\ queue = (v1 :> <<[id |-> 1, unlocked |-> TRUE], [id |-> 2, unlocked |-> FALSE]>>
              @@ v2 :> <<>>)
  /\ mempool = {} /\ refused = {}
  /\ \E company \in Company :
       /\ rewards = IF company = "events" THEN 0 ELSE MaxRewards
       /\ slashes \in [Validator -> {IF company = "events" THEN 0 ELSE MaxSlashes}]
       /\ jailed = IF company = "events" THEN {} ELSE {v2}
       /\ viewer \in [Viewer -> {IF company = "viewer" THEN IdleViewer
                                 ELSE [IdleViewer EXCEPT !.pc = "threw"]}]
       /\ session \in [Session -> {IdleSession, [IdleSession EXCEPT !.pc = "threw"]}]
       /\ Cardinality({s \in Session : session[s] = IdleSession})
            = IF company = "caller" THEN 2 ELSE 1

Symmetry == Permutations(Session)

MCSpec == MCInit /\ [][Next]_vars
=============================================================================
