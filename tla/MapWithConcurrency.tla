------------------------- MODULE MapWithConcurrency -------------------------
(***************************************************************************)
(* mapWithConcurrency of the Tron staking service                          *)
(* (packages/tron/src/tron-chain/services/staking-service.ts): an async fn *)
(* is applied to n items by a fixed number of workers that share the       *)
(* counter nextIndex.  What fn returns for the item at index i is           *)
(* abstracted to the index i itself.                                       *)
(*                                                                         *)
(* n and limit are the arguments of one call: variables that never change. *)
(***************************************************************************)
EXTENDS Integers, FiniteSets

CONSTANTS
  MaxItems,   \* bound on n
  MaxLimit    \* bound on limit

ASSUME BoundsAssumption == MaxItems \in Nat /\ MaxLimit \in Nat

VARIABLES
  n,          \* items.length
  limit,
  outcome,    \* of the promise returned: "unsent" before the call
  nextIndex,
  worker,     \* the workers: [pc, i], i the index a worker awaits
  results     \* the array; n is a hole

vars == <<n, limit, outcome, nextIndex, worker, results>>

Index == 0 .. n - 1
Hole == n

\* Mutant of WorkerCount: the limit is not applied.
WorkerPerItem == IF n < 1 THEN 1 ELSE n

\* Math.max(1, Math.min(limit, items.length))
WorkerCount == LET least == IF limit < n THEN limit ELSE n
               IN  IF least < 1 THEN 1 ELSE least

Workers == 1 .. WorkerCount

TypeOK ==
  /\ n \in Nat
  /\ limit \in Nat
  /\ outcome \in {"unsent", "pending", "resolved", "rejected"}
  /\ nextIndex \in Nat
  /\ worker \in [Workers -> [pc : {"new", "awaiting", "done", "failed"}, i : Index \cup {0}]]
  /\ results \in [Index -> Index \cup {Hole}]

Init ==
  /\ n \in 0 .. MaxItems
  /\ limit \in 0 .. MaxLimit
  /\ outcome = "unsent"
  /\ nextIndex = 0
  /\ worker = [w \in Workers |-> [pc |-> "new", i |-> 0]]
  /\ results = [i \in Index |-> Hole]

\* Mutant of Claiming: `i > items.length`.
ClaimingOneMore(i) == IF i > n THEN [pc |-> "done", i |-> 0] ELSE [pc |-> "awaiting", i |-> i]

\* A worker that has just read nextIndex = i, and incremented it.
Claiming(i) == IF i >= n THEN [pc |-> "done", i |-> 0] ELSE [pc |-> "awaiting", i |-> i]

\* Array.from starts the workers one after the other, each up to its first
\* await: together they claim the first indices.
Launch ==
  /\ outcome = "unsent"
  /\ outcome' = "pending"
  /\ worker' = [w \in Workers |-> Claiming(w - 1)]
  /\ nextIndex' = WorkerCount
  /\ UNCHANGED <<n, limit, results>>

\* Mutant of ItemResolves: results.push(value) in the place of results[i].
ItemPushed(w) ==
  /\ worker[w].pc = "awaiting"
  /\ results' = [results EXCEPT ![Cardinality({i \in Index : results[i] # Hole})] = worker[w].i]
  /\ worker' = [worker EXCEPT ![w] = Claiming(nextIndex)]
  /\ nextIndex' = nextIndex + 1
  /\ UNCHANGED <<n, limit, outcome>>

\* Mutant of ItemResolves: the counter is read again, but incremented late.
ItemResolvesLate(w) ==
  /\ worker[w].pc = "awaiting"
  /\ results' = [results EXCEPT ![worker[w].i] = worker[w].i]
  /\ worker' = [worker EXCEPT ![w] = Claiming(nextIndex)]
  /\ nextIndex' = IF worker[w].i + 1 = nextIndex THEN nextIndex + 1 ELSE nextIndex
  /\ UNCHANGED <<n, limit, outcome>>

\* Worker w resumes: it stores the result and claims the next index.
ItemResolves(w) ==
  /\ worker[w].pc = "awaiting"
  /\ results' = [results EXCEPT ![worker[w].i] = worker[w].i]
  /\ worker' = [worker EXCEPT ![w] = Claiming(nextIndex)]
  /\ nextIndex' = nextIndex + 1
  /\ UNCHANGED <<n, limit, outcome>>

\* Mutant of ItemRejects: nobody is told of the rejection.
ItemRejectsUnseen(w) ==
  /\ worker[w].pc = "awaiting"
  /\ worker' = [worker EXCEPT ![w].pc = "failed"]
  /\ UNCHANGED <<n, limit, outcome, nextIndex, results>>

\* fn rejects: worker w ends, Promise.all rejects, the other workers go on.
ItemRejects(w) ==
  /\ worker[w].pc = "awaiting"
  /\ worker' = [worker EXCEPT ![w] = [pc |-> "failed", i |-> 0]]
  /\ outcome' = "rejected"
  /\ UNCHANGED <<n, limit, nextIndex, results>>

\* Mutant of AllDone: Promise.race in the place of Promise.all.
AnyDone == \E w \in Workers : worker[w].pc = "done"

AllDone == \A w \in Workers : worker[w].pc = "done"

Resolve ==
  /\ outcome = "pending"
  /\ AllDone
  /\ outcome' = "resolved"
  /\ UNCHANGED <<n, limit, nextIndex, worker, results>>

ItemSettles(w) == ItemResolves(w) \/ ItemRejects(w)

Next ==
  \/ Launch
  \/ \E w \in Workers : ItemResolves(w) \/ ItemRejects(w)
  \/ Resolve

\* The map has been launched, every fn call settles, and callbacks run.
Fairness ==
  /\ WF_vars(\E w \in Workers : ItemSettles(w))
  /\ WF_vars(Resolve)

Safe == Init /\ [][Next]_vars
Spec == Safe /\ Fairness

-----------------------------------------------------------------------------
(* Properties *)

InFlight == {worker[w].i : w \in {v \in Workers : worker[v].pc = "awaiting"}}

\* Workers never run fn on one item twice: those that await hold different
\* indices, and none of an item that already has its result.
NoItemTwice ==
  \A v, w \in Workers : worker[v].pc = "awaiting" =>
    /\ results[worker[v].i] = Hole
    /\ worker[w].pc = "awaiting" /\ worker[v].i = worker[w].i => v = w

\* The promise resolves only with every result in place, in input order.
ResolvedInOrder == outcome = "resolved" => \A i \in Index : results[i] = i

\* "at most `limit` in-flight calls at a time"; a limit of 0 still runs one.
WithinLimit == Cardinality(InFlight) <= (IF limit < 1 THEN 1 ELSE limit)

\* Once called, the map settles, and even when it rejects no worker goes on
\* for ever.
Quiesces ==
  outcome = "pending"
    ~> outcome \in {"resolved", "rejected"} /\ InFlight = {}
=============================================================================
