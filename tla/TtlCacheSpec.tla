---------------------------- MODULE TtlCacheSpec ----------------------------
(***************************************************************************)
(* What a client of the SDK cache may rely on                              *)
(* (packages/sdk/src/cache/cache-contract.ts): a map whose entries vanish  *)
(* by themselves the moment their time to live is over.  Reading changes   *)
(* nothing.  Nothing is said of how, or when, memory is given back.        *)
(***************************************************************************)
EXTENDS Naturals

CONSTANTS
  Key,
  Value,
  Undefined,   \* JavaScript's undefined: the answer to a miss
  TTL,         \* the times to live clients pass to set
  DefaultTTL   \* the one used when they pass none

VARIABLES
  now,      \* Date.now()
  content,  \* what each key maps to: [val, until], or Absent
  last      \* the last call and what it returned

vars == <<now, content, last>>

Absent == [val |-> Undefined, until |-> 0]
Entry == [val : Value, until : Nat]

\* A call of op on key k with its value (passed to set, returned by get), the
\* time to live passed, and the Boolean returned.
Called(op, k, v, ttl, flag) == [op |-> op, key |-> k, val |-> v, ttl |-> ttl, flag |-> flag]
NoCall == Called("none", Undefined, Undefined, Undefined, FALSE)

\* The time to live in force when a client passes ttl, perhaps undefined.
Effective(ttl) == IF ttl = Undefined THEN DefaultTTL ELSE ttl

\* An entry that has come to its end is no entry.
Unexpired(entry, t) == IF t < entry.until THEN entry ELSE Absent

Init ==
  /\ now = 0
  /\ content = [k \in Key |-> Absent]
  /\ last = NoCall

Put(k, v, ttl) ==
  /\ content' = [content EXCEPT ![k] =
                   Unexpired([val |-> v, until |-> now + Effective(ttl)], now)]
  /\ last' = Called("set", k, v, ttl, FALSE)
  /\ UNCHANGED now

Lookup(k) ==
  /\ last' = Called("get", k, content[k].val, Undefined, FALSE)
  /\ UNCHANGED <<now, content>>

Test(k) ==
  /\ last' = Called("has", k, Undefined, Undefined, content[k] # Absent)
  /\ UNCHANGED <<now, content>>

\* An absent key may be reported as deleted: its entry may still have been
\* in memory.
Remove(k) ==
  /\ content' = [content EXCEPT ![k] = Absent]
  /\ \E b \in BOOLEAN :
       /\ content[k] # Absent => b
       /\ last' = Called("delete", k, Undefined, Undefined, b)
  /\ UNCHANGED now

RemoveAll ==
  /\ content' = [k \in Key |-> Absent]
  /\ last' = Called("clear", Undefined, Undefined, Undefined, FALSE)
  /\ UNCHANGED now

Elapse ==
  /\ now' = now + 1
  /\ content' = [k \in Key |-> Unexpired(content[k], now')]
  /\ UNCHANGED last

Next ==
  \/ \E k \in Key, v \in Value, ttl \in TTL \cup {Undefined} : Put(k, v, ttl)
  \/ \E k \in Key : Lookup(k) \/ Test(k) \/ Remove(k)
  \/ RemoveAll
  \/ Elapse

Spec == Init /\ [][Next]_vars
=============================================================================
