------------------------------ MODULE TtlCache ------------------------------
(***************************************************************************)
(* The SDK's in-memory cache                                               *)
(* (packages/sdk/src/cache/in-memory-cache.ts, createInMemoryCache): a Map *)
(* of entries with an expiration time.  Expired entries stay in the Map    *)
(* until get() meets them; has() sees through them and leaves them there;  *)
(* delete() reports on the Map, expired entries included.                  *)
(*                                                                         *)
(* size() only reads the Map and is no action.                             *)
(***************************************************************************)
EXTENDS Naturals

CONSTANTS
  Key,
  Value,
  Undefined,   \* JavaScript's undefined
  TTL,         \* the ttlMs clients pass to set
  DefaultTTL,  \* defaultTtlMs
  MaxClock     \* bound on the clock

ASSUME TtlCacheAssumption ==
  /\ Undefined \notin Key \cup Value \cup Nat
  /\ TTL \subseteq Nat
  /\ DefaultTTL \in Nat
  /\ MaxClock \in Nat

VARIABLES
  clock,   \* Date.now()
  store,   \* the Map: [val, until] under each key, or Missing
  last     \* the last call and what it returned

cacheVars == <<clock, store, last>>

Missing == [val |-> Undefined, until |-> 0]
CacheEntry == [val : Value, until : Nat]

Called(op, k, v, ttl, flag) == [op |-> op, key |-> k, val |-> v, ttl |-> ttl, flag |-> flag]
NoCall == Called("none", Undefined, Undefined, Undefined, FALSE)

CacheTypeOK ==
  /\ clock \in Nat
  /\ store \in [Key -> CacheEntry \cup {Missing}]
  /\ last \in [op : {"none", "set", "get", "has", "delete", "clear"},
               key : Key \cup {Undefined}, val : Value \cup {Undefined},
               ttl : TTL \cup {Undefined}, flag : BOOLEAN]

CacheInit ==
  /\ clock = 0
  /\ store = [k \in Key |-> Missing]
  /\ last = NoCall

Expired(entry) == clock >= entry.until

\* Mutant of ExpirationOf: an existing entry keeps its expiration.
ExpirationKept(k, ttl) ==
  IF store[k] # Missing THEN store[k].until
  ELSE clock + (IF ttl = Undefined THEN DefaultTTL ELSE ttl)

\* Date.now() + (ttlMs ?? defaultTtlMs)
ExpirationOf(k, ttl) == clock + (IF ttl = Undefined THEN DefaultTTL ELSE ttl)

Set(k, v, ttl) ==
  /\ store' = [store EXCEPT ![k] = [val |-> v, until |-> ExpirationOf(k, ttl)]]
  /\ last' = Called("set", k, v, ttl, FALSE)
  /\ UNCHANGED clock

GetHit(k) ==
  /\ store[k] # Missing
  /\ ~ Expired(store[k])
  /\ last' = Called("get", k, store[k].val, Undefined, FALSE)
  /\ UNCHANGED <<clock, store>>

\* get drops an expired entry.
GetMiss(k) ==
  /\ store[k] = Missing \/ Expired(store[k])
  /\ store' = [store EXCEPT ![k] = Missing]
  /\ last' = Called("get", k, Undefined, Undefined, FALSE)
  /\ UNCHANGED clock

\* Mutant of Has: an entry that awaits its lazy eviction counts.
HasInMap(k) ==
  /\ last' = Called("has", k, Undefined, Undefined, store[k] # Missing)
  /\ UNCHANGED <<clock, store>>

Has(k) ==
  /\ last' = Called("has", k, Undefined, Undefined,
                     store[k] # Missing /\ ~ Expired(store[k]))
  /\ UNCHANGED <<clock, store>>

\* Mutant of Delete: the stored value in the place of the Boolean.
DeleteReturnsValue(k) ==
  /\ store' = [store EXCEPT ![k] = Missing]
  /\ last' = Called("delete", k, Undefined, Undefined, store[k].val)
  /\ UNCHANGED clock

Delete(k) ==
  /\ store' = [store EXCEPT ![k] = Missing]
  /\ last' = Called("delete", k, Undefined, Undefined, store[k] # Missing)
  /\ UNCHANGED clock

Clear ==
  /\ store' = [k \in Key |-> Missing]
  /\ last' = Called("clear", Undefined, Undefined, Undefined, FALSE)
  /\ UNCHANGED clock

ClockTick ==
  /\ clock < MaxClock
  /\ clock' = clock + 1
  /\ UNCHANGED <<store, last>>

CacheNext ==
  \/ \E k \in Key, v \in Value, ttl \in TTL \cup {Undefined} : Set(k, v, ttl)
  \/ \E k \in Key : GetHit(k) \/ GetMiss(k) \/ Has(k) \/ Delete(k)
  \/ Clear
  \/ ClockTick

CacheSpec == CacheInit /\ [][CacheNext]_cacheVars

-----------------------------------------------------------------------------
(* Properties *)

\* What a client sees: the entries that have not expired.
Visible == [k \in Key |-> IF Expired(store[k]) THEN Missing ELSE store[k]]

Contract == INSTANCE TtlCacheSpec WITH content <- Visible, now <- clock

\* Lazy eviction, and the entries it leaves in the Map, cannot be told from a
\* map whose entries vanish on time: whatever the order of set, get, has,
\* delete, clear and the passage of time, every answer is the contract's.
ImplementsContract == Contract!Spec
=============================================================================
