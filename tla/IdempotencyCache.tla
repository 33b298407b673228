-------------------------- MODULE IdempotencyCache --------------------------
(***************************************************************************)
(* BoundedIdempotencyCache (crates/frick-store/src/stores/idempotency.rs): *)
(* the LRU map in front of the idempotency_keys table.  The code keeps     *)
(* recency as monotonic stamps in a BTreeMap; here `order` lists the keys, *)
(* the least recently used first.  The store keeps the cache in a          *)
(* Mutex<Option<...>>: `present` is the Option.                            *)
(***************************************************************************)
EXTENDS Integers, Sequences

CONSTANTS
    Keys,      \* what a retry repeats: (app, tenant, replica, request)
    EventIds,  \* the event ids the id generator hands out, in order
    Capacity   \* the capacity of the cache

ASSUME EventIdsAssumption == EventIds \subseteq Nat \ {0}
ASSUME CapacityAssumption == Capacity \in Nat

NoEvent == 0

(* CachedIdempotentEvent: the event as it was when it was cached, `erased`  *)
(* if its payload had been redacted by then, and its created_at.            *)
Entry == [id : EventIds \cup {NoEvent}, erased : BOOLEAN, at : Int]
NoEntry == [id |-> NoEvent, erased |-> FALSE, at |-> 0]

Cache == [present : BOOLEAN, entries : [Keys -> Entry], order : Seq(Keys)]
FreshCache == [present |-> TRUE, entries |-> [k \in Keys |-> NoEntry],
               order |-> <<>>]
NoCache == [FreshCache EXCEPT !.present = FALSE]

Caches(cache, k) == cache.entries[k].id # NoEvent

(* The key moves to the most recent end, whether it was there or not.       *)
MostRecent(order, k) == Append(SelectSeq(order, LAMBDA other : other # k), k)

(* get: a hit makes the key the most recent one, even when the caller then  *)
(* finds the entry too old to use; a miss changes nothing.                  *)
Touched(cache, k) ==
    IF Caches(cache, k) THEN [cache EXCEPT !.order = MostRecent(@, k)] ELSE cache

(* set, then evict the oldest entries while there are more than `capacity`  *)
(* (one at most, since set adds at most one).                               *)
WithEntry(cache, k, entry) ==
    LET order   == MostRecent(cache.order, k)
        added   == [cache.entries EXCEPT ![k] = entry]
        oldest  == Head(order)
    IN  IF Len(order) <= Capacity
        THEN [present |-> cache.present, entries |-> added, order |-> order]
        ELSE [present |-> cache.present, order |-> Tail(order),
              entries |-> [added EXCEPT ![oldest] = NoEntry]]
=============================================================================
