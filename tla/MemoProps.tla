------------------------------- MODULE MemoProps -------------------------------
(***************************************************************************)
(* Correctness properties of caches and memoized functions.                  *)
(***************************************************************************)
EXTENDS Memo

(* What a policy keeps beside its map agrees with the map, whatever threads  *)
(* store over each other: every cached key can still be given up.  A FIFO    *)
(* queue has one place for each entry and holds each cached key once; an LRU or LU table *)
(* has exactly the cached keys; an entry of a TTL cache is in its queue under *)
(* the generation it has, so it is dropped once it is old.                   *)
CacheWellFormed ==
  LET c == cache
      Queued(k) == {i \in DOMAIN c.q : c.q[i] = k}
  IN  CASE c.policy = "fifo" ->
             /\ c.q = <<>> \/ Len(c.q) = c.limit
             /\ \A k \in Key : Cardinality(Queued(k)) = IF k \in Keys(c.map) THEN 1 ELSE 0
        [] c.policy = "lru"  -> Keys(c.lru) = Keys(c.map)
        [] c.policy = "lu"   -> Keys(c.lu) = Keys(c.map)
        [] c.policy = "ttl"  ->
             /\ Keys(c.ttl) = Keys(c.map)
             /\ \A k \in Keys(c.map) :
                  [key |-> k, gen |-> c.ttl[k].gen, at |-> c.ttl[k].at] \in Range(c.q)
        [] OTHER -> TRUE

(* A FIFO, LRU or LU cache never holds more than its threshold.  (The limits *)
(* of a LIRS cache bound its two histories only while every candidate is     *)
(* cached, which its operations do not keep.)                                *)
SizeBounded ==
  cache.policy \in {"fifo", "lru", "lu"} => Size(cache) <= cache.limit

(* A function behind a cache that forgets nothing is never run for a key     *)
(* while it runs, or after it has returned, for the same key: a memoized      *)
(* function has the Atom to itself, or the wrapped lookups share it.         *)
OneInterface == scenario.ops \subseteq {"call"} \/ scenario.ops \subseteq LockOps

ComputesOnce ==
  scenario.policy = "basic" /\ OneInterface =>
    \A d, e \in DOMAIN delays :
      delays[d].key = delays[e].key /\ d # e => ~delays[d].done \/ ~delays[e].done

(* The key a full FIFO cache gives up is the one it took in first, and a     *)
(* full LRU cache gives up the one used least recently, unless a thread      *)
(* stores a cache it made of one that was replaced since, or puts into a     *)
(* FIFO cache a key that is in its queue.                                    *)
OneUser  == \A t, u \in scenario.users : t = u
PutsOnce == scenario.policy = "fifo" => scenario.ops \cap {"miss!", "swap"} = {}
Exact    == (OneInterface \/ OneUser) /\ PutsOnce

OldestGo(old, next) ==
  Keys(next.map) \ Keys(old.map) # {} =>
    \A x \in Keys(old.map) \ Keys(next.map), y \in Keys(old.map) \cap Keys(next.map) :
      <<x, y>> \in older

VictimIsOldest ==
  [][scenario.policy \in {"fifo", "lru"} /\ Exact => OldestGo(cache, cache')]_vars

(* A TTL cache drops its old entries whenever it takes one in: no entry in   *)
(* the map is older than another by more than the ttl.                       *)
OldAreDropped ==
  scenario.policy = "ttl" =>
    \A x, y \in Keys(cache.map) : cache.ttl[x].at - cache.ttl[y].at <= Ttl

(* Every operation ends, though the function it runs may raise.              *)
EveryCallReturns == \A t \in Thread : Phase(t) # "idle" ~> Phase(t) = "idle"
=============================================================================
