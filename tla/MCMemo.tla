--------------------------------- MODULE MCMemo ---------------------------------
(* Instances of the memoized functions and wrapped caches small enough for TLC. *)
EXTENDS MemoProps

CONSTANTS t1, t2, k1, k2, k3

Threads == {t1, t2}

(* One thread makes many calls, to fill a cache of two and empty it again.   *)
Alone(policies, ops, n) ==
  {[policy |-> p, limit |-> 2, keys |-> Key, users |-> {t1}, ops |-> ops, calls |-> n] : p \in policies}

(* Two threads make a few calls at once, on two keys and a cache of one.     *)
Together(policies, ops, n) ==
  {[policy |-> p, limit |-> 1, keys |-> {k1, k2}, users |-> Threads, ops |-> ops, calls |-> n] :
     p \in policies}

Scenarios ==
  Alone({"fifo", "lru", "lu"}, {"through", "evict!"}, 5)
    \cup Alone({"ttl"}, {"through", "evict!"}, 4)
    \cup Alone({"lirs"}, {"through"}, 5)
    \cup Together({"lru", "lu"}, {"hit!", "miss!", "evict!", "seed!"}, 3)
    \cup Together({"basic"}, {"call"}, 4)
    \cup Together({"basic"}, {"through", "lookup-or-miss"}, 4)
    \cup Together({"fifo", "lru"}, {"call", "evict", "clear"}, 3)
    \cup Together({"ttl"}, {"call", "evict"}, 2)
    \cup Together({"lru", "lu"}, {"call", "swap", "reset"}, 3)
=============================================================================
