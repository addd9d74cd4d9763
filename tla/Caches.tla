-------------------------------- MODULE Caches --------------------------------
(***************************************************************************)
(* The persistent caches of basilisp.core.cache: what each policy keeps     *)
(* beside its map and how a hit, a miss, an eviction and a seed change it.   *)
(* A cache is a value; an operation gives the set of caches it may return    *)
(* (ties are broken by the iteration order of a map), empty when it raises.  *)
(***************************************************************************)
EXTENDS Integers, FiniteSets, Sequences, Functions, SequencesExt, TLC

CONSTANTS Key,      \* the keys of the cache
          Ttl,      \* how long a TTL cache keeps an entry
          Free      \* the mark of an unused place in a FIFO queue

ASSUME CacheAssumption ==
  Ttl \in Nat /\ Free \notin Key

Policy == {"basic", "fifo", "lru", "ttl", "lu", "lirs"}

NoEntries    == [k \in {} |-> 0]
Only(k)      == [x \in {k} |-> 0]
Keys(f)      == DOMAIN f
Put(f, k, v) == [x \in Keys(f) \cup {k} |-> IF x = k THEN v ELSE f[x]]
Drop(f, ks)  == [x \in Keys(f) \ ks |-> f[x]]
Least(f)     == {k \in Keys(f) : \A x \in Keys(f) : f[k] <= f[x]}
FullLate(c, table) == Cardinality(Keys(table)) > c.limit
Full(c, table) == Cardinality(Keys(table)) >= c.limit
Size(c)      == Cardinality(Keys(c.map))

(* A TTL entry counts only while it is young; every other entry does.        *)
Created(c, k) == IF k \in Keys(c.ttl) THEN c.ttl[k].at ELSE -Ttl
Has(c, k, now) ==
  k \in Keys(c.map) /\ (c.policy = "ttl" => now - Created(c, k) < Ttl)

(***************************************************************************)
(* Seeding: what a cache given a new map keeps beside it.                    *)
(***************************************************************************)
Zeros(base) == [k \in Keys(base) |-> 0]

(* FIFO keeps the last entries of the map, in the order of its iteration.    *)
FifoSeed(c, base) ==
  LET kept == {ks \in UNION {SetToSeqs(s) : s \in SUBSET Keys(base)} :
                 Len(ks) = IF Full(c, base) THEN c.limit ELSE Cardinality(Keys(base))}
  IN  {[c EXCEPT !.map = Restrict(base, Range(ks)),
                 !.q = [i \in 1..(c.limit - Len(ks)) |-> Free] \o ks] : ks \in kept}
LruSeed(c, base) == {[c EXCEPT !.map = base, !.lru = Zeros(base), !.tick = 0]}
LuSeed(c, base)  == {[c EXCEPT !.map = base, !.lu = Zeros(base)]}
TtlSeed(c, base, now) ==
  LET entry == [gen |-> c.gen, at |-> now]
  IN  {[c EXCEPT !.map = base, !.gen = @ + 1, !.ttl = [k \in Keys(base) |-> entry],
                 !.q = @ \o [i \in DOMAIN ks |-> [key |-> ks[i], gen |-> c.gen, at |-> now]]] :
         ks \in SetToSeqs(Keys(base))}
LirsSeed(c, base) ==
  LET blank == [i \in (-c.limit)..(-1) |-> i]
  IN  {[c EXCEPT !.map = base, !.lruS = blank, !.lruQ = blank, !.tick = 0]}

Seeds(c, base, now) ==
  CASE c.policy = "basic" -> {[c EXCEPT !.map = base]}
    [] c.policy = "fifo"  -> FifoSeed(c, base)
    [] c.policy = "lru"   -> LruSeed(c, base)
    [] c.policy = "lu"    -> LuSeed(c, base)
    [] c.policy = "ttl"   -> TtlSeed(c, base, now)
    [] c.policy = "lirs"  -> LirsSeed(c, base)

(* An empty cache, before its factory seeds it.                              *)
Bare(p, limit) ==
  CASE p = "basic" -> [policy |-> p, map |-> NoEntries]
    [] p = "fifo"  -> [policy |-> p, map |-> NoEntries, limit |-> limit, q |-> <<>>]
    [] p = "lru"   -> [policy |-> p, map |-> NoEntries, limit |-> limit, lru |-> NoEntries, tick |-> 0]
    [] p = "lu"    -> [policy |-> p, map |-> NoEntries, limit |-> limit, lu |-> NoEntries]
    [] p = "ttl"   -> [policy |-> p, map |-> NoEntries, ttl |-> NoEntries, q |-> <<>>, gen |-> 0]
    [] p = "lirs"  -> [policy |-> p, map |-> NoEntries, limit |-> limit, lruS |-> NoEntries,
                       lruQ |-> NoEntries, tick |-> 0]

(* LIRS: the history keeps, at its old end, only keys that are cached and    *)
(* not in the queue of candidates.                                           *)
Prune(s, q, map) ==
  LET firm == {k \in Keys(s) : k \in Keys(map) /\ k \notin Keys(q)}
  IN  Drop(s, {k \in Keys(s) : \A x \in firm : s[k] < s[x]})

LirsHit(c, k) ==
  LET n == c.tick + 1
      s == c.lruS
      q == c.lruQ
  IN  IF k \notin Keys(s)
      THEN {[c EXCEPT !.tick = n, !.lruS = Put(s, k, n), !.lruQ = Put(q, k, n)]}
      ELSE IF k \notin Keys(q)
      THEN {[c EXCEPT !.tick = n, !.lruS = Prune(Put(s, k, n), q, c.map)]}
      ELSE {LET q2 == Put(Drop(q, {k}), old, n)
            IN  [c EXCEPT !.tick = n, !.lruQ = q2,
                          !.lruS = Prune(Put(Drop(s, {old}), k, n), q2, c.map)] :
              old \in Least(s)}

LirsMiss(c, k, v) ==
  LET n == c.tick + 1
      s == c.lruS
      q == c.lruQ
  IN  IF ~Full(c, c.map)
      THEN {[c EXCEPT !.tick = n, !.map = Put(@, k, v), !.lruS = Put(Drop(s, {old}), k, n)] :
              old \in Least(s)}
      ELSE UNION {
        LET rest == Drop(q, {victim})
            base == Put(Drop(c.map, {victim}), k, v)
        IN  IF k \in Keys(s)
            THEN {[c EXCEPT !.tick = n, !.map = base, !.lruQ = Put(rest, old, n),
                            !.lruS = Prune(Put(Drop(s, {old}), k, n), rest, base)] :
                    old \in Least(s)}
            ELSE {[c EXCEPT !.tick = n, !.map = base, !.lruQ = Put(rest, k, n),
                            !.lruS = Put(s, k, n)]} : victim \in Least(q)}

LruHitIgnored(c, k) == {c}
LruHit(c, k) ==
  {[c EXCEPT !.tick = @ + 1, !.lru = IF k \in Keys(c.map) THEN Put(@, k, c.tick + 1) ELSE @]}
LuHit(c, k)  == {[c EXCEPT !.lu = Put(@, k, c.lu[k] + 1)] : x \in {k} \cap Keys(c.lu)}

Hits(c, k) ==
  CASE c.policy = "lru"  -> LruHit(c, k)
    [] c.policy = "lu"   -> LuHit(c, k)
    [] c.policy = "lirs" -> LirsHit(c, k)
    [] OTHER -> {c}

(* The entry a full LRU or LU cache gives up for k.                          *)
Victims(c, table, k) ==
  IF ~Full(c, table) THEN {{}}
  ELSE IF k \in Keys(table) THEN {{k}} ELSE {{x} : x \in Least(table)}

FifoMiss(c, k, v) ==
  LET q == IF c.q = <<>> THEN [i \in 1..c.limit |-> Free] ELSE c.q
  IN  {[c EXCEPT !.map = Put(IF Full(c, c.map) THEN Drop(@, {Head(q)}) ELSE @, k, v),
                 !.q = Append(Tail(q), k)]}

LruMiss(c, k, v) ==
  {[c EXCEPT !.tick = @ + 1, !.map = Put(Drop(@, out), k, v),
             !.lru = Put(Drop(@, out), k, c.tick + 1)] : out \in Victims(c, c.lru, k)}

LuMiss(c, k, v) ==
  {LET table == Drop(c.lu, out)
   IN  [c EXCEPT !.map = Put(Drop(@, out), k, v),
                 !.lu = Put(table, k, IF k \in Keys(table) THEN table[k] + 1 ELSE 1)] :
     out \in Victims(c, c.lu, k)}

(* The queue entries that are too old, and of their keys those that have not *)
(* been renewed since.                                                       *)
ExpiredLate(c, now) ==
  CHOOSE n \in 0..Len(c.q) :
    /\ \A i \in 1..n : now - c.q[i].at > Ttl + 1
    /\ n < Len(c.q) => now - c.q[n + 1].at <= Ttl + 1
Expired(c, now) ==
  CHOOSE n \in 0..Len(c.q) :
    /\ \A i \in 1..n : now - c.q[i].at > Ttl
    /\ n < Len(c.q) => now - c.q[n + 1].at <= Ttl
Stale(c, now) ==
  {c.q[i].key : i \in {j \in 1..Expired(c, now) :
     c.q[j].key \in Keys(c.ttl) /\ c.ttl[c.q[j].key].gen = c.q[j].gen}}

TtlMiss(c, k, v, now) ==
  LET entry == [gen |-> c.gen, at |-> now]
  IN  {[c EXCEPT !.map = Put(Drop(@, Stale(c, now)), k, v),
                 !.ttl = Put(Drop(@, Stale(c, now)), k, entry),
                 !.q = Append(SubSeq(@, Expired(c, now) + 1, Len(@)),
                              [key |-> k, gen |-> c.gen, at |-> now]),
                 !.gen = @ + 1]}

Misses(c, k, v, now) ==
  CASE c.policy = "basic" -> {[c EXCEPT !.map = Put(@, k, v)]}
    [] c.policy = "fifo"  -> FifoMiss(c, k, v)
    [] c.policy = "lru"   -> LruMiss(c, k, v)
    [] c.policy = "lu"    -> LuMiss(c, k, v)
    [] c.policy = "ttl"   -> TtlMiss(c, k, v, now)
    [] c.policy = "lirs"  -> LirsMiss(c, k, v)

(***************************************************************************)
(* Evicting a key.                                                          *)
(***************************************************************************)
Without(c, k) == [c EXCEPT !.map = Drop(@, {k})]

(* The queue without the key, its other places in their order.               *)
Others(q, k) ==
  LET kept == {i \in DOMAIN q : q[i] # k}
  IN  [n \in 1..Cardinality(kept) |->
         q[CHOOSE i \in kept : Cardinality({j \in kept : j <= i}) = n]]

FifoEvictShort(c, k) == [Without(c, k) EXCEPT !.q = Others(@, k)]
FifoEvict(c, k) == [Without(c, k) EXCEPT !.q = <<Free>> \o Others(@, k)]
LruEvict(c, k)  == [Without(c, k) EXCEPT !.lru = Drop(@, {k}), !.tick = @ + 1]
LuEvict(c, k)   == [Without(c, k) EXCEPT !.lu = Drop(@, {k})]
TtlEvict(c, k)  == [Without(c, k) EXCEPT !.ttl = Drop(@, {k})]
LirsEvict(c, k) == [Without(c, k) EXCEPT !.lruS = Drop(@, {k}), !.lruQ = Drop(@, {k})]

Evicts(c, k) ==
  CASE c.policy = "basic" -> Without(c, k)
    [] c.policy = "ttl"   -> TtlEvict(c, k)
    [] c.policy \notin {"basic", "ttl"} /\ k \notin Keys(c.map) -> c
    [] OTHER -> CASE c.policy = "fifo" -> FifoEvict(c, k)
                  [] c.policy = "lru"  -> LruEvict(c, k)
                  [] c.policy = "lu"   -> LuEvict(c, k)
                  [] c.policy = "lirs" -> LirsEvict(c, k)
=============================================================================
