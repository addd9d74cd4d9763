------------------------------ MODULE MemoProofs ------------------------------
(***************************************************************************)
(* Proofs about the caches and the memoized functions, for any keys,        *)
(* threads, thresholds and scenarios.  The first part is about one cache: an *)
(* operation applied to a sound cache gives a sound one, policy by policy.   *)
(* The second part carries that through the threads, whose stale writes put  *)
(* back caches that were sound when they were made.  The third compares the  *)
(* order in which FIFO and LRU rank their keys with the age of the entries.  *)
(***************************************************************************)
EXTENDS MemoProps, FiniteSetTheorems, SequenceTheorems, WellFoundedInduction, TLAPS

USE SMTT(60), ZenonT(60)

----------------------------------------------------------------------------
(* Tables, the maps that a policy keeps.                                    *)
Table(V) == UNION {[S -> V] : S \in SUBSET Key}

(* A table is a function on some keys.                                      *)
LEMMA TableIs ==
  ASSUME NEW V, NEW f
  PROVE  f \in Table(V) <=>
           /\ f = [x \in Keys(f) |-> f[x]]
           /\ Keys(f) \subseteq Key
           /\ \A x \in Keys(f) : f[x] \in V
<1>1. ASSUME f \in Table(V)
      PROVE  f = [x \in Keys(f) |-> f[x]] /\ Keys(f) \subseteq Key /\ \A x \in Keys(f) : f[x] \in V
  <2>1. PICK S \in SUBSET Key : f \in [S -> V] BY <1>1 DEF Table
  <2>2. QED BY <2>1 DEF Keys
<1>2. ASSUME f = [x \in Keys(f) |-> f[x]], Keys(f) \subseteq Key, \A x \in Keys(f) : f[x] \in V
      PROVE  f \in Table(V)
  <2>1. f \in [Keys(f) -> V] BY <1>2
  <2>2. QED BY <2>1, <1>2 DEF Table
<1>3. QED BY <1>1, <1>2

(* Put adds or replaces one entry.                                          *)
LEMMA TablePut ==
  ASSUME NEW V, NEW f \in Table(V), NEW k \in Key, NEW v \in V
  PROVE  /\ Put(f, k, v) \in Table(V)
         /\ Keys(Put(f, k, v)) = Keys(f) \cup {k}
         /\ \A x \in Keys(f) \cup {k} : Put(f, k, v)[x] = IF x = k THEN v ELSE f[x]
<1> DEFINE g == Put(f, k, v)
<1>1. Keys(g) = Keys(f) \cup {k} /\ g = [x \in Keys(g) |-> g[x]]
        /\ \A x \in Keys(f) \cup {k} : g[x] = IF x = k THEN v ELSE f[x]
  BY DEF Put, Keys
<1>2. Keys(f) \subseteq Key /\ \A x \in Keys(f) : f[x] \in V BY TableIs
<1>3. g \in Table(V)
  <2> HIDE DEF g
  <2>1. QED BY <1>1, <1>2, TableIs
<1>4. QED BY <1>1, <1>3

(* Drop removes entries.                                                    *)
LEMMA TableDrop ==
  ASSUME NEW V, NEW f \in Table(V), NEW ks
  PROVE  /\ Drop(f, ks) \in Table(V)
         /\ Keys(Drop(f, ks)) = Keys(f) \ ks
         /\ \A x \in Keys(f) \ ks : Drop(f, ks)[x] = f[x]
<1> DEFINE g == Drop(f, ks)
<1>1. Keys(g) = Keys(f) \ ks /\ g = [x \in Keys(g) |-> g[x]]
        /\ \A x \in Keys(f) \ ks : g[x] = f[x]
  BY DEF Drop, Keys
<1>2. Keys(f) \subseteq Key /\ \A x \in Keys(f) : f[x] \in V BY TableIs
<1>3. g \in Table(V)
  <2> HIDE DEF g
  <2>1. QED BY <1>1, <1>2, TableIs
<1>4. QED BY <1>1, <1>3

(* The maps that a cache is seeded with hold one key at most.               *)
Base == {b \in Table(Nat) : Keys(b) = {} \/ \E k \in Key : Keys(b) = {k}}

(* Of at most one key, there are finitely many.                             *)
LEMMA BaseSize ==
  ASSUME NEW b \in Base
  PROVE  /\ b \in Table(Nat) /\ Keys(b) \subseteq Key
         /\ IsFiniteSet(Keys(b)) /\ Cardinality(Keys(b)) \in {0, 1}
         /\ Zeros(b) \in Table(Nat) /\ Keys(Zeros(b)) = Keys(b)
<1>1. b \in Table(Nat) /\ Keys(b) \subseteq Key BY TableIs DEF Base
<1>2. IsFiniteSet(Keys(b)) /\ Cardinality(Keys(b)) \in {0, 1}
  BY FS_EmptySet, FS_Singleton DEF Base
<1>3. Keys(Zeros(b)) = Keys(b) BY DEF Zeros, Keys
<1>4. Zeros(b) \in Table(Nat)
  <2>1. Zeros(b) \in [Keys(b) -> Nat] BY DEF Zeros
  <2>2. QED BY <2>1, <1>1 DEF Table
<1>5. QED BY <1>1, <1>2, <1>3, <1>4
----------------------------------------------------------------------------
(* LRU and LU keep a table beside the map, with the same keys.               *)
Limit     == Nat \ {0}
Within(c) == IsFiniteSet(Keys(c.map)) /\ Cardinality(Keys(c.map)) <= c.limit

LruSound(c) ==
  /\ c \in [policy : {"lru"}, map : Table(Nat), limit : Limit, lru : Table(Nat), tick : Nat]
  /\ Keys(c.lru) = Keys(c.map)
  /\ Within(c)

LuSound(c) ==
  /\ c \in [policy : {"lu"}, map : Table(Nat), limit : Limit, lu : Table(Nat)]
  /\ Keys(c.lu) = Keys(c.map)
  /\ Within(c)

(* Without its victim, a full cache has room for the key.                    *)
LEMMA RoomForOne ==
  ASSUME NEW c, NEW table, NEW k, c.limit \in Limit,
         IsFiniteSet(Keys(table)), Cardinality(Keys(table)) <= c.limit,
         NEW out \in Victims(c, table, k)
  PROVE  /\ IsFiniteSet((Keys(table) \ out) \cup {k})
         /\ Cardinality((Keys(table) \ out) \cup {k}) <= c.limit
<1> DEFINE S == Keys(table)
           n == Cardinality(S)
<1>1. n \in Nat /\ c.limit \in Nat BY FS_CardinalityType DEF Limit
<1>2. CASE ~Full(c, table)
  <2>1. out = {} /\ n < c.limit BY <1>1, <1>2 DEF Victims, Full
  <2>2. IsFiniteSet(S \cup {k}) /\ Cardinality(S \cup {k}) \in {n, n + 1} BY FS_AddElement
  <2>3. S \ out = S BY <2>1
  <2>4. QED BY <1>1, <2>1, <2>2, <2>3
<1>3. CASE Full(c, table) /\ k \in S
  <2>1. out = {k} BY <1>3 DEF Victims
  <2>2. (S \ out) \cup {k} = S BY <2>1, <1>3
  <2>3. QED BY <2>2
<1>4. CASE Full(c, table) /\ k \notin S
  <2>1. PICK x \in S : out = {x} BY <1>4 DEF Victims, Least
  <2>2. IsFiniteSet(S \ {x}) /\ Cardinality(S \ {x}) = n - 1 BY FS_RemoveElement, <2>1
  <2>3. IsFiniteSet((S \ {x}) \cup {k}) /\ Cardinality((S \ {x}) \cup {k}) = n
    BY FS_AddElement, <2>2, <1>4, <1>1
  <2>4. QED BY <2>1, <2>3
<1>5. QED BY <1>2, <1>3, <1>4

(* Without a key the cache is smaller.                                       *)
LEMMA FewerKeys ==
  ASSUME NEW S, NEW T, IsFiniteSet(S), NEW n \in Nat, Cardinality(S) <= n, T \subseteq S
  PROVE  IsFiniteSet(T) /\ Cardinality(T) <= n
<1>1. IsFiniteSet(T) /\ Cardinality(T) <= Cardinality(S) BY FS_Subset
<1>2. Cardinality(T) \in Nat /\ Cardinality(S) \in Nat BY <1>1, FS_CardinalityType
<1>3. QED BY <1>1, <1>2

(* A cache of a known policy can change its map and its table.               *)
LEMMA LruParts ==
  ASSUME NEW c, LruSound(c), NEW map \in Table(Nat), NEW lru \in Table(Nat), NEW tick \in Nat,
         Keys(map) = Keys(lru), IsFiniteSet(Keys(map)), Cardinality(Keys(map)) <= c.limit
  PROVE  LruSound([c EXCEPT !.map = map, !.lru = lru, !.tick = tick])
BY DEF LruSound, Within

(* The parts of a sound LU cache.                                            *)
LEMMA LuParts ==
  ASSUME NEW c, LuSound(c), NEW map \in Table(Nat), NEW lu \in Table(Nat),
         Keys(map) = Keys(lu), IsFiniteSet(Keys(map)), Cardinality(Keys(map)) <= c.limit
  PROVE  LuSound([c EXCEPT !.map = map, !.lu = lu])
BY DEF LuSound, Within

(* LRU: a seed, a hit, a miss and an eviction.                               *)
LEMMA LruSeedSound ==
  ASSUME NEW c, c \in [policy : {"lru"}, map : Table(Nat), limit : Limit, lru : Table(Nat), tick : Nat],
         NEW b \in Base, NEW d \in LruSeed(c, b)
  PROVE  LruSound(d)
<1>1. d = [c EXCEPT !.map = b, !.lru = Zeros(b), !.tick = 0] BY DEF LruSeed
<1>2. Cardinality(Keys(b)) <= c.limit BY BaseSize DEF Limit
<1>3. QED BY <1>1, <1>2, BaseSize DEF LruSound, Within

(* A hit renews the tick of its key.                                         *)
LEMMA LruHitSound ==
  ASSUME NEW c, LruSound(c), NEW k \in Key, NEW d \in LruHit(c, k)
  PROVE  LruSound(d)
<1> DEFINE lru == IF k \in Keys(c.map) THEN Put(c.lru, k, c.tick + 1) ELSE c.lru
<1>1. c.tick + 1 \in Nat /\ c.lru \in Table(Nat) /\ c.map \in Table(Nat) /\ Keys(c.lru) = Keys(c.map)
  BY DEF LruSound
<1>2. lru \in Table(Nat) /\ Keys(lru) = Keys(c.map)
  <2>1. CASE k \in Keys(c.map)
    <3>1. lru = Put(c.lru, k, c.tick + 1) BY <2>1
    <3> HIDE DEF lru
    <3>2. lru \in Table(Nat) /\ Keys(lru) = Keys(c.lru) \cup {k} BY <1>1, <3>1, TablePut
    <3>3. QED BY <2>1, <3>2, <1>1
  <2>2. CASE k \notin Keys(c.map) BY <2>2, <1>1
  <2>3. QED BY <2>1, <2>2
<1>3. d = [c EXCEPT !.map = c.map, !.lru = lru, !.tick = c.tick + 1] BY DEF LruHit, LruSound
<1>4. IsFiniteSet(Keys(c.map)) /\ Cardinality(Keys(c.map)) <= c.limit BY DEF LruSound, Within
<1> HIDE DEF lru
<1>5. QED BY <1>1, <1>2, <1>3, <1>4, LruParts

(* A miss of a full cache puts the key in place of the victim.               *)
LEMMA LruMissSound ==
  ASSUME NEW c, LruSound(c), NEW k \in Key, NEW v \in Nat, NEW d \in LruMiss(c, k, v)
  PROVE  LruSound(d)
<1>1. PICK out \in Victims(c, c.lru, k) :
        d = [c EXCEPT !.tick = @ + 1, !.map = Put(Drop(@, out), k, v),
                      !.lru = Put(Drop(@, out), k, c.tick + 1)]
  BY DEF LruMiss
<1> DEFINE map == Put(Drop(c.map, out), k, v)
           lru == Put(Drop(c.lru, out), k, c.tick + 1)
<1>2. c.tick + 1 \in Nat /\ c.lru \in Table(Nat) /\ c.map \in Table(Nat)
        /\ Keys(c.lru) = Keys(c.map) /\ c.limit \in Limit
  BY DEF LruSound
<1>3. map \in Table(Nat) /\ Keys(map) = (Keys(c.lru) \ out) \cup {k}
  <2>1. Drop(c.map, out) \in Table(Nat) /\ Keys(Drop(c.map, out)) = Keys(c.lru) \ out
    BY <1>2, TableDrop
  <2>2. QED BY <2>1, TablePut
<1>4. lru \in Table(Nat) /\ Keys(lru) = (Keys(c.lru) \ out) \cup {k}
  <2>1. Drop(c.lru, out) \in Table(Nat) /\ Keys(Drop(c.lru, out)) = Keys(c.lru) \ out
    BY <1>2, TableDrop
  <2>2. QED BY <2>1, <1>2, TablePut
<1>5. IsFiniteSet(Keys(map)) /\ Cardinality(Keys(map)) <= c.limit
  BY <1>2, <1>3, RoomForOne DEF LruSound, Within
<1>6. d = [c EXCEPT !.map = map, !.lru = lru, !.tick = c.tick + 1] BY <1>1 DEF LruSound
<1> HIDE DEF map, lru
<1>7. QED BY <1>2, <1>3, <1>4, <1>5, <1>6, LruParts

(* Eviction takes the key out of the map and the table alike.                *)
LEMMA LruEvictSound ==
  ASSUME NEW c, LruSound(c), NEW k \in Key, NEW d \in {LruEvict(c, k)}
  PROVE  LruSound(d)
<1> DEFINE map == Drop(c.map, {k})
           lru == Drop(c.lru, {k})
<1>1. c.tick + 1 \in Nat /\ c.lru \in Table(Nat) /\ c.map \in Table(Nat)
        /\ Keys(c.lru) = Keys(c.map) /\ c.limit \in Nat
  BY DEF LruSound, Limit
<1>2. /\ map \in Table(Nat) /\ Keys(map) = Keys(c.map) \ {k}
      /\ lru \in Table(Nat) /\ Keys(lru) = Keys(c.map) \ {k}
  BY <1>1, TableDrop
<1>3. IsFiniteSet(Keys(map)) /\ Cardinality(Keys(map)) <= c.limit
  BY <1>1, <1>2, FewerKeys DEF LruSound, Within
<1>4. d = [c EXCEPT !.map = map, !.lru = lru, !.tick = c.tick + 1]
  BY DEF LruEvict, Without, LruSound
<1> HIDE DEF map, lru
<1>5. Keys(map) = Keys(lru) BY <1>2
<1>6. map \in Table(Nat) /\ lru \in Table(Nat) BY <1>2
<1>7. QED BY <1>1, <1>3, <1>4, <1>5, <1>6, LruParts

(* LU: the same.                                                             *)
LEMMA LuSeedSound ==
  ASSUME NEW c, c \in [policy : {"lu"}, map : Table(Nat), limit : Limit, lu : Table(Nat)],
         NEW b \in Base, NEW d \in LuSeed(c, b)
  PROVE  LuSound(d)
<1>1. d = [c EXCEPT !.map = b, !.lu = Zeros(b)] BY DEF LuSeed
<1>2. Cardinality(Keys(b)) <= c.limit BY BaseSize DEF Limit
<1>3. QED BY <1>1, <1>2, BaseSize DEF LuSound, Within

(* A hit counts a use of its key.                                            *)
LEMMA LuHitSound ==
  ASSUME NEW c, LuSound(c), NEW k \in Key, NEW d \in LuHit(c, k)
  PROVE  LuSound(d)
<1> DEFINE lu == Put(c.lu, k, c.lu[k] + 1)
<1>1. k \in Keys(c.lu) /\ d = [c EXCEPT !.lu = lu] BY DEF LuHit
<1>2. c.lu \in Table(Nat) /\ c.map \in Table(Nat) /\ Keys(c.lu) = Keys(c.map) BY DEF LuSound
<1>3. lu \in Table(Nat) /\ Keys(lu) = Keys(c.map)
  <2>1. c.lu[k] + 1 \in Nat BY <1>1, <1>2, TableIs
  <2>2. lu \in Table(Nat) /\ Keys(lu) = Keys(c.lu) \cup {k} BY <2>1, <1>2, TablePut
  <2>3. QED BY <2>2, <1>1, <1>2
<1>4. IsFiniteSet(Keys(c.map)) /\ Cardinality(Keys(c.map)) <= c.limit BY DEF LuSound, Within
<1> HIDE DEF lu
<1>5. d = [c EXCEPT !.map = c.map, !.lu = lu] BY <1>1 DEF LuSound
<1>6. QED BY <1>2, <1>3, <1>4, <1>5, LuParts

(* A miss of a full cache puts the key in place of the victim.               *)
LEMMA LuMissSound ==
  ASSUME NEW c, LuSound(c), NEW k \in Key, NEW v \in Nat, NEW d \in LuMiss(c, k, v)
  PROVE  LuSound(d)
<1>1. PICK out \in Victims(c, c.lu, k) :
        d = LET table == Drop(c.lu, out)
            IN  [c EXCEPT !.map = Put(Drop(@, out), k, v),
                          !.lu = Put(table, k, IF k \in Keys(table) THEN table[k] + 1 ELSE 1)]
  BY DEF LuMiss
<1> DEFINE table == Drop(c.lu, out)
           n   == IF k \in Keys(table) THEN table[k] + 1 ELSE 1
           map == Put(Drop(c.map, out), k, v)
           lu  == Put(table, k, n)
<1>2. c.lu \in Table(Nat) /\ c.map \in Table(Nat) /\ Keys(c.lu) = Keys(c.map) /\ c.limit \in Limit
  BY DEF LuSound
<1>3. map \in Table(Nat) /\ Keys(map) = (Keys(c.lu) \ out) \cup {k}
  <2>1. Drop(c.map, out) \in Table(Nat) /\ Keys(Drop(c.map, out)) = Keys(c.lu) \ out
    BY <1>2, TableDrop
  <2>2. QED BY <2>1, TablePut
<1>4. lu \in Table(Nat) /\ Keys(lu) = (Keys(c.lu) \ out) \cup {k}
  <2>1. table \in Table(Nat) /\ Keys(table) = Keys(c.lu) \ out BY <1>2, TableDrop
  <2>2. n \in Nat
    <3> HIDE DEF table
    <3>1. k \in Keys(table) => table[k] \in Nat BY <2>1, TableIs
    <3>2. QED BY <3>1
  <2> HIDE DEF table, n
  <2>3. QED BY <2>1, <2>2, TablePut
<1>5. IsFiniteSet(Keys(map)) /\ Cardinality(Keys(map)) <= c.limit
  BY <1>2, <1>3, RoomForOne DEF LuSound, Within
<1>6. d = [c EXCEPT !.map = map, !.lu = lu] BY <1>1
<1> HIDE DEF map, lu
<1>7. QED BY <1>2, <1>3, <1>4, <1>5, <1>6, LuParts

(* Eviction takes the key out of the map and the table alike.                *)
LEMMA LuEvictSound ==
  ASSUME NEW c, LuSound(c), NEW k \in Key, NEW d \in {LuEvict(c, k)}
  PROVE  LuSound(d)
<1> DEFINE map == Drop(c.map, {k})
           lu  == Drop(c.lu, {k})
<1>1. c.lu \in Table(Nat) /\ c.map \in Table(Nat) /\ Keys(c.lu) = Keys(c.map) /\ c.limit \in Nat
  BY DEF LuSound, Limit
<1>2. /\ map \in Table(Nat) /\ Keys(map) = Keys(c.map) \ {k}
      /\ lu \in Table(Nat) /\ Keys(lu) = Keys(c.map) \ {k}
  BY <1>1, TableDrop
<1>3. IsFiniteSet(Keys(map)) /\ Cardinality(Keys(map)) <= c.limit
  BY <1>1, <1>2, FewerKeys DEF LuSound, Within
<1>4. d = [c EXCEPT !.map = map, !.lu = lu]
  BY DEF LuEvict, Without, LuSound
<1> HIDE DEF map, lu
<1>5. Keys(map) = Keys(lu) BY <1>2
<1>6. map \in Table(Nat) /\ lu \in Table(Nat) BY <1>2
<1>7. QED BY <1>1, <1>3, <1>4, <1>5, <1>6, LuParts
----------------------------------------------------------------------------
(* TTL keeps for each key when it was stored, and a queue of what was stored, *)
(* the oldest first.                                                         *)
Entry  == [gen : Nat, at : Nat]
Queued == [key : Key, gen : Nat, at : Nat]

TtlShape(c) ==
  c \in [policy : {"ttl"}, map : Table(Nat), ttl : Table(Entry), q : Seq(Queued), gen : Nat]

(* The table has the keys of the map, and each of its entries is queued.      *)
AllQueued(c) ==
  /\ Keys(c.ttl) = Keys(c.map)
  /\ \A k \in Keys(c.map) : \E i \in 1..Len(c.q) :
       c.q[i].key = k /\ c.q[i].gen = c.ttl[k].gen /\ c.q[i].at = c.ttl[k].at

(* The queue is in the order of time, and nothing in it is of the future.     *)
InTime(c, t) ==
  /\ \A i, j \in 1..Len(c.q) : i <= j => c.q[i].at <= c.q[j].at
  /\ \A i \in 1..Len(c.q) : c.q[i].at <= t

Together(c) == \A x, y \in Keys(c.map) : c.ttl[x].at - c.ttl[y].at <= Ttl

TtlSound(c, t) == TtlShape(c) /\ AllQueued(c) /\ InTime(c, t) /\ Together(c)

(* A set of numbers that is not empty has a least one.                       *)
LEMMA LeastExists ==
  ASSUME NEW S \in SUBSET Nat, S # {}
  PROVE  \E n \in S : \A m \in S : n <= m
<1>1. IsWellFoundedOn(OpToRel(<, Nat), Nat) BY NatLessThanWellFounded
<1>2. PICK n \in S : \A m \in S : ~(<<m, n>> \in OpToRel(<, Nat)) BY <1>1, WFMin
<1>3. ASSUME NEW m \in S PROVE n <= m
  <2>1. ~(m < n) BY <1>2 DEF OpToRel
  <2>2. QED BY <2>1
<1>4. QED BY <1>3

(* An entry of the queue.                                                    *)
LEMMA QueueEntry ==
  ASSUME NEW q \in Seq(Queued)
  PROVE  /\ Len(q) \in Nat /\ DOMAIN q = 1..Len(q)
         /\ \A i \in 1..Len(q) :
              q[i] \in Queued /\ q[i].key \in Key /\ q[i].gen \in Nat /\ q[i].at \in Nat
<1>1. Len(q) \in Nat /\ DOMAIN q = 1..Len(q) BY LenProperties
<1>2. ASSUME NEW i \in 1..Len(q)
      PROVE  q[i] \in Queued /\ q[i].key \in Key /\ q[i].gen \in Nat /\ q[i].at \in Nat
  <2>1. q[i] \in Queued BY ElementOfSeq
  <2>2. QED BY <2>1 DEF Queued
<1>3. QED BY <1>1, <1>2

(* What Expired chooses: the queue is in order, so what is too old is in      *)
(* front.                                                                    *)
LEMMA ExpiredIs ==
  ASSUME NEW c, NEW t \in Nat, c.q \in Seq(Queued), InTime(c, t)
  PROVE  /\ Expired(c, t) \in 0..Len(c.q)
         /\ \A i \in 1..Expired(c, t) : t - c.q[i].at > Ttl
         /\ \A i \in 1..Len(c.q) : i > Expired(c, t) => t - c.q[i].at <= Ttl
<1> DEFINE young == {i \in 1..Len(c.q) : t - c.q[i].at <= Ttl}
           Good(n) == /\ \A i \in 1..n : t - c.q[i].at > Ttl
                      /\ n < Len(c.q) => t - c.q[n + 1].at <= Ttl
<1>1. /\ Len(c.q) \in Nat /\ Ttl \in Nat
      /\ \A i \in 1..Len(c.q) : c.q[i].at \in Nat
  BY CacheAssumption, QueueEntry
<1>2. \E n \in 0..Len(c.q) : Good(n)
  <2>1. CASE young = {}
    <3>1. \A i \in 1..Len(c.q) : t - c.q[i].at > Ttl BY <2>1, <1>1
    <3>2. Good(Len(c.q)) /\ Len(c.q) \in 0..Len(c.q) BY <3>1, <1>1
    <3>3. QED BY <3>2
  <2>2. CASE young # {}
    <3>1. young \in SUBSET Nat BY <1>1
    <3>2. PICK m \in young : \A n \in young : m <= n BY <2>2, <3>1, LeastExists
    <3>3. m - 1 \in 0..Len(c.q) /\ (m - 1) + 1 = m BY <1>1
    <3>4. \A i \in 1..(m - 1) : t - c.q[i].at > Ttl BY <3>2, <1>1
    <3>5. Good(m - 1) BY <3>3, <3>4
    <3>6. QED BY <3>3, <3>5
  <2>3. QED BY <2>1, <2>2
<1>3. Expired(c, t) \in 0..Len(c.q) /\ Good(Expired(c, t))
  <2>1. Expired(c, t) = CHOOSE n \in 0..Len(c.q) : Good(n) BY DEF Expired
  <2> HIDE DEF Good
  <2>2. QED BY <2>1, <1>2
<1>4. ASSUME NEW i \in 1..Len(c.q), i > Expired(c, t) PROVE t - c.q[i].at <= Ttl
  <2>1. Expired(c, t) + 1 \in 1..Len(c.q) /\ Expired(c, t) + 1 <= i BY <1>1, <1>3, <1>4
  <2>2. c.q[Expired(c, t) + 1].at <= c.q[i].at BY <2>1 DEF InTime
  <2>3. QED BY <2>1, <2>2, <1>1, <1>3
<1>5. QED BY <1>3, <1>4

(* What is fit for a time is fit for a later one.                            *)
LEMMA TtlLater ==
  ASSUME NEW c, NEW t \in Nat, TtlSound(c, t), NEW u \in Nat, t <= u
  PROVE  TtlSound(c, u)
<1>1. c.q \in Seq(Queued) BY DEF TtlSound, TtlShape
<1>2. QED BY <1>1, QueueEntry DEF TtlSound, InTime

(* The iteration of a map of at most one key.                                *)
LEMMA SeedOrder ==
  ASSUME NEW b \in Base, NEW ks \in SetToSeqs(Keys(b))
  PROVE  /\ ks \in Seq(Key) /\ Len(ks) = Cardinality(Keys(b)) /\ Len(ks) \in {0, 1}
         /\ DOMAIN ks = 1..Len(ks)
         /\ \A i \in 1..Len(ks) : ks[i] \in Keys(b)
         /\ \A k \in Keys(b) : \E i \in 1..Len(ks) : ks[i] = k
<1> DEFINE n == Cardinality(Keys(b))
<1>1. Keys(b) \subseteq Key /\ n \in {0, 1} BY BaseSize
<1>2. ks \in [1..n -> Keys(b)] BY DEF SetToSeqs
<1>3. ks \in Seq(Key) /\ Len(ks) = n
  <2>1. ks \in Seq(Keys(b)) /\ Len(ks) = n BY <1>1, <1>2
  <2>2. QED BY <1>1, <2>1, SeqMonotonic
<1>4. ASSUME NEW k \in Keys(b) PROVE \E i \in 1..n : ks[i] = k
  <2>1. Keys(b) = {k} BY <1>4 DEF Base
  <2>2. n = 1 BY <2>1, FS_Singleton
  <2>3. 1 \in 1..n /\ ks[1] = k BY <1>2, <2>1, <2>2
  <2>4. QED BY <2>3
<1>5. QED BY <1>1, <1>2, <1>3, <1>4

(* TTL: a seed, a miss and an eviction.  A hit changes nothing.               *)
LEMMA TtlSeedSound ==
  ASSUME NEW c, NEW t \in Nat, TtlShape(c), InTime(c, t), NEW b \in Base, NEW d \in TtlSeed(c, b, t)
  PROVE  TtlSound(d, t)
<1>1. PICK ks \in SetToSeqs(Keys(b)) :
        d = [c EXCEPT !.map = b, !.gen = @ + 1,
                      !.ttl = [k \in Keys(b) |-> [gen |-> c.gen, at |-> t]],
                      !.q = @ \o [i \in DOMAIN ks |-> [key |-> ks[i], gen |-> c.gen, at |-> t]]]
  BY DEF TtlSeed
<1> DEFINE ttl == [k \in Keys(b) |-> [gen |-> c.gen, at |-> t]]
           new == [i \in DOMAIN ks |-> [key |-> ks[i], gen |-> c.gen, at |-> t]]
           n   == Len(ks)
<1>2. c.gen \in Nat /\ c.gen + 1 \in Nat /\ c.q \in Seq(Queued) BY DEF TtlShape
<1>3. /\ n \in Nat /\ DOMAIN ks = 1..n /\ \A i \in 1..n : ks[i] \in Key
      /\ \A k \in Keys(b) : \E i \in 1..n : ks[i] = k
  BY SeedOrder, BaseSize
<1>4. Keys(ttl) = Keys(b) /\ \A k \in Keys(b) : ttl[k].gen = c.gen /\ ttl[k].at = t BY DEF Keys
<1>5. ttl \in Table(Entry) /\ b \in Table(Nat)
  <2>1. Keys(b) \subseteq Key /\ b \in Table(Nat) BY BaseSize
  <2>2. ttl \in [Keys(b) -> Entry] BY <1>2 DEF Entry
  <2>3. QED BY <2>1, <2>2 DEF Table
<1>6. /\ new \in Seq(Queued) /\ Len(new) = n
      /\ \A i \in 1..n : new[i].key = ks[i] /\ new[i].gen = c.gen /\ new[i].at = t
  <2>1. new \in [1..n -> Queued] BY <1>2, <1>3 DEF Queued
  <2>2. QED BY <2>1, <1>3
<1> DEFINE q == c.q \o new
           m == Len(c.q)
<1>7. /\ q \in Seq(Queued) /\ Len(q) = m + n /\ m \in Nat
      /\ \A i \in 1..(m + n) : q[i] = IF i <= m THEN c.q[i] ELSE new[i - m]
  <2> HIDE DEF new, n
  <2>1. c.q \in Seq(Queued) /\ new \in Seq(Queued) /\ Len(new) = n BY <1>2, <1>6
  <2>2. m \in Nat BY <2>1, LenProperties
  <2>3. q \in Seq(Queued) /\ Len(q) = m + n BY <2>1, ConcatProperties
  <2>4. \A i \in 1..(m + Len(new)) : q[i] = IF i <= m THEN c.q[i] ELSE new[i - m]
    BY <2>1, ConcatProperties
  <2>5. QED BY <2>1, <2>2, <2>3, <2>4
<1>8. d.map = b /\ d.ttl = ttl /\ d.q = q /\ TtlShape(d)
  <2>1. d = [c EXCEPT !.map = b, !.gen = c.gen + 1, !.ttl = ttl, !.q = q] BY <1>1
  <2> HIDE DEF ttl, new, q
  <2>2. QED BY <2>1, <1>2, <1>5, <1>7 DEF TtlShape
<1>9. AllQueued(d)
  <2>1. ASSUME NEW k \in Keys(b)
        PROVE  \E i \in 1..Len(q) : q[i].key = k /\ q[i].gen = ttl[k].gen /\ q[i].at = ttl[k].at
    <3>1. PICK i \in 1..n : ks[i] = k BY <1>3
    <3>2. m + i \in 1..Len(q) /\ q[m + i] = new[i]
      <4> HIDE DEF q, new
      <4>1. m + i \in 1..(m + n) /\ ~(m + i <= m) /\ (m + i) - m = i BY <1>3, <1>7
      <4>2. QED BY <4>1, <1>7
    <3>3. new[i].key = k /\ new[i].gen = ttl[k].gen /\ new[i].at = ttl[k].at
      <4> HIDE DEF ttl, new
      <4>1. QED BY <3>1, <1>4, <1>6
    <3> HIDE DEF q, ttl, new
    <3>4. QED BY <3>2, <3>3
  <2> HIDE DEF q, ttl
  <2>2. QED BY <2>1, <1>4, <1>8 DEF AllQueued
<1>10. InTime(d, t)
  <2>1. ASSUME NEW i \in 1..Len(q)
        PROVE  /\ q[i].at \in Nat /\ q[i].at <= t
               /\ i > m => q[i].at = t
               /\ i <= m => i \in 1..m /\ q[i].at = c.q[i].at
    <3> HIDE DEF q, new
    <3>1. CASE i <= m BY <3>1, <1>7, <1>2, QueueEntry DEF InTime
    <3>2. CASE i > m
      <4>1. i - m \in 1..n /\ q[i] = new[i - m] BY <3>2, <1>7, <1>3
      <4>2. QED BY <4>1, <1>6, <3>2, <1>7
    <3>3. QED BY <3>1, <3>2, <1>7
  <2>2. ASSUME NEW i \in 1..Len(q), NEW j \in 1..Len(q), i <= j PROVE q[i].at <= q[j].at
    <3> HIDE DEF q
    <3>1. CASE j <= m BY <3>1, <2>1, <2>2, <1>7 DEF InTime
    <3>2. CASE j > m BY <3>2, <2>1
    <3>3. QED BY <3>1, <3>2, <1>7
  <2> HIDE DEF q
  <2>3. QED BY <2>1, <2>2, <1>8 DEF InTime
<1>11. Together(d)
  <2> HIDE DEF ttl, q
  <2>1. \A x, y \in Keys(b) : ttl[x].at - ttl[y].at <= Ttl BY <1>4, CacheAssumption
  <2>2. QED BY <2>1, <1>8 DEF Together
<1>12. QED BY <1>8, <1>9, <1>10, <1>11 DEF TtlSound

(* Eviction leaves the entries of the key in the queue, where they are stale. *)
LEMMA TtlEvictSound ==
  ASSUME NEW c, NEW t \in Nat, TtlSound(c, t), NEW k \in Key, NEW d \in {TtlEvict(c, k)}
  PROVE  TtlSound(d, t)
<1> DEFINE map == Drop(c.map, {k})
           ttl == Drop(c.ttl, {k})
<1>1. c.map \in Table(Nat) /\ c.ttl \in Table(Entry) /\ Keys(c.ttl) = Keys(c.map)
  BY DEF TtlSound, TtlShape, AllQueued
<1>2. /\ map \in Table(Nat) /\ ttl \in Table(Entry)
      /\ Keys(map) = Keys(c.map) \ {k} /\ Keys(ttl) = Keys(c.map) \ {k}
      /\ \A x \in Keys(c.map) \ {k} : ttl[x] = c.ttl[x]
  BY <1>1, TableDrop
<1>3. d = [c EXCEPT !.map = map, !.ttl = ttl] BY DEF TtlEvict, Without, TtlSound, TtlShape
<1> HIDE DEF map, ttl
<1>4. TtlShape(d) /\ d.map = map /\ d.ttl = ttl /\ d.q = c.q
  BY <1>2, <1>3 DEF TtlSound, TtlShape
<1>5. AllQueued(d)
  <2>1. ASSUME NEW x \in Keys(d.map)
        PROVE  \E i \in 1..Len(d.q) :
                 d.q[i].key = x /\ d.q[i].gen = d.ttl[x].gen /\ d.q[i].at = d.ttl[x].at
    <3>1. x \in Keys(c.map) /\ d.ttl[x] = c.ttl[x] BY <2>1, <1>2, <1>4
    <3>2. \E i \in 1..Len(c.q) :
            c.q[i].key = x /\ c.q[i].gen = c.ttl[x].gen /\ c.q[i].at = c.ttl[x].at
      BY <3>1 DEF TtlSound, AllQueued
    <3>3. QED BY <3>1, <3>2, <1>4
  <2>2. Keys(d.ttl) = Keys(d.map) BY <1>2, <1>4
  <2>3. QED BY <2>1, <2>2 DEF AllQueued
<1>6. InTime(d, t) BY <1>4 DEF TtlSound, InTime
<1>7. Together(d) BY <1>2, <1>4 DEF TtlSound, Together
<1>8. QED BY <1>4, <1>5, <1>6, <1>7 DEF TtlSound

(* A miss drops from the table every key whose entry leaves the queue.       *)
LEMMA TtlMissSound ==
  ASSUME NEW c, NEW t \in Nat, TtlSound(c, t), NEW k \in Key, NEW v \in Nat,
         NEW d \in TtlMiss(c, k, v, t)
  PROVE  TtlSound(d, t)
<1> DEFINE stale == Stale(c, t)
           e     == Expired(c, t)
           n     == Len(c.q)
           entry == [gen |-> c.gen, at |-> t]
           map   == Put(Drop(c.map, stale), k, v)
           ttl   == Put(Drop(c.ttl, stale), k, entry)
           kept  == SubSeq(c.q, e + 1, n)
           q     == Append(kept, [key |-> k, gen |-> c.gen, at |-> t])
<1>1. /\ c.map \in Table(Nat) /\ c.ttl \in Table(Entry) /\ Keys(c.ttl) = Keys(c.map)
      /\ c.gen \in Nat /\ c.gen + 1 \in Nat /\ c.q \in Seq(Queued)
  BY DEF TtlSound, TtlShape, AllQueued
<1>2. /\ n \in Nat /\ \A i \in 1..n : c.q[i] \in Queued
      /\ \A i \in 1..n : c.q[i].at \in Nat /\ c.q[i].at <= t
  BY <1>1, QueueEntry DEF TtlSound, InTime
<1>3. /\ e \in 0..n
      /\ \A i \in 1..n : i > e => t - c.q[i].at <= Ttl
  BY <1>1, ExpiredIs DEF TtlSound
<1>4. /\ map \in Table(Nat) /\ Keys(map) = (Keys(c.map) \ stale) \cup {k}
      /\ ttl \in Table(Entry) /\ Keys(ttl) = (Keys(c.map) \ stale) \cup {k}
      /\ \A x \in Keys(map) : ttl[x] = IF x = k THEN entry ELSE c.ttl[x]
  <2> HIDE DEF stale
  <2>1. /\ Drop(c.map, stale) \in Table(Nat) /\ Keys(Drop(c.map, stale)) = Keys(c.map) \ stale
        /\ Drop(c.ttl, stale) \in Table(Entry) /\ Keys(Drop(c.ttl, stale)) = Keys(c.map) \ stale
        /\ \A x \in Keys(c.map) \ stale : Drop(c.ttl, stale)[x] = c.ttl[x]
    BY <1>1, TableDrop
  <2>2. entry \in Entry BY <1>1 DEF Entry
  <2> HIDE DEF entry
  <2>3. map \in Table(Nat) /\ Keys(map) = (Keys(c.map) \ stale) \cup {k} BY <2>1, TablePut
  <2>4. /\ ttl \in Table(Entry) /\ Keys(ttl) = (Keys(c.map) \ stale) \cup {k}
        /\ \A x \in (Keys(c.map) \ stale) \cup {k} :
             ttl[x] = IF x = k THEN entry ELSE Drop(c.ttl, stale)[x]
    BY <2>1, <2>2, TablePut
  <2> HIDE DEF map, ttl
  <2>5. QED BY <2>1, <2>3, <2>4
<1>5. /\ q \in Seq(Queued) /\ Len(q) = n - e + 1
      /\ \A i \in 1..(n - e) : q[i] = c.q[e + i] /\ e + i \in 1..n /\ e + i > e
      /\ q[n - e + 1].key = k /\ q[n - e + 1].gen = c.gen /\ q[n - e + 1].at = t
  <2> HIDE DEF e
  <2>1. /\ kept \in Seq(Queued) /\ Len(kept) = n - e
        /\ \A i \in 1..(n - e) : kept[i] = c.q[e + i] /\ e + i \in 1..n /\ e + i > e
    <3>1. e + 1 \in Int /\ n \in Int /\ \A i \in (e + 1)..n : c.q[i] \in Queued BY <1>2, <1>3
    <3>2. /\ kept \in Seq(Queued)
          /\ Len(kept) = IF e + 1 <= n THEN n - (e + 1) + 1 ELSE 0
          /\ \A i \in 1..(n - (e + 1) + 1) : kept[i] = c.q[(e + 1) + i - 1]
      BY <3>1, SubSeqProperties
    <3> HIDE DEF kept
    <3>3. QED BY <3>2, <1>2, <1>3
  <2>2. [key |-> k, gen |-> c.gen, at |-> t] \in Queued BY <1>1 DEF Queued
  <2> HIDE DEF kept, n
  <2>3. /\ q \in Seq(Queued) /\ Len(q) = Len(kept) + 1
        /\ \A i \in 1..Len(kept) : q[i] = kept[i]
        /\ q[Len(kept) + 1] = [key |-> k, gen |-> c.gen, at |-> t]
    BY <2>1, <2>2, AppendProperties
  <2> HIDE DEF q
  <2>4. QED BY <2>1, <2>3
<1>6. /\ d.map = map /\ d.ttl = ttl /\ d.q = q
      /\ TtlShape(d)
  <2>1. d = [c EXCEPT !.map = map, !.ttl = ttl, !.q = q, !.gen = c.gen + 1]
    BY DEF TtlMiss, TtlSound, TtlShape
  <2> HIDE DEF map, ttl, q
  <2>2. QED BY <2>1, <1>1, <1>4, <1>5 DEF TtlSound, TtlShape
<1>7. ASSUME NEW x \in Keys(map), x # k
      PROVE  \E i \in 1..n : /\ i > e
                             /\ c.q[i].key = x /\ c.q[i].gen = c.ttl[x].gen /\ c.q[i].at = c.ttl[x].at
  <2>1. x \in Keys(c.map) /\ x \notin stale
    <3> HIDE DEF map, stale
    <3>1. QED BY <1>4, <1>7
  <2>2. PICK i \in 1..n : c.q[i].key = x /\ c.q[i].gen = c.ttl[x].gen /\ c.q[i].at = c.ttl[x].at
    BY <2>1 DEF TtlSound, AllQueued
  <2>3. i > e
    <3>1. SUFFICES ASSUME i \in 1..e PROVE FALSE BY <1>2, <1>3
    <3>2. x \in stale BY <3>1, <2>1, <2>2, <1>1 DEF Stale
    <3>3. QED BY <3>2, <2>1
  <2>4. QED BY <2>2, <2>3
<1> HIDE DEF map, ttl, q, e, n, stale
<1>8. AllQueued(d)
  <2>1. ASSUME NEW x \in Keys(map)
        PROVE  \E i \in 1..Len(q) :
                 q[i].key = x /\ q[i].gen = ttl[x].gen /\ q[i].at = ttl[x].at
    <3>1. CASE x = k
      <4>1. n - e + 1 \in 1..Len(q) BY <1>2, <1>3, <1>5
      <4>2. ttl[x].gen = c.gen /\ ttl[x].at = t BY <3>1, <1>4
      <4>3. QED BY <4>1, <4>2, <1>5, <3>1
    <3>2. CASE x # k
      <4>1. PICK i \in 1..n : /\ i > e /\ c.q[i].key = x
                              /\ c.q[i].gen = c.ttl[x].gen /\ c.q[i].at = c.ttl[x].at
        BY <1>7, <3>2
      <4>2. i - e \in 1..(n - e) /\ e + (i - e) = i BY <4>1, <1>2, <1>3
      <4>3. i - e \in 1..Len(q) /\ q[i - e] = c.q[i] BY <4>2, <1>5, <1>2, <1>3
      <4>4. ttl[x] = c.ttl[x] BY <1>4, <3>2
      <4>5. QED BY <4>1, <4>3, <4>4
    <3>3. QED BY <3>1, <3>2
  <2>2. QED BY <2>1, <1>4, <1>6 DEF AllQueued
<1>9. InTime(d, t)
  <2>1. ASSUME NEW i \in 1..Len(q)
        PROVE  /\ q[i].at \in Nat /\ q[i].at <= t
               /\ i = n - e + 1 => q[i].at = t
               /\ i # n - e + 1 => i \in 1..(n - e) /\ q[i].at = c.q[e + i].at
    <3>1. CASE i = n - e + 1 BY <3>1, <1>5
    <3>2. CASE i # n - e + 1
      <4>1. i \in 1..(n - e) BY <3>2, <1>2, <1>3, <1>5
      <4>2. q[i] = c.q[e + i] /\ e + i \in 1..n BY <4>1, <1>5
      <4>3. QED BY <3>2, <4>1, <4>2, <1>2
    <3>3. QED BY <3>1, <3>2
  <2>2. ASSUME NEW i \in 1..Len(q), NEW j \in 1..Len(q), i <= j PROVE q[i].at <= q[j].at
    <3>1. CASE j = n - e + 1 BY <3>1, <2>1
    <3>2. CASE j # n - e + 1
      <4>1. j \in 1..(n - e) /\ i \in 1..(n - e) BY <3>2, <2>1, <2>2, <1>2, <1>3
      <4>2. e + i \in 1..n /\ e + j \in 1..n /\ e + i <= e + j BY <4>1, <1>2, <1>3, <2>2
      <4>3. c.q[e + i].at <= c.q[e + j].at BY <4>2 DEF TtlSound, InTime, n
      <4>4. QED BY <4>1, <4>3, <1>5
    <3>3. QED BY <3>1, <3>2
  <2>3. QED BY <2>1, <2>2, <1>6 DEF InTime
<1>10. Together(d)
  <2>1. ASSUME NEW x \in Keys(map)
        PROVE  ttl[x].at \in Nat /\ ttl[x].at <= t /\ t - ttl[x].at <= Ttl
    <3>1. CASE x = k BY <3>1, <1>4, CacheAssumption
    <3>2. CASE x # k
      <4>1. PICK i \in 1..n : i > e /\ c.q[i].at = c.ttl[x].at BY <1>7, <3>2
      <4>2. ttl[x] = c.ttl[x] BY <1>4, <3>2
      <4>3. QED BY <4>1, <4>2, <1>2, <1>3
    <3>3. QED BY <3>1, <3>2
  <2>2. \A x, y \in Keys(map) : ttl[x].at - ttl[y].at <= Ttl BY <2>1, CacheAssumption
  <2>3. QED BY <2>2, <1>6 DEF Together
<1>11. QED BY <1>6, <1>8, <1>9, <1>10 DEF TtlSound
----------------------------------------------------------------------------
(* FIFO keeps a queue with as many places as it has entries at most: unused   *)
(* places in front, then each cached key once.                                *)
Place == Key \cup {Free}

FifoShape(c) ==
  c \in [policy : {"fifo"}, map : Table(Nat), limit : Limit, q : Seq(Place)]

InPlaces(c, f) ==
  /\ \A i \in 1..c.limit : c.q[i] = Free <=> i <= f
  /\ \A i, j \in 1..c.limit : i > f /\ j > f /\ c.q[i] = c.q[j] => i = j
  /\ \A k \in Keys(c.map) : \E i \in 1..c.limit : i > f /\ c.q[i] = k
  /\ \A i \in 1..c.limit : i > f => c.q[i] \in Keys(c.map)

FifoSound(c) ==
  /\ FifoShape(c)
  /\ Len(c.q) = c.limit
  /\ \E f \in 0..c.limit : InPlaces(c, f)

(* What is not unused is used, by one entry.                                 *)
LEMMA FifoSize ==
  ASSUME NEW c, FifoShape(c), NEW f \in 0..c.limit, InPlaces(c, f)
  PROVE  IsFiniteSet(Keys(c.map)) /\ Cardinality(Keys(c.map)) = c.limit - f
<1> DEFINE S == (f + 1)..c.limit
           T == Keys(c.map)
           g == [i \in S |-> c.q[i]]
<1>1. c.limit \in Nat /\ f \in Nat /\ f <= c.limit BY DEF FifoShape, Limit
<1>2. IsFiniteSet(S) /\ Cardinality(S) = c.limit - f
  <2>1. f + 1 \in Int /\ c.limit \in Int BY <1>1
  <2>2. IsFiniteSet(S) /\ Cardinality(S) = IF f + 1 > c.limit THEN 0 ELSE c.limit - (f + 1) + 1
    BY <2>1, FS_Interval
  <2>3. QED BY <2>2, <1>1
<1>3. g \in [S -> T] BY <1>1 DEF InPlaces
<1>4. \A k \in T : \E i \in S : g[i] = k
  <2>1. SUFFICES ASSUME NEW k \in T PROVE \E i \in S : g[i] = k OBVIOUS
  <2>2. PICK i \in 1..c.limit : i > f /\ c.q[i] = k BY DEF InPlaces
  <2>3. i \in S BY <2>2, <1>1
  <2>4. QED BY <2>2, <2>3
<1>5. \A i, j \in S : g[i] = g[j] => i = j BY <1>1 DEF InPlaces
<1>6. g \in Surjection(S, T)
  <2> HIDE DEF g, S, T
  <2>1. QED BY <1>3, <1>4 DEF Surjection
<1>7. g \in Injection(S, T)
  <2> HIDE DEF g, S, T
  <2>1. QED BY <1>3, <1>5 DEF Injection, IsInjective
<1> HIDE DEF g, S, T
<1>8. IsFiniteSet(T) /\ Cardinality(T) = Cardinality(S) BY <1>2, <1>6, <1>7, FS_Surjection
<1>9. QED BY <1>2, <1>8 DEF T

(* The queue without a key that is in it once.                                *)
LEMMA OthersIs ==
  ASSUME NEW S, NEW q \in Seq(S), NEW k, NEW p \in 1..Len(q),
         \A i \in 1..Len(q) : q[i] = k <=> i = p
  PROVE  /\ Others(q, k) \in Seq(S) /\ Len(Others(q, k)) = Len(q) - 1
         /\ \A n \in 1..(Len(q) - 1) : Others(q, k)[n] = IF n < p THEN q[n] ELSE q[n + 1]
<1> DEFINE L    == Len(q)
           kept == {i \in DOMAIN q : q[i] # k}
           upTo(i) == {j \in kept : j <= i}
           at(n)   == CHOOSE i \in kept : Cardinality(upTo(i)) = n
<1>1. L \in Nat /\ DOMAIN q = 1..L BY LenProperties
<1>2. kept = (1..L) \ {p} BY <1>1
<1>3. Cardinality(kept) = L - 1
  <2>1. IsFiniteSet(1..L) /\ Cardinality(1..L) = L BY <1>1, FS_Interval
  <2>2. QED BY <2>1, <1>2, FS_RemoveElement
<1>4. ASSUME NEW i \in kept PROVE Cardinality(upTo(i)) = IF i < p THEN i ELSE i - 1
  <2>1. i \in 1..L /\ i # p BY <1>2
  <2>2. IsFiniteSet(1..i) /\ Cardinality(1..i) = i BY <2>1, <1>1, FS_Interval
  <2>3. CASE i < p
    <3>1. upTo(i) = 1..i BY <2>1, <2>3, <1>1, <1>2
    <3>2. QED BY <3>1, <2>2, <2>3
  <2>4. CASE i > p
    <3>1. upTo(i) = (1..i) \ {p} BY <2>1, <2>4, <1>1, <1>2
    <3>2. p \in 1..i BY <2>1, <2>4, <1>1
    <3>3. Cardinality(upTo(i)) = i - 1 BY <3>1, <3>2, <2>2, FS_RemoveElement
    <3>4. QED BY <3>3, <2>4, <2>1, <1>1
  <2>5. QED BY <2>1, <2>3, <2>4, <1>1
<1>5. ASSUME NEW n \in 1..(L - 1) PROVE at(n) = IF n < p THEN n ELSE n + 1
  <2> DEFINE m == IF n < p THEN n ELSE n + 1
  <2>1. m \in kept /\ (IF m < p THEN m ELSE m - 1) = n BY <1>1, <1>2
  <2>2. Cardinality(upTo(m)) = n
    <3> HIDE DEF m, kept, upTo
    <3>1. QED BY <2>1, <1>4
  <2>3. ASSUME NEW i \in kept, Cardinality(upTo(i)) = n PROVE i = m
    <3>1. (IF i < p THEN i ELSE i - 1) = n
      <4> HIDE DEF kept, upTo
      <4>1. QED BY <2>3, <1>4
    <3>2. i \in 1..L /\ i # p BY <1>2
    <3>3. QED BY <3>1, <3>2, <1>1
  <2> HIDE DEF m, kept, upTo
  <2>4. at(n) \in kept /\ Cardinality(upTo(at(n))) = n BY <2>1, <2>2
  <2> HIDE DEF at
  <2>5. at(n) = m BY <2>3, <2>4
  <2>6. QED BY <2>5 DEF m
<1>6. Others(q, k) = [n \in 1..(L - 1) |-> q[at(n)]] BY <1>3 DEF Others
<1> HIDE DEF at, kept, upTo
<1>7. \A n \in 1..(L - 1) :
        /\ Others(q, k)[n] = q[IF n < p THEN n ELSE n + 1]
        /\ (IF n < p THEN n ELSE n + 1) \in 1..L
  BY <1>5, <1>6, <1>1
<1>8. Others(q, k) \in [1..(L - 1) -> S]
  <2>1. \A i \in 1..L : q[i] \in S BY ElementOfSeq
  <2>2. \A n \in 1..(L - 1) : Others(q, k)[n] \in S BY <2>1, <1>7
  <2>3. QED BY <2>2, <1>6
<1>9. L - 1 \in Nat BY <1>1
<1>10. Others(q, k) \in Seq(S) /\ Len(Others(q, k)) = L - 1 BY <1>8, <1>9
<1>11. QED BY <1>7, <1>10

(* What FIFO keeps of the map it is seeded with: all of it.                  *)
LEMMA FifoKept ==
  ASSUME NEW c, c.limit \in Limit, NEW b \in Base,
         NEW s \in SUBSET Keys(b), NEW ks \in SetToSeqs(s),
         Len(ks) = IF Full(c, b) THEN c.limit ELSE Cardinality(Keys(b))
  PROVE  /\ ks \in Seq(Key) /\ Len(ks) \in {0, 1} /\ Len(ks) <= c.limit
         /\ \A i \in 1..Len(ks) : ks[i] \in Keys(b)
         /\ \A k \in Keys(b) : \E i \in 1..Len(ks) : ks[i] = k
         /\ Restrict(b, Range(ks)) \in Table(Nat) /\ Keys(Restrict(b, Range(ks))) = Keys(b)
<1> DEFINE n == Cardinality(Keys(b))
<1>1. /\ b \in Table(Nat) /\ Keys(b) \subseteq Key /\ n \in {0, 1}
      /\ c.limit \in Nat /\ c.limit >= 1
  BY BaseSize DEF Limit
<1>2. Len(ks) = n /\ n <= c.limit BY <1>1 DEF Full
<1>3. s = Keys(b)
  <2>1. CASE Keys(b) = {} BY <2>1
  <2>2. CASE \E k \in Key : Keys(b) = {k}
    <3>1. PICK k \in Key : Keys(b) = {k} BY <2>2
    <3>2. n = 1 BY <3>1, FS_Singleton
    <3>3. CASE s = {}
      <4>1. Cardinality(s) = 0 BY <3>3, FS_EmptySet
      <4>2. ks \in [1..0 -> {}] BY <3>3, <4>1 DEF SetToSeqs
      <4>3. Len(ks) = 0 BY <4>2
      <4>4. QED BY <4>3, <3>2, <1>2
    <3>4. QED BY <3>1, <3>3
  <2>3. QED BY <2>1, <2>2 DEF Base
<1>4. /\ ks \in Seq(Key) /\ DOMAIN ks = 1..Len(ks)
      /\ \A i \in 1..Len(ks) : ks[i] \in Keys(b)
      /\ \A k \in Keys(b) : \E i \in 1..Len(ks) : ks[i] = k
  BY <1>3, SeedOrder
<1>5. Range(ks) = Keys(b) BY <1>4 DEF Range
<1>6. Restrict(b, Range(ks)) \in Table(Nat) /\ Keys(Restrict(b, Range(ks))) = Keys(b)
  <2>1. Keys(Restrict(b, Range(ks))) = Keys(b) BY <1>5 DEF Restrict, Keys
  <2>2. \A x \in Keys(b) : b[x] \in Nat BY <1>1, TableIs
  <2>3. Restrict(b, Range(ks)) \in [Keys(b) -> Nat] BY <1>5, <2>2 DEF Restrict
  <2>4. QED BY <2>1, <2>3, <1>1 DEF Table
<1>7. QED BY <1>1, <1>2, <1>4, <1>6

(* FIFO: a seed, a miss for a key that is not cached, an eviction of one that *)
(* is.                                                                       *)
LEMMA FifoSeedSound ==
  ASSUME NEW c, FifoShape(c), NEW b \in Base, NEW d \in FifoSeed(c, b)
  PROVE  FifoSound(d)
<1>0. PICK s \in SUBSET Keys(b) : \E ks \in SetToSeqs(s) :
        /\ Len(ks) = IF Full(c, b) THEN c.limit ELSE Cardinality(Keys(b))
        /\ d = [c EXCEPT !.map = Restrict(b, Range(ks)),
                         !.q = [i \in 1..(c.limit - Len(ks)) |-> Free] \o ks]
  BY DEF FifoSeed
<1>1. PICK ks \in SetToSeqs(s) :
        /\ Len(ks) = IF Full(c, b) THEN c.limit ELSE Cardinality(Keys(b))
        /\ d = [c EXCEPT !.map = Restrict(b, Range(ks)),
                         !.q = [i \in 1..(c.limit - Len(ks)) |-> Free] \o ks]
  BY <1>0
<1> DEFINE n    == Len(ks)
           f    == c.limit - n
           map  == Restrict(b, Range(ks))
           free == [i \in 1..f |-> Free]
           q    == free \o ks
<1>2. c.limit \in Limit /\ c.limit \in Nat BY DEF FifoShape, Limit
<1>3. /\ ks \in Seq(Key) /\ n \in {0, 1} /\ n <= c.limit
      /\ \A i \in 1..n : ks[i] \in Keys(b)
      /\ \A k \in Keys(b) : \E i \in 1..n : ks[i] = k
      /\ map \in Table(Nat) /\ Keys(map) = Keys(b)
  BY <1>1, <1>2, FifoKept
<1>4. Keys(b) \subseteq Key BY BaseSize
<1>5. f \in 0..c.limit /\ f + n = c.limit BY <1>2, <1>3
<1>6. free \in Seq(Place) /\ Len(free) = f /\ \A i \in 1..f : free[i] = Free
  <2>1. free \in [1..f -> Place] BY DEF Place
  <2>2. f \in Nat BY <1>5, <1>2
  <2>3. QED BY <2>1, <2>2
<1>7. /\ q \in Seq(Place) /\ Len(q) = c.limit
      /\ \A i \in 1..c.limit : q[i] = IF i <= f THEN Free ELSE ks[i - f]
  <2>1. ks \in Seq(Place) BY <1>3, SeqMonotonic DEF Place
  <2> HIDE DEF free
  <2>2. /\ q \in Seq(Place) /\ Len(q) = Len(free) + Len(ks)
        /\ \A i \in 1..(Len(free) + Len(ks)) :
             q[i] = IF i <= Len(free) THEN free[i] ELSE ks[i - Len(free)]
    BY <1>6, <2>1, ConcatProperties
  <2> HIDE DEF q, f
  <2>3. Len(free) + Len(ks) = c.limit BY <1>5, <1>6
  <2>4. ASSUME NEW i \in 1..c.limit PROVE q[i] = IF i <= f THEN Free ELSE ks[i - f]
    <3>1. i <= f => i \in 1..f BY <1>5, <1>2
    <3>2. QED BY <2>2, <2>3, <1>6, <3>1
  <2>5. QED BY <2>2, <2>3, <2>4
<1>8. FifoShape(d) /\ d.map = map /\ d.q = q /\ d.limit = c.limit
  <2>1. d = [c EXCEPT !.map = map, !.q = q] BY <1>1
  <2> HIDE DEF map, q
  <2>2. QED BY <2>1, <1>3, <1>7 DEF FifoShape
<1> HIDE DEF q, map, free, f
<1>9. InPlaces(d, f)
  <2>1. ASSUME NEW i \in 1..c.limit
        PROVE  /\ i <= f => q[i] = Free
               /\ i > f => q[i] \in Keys(b) /\ q[i] # Free /\ i - f \in 1..n /\ q[i] = ks[i - f]
    <3>1. CASE i <= f BY <3>1, <1>7, <1>5, <1>2
    <3>2. CASE i > f
      <4>1. i - f \in 1..n /\ q[i] = ks[i - f] BY <3>2, <1>2, <1>3, <1>5, <1>7
      <4>2. q[i] \in Keys(b) BY <4>1, <1>3
      <4>3. q[i] # Free BY <4>2, <1>4, CacheAssumption
      <4>4. QED BY <3>2, <4>1, <4>2, <4>3, <1>5, <1>2
    <3>3. QED BY <3>1, <3>2, <1>5, <1>2
  <2>2. \A i \in 1..c.limit : q[i] = Free <=> i <= f BY <2>1, <1>5, <1>2
  <2>3. \A i, j \in 1..c.limit : i > f /\ j > f /\ q[i] = q[j] => i = j BY <2>1, <1>3, <1>5, <1>2
  <2>4. ASSUME NEW k \in Keys(map) PROVE \E i \in 1..c.limit : i > f /\ q[i] = k
    <3>1. PICK i \in 1..n : ks[i] = k BY <1>3
    <3>2. f + i \in 1..c.limit /\ f + i > f /\ (f + i) - f = i /\ ~(f + i <= f)
      BY <1>2, <1>3, <1>5
    <3>3. QED BY <3>1, <3>2, <1>7
  <2>5. \A i \in 1..c.limit : i > f => q[i] \in Keys(map) BY <2>1, <1>3
  <2>6. QED BY <2>2, <2>3, <2>4, <2>5, <1>8 DEF InPlaces
<1>10. QED BY <1>5, <1>7, <1>8, <1>9 DEF FifoSound

(* What a miss makes of the map and the queue.                               *)
LEMMA FifoMissIs ==
  ASSUME NEW c, FifoSound(c), NEW k \in Key, NEW v \in Nat, NEW d \in FifoMiss(c, k, v),
         NEW f \in 0..c.limit, InPlaces(c, f)
  PROVE  /\ FifoShape(d) /\ d.limit = c.limit /\ Len(d.q) = c.limit /\ d.q[c.limit] = k
         /\ \A i \in 1..(c.limit - 1) : d.q[i] = c.q[i + 1] /\ i + 1 \in 1..c.limit
         /\ f = 0 => Keys(d.map) = (Keys(c.map) \ {c.q[1]}) \cup {k}
         /\ f # 0 => Keys(d.map) = Keys(c.map) \cup {k}
<1> DEFINE L   == c.limit
           out == IF Full(c, c.map) THEN Drop(c.map, {Head(c.q)}) ELSE c.map
           map == Put(out, k, v)
           q   == Append(Tail(c.q), k)
<1>1. /\ c.q \in Seq(Place) /\ c.map \in Table(Nat) /\ L \in Nat /\ L >= 1 /\ Len(c.q) = L
      /\ c.q # <<>>
  BY DEF FifoSound, FifoShape, Limit
<1>2. IsFiniteSet(Keys(c.map)) /\ Cardinality(Keys(c.map)) = L - f
  BY FifoSize DEF FifoSound
<1>3. Full(c, c.map) <=> f = 0 BY <1>1, <1>2 DEF Full
<1>4. Head(c.q) = c.q[1] BY <1>1
<1>5. /\ q \in Seq(Place) /\ Len(q) = L /\ q[L] = k
      /\ \A i \in 1..(L - 1) : q[i] = c.q[i + 1] /\ i + 1 \in 1..L
  <2> DEFINE r == Tail(c.q)
  <2>1. r \in Seq(Place) /\ Len(r) = L - 1 /\ \A i \in 1..(L - 1) : r[i] = c.q[i + 1]
    BY <1>1, HeadTailProperties
  <2>2. k \in Place BY DEF Place
  <2> HIDE DEF r
  <2>3. /\ Append(r, k) \in Seq(Place) /\ Len(Append(r, k)) = Len(r) + 1
        /\ \A i \in 1..Len(r) : Append(r, k)[i] = r[i]
        /\ Append(r, k)[Len(r) + 1] = k
    BY <2>1, <2>2, AppendProperties
  <2>4. q = Append(r, k) BY DEF r
  <2> HIDE DEF q
  <2>5. \A i \in 1..(L - 1) : i + 1 \in 1..L BY <1>1
  <2>6. (L - 1) + 1 = L BY <1>1
  <2>7. QED BY <2>1, <2>3, <2>4, <2>5, <2>6
<1>6. out \in Table(Nat) /\ Keys(out) = IF f = 0 THEN Keys(c.map) \ {c.q[1]} ELSE Keys(c.map)
  <2>1. CASE f = 0
    <3>1. out = Drop(c.map, {c.q[1]}) BY <2>1, <1>3, <1>4
    <3> HIDE DEF out
    <3>2. QED BY <2>1, <3>1, <1>1, TableDrop
  <2>2. CASE f # 0 BY <2>2, <1>1, <1>3
  <2>3. QED BY <2>1, <2>2
<1>7. map \in Table(Nat) /\ Keys(map) = Keys(out) \cup {k}
  <2> HIDE DEF out
  <2>1. QED BY <1>6, TablePut
<1>8. FifoShape(d) /\ d.map = map /\ d.q = q /\ d.limit = L
  <2>1. d = [c EXCEPT !.map = map, !.q = q] BY <1>1 DEF FifoMiss, FifoSound, FifoShape
  <2> HIDE DEF map, q
  <2>2. QED BY <2>1, <1>5, <1>7 DEF FifoSound, FifoShape
<1> HIDE DEF map, out, q
<1>9. QED BY <1>5, <1>6, <1>7, <1>8

(* A miss takes the first place and gives the last one to the key.           *)
LEMMA FifoMissSound ==
  ASSUME NEW c, FifoSound(c), NEW k \in Key, k \notin Keys(c.map), NEW v \in Nat,
         NEW d \in FifoMiss(c, k, v)
  PROVE  FifoSound(d)
<1> DEFINE L == c.limit
           q == d.q
<1>1. L \in Nat /\ L >= 1 BY DEF FifoSound, FifoShape, Limit
<1>2. PICK f \in 0..L : InPlaces(c, f) BY DEF FifoSound
<1>3. /\ FifoShape(d) /\ d.limit = L /\ Len(q) = L /\ q[L] = k
      /\ \A i \in 1..(L - 1) : q[i] = c.q[i + 1] /\ i + 1 \in 1..L
      /\ f = 0 => Keys(d.map) = (Keys(c.map) \ {c.q[1]}) \cup {k}
      /\ f # 0 => Keys(d.map) = Keys(c.map) \cup {k}
  BY <1>2, FifoMissIs
<1> HIDE DEF q
<1> DEFINE g == IF f = 0 THEN 0 ELSE f - 1
<1>4. g \in 0..L /\ (f # 0 => g + 1 = f) /\ (f = 0 => g = 0) BY <1>1
<1> HIDE DEF g
<1>5. InPlaces(d, g)
  <2>1. /\ \A i \in 1..L : c.q[i] = Free <=> i <= f
        /\ \A i, j \in 1..L : i > f /\ j > f /\ c.q[i] = c.q[j] => i = j
        /\ \A x \in Keys(c.map) : \E i \in 1..L : i > f /\ c.q[i] = x
        /\ \A i \in 1..L : i > f => c.q[i] \in Keys(c.map)
    BY <1>2 DEF InPlaces
  <2>2. k # Free BY CacheAssumption
  <2>3. \A i \in 1..L : i # L => i \in 1..(L - 1) /\ i + 1 \in 1..L /\ q[i] = c.q[i + 1]
    BY <1>1, <1>3
  <2>4. ASSUME NEW i \in 1..L, i > g PROVE i # L => i + 1 \in 1..L /\ i + 1 > f BY <2>4, <1>4, <1>1
  <2>5. ASSUME NEW i \in 1..L PROVE q[i] = Free <=> i <= g
    <3>1. CASE i = L
      <4>1. q[i] # Free BY <3>1, <1>3, <2>2
      <4>2. ~(i <= g) BY <3>1, <1>4, <1>1
      <4>3. QED BY <4>1, <4>2
    <3>2. CASE i # L
      <4>1. q[i] = c.q[i + 1] /\ i + 1 \in 1..L BY <3>2, <2>3
      <4>2. c.q[i + 1] = Free <=> i + 1 <= f BY <4>1, <2>1
      <4>3. i + 1 <= f <=> i <= g BY <1>4, <1>1
      <4>4. QED BY <4>1, <4>2, <4>3
    <3>3. QED BY <3>1, <3>2
  <2>6. ASSUME NEW i \in 1..L, i > g, i # L
        PROVE  q[i] \in Keys(c.map) /\ q[i] # k /\ (f = 0 => q[i] # c.q[1])
    <3>1. q[i] = c.q[i + 1] /\ i + 1 \in 1..L /\ i + 1 > f BY <2>6, <2>3, <2>4
    <3>2. q[i] \in Keys(c.map) BY <3>1, <2>1
    <3>3. ASSUME f = 0 PROVE c.q[i + 1] # c.q[1]
      <4>1. 1 \in 1..L /\ 1 > f /\ i + 1 # 1 BY <1>1, <3>3
      <4>2. QED BY <4>1, <3>1, <2>1
    <3>4. QED BY <3>1, <3>2, <3>3
  <2>7. ASSUME NEW i \in 1..L, NEW j \in 1..L, i > g, j > g, q[i] = q[j] PROVE i = j
    <3>1. CASE i = L \/ j = L BY <3>1, <2>6, <2>7, <1>3
    <3>2. CASE i # L /\ j # L
      <4>1. i + 1 = j + 1 BY <3>2, <2>1, <2>3, <2>4, <2>7
      <4>2. QED BY <4>1, <1>1
    <3>3. QED BY <3>1, <3>2
  <2>8. ASSUME NEW x \in Keys(d.map) PROVE \E i \in 1..L : i > g /\ q[i] = x
    <3>1. CASE x = k
      <4>1. L \in 1..L /\ L > g BY <1>1, <1>4
      <4>2. QED BY <4>1, <3>1, <1>3
    <3>2. CASE x # k
      <4>1. x \in Keys(c.map) /\ (f = 0 => x # c.q[1]) BY <3>2, <1>3
      <4>2. PICK i \in 1..L : i > f /\ c.q[i] = x BY <4>1, <2>1
      <4>3. i # 1 \/ f # 0 BY <4>1, <4>2
      <4>4. i - 1 \in 1..(L - 1) /\ i - 1 > g /\ (i - 1) + 1 = i BY <4>2, <4>3, <1>1, <1>4
      <4>5. i - 1 \in 1..L /\ q[i - 1] = x BY <4>2, <4>4, <1>1, <1>3
      <4>6. QED BY <4>4, <4>5
    <3>3. QED BY <3>1, <3>2
  <2>9. ASSUME NEW i \in 1..L, i > g PROVE q[i] \in Keys(d.map)
    <3>1. CASE i = L BY <3>1, <1>3
    <3>2. CASE i # L BY <3>2, <2>6, <2>9, <1>3
    <3>3. QED BY <3>1, <3>2
  <2>10. QED BY <2>5, <2>7, <2>8, <2>9, <1>3 DEF InPlaces, q
<1>6. QED BY <1>3, <1>4, <1>5 DEF FifoSound, q

(* What an eviction makes of the map and the queue, with f places unused and   *)
(* the key in place p.                                                       *)
LEMMA FifoEvictIs ==
  ASSUME NEW c, FifoSound(c), NEW k \in Keys(c.map), NEW d \in {FifoEvict(c, k)},
         NEW f \in 0..c.limit, InPlaces(c, f)
  PROVE  \E p \in 1..c.limit :
           /\ p > f /\ \A i \in 1..c.limit : c.q[i] = k <=> i = p
           /\ FifoShape(d) /\ d.limit = c.limit /\ Len(d.q) = c.limit /\ d.q[1] = Free
           /\ \A i \in 2..c.limit : d.q[i] = IF i <= p THEN c.q[i - 1] ELSE c.q[i]
           /\ Keys(d.map) = Keys(c.map) \ {k}
<1> DEFINE L   == c.limit
           map == Drop(c.map, {k})
           r   == Others(c.q, k)
           q   == <<Free>> \o r
<1>1. /\ c.q \in Seq(Place) /\ c.map \in Table(Nat) /\ L \in Nat /\ L >= 1 /\ Len(c.q) = L
      /\ k \in Key
  <2>1. c.q \in Seq(Place) /\ c.map \in Table(Nat) /\ L \in Nat /\ L >= 1 /\ Len(c.q) = L
    BY DEF FifoSound, FifoShape, Limit
  <2>2. QED BY <2>1, TableIs
<1>2. /\ \A i \in 1..L : c.q[i] = Free <=> i <= f
      /\ \A i, j \in 1..L : i > f /\ j > f /\ c.q[i] = c.q[j] => i = j
      /\ \A x \in Keys(c.map) : \E i \in 1..L : i > f /\ c.q[i] = x
      /\ \A i \in 1..L : i > f => c.q[i] \in Keys(c.map)
  BY DEF InPlaces
<1>3. PICK p \in 1..L : p > f /\ c.q[p] = k BY <1>2
<1>4. \A i \in 1..L : c.q[i] = k <=> i = p
  <2>1. k # Free BY <1>1, CacheAssumption
  <2>2. QED BY <2>1, <1>1, <1>2, <1>3
<1>5. /\ r \in Seq(Place) /\ Len(r) = L - 1
      /\ \A i \in 1..(L - 1) : r[i] = IF i < p THEN c.q[i] ELSE c.q[i + 1]
  <2>1. p \in 1..Len(c.q) /\ \A i \in 1..Len(c.q) : c.q[i] = k <=> i = p BY <1>1, <1>4
  <2>2. /\ r \in Seq(Place) /\ Len(r) = Len(c.q) - 1
        /\ \A i \in 1..(Len(c.q) - 1) : r[i] = IF i < p THEN c.q[i] ELSE c.q[i + 1]
    BY <1>1, <2>1, OthersIs
  <2>3. QED BY <1>1, <2>2
<1>6. /\ q \in Seq(Place) /\ Len(q) = L /\ q[1] = Free
      /\ \A i \in 2..L : q[i] = IF i <= p THEN c.q[i - 1] ELSE c.q[i]
  <2> HIDE DEF r
  <2>1. <<Free>> \in Seq(Place) /\ Len(<<Free>>) = 1 /\ <<Free>>[1] = Free BY DEF Place
  <2>2. /\ q \in Seq(Place) /\ Len(q) = 1 + Len(r)
        /\ \A i \in 1..(1 + Len(r)) : q[i] = IF i <= 1 THEN <<Free>>[i] ELSE r[i - 1]
    BY <2>1, <1>5, ConcatProperties
  <2> HIDE DEF q
  <2>3. 1 + Len(r) = L BY <1>1, <1>5
  <2>4. q[1] = Free BY <2>1, <2>2, <2>3, <1>1
  <2>5. ASSUME NEW i \in 2..L PROVE q[i] = IF i <= p THEN c.q[i - 1] ELSE c.q[i]
    <3>1. q[i] = r[i - 1] /\ i - 1 \in 1..(L - 1) /\ (i - 1) + 1 = i BY <2>2, <2>3, <1>1
    <3>2. i - 1 < p <=> i <= p BY <1>1
    <3>3. QED BY <3>1, <3>2, <1>5
  <2>6. QED BY <2>2, <2>3, <2>4, <2>5
<1>7. map \in Table(Nat) /\ Keys(map) = Keys(c.map) \ {k} BY <1>1, TableDrop
<1>8. FifoShape(d) /\ d.map = map /\ d.q = q /\ d.limit = L
  <2>1. d = [c EXCEPT !.map = map, !.q = q] BY DEF FifoEvict, Without, FifoSound, FifoShape
  <2> HIDE DEF map, q
  <2>2. QED BY <2>1, <1>6, <1>7 DEF FifoSound, FifoShape
<1> HIDE DEF map, r, q
<1>9. QED BY <1>3, <1>4, <1>6, <1>7, <1>8

(* Eviction frees the place of the key.                                      *)
LEMMA FifoEvictSound ==
  ASSUME NEW c, FifoSound(c), NEW k \in Keys(c.map), NEW d \in {FifoEvict(c, k)}
  PROVE  FifoSound(d)
<1> DEFINE L == c.limit
           q == d.q
<1>1. L \in Nat /\ L >= 1 BY DEF FifoSound, FifoShape, Limit
<1>2. PICK f \in 0..L : InPlaces(c, f) BY DEF FifoSound
<1>3. /\ \A i \in 1..L : c.q[i] = Free <=> i <= f
      /\ \A i, j \in 1..L : i > f /\ j > f /\ c.q[i] = c.q[j] => i = j
      /\ \A x \in Keys(c.map) : \E i \in 1..L : i > f /\ c.q[i] = x
      /\ \A i \in 1..L : i > f => c.q[i] \in Keys(c.map)
  BY <1>2 DEF InPlaces
<1>4. PICK p \in 1..L :
        /\ p > f /\ \A i \in 1..L : c.q[i] = k <=> i = p
        /\ FifoShape(d) /\ d.limit = L /\ Len(q) = L /\ q[1] = Free
        /\ \A i \in 2..L : q[i] = IF i <= p THEN c.q[i - 1] ELSE c.q[i]
        /\ Keys(d.map) = Keys(c.map) \ {k}
  BY <1>2, FifoEvictIs
<1> HIDE DEF q
<1>5. f + 1 \in 0..L BY <1>1, <1>4
(* Where place i of the new queue was.                                        *)
<1> DEFINE was(i) == IF i <= p THEN i - 1 ELSE i
<1>6. ASSUME NEW i \in 1..L, i > f + 1
       PROVE  was(i) \in 1..L /\ was(i) > f /\ was(i) # p /\ q[i] = c.q[was(i)]
  BY <1>1, <1>4, <1>6
<1>7. InPlaces(d, f + 1)
  <2>1. ASSUME NEW i \in 1..L PROVE q[i] = Free <=> i <= f + 1
    <3>1. CASE i = 1 BY <3>1, <1>4, <1>1
    <3>2. CASE i # 1 /\ i <= f + 1
      <4>1. i \in 2..L /\ i <= p /\ i - 1 \in 1..L /\ i - 1 <= f BY <3>2, <1>1, <1>4
      <4>2. QED BY <4>1, <3>2, <1>3, <1>4
    <3>3. CASE i > f + 1
      <4>1. was(i) \in 1..L /\ ~(was(i) <= f) /\ q[i] = c.q[was(i)] BY <3>3, <1>6, <1>1
      <4> HIDE DEF was
      <4>2. QED BY <4>1, <3>3, <1>3, <1>1
    <3>4. QED BY <3>1, <3>2, <3>3, <1>1
  <2>2. ASSUME NEW i \in 1..L, NEW j \in 1..L, i > f + 1, j > f + 1, q[i] = q[j] PROVE i = j
    <3>1. was(i) = was(j)
      <4> HIDE DEF was
      <4>1. QED BY <2>2, <1>6, <1>3
    <3>2. was(i) # p /\ was(j) # p BY <2>2, <1>6
    <3>3. QED BY <3>1, <3>2, <1>1
  <2>3. ASSUME NEW x \in Keys(d.map) PROVE \E i \in 1..L : i > f + 1 /\ q[i] = x
    <3>1. x \in Keys(c.map) /\ x # k BY <1>4
    <3>2. PICK i \in 1..L : i > f /\ c.q[i] = x BY <3>1, <1>3
    <3>3. i # p BY <3>1, <3>2, <1>4
    <3>4. CASE i < p
      <4>1. i + 1 \in 2..L /\ i + 1 <= p /\ i + 1 > f + 1 /\ (i + 1) - 1 = i BY <3>2, <3>4, <1>1
      <4>2. q[i + 1] = x /\ i + 1 \in 1..L BY <4>1, <3>2, <1>4, <1>1
      <4>3. QED BY <4>1, <4>2
    <3>5. CASE i > p
      <4>1. i \in 2..L /\ ~(i <= p) /\ i > f + 1 BY <3>2, <3>5, <1>1, <1>4
      <4>2. q[i] = x BY <4>1, <3>2, <1>4
      <4>3. QED BY <4>1, <4>2
    <3>6. QED BY <3>3, <3>4, <3>5, <1>1
  <2>4. ASSUME NEW i \in 1..L, i > f + 1 PROVE q[i] \in Keys(d.map)
    <3>1. was(i) \in 1..L /\ was(i) > f /\ was(i) # p /\ q[i] = c.q[was(i)] BY <2>4, <1>6
    <3> HIDE DEF was
    <3>2. q[i] \in Keys(c.map) /\ q[i] # k BY <3>1, <1>3, <1>4
    <3>3. QED BY <3>2, <1>4
  <2>5. QED BY <2>1, <2>2, <2>3, <2>4, <1>4 DEF InPlaces, q
<1>8. QED BY <1>4, <1>5, <1>7 DEF FifoSound, q
----------------------------------------------------------------------------
(* A sound cache, of any policy but LIRS, at time t.                         *)
BasicSound(c) == c \in [policy : {"basic"}, map : Table(Nat)]

Sound(c, t) ==
  BasicSound(c) \/ FifoSound(c) \/ LruSound(c) \/ LuSound(c) \/ TtlSound(c, t)

(* A cache that may be seeded.                                               *)
Seedable(c, t) ==
  \/ BasicSound(c)
  \/ FifoShape(c)
  \/ c \in [policy : {"lru"}, map : Table(Nat), limit : Limit, lru : Table(Nat), tick : Nat]
  \/ c \in [policy : {"lu"}, map : Table(Nat), limit : Limit, lu : Table(Nat)]
  \/ TtlShape(c) /\ InTime(c, t)

(* What is sound is so in the way of its policy, and may be seeded.          *)
LEMMA SoundIs ==
  ASSUME NEW c, NEW t, Sound(c, t)
  PROVE  /\ c.policy \in {"basic", "fifo", "lru", "lu", "ttl"}
         /\ c.policy = "basic" => BasicSound(c)
         /\ c.policy = "fifo" => FifoSound(c)
         /\ c.policy = "lru" => LruSound(c)
         /\ c.policy = "lu" => LuSound(c)
         /\ c.policy = "ttl" => TtlSound(c, t)
         /\ c.map \in Table(Nat)
         /\ Seedable(c, t)
<1>1. BasicSound(c) => c.policy = "basic" /\ c.map \in Table(Nat) BY DEF BasicSound
<1>2. FifoSound(c) => c.policy = "fifo" /\ c.map \in Table(Nat) BY DEF FifoSound, FifoShape
<1>3. LruSound(c) => c.policy = "lru" /\ c.map \in Table(Nat) BY DEF LruSound
<1>4. LuSound(c) => c.policy = "lu" /\ c.map \in Table(Nat) BY DEF LuSound
<1>5. TtlSound(c, t) => c.policy = "ttl" /\ c.map \in Table(Nat) BY DEF TtlSound, TtlShape
<1>6. Seedable(c, t) BY DEF Sound, Seedable, FifoSound, LruSound, LuSound, TtlSound
<1>7. QED BY <1>1, <1>2, <1>3, <1>4, <1>5, <1>6 DEF Sound

(* What may be seeded has the shape of its policy.                           *)
LEMMA SeedableIs ==
  ASSUME NEW c, NEW t, Seedable(c, t)
  PROVE  /\ c.policy \in {"basic", "fifo", "lru", "lu", "ttl"}
         /\ c.policy = "basic" => BasicSound(c)
         /\ c.policy = "fifo" => FifoShape(c)
         /\ c.policy = "lru" =>
              c \in [policy : {"lru"}, map : Table(Nat), limit : Limit, lru : Table(Nat), tick : Nat]
         /\ c.policy = "lu" =>
              c \in [policy : {"lu"}, map : Table(Nat), limit : Limit, lu : Table(Nat)]
         /\ c.policy = "ttl" => TtlShape(c) /\ InTime(c, t)
<1>1. BasicSound(c) => c.policy = "basic" BY DEF BasicSound
<1>2. FifoShape(c) => c.policy = "fifo" BY DEF FifoShape
<1>3. TtlShape(c) => c.policy = "ttl" BY DEF TtlShape
<1>4. QED BY <1>1, <1>2, <1>3 DEF Seedable

(* A sound cache stays so while the clock moves on.                          *)
LEMMA SoundLater ==
  ASSUME NEW c, NEW t \in Nat, Sound(c, t), NEW u \in Nat, t <= u
  PROVE  Sound(c, u)
BY TtlLater DEF Sound

(* The operations, on a cache of any of these policies.                       *)
LEMMA SeedsSound ==
  ASSUME NEW c, NEW t \in Nat, Seedable(c, t), NEW b \in Base, NEW d \in Seeds(c, b, t)
  PROVE  Sound(d, t) /\ d.policy = c.policy
<1>1. CASE c.policy = "basic"
  <2>1. d = [c EXCEPT !.map = b] /\ BasicSound(c) BY <1>1, SeedableIs DEF Seeds
  <2>2. BasicSound(d) BY <2>1, BaseSize DEF BasicSound
  <2>3. QED BY <2>2, <1>1 DEF Sound, BasicSound
<1>2. CASE c.policy = "fifo"
  <2>1. d \in FifoSeed(c, b) BY <1>2 DEF Seeds
  <2>2. FifoSound(d) BY <2>1, <1>2, SeedableIs, FifoSeedSound
  <2>3. QED BY <2>2, <1>2 DEF Sound, FifoSound, FifoShape
<1>3. CASE c.policy = "lru"
  <2>1. d \in LruSeed(c, b) BY <1>3 DEF Seeds
  <2>2. LruSound(d) BY <2>1, <1>3, SeedableIs, LruSeedSound
  <2>3. QED BY <2>2, <1>3 DEF Sound, LruSound
<1>4. CASE c.policy = "lu"
  <2>1. d \in LuSeed(c, b) BY <1>4 DEF Seeds
  <2>2. LuSound(d) BY <2>1, <1>4, SeedableIs, LuSeedSound
  <2>3. QED BY <2>2, <1>4 DEF Sound, LuSound
<1>5. CASE c.policy = "ttl"
  <2>1. d \in TtlSeed(c, b, t) BY <1>5 DEF Seeds
  <2>2. TtlSound(d, t) BY <2>1, <1>5, SeedableIs, TtlSeedSound
  <2>3. QED BY <2>2, <1>5 DEF Sound, TtlSound, TtlShape
<1>6. QED BY <1>1, <1>2, <1>3, <1>4, <1>5, SeedableIs

(* A hit keeps a cache sound.                                                *)
LEMMA HitsSound ==
  ASSUME NEW c, NEW t \in Nat, Sound(c, t), NEW k \in Key, NEW d \in Hits(c, k)
  PROVE  Sound(d, t) /\ d.policy = c.policy
<1>1. CASE c.policy = "lru"
  <2>1. d \in LruHit(c, k) BY <1>1 DEF Hits
  <2>2. LruSound(d) BY <2>1, <1>1, SoundIs, LruHitSound
  <2>3. QED BY <2>2, <1>1 DEF Sound, LruSound
<1>2. CASE c.policy = "lu"
  <2>1. d \in LuHit(c, k) BY <1>2 DEF Hits
  <2>2. LuSound(d) BY <2>1, <1>2, SoundIs, LuHitSound
  <2>3. QED BY <2>2, <1>2 DEF Sound, LuSound
<1>3. CASE c.policy \notin {"lru", "lu"}
  <2>1. c.policy # "lirs" BY SoundIs
  <2>2. d = c BY <1>3, <2>1 DEF Hits
  <2>3. QED BY <2>2
<1>4. QED BY <1>1, <1>2, <1>3

(* A miss keeps a cache sound; a FIFO cache must not hold the key yet.       *)
LEMMA MissesSound ==
  ASSUME NEW c, NEW t \in Nat, Sound(c, t), NEW k \in Key, NEW v \in Nat,
         c.policy = "fifo" => k \notin Keys(c.map), NEW d \in Misses(c, k, v, t)
  PROVE  Sound(d, t) /\ d.policy = c.policy
<1>1. CASE c.policy = "basic"
  <2>1. d = [c EXCEPT !.map = Put(c.map, k, v)] /\ BasicSound(c) BY <1>1, SoundIs DEF Misses
  <2>2. Put(c.map, k, v) \in Table(Nat) BY SoundIs, TablePut
  <2>3. BasicSound(d) BY <2>1, <2>2 DEF BasicSound
  <2>4. QED BY <2>3, <1>1 DEF Sound, BasicSound
<1>2. CASE c.policy = "fifo"
  <2>1. d \in FifoMiss(c, k, v) BY <1>2 DEF Misses
  <2>2. FifoSound(d) BY <2>1, <1>2, SoundIs, FifoMissSound
  <2>3. QED BY <2>2, <1>2 DEF Sound, FifoSound, FifoShape
<1>3. CASE c.policy = "lru"
  <2>1. d \in LruMiss(c, k, v) BY <1>3 DEF Misses
  <2>2. LruSound(d) BY <2>1, <1>3, SoundIs, LruMissSound
  <2>3. QED BY <2>2, <1>3 DEF Sound, LruSound
<1>4. CASE c.policy = "lu"
  <2>1. d \in LuMiss(c, k, v) BY <1>4 DEF Misses
  <2>2. LuSound(d) BY <2>1, <1>4, SoundIs, LuMissSound
  <2>3. QED BY <2>2, <1>4 DEF Sound, LuSound
<1>5. CASE c.policy = "ttl"
  <2>1. d \in TtlMiss(c, k, v, t) BY <1>5 DEF Misses
  <2>2. TtlSound(d, t) BY <2>1, <1>5, SoundIs, TtlMissSound
  <2>3. QED BY <2>2, <1>5 DEF Sound, TtlSound, TtlShape
<1>6. QED BY <1>1, <1>2, <1>3, <1>4, <1>5, SoundIs

(* An eviction keeps a cache sound.                                          *)
LEMMA EvictsSound ==
  ASSUME NEW c, NEW t \in Nat, Sound(c, t), NEW k \in Key, NEW d \in {Evicts(c, k)}
  PROVE  Sound(d, t) /\ d.policy = c.policy
<1>1. CASE c.policy = "basic"
  <2>1. d = [c EXCEPT !.map = Drop(c.map, {k})] /\ BasicSound(c)
    BY <1>1, SoundIs DEF Evicts, Without
  <2>2. Drop(c.map, {k}) \in Table(Nat) BY SoundIs, TableDrop
  <2>3. BasicSound(d) BY <2>1, <2>2 DEF BasicSound
  <2>4. QED BY <2>3, <1>1 DEF Sound, BasicSound
<1>2. CASE c.policy = "ttl"
  <2>1. d \in {TtlEvict(c, k)} BY <1>2 DEF Evicts
  <2>2. TtlSound(d, t) BY <2>1, <1>2, SoundIs, TtlEvictSound
  <2>3. QED BY <2>2, <1>2 DEF Sound, TtlSound, TtlShape
<1>3. CASE c.policy \in {"fifo", "lru", "lu"} /\ k \notin Keys(c.map)
  <2>1. d = c BY <1>3 DEF Evicts
  <2>2. QED BY <2>1
<1>4. CASE c.policy = "fifo" /\ k \in Keys(c.map)
  <2>1. d \in {FifoEvict(c, k)} BY <1>4 DEF Evicts
  <2>2. FifoSound(d) BY <2>1, <1>4, SoundIs, FifoEvictSound
  <2>3. QED BY <2>2, <1>4 DEF Sound, FifoSound, FifoShape
<1>5. CASE c.policy = "lru" /\ k \in Keys(c.map)
  <2>1. d \in {LruEvict(c, k)} BY <1>5 DEF Evicts
  <2>2. LruSound(d) BY <2>1, <1>5, SoundIs, LruEvictSound
  <2>3. QED BY <2>2, <1>5 DEF Sound, LruSound
<1>6. CASE c.policy = "lu" /\ k \in Keys(c.map)
  <2>1. d \in {LuEvict(c, k)} BY <1>6 DEF Evicts
  <2>2. LuSound(d) BY <2>1, <1>6, SoundIs, LuEvictSound
  <2>3. QED BY <2>2, <1>6 DEF Sound, LuSound
<1>7. QED BY <1>1, <1>2, <1>3, <1>4, <1>5, <1>6, SoundIs
----------------------------------------------------------------------------
(***************************************************************************)
(* The threads.  A thread that is not idle has a record of what it does; the *)
(* operation it began tells the phases it goes through.                      *)
(***************************************************************************)
Delay == [key : Key, done : BOOLEAN, by : Thread \cup {Nobody}]

PhasesOf(op) ==
  IF op = "call" THEN {"call", "store", "deref", "running"}
  ELSE IF op \in {"clear", "evict", "reset"} THEN {op, "replace"}
  ELSE IF op = "swap" THEN {"swap"}
  ELSE IF op \in SwapOps THEN {op, "cas"}
  ELSE {op, "computing"}

IsJob(r) ==
  r \in [phase : {r.phase}, op : {r.op}, key : {r.key}, seen : {r.seen}, new : {r.new},
         delay : {r.delay}]

JobOk(r) ==
  /\ IsJob(r)
  /\ r.op \in scenario.ops /\ r.phase \in PhasesOf(r.op)
  /\ r.key \in Key /\ (r.phase = "computing" => r.delay \in Nat)

Types ==
  /\ scenario \in Scenario
  /\ now \in Nat
  /\ delays \in Seq(Delay)
  /\ job = [t \in Thread |-> job[t]]
  /\ \A t \in Thread : job[t] = Idle \/ JobOk(job[t])

(* Who holds a lock is in the phase that needs it.                           *)
Locked ==
  /\ \A t \in Thread : /\ Phase(t) = "store" => fnLock = t
                       /\ Phase(t) = "computing" => atomLock = t
  /\ fnLock # Nobody => fnLock \in Thread /\ Phase(fnLock) = "store"

(* Where the policy keeps its bookkeeping sound, the cache is sound and so is  *)
(* every cache that a thread has made and not stored yet.                     *)
Covered ==
  /\ scenario.policy # "lirs"
  /\ scenario.policy = "fifo" => scenario.ops \cap {"miss!", "swap"} = {}

Making(t) == Phase(t) \in {"store", "replace", "cas"}

Kept ==
  Covered =>
    /\ Sound(cache, now) /\ cache.policy = scenario.policy
    /\ \A t \in Thread : Making(t) =>
         Sound(job[t].new, now) /\ job[t].new.policy = scenario.policy
    /\ \A t \in Thread : Phase(t) = "computing" /\ scenario.policy # "ttl" =>
         K(t) \notin Keys(cache.map)

(* Behind a cache that forgets nothing: the map that is stored or about to be  *)
(* holds every delay that a memoized function made, and the map of a wrapped   *)
(* cache every delay that was computed.                                       *)
Latest == IF fnLock = Nobody THEN cache.map ELSE job[fnLock].new.map

Holds(map, d) == delays[d].key \in Keys(map) /\ map[delays[d].key] = d

OnceInv ==
  scenario.policy = "basic" =>
    /\ scenario.ops \subseteq {"call"} => \A d \in DOMAIN delays : Holds(Latest, d)
    /\ scenario.ops \subseteq LockOps =>
         /\ \A d \in DOMAIN delays : delays[d].done => Holds(cache.map, d)
         /\ \A t \in Thread : Phase(t) = "computing" =>
              /\ job[t].delay \in DOMAIN delays
              /\ delays[job[t].delay].key = K(t) /\ ~delays[job[t].delay].done

MemoInv == Types /\ Locked /\ Kept /\ OnceInv

(* A step of thread t leaves the other threads' jobs alone.                   *)
Elsewhere(t) == job' = [u \in Thread |-> job'[u]] /\ \A u \in Thread \ {t} : job'[u] = job[u]

(* A thread that is doing something has a record of it.                      *)
LEMMA Active ==
  ASSUME Types, NEW t \in Thread, Phase(t) # "idle"
  PROVE  /\ JobOk(job[t]) /\ job[t].op \in Ops
         /\ scenario.ops \subseteq {"call"} => Phase(t) \in {"call", "store", "deref", "running"}
         /\ scenario.ops \subseteq LockOps => Phase(t) \in LockOps \cup {"computing"}
<1>1. JobOk(job[t]) BY DEF Types, Phase, Idle
<1>2. job[t].op \in scenario.ops /\ Phase(t) \in PhasesOf(job[t].op) BY <1>1 DEF JobOk, Phase
<1>3. scenario.ops \subseteq {"call"} => Phase(t) \in {"call", "store", "deref", "running"}
  BY <1>2 DEF PhasesOf
<1>4. scenario.ops \subseteq LockOps => Phase(t) \in LockOps \cup {"computing"}
  BY <1>2 DEF PhasesOf, LockOps, SwapOps
<1>5. job[t].op \in Ops BY <1>2, MemoAssumption DEF Types
<1>6. QED BY <1>1, <1>3, <1>4, <1>5

(* The record of a job after the changes that the steps make to it: it goes to *)
(* another phase, has made a cache, has read a map and made a cache, has a    *)
(* delay to compute, has found a delay and forgets the cache it made.        *)
Goes(r, p)        == [r EXCEPT !.phase = p]
Makes(r, p, c)    == [r EXCEPT !.phase = p, !.new = c]
Reads(r, p, m, c) == [r EXCEPT !.phase = p, !.seen = m, !.new = c]
Takes(r, p, d)    == [r EXCEPT !.phase = p, !.delay = d]
Finds(r, p, d, c) == [r EXCEPT !.phase = p, !.delay = d, !.new = c]

(* The operation and the key stay as the thread began them.                  *)
Same(s, r) == IsJob(s) /\ s.op = r.op /\ s.key = r.key

(* Each change sets the fields it names, and only those.                     *)
LEMMA JobGoes ==
  ASSUME NEW r, IsJob(r), NEW p
  PROVE  /\ Same(Goes(r, p), r) /\ Goes(r, p).phase = p
         /\ Goes(r, p).new = r.new /\ Goes(r, p).delay = r.delay
<1>1. ASSUME NEW s \in {Goes(r, p)}
      PROVE  Same(s, r) /\ s.phase = p /\ s.new = r.new /\ s.delay = r.delay
  BY DEF IsJob, Same, Goes
<1>2. QED BY <1>1

(* A thread makes a cache.                                                   *)
LEMMA JobMakes ==
  ASSUME NEW r, IsJob(r), NEW p, NEW c
  PROVE  /\ Same(Makes(r, p, c), r) /\ Makes(r, p, c).phase = p
         /\ Makes(r, p, c).new = c /\ Makes(r, p, c).delay = r.delay
<1>1. ASSUME NEW s \in {Makes(r, p, c)}
      PROVE  Same(s, r) /\ s.phase = p /\ s.new = c /\ s.delay = r.delay
  BY DEF IsJob, Same, Makes
<1>2. QED BY <1>1

(* A thread reads a map and makes a cache.                                   *)
LEMMA JobReads ==
  ASSUME NEW r, IsJob(r), NEW p, NEW m, NEW c
  PROVE  /\ Same(Reads(r, p, m, c), r) /\ Reads(r, p, m, c).phase = p
         /\ Reads(r, p, m, c).new = c /\ Reads(r, p, m, c).delay = r.delay
<1>1. ASSUME NEW s \in {Reads(r, p, m, c)}
      PROVE  Same(s, r) /\ s.phase = p /\ s.new = c /\ s.delay = r.delay
  BY DEF IsJob, Same, Reads
<1>2. QED BY <1>1

(* A thread takes a delay on itself.                                         *)
LEMMA JobTakes ==
  ASSUME NEW r, IsJob(r), NEW p, NEW d
  PROVE  /\ Same(Takes(r, p, d), r) /\ Takes(r, p, d).phase = p
         /\ Takes(r, p, d).delay = d
<1>1. ASSUME NEW s \in {Takes(r, p, d)}
      PROVE  Same(s, r) /\ s.phase = p /\ s.delay = d
  BY DEF IsJob, Same, Takes
<1>2. QED BY <1>1

(* A thread finds the delay in the cache it has stored.                      *)
LEMMA JobFinds ==
  ASSUME NEW r, IsJob(r), NEW p, NEW d, NEW c
  PROVE  /\ Same(Finds(r, p, d, c), r) /\ Finds(r, p, d, c).phase = p
         /\ Finds(r, p, d, c).delay = d
<1>1. ASSUME NEW s \in {Finds(r, p, d, c)}
      PROVE  Same(s, r) /\ s.phase = p /\ s.delay = d
  BY DEF IsJob, Same, Finds
<1>2. QED BY <1>1

(* The types after a step of one thread.                                     *)
LEMMA TypesStay ==
  ASSUME Types, NEW t \in Thread, scenario' = scenario, now' = now, delays' \in Seq(Delay),
         Elsewhere(t), job'[t] = Idle \/ JobOk(job'[t])
  PROVE  Types'
<1>1. \A u \in Thread : job'[u] = Idle \/ JobOk(job'[u]) BY DEF Types, Elsewhere
<1>2. \A u \in Thread : job'[u] = Idle \/ JobOk(job[u])' BY <1>1 DEF JobOk, IsJob
<1>3. QED BY <1>2 DEF Types, Elsewhere, Idle

(* A step that stores no cache keeps what is kept.                           *)
LEMMA KeptStays ==
  ASSUME Kept, NEW t \in Thread, UNCHANGED <<scenario, cache, now>>, Elsewhere(t),
         Covered /\ job'[t].phase \in {"store", "replace", "cas"} =>
           Sound(job'[t].new, now) /\ job'[t].new.policy = scenario.policy,
         Covered /\ job'[t].phase = "computing" /\ scenario.policy # "ttl" =>
           job'[t].key \notin Keys(cache.map)
  PROVE  Kept'
<1>1. SUFFICES ASSUME Covered PROVE
        /\ Sound(cache, now) /\ cache.policy = scenario.policy
        /\ \A u \in Thread : Making(u)' =>
             Sound(job'[u].new, now) /\ job'[u].new.policy = scenario.policy
        /\ \A u \in Thread : job'[u].phase = "computing" /\ scenario.policy # "ttl" =>
             job'[u].key \notin Keys(cache.map)
  BY DEF Kept, Covered, Phase, K
<1>2. ASSUME NEW u \in Thread, Making(u)'
      PROVE  Sound(job'[u].new, now) /\ job'[u].new.policy = scenario.policy
  <2>1. CASE u = t BY <2>1, <1>1, <1>2 DEF Making, Phase
  <2>2. CASE u # t
    <3>1. job'[u] = job[u] /\ Making(u) BY <2>2, <1>2 DEF Elsewhere, Making, Phase
    <3>2. QED BY <3>1, <1>1 DEF Kept
  <2>3. QED BY <2>1, <2>2
<1>3. ASSUME NEW u \in Thread, job'[u].phase = "computing", scenario.policy # "ttl"
      PROVE  job'[u].key \notin Keys(cache.map)
  <2>1. CASE u = t BY <2>1, <1>1, <1>3
  <2>2. CASE u # t
    <3>1. job'[u] = job[u] BY <2>2 DEF Elsewhere
    <3>2. QED BY <3>1, <1>1, <1>3 DEF Kept, Phase, K
  <2>3. QED BY <2>1, <2>2
<1>4. QED BY <1>1, <1>2, <1>3 DEF Kept

(* Nobody else computes under the Atom's lock while a thread may take it.     *)
LEMMA NobodyComputes ==
  ASSUME Locked, NEW t \in Thread, AtomFree(t) \/ Phase(t) = "computing", NEW u \in Thread, u # t
  PROVE  Phase(u) # "computing"
BY MemoAssumption DEF Locked, AtomFree

(* A step that stores a sound cache keeps what is kept.                      *)
LEMMA KeptWrites ==
  ASSUME Kept, Locked, NEW t \in Thread, UNCHANGED <<scenario, now>>, Elsewhere(t),
         AtomFree(t) \/ Phase(t) = "computing",
         Covered => Sound(cache', now) /\ cache'.policy = scenario.policy,
         job'[t].phase \notin {"store", "replace", "cas", "computing"}
  PROVE  Kept'
<1>1. SUFFICES ASSUME Covered PROVE
        /\ Sound(cache', now) /\ cache'.policy = scenario.policy
        /\ \A u \in Thread : Making(u)' =>
             Sound(job'[u].new, now) /\ job'[u].new.policy = scenario.policy
        /\ \A u \in Thread : job'[u].phase # "computing"
  BY DEF Kept, Covered, Phase, K
<1>2. ASSUME NEW u \in Thread, Making(u)'
      PROVE  Sound(job'[u].new, now) /\ job'[u].new.policy = scenario.policy
  <2>1. u # t BY <1>2 DEF Making, Phase
  <2>2. job'[u] = job[u] /\ Making(u) BY <2>1, <1>2 DEF Elsewhere, Making, Phase
  <2>3. QED BY <2>2, <1>1 DEF Kept
<1>3. ASSUME NEW u \in Thread PROVE job'[u].phase # "computing"
  <2>1. CASE u = t BY <2>1
  <2>2. CASE u # t
    <3>1. job'[u] = job[u] BY <2>2 DEF Elsewhere
    <3>2. QED BY <3>1, <2>2, NobodyComputes DEF Phase
  <2>3. QED BY <2>1, <2>2
<1>4. QED BY <1>1, <1>2, <1>3 DEF Kept

(* An operation that neither a memoized function nor a wrapped lookup does is  *)
(* not of a scenario with one interface.                                      *)
LEMMA OnceElsewhere ==
  ASSUME Types, NEW t \in Thread,
         Phase(t) \notin {"idle", "call", "store", "deref", "running", "computing"} \cup LockOps,
         scenario' = scenario
  PROVE  OnceInv'
<1>1. ~(scenario.ops \subseteq {"call"}) /\ ~(scenario.ops \subseteq LockOps) BY Active
<1>2. QED BY <1>1 DEF OnceInv

(* A step that makes no delay and stores nothing keeps what is computed once. *)
LEMMA OnceStays ==
  ASSUME OnceInv, Locked, NEW t \in Thread, Phase(t) # "store",
         UNCHANGED <<scenario, delays, cache, fnLock>>, Elsewhere(t),
         job'[t].phase # "computing"
  PROVE  OnceInv'
<1>1. Latest' = Latest
  <2>1. CASE fnLock = Nobody BY <2>1 DEF Latest
  <2>2. CASE fnLock # Nobody
    <3>1. fnLock \in Thread \ {t} BY <2>2 DEF Locked
    <3>2. job'[fnLock] = job[fnLock] BY <3>1 DEF Elsewhere
    <3>3. QED BY <2>2, <3>2 DEF Latest
  <2>3. QED BY <2>1, <2>2
<1>2. SUFFICES ASSUME scenario.policy = "basic"
      PROVE  /\ scenario.ops \subseteq {"call"} => \A d \in DOMAIN delays : Holds(Latest, d)'
             /\ scenario.ops \subseteq LockOps =>
                  /\ \A d \in DOMAIN delays : delays[d].done => Holds(cache.map, d)'
                  /\ \A u \in Thread : job'[u].phase = "computing" =>
                       /\ job'[u].delay \in DOMAIN delays
                       /\ delays[job'[u].delay].key = job'[u].key /\ ~delays[job'[u].delay].done
  BY DEF OnceInv, Phase, K
<1>3. \A d : Holds(Latest, d)' <=> Holds(Latest, d) BY <1>1 DEF Holds
<1>4. \A d : Holds(cache.map, d)' <=> Holds(cache.map, d) BY DEF Holds
<1>5. ASSUME NEW u \in Thread, job'[u].phase = "computing"
      PROVE  job'[u] = job[u] /\ Phase(u) = "computing"
  BY <1>5 DEF Elsewhere, Phase
<1>6. QED BY <1>2, <1>3, <1>4, <1>5 DEF OnceInv, K

(* A thread begins an operation.                                             *)
LEMMA BeginInv ==
  ASSUME MemoInv, NEW t \in Thread, NEW op \in Ops, NEW k \in Key, Begin(t, op, k)
  PROVE  MemoInv'
<1> DEFINE r == [phase |-> op, op |-> op, key |-> k, seen |-> NoEntries, new |-> Unset, delay |-> 0]
<1>1. /\ Types /\ Locked /\ Kept /\ OnceInv
      /\ Phase(t) = "idle" /\ op \in scenario.ops
      /\ UNCHANGED <<scenario, cache, now, fnLock, atomLock, delays>>
      /\ job' = [job EXCEPT ![t] = r]
  BY DEF MemoInv, Begin, Become
<1>2. op \in PhasesOf(op) /\ op \notin {"idle", "store", "replace", "cas", "computing"}
  BY DEF PhasesOf, Ops, MemoOps, SwapOps, LockOps
<1>3. r.phase = op /\ JobOk(r)
  BY <1>1, <1>2 DEF JobOk, IsJob
<1> HIDE DEF r
<1>4. Elsewhere(t) /\ job'[t] = r BY <1>1 DEF Elsewhere, Types
<1>5. Types' BY <1>1, <1>3, <1>4, TypesStay DEF Types
<1>6. Locked'
  <2>1. \A u \in Thread : u # t => job'[u] = job[u] BY <1>4 DEF Elsewhere
  <2>2. fnLock # t BY <1>1, MemoAssumption DEF Locked, Phase
  <2>3. QED BY <1>1, <1>2, <1>3, <1>4, <2>1, <2>2 DEF Locked, Phase
<1>7. Kept' BY <1>1, <1>2, <1>3, <1>4, KeptStays
<1>8. OnceInv' BY <1>1, <1>2, <1>3, <1>4, OnceStays
<1>9. QED BY <1>5, <1>6, <1>7, <1>8 DEF MemoInv

(* The clock.                                                                *)
LEMMA TickInv ==
  ASSUME MemoInv, Tick
  PROVE  MemoInv'
<1>1. /\ Types /\ Locked /\ Kept /\ OnceInv
      /\ now' = now + 1 /\ now \in Nat /\ now' \in Nat
      /\ UNCHANGED <<scenario, cache, fnLock, atomLock, delays, job>>
  BY DEF MemoInv, Tick, Types
<1>2. Types' BY <1>1 DEF Types, JobOk, IsJob
<1>3. Locked' BY <1>1 DEF Locked, Phase
<1>4. Kept'
  <2>1. \A c : Sound(c, now) => Sound(c, now') BY <1>1, SoundLater
  <2>2. QED BY <1>1, <2>1 DEF Kept, Covered, Making, Phase, K
<1>5. OnceInv' BY <1>1 DEF OnceInv, Holds, Latest, Phase, K
<1>6. QED BY <1>2, <1>3, <1>4, <1>5 DEF MemoInv

(* Nothing happens.                                                          *)
LEMMA StutterInv ==
  ASSUME MemoInv, UNCHANGED vars
  PROVE  MemoInv'
<1>1. UNCHANGED <<scenario, cache, now, fnLock, atomLock, delays, job>> BY DEF vars
<1>2. Types' BY <1>1 DEF MemoInv, Types, JobOk, IsJob
<1>3. Locked' BY <1>1 DEF MemoInv, Locked, Phase
<1>4. Kept' BY <1>1 DEF MemoInv, Kept, Covered, Making, Phase, K
<1>5. OnceInv' BY <1>1 DEF MemoInv, OnceInv, Holds, Latest, Phase, K
<1>6. QED BY <1>2, <1>3, <1>4, <1>5 DEF MemoInv

(* A delay is made.                                                          *)
LEMMA NewDelayEffect ==
  ASSUME Types, NEW k \in Key, NewDelay(k)
  PROVE  /\ delays' \in Seq(Delay) /\ Fresh \in Nat
         /\ DOMAIN delays = 1..Len(delays) /\ Fresh \notin DOMAIN delays
         /\ DOMAIN delays' = DOMAIN delays \cup {Fresh}
         /\ \A d \in DOMAIN delays : delays'[d] = delays[d]
         /\ delays'[Fresh].key = k /\ ~delays'[Fresh].done
<1> DEFINE e == [key |-> k, done |-> FALSE, by |-> Nobody]
           n == Len(delays)
<1>1. delays \in Seq(Delay) /\ n \in Nat /\ DOMAIN delays = 1..n
  <2>1. delays \in Seq(Delay) BY DEF Types
  <2>2. QED BY <2>1, LenProperties
<1>2. e \in Delay /\ e.key = k /\ ~e.done BY DEF Delay
<1>3. delays' = Append(delays, e) /\ Fresh = n + 1 BY DEF NewDelay, Fresh
<1> HIDE DEF e
<1>4. /\ delays' \in Seq(Delay) /\ Len(delays') = n + 1
      /\ \A i \in 1..n : delays'[i] = delays[i]
      /\ delays'[n + 1] = e
  BY <1>1, <1>2, <1>3, AppendProperties
<1>5. DOMAIN delays' = 1..(n + 1) BY <1>4, LenProperties
<1>6. QED BY <1>1, <1>2, <1>3, <1>4, <1>5

(* A memoized function looks its key up: the cache it makes is sound, and      *)
(* holds the new delay beside the others.                                    *)
LEMMA LookInv ==
  ASSUME MemoInv, NEW t \in Thread, Look(t)
  PROVE  MemoInv'
<1> DEFINE hit  == Has(cache, K(t), now)
           next == IF hit THEN Hits(cache, K(t)) ELSE Misses(cache, K(t), Fresh, now)
<1>1. /\ Types /\ Locked /\ Kept /\ OnceInv
      /\ Phase(t) = "call" /\ fnLock = Nobody
      /\ IF hit THEN delays' = delays ELSE NewDelay(K(t))
      /\ UNCHANGED <<scenario, cache, now, atomLock>>
  BY DEF MemoInv, Look, FnFree
<1>2. /\ JobOk(job[t]) /\ K(t) \in Key /\ now \in Nat
      /\ ~(scenario.ops \subseteq LockOps)
  <2>1. JobOk(job[t]) /\ ~(scenario.ops \subseteq LockOps) BY <1>1, Active DEF LockOps
  <2>2. QED BY <2>1, <1>1 DEF JobOk, K, Types
<1>3. delays' \in Seq(Delay) BY <1>1, <1>2, NewDelayEffect DEF Types
<1>4. \A u \in Thread : Phase(u) # "store" BY <1>1, MemoAssumption DEF Locked
<1>5. CASE \E c \in next : Become(t, [job[t] EXCEPT !.phase = "store", !.new = c]) /\ fnLock' = t
  <2>1. PICK c \in next : Become(t, [job[t] EXCEPT !.phase = "store", !.new = c]) BY <1>5
  <2> DEFINE r == Makes(job[t], "store", c)
  <2>2. JobOk(r) /\ r.phase = "store" /\ r.new = c /\ r.key = K(t)
    <3>1. job[t].op = "call" BY <1>1, <1>2 DEF JobOk, Phase, PhasesOf, SwapOps
    <3>2. Same(r, job[t]) /\ r.phase = "store" /\ r.new = c /\ r.delay = job[t].delay
      BY <1>2, JobMakes DEF JobOk
    <3> HIDE DEF r
    <3>3. QED BY <3>1, <3>2, <1>2 DEF Same, JobOk, PhasesOf, K
  <2> HIDE DEF r
  <2>3. Elsewhere(t) /\ job'[t] = r BY <2>1, <1>1 DEF Elsewhere, Types, Become, Makes, r
  <2>4. Types' BY <1>1, <1>3, <2>2, <2>3, TypesStay
  <2>5. Locked'
    <3>1. \A u \in Thread : u # t => job'[u] = job[u] BY <2>3 DEF Elsewhere
    <3>2. QED BY <3>1, <1>1, <1>4, <1>5, <2>2, <2>3 DEF Locked, Phase
  <2>6. Covered => Sound(c, now) /\ c.policy = scenario.policy
    <3>1. SUFFICES ASSUME Covered PROVE Sound(c, now) /\ c.policy = scenario.policy OBVIOUS
    <3>2. Sound(cache, now) /\ cache.policy = scenario.policy BY <3>1, <1>1 DEF Kept
    <3>3. CASE hit
      <4>1. c \in Hits(cache, K(t)) BY <3>3
      <4>2. QED BY <4>1, <3>2, <1>2, HitsSound
    <3>4. CASE ~hit
      <4>1. c \in Misses(cache, K(t), Fresh, now) BY <3>4
      <4>2. cache.policy = "fifo" => K(t) \notin Keys(cache.map) BY <3>4 DEF Has
      <4>3. Fresh \in Nat BY <3>4, <1>1, <1>2, NewDelayEffect
      <4>4. QED BY <4>1, <4>2, <4>3, <3>2, <1>2, MissesSound
    <3>5. QED BY <3>3, <3>4
  <2>7. Kept' BY <1>1, <2>2, <2>3, <2>6, KeptStays
  <2>8. OnceInv'
    <3>1. SUFFICES ASSUME scenario.policy = "basic", scenario.ops \subseteq {"call"}
                   PROVE  \A d \in DOMAIN delays' : Holds(Latest, d)'
      BY <1>1, <1>2 DEF OnceInv
    <3>2. Covered /\ cache.policy = "basic" BY <3>1, <1>1 DEF Covered, Kept
    <3>3. \A d \in DOMAIN delays : Holds(cache.map, d) BY <3>1, <1>1 DEF OnceInv, Latest
    <3>4. Latest' = c.map
      <4>1. fnLock' = t /\ t # Nobody BY <1>5, MemoAssumption
      <4>2. QED BY <4>1, <2>2, <2>3 DEF Latest
    <3>5. CASE hit
      <4>1. c = cache BY <3>2, <3>5 DEF Hits
      <4>2. QED BY <4>1, <3>3, <3>4, <3>5, <1>1 DEF Holds
    <3>6. CASE ~hit
      <4>1. c.map = Put(cache.map, K(t), Fresh)
        <5>1. c = [cache EXCEPT !.map = Put(cache.map, K(t), Fresh)] BY <3>2, <3>6 DEF Misses
        <5>2. BasicSound(cache) BY <3>2, <1>1, SoundIs DEF Kept
        <5>3. QED BY <5>1, <5>2 DEF BasicSound
      <4>2. K(t) \notin Keys(cache.map) BY <3>2, <3>6 DEF Has
      <4>3. cache.map \in Table(Nat) BY <3>2, <1>1, SoundIs DEF Kept
      <4>4. /\ Fresh \in Nat /\ Fresh \notin DOMAIN delays
            /\ DOMAIN delays' = DOMAIN delays \cup {Fresh}
            /\ \A d \in DOMAIN delays : delays'[d] = delays[d]
            /\ delays'[Fresh].key = K(t)
        BY <3>6, <1>1, <1>2, NewDelayEffect
      <4>5. /\ Keys(c.map) = Keys(cache.map) \cup {K(t)}
            /\ \A x \in Keys(cache.map) \cup {K(t)} :
                 c.map[x] = IF x = K(t) THEN Fresh ELSE cache.map[x]
        BY <4>1, <4>3, <4>4, <1>2, TablePut
      <4>6. ASSUME NEW d \in DOMAIN delays' PROVE Holds(Latest, d)'
        <5>1. CASE d = Fresh BY <5>1, <4>4, <4>5, <3>4 DEF Holds
        <5>2. CASE d # Fresh
          <6>1. d \in DOMAIN delays /\ delays'[d] = delays[d] BY <5>2, <4>4
          <6>2. delays[d].key \in Keys(cache.map) /\ cache.map[delays[d].key] = d
            BY <6>1, <3>3 DEF Holds
          <6>3. QED BY <6>1, <6>2, <4>2, <4>5, <3>4 DEF Holds
        <5>3. QED BY <5>1, <5>2
      <4>7. QED BY <4>6
    <3>7. QED BY <3>5, <3>6
  <2>9. QED BY <2>4, <2>5, <2>7, <2>8 DEF MemoInv
<1>6. CASE next = {} /\ Finish(t) /\ fnLock' = fnLock
  <2>1. Elsewhere(t) /\ job'[t] = Idle /\ Idle.phase = "idle"
    BY <1>6, <1>1 DEF Elsewhere, Types, Finish, Become, Idle
  <2>2. Types' BY <1>1, <1>3, <2>1, TypesStay
  <2>3. Locked'
    <3>1. \A u \in Thread : u # t => job'[u] = job[u] BY <2>1 DEF Elsewhere
    <3>2. QED BY <3>1, <1>1, <1>4, <1>6, <2>1 DEF Locked, Phase
  <2>4. Kept' BY <1>1, <2>1, KeptStays
  <2>5. OnceInv'
    <3>1. SUFFICES ASSUME scenario.policy = "basic" PROVE delays' = delays
      BY <1>1, <1>6, <2>1, OnceStays DEF OnceInv
    <3>2. Covered /\ cache.policy = "basic" BY <3>1, <1>1 DEF Covered, Kept
    <3>3. hit
      <4>1. SUFFICES ASSUME ~hit PROVE FALSE OBVIOUS
      <4>2. next = {[cache EXCEPT !.map = Put(cache.map, K(t), Fresh)]} BY <4>1, <3>2 DEF Misses
      <4>3. QED BY <4>2, <1>6
    <3>4. QED BY <3>3, <1>1
  <2>6. QED BY <2>2, <2>3, <2>4, <2>5 DEF MemoInv
<1>7. QED BY <1>5, <1>6 DEF Look

(* What a step makes of its thread.                                          *)
LEMMA Becomes ==
  ASSUME Types, NEW t \in Thread, NEW r, Become(t, r)
  PROVE  Elsewhere(t) /\ job'[t] = r
BY DEF Become, Elsewhere, Types

(* A step that ends its thread's operation.                                  *)
LEMMA Finishes ==
  ASSUME Types, NEW t \in Thread, Finish(t)
  PROVE  Elsewhere(t) /\ job'[t] = Idle /\ Idle.phase = "idle"
BY DEF Finish, Become, Elsewhere, Types, Idle

(* A step outside the locks keeps them with who holds them.                  *)
LEMMA LockedStays ==
  ASSUME Locked, NEW t \in Thread, UNCHANGED <<fnLock, atomLock>>, Elsewhere(t),
         Phase(t) # "store", job'[t].phase \notin {"store", "computing"}
  PROVE  Locked'
<1>1. \A u \in Thread : u # t => job'[u] = job[u] BY DEF Elsewhere
<1>2. fnLock # t BY MemoAssumption DEF Locked
<1>3. QED BY <1>1, <1>2 DEF Locked, Phase

(* A write to a delay keeps its key.                                         *)
LEMMA DelayWritten ==
  ASSUME Types, NEW i, NEW w \in Thread \cup {Nobody}, NEW ok \in BOOLEAN,
         \/ delays' = [delays EXCEPT ![i].by = w]
         \/ delays' = [delays EXCEPT ![i].done = ok]
         \/ delays' = [delays EXCEPT ![i].by = w, ![i].done = ok]
  PROVE  /\ delays' \in Seq(Delay) /\ DOMAIN delays' = DOMAIN delays
         /\ \A d \in DOMAIN delays : delays'[d].key = delays[d].key
<1> DEFINE n == Len(delays)
<1>1. n \in Nat /\ delays \in [1..n -> Delay] BY LenProperties DEF Types
<1> HIDE DEF n
<1>2. /\ DOMAIN delays' = DOMAIN delays /\ delays' = [d \in DOMAIN delays |-> delays'[d]]
      /\ \A d \in DOMAIN delays :
           \/ delays'[d] = delays[d]
           \/ delays'[d] = [delays[d] EXCEPT !.by = w]
           \/ delays'[d] = [delays[d] EXCEPT !.done = ok]
           \/ delays'[d] = [delays[d] EXCEPT !.by = w, !.done = ok]
  BY <1>1
<1>3. ASSUME NEW d \in DOMAIN delays
      PROVE  delays'[d] \in Delay /\ delays'[d].key = delays[d].key
  <2>1. delays[d] \in Delay BY <1>1
  <2>2. CASE delays'[d] = delays[d] BY <2>1, <2>2
  <2>3. CASE delays'[d] = [delays[d] EXCEPT !.by = w] BY <2>1, <2>3 DEF Delay
  <2>4. CASE delays'[d] = [delays[d] EXCEPT !.done = ok] BY <2>1, <2>4 DEF Delay
  <2>5. CASE delays'[d] = [delays[d] EXCEPT !.by = w, !.done = ok] BY <2>1, <2>5 DEF Delay
  <2>6. QED BY <2>2, <2>3, <2>4, <2>5, <1>2
<1>4. delays' \in Seq(Delay)
  <2>1. delays' \in [1..n -> Delay] BY <1>1, <1>2, <1>3
  <2>2. QED BY <2>1, <1>1, SeqDef
<1>5. QED BY <1>2, <1>3, <1>4

(* A step of a memoized function that makes no delay keeps what is computed    *)
(* once, whatever becomes of the delays that it found.                       *)
LEMMA OnceCalled ==
  ASSUME OnceInv, Types, NEW t \in Thread, Phase(t) \in {"store", "deref", "running"},
         scenario' = scenario, Latest' = Latest, DOMAIN delays' = DOMAIN delays,
         \A d \in DOMAIN delays : delays'[d].key = delays[d].key
  PROVE  OnceInv'
<1>1. ~(scenario.ops \subseteq LockOps) BY Active DEF LockOps
<1>2. \A d \in DOMAIN delays : Holds(Latest, d)' <=> Holds(Latest, d) BY DEF Holds
<1>3. QED BY <1>1, <1>2 DEF OnceInv

(* The memoized function stores the cache it made and looks the key up in it.  *)
LEMMA StoredInv ==
  ASSUME MemoInv, NEW t \in Thread, Stored(t)
  PROVE  MemoInv'
<1> DEFINE c == job[t].new
<1>1. /\ Types /\ Locked /\ Kept /\ OnceInv
      /\ Phase(t) = "store" /\ AtomFree(t)
      /\ cache' = c /\ fnLock' = Nobody
      /\ UNCHANGED <<scenario, now, atomLock, delays>>
  BY DEF MemoInv, Stored, Store
<1>2. /\ JobOk(job[t]) /\ IsJob(job[t]) /\ job[t].op = "call"
  <2>1. JobOk(job[t]) /\ job[t].op \in Ops BY <1>1, Active
  <2>2. QED BY <2>1, <1>1 DEF JobOk, Phase, PhasesOf, Ops, MemoOps, SwapOps, LockOps
<1>3. fnLock = t /\ t # Nobody BY <1>1, MemoAssumption DEF Locked
<1>4. /\ Elsewhere(t)
      /\ job'[t] = Idle \/ JobOk(job'[t])
      /\ job'[t].phase \in {"idle", "deref", "call"}
  <2>1. CASE Finish(t) BY <2>1, <1>1, Finishes
  <2>2. CASE \E d \in Cached(c, K(t)) : Become(t, Finds(job[t], "deref", d, Unset))
    <3>1. PICK d \in Cached(c, K(t)) : Become(t, Finds(job[t], "deref", d, Unset)) BY <2>2
    <3> DEFINE r == Finds(job[t], "deref", d, Unset)
    <3>2. Same(r, job[t]) /\ r.phase = "deref" BY <1>2, JobFinds
    <3>3. Elsewhere(t) /\ job'[t] = r BY <3>1, <1>1, Becomes
    <3> HIDE DEF r
    <3>4. QED BY <3>2, <3>3, <1>2 DEF JobOk, Same, PhasesOf
  <2>3. CASE Become(t, Goes(job[t], "call"))
    <3> DEFINE r == Goes(job[t], "call")
    <3>1. Same(r, job[t]) /\ r.phase = "call" BY <1>2, JobGoes
    <3>2. Elsewhere(t) /\ job'[t] = r BY <2>3, <1>1, Becomes
    <3> HIDE DEF r
    <3>3. QED BY <3>1, <3>2, <1>2 DEF JobOk, Same, PhasesOf
  <2>4. QED BY <2>1, <2>2, <2>3 DEF Stored, Goto, Goes, Finds
<1>5. Types' BY <1>1, <1>4, TypesStay DEF Types
<1>6. Locked'
  <2>1. \A u \in Thread : u # t => job'[u] = job[u] BY <1>4 DEF Elsewhere
  <2>2. \A u \in Thread : u # t => Phase(u) # "store" BY <1>1, <1>3 DEF Locked
  <2>3. QED BY <2>1, <2>2, <1>1, <1>4 DEF Locked, Phase
<1>7. Kept'
  <2>1. Covered => Sound(cache', now) /\ cache'.policy = scenario.policy
    BY <1>1 DEF Kept, Making
  <2>2. QED BY <2>1, <1>1, <1>4, KeptWrites
<1>8. OnceInv'
  <2>1. Latest' = Latest BY <1>1, <1>3 DEF Latest
  <2>2. QED BY <2>1, <1>1, OnceCalled
<1>9. QED BY <1>5, <1>6, <1>7, <1>8 DEF MemoInv

(* A step on a delay that is found, outside the locks.                       *)
LEMMA DelayStep ==
  ASSUME MemoInv, NEW t \in Thread, Phase(t) \in {"deref", "running"},
         UNCHANGED <<scenario, cache, now, fnLock, atomLock>>, Elsewhere(t),
         job'[t] = Idle \/ JobOk(job'[t]), job'[t].phase \in {"idle", "running"},
         delays' \in Seq(Delay), DOMAIN delays' = DOMAIN delays,
         \A d \in DOMAIN delays : delays'[d].key = delays[d].key
  PROVE  MemoInv'
<1>1. Types /\ Locked /\ Kept /\ OnceInv BY DEF MemoInv
<1>2. Types' BY <1>1, TypesStay
<1>3. Locked' BY <1>1, LockedStays
<1>4. Kept' BY <1>1, KeptStays
<1>5. Latest' = Latest
  <2>1. fnLock # t BY <1>1, MemoAssumption DEF Locked
  <2>2. fnLock # Nobody => job'[fnLock] = job[fnLock] BY <2>1, <1>1 DEF Locked, Elsewhere
  <2>3. QED BY <2>2 DEF Latest
<1>6. OnceInv' BY <1>1, <1>5, OnceCalled
<1>7. QED BY <1>2, <1>3, <1>4, <1>6 DEF MemoInv

(* A thread waits for a delay, or takes it on itself to run the function.      *)
LEMMA DerefInv ==
  ASSUME MemoInv, NEW t \in Thread, Deref(t)
  PROVE  MemoInv'
<1>1. /\ Types /\ Phase(t) = "deref"
      /\ UNCHANGED <<scenario, cache, now, fnLock, atomLock>>
  BY DEF MemoInv, Deref, Keep
<1>2. JobOk(job[t]) /\ IsJob(job[t]) /\ job[t].op = "call"
  <2>1. JobOk(job[t]) /\ job[t].op \in Ops BY <1>1, Active
  <2>2. QED BY <2>1, <1>1 DEF JobOk, Phase, PhasesOf, Ops, MemoOps, SwapOps, LockOps
<1>3. CASE Finish(t) /\ delays' = delays
  <2>1. Elsewhere(t) /\ job'[t] = Idle /\ Idle.phase = "idle" BY <1>1, <1>3, Finishes
  <2>2. QED BY <2>1, <1>1, <1>3, DelayStep DEF Types
<1>4. CASE delays' = [delays EXCEPT ![job[t].delay].by = t] /\ Goto(t, "running")
  <2> DEFINE r == Goes(job[t], "running")
  <2>1. Same(r, job[t]) /\ r.phase = "running" BY <1>2, JobGoes
  <2>2. Elsewhere(t) /\ job'[t] = r BY <1>1, <1>4, Becomes DEF Goto, Goes
  <2> HIDE DEF r
  <2>3. JobOk(r) BY <2>1, <1>2 DEF JobOk, Same, PhasesOf
  <2>4. /\ delays' \in Seq(Delay) /\ DOMAIN delays' = DOMAIN delays
        /\ \A d \in DOMAIN delays : delays'[d].key = delays[d].key
    BY <1>1, <1>4, DelayWritten
  <2>5. QED BY <2>1, <2>2, <2>3, <2>4, <1>1, DelayStep
<1>5. QED BY <1>3, <1>4 DEF Deref

(* The function returns or raises.                                           *)
LEMMA RanInv ==
  ASSUME MemoInv, NEW t \in Thread, Ran(t)
  PROVE  MemoInv'
<1>1. /\ Types /\ Phase(t) = "running" /\ Finish(t)
      /\ UNCHANGED <<scenario, cache, now, fnLock, atomLock>>
  BY DEF MemoInv, Ran, Keep
<1>2. Elsewhere(t) /\ job'[t] = Idle /\ Idle.phase = "idle" BY <1>1, Finishes
<1>3. PICK ok \in BOOLEAN :
        delays' = [delays EXCEPT ![job[t].delay].by = Nobody, ![job[t].delay].done = ok]
  BY DEF Ran
<1>4. /\ delays' \in Seq(Delay) /\ DOMAIN delays' = DOMAIN delays
      /\ \A d \in DOMAIN delays : delays'[d].key = delays[d].key
  BY <1>1, <1>3, DelayWritten
<1>5. QED BY <1>1, <1>2, <1>4, DelayStep

(* What is neither a call of a memoized function nor a wrapped lookup.         *)
OtherPhases == {"clear", "evict", "reset", "replace", "swap", "cas"} \cup SwapOps

(* A step of another operation that stores nothing: it makes a sound cache.    *)
LEMMA OtherReads ==
  ASSUME MemoInv, NEW t \in Thread, Phase(t) \in OtherPhases,
         UNCHANGED <<scenario, cache, now, fnLock, atomLock, delays>>, Elsewhere(t),
         job'[t] = Idle \/ JobOk(job'[t]), job'[t].phase \notin {"store", "computing"},
         Covered /\ job'[t].phase \in {"replace", "cas"} =>
           Sound(job'[t].new, now) /\ job'[t].new.policy = scenario.policy
  PROVE  MemoInv'
<1>1. Types /\ Locked /\ Kept BY DEF MemoInv
<1>2. Phase(t) \notin {"idle", "call", "store", "deref", "running", "computing"} \cup LockOps
  BY DEF OtherPhases, SwapOps, LockOps
<1>3. Types' BY <1>1, TypesStay DEF Types
<1>4. Locked' BY <1>1, <1>2, LockedStays
<1>5. Kept' BY <1>1, KeptStays
<1>6. OnceInv' BY <1>1, <1>2, OnceElsewhere
<1>7. QED BY <1>3, <1>4, <1>5, <1>6 DEF MemoInv

(* A step of another operation that stores a sound cache.                    *)
LEMMA OtherWrites ==
  ASSUME MemoInv, NEW t \in Thread, Phase(t) \in OtherPhases, AtomFree(t), Finish(t),
         UNCHANGED <<scenario, now, fnLock, atomLock, delays>>,
         Covered => Sound(cache', now) /\ cache'.policy = scenario.policy
  PROVE  MemoInv'
<1>1. Types /\ Locked /\ Kept BY DEF MemoInv
<1>2. Phase(t) \notin {"idle", "call", "store", "deref", "running", "computing"} \cup LockOps
  BY DEF OtherPhases, SwapOps, LockOps
<1>3. Elsewhere(t) /\ job'[t] = Idle /\ Idle.phase = "idle" BY <1>1, Finishes
<1>4. Types' BY <1>1, <1>3, TypesStay DEF Types
<1>5. Locked' BY <1>1, <1>2, <1>3, LockedStays
<1>6. Kept' BY <1>1, <1>3, KeptWrites
<1>7. OnceInv' BY <1>1, <1>2, OnceElsewhere
<1>8. QED BY <1>4, <1>5, <1>6, <1>7 DEF MemoInv

(* The maps that an operation seeds with.                                    *)
LEMMA SeedMaps == NoEntries \in Base /\ \A k \in Key : Only(k) \in Base
<1>1. NoEntries \in Table(Nat) /\ Keys(NoEntries) = {} BY TableIs DEF NoEntries, Keys
<1>2. ASSUME NEW k \in Key PROVE Only(k) \in Table(Nat) /\ Keys(Only(k)) = {k}
  BY TableIs DEF Only, Keys
<1>3. QED BY <1>1, <1>2 DEF Base

(* memo-clear! and memo-reset! read the cache.                               *)
LEMMA PrepareInv ==
  ASSUME MemoInv, NEW t \in Thread, Prepare(t)
  PROVE  MemoInv'
<1> DEFINE made == CASE Phase(t) = "clear" -> Seeds(cache, NoEntries, now)
                     [] Phase(t) = "reset" -> Seeds(cache, Only(K(t)), now)
                     [] Phase(t) = "evict" -> {Evicts(cache, K(t))}
<1>1. /\ Types /\ Kept /\ Phase(t) \in {"clear", "evict", "reset"}
      /\ UNCHANGED <<scenario, cache, now, fnLock, atomLock, delays>>
      /\ now \in Nat
  BY DEF MemoInv, Prepare, Keep, Types
<1>2. PICK c \in made : Become(t, Makes(job[t], "replace", c)) BY DEF Prepare, Makes
<1> DEFINE r == Makes(job[t], "replace", c)
<1>3. JobOk(job[t]) /\ job[t].op \in {"clear", "evict", "reset"} /\ K(t) \in Key
  <2>1. JobOk(job[t]) /\ job[t].op \in Ops BY <1>1, Active
  <2>2. QED BY <2>1, <1>1 DEF JobOk, Phase, PhasesOf, Ops, MemoOps, SwapOps, LockOps, K
<1>4. Same(r, job[t]) /\ r.phase = "replace" /\ r.new = c BY <1>3, JobMakes DEF JobOk
<1>5. Elsewhere(t) /\ job'[t] = r BY <1>1, <1>2, Becomes
<1> HIDE DEF r
<1>6. JobOk(r) BY <1>3, <1>4 DEF JobOk, Same, PhasesOf
<1>7. Covered => Sound(c, now) /\ c.policy = scenario.policy
  <2>1. SUFFICES ASSUME Covered PROVE Sound(c, now) /\ c.policy = scenario.policy OBVIOUS
  <2>2. Sound(cache, now) /\ Seedable(cache, now) /\ cache.policy = scenario.policy
    BY <2>1, <1>1, SoundIs DEF Kept
  <2>3. CASE Phase(t) = "clear"
    <3>1. c \in Seeds(cache, NoEntries, now) BY <2>3, <1>2
    <3>2. QED BY <3>1, <2>2, <1>1, SeedMaps, SeedsSound
  <2>4. CASE Phase(t) = "reset"
    <3>1. c \in Seeds(cache, Only(K(t)), now) BY <2>4, <1>2
    <3>2. QED BY <3>1, <2>2, <1>1, <1>3, SeedMaps, SeedsSound
  <2>5. CASE Phase(t) = "evict"
    <3>1. c \in {Evicts(cache, K(t))} BY <2>5, <1>2
    <3>2. QED BY <3>1, <2>2, <1>1, <1>3, EvictsSound
  <2>6. QED BY <2>3, <2>4, <2>5, <1>1
<1>8. QED BY <1>1, <1>4, <1>5, <1>6, <1>7, OtherReads DEF OtherPhases

(* They reset the Atom to the cache they made.                               *)
LEMMA ReplaceInv ==
  ASSUME MemoInv, NEW t \in Thread, Replace(t)
  PROVE  MemoInv'
<1>1. /\ Kept /\ Phase(t) = "replace" /\ AtomFree(t) /\ Finish(t) /\ cache' = job[t].new
      /\ UNCHANGED <<scenario, now, fnLock, atomLock, delays>>
  BY DEF MemoInv, Replace, Store, Reseed
<1>2. Covered => Sound(cache', now) /\ cache'.policy = scenario.policy BY <1>1 DEF Kept, Making
<1>3. QED BY <1>1, <1>2, OtherWrites DEF OtherPhases

(* memo-swap! puts a value.                                                  *)
LEMMA MemoSwapInv ==
  ASSUME MemoInv, NEW t \in Thread, MemoSwap(t)
  PROVE  MemoInv'
<1>1. /\ Types /\ Kept /\ now \in Nat /\ Phase(t) = "swap" /\ AtomFree(t) /\ Finish(t)
      /\ cache' \in Misses(cache, K(t), 0, now)
      /\ UNCHANGED <<scenario, now, fnLock, atomLock, delays>>
  BY DEF MemoInv, MemoSwap, Store, Types
<1>2. job[t].op = "swap" /\ "swap" \in scenario.ops /\ K(t) \in Key
  <2>1. JobOk(job[t]) /\ job[t].op \in Ops BY <1>1, Active
  <2>2. QED BY <2>1, <1>1 DEF JobOk, Phase, PhasesOf, Ops, MemoOps, SwapOps, LockOps, K
<1>3. Covered => Sound(cache', now) /\ cache'.policy = scenario.policy
  <2>1. SUFFICES ASSUME Covered PROVE Sound(cache', now) /\ cache'.policy = scenario.policy
    OBVIOUS
  <2>2. Sound(cache, now) /\ cache.policy = scenario.policy BY <2>1, <1>1 DEF Kept
  <2>3. cache.policy # "fifo" BY <2>1, <2>2, <1>2 DEF Covered
  <2>4. QED BY <2>2, <2>3, <1>1, <1>2, MissesSound
<1>4. QED BY <1>1, <1>3, OtherWrites DEF OtherPhases

(* The swap of a wrapped cache reads and applies the operation.               *)
LEMMA SwapReadInv ==
  ASSUME MemoInv, NEW t \in Thread, SwapRead(t)
  PROVE  MemoInv'
<1> DEFINE next == CASE Phase(t) = "hit!"   -> Hits(cache, K(t))
                     [] Phase(t) = "miss!"  -> Misses(cache, K(t), 0, now)
                     [] Phase(t) = "evict!" -> {Evicts(cache, K(t))}
                     [] Phase(t) = "seed!"  -> Seeds(cache, Only(K(t)), now)
<1>1. /\ Types /\ Kept /\ Phase(t) \in SwapOps /\ now \in Nat
      /\ UNCHANGED <<scenario, cache, now, fnLock, atomLock, delays>>
  BY DEF MemoInv, SwapRead, Keep, Types
<1>2. CASE Finish(t)
  <2>1. Elsewhere(t) /\ job'[t] = Idle /\ Idle.phase = "idle" BY <1>1, <1>2, Finishes
  <2>2. QED BY <2>1, <1>1, OtherReads DEF OtherPhases
<1>3. CASE \E c \in next : Become(t, Reads(job[t], "cas", cache.map, c))
  <2>1. PICK c \in next : Become(t, Reads(job[t], "cas", cache.map, c)) BY <1>3
  <2> DEFINE r == Reads(job[t], "cas", cache.map, c)
  <2>2. JobOk(job[t]) /\ job[t].op = Phase(t) /\ job[t].op \in scenario.ops /\ K(t) \in Key
    <3>1. JobOk(job[t]) /\ job[t].op \in Ops BY <1>1, Active DEF SwapOps
    <3>2. QED BY <3>1, <1>1 DEF JobOk, Phase, PhasesOf, Ops, MemoOps, SwapOps, LockOps, K
  <2>3. Same(r, job[t]) /\ r.phase = "cas" /\ r.new = c BY <2>2, JobReads DEF JobOk
  <2>4. Elsewhere(t) /\ job'[t] = r BY <1>1, <2>1, Becomes
  <2> HIDE DEF r
  <2>5. JobOk(r) BY <1>1, <2>2, <2>3 DEF JobOk, Same, PhasesOf, SwapOps
  <2>6. Covered => Sound(c, now) /\ c.policy = scenario.policy
    <3>1. SUFFICES ASSUME Covered PROVE Sound(c, now) /\ c.policy = scenario.policy OBVIOUS
    <3>2. Sound(cache, now) /\ Seedable(cache, now) /\ cache.policy = scenario.policy
      BY <3>1, <1>1, SoundIs DEF Kept
    <3>3. CASE Phase(t) = "hit!"
      <4>1. c \in Hits(cache, K(t)) BY <3>3, <2>1
      <4>2. QED BY <4>1, <3>2, <1>1, <2>2, HitsSound
    <3>4. CASE Phase(t) = "miss!"
      <4>1. c \in Misses(cache, K(t), 0, now) BY <3>4, <2>1
      <4>2. cache.policy # "fifo" BY <3>1, <3>2, <3>4, <2>2 DEF Covered
      <4>3. QED BY <4>1, <4>2, <3>2, <1>1, <2>2, MissesSound
    <3>5. CASE Phase(t) = "evict!"
      <4>1. c \in {Evicts(cache, K(t))} BY <3>5, <2>1
      <4>2. QED BY <4>1, <3>2, <1>1, <2>2, EvictsSound
    <3>6. CASE Phase(t) = "seed!"
      <4>1. c \in Seeds(cache, Only(K(t)), now) BY <3>6, <2>1
      <4>2. QED BY <4>1, <3>2, <1>1, <2>2, SeedMaps, SeedsSound
    <3>7. QED BY <3>3, <3>4, <3>5, <3>6, <1>1 DEF SwapOps
  <2>7. QED BY <1>1, <2>3, <2>4, <2>5, <2>6, OtherReads DEF OtherPhases
<1>4. QED BY <1>2, <1>3 DEF SwapRead, Reads

(* It stores the cache it made, or starts again.                             *)
LEMMA CompareAndSetInv ==
  ASSUME MemoInv, NEW t \in Thread, CompareAndSet(t)
  PROVE  MemoInv'
<1>1. /\ Types /\ Kept /\ Phase(t) = "cas" /\ AtomFree(t)
      /\ UNCHANGED <<scenario, now, fnLock, atomLock, delays>>
  BY DEF MemoInv, CompareAndSet
<1>2. JobOk(job[t]) /\ job[t].op \in SwapOps
  <2>1. JobOk(job[t]) /\ job[t].op \in Ops BY <1>1, Active
  <2>2. QED BY <2>1, <1>1 DEF JobOk, Phase, PhasesOf, Ops, MemoOps, SwapOps, LockOps
<1>3. CASE cache.map # job[t].seen
  <2> DEFINE r == Goes(job[t], job[t].op)
  <2>1. UNCHANGED cache /\ Become(t, r) BY <1>3 DEF CompareAndSet, Keep, Goto, Goes
  <2>2. Same(r, job[t]) /\ r.phase = job[t].op BY <1>2, JobGoes DEF JobOk
  <2>3. Elsewhere(t) /\ job'[t] = r BY <1>1, <2>1, Becomes
  <2> HIDE DEF r
  <2>4. JobOk(r) BY <1>2, <2>2 DEF JobOk, Same, PhasesOf, SwapOps
  <2>5. r.phase \notin {"store", "replace", "cas", "computing"} BY <1>2, <2>2 DEF SwapOps
  <2>6. QED BY <1>1, <2>1, <2>3, <2>4, <2>5, OtherReads DEF OtherPhases
<1>4. CASE cache.map = job[t].seen
  <2>1. cache' = job[t].new /\ Finish(t) BY <1>4, <1>2 DEF CompareAndSet, Store, Reseed, SwapOps
  <2>2. Covered => Sound(cache', now) /\ cache'.policy = scenario.policy
    BY <1>1, <2>1 DEF Kept, Making
  <2>3. QED BY <1>1, <2>1, <2>2, OtherWrites DEF OtherPhases
<1>5. QED BY <1>3, <1>4

(* A wrapped lookup uses what is cached, or goes on to compute under the lock. *)
LEMMA WrappedInv ==
  ASSUME MemoInv, NEW t \in Thread, Wrapped(t)
  PROVE  MemoInv'
<1> DEFINE hit == Has(cache, K(t), now)
<1>1. /\ Types /\ Locked /\ Kept /\ OnceInv
      /\ Phase(t) \in LockOps /\ atomLock = Nobody /\ now \in Nat
      /\ UNCHANGED <<scenario, now, fnLock>>
  BY DEF MemoInv, Wrapped, Types
<1>2. /\ JobOk(job[t]) /\ job[t].op = Phase(t) /\ K(t) \in Key
      /\ Phase(t) \notin {"idle", "call", "store", "deref", "running", "computing"}
      /\ ~(scenario.ops \subseteq {"call"})
  <2>1. Phase(t) \notin {"idle", "call", "store", "deref", "running", "computing"}
    BY <1>1 DEF LockOps
  <2>2. JobOk(job[t]) /\ job[t].op \in Ops /\ ~(scenario.ops \subseteq {"call"})
    BY <2>1, <1>1, Active
  <2>3. QED BY <2>1, <2>2, <1>1 DEF JobOk, Phase, PhasesOf, Ops, MemoOps, SwapOps, LockOps, K
<1>3. AtomFree(t) BY <1>1 DEF AtomFree
<1>4. \A u \in Thread : Phase(u) # "computing" BY <1>1, MemoAssumption DEF Locked
<1>5. CASE hit
  <2>1. /\ Finish(t) /\ UNCHANGED <<atomLock, delays>>
        /\ cache' = cache \/ cache' \in Hits(cache, K(t))
    BY <1>5 DEF Wrapped, Store, Keep
  <2>2. Elsewhere(t) /\ job'[t] = Idle /\ Idle.phase = "idle" BY <2>1, <1>1, Finishes
  <2>3. Types' BY <2>1, <2>2, <1>1, TypesStay DEF Types
  <2>4. Locked' BY <2>1, <2>2, <1>1, <1>2, LockedStays
  <2>5. Covered => Sound(cache', now) /\ cache'.policy = scenario.policy
    <3>1. SUFFICES ASSUME Covered PROVE Sound(cache', now) /\ cache'.policy = scenario.policy
      OBVIOUS
    <3>2. Sound(cache, now) /\ cache.policy = scenario.policy BY <3>1, <1>1 DEF Kept
    <3>3. CASE cache' = cache BY <3>2, <3>3
    <3>4. CASE cache' \in Hits(cache, K(t)) BY <3>4, <3>2, <1>1, <1>2, HitsSound
    <3>5. QED BY <3>3, <3>4, <2>1
  <2>6. Kept' BY <2>2, <2>5, <1>1, <1>3, KeptWrites
  <2>7. OnceInv'
    <3>1. SUFFICES ASSUME scenario.policy = "basic" PROVE cache' = cache
      BY <2>1, <2>2, <1>1, <1>2, OnceStays DEF OnceInv
    <3>2. cache.policy = "basic" BY <3>1, <1>1 DEF Covered, Kept
    <3>3. QED BY <3>2, <2>1 DEF Hits
  <2>8. QED BY <2>3, <2>4, <2>6, <2>7 DEF MemoInv
<1>6. CASE ~hit
  <2> DEFINE r == Takes(job[t], "computing", Fresh)
  <2>1. UNCHANGED cache /\ atomLock' = t /\ NewDelay(K(t)) /\ Become(t, r)
    BY <1>6 DEF Wrapped, Keep, Takes
  <2>2. /\ delays' \in Seq(Delay) /\ Fresh \in Nat /\ Fresh \notin DOMAIN delays
        /\ DOMAIN delays' = DOMAIN delays \cup {Fresh}
        /\ \A d \in DOMAIN delays : delays'[d] = delays[d]
        /\ delays'[Fresh].key = K(t) /\ ~delays'[Fresh].done
    BY <2>1, <1>1, <1>2, NewDelayEffect
  <2>3. Same(r, job[t]) /\ r.phase = "computing" /\ r.delay = Fresh
    BY <1>2, JobTakes DEF JobOk
  <2>4. Elsewhere(t) /\ job'[t] = r BY <1>1, <2>1, Becomes
  <2> HIDE DEF r
  <2>5. JobOk(r) BY <1>1, <1>2, <2>2, <2>3 DEF JobOk, Same, PhasesOf, SwapOps, LockOps
  <2>6. \A u \in Thread : u # t => job'[u] = job[u] BY <2>4 DEF Elsewhere
  <2>7. Types' BY <2>2, <2>4, <2>5, <1>1, TypesStay
  <2>8. Locked'
    <3>1. fnLock # t BY <1>1, <1>2, MemoAssumption DEF Locked
    <3>2. QED BY <3>1, <2>1, <2>3, <2>4, <2>6, <1>1, <1>4 DEF Locked, Phase
  <2>9. Kept'
    <3>1. Covered /\ scenario.policy # "ttl" => job'[t].key \notin Keys(cache.map)
      <4>1. SUFFICES ASSUME Covered, scenario.policy # "ttl" PROVE K(t) \notin Keys(cache.map)
        BY <2>3, <2>4 DEF Same, K
      <4>2. cache.policy # "ttl" BY <4>1, <1>1 DEF Kept
      <4>3. QED BY <4>2, <1>6 DEF Has
    <3>2. QED BY <3>1, <2>1, <2>3, <2>4, <1>1, KeptStays
  <2>10. OnceInv'
    <3>1. SUFFICES ASSUME scenario.policy = "basic", scenario.ops \subseteq LockOps
          PROVE  /\ \A d \in DOMAIN delays' : delays'[d].done => Holds(cache.map, d)'
                 /\ \A u \in Thread : job'[u].phase = "computing" =>
                      /\ job'[u].delay \in DOMAIN delays'
                      /\ delays'[job'[u].delay].key = job'[u].key
                      /\ ~delays'[job'[u].delay].done
      BY <1>1, <1>2 DEF OnceInv, Phase, K
    <3>2. ASSUME NEW d \in DOMAIN delays', delays'[d].done PROVE Holds(cache.map, d)'
      <4>1. d \in DOMAIN delays /\ delays'[d] = delays[d] BY <3>2, <2>2
      <4>2. QED BY <4>1, <3>1, <3>2, <2>1, <1>1 DEF OnceInv, Holds
    <3>3. ASSUME NEW u \in Thread, job'[u].phase = "computing"
          PROVE  /\ job'[u].delay \in DOMAIN delays'
                 /\ delays'[job'[u].delay].key = job'[u].key
                 /\ ~delays'[job'[u].delay].done
      <4>1. u = t BY <3>3, <2>6, <1>4 DEF Phase
      <4>2. QED BY <4>1, <2>2, <2>3, <2>4 DEF Same, K
    <3>4. QED BY <3>2, <3>3
  <2>11. QED BY <2>7, <2>8, <2>9, <2>10 DEF MemoInv
<1>7. QED BY <1>5, <1>6

(* What it computed is stored, or an exception leaves the cache as it was.     *)
LEMMA ComputedInv ==
  ASSUME MemoInv, NEW t \in Thread, Computed(t)
  PROVE  MemoInv'
<1> DEFINE d == job[t].delay
<1>1. /\ Types /\ Locked /\ Kept /\ OnceInv /\ now \in Nat
      /\ Phase(t) = "computing" /\ Finish(t) /\ atomLock' = Nobody
      /\ UNCHANGED <<scenario, now, fnLock>>
      /\ \/ /\ cache' \in Misses(cache, K(t), d, now)
            /\ delays' = [delays EXCEPT ![d].done = TRUE]
         \/ UNCHANGED <<cache, delays>>
  BY DEF MemoInv, Computed, Store, Keep, Types
<1>2. /\ JobOk(job[t]) /\ K(t) \in Key /\ d \in Nat
      /\ ~(scenario.ops \subseteq {"call"})
  <2>1. JobOk(job[t]) /\ ~(scenario.ops \subseteq {"call"}) BY <1>1, Active
  <2>2. QED BY <2>1, <1>1 DEF JobOk, Phase, K
<1>3. Elsewhere(t) /\ job'[t] = Idle /\ Idle.phase = "idle" BY <1>1, Finishes
<1>4. \A u \in Thread : u # t => job'[u] = job[u] /\ Phase(u) # "computing"
  BY <1>1, <1>3, NobodyComputes DEF Elsewhere
<1>5. /\ delays' \in Seq(Delay) /\ DOMAIN delays' = DOMAIN delays
      /\ \A e \in DOMAIN delays : delays'[e].key = delays[e].key
  BY <1>1, <1>2, MemoAssumption, DelayWritten DEF Types
<1>6. Types' BY <1>1, <1>3, <1>5, TypesStay
<1>7. Locked'
  <2>1. fnLock # t BY <1>1, MemoAssumption DEF Locked
  <2>2. QED BY <2>1, <1>1, <1>3, <1>4 DEF Locked, Phase
<1>8. Covered => Sound(cache', now) /\ cache'.policy = scenario.policy
  <2>1. SUFFICES ASSUME Covered PROVE Sound(cache', now) /\ cache'.policy = scenario.policy
    OBVIOUS
  <2>2. Sound(cache, now) /\ cache.policy = scenario.policy BY <2>1, <1>1 DEF Kept
  <2>3. cache.policy = "fifo" => K(t) \notin Keys(cache.map) BY <2>1, <2>2, <1>1 DEF Kept
  <2>4. CASE cache' = cache BY <2>2, <2>4
  <2>5. CASE cache' \in Misses(cache, K(t), d, now)
    BY <2>2, <2>3, <2>5, <1>1, <1>2, MissesSound
  <2>6. QED BY <2>4, <2>5, <1>1
<1>9. Kept' BY <1>1, <1>3, <1>8, KeptWrites
<1>10. OnceInv'
  <2>1. SUFFICES ASSUME scenario.policy = "basic", scenario.ops \subseteq LockOps,
                        NEW e \in DOMAIN delays', delays'[e].done
                 PROVE  Holds(cache.map, e)'
    <3>1. \A u \in Thread : job'[u].phase # "computing" BY <1>3, <1>4 DEF Phase
    <3>2. QED BY <3>1, <1>1, <1>2 DEF OnceInv, Phase
  <2>2. Covered /\ cache.policy = "basic" BY <2>1, <1>1 DEF Covered, Kept
  <2>3. e \in DOMAIN delays /\ (delays[e].done => Holds(cache.map, e)) /\ delays[d].key = K(t)
    BY <2>1, <1>1, <1>5 DEF OnceInv
  <2>4. CASE UNCHANGED <<cache, delays>> BY <2>4, <2>1, <2>3 DEF Holds
  <2>5. CASE /\ cache' \in Misses(cache, K(t), d, now)
             /\ delays' = [delays EXCEPT ![d].done = TRUE]
    <3>1. cache'.map = Put(cache.map, K(t), d)
      <4>1. cache' = [cache EXCEPT !.map = Put(cache.map, K(t), d)] BY <2>2, <2>5 DEF Misses
      <4>2. BasicSound(cache) BY <2>2, <1>1, SoundIs DEF Kept
      <4>3. QED BY <4>1, <4>2 DEF BasicSound
    <3>2. cache.map \in Table(Nat) BY <2>2, <1>1, SoundIs DEF Kept
    <3>3. /\ Keys(cache'.map) = Keys(cache.map) \cup {K(t)}
          /\ \A x \in Keys(cache.map) \cup {K(t)} :
               cache'.map[x] = IF x = K(t) THEN d ELSE cache.map[x]
      BY <3>1, <3>2, <1>2, TablePut
    <3>4. K(t) \notin Keys(cache.map) BY <2>1, <2>2, <1>1 DEF Kept
    <3>5. CASE e = d BY <3>3, <3>5, <2>3, <1>5 DEF Holds
    <3>6. CASE e # d
      <4>1. delays'[e] = delays[e] BY <2>3, <2>5, <3>6
      <4>2. delays[e].key \in Keys(cache.map) /\ cache.map[delays[e].key] = e
        BY <4>1, <2>1, <2>3 DEF Holds
      <4>3. QED BY <4>1, <4>2, <3>3, <3>4 DEF Holds
    <3>7. QED BY <3>5, <3>6
  <2>6. QED BY <2>4, <2>5, <1>1
<1>11. QED BY <1>6, <1>7, <1>9, <1>10 DEF MemoInv

(* An empty cache may be seeded.                                             *)
LEMMA BareSeedable ==
  ASSUME NEW p \in Policy \ {"lirs"}, NEW limit \in Limit
  PROVE  Seedable(Bare(p, limit), 0) /\ Bare(p, limit).policy = p
<1>1. NoEntries \in Table(Nat) BY TableIs DEF NoEntries, Keys
<1>2. NoEntries \in Table([gen : Nat, at : Nat]) BY TableIs DEF NoEntries, Keys
<1>3. CASE p = "basic" BY <1>1, <1>3 DEF Bare, Seedable, BasicSound
<1>4. CASE p = "fifo" BY <1>1, <1>4 DEF Bare, Seedable, FifoShape
<1>5. CASE p = "lru" BY <1>1, <1>5 DEF Bare, Seedable
<1>6. CASE p = "lu" BY <1>1, <1>6 DEF Bare, Seedable
<1>7. CASE p = "ttl"
  <2> DEFINE c == [policy |-> p, map |-> NoEntries, ttl |-> NoEntries, q |-> <<>>, gen |-> 0]
  <2>1. Bare(p, limit) = c BY <1>7 DEF Bare
  <2>2. c.q = <<>> /\ c.policy = p /\ TtlShape(c) BY <1>1, <1>2, <1>7 DEF TtlShape, Entry
  <2> HIDE DEF c
  <2>3. InTime(c, 0) BY <2>2 DEF InTime
  <2>4. QED BY <2>1, <2>2, <2>3 DEF Seedable
<1>8. QED BY <1>3, <1>4, <1>5, <1>6, <1>7 DEF Policy

(* The invariant holds at first.                                             *)
LEMMA InitInv ==
  ASSUME Init
  PROVE  MemoInv
<1>1. /\ scenario \in Scenario /\ scenario.policy \in Policy /\ scenario.limit \in Limit
      /\ scenario.keys \subseteq Key
      /\ now = 0 /\ fnLock = Nobody /\ atomLock = Nobody /\ delays = <<>>
      /\ job = [t \in Thread |-> Idle]
  BY MemoAssumption DEF Init, Limit
<1>2. \A t \in Thread : job[t] = Idle /\ Phase(t) = "idle" BY <1>1 DEF Phase, Idle
<1>3. Types BY <1>1, <1>2 DEF Types
<1>4. Locked BY <1>1, <1>2 DEF Locked
<1>5. Kept
  <2>1. SUFFICES ASSUME Covered PROVE Sound(cache, now) /\ cache.policy = scenario.policy
    BY <1>2 DEF Kept, Making
  <2>2. PICK b \in Bases : cache \in Seeds(Bare(scenario.policy, scenario.limit), b, 0)
    BY DEF Init
  <2>3. b \in Base BY <1>1, SeedMaps DEF Bases
  <2>4. /\ Seedable(Bare(scenario.policy, scenario.limit), 0)
        /\ Bare(scenario.policy, scenario.limit).policy = scenario.policy
    BY <1>1, <2>1, BareSeedable DEF Covered
  <2>5. QED BY <2>2, <2>3, <2>4, <1>1, SeedsSound
<1>6. OnceInv BY <1>1, <1>2 DEF OnceInv
<1>7. QED BY <1>3, <1>4, <1>5, <1>6 DEF MemoInv

(* Every step keeps it.                                                      *)
LEMMA NextInv ==
  ASSUME MemoInv, [Next]_vars
  PROVE  MemoInv'
<1>1. CASE \E t \in Thread, op \in Ops, k \in Key : Begin(t, op, k) BY <1>1, BeginInv
<1>2. CASE \E t \in Thread : Step(t)
  <2>1. PICK t \in Thread : Step(t) BY <1>2
  <2>2. CASE Look(t) BY <2>2, LookInv
  <2>3. CASE Stored(t) BY <2>3, StoredInv
  <2>4. CASE Deref(t) BY <2>4, DerefInv
  <2>5. CASE Ran(t) BY <2>5, RanInv
  <2>6. CASE Prepare(t) BY <2>6, PrepareInv
  <2>7. CASE Replace(t) BY <2>7, ReplaceInv
  <2>8. CASE MemoSwap(t) BY <2>8, MemoSwapInv
  <2>9. CASE SwapRead(t) BY <2>9, SwapReadInv
  <2>10. CASE CompareAndSet(t) BY <2>10, CompareAndSetInv
  <2>11. CASE Wrapped(t) BY <2>11, WrappedInv
  <2>12. CASE Computed(t) BY <2>12, ComputedInv
  <2>13. QED BY <2>1, <2>2, <2>3, <2>4, <2>5, <2>6, <2>7, <2>8, <2>9, <2>10, <2>11, <2>12 DEF Step
<1>3. CASE Tick BY <1>3, TickInv
<1>4. CASE UNCHANGED vars BY <1>4, StutterInv
<1>5. QED BY <1>1, <1>2, <1>3, <1>4 DEF Next

(* The caches are sound, the locks are held by who needs them, and what was    *)
(* computed is held, in every state: a policy's bookkeeping survives threads  *)
(* that store over each other.                                               *)
THEOREM Invariant == Spec => []MemoInv
<1>1. Init => MemoInv BY InitInv
<1>2. MemoInv /\ [Next]_vars => MemoInv' BY NextInv
<1>3. QED BY <1>1, <1>2, PTL DEF Spec

(* A function behind a cache that forgets nothing returns at most once for a   *)
(* key (ComputesOnce), however many threads look the key up at once.         *)
THEOREM ComputedOnce == Spec => []ComputesOnce
<1>1. MemoInv => ComputesOnce
  <2>1. SUFFICES ASSUME MemoInv, scenario.policy = "basic", OneInterface,
                        NEW d \in DOMAIN delays, NEW e \in DOMAIN delays,
                        delays[d].key = delays[e].key, delays[d].done, delays[e].done
                 PROVE  d = e
    BY DEF ComputesOnce
  <2>2. CASE scenario.ops \subseteq {"call"} BY <2>1, <2>2 DEF MemoInv, OnceInv, Holds
  <2>3. CASE scenario.ops \subseteq LockOps BY <2>1, <2>3 DEF MemoInv, OnceInv, Holds
  <2>4. QED BY <2>1, <2>2, <2>3 DEF OneInterface
<1>2. QED BY <1>1, Invariant, PTL

(* A bounded cache keeps to its threshold (SizeBounded), when no thread puts   *)
(* into a FIFO cache a key that may be there already.                        *)
THEOREM BoundedCaches == Spec => [](Covered => SizeBounded)
<1>1. MemoInv /\ Covered => SizeBounded
  <2>1. SUFFICES ASSUME Sound(cache, now) PROVE SizeBounded BY DEF MemoInv, Kept
  <2>2. CASE cache.policy = "fifo"
    <3>1. FifoSound(cache) BY <2>1, <2>2, SoundIs
    <3>2. PICK f \in 0..cache.limit : InPlaces(cache, f) BY <3>1 DEF FifoSound
    <3>3. Size(cache) = cache.limit - f BY <3>1, <3>2, FifoSize DEF FifoSound, Size
    <3>4. cache.limit \in Nat BY <3>1 DEF FifoSound, FifoShape, Limit
    <3>5. QED BY <2>2, <3>3, <3>4 DEF SizeBounded
  <2>3. CASE cache.policy = "lru" BY <2>1, <2>3, SoundIs DEF SizeBounded, Size, LruSound, Within
  <2>4. CASE cache.policy = "lu" BY <2>1, <2>4, SoundIs DEF SizeBounded, Size, LuSound, Within
  <2>5. CASE cache.policy \in {"basic", "ttl"} BY <2>5 DEF SizeBounded
  <2>6. QED BY <2>1, <2>2, <2>3, <2>4, <2>5, SoundIs
<1>2. QED BY <1>1, Invariant, PTL

(* A TTL cache has dropped its old entries when it has taken one in            *)
(* (OldAreDropped).                                                          *)
THEOREM OldEntriesGo == Spec => []OldAreDropped
<1>1. MemoInv => OldAreDropped
  <2>1. SUFFICES ASSUME MemoInv, scenario.policy = "ttl"
                 PROVE  \A x, y \in Keys(cache.map) : cache.ttl[x].at - cache.ttl[y].at <= Ttl
    BY DEF OldAreDropped
  <2>2. Sound(cache, now) /\ cache.policy = "ttl" BY <2>1 DEF MemoInv, Kept, Covered
  <2>3. TtlSound(cache, now) BY <2>2, SoundIs
  <2>4. QED BY <2>3 DEF TtlSound, Together
<1>2. QED BY <1>1, Invariant, PTL

(* What a policy keeps beside its map agrees with the map, whatever threads    *)
(* store over each other (CacheWellFormed), when no thread puts into a FIFO    *)
(* cache a key that may be there already.                                    *)
THEOREM WellFormedCaches == Spec => [](Covered => CacheWellFormed)
<1>1. MemoInv /\ Covered => CacheWellFormed
  <2>1. SUFFICES ASSUME Sound(cache, now) PROVE CacheWellFormed BY DEF MemoInv, Kept
  <2>2. CASE cache.policy = "fifo"
    <3> DEFINE c == cache
               At(k) == {i \in DOMAIN c.q : c.q[i] = k}
    <3>1. FifoSound(c) BY <2>1, <2>2, SoundIs
    <3>2. PICK f \in 0..c.limit : InPlaces(c, f) BY <3>1 DEF FifoSound
    <3>3. Len(c.q) = c.limit /\ DOMAIN c.q = 1..c.limit /\ Keys(c.map) \subseteq Key
      BY <3>1, TableIs, LenProperties DEF FifoSound, FifoShape
    <3>4. ASSUME NEW k \in Key PROVE Cardinality(At(k)) = IF k \in Keys(c.map) THEN 1 ELSE 0
      <4>1. \A i \in 1..c.limit : c.q[i] = k => i > f
        BY <3>2, CacheAssumption DEF InPlaces
      <4>2. CASE k \in Keys(c.map)
        <5>1. PICK i \in 1..c.limit : i > f /\ c.q[i] = k BY <4>2, <3>2 DEF InPlaces
        <5>2. At(k) = {i} BY <5>1, <4>1, <3>2, <3>3 DEF InPlaces
        <5>3. QED BY <5>2, <4>2, FS_Singleton
      <4>3. CASE k \notin Keys(c.map)
        <5>1. At(k) = {} BY <4>1, <4>3, <3>2, <3>3 DEF InPlaces
        <5>2. QED BY <5>1, <4>3, FS_EmptySet
      <4>4. QED BY <4>2, <4>3
    <3>5. QED BY <2>2, <3>3, <3>4 DEF CacheWellFormed
  <2>3. CASE cache.policy = "lru" BY <2>1, <2>3, SoundIs DEF CacheWellFormed, LruSound
  <2>4. CASE cache.policy = "lu" BY <2>1, <2>4, SoundIs DEF CacheWellFormed, LuSound
  <2>5. CASE cache.policy = "ttl"
    <3>1. TtlSound(cache, now) BY <2>1, <2>5, SoundIs
    <3> DEFINE entry(k) == [key |-> k, gen |-> cache.ttl[k].gen, at |-> cache.ttl[k].at]
    <3>2. Keys(cache.ttl) = Keys(cache.map) /\ cache.q \in Seq(Queued)
      BY <3>1 DEF TtlSound, TtlShape, AllQueued
    <3>3. ASSUME NEW k \in Keys(cache.map) PROVE entry(k) \in Range(cache.q)
      <4>1. PICK i \in 1..Len(cache.q) : /\ cache.q[i].key = k
                                         /\ cache.q[i].gen = cache.ttl[k].gen
                                         /\ cache.q[i].at = cache.ttl[k].at
        BY <3>1 DEF TtlSound, AllQueued
      <4>2. cache.q[i] \in Queued /\ i \in DOMAIN cache.q BY <3>2
      <4>3. cache.q[i] = entry(k) BY <4>1, <4>2 DEF Queued
      <4>4. QED BY <4>2, <4>3 DEF Range
    <3>4. QED BY <3>2, <3>3, <2>5 DEF CacheWellFormed
  <2>6. CASE cache.policy = "basic" BY <2>6 DEF CacheWellFormed
  <2>7. QED BY <2>1, <2>2, <2>3, <2>4, <2>5, <2>6, SoundIs
<1>2. QED BY <1>1, Invariant, PTL

----------------------------------------------------------------------------
(* The age of entries.  A cache agrees with the record o of which key is      *)
(* older than which when its policy ranks the keys in that order.            *)
Renews(c, d, ks) == {k \in ks : d.policy = "fifo" => k \notin Keys(c.map)}

After(c, d, o, ks) ==
  {p \in Keys(d.map) \X Keys(d.map) :
     p[1] \notin Renews(c, d, ks) /\ (p[2] \in Renews(c, d, ks) \/ p \in o)}

Ranked(c, o) ==
  /\ \A x \in Keys(c.map) : c.lru[x] <= c.tick
  /\ \A x, y \in Keys(c.map) : x # y => c.lru[x] # c.lru[y]
  /\ \A x, y \in Keys(c.map) : c.lru[x] < c.lru[y] => <<x, y>> \in o

Lined(c, o) ==
  \A i, j \in 1..c.limit :
    i < j /\ c.q[i] \in Keys(c.map) /\ c.q[j] \in Keys(c.map) => <<c.q[i], c.q[j]>> \in o

Aged(c, o) ==
  /\ c.policy = "lru" => Ranked(c, o)
  /\ c.policy = "fifo" => Lined(c, o)

(* What goes to make room for a new key is older than what stays.             *)
Gone(c, d, o) ==
  Keys(d.map) \ Keys(c.map) # {} =>
    \A x \in Keys(c.map) \ Keys(d.map), y \in Keys(c.map) \cap Keys(d.map) : <<x, y>> \in o

(* Which keys are older once a cache is stored.                              *)
LEMMA AfterIs ==
  ASSUME NEW c, NEW d, NEW o, NEW ks, NEW x \in Keys(d.map), NEW y \in Keys(d.map)
  PROVE  <<x, y>> \in After(c, d, o, ks) <=>
           x \notin Renews(c, d, ks) /\ (y \in Renews(c, d, ks) \/ <<x, y>> \in o)
BY DEF After

(* LRU: the key that is used or put gets the highest tick.                    *)
LEMMA LruHitAges ==
  ASSUME NEW c, LruSound(c), NEW o, Ranked(c, o), NEW k \in Key, NEW d \in LruHit(c, k)
  PROVE  Gone(c, d, o) /\ Ranked(d, After(c, d, o, {k}))
<1>1. /\ c.tick \in Nat /\ c.lru \in Table(Nat) /\ Keys(c.lru) = Keys(c.map)
      /\ d.map = c.map /\ d.tick = c.tick + 1 /\ d.policy = "lru"
      /\ d.lru = IF k \in Keys(c.map) THEN Put(c.lru, k, c.tick + 1) ELSE c.lru
  BY DEF LruSound, LruHit
<1>2. c.tick + 1 \in Nat /\ \A x \in Keys(c.map) : c.lru[x] \in Nat BY <1>1, TableIs
<1>3. \A x \in Keys(c.map) : d.lru[x] = IF x = k THEN c.tick + 1 ELSE c.lru[x]
  BY <1>1, <1>2, TablePut
<1>4. Renews(c, d, {k}) = {k} BY <1>1 DEF Renews
<1>5. /\ \A x \in Keys(c.map) : c.lru[x] <= c.tick
      /\ \A x, y \in Keys(c.map) : x # y => c.lru[x] # c.lru[y]
      /\ \A x, y \in Keys(c.map) : c.lru[x] < c.lru[y] => <<x, y>> \in o
  BY DEF Ranked
<1>6. ASSUME NEW x \in Keys(d.map), NEW y \in Keys(d.map), d.lru[x] < d.lru[y]
      PROVE  <<x, y>> \in After(c, d, o, {k})
  <2>1. x # k
    <3>1. SUFFICES ASSUME x = k PROVE FALSE OBVIOUS
    <3>2. d.lru[x] = c.tick + 1 /\ d.lru[y] <= c.tick + 1 BY <3>1, <1>1, <1>2, <1>3, <1>5
    <3>3. d.lru[y] \in Nat BY <1>1, <1>2, <1>3
    <3>4. QED BY <3>2, <3>3, <1>6, <1>1
  <2>2. y # k => <<x, y>> \in o BY <2>1, <1>1, <1>3, <1>5, <1>6
  <2>3. QED BY <2>1, <2>2, <1>4, AfterIs
<1>7. \A x \in Keys(d.map) : d.lru[x] <= d.tick BY <1>1, <1>2, <1>3, <1>5
<1>8. \A x, y \in Keys(d.map) : x # y => d.lru[x] # d.lru[y] BY <1>1, <1>2, <1>3, <1>5
<1>9. QED BY <1>1, <1>6, <1>7, <1>8 DEF Gone, Ranked

(* A full LRU cache gives up the key with the lowest tick.                    *)
LEMMA LruMissAges ==
  ASSUME NEW c, LruSound(c), NEW o, Ranked(c, o), NEW k \in Key, NEW v \in Nat,
         NEW d \in LruMiss(c, k, v)
  PROVE  Gone(c, d, o) /\ Ranked(d, After(c, d, o, {k}))
<1>1. PICK out \in Victims(c, c.lru, k) :
        d = [c EXCEPT !.tick = @ + 1, !.map = Put(Drop(@, out), k, v),
                      !.lru = Put(Drop(@, out), k, c.tick + 1)]
  BY DEF LruMiss
<1>2. /\ c.tick \in Nat /\ c.tick + 1 \in Nat /\ c.lru \in Table(Nat) /\ c.map \in Table(Nat)
      /\ Keys(c.lru) = Keys(c.map)
      /\ d.map = Put(Drop(c.map, out), k, v) /\ d.lru = Put(Drop(c.lru, out), k, c.tick + 1)
      /\ d.tick = c.tick + 1 /\ d.policy = "lru"
  BY <1>1 DEF LruSound
<1>3. \A x \in Keys(c.map) : c.lru[x] \in Nat BY <1>2, TableIs
<1>4. Keys(d.map) = (Keys(c.map) \ out) \cup {k}
  <2>1. Drop(c.map, out) \in Table(Nat) /\ Keys(Drop(c.map, out)) = Keys(c.map) \ out
    BY <1>2, TableDrop
  <2>2. QED BY <2>1, <1>2, TablePut
<1>5. \A x \in Keys(d.map) : d.lru[x] = IF x = k THEN c.tick + 1 ELSE c.lru[x]
  <2>1. /\ Drop(c.lru, out) \in Table(Nat) /\ Keys(Drop(c.lru, out)) = Keys(c.map) \ out
        /\ \A x \in Keys(c.map) \ out : Drop(c.lru, out)[x] = c.lru[x]
    BY <1>2, TableDrop
  <2>2. QED BY <2>1, <1>2, <1>4, TablePut
<1>6. Renews(c, d, {k}) = {k} BY <1>2 DEF Renews
<1>7. /\ \A x \in Keys(c.map) : c.lru[x] <= c.tick
      /\ \A x, y \in Keys(c.map) : x # y => c.lru[x] # c.lru[y]
      /\ \A x, y \in Keys(c.map) : c.lru[x] < c.lru[y] => <<x, y>> \in o
  BY DEF Ranked
<1>8. \A x \in Keys(d.map) : x # k => x \in Keys(c.map) BY <1>4
<1>9. ASSUME NEW x \in Keys(d.map), NEW y \in Keys(d.map), d.lru[x] < d.lru[y]
      PROVE  <<x, y>> \in After(c, d, o, {k})
  <2>1. x # k
    <3>1. SUFFICES ASSUME x = k PROVE FALSE OBVIOUS
    <3>2. d.lru[x] = c.tick + 1 /\ d.lru[y] <= c.tick + 1 /\ d.lru[y] \in Nat
      BY <3>1, <1>2, <1>3, <1>5, <1>7, <1>8
    <3>3. QED BY <3>2, <1>9, <1>2
  <2>2. y # k => <<x, y>> \in o BY <2>1, <1>5, <1>7, <1>8, <1>9
  <2>3. QED BY <2>1, <2>2, <1>6, AfterIs
<1>10. \A x \in Keys(d.map) : d.lru[x] <= d.tick BY <1>2, <1>3, <1>5, <1>7, <1>8
<1>11. \A x, y \in Keys(d.map) : x # y => d.lru[x] # d.lru[y] BY <1>2, <1>3, <1>5, <1>7, <1>8
<1>12. Gone(c, d, o)
  <2>1. SUFFICES ASSUME NEW z \in Keys(d.map) \ Keys(c.map),
                        NEW x \in Keys(c.map) \ Keys(d.map), NEW y \in Keys(c.map) \cap Keys(d.map)
                 PROVE  <<x, y>> \in o
    BY DEF Gone
  <2>2. k \notin Keys(c.map) /\ x \in out /\ x # y BY <1>4
  <2>3. x \in Least(c.lru) BY <2>2, <1>2 DEF Victims
  <2>4. c.lru[x] <= c.lru[y] BY <2>3, <1>2 DEF Least
  <2>5. c.lru[x] < c.lru[y] BY <2>2, <2>4, <1>3, <1>7
  <2>6. QED BY <2>5, <1>7
<1>13. QED BY <1>9, <1>10, <1>11, <1>12 DEF Ranked

(* An eviction leaves the ticks of the others.                               *)
LEMMA LruEvictAges ==
  ASSUME NEW c, LruSound(c), NEW o, Ranked(c, o), NEW k \in Key, NEW d \in {LruEvict(c, k)}
  PROVE  Gone(c, d, o) /\ Ranked(d, After(c, d, o, {}))
<1>1. /\ c.tick \in Nat /\ c.lru \in Table(Nat) /\ c.map \in Table(Nat) /\ Keys(c.lru) = Keys(c.map)
      /\ d.map = Drop(c.map, {k}) /\ d.lru = Drop(c.lru, {k})
      /\ d.tick = c.tick + 1 /\ d.policy = "lru"
  BY DEF LruSound, LruEvict, Without
<1>2. /\ Keys(d.map) = Keys(c.map) \ {k} /\ \A x \in Keys(d.map) : d.lru[x] = c.lru[x]
      /\ \A x \in Keys(c.map) : c.lru[x] \in Nat
  BY <1>1, TableDrop, TableIs
<1>3. Renews(c, d, {}) = {} BY DEF Renews
<1>4. /\ \A x \in Keys(d.map) : d.lru[x] <= d.tick
      /\ \A x, y \in Keys(d.map) : x # y => d.lru[x] # d.lru[y]
      /\ \A x, y \in Keys(d.map) : d.lru[x] < d.lru[y] => <<x, y>> \in o
  <2>1. /\ \A x \in Keys(c.map) : c.lru[x] <= c.tick
        /\ \A x, y \in Keys(c.map) : x # y => c.lru[x] # c.lru[y]
        /\ \A x, y \in Keys(c.map) : c.lru[x] < c.lru[y] => <<x, y>> \in o
    BY DEF Ranked
  <2>2. ASSUME NEW x \in Keys(d.map) PROVE d.lru[x] <= d.tick
    <3>1. x \in Keys(c.map) /\ d.lru[x] = c.lru[x] /\ c.lru[x] \in Nat BY <1>2
    <3>2. c.lru[x] <= c.tick BY <2>1, <3>1
    <3>3. QED BY <3>1, <3>2, <1>1
  <2>3. \A x \in Keys(d.map) : x \in Keys(c.map) /\ d.lru[x] = c.lru[x] BY <1>2
  <2>4. QED BY <2>1, <2>2, <2>3
<1>5. \A x, y \in Keys(d.map) : d.lru[x] < d.lru[y] => <<x, y>> \in After(c, d, o, {})
  BY <1>3, <1>4, AfterIs
<1>6. QED BY <1>2, <1>4, <1>5 DEF Gone, Ranked

(* FIFO: a key takes the last place, and the one in the first place goes.      *)
LEMMA FifoMissAges ==
  ASSUME NEW c, FifoSound(c), NEW o, Lined(c, o), NEW k \in Key, k \notin Keys(c.map),
         NEW v \in Nat, NEW d \in FifoMiss(c, k, v)
  PROVE  Gone(c, d, o) /\ Lined(d, After(c, d, o, {k}))
<1> DEFINE L == c.limit
           q == d.q
<1>1. L \in Nat /\ L >= 1 BY DEF FifoSound, FifoShape, Limit
<1>2. PICK f \in 0..L : InPlaces(c, f) BY DEF FifoSound
<1>3. /\ FifoShape(d) /\ d.limit = L /\ Len(q) = L /\ q[L] = k
      /\ \A i \in 1..(L - 1) : q[i] = c.q[i + 1] /\ i + 1 \in 1..L
      /\ f = 0 => Keys(d.map) = (Keys(c.map) \ {c.q[1]}) \cup {k}
      /\ f # 0 => Keys(d.map) = Keys(c.map) \cup {k}
  BY <1>2, FifoMissIs
<1>4. d.policy = "fifo" BY <1>3 DEF FifoShape
<1>5. Renews(c, d, {k}) = {k} BY <1>4 DEF Renews
<1>6. /\ \A i \in 1..L : c.q[i] = Free <=> i <= f
      /\ \A x \in Keys(c.map) : \E i \in 1..L : i > f /\ c.q[i] = x
      /\ \A i \in 1..L : i > f => c.q[i] \in Keys(c.map)
  BY <1>2 DEF InPlaces
<1>7. \A i \in 1..L : c.q[i] # k
  <2>1. k # Free BY CacheAssumption
  <2>2. QED BY <2>1, <1>1, <1>6
<1> HIDE DEF q
<1>8. ASSUME NEW i \in 1..L, NEW j \in 1..L, i < j, q[i] \in Keys(d.map), q[j] \in Keys(d.map)
      PROVE  <<q[i], q[j]>> \in After(c, d, o, {k})
  <2>1. i \in 1..(L - 1) BY <1>1, <1>8
  <2>2. q[i] = c.q[i + 1] /\ i + 1 \in 1..L BY <2>1, <1>3
  <2>3. q[i] # k /\ q[i] \in Keys(c.map) BY <2>2, <1>3, <1>7, <1>8
  <2>4. CASE j = L BY <2>3, <2>4, <1>3, <1>5, <1>8, AfterIs
  <2>5. CASE j # L
    <3>1. j \in 1..(L - 1) BY <2>5, <1>1
    <3>2. q[j] = c.q[j + 1] /\ j + 1 \in 1..L BY <3>1, <1>3
    <3>3. q[j] \in Keys(c.map) BY <3>2, <1>3, <1>7, <1>8
    <3>4. i + 1 < j + 1 BY <1>8
    <3>5. <<q[i], q[j]>> \in o BY <2>2, <2>3, <3>2, <3>3, <3>4 DEF Lined
    <3>6. QED BY <3>5, <2>3, <1>5, <1>8, AfterIs
  <2>6. QED BY <2>4, <2>5
<1>9. Gone(c, d, o)
  <2>1. SUFFICES ASSUME NEW x \in Keys(c.map) \ Keys(d.map), NEW y \in Keys(c.map) \cap Keys(d.map)
                 PROVE  <<x, y>> \in o
    BY DEF Gone
  <2>2. x = c.q[1] /\ x # y BY <1>3
  <2>3. PICK j \in 1..L : c.q[j] = y BY <1>6
  <2>4. 1 \in 1..L /\ 1 < j BY <2>2, <2>3, <1>1
  <2>5. QED BY <2>2, <2>3, <2>4 DEF Lined
<1>10. Lined(d, After(c, d, o, {k})) BY <1>3, <1>8 DEF Lined, q
<1>11. QED BY <1>9, <1>10

(* An eviction leaves the others in their order.                             *)
LEMMA FifoEvictAges ==
  ASSUME NEW c, FifoSound(c), NEW o, Lined(c, o), NEW k \in Keys(c.map), NEW d \in {FifoEvict(c, k)}
  PROVE  Gone(c, d, o) /\ Lined(d, After(c, d, o, {}))
<1> DEFINE L == c.limit
           q == d.q
<1>1. L \in Nat /\ L >= 1 /\ Keys(c.map) \subseteq Key
  BY TableIs DEF FifoSound, FifoShape, Limit
<1>2. PICK f \in 0..L : InPlaces(c, f) BY DEF FifoSound
<1>3. PICK p \in 1..L :
        /\ p > f /\ \A i \in 1..L : c.q[i] = k <=> i = p
        /\ FifoShape(d) /\ d.limit = L /\ Len(q) = L /\ q[1] = Free
        /\ \A i \in 2..L : q[i] = IF i <= p THEN c.q[i - 1] ELSE c.q[i]
        /\ Keys(d.map) = Keys(c.map) \ {k}
  BY <1>2, FifoEvictIs
<1> HIDE DEF q
<1> DEFINE was(i) == IF i <= p THEN i - 1 ELSE i
<1>4. Renews(c, d, {}) = {} BY DEF Renews
<1>5. ASSUME NEW i \in 1..L, q[i] \in Keys(d.map)
      PROVE  i >= 2 /\ was(i) \in 1..L /\ q[i] = c.q[was(i)]
  <2>1. i # 1 BY <1>5, <1>1, <1>3, CacheAssumption
  <2>2. i \in 2..L BY <2>1, <1>1
  <2>3. QED BY <2>2, <1>1, <1>3
<1>6. ASSUME NEW i \in 1..L, NEW j \in 1..L, i < j, q[i] \in Keys(d.map), q[j] \in Keys(d.map)
      PROVE  <<q[i], q[j]>> \in After(c, d, o, {})
  <2>1. /\ was(i) \in 1..L /\ was(j) \in 1..L
        /\ q[i] = c.q[was(i)] /\ q[j] = c.q[was(j)]
    BY <1>5, <1>6
  <2>2. was(i) < was(j) BY <1>1, <1>6
  <2> HIDE DEF was
  <2>3. <<q[i], q[j]>> \in o BY <2>1, <2>2, <1>3, <1>6 DEF Lined
  <2>4. QED BY <2>3, <1>4, <1>6, AfterIs
<1>7. Gone(c, d, o) BY <1>3 DEF Gone
<1>8. Lined(d, After(c, d, o, {})) BY <1>3, <1>6 DEF Lined, q
<1>9. QED BY <1>7, <1>8

(* A FIFO cache that stays as it is, and an LRU cache that nobody uses.        *)
LEMMA SameAges ==
  ASSUME NEW c, NEW o, Aged(c, o), NEW ks, c.policy = "lru" => ks = {}, c.policy \in {"fifo", "lru"}
  PROVE  Gone(c, c, o) /\ Aged(c, After(c, c, o, ks))
<1>1. \A x \in Keys(c.map) : x \notin Renews(c, c, ks) BY DEF Renews
<1>2. \A x, y \in Keys(c.map) : <<x, y>> \in o => <<x, y>> \in After(c, c, o, ks)
  BY <1>1, AfterIs
<1>3. c.policy = "lru" => Ranked(c, After(c, c, o, ks)) BY <1>2 DEF Aged, Ranked
<1>4. c.policy = "fifo" => Lined(c, After(c, c, o, ks)) BY <1>2 DEF Aged, Lined
<1>5. QED BY <1>3, <1>4 DEF Gone, Aged

(* The operations of either policy.                                          *)
LEMMA HitsAge ==
  ASSUME NEW c, NEW t, Sound(c, t), c.policy \in {"fifo", "lru"}, NEW o, Aged(c, o),
         NEW k \in Key, NEW d \in Hits(c, k)
  PROVE  Gone(c, d, o) /\ Aged(d, After(c, d, o, {k}))
<1>1. CASE c.policy = "lru"
  <2>1. LruSound(c) /\ Ranked(c, o) /\ d \in LruHit(c, k) BY <1>1, SoundIs DEF Hits, Aged
  <2>2. d.policy = "lru" BY <2>1, LruHitSound DEF LruSound
  <2>3. QED BY <2>1, <2>2, LruHitAges DEF Aged
<1>2. CASE c.policy = "fifo"
  <2>1. d = c BY <1>2 DEF Hits
  <2>2. QED BY <2>1, <1>2, SameAges
<1>3. QED BY <1>1, <1>2

(* A miss.                                                                   *)
LEMMA MissesAge ==
  ASSUME NEW c, NEW t, Sound(c, t), c.policy \in {"fifo", "lru"}, NEW o, Aged(c, o),
         NEW k \in Key, NEW v \in Nat, c.policy = "fifo" => k \notin Keys(c.map),
         NEW d \in Misses(c, k, v, t)
  PROVE  Gone(c, d, o) /\ Aged(d, After(c, d, o, {k}))
<1>1. CASE c.policy = "lru"
  <2>1. LruSound(c) /\ Ranked(c, o) /\ d \in LruMiss(c, k, v) BY <1>1, SoundIs DEF Misses, Aged
  <2>2. d.policy = "lru" BY <2>1, LruMissSound DEF LruSound
  <2>3. QED BY <2>1, <2>2, LruMissAges DEF Aged
<1>2. CASE c.policy = "fifo"
  <2>1. FifoSound(c) /\ Lined(c, o) /\ d \in FifoMiss(c, k, v)
    BY <1>2, SoundIs DEF Misses, Aged
  <2>2. d.policy = "fifo" BY <2>1, <1>2, FifoMissSound DEF FifoSound, FifoShape
  <2>3. QED BY <2>1, <2>2, <1>2, FifoMissAges DEF Aged
<1>3. QED BY <1>1, <1>2

(* An eviction.                                                              *)
LEMMA EvictsAge ==
  ASSUME NEW c, NEW t, Sound(c, t), c.policy \in {"fifo", "lru"}, NEW o, Aged(c, o),
         NEW k \in Key, NEW d \in {Evicts(c, k)}
  PROVE  Gone(c, d, o) /\ Aged(d, After(c, d, o, {}))
<1>1. CASE k \notin Keys(c.map)
  <2>1. d = c BY <1>1 DEF Evicts
  <2>2. QED BY <2>1, SameAges
<1>2. CASE c.policy = "lru" /\ k \in Keys(c.map)
  <2>1. LruSound(c) /\ Ranked(c, o) /\ d \in {LruEvict(c, k)} BY <1>2, SoundIs DEF Evicts, Aged
  <2>2. d.policy = "lru" BY <2>1, LruEvictSound DEF LruSound
  <2>3. QED BY <2>1, <2>2, LruEvictAges DEF Aged
<1>3. CASE c.policy = "fifo" /\ k \in Keys(c.map)
  <2>1. FifoSound(c) /\ Lined(c, o) /\ d \in {FifoEvict(c, k)}
    BY <1>3, SoundIs DEF Evicts, Aged
  <2>2. d.policy = "fifo" BY <2>1, <1>3, FifoEvictSound DEF FifoSound, FifoShape
  <2>3. QED BY <2>1, <2>2, <1>3, FifoEvictAges DEF Aged
<1>4. QED BY <1>1, <1>2, <1>3

(* A FIFO cache keeps all of the map it is seeded with.                        *)
LEMMA FifoSeedKeys ==
  ASSUME NEW c, FifoShape(c), NEW b \in Base, NEW d \in FifoSeed(c, b)
  PROVE  Keys(d.map) = Keys(b)
<1>1. PICK s \in SUBSET Keys(b) : \E ks \in SetToSeqs(s) :
        /\ Len(ks) = IF Full(c, b) THEN c.limit ELSE Cardinality(Keys(b))
        /\ d = [c EXCEPT !.map = Restrict(b, Range(ks)),
                         !.q = [i \in 1..(c.limit - Len(ks)) |-> Free] \o ks]
  BY DEF FifoSeed
<1>2. PICK ks \in SetToSeqs(s) :
        /\ Len(ks) = IF Full(c, b) THEN c.limit ELSE Cardinality(Keys(b))
        /\ d = [c EXCEPT !.map = Restrict(b, Range(ks)),
                         !.q = [i \in 1..(c.limit - Len(ks)) |-> Free] \o ks]
  BY <1>1
<1>3. c.limit \in Limit BY DEF FifoShape
<1>4. Keys(Restrict(b, Range(ks))) = Keys(b) BY <1>2, <1>3, FifoKept
<1>5. d.map = Restrict(b, Range(ks)) BY <1>2 DEF FifoShape
<1>6. QED BY <1>4, <1>5

(* A seed: of at most one key, none is older than another.                    *)
LEMMA SeedsAge ==
  ASSUME NEW c, NEW t, Seedable(c, t), c.policy \in {"fifo", "lru"}, NEW o,
         NEW b \in Base, NEW d \in Seeds(c, b, t)
  PROVE  Gone(c, d, o) /\ Aged(d, {})
<1>1. b \in Table(Nat) /\ \A x, y \in Keys(b) : x = y BY BaseSize DEF Base
<1>2. CASE c.policy = "lru"
  <2>1. d = [c EXCEPT !.map = b, !.lru = Zeros(b), !.tick = 0]
    BY <1>2 DEF Seeds, LruSeed
  <2>2. c \in [policy : {"lru"}, map : Table(Nat), limit : Limit, lru : Table(Nat), tick : Nat]
    BY <1>2, SeedableIs
  <2>3. d.map = b /\ d.lru = Zeros(b) /\ d.tick = 0 /\ d.policy = "lru" BY <2>1, <2>2
  <2>4. \A x \in Keys(b) : d.lru[x] = 0 BY <2>3 DEF Zeros
  <2>5. QED BY <2>3, <2>4, <1>1 DEF Gone, Aged, Ranked
<1>3. CASE c.policy = "fifo"
  <2>1. FifoShape(c) /\ d \in FifoSeed(c, b) BY <1>3, SeedableIs DEF Seeds
  <2>2. FifoSound(d) BY <2>1, FifoSeedSound
  <2>3. Keys(d.map) = Keys(b) BY <2>1, FifoSeedKeys
  <2>4. PICK f \in 0..d.limit : InPlaces(d, f) BY <2>2 DEF FifoSound
  <2>5. \A i \in 1..d.limit : d.q[i] \in Keys(d.map) => i > f
    <3>1. Keys(d.map) \subseteq Key /\ d.limit \in Nat
      BY <2>2, TableIs DEF FifoSound, FifoShape, Limit
    <3>2. QED BY <3>1, <2>4, CacheAssumption DEF InPlaces
  <2>6. ASSUME NEW i \in 1..d.limit, NEW j \in 1..d.limit, i < j,
                d.q[i] \in Keys(d.map), d.q[j] \in Keys(d.map)
         PROVE  FALSE
    <3>1. d.q[i] = d.q[j] /\ i > f /\ j > f BY <2>3, <2>5, <2>6, <1>1
    <3>2. i = j BY <3>1, <2>4 DEF InPlaces
    <3>3. QED BY <3>2, <2>6
  <2>7. Lined(d, {}) BY <2>6 DEF Lined
  <2>8. d.policy = "fifo" BY <2>2 DEF FifoSound, FifoShape
  <2>9. QED BY <2>3, <2>7, <2>8, <1>1 DEF Gone, Aged
<1>4. QED BY <1>2, <1>3

----------------------------------------------------------------------------
(* The threads again: while the scenario is one whose threads do not store     *)
(* over each other, the cache of the Atom agrees with the record, and so will  *)
(* the one that a thread has made, once it is stored.                        *)
Aims == Exact /\ scenario.policy \in {"fifo", "lru"}

(* What the record will be when the cache of job r is stored.                 *)
Leaves(r) ==
  IF r.op \in {"clear", "reset", "seed!"} THEN {}
  ELSE After(cache, r.new, older, IF r.op \in {"evict", "evict!"} THEN {} ELSE {r.key})

Serves(r) == Gone(cache, r.new, older) /\ Aged(r.new, Leaves(r))

AgeInv ==
  /\ \A t \in Thread : Phase(t) # "idle" => t \in scenario.users
  /\ Aims => /\ Aged(cache, older)
             /\ \A t \in Thread : Making(t) => Serves(job[t])

(* What goes in a step is older than what stays.                             *)
Fair == Aims => Gone(cache, cache', older)

(* What the invariants say then.                                             *)
LEMMA AimsCovered ==
  ASSUME MemoInv, AgeInv, Aims
  PROVE  /\ Covered /\ Sound(cache, now) /\ Seedable(cache, now)
         /\ cache.policy = scenario.policy /\ cache.policy \in {"fifo", "lru"}
         /\ Aged(cache, older)
         /\ cache.policy = "fifo" => scenario.ops \cap {"miss!", "swap"} = {}
<1>1. Covered BY DEF Aims, Exact, PutsOnce, Covered
<1>2. Sound(cache, now) /\ cache.policy = scenario.policy BY <1>1 DEF MemoInv, Kept
<1>3. QED BY <1>1, <1>2, SoundIs DEF Aims, AgeInv, Exact, PutsOnce

(* A step that leaves the cache alone.                                       *)
LEMMA AgeStays ==
  ASSUME AgeInv, NEW t \in Thread, UNCHANGED <<scenario, cache, older>>, Elsewhere(t),
         job'[t].phase # "idle" => t \in scenario.users,
         Aims /\ job'[t].phase \in {"store", "replace", "cas"} => Serves(job'[t])
  PROVE  AgeInv' /\ Fair
<1>1. Fair BY DEF Fair, Gone
<1>2. Aims' <=> Aims BY DEF Aims, Exact, OneInterface, OneUser, PutsOnce
<1>3. ASSUME NEW u \in Thread, Phase(u)' # "idle" PROVE u \in scenario.users
  <2>1. CASE u = t BY <2>1, <1>3 DEF Phase
  <2>2. CASE u # t
    <3>1. job'[u] = job[u] BY <2>2 DEF Elsewhere
    <3>2. QED BY <3>1, <1>3 DEF AgeInv, Phase
  <2>3. QED BY <2>1, <2>2
<1>4. ASSUME Aims, NEW u \in Thread, Making(u)' PROVE Serves(job'[u])
  <2>1. CASE u = t BY <2>1, <1>4 DEF Making, Phase
  <2>2. CASE u # t
    <3>1. job'[u] = job[u] BY <2>2 DEF Elsewhere
    <3>2. Making(u) BY <3>1, <1>4 DEF Making, Phase
    <3>3. QED BY <3>1, <3>2, <1>4 DEF AgeInv
  <2>3. QED BY <2>1, <2>2
<1>5. \A u \in Thread : Serves(job[u])' <=> Serves(job'[u])
  BY DEF Serves, Leaves, Gone, Aged, After, Renews, Ranked, Lined
<1>6. QED BY <1>1, <1>2, <1>3, <1>4, <1>5 DEF AgeInv, Aged

(* No other thread has made a cache that it is still to store.                *)
Writing == {"store", "replace", "cas", "swap", "computing"} \cup LockOps

LEMMA NobodyMakes ==
  ASSUME MemoInv, AgeInv, Aims, NEW t \in Thread, Phase(t) \in Writing
  PROVE  \A u \in Thread \ {t} : ~Making(u)
<1>1. Phase(t) # "idle" /\ Types /\ Locked BY DEF Writing, LockOps, MemoInv
<1>2. SUFFICES ASSUME NEW u \in Thread \ {t}, Making(u) PROVE FALSE OBVIOUS
<1>3. Phase(u) # "idle" BY <1>2 DEF Making
<1>4. CASE scenario.ops \subseteq {"call"}
  <2>1. /\ Phase(u) \in {"call", "store", "deref", "running"}
        /\ Phase(t) \in {"call", "store", "deref", "running"}
    BY <1>1, <1>3, <1>4, Active
  <2>2. Phase(u) = "store" /\ Phase(t) = "store" BY <2>1, <1>2 DEF Making, Writing, LockOps
  <2>3. QED BY <2>2, <1>1 DEF Locked
<1>5. CASE scenario.ops \subseteq LockOps
  <2>1. Phase(u) \in LockOps \cup {"computing"} BY <1>1, <1>3, <1>5, Active
  <2>2. QED BY <2>1, <1>2 DEF Making, LockOps
<1>6. CASE OneUser BY <1>1, <1>3, <1>6 DEF AgeInv, OneUser
<1>7. QED BY <1>4, <1>5, <1>6 DEF Aims, Exact, OneInterface

(* A step that stores a cache, when its thread makes no other.                *)
LEMMA AgeWrites ==
  ASSUME MemoInv, AgeInv, NEW t \in Thread, Phase(t) \in Writing,
         scenario' = scenario, Elsewhere(t), job'[t].phase \notin {"store", "replace", "cas"},
         Aims => Gone(cache, cache', older) /\ Aged(cache', older')
  PROVE  AgeInv' /\ Fair
<1>1. Fair BY DEF Fair
<1>2. Aims' <=> Aims BY DEF Aims, Exact, OneInterface, OneUser, PutsOnce
<1>3. t \in scenario.users BY DEF AgeInv, Writing, LockOps
<1>4. ASSUME NEW u \in Thread, Phase(u)' # "idle" PROVE u \in scenario.users
  <2>1. CASE u = t BY <2>1, <1>3
  <2>2. CASE u # t
    <3>1. job'[u] = job[u] BY <2>2 DEF Elsewhere
    <3>2. QED BY <3>1, <1>4 DEF AgeInv, Phase
  <2>3. QED BY <2>1, <2>2
<1>5. ASSUME Aims, NEW u \in Thread PROVE ~Making(u)'
  <2>1. CASE u = t BY <2>1 DEF Making, Phase
  <2>2. CASE u # t
    <3>1. job'[u] = job[u] BY <2>2 DEF Elsewhere
    <3>2. ~Making(u) BY <2>2, <1>5, NobodyMakes
    <3>3. QED BY <3>1, <3>2 DEF Making, Phase
  <2>3. QED BY <2>1, <2>2
<1>6. Aims => Aged(cache, older)' BY DEF Aged, Ranked, Lined
<1>7. QED BY <1>1, <1>2, <1>4, <1>5, <1>6 DEF AgeInv

(* Who is at work is a user of the scenario.                                  *)
LEMMA AtWork ==
  ASSUME AgeInv, NEW t \in Thread, Phase(t) # "idle"
  PROVE  t \in scenario.users
BY DEF AgeInv

(* What Store makes of the record.                                           *)
LEMMA StoreAges ==
  ASSUME NEW c, NEW ks, Store(c, ks)
  PROVE  cache' = c /\ older' = After(cache, c, older, ks)
BY DEF Store, OlderIn, Renewed, After, Renews

(* A thread begins an operation, the clock moves on, nothing happens.         *)
LEMMA BeginAge ==
  ASSUME MemoInv, AgeInv, NEW t \in Thread, NEW op \in Ops, NEW k \in Key, Begin(t, op, k)
  PROVE  AgeInv' /\ Fair
<1> DEFINE r == [phase |-> op, op |-> op, key |-> k, seen |-> NoEntries, new |-> Unset, delay |-> 0]
<1>1. /\ Types /\ t \in scenario.users /\ UNCHANGED <<scenario, cache, older>> /\ Become(t, r)
  BY DEF MemoInv, Begin
<1>2. op \notin {"store", "replace", "cas"} BY DEF Ops, MemoOps, SwapOps, LockOps
<1>3. Elsewhere(t) /\ job'[t] = r BY <1>1, Becomes
<1>4. job'[t].phase = op BY <1>3
<1>5. QED BY <1>1, <1>2, <1>3, <1>4, AgeStays

(* Ticks and stutters.                                                       *)
LEMMA IdleAge ==
  ASSUME AgeInv, UNCHANGED <<scenario, cache, older, job>>
  PROVE  AgeInv' /\ Fair
<1>1. Fair BY DEF Fair, Gone
<1>2. Aims' <=> Aims BY DEF Aims, Exact, OneInterface, OneUser, PutsOnce
<1>3. \A u \in Thread : Serves(job[u])' <=> Serves(job[u])
  BY DEF Serves, Leaves, Gone, Aged, After, Renews, Ranked, Lined
<1>4. QED BY <1>1, <1>2, <1>3 DEF AgeInv, Aged, Ranked, Lined, Making, Phase

(* A memoized function makes the next cache, and stores it.                   *)
LEMMA LookAge ==
  ASSUME MemoInv, AgeInv, NEW t \in Thread, Look(t)
  PROVE  AgeInv' /\ Fair
<1> DEFINE hit  == Has(cache, K(t), now)
           next == IF hit THEN Hits(cache, K(t)) ELSE Misses(cache, K(t), Fresh, now)
<1>1. /\ Types /\ Phase(t) = "call" /\ t \in scenario.users
      /\ IF hit THEN delays' = delays ELSE NewDelay(K(t))
      /\ UNCHANGED <<scenario, cache, older>>
  BY AtWork DEF MemoInv, Look
<1>2. JobOk(job[t]) /\ job[t].op = "call" /\ K(t) \in Key
  <2>1. JobOk(job[t]) BY <1>1, Active
  <2>2. QED BY <2>1, <1>1 DEF JobOk, K, Phase, PhasesOf, SwapOps
<1>3. CASE \E c \in next : Become(t, Makes(job[t], "store", c))
  <2>1. PICK c \in next : Become(t, Makes(job[t], "store", c)) BY <1>3
  <2> DEFINE r == Makes(job[t], "store", c)
  <2>2. r.phase = "store" /\ r.new = c /\ r.op = "call" /\ r.key = K(t)
    <3>1. Same(r, job[t]) /\ r.phase = "store" /\ r.new = c BY <1>2, JobMakes DEF JobOk
    <3> HIDE DEF r
    <3>2. QED BY <3>1, <1>2 DEF Same, K
  <2>3. Elsewhere(t) /\ job'[t] = r BY <1>1, <2>1, Becomes
  <2> HIDE DEF r
  <2>4. Aims => Serves(r)
    <3>1. SUFFICES ASSUME Aims
                   PROVE  Gone(cache, c, older) /\ Aged(c, After(cache, c, older, {K(t)}))
      BY <2>2 DEF Serves, Leaves
    <3>2. /\ Sound(cache, now) /\ cache.policy \in {"fifo", "lru"} /\ Aged(cache, older)
      BY <3>1, AimsCovered
    <3>3. CASE hit
      <4>1. c \in Hits(cache, K(t)) BY <3>3
      <4>2. QED BY <4>1, <3>2, <1>2, HitsAge
    <3>4. CASE ~hit
      <4>1. c \in Misses(cache, K(t), Fresh, now) BY <3>4
      <4>2. cache.policy = "fifo" => K(t) \notin Keys(cache.map) BY <3>4 DEF Has
      <4>3. Fresh \in Nat BY <3>4, <1>1, <1>2, NewDelayEffect
      <4>4. QED BY <4>1, <4>2, <4>3, <3>2, <1>2, MissesAge
    <3>5. QED BY <3>3, <3>4
  <2>5. QED BY <1>1, <2>3, <2>4, AgeStays
<1>4. CASE Finish(t)
  <2>1. Elsewhere(t) /\ job'[t] = Idle /\ Idle.phase = "idle" BY <1>1, <1>4, Finishes
  <2>2. QED BY <2>1, <1>1, AgeStays
<1>5. QED BY <1>3, <1>4 DEF Look, Makes

(* It is the cache it made last that goes into the Atom.                      *)
LEMMA StoredAge ==
  ASSUME MemoInv, AgeInv, NEW t \in Thread, Stored(t)
  PROVE  AgeInv' /\ Fair
<1> DEFINE c == job[t].new
<1>1. /\ Types /\ Phase(t) = "store" /\ scenario' = scenario /\ Store(c, {K(t)})
      /\ cache' = c /\ older' = After(cache, c, older, {K(t)})
  BY StoreAges DEF MemoInv, Stored
<1>2. JobOk(job[t]) /\ IsJob(job[t]) /\ job[t].op = "call"
  <2>1. JobOk(job[t]) /\ job[t].op \in Ops BY <1>1, Active
  <2>2. QED BY <2>1, <1>1 DEF JobOk, Phase, PhasesOf, Ops, MemoOps, SwapOps, LockOps
<1>3. Elsewhere(t) /\ job'[t].phase \in {"idle", "deref", "call"}
  <2>1. CASE Finish(t) BY <2>1, <1>1, Finishes
  <2>2. CASE \E d \in Cached(c, K(t)) : Become(t, Finds(job[t], "deref", d, Unset))
    <3>1. PICK d \in Cached(c, K(t)) : Become(t, Finds(job[t], "deref", d, Unset)) BY <2>2
    <3>2. Finds(job[t], "deref", d, Unset).phase = "deref" BY <1>2, JobFinds
    <3>3. QED BY <3>1, <3>2, <1>1, Becomes
  <2>3. CASE Become(t, Goes(job[t], "call"))
    <3>1. Goes(job[t], "call").phase = "call" BY <1>2, JobGoes
    <3>2. QED BY <2>3, <3>1, <1>1, Becomes
  <2>4. QED BY <2>1, <2>2, <2>3 DEF Stored, Goto, Goes, Finds
<1>4. Aims => Gone(cache, cache', older) /\ Aged(cache', older')
  BY <1>1, <1>2 DEF AgeInv, Making, Serves, Leaves, K
<1>5. QED BY <1>1, <1>3, <1>4, AgeWrites DEF Writing

(* Delays do not touch the cache.                                            *)
LEMMA DelayAge ==
  ASSUME MemoInv, AgeInv, NEW t \in Thread, Deref(t) \/ Ran(t)
  PROVE  AgeInv' /\ Fair
<1>1. /\ Types /\ Phase(t) \in {"deref", "running"} /\ t \in scenario.users
      /\ UNCHANGED <<scenario, cache, older>>
  BY AtWork DEF MemoInv, Deref, Ran, Keep
<1>2. CASE Finish(t)
  <2>1. Elsewhere(t) /\ job'[t] = Idle /\ Idle.phase = "idle" BY <1>1, <1>2, Finishes
  <2>2. QED BY <2>1, <1>1, AgeStays
<1>3. CASE Goto(t, "running")
  <2>1. IsJob(job[t]) BY <1>1, Active DEF JobOk
  <2>2. Goes(job[t], "running").phase = "running" BY <2>1, JobGoes
  <2>3. Elsewhere(t) /\ job'[t] = Goes(job[t], "running") BY <1>1, <1>3, Becomes DEF Goto, Goes
  <2>4. QED BY <2>2, <2>3, <1>1, AgeStays
<1>4. QED BY <1>2, <1>3 DEF Deref, Ran

(* memo-clear!, memo-reset! and the eviction make a cache.                    *)
LEMMA PrepareAge ==
  ASSUME MemoInv, AgeInv, NEW t \in Thread, Prepare(t)
  PROVE  AgeInv' /\ Fair
<1> DEFINE made == CASE Phase(t) = "clear" -> Seeds(cache, NoEntries, now)
                     [] Phase(t) = "reset" -> Seeds(cache, Only(K(t)), now)
                     [] Phase(t) = "evict" -> {Evicts(cache, K(t))}
<1>1. /\ Types /\ Phase(t) \in {"clear", "evict", "reset"} /\ t \in scenario.users
      /\ UNCHANGED <<scenario, cache, older>>
  BY AtWork DEF MemoInv, Prepare, Keep
<1>2. PICK c \in made : Become(t, Makes(job[t], "replace", c)) BY DEF Prepare, Makes
<1> DEFINE r == Makes(job[t], "replace", c)
<1>3. JobOk(job[t]) /\ job[t].op = Phase(t) /\ K(t) \in Key
  <2>1. JobOk(job[t]) /\ job[t].op \in Ops BY <1>1, Active
  <2>2. QED BY <2>1, <1>1 DEF JobOk, Phase, PhasesOf, Ops, MemoOps, SwapOps, LockOps, K
<1>4. r.phase = "replace" /\ r.new = c /\ r.op = Phase(t)
  <2>1. Same(r, job[t]) /\ r.phase = "replace" /\ r.new = c BY <1>3, JobMakes DEF JobOk
  <2> HIDE DEF r
  <2>2. QED BY <2>1, <1>3 DEF Same
<1>5. Elsewhere(t) /\ job'[t] = r BY <1>1, <1>2, Becomes
<1> HIDE DEF r
<1>6. Aims => Serves(r)
  <2>1. SUFFICES ASSUME Aims PROVE Serves(r) OBVIOUS
  <2>2. /\ Sound(cache, now) /\ Seedable(cache, now) /\ cache.policy \in {"fifo", "lru"}
        /\ Aged(cache, older)
    BY <2>1, AimsCovered
  <2>3. CASE Phase(t) = "clear"
    <3>1. c \in Seeds(cache, NoEntries, now) BY <2>3, <1>2
    <3>2. Gone(cache, c, older) /\ Aged(c, {}) BY <3>1, <2>2, SeedMaps, SeedsAge
    <3>3. QED BY <3>2, <2>3, <1>4 DEF Serves, Leaves
  <2>4. CASE Phase(t) = "reset"
    <3>1. c \in Seeds(cache, Only(K(t)), now) BY <2>4, <1>2
    <3>2. Gone(cache, c, older) /\ Aged(c, {}) BY <3>1, <2>2, <1>3, SeedMaps, SeedsAge
    <3>3. QED BY <3>2, <2>4, <1>4 DEF Serves, Leaves
  <2>5. CASE Phase(t) = "evict"
    <3>1. c \in {Evicts(cache, K(t))} BY <2>5, <1>2
    <3>2. Gone(cache, c, older) /\ Aged(c, After(cache, c, older, {}))
      BY <3>1, <2>2, <1>3, EvictsAge
    <3>3. QED BY <3>2, <2>5, <1>4 DEF Serves, Leaves
  <2>6. QED BY <2>3, <2>4, <2>5, <1>1
<1>7. QED BY <1>1, <1>5, <1>6, AgeStays

(* They put it into the Atom.                                                *)
LEMMA ReplaceAge ==
  ASSUME MemoInv, AgeInv, NEW t \in Thread, Replace(t)
  PROVE  AgeInv' /\ Fair
<1> DEFINE c == job[t].new
<1>1. /\ Types /\ Phase(t) = "replace" /\ scenario' = scenario /\ Finish(t)
      /\ IF job[t].op = "evict" THEN Store(c, {}) ELSE Reseed(c)
  BY DEF MemoInv, Replace
<1>2. job[t].op \in {"clear", "reset", "evict"}
  <2>1. JobOk(job[t]) /\ job[t].op \in Ops BY <1>1, Active
  <2>2. QED BY <2>1, <1>1 DEF JobOk, Phase, PhasesOf, Ops, MemoOps, SwapOps, LockOps
<1>3. cache' = c /\ older' = Leaves(job[t])
  <2>1. CASE job[t].op = "evict" BY <2>1, <1>1, StoreAges DEF Leaves
  <2>2. CASE job[t].op # "evict" BY <2>2, <1>1, <1>2 DEF Leaves, Reseed
  <2>3. QED BY <2>1, <2>2
<1>4. Aims => Gone(cache, cache', older) /\ Aged(cache', older')
  BY <1>1, <1>3 DEF AgeInv, Making, Serves
<1>5. Elsewhere(t) /\ job'[t] = Idle /\ Idle.phase = "idle" BY <1>1, Finishes
<1>6. QED BY <1>1, <1>4, <1>5, AgeWrites DEF Writing

(* memo-swap! puts a value, into a cache that is not a FIFO one.              *)
LEMMA MemoSwapAge ==
  ASSUME MemoInv, AgeInv, NEW t \in Thread, MemoSwap(t)
  PROVE  AgeInv' /\ Fair
<1>1. /\ Types /\ Phase(t) = "swap" /\ scenario' = scenario /\ Finish(t)
      /\ \E c \in Misses(cache, K(t), 0, now) : Store(c, {K(t)})
  BY DEF MemoInv, MemoSwap
<1>2. K(t) \in Key /\ "swap" \in scenario.ops
  <2>1. JobOk(job[t]) /\ job[t].op \in Ops BY <1>1, Active
  <2>2. QED BY <2>1, <1>1 DEF JobOk, Phase, PhasesOf, Ops, MemoOps, SwapOps, LockOps, K
<1>3. ASSUME Aims PROVE Gone(cache, cache', older) /\ Aged(cache', older')
  <2>1. PICK c \in Misses(cache, K(t), 0, now) : Store(c, {K(t)}) BY <1>1
  <2>2. cache' = c /\ older' = After(cache, c, older, {K(t)}) BY <2>1, StoreAges
  <2>3. /\ Sound(cache, now) /\ cache.policy \in {"fifo", "lru"} /\ Aged(cache, older)
        /\ cache.policy # "fifo"
    BY <1>2, <1>3, AimsCovered
  <2>4. QED BY <2>1, <2>2, <2>3, <1>2, MissesAge
<1>4. Elsewhere(t) /\ job'[t] = Idle /\ Idle.phase = "idle" BY <1>1, Finishes
<1>5. QED BY <1>1, <1>3, <1>4, AgeWrites DEF Writing

(* The swap of a wrapped cache makes a cache.                                 *)
LEMMA SwapReadAge ==
  ASSUME MemoInv, AgeInv, NEW t \in Thread, SwapRead(t)
  PROVE  AgeInv' /\ Fair
<1> DEFINE next == CASE Phase(t) = "hit!"   -> Hits(cache, K(t))
                     [] Phase(t) = "miss!"  -> Misses(cache, K(t), 0, now)
                     [] Phase(t) = "evict!" -> {Evicts(cache, K(t))}
                     [] Phase(t) = "seed!"  -> Seeds(cache, Only(K(t)), now)
<1>1. /\ Types /\ Phase(t) \in SwapOps /\ t \in scenario.users
      /\ UNCHANGED <<scenario, cache, older>>
  BY AtWork DEF MemoInv, SwapRead, Keep, SwapOps
<1>2. CASE Finish(t)
  <2>1. Elsewhere(t) /\ job'[t] = Idle /\ Idle.phase = "idle" BY <1>1, <1>2, Finishes
  <2>2. QED BY <2>1, <1>1, AgeStays
<1>3. CASE \E c \in next : Become(t, Reads(job[t], "cas", cache.map, c))
  <2>1. PICK c \in next : Become(t, Reads(job[t], "cas", cache.map, c)) BY <1>3
  <2> DEFINE r == Reads(job[t], "cas", cache.map, c)
  <2>2. JobOk(job[t]) /\ job[t].op = Phase(t) /\ job[t].op \in scenario.ops /\ K(t) \in Key
    <3>1. JobOk(job[t]) /\ job[t].op \in Ops BY <1>1, Active DEF SwapOps
    <3>2. QED BY <3>1, <1>1 DEF JobOk, Phase, PhasesOf, Ops, MemoOps, SwapOps, LockOps, K
  <2>3. r.phase = "cas" /\ r.new = c /\ r.op = Phase(t) /\ r.key = K(t)
    <3>1. Same(r, job[t]) /\ r.phase = "cas" /\ r.new = c BY <2>2, JobReads DEF JobOk
    <3> HIDE DEF r
    <3>2. QED BY <3>1, <2>2 DEF Same, K
  <2>4. Elsewhere(t) /\ job'[t] = r BY <1>1, <2>1, Becomes
  <2> HIDE DEF r
  <2>5. Aims => Serves(r)
    <3>1. SUFFICES ASSUME Aims PROVE Serves(r) OBVIOUS
    <3>2. /\ Sound(cache, now) /\ Seedable(cache, now) /\ cache.policy \in {"fifo", "lru"}
          /\ Aged(cache, older)
          /\ cache.policy = "fifo" => scenario.ops \cap {"miss!", "swap"} = {}
      BY <3>1, AimsCovered
    <3>3. CASE Phase(t) = "hit!"
      <4>1. c \in Hits(cache, K(t)) BY <3>3, <2>1
      <4>2. Gone(cache, c, older) /\ Aged(c, After(cache, c, older, {K(t)}))
        BY <4>1, <3>2, <2>2, HitsAge
      <4>3. QED BY <4>2, <3>3, <2>3 DEF Serves, Leaves
    <3>4. CASE Phase(t) = "miss!"
      <4>1. c \in Misses(cache, K(t), 0, now) BY <3>4, <2>1
      <4>2. cache.policy # "fifo" BY <3>2, <3>4, <2>2
      <4>3. Gone(cache, c, older) /\ Aged(c, After(cache, c, older, {K(t)}))
        BY <4>1, <4>2, <3>2, <2>2, MissesAge
      <4>4. QED BY <4>3, <3>4, <2>3 DEF Serves, Leaves
    <3>5. CASE Phase(t) = "evict!"
      <4>1. c \in {Evicts(cache, K(t))} BY <3>5, <2>1
      <4>2. Gone(cache, c, older) /\ Aged(c, After(cache, c, older, {}))
        BY <4>1, <3>2, <2>2, EvictsAge
      <4>3. QED BY <4>2, <3>5, <2>3 DEF Serves, Leaves
    <3>6. CASE Phase(t) = "seed!"
      <4>1. c \in Seeds(cache, Only(K(t)), now) BY <3>6, <2>1
      <4>2. Gone(cache, c, older) /\ Aged(c, {}) BY <4>1, <3>2, <2>2, SeedMaps, SeedsAge
      <4>3. QED BY <4>2, <3>6, <2>3 DEF Serves, Leaves
    <3>7. QED BY <3>3, <3>4, <3>5, <3>6, <1>1 DEF SwapOps
  <2>6. QED BY <1>1, <2>4, <2>5, AgeStays
<1>4. QED BY <1>2, <1>3 DEF SwapRead, Reads

(* It stores it, or starts again.                                            *)
LEMMA CompareAndSetAge ==
  ASSUME MemoInv, AgeInv, NEW t \in Thread, CompareAndSet(t)
  PROVE  AgeInv' /\ Fair
<1> DEFINE c == job[t].new
<1>1. Types /\ Phase(t) = "cas" /\ t \in scenario.users /\ scenario' = scenario
  BY AtWork DEF MemoInv, CompareAndSet
<1>2. JobOk(job[t]) /\ job[t].op \in SwapOps
  <2>1. JobOk(job[t]) /\ job[t].op \in Ops BY <1>1, Active
  <2>2. QED BY <2>1, <1>1 DEF JobOk, Phase, PhasesOf, Ops, MemoOps, SwapOps, LockOps
<1>3. CASE cache.map # job[t].seen
  <2> DEFINE r == Goes(job[t], job[t].op)
  <2>1. UNCHANGED <<cache, older>> /\ Become(t, r)
    BY <1>3 DEF CompareAndSet, Keep, Goto, Goes
  <2>2. r.phase = job[t].op BY <1>2, JobGoes DEF JobOk
  <2>3. Elsewhere(t) /\ job'[t] = r BY <1>1, <2>1, Becomes
  <2> HIDE DEF r
  <2>4. r.phase \notin {"store", "replace", "cas"} BY <1>2, <2>2 DEF SwapOps
  <2>5. QED BY <1>1, <2>1, <2>3, <2>4, AgeStays
<1>4. CASE cache.map = job[t].seen
  <2>1. /\ Finish(t)
        /\ CASE job[t].op = "seed!"  -> Reseed(c)
             [] job[t].op = "evict!" -> Store(c, {})
             [] OTHER                -> Store(c, {K(t)})
    BY <1>4 DEF CompareAndSet
  <2>2. cache' = c /\ older' = Leaves(job[t])
    <3>1. CASE job[t].op = "seed!" BY <3>1, <2>1 DEF Leaves, Reseed
    <3>2. CASE job[t].op = "evict!"
      <4>1. Store(c, {}) BY <3>2, <2>1
      <4>2. QED BY <4>1, <3>2, StoreAges DEF Leaves
    <3>3. CASE job[t].op \in {"hit!", "miss!"}
      <4>1. Store(c, {K(t)}) BY <3>3, <2>1
      <4>2. QED BY <4>1, <3>3, StoreAges DEF Leaves, K
    <3>4. QED BY <3>1, <3>2, <3>3, <1>2 DEF SwapOps
  <2>3. Aims => Gone(cache, cache', older) /\ Aged(cache', older')
    BY <2>2, <1>1 DEF AgeInv, Making, Serves
  <2>4. Elsewhere(t) /\ job'[t] = Idle /\ Idle.phase = "idle" BY <2>1, <1>1, Finishes
  <2>5. QED BY <2>3, <2>4, <1>1, AgeWrites DEF Writing
<1>5. QED BY <1>3, <1>4

(* A wrapped lookup uses what is cached, or goes on to compute.               *)
LEMMA WrappedAge ==
  ASSUME MemoInv, AgeInv, NEW t \in Thread, Wrapped(t)
  PROVE  AgeInv' /\ Fair
<1> DEFINE hit == Has(cache, K(t), now)
<1>1. Types /\ Phase(t) \in LockOps /\ Phase(t) # "idle" /\ scenario' = scenario
  BY DEF MemoInv, Wrapped, LockOps
<1>2. JobOk(job[t]) /\ K(t) \in Key /\ t \in scenario.users
  <2>1. JobOk(job[t]) BY <1>1, Active
  <2>2. QED BY <2>1, <1>1, AtWork DEF JobOk, K
<1>3. CASE hit /\ Keep /\ Finish(t)
  <2>1. Elsewhere(t) /\ job'[t] = Idle /\ Idle.phase = "idle" BY <1>1, <1>3, Finishes
  <2>2. QED BY <2>1, <1>1, <1>3, AgeStays DEF Keep
<1>4. CASE hit /\ Finish(t) /\ \E c \in Hits(cache, K(t)) : Store(c, {K(t)})
  <2>1. PICK c \in Hits(cache, K(t)) : Store(c, {K(t)}) BY <1>4
  <2>2. cache' = c /\ older' = After(cache, c, older, {K(t)}) BY <2>1, StoreAges
  <2>3. Aims => Gone(cache, cache', older) /\ Aged(cache', older')
    <3>1. SUFFICES ASSUME Aims PROVE Gone(cache, c, older) /\ Aged(c, After(cache, c, older, {K(t)}))
      BY <2>2
    <3>2. /\ Sound(cache, now) /\ cache.policy \in {"fifo", "lru"} /\ Aged(cache, older)
      BY <3>1, AimsCovered
    <3>3. QED BY <3>2, <2>1, <1>2, HitsAge
  <2>4. Elsewhere(t) /\ job'[t] = Idle /\ Idle.phase = "idle" BY <1>1, <1>4, Finishes
  <2>5. QED BY <2>3, <2>4, <1>1, AgeWrites DEF Writing
<1>5. CASE ~hit
  <2> DEFINE r == Takes(job[t], "computing", Fresh)
  <2>1. UNCHANGED <<cache, older>> /\ Become(t, r) BY <1>5 DEF Wrapped, Keep, Takes
  <2>2. r.phase = "computing" BY <1>2, JobTakes DEF JobOk
  <2>3. Elsewhere(t) /\ job'[t] = r BY <1>1, <2>1, Becomes
  <2> HIDE DEF r
  <2>4. QED BY <2>1, <2>2, <2>3, <1>1, <1>2, AgeStays
<1>6. QED BY <1>3, <1>4, <1>5 DEF Wrapped

(* What it computed is stored: the key is still not there.                    *)
LEMMA ComputedAge ==
  ASSUME MemoInv, AgeInv, NEW t \in Thread, Computed(t)
  PROVE  AgeInv' /\ Fair
<1> DEFINE d == job[t].delay
<1>1. Types /\ Kept /\ Phase(t) = "computing" /\ scenario' = scenario /\ Finish(t)
  BY DEF MemoInv, Computed
<1>2. K(t) \in Key /\ d \in Nat /\ t \in scenario.users
  <2>1. JobOk(job[t]) BY <1>1, Active
  <2>2. QED BY <2>1, <1>1, AtWork DEF JobOk, K, Phase
<1>3. Elsewhere(t) /\ job'[t] = Idle /\ Idle.phase = "idle" BY <1>1, Finishes
<1>4. CASE Keep BY <1>1, <1>2, <1>3, <1>4, AgeStays DEF Keep
<1>5. CASE \E c \in Misses(cache, K(t), d, now) : Store(c, {K(t)})
  <2>1. PICK c \in Misses(cache, K(t), d, now) : Store(c, {K(t)}) BY <1>5
  <2>2. cache' = c /\ older' = After(cache, c, older, {K(t)}) BY <2>1, StoreAges
  <2>3. Aims => Gone(cache, cache', older) /\ Aged(cache', older')
    <3>1. SUFFICES ASSUME Aims PROVE Gone(cache, c, older) /\ Aged(c, After(cache, c, older, {K(t)}))
      BY <2>2
    <3>2. /\ Covered /\ Sound(cache, now) /\ cache.policy = scenario.policy
          /\ cache.policy \in {"fifo", "lru"} /\ Aged(cache, older)
      BY <3>1, AimsCovered
    <3>3. K(t) \notin Keys(cache.map) BY <3>2, <1>1 DEF Kept
    <3>4. QED BY <3>2, <3>3, <2>1, <1>2, MissesAge
  <2>4. QED BY <2>3, <1>1, <1>3, AgeWrites DEF Writing
<1>6. QED BY <1>4, <1>5 DEF Computed

(* The record agrees with the cache at first.                                 *)
LEMMA InitAge ==
  ASSUME Init
  PROVE  AgeInv
<1>1. /\ scenario \in Scenario /\ scenario.policy \in Policy /\ scenario.limit \in Limit
      /\ scenario.keys \subseteq Key /\ older = {}
      /\ job = [t \in Thread |-> Idle]
  BY MemoAssumption DEF Init, Limit
<1>2. \A t \in Thread : job[t] = Idle /\ Phase(t) = "idle" BY <1>1 DEF Phase, Idle
<1>3. ASSUME Aims PROVE Aged(cache, older)
  <2>1. PICK b \in Bases : cache \in Seeds(Bare(scenario.policy, scenario.limit), b, 0)
    BY DEF Init
  <2>2. b \in Base BY <1>1, SeedMaps DEF Bases
  <2>3. /\ Seedable(Bare(scenario.policy, scenario.limit), 0)
        /\ Bare(scenario.policy, scenario.limit).policy \in {"fifo", "lru"}
    BY <1>1, <1>3, BareSeedable DEF Aims
  <2>4. QED BY <2>1, <2>2, <2>3, <1>1, SeedsAge
<1>4. QED BY <1>2, <1>3 DEF AgeInv, Making

(* Every step keeps it, and gives up what is oldest.                          *)
LEMMA NextAge ==
  ASSUME MemoInv, AgeInv, [Next]_vars
  PROVE  AgeInv' /\ Fair
<1>1. CASE \E t \in Thread, op \in Ops, k \in Key : Begin(t, op, k) BY <1>1, BeginAge
<1>2. CASE \E t \in Thread : Step(t)
  <2>1. PICK t \in Thread : Step(t) BY <1>2
  <2>2. CASE Look(t) BY <2>2, LookAge
  <2>3. CASE Stored(t) BY <2>3, StoredAge
  <2>4. CASE Deref(t) \/ Ran(t) BY <2>4, DelayAge
  <2>5. CASE Prepare(t) BY <2>5, PrepareAge
  <2>6. CASE Replace(t) BY <2>6, ReplaceAge
  <2>7. CASE MemoSwap(t) BY <2>7, MemoSwapAge
  <2>8. CASE SwapRead(t) BY <2>8, SwapReadAge
  <2>9. CASE CompareAndSet(t) BY <2>9, CompareAndSetAge
  <2>10. CASE Wrapped(t) BY <2>10, WrappedAge
  <2>11. CASE Computed(t) BY <2>11, ComputedAge
  <2>12. QED BY <2>1, <2>2, <2>3, <2>4, <2>5, <2>6, <2>7, <2>8, <2>9, <2>10, <2>11 DEF Step
<1>3. CASE Tick \/ UNCHANGED vars
  <2>1. UNCHANGED <<scenario, cache, older, job>> BY <1>3 DEF Tick, vars
  <2>2. QED BY <2>1, IdleAge
<1>4. QED BY <1>1, <1>2, <1>3 DEF Next

(* A full FIFO cache gives up the key it took in first and a full LRU cache    *)
(* the one used least recently (VictimIsOldest), while no thread stores a      *)
(* cache made of one that was replaced since.                                *)
THEOREM OldestGoes == Spec => VictimIsOldest
<1>1. Init => MemoInv /\ AgeInv BY InitInv, InitAge
<1>2. MemoInv /\ AgeInv /\ [Next]_vars => MemoInv' /\ AgeInv' /\ Fair BY NextInv, NextAge
<1>3. Fair => (scenario.policy \in {"fifo", "lru"} /\ Exact => OldestGo(cache, cache'))
  BY DEF Fair, Aims, Gone, OldestGo
<1>4. QED BY <1>1, <1>2, <1>3, PTL DEF Spec, VictimIsOldest
=============================================================================
