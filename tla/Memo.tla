--------------------------------- MODULE Memo ---------------------------------
(***************************************************************************)
(* Threads that share an Atom holding a cache: through a memoized function   *)
(* (core_memoize.py), which caches delays, or through the wrapped caches of   *)
(* basilisp.core.cache.wrapped.  A delay stands for the value it computes.   *)
(***************************************************************************)
EXTENDS Caches

CONSTANTS Thread, Nobody,
          Scenario,  \* [policy, limit, keys, users, ops, calls]
          MaxTime    \* bound on the clock

MemoOps == {"call", "clear", "evict", "reset", "swap"}
SwapOps == {"hit!", "miss!", "evict!", "seed!"}
LockOps == {"lookup-or-miss", "through"}
Ops     == MemoOps \cup SwapOps \cup LockOps

(* A threshold is positive: the constructors refuse any other.               *)
ASSUME MemoAssumption ==
  /\ Nobody \notin Thread /\ MaxTime \in Nat
  /\ Scenario \subseteq [policy : Policy, limit : Nat \ {0}, keys : SUBSET Key,
                         users : SUBSET Thread, ops : SUBSET Ops, calls : Nat]

VARIABLES
  scenario,  \* the scenario being played
  cache, now,
  fnLock,    \* MemoizedFunction._lock
  atomLock,  \* Atom._lock, while a computation runs under it
  delays,    \* every delay made: [key, done, by]
  job,       \* what each thread is doing: [phase, op, key, seen, new, delay]
  calls,     \* bound: operations begun
  older      \* history: pairs of cached keys, the first stored or used before the second

vars == <<scenario, cache, now, fnLock, atomLock, delays, job, calls, older>>

Idle  == [phase |-> "idle"]
Unset == Bare("basic", 0)
Bases == {NoEntries} \cup {Only(k) : k \in scenario.keys}

Init ==
  /\ scenario \in Scenario
  /\ \E base \in Bases : cache \in Seeds(Bare(scenario.policy, scenario.limit), base, 0)
  /\ now = 0 /\ calls = 0
  /\ fnLock = Nobody /\ atomLock = Nobody
  /\ delays = <<>> /\ older = {}
  /\ job = [t \in Thread |-> Idle]

Phase(t)   == job[t].phase
K(t)       == job[t].key
Become(t, j) == job' = [job EXCEPT ![t] = j]
Goto(t, phase) == Become(t, [job[t] EXCEPT !.phase = phase])
Finish(t)  == Become(t, Idle)
FnUnguarded == TRUE
FnFree   == fnLock = Nobody
AtomFree(t) == atomLock \in {Nobody, t}

(* A delay stands for the value it computes; 0 for one the program supplies. *)
Fresh    == Len(delays) + 1
NewDelay(k) == delays' = Append(delays, [key |-> k, done |-> FALSE, by |-> Nobody])
Cached(c, k) == IF Has(c, k, now) THEN {c.map[k]} ELSE {}

(* The Atom is given the cache c, in which the keys of ks were stored or used; *)
(* a FIFO cache counts the time a key came in, the others that of its last use. *)
Renewed(c, ks) == {k \in ks : c.policy = "fifo" => k \notin Keys(cache.map)}
OlderIn(c, ks) ==
  {p \in Keys(c.map) \X Keys(c.map) :
     p[1] \notin Renewed(c, ks) /\ (p[2] \in Renewed(c, ks) \/ p \in older)}
Store(c, ks) == cache' = c /\ older' = OlderIn(c, ks)
Reseed(c)    == cache' = c /\ older' = {}
Keep         == UNCHANGED <<cache, older>>

Begin(t, op, k) ==
  /\ Phase(t) = "idle" /\ t \in scenario.users /\ op \in scenario.ops /\ k \in scenario.keys
  /\ calls < scenario.calls /\ calls' = calls + 1
  /\ Become(t, [phase |-> op, op |-> op, key |-> k, seen |-> NoEntries, new |-> Unset, delay |-> 0])
  /\ UNCHANGED <<scenario, cache, now, fnLock, atomLock, delays, older>>

(***************************************************************************)
(* A call of the memoized function.                                         *)
(***************************************************************************)

(* Under its lock the function looks at the cache and makes the next one; an *)
(* exception of the cache ends the call.                                     *)
Look(t) ==
  LET hit  == Has(cache, K(t), now)
      next == IF hit THEN Hits(cache, K(t)) ELSE Misses(cache, K(t), Fresh, now)
  IN  /\ Phase(t) = "call" /\ FnFree /\ AtomFree(t)
      /\ IF hit THEN UNCHANGED delays ELSE NewDelay(K(t))
      /\ \/ \E c \in next : Become(t, [job[t] EXCEPT !.phase = "store", !.new = c]) /\ fnLock' = t
         \/ next = {} /\ Finish(t) /\ UNCHANGED fnLock
      /\ UNCHANGED <<scenario, cache, now, atomLock, calls, older>>

(* It stores the new cache and looks the key up in it; when the entry has    *)
(* expired meanwhile it starts again.                                        *)
Stored(t) ==
  LET c == job[t].new
  IN  /\ Phase(t) = "store" /\ AtomFree(t)
      /\ Store(c, {K(t)})
      /\ fnLock' = Nobody
      /\ \/ \E d \in Cached(c, K(t)) :
              IF d = 0 THEN Finish(t)
              ELSE Become(t, [job[t] EXCEPT !.phase = "deref", !.delay = d, !.new = Unset])
         \/ Cached(c, K(t)) = {} /\ Goto(t, "call")
      /\ UNCHANGED <<scenario, now, atomLock, delays, calls>>

(* RetryingDelay.deref, outside the function's lock.                         *)
Deref(t) ==
  LET d == job[t].delay
  IN  /\ Phase(t) = "deref"
      /\ \/ delays[d].done /\ Finish(t) /\ UNCHANGED delays
         \/ /\ ~delays[d].done /\ delays[d].by = Nobody
            /\ delays' = [delays EXCEPT ![d].by = t]
            /\ Goto(t, "running")
      /\ Keep /\ UNCHANGED <<scenario, now, fnLock, atomLock, calls>>

(* The function returns, or raises and leaves the delay to be tried again.   *)
RanHoldingOn(t) ==
  /\ Phase(t) = "running"
  /\ \E ok \in BOOLEAN :
       delays' = [delays EXCEPT ![job[t].delay].by = IF ok THEN Nobody ELSE t,
                                ![job[t].delay].done = ok]
  /\ Finish(t)
  /\ Keep /\ UNCHANGED <<scenario, now, fnLock, atomLock, calls>>
Ran(t) ==
  /\ Phase(t) = "running"
  /\ \E ok \in BOOLEAN :
       delays' = [delays EXCEPT ![job[t].delay].by = Nobody, ![job[t].delay].done = ok]
  /\ Finish(t)
  /\ Keep /\ UNCHANGED <<scenario, now, fnLock, atomLock, calls>>

(* memo-clear!, memo-clear! of one key and memo-reset! read, then reset.      *)
Prepare(t) ==
  /\ Phase(t) \in {"clear", "evict", "reset"} /\ AtomFree(t)
  /\ \E c \in CASE Phase(t) = "clear" -> Seeds(cache, NoEntries, now)
                [] Phase(t) = "reset" -> Seeds(cache, Only(K(t)), now)
                [] Phase(t) = "evict" -> {Evicts(cache, K(t))} :
       Become(t, [job[t] EXCEPT !.phase = "replace", !.new = c])
  /\ Keep /\ UNCHANGED <<scenario, now, fnLock, atomLock, delays, calls>>

Replace(t) ==
  /\ Phase(t) = "replace" /\ AtomFree(t)
  /\ IF job[t].op = "evict" THEN Store(job[t].new, {}) ELSE Reseed(job[t].new)
  /\ Finish(t)
  /\ UNCHANGED <<scenario, now, fnLock, atomLock, delays, calls>>

(* memo-swap! with a function that puts a value: its swap compares objects,  *)
(* so no other write comes in between.                                       *)
MemoSwap(t) ==
  /\ Phase(t) = "swap" /\ AtomFree(t)
  /\ \E c \in Misses(cache, K(t), 0, now) : Store(c, {K(t)})
  /\ Finish(t)
  /\ UNCHANGED <<scenario, now, fnLock, atomLock, delays, calls>>

(***************************************************************************)
(* The wrapped caches.                                                      *)
(***************************************************************************)

(* Atom.swap reads, applies the operation, which may raise, and stores if    *)
(* the Atom still holds an equal map: what a policy keeps beside the map is  *)
(* not compared.                                                             *)
SwapRead(t) ==
  LET next == CASE Phase(t) = "hit!"   -> Hits(cache, K(t))
                [] Phase(t) = "miss!"  -> Misses(cache, K(t), 0, now)
                [] Phase(t) = "evict!" -> {Evicts(cache, K(t))}
                [] Phase(t) = "seed!"  -> Seeds(cache, Only(K(t)), now)
  IN  /\ Phase(t) \in SwapOps
      /\ \/ \E c \in next :
              Become(t, [job[t] EXCEPT !.phase = "cas", !.seen = cache.map, !.new = c])
         \/ next = {} /\ Finish(t)
      /\ Keep /\ UNCHANGED <<scenario, now, fnLock, atomLock, delays, calls>>

CompareAndSet(t) ==
  /\ Phase(t) = "cas" /\ AtomFree(t)
  /\ IF cache.map # job[t].seen THEN Keep /\ Goto(t, job[t].op)
     ELSE /\ CASE job[t].op = "seed!"  -> Reseed(job[t].new)
               [] job[t].op = "evict!" -> Store(job[t].new, {})
               [] OTHER                -> Store(job[t].new, {K(t)})
          /\ Finish(t)
  /\ UNCHANGED <<scenario, now, fnLock, atomLock, delays, calls>>

(* lookup-or-miss and through: a miss computes the value under the Atom's    *)
(* lock, and an exception leaves the cache as it was.                        *)
Wrapped(t) ==
  /\ Phase(t) \in LockOps /\ atomLock = Nobody
  /\ IF Has(cache, K(t), now)
     THEN /\ IF Phase(t) = "through" THEN \E c \in Hits(cache, K(t)) : Store(c, {K(t)}) ELSE Keep
          /\ Finish(t) /\ UNCHANGED <<atomLock, delays>>
     ELSE /\ Keep /\ atomLock' = t /\ NewDelay(K(t))
          /\ Become(t, [job[t] EXCEPT !.phase = "computing", !.delay = Fresh])
  /\ UNCHANGED <<scenario, now, fnLock, calls>>

Computed(t) ==
  /\ Phase(t) = "computing"
  /\ \/ /\ \E c \in Misses(cache, K(t), job[t].delay, now) : Store(c, {K(t)})
        /\ delays' = [delays EXCEPT ![job[t].delay].done = TRUE]
     \/ Keep /\ UNCHANGED delays
  /\ atomLock' = Nobody /\ Finish(t)
  /\ UNCHANGED <<scenario, now, fnLock, calls>>

(* The clock moves on, for the policy that looks at it.                      *)
Tick ==
  /\ cache.policy = "ttl" /\ now < MaxTime /\ now' = now + 1
  /\ UNCHANGED <<scenario, cache, fnLock, atomLock, delays, job, calls, older>>

Step(t) ==
  \/ Look(t) \/ Stored(t) \/ Deref(t) \/ Ran(t) \/ Prepare(t) \/ Replace(t)
  \/ MemoSwap(t) \/ SwapRead(t) \/ CompareAndSet(t) \/ Wrapped(t) \/ Computed(t)

Next ==
  \/ \E t \in Thread, op \in Ops, k \in Key : Begin(t, op, k)
  \/ \E t \in Thread : Step(t)
  \/ Tick

Spec     == Init /\ [][Next]_vars
FairSpec == Spec /\ \A t \in Thread : WF_vars(Step(t))
=============================================================================
