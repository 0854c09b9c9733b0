---------------------------- MODULE KconfigCaches ----------------------------
(***************************************************************************)
(* Why Symbol._rec_invalidate() and Choice._rec_invalidate() of            *)
(* src/common/lib/kconfiglib/kconfiglib.py may stop at items whose         *)
(* visibility is not cached.  What the values are and which of them the    *)
(* calculation of a value reads is open here; KconfigValues, which knows   *)
(* both, implements CacheSpec.                                             *)
(*                                                                         *)
(* A value is an <<item, attribute>>.  In a configuration k, k.calc[n] is  *)
(* what value n is and what its calculation reads, k.depth[n] is how deep  *)
(* that calculation goes, k.cache[n] is <<>> or the cached value in <<>>,  *)
(* k.deps[i] is what item i depends on.                                    *)
(***************************************************************************)
EXTENDS Naturals

VARIABLE config

Nodes(k) == DOMAIN k.calc
ItemsOf(k) == DOMAIN k.deps
Val(k, n) == k.calc[n].val
ReadBy(k, n) == k.calc[n].reads
IsCached(k, n) == k.cache[n] # <<>>
IsRight(k, n) == k.cache[n] = <<Val(k, n)>>

\* item._cached_vis is not None.
HasCaches(k, i) == IsCached(k, <<i, "vis">>)

\* A calculation ends, and what it reads of other items is a dependency or MODULES.
Grounded(k) ==
  /\ DOMAIN k.cache = Nodes(k)
  /\ \A n \in Nodes(k) :
       /\ n[1] \in ItemsOf(k) /\ <<n[1], "vis">> \in Nodes(k) /\ k.depth[n] \in Nat
       /\ \A r \in ReadBy(k, n) : /\ r \in Nodes(k) /\ k.depth[r] < k.depth[n]
                                  /\ r[1] \in {n[1], k.modules} \cup k.deps[n[1]]

SameItems(k, j) == j.deps = k.deps /\ j.modules = k.modules

\* Values are calculated, from cached ones, and cached; that of a constant
\* does without the visibility of its item.
Calculates(k, j) ==
  /\ SameItems(k, j) /\ j.calc = k.calc /\ j.depth = k.depth
  /\ \A n \in Nodes(k) : j.cache[n] # k.cache[n] =>
       /\ ~IsCached(k, n)
       /\ \A r \in ReadBy(k, n) : IsCached(j, r)
       /\ ReadBy(k, n) # {} => HasCaches(j, n[1])
       /\ (\A r \in ReadBy(k, n) : IsRight(j, r)) => IsRight(j, n)

\* The items in S are given user values or invalidated on account of others.
\* A value changes only with a user value of its item or with a value read for
\* it; in a choice, a symbol that has no caches may be given a user value
\* without being invalidated.
ReachesAll(k, S) ==
  IF k.modules \in S THEN S = ItemsOf(k)
  ELSE \A i \in ItemsOf(k) : HasCaches(k, i) /\ k.deps[i] \cap S # {} => i \in S
Invalidates(k, j, S) ==
  /\ ReachesAll(k, S)
  /\ SameItems(k, j) /\ Nodes(j) = Nodes(k)
  /\ j.cache = [n \in Nodes(k) |-> IF n[1] \in S THEN <<>> ELSE k.cache[n]]
  /\ \A n \in Nodes(k) : j.calc[n] # k.calc[n] =>
       \/ n[1] \in S
       \/ ~HasCaches(k, n[1]) /\ ReadBy(k, n) # {}
       \/ \E r \in ReadBy(k, n) : Val(j, r) # Val(k, r)

CacheStep(k, j) ==
  /\ Grounded(j)
  /\ Calculates(k, j) \/ \E S \in SUBSET ItemsOf(k) : Invalidates(k, j, S)

CacheInit == Grounded(config) /\ \A n \in Nodes(config) : ~IsCached(config, n)
CacheNext == \E k \in {config}, j \in {config'} : CacheStep(k, j)
CacheSpec == CacheInit /\ [][CacheNext]_config
-----------------------------------------------------------------------------
\* What is cached is what would be calculated.
CachesAreRight == \A n \in Nodes(config) : IsCached(config, n) => IsRight(config, n)

\* "If item._cached_vis is None, it means there can't be cached values on other
\* items that depend on 'item'" (kconfiglib.py:4875), for what was read of it.
FlagIsRight ==
  \A n \in Nodes(config) : IsCached(config, n) /\ ReadBy(config, n) # {} =>
    /\ HasCaches(config, n[1])
    /\ \A r \in ReadBy(config, n) :
         IsCached(config, r) /\ (ReadBy(config, r) # {} => HasCaches(config, r[1]))

\* No cache is stale, and the invalidation of what depends on a cached value will
\* find it.
CachesAreSound == CachesAreRight /\ FlagIsRight
=============================================================================
