--------------------------- MODULE KconfigCachesMC ---------------------------
(***************************************************************************)
(* The configurations of KconfigValues as KconfigCaches sees them.         *)
(***************************************************************************)
EXTENDS KconfigTables, KconfigCaches

LOCAL Ext == INSTANCE SequencesExt

\* The values that may be cached: nothing but clients reads what is assignable.
Seen == {n \in Values : n[2] = "assignable" => n \in Readable}

NodesOf(items, attrs) ==
  Ext!FoldLeft(LAMBDA s, i : s \o [a \in DOMAIN attrs |-> <<i, attrs[a]>>], <<>>, items)

\* The values, in an order in which few are calculated before those that they
\* are calculated from.
FillOrder ==
  NodesOf(SelectSeq(defs.order, LAMBDA i : i \in Syms /\ ~InChoice(i)), <<"vis", "tri", "str">>)
  \o NodesOf(SelectSeq(defs.order, LAMBDA i : i \in Choices), <<"vis">>)
  \o NodesOf(SelectSeq(defs.order, InChoice), <<"vis">>)
  \o NodesOf(SelectSeq(defs.order, LAMBDA i : i \in Choices), <<"selection">>)
  \o NodesOf(SelectSeq(defs.order, InChoice), <<"tri", "str">>)
  \o NodesOf(SelectSeq(defs.order, LAMBDA i : <<i, "assignable">> \in Seen), <<"assignable">>)

\* k with all values cached.
Filled(k) ==
  Ext!FoldLeft(LAMBDA j, n : Only({[i EXCEPT !.cache[n[1]][n[2]] = <<Value(i, n[1], n[2])>>] : i \in {j}}),
               k, FillOrder)

\* The value that _write_to_conf is calculated with.
CarriesWrite(n) == n[1] \in Syms /\ n[2] = IF OrigType(n[1]) \in BoolTri THEN "tri" ELSE "str"

ValueOf(k, n) ==
  IF CarriesWrite(n) THEN <<Hit(k, n[1], n[2]), WriteToConf(k, n[1])>> ELSE Hit(k, n[1], n[2])
CachedOf(k, n) ==
  IF CarriesWrite(n) THEN <<Hit(k, n[1], n[2]), k.write_to_conf[n[1]]>> ELSE Hit(k, n[1], n[2])

RECURSIVE DepthOf(_, _)
DepthOf(calculations, n) == Highest({DepthOf(calculations, r) + 1 : r \in calculations[n].reads})

\* The configuration j with the values, and with the caches, of k.
CalcOf(j, k) == [n \in Nodes(j) |-> [val |-> ValueOf(k, n), reads |-> Reads(k, n[1], n[2])]] @@ <<>>
WithCalc(j, c) == [j EXCEPT !.calc = c, !.depth = [n \in DOMAIN c |-> DepthOf(c, n)] @@ <<>>]
Calculation(j, k) == Only({WithCalc(j, c) : c \in {CalcOf(j, f) : f \in {Filled(Fresh(k))}}})
CacheOf(j, k) == [n \in Nodes(j) |-> IF Cached(k, n[1], n[2]) THEN <<CachedOf(k, n)>> ELSE <<>>] @@ <<>>
WithCaches(j, k) == [j EXCEPT !.cache = CacheOf(j, k)]

NoItems == [deps |-> <<>>, modules |-> "", calc |-> <<>>, depth |-> <<>>, cache |-> <<>>]
Table == [NoItems EXCEPT !.deps = [i \in Items |-> DependsOn(i)] @@ <<>>, !.modules = defs.modules,
                         !.calc = [n \in Seen |-> <<>>] @@ <<>>]

\* What the values are depends on the user values alone.
UserValuesIn(k) == <<k.user_value, k.user_selection>>
ConfigAfter(k) ==
  WithCaches(IF UserValuesIn(k) = UserValuesIn(conf) THEN config ELSE Calculation(config, k), k)

CachesInit == Init /\ config = WithCaches(Calculation(Table, conf), conf)
CachesNext == Next /\ config' \in {ConfigAfter(k) : k \in {conf'}}
=============================================================================
