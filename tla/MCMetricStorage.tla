--------------------------- MODULE MCMetricStorage ---------------------------
(***************************************************************************)
(* Hook a has bindings in both queues, hook b in one.  They share a metric *)
(* name, and group g; b also has a group of its own.                       *)
(***************************************************************************)
EXTENDS MetricStorage

TwoWorkers == {"main", "side"}
TwoHooks == [main |-> {"a"}, side |-> {"a", "b"}]
OnlyB == {"b"}

Op(group, name, action, value, labels) ==
    [group |-> group, name |-> name, action |-> action, value |-> value,
     add |-> Nil, set |-> Nil, labels |-> labels]
Kind(k) == [kind |-> k]
Plain == [n \in {} |-> ""]
AddOf(name, value) == [Op(Nil, name, Nil, Nil, Plain) EXCEPT !.add = value]
SetOf(name, value) == [Op(Nil, name, Nil, Nil, Plain) EXCEPT !.set = value]
Expire(g) == Op(g, Nil, "expire", Nil, Plain)

Files == [
    a |-> {<<Op("g", "count", "add", 3, Kind("pod")), Op("g", "count", "add", 2, Kind("pod")),
             Op("g", "count", "add", 2, Kind("job")), AddOf("common", 2)>>,
           <<Op("g", "count", "add", 2, Kind("pod")), Expire("g"),
             Op("g", "items", "set", 1, Kind("job")), Op("g", "items", "set", 4, Kind("job"))>>,
           <<AddOf("common", 2), Op(Nil, "common", "add", 2, Plain)>>},
    b |-> {<<Op("g", "count", "add", 2, Plain), Op("own", "items", "set", 2, Plain),
             AddOf("common", 4)>>,
           <<SetOf("common", 1), Op("own", "count", "set", 2, Plain), Op("g", "common", "add", 2, Plain)>>,
           <<Expire("own"), Op("g", "items", "set", Nil, Plain)>>}]

\* NoStaleSeries depends on it.
ASSUME GroupsOfFilesApart == GroupsApart
==============================================================================
