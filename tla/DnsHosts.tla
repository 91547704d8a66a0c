------------------------------ MODULE DnsHosts ------------------------------
(***************************************************************************)
(* How sd/dnssrv turns a DNS SRV answer into the list of hosts the         *)
(* balancer indexes: the entries of the lowest priority, each as many      *)
(* times as its compacted weight.  Target and port of an entry make up its *)
(* `target` here, a number so that targets are ordered.                    *)
(***************************************************************************)
EXTENDS Integers, Sequences, FiniteSets, SequencesExt

CONSTANTS Scale       \* 100 in subscriber.go:186

ASSUME ScaleAssumption == Scale \in Nat \ {0}

\* An entry of the zone: [target, priority, weight], all naturals.
\* sort.Slice: by priority, heavier first, then by target.
Before(a, b) ==
  \/ a.priority < b.priority
  \/ a.priority = b.priority /\ a.weight > b.weight
  \/ a.priority = b.priority /\ a.weight = b.weight /\ a.target < b.target

Lowest(zone) == {a \in zone : \A b \in zone : a.priority <= b.priority}

\* The order is total: the k-th entry is the one that has k - 1 before it.
Sorted(entries) ==
  [k \in 1..Cardinality(entries) |->
     CHOOSE a \in entries : Cardinality({b \in entries : Before(b, a)}) = k - 1]

SumAll(ws) ==
  LET sum[n \in 0..Len(ws)] == IF n = 0 THEN 0 ELSE sum[n - 1] + ws[n]
  IN  sum[Len(ws)]

\* Weights that add up to more than the scale are scaled down, rounding each
\* down.  The scale is at least the number of entries.
NormalizeFixed(ws) ==
  LET sum == SumAll(ws)
  IN  IF sum <= Scale THEN ws ELSE [i \in DOMAIN ws |-> (ws[i] * Scale) \div sum]

Normalize(ws) ==
  LET scale == IF Len(ws) > Scale THEN Len(ws) ELSE Scale
      sum   == SumAll(ws)
  IN  IF sum <= scale THEN ws ELSE [i \in DOMAIN ws |-> (ws[i] * scale) \div sum]

\* The greatest common divisor, 0 if all are zero.
Gcd(ws) ==
  LET common == {d \in 1..SumAll(ws) : \A i \in DOMAIN ws : ws[i] % d = 0}
  IN  IF common = {} THEN 0 ELSE CHOOSE d \in common : \A e \in common : e <= d

Compact(ws) ==
  LET tmp == Normalize(ws)
      div == Gcd(tmp)
  IN  IF div < 2 THEN tmp ELSE [i \in DOMAIN tmp |-> tmp[i] \div div]

\* Each host as many times as its compacted weight.
Repeated(srvs) ==
  LET times == Compact([i \in DOMAIN srvs |-> srvs[i].weight])
  IN  FlattenSeq([i \in DOMAIN srvs |-> [j \in 1..times[i] |-> srvs[i].target]])

\* The instances of a lookup's answer, in order.
InstancesOfAll(zone) == Repeated(Sorted(zone))

Instances(zone) == Repeated(Sorted(Lowest(zone)))

\* How often a target is in a list of hosts.
Count(hosts, t) == Cardinality({i \in DOMAIN hosts : hosts[i] = t})

=============================================================================
