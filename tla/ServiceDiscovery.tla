-------------------------- MODULE ServiceDiscovery --------------------------
(***************************************************************************)
(* sd/dnssrv/subscriber.go and sd/loadbalancing.go: one goroutine refills  *)
(* the cached list of hosts from DNS, and the requests of one backend pick *)
(* hosts through one balancer.  A request copies the list under the read   *)
(* lock and picks from its copy later, when the cache may be another one.  *)
(***************************************************************************)
EXTENDS DnsHosts, Functions

CONSTANTS Zones,       \* the zones DNS may hold, sets of entries
          Requests,    \* concurrent calls of the balancer
          CounterValues,  \* of the round robin counter, which wraps around: 2^64
          MaxChanges,  \* bound: how often the zone changes
          Nil

ASSUME CounterAssumption == CounterValues \in Nat \ {0} /\ MaxChanges \in Nat
ASSUME ZonesAssumption ==
  \A z \in Zones : IsFiniteSet(z) /\ z \subseteq [target : Nat, priority : Nat, weight : Nat]

VARIABLES zone,      \* what DNS holds
          changes,   \* how often it changed
          cache,     \* subscriber.cache
          updater,   \* where the refresh goroutine is: "lookup" or "store"
          found,     \* the zone its lookup saw, {} between lookups
          seen,      \* the zone of the last successful refresh (history), Nil before
          strategy,  \* the balancer: GOMAXPROCS = 1 makes it a round robin
          counter,   \* roundRobinLB.counter
          request,   \* where each call of Host() is
          hosts,     \* its copy of the list
          got        \* what it returned: a target, NoHosts or Panic

vars == <<zone, changes, cache, updater, found, seen, strategy, counter, request, hosts, got>>

NoHosts == -1      \* targets are naturals
Panic   == -2

\* NewDetailedWithScheme looks up once before any request comes.  Starting
\* with that lookup under way adds nothing: requests that come before it has
\* succeeded see what they would see had it failed.
Init ==
  /\ zone \in Zones /\ changes = 0
  /\ cache = <<>> /\ updater = "lookup" /\ found = {} /\ seen = Nil
  /\ strategy \in {"round robin", "random"}
  /\ counter = 0
  /\ request = [r \in Requests |-> "idle"]
  /\ hosts = [r \in Requests |-> <<>>]
  /\ got = [r \in Requests |-> NoHosts]

-----------------------------------------------------------------------------
(* DNS, and the goroutine that asks it every ttl. *)

ZoneChanges ==
  /\ changes < MaxChanges
  /\ zone' \in Zones \ {zone}
  /\ changes' = changes + 1
  /\ UNCHANGED <<cache, updater, found, seen, strategy, counter, request, hosts, got>>

LookupSucceeds ==
  /\ updater = "lookup"
  /\ found' = zone
  /\ updater' = "store"
  /\ UNCHANGED <<zone, changes, cache, seen, strategy, counter, request, hosts, got>>

\* update() returns early: the cache stays as it is.
LookupFailsEmpty ==
  /\ updater = "lookup"
  /\ cache' = <<>>
  /\ UNCHANGED <<zone, changes, updater, found, seen, strategy, counter, request, hosts, got>>

LookupFails ==
  /\ updater = "lookup"
  /\ UNCHANGED vars

\* What update() may store for each answer: more than 100 instances are
\* stored in a random order.
Stored ==
  [z \in Zones |->
     LET all == Instances(z)
     IN  IF Len(all) <= Scale THEN {all}
         ELSE {[i \in DOMAIN all |-> all[p[i]]] : p \in Bijection(DOMAIN all, DOMAIN all)}]

StoreFirst ==
  /\ updater = "store"
  /\ cache' \in IF cache = <<>> THEN Stored[found] ELSE {cache}
  /\ seen' = found
  /\ found' = {}
  /\ updater' = "lookup"
  /\ UNCHANGED <<zone, changes, strategy, counter, request, hosts, got>>

\* Under the lock.
Store ==
  /\ updater = "store"
  /\ cache' \in Stored[found]
  /\ seen' = found
  /\ found' = {}
  /\ updater' = "lookup"
  /\ UNCHANGED <<zone, changes, strategy, counter, request, hosts, got>>

-----------------------------------------------------------------------------
(* balancer.Host(), called by the load balancing middleware. *)

\* An index out of range is a panic of the request.
At(list, offset) == IF offset < Len(list) THEN list[offset + 1] ELSE Panic

Snapshot(r) ==
  /\ request[r] = "idle" /\ cache # <<>>
  /\ hosts' = [hosts EXCEPT ![r] = cache]
  /\ request' = [request EXCEPT ![r] = "picking"]
  /\ UNCHANGED <<zone, changes, cache, updater, found, seen, strategy, counter, got>>

FindsNone(r) ==
  /\ request[r] = "idle" /\ cache = <<>>
  /\ got' = [got EXCEPT ![r] = NoHosts]
  /\ request' = [request EXCEPT ![r] = "done"]
  /\ UNCHANGED <<zone, changes, cache, updater, found, seen, strategy, counter, hosts>>

PickOfCache(r) ==
  /\ request[r] = "picking" /\ strategy = "round robin" /\ cache # <<>>
  /\ got' = [got EXCEPT ![r] = At(hosts[r], counter % Len(cache))]
  /\ counter' = (counter + 1) % CounterValues
  /\ request' = [request EXCEPT ![r] = "done"]
  /\ UNCHANGED <<zone, changes, cache, updater, found, seen, strategy, hosts>>

PickUnwrapped(r) ==
  /\ request[r] = "picking" /\ strategy = "round robin"
  /\ got' = [got EXCEPT ![r] = At(hosts[r], counter % Len(hosts[r]))]
  /\ counter' = counter + 1
  /\ request' = [request EXCEPT ![r] = "done"]
  /\ UNCHANGED <<zone, changes, cache, updater, found, seen, strategy, hosts>>

\* The counter wraps around at its width.
PickInTurn(r) ==
  /\ request[r] = "picking" /\ strategy = "round robin"
  /\ got' = [got EXCEPT ![r] = At(hosts[r], counter % Len(hosts[r]))]
  /\ counter' = (counter + 1) % CounterValues
  /\ request' = [request EXCEPT ![r] = "done"]
  /\ UNCHANGED <<zone, changes, cache, updater, found, seen, strategy, hosts>>

PickAtRandom(r) ==
  /\ request[r] = "picking" /\ strategy = "random"
  /\ \E offset \in 0..Len(hosts[r]) - 1 :
        got' = [got EXCEPT ![r] = At(hosts[r], offset)]
  /\ request' = [request EXCEPT ![r] = "done"]
  /\ UNCHANGED <<zone, changes, cache, updater, found, seen, strategy, counter, hosts>>

\* The next request of the backend.
Again(r) ==
  /\ request[r] = "done"
  /\ request' = [request EXCEPT ![r] = "idle"]
  /\ hosts' = [hosts EXCEPT ![r] = <<>>]
  /\ got' = [got EXCEPT ![r] = NoHosts]
  /\ UNCHANGED <<zone, changes, cache, updater, found, seen, strategy, counter>>

Next ==
  \/ ZoneChanges \/ LookupSucceeds \/ LookupFails \/ Store
  \/ \E r \in Requests : Snapshot(r) \/ FindsNone(r) \/ PickInTurn(r) \/ PickAtRandom(r) \/ Again(r)

Spec == Init /\ [][Next]_vars

\* The goroutine runs every ttl; a lookup that may fail any number of times
\* succeeds in the end (a step from "lookup" to "store" is LookupSucceeds),
\* and what it found is stored (a step back is Store).
FairSpec ==
  /\ Spec
  /\ WF_updater(updater = "lookup" /\ updater' = "store")
  /\ WF_updater(updater = "store" /\ updater' = "lookup")

-----------------------------------------------------------------------------
(* Properties. *)

Targets(z) == {e.target : e \in z}
AllTargets == UNION {Targets(z) : z \in Zones}

TypeOK ==
  /\ zone \in Zones /\ found \in Zones \cup {{}} /\ seen \in Zones \cup {Nil}
  /\ changes \in 0..MaxChanges
  /\ cache \in Seq(AllTargets)
  /\ updater \in {"lookup", "store"}
  /\ strategy \in {"round robin", "random"}
  /\ counter \in 0..CounterValues - 1
  /\ request \in [Requests -> {"idle", "picking", "done"}]
  /\ hosts \in [Requests -> Seq(AllTargets)]
  /\ got \in [Requests -> AllTargets \cup {NoHosts, Panic}]

\* loadbalancing.go:60: whatever the refresh does between the copy and the
\* pick, and wherever the counter wraps, the index is one of the copy's.
NeverPanics == \A r \in Requests : got[r] # Panic

\* subscriber.go:186-189: scaling the weights down never rounds all of them
\* to nothing, and a failed lookup takes no host away: there is a host as
\* long as the last answer had one with a weight.
HostsWhenPublished ==
  (seen # Nil /\ \E e \in Lowest(seen) : e.weight > 0) => cache # <<>>

\* The weights of all the entries for a target.
WeightOf(entries, t) ==
  LET srvs == Sorted(entries)
  IN  SumAll([i \in DOMAIN srvs |-> IF srvs[i].target = t THEN srvs[i].weight ELSE 0])

Light(entries) ==   \* normalize leaves the weights as they are
  LET srvs == Sorted(entries)
      sum  == SumAll([i \in DOMAIN srvs |-> srvs[i].weight])
  IN  sum <= Scale \/ sum <= Len(srvs)

\* The cache lists targets of the lowest priority only, and weights that need
\* no scaling are kept exactly, relative to each other: however the answer
\* was sorted, compacted, repeated and shuffled.
ExactProportions ==
  seen # Nil =>
    LET low == Lowest(seen)
    IN  /\ ToSet(cache) \subseteq Targets(low)
        /\ Light(low) =>
             \A t, u \in Targets(low) :
                Count(cache, t) * WeightOf(low, u) = Count(cache, u) * WeightOf(low, t)

\* Once the zone stays as it is, the cache becomes what it holds.
Converges ==
  <>[](cache \in Stored[zone])

=============================================================================
