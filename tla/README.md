# A TLA+ verification of the gateway

This directory holds TLA+ models of the API gateway library in `src/`, the TLC
configurations that check them on small instances, and TLAPS proofs of what
matters most for every instance. Every definition is translated from the Go
code; `PROJECT.json` maps each one to the lines it stands for.

The library turns one HTTP request of a client into requests to several
backends and their answers into one response. Nothing is persisted and nothing
is replicated: what is hard is the concurrency of a single request, with its
timeouts and partial failures, and a few pieces of state that all requests
share (host lists, registers, configuration).

## 1. Inventory

| Part | State | Operations | What is hard | What makes it correct |
|---|---|---|---|---|
| Parallel merge (`proxy/merging.go`) | two buffered channels, `proxyCount`, the accumulator, the local context | filter and launch a goroutine per backend, collect, merge, return | order of answers, errors and the timeout; goroutines that outlive the request | no goroutine left behind; the reply accounts for every backend; "complete" only if it is; it returns by its timeout |
| Sequential merge (`proxy/merging.go`) | loop index, `parts[]`, the parameter registry, the accumulator | replace parameters, filter, call, merge, break | parameters taken from maps that later merges write to; breaking off | no backend is asked after trouble; parameters are stable and come from the backend they name |
| Concurrent calls (`proxy/concurrent.go`) | two buffered channels, two contexts | launch k calls, take the first complete answer, give up | early return while calls are under way; the caller's end racing answers | a complete answer is not passed over; late calls end |
| Load balancing (`sd/loadbalancing.go`) | round robin counter | copy the host list, pick | list replaced between copy and pick | never out of range |
| DNS discovery (`sd/dnssrv/subscriber.go`) | host cache under a lock | look up, sort, scale, compact, store | rounding, failed lookups, concurrent reads | hosts as long as the zone has some, in proportion; the cache catches up |
| HTTP backend, no-op relay (`proxy/http.go`, `proxy/http_response.go`, `proxy/proxy.go`, `proxy/streaming.go`) | the body of the backend's response, the goroutine that closes it | round trip, status, parse, copy | the body's life against the contexts' | a body is not closed while it is copied, and is closed in the end |
| Endpoint handlers (`router/*/endpoint.go`, `render.go`) | the request's context | build the request, call the proxy, status and headers, render | an error together with a response; the context that ends late | what the client is told |
| Requests (`proxy/request.go`, filters, `proxy/graphql.go`, `proxy/shadow.go`) | maps shared between clones | clone, set path, params, query | unsynchronised writes | what a backend is sent comes from the client and its own middlewares |
| Formatting, static data, status handlers, renders (`proxy/formatter.go`, `proxy/static.go`, `transport/http/client/status.go`, `router/*/render.go`) | the response on its way up | target, filter, rename, group, add static data, render | order of lists and of Go maps; errors that come with data | the filters select what their names say; nothing incomplete is called complete, no error looks like a success |
| Configuration (`config/*.go`) | the service definition | normalise, default, validate, rewrite | order of defaulting and validation | exactly the valid files are accepted; what is accepted has its timeouts, encodings and parameters |
| Routers (`router/gin`, `router/mux`) | the engine's routes, gin's catalog | register the endpoints, hand the engine to the server | two endpoints on a route, pipes that cannot be built | each request is answered by what the configuration has for it |
| HTTP server (`transport/http/server/server.go`) | the serving goroutine, `done`, the shutdown's timer | serve, shut down | shutdown against requests under way | it cuts nobody short before its time, and it ends |
| Async agents, backoff (`async`, `backoff`) | retry counter | wait, retry | width of integers | waits that grow |
| Registers (`register`, `encoding/register.go`, `proxy/register.go`) | maps under a lock | get, register, add namespace | check and write in two steps | nothing registered is lost |
| Transport, plugins, TLS, logging, encoding | third-party code, shared objects | set-up and I/O | - | not modelled |

How they interact: an endpoint handler makes a context with the endpoint's
timeout and calls the endpoint's proxy. With several backends that proxy is a
merge whose local context has 85 % of the timeout; each backend is a stack of
middlewares (query filter, request builder, concurrent calls with 75 % of the
backend's timeout, load balancing over a subscriber, header filter, GraphQL,
plugins) around the HTTP backend. Calls go down by function call or goroutine,
answers come back as return values or over channels, and a context that ends
ends all contexts made from it.

## 2. Modules

| Module | Models | State and actions |
|---|---|---|
| `MergeData` | responses, `combineData`, `incrementalMergeAccumulator` | operators only |
| `ForkJoin` | what a parallel merge promises | `fate`, `given`, `reply`; `Skip`, `Fail`, `Deliver`, `Join` |
| `ParallelMerge` | `parallelMerge`, `requestPart` | main goroutine: `Launch`, `Skip`, `StartCollecting`, `CollectFailed`, `CollectPart`, `Return`; each requestPart: `ProxyReturns`, `SendFailed`, `SendPart`; `ContextEnds` |
| `ParallelMergeProofs` | - | proofs about `ParallelMerge`, among them that it implements `ForkJoin` |
| `InTurn` | what a sequential merge promises | `fate`, `given`, `reply`; `Skip`, `Deliver`, `Fail`, `FailAtOnce`, `End` |
| `SequentialMerge` | `sequentialMerge`, `sequentialRequestPart` | `Skip`, `Ask`, `ProxyReturns`, the four ways of the select (`FirstFails`, `LaterFails`, `DeliversPart`, `Delivers`), `Return`, `ContextEnds` |
| `SequentialMergeProofs` | - | proofs about `SequentialMerge`, among them that it implements `InTurn` |
| `FirstSuccess` | what the concurrent middleware promises | `fate`, `caller`, `reply`; `Fail`, `FallShort`, `Win`, `Leave`, `GiveUp` |
| `ConcurrentCalls` | the concurrent middleware, `processConcurrentCall` | `Launch`, `StartCollecting`, the three cases of the select, `GiveUp`; each call: `ProxyReturns`, `SendError`, `SendResult`; `LocalTimeout`, `ParentEnds` |
| `ConcurrentCallsProofs` | - | proofs about `ConcurrentCalls`, among them that it implements `FirstSuccess` |
| `DnsHosts` | `resolve`, `compact`, `normalize`, `gcd` | operators only |
| `ServiceDiscovery` | the DNS subscriber and the balancers | `ZoneChanges`, `LookupSucceeds`, `LookupFails`, `Store`; each request: `Snapshot`, `FindsNone`, `PickInTurn`, `PickAtRandom`, `Again` |
| `ServiceDiscoveryProofs` | - | proofs about `DnsHosts` and `ServiceDiscovery` |
| `Relay` | the mux and the gin handler, `NewHTTPProxyDetailed` with the no-op parser, `closeOnCancel`, `StreamCopy` | `ClientLeaves`, `Timeout`, `LocalTimeout`; the backend: `BackendAnswers`, `BackendFails`, `BackendSends`; each call: `DropAnswer`, `Parse`, `Report`, `CloseOnCancel`; the handler: `OneCallReturns`, `Collect`, `SendsError`, `RendersData`, `StartsCopy`, `Copy`, `CopyEnds` |
| `RelayProofs` | - | proofs about `Relay` |
| `Documents` | documents and their paths, and what `proxy/formatter.go` does to them key by key: target, mapping, group | operators only |
| `FormatData` | the allow and deny filters of `proxy/formatter.go`: the trees they build and their walk | operators only |
| `Response` | one backend's answer from the round trip to the client: `NewHTTPProxyDetailed`, the status handlers, the parsers, `entityFormatter.Format`, the static middleware, both handlers and their renders | `RoundTrip`, `HTTPStatusHandler`, `ParseNoOp`, `ParseFails`, `Parse`, `Filter`, `Rename` (one entry of the mapping), `Group`, `StaticMiddleware`, `SendError`, `Render`, `ContextEnds` |
| `ResponseProofs` | - | proofs about `Documents`, `FormatData` and `Response` |
| `ConfigData` | the configuration file and the service definition, `normalize`, hosts, URL patterns, the streaming rules | operators only |
| `ConfigInit` | `parser.Parse` and `ServiceConfig.Init` | `ReadFails`, `Read`, `CheckVersion`, `InitGlobalParams`, `InitAsyncAgent`, `InitEndpoint`, `InitBackendDefaults`, `InitBackendURLMappings`, `ValidateStreamingService`, and the ends of their loops |
| `ConfigInitProofs` | - | proofs about `ConfigInit` |
| `Gateway` | `Run` of the gin and the mux router, `RunServer` | `RegisterBuiltins`, `RegisterEndpoint`, `RegisterOptionEndpoints`, `RunServer`, `Listen`, `ServeFails`, `Done`, `ContextDone`, `ShutdownReturns`; around it `ContextEnds`, `TimerExpires`; each client: `Request`, `Answered`, `Leaves` |
| `GatewayProofs` | - | proofs about `Gateway` |
| `RequestSharing` | `Clone`, `CloneRequest`, the shadow pipe, the clones of merge and concurrent calls, query and header filters, the balancer's URL, the GraphQL middleware, the reads of the HTTP proxy | `NewShadowProxyWithTimeout`, `RequestPart`, `FilterQueryStrings`, `ConcurrentCall`, `Balance`, `FilterHeaders`, `GraphQLQuery`, `EncodeQuery`, `Send` |

How they compose: `ParallelMerge`, `SequentialMerge`, `ConcurrentCalls`,
`Relay` and `Response` each take one request through one layer, with the layer
below as a nondeterministic answer; `MergeData` is shared by both merges, and
`ForkJoin`, `InTurn` and `FirstSuccess` are what the layers above may assume of the
two merges and of the concurrent middleware.
`RequestSharing` puts the layers on top of each other and asks about the maps
that run through all of them. `ConfigInit` makes the configurations that
`Gateway` starts from.

The `MC...` modules give the constants their values for TLC.

In every module an operator that no other one uses (`CapacityShort` above
`Capacity`, say) is a variant with a plausible slip. `PROJECT.json` lists, under
"mutants", which property fails when the variant takes the other's place: every
property checked is one that a small change of the code would break.

**How the code is abstracted.** A backend is its index. The value under a key of
a body is the backend that wrote it: which backend a value comes from is all the
properties tell apart. An error is the backend whose call failed. A channel is a
sequence with a capacity, and a send waits for room, so that "nobody waits" is
a property and not an assumption. A context is "live" or "ended"; timers end
it at any time, so every ratio of the timeouts is covered. A select with several
cases ready takes any of them, as in Go.

Abstractions that leave something out: in `SequentialMerge` parameters have
one-step paths (`Resp0_key`, not `Resp0_a.b`), whole-body parameters
(`Resp0`) are left out, since a complete response of the repository's own
parsers has no reader to take them from. Of the text of a parameter the model
keeps whose value it is and whether it is the empty string (`Blank`), which
the registry of `sequentialMerge` takes for no entry. In `ServiceDiscovery` host and port are one number, and the subscribers
with a fixed list are left out. In `Relay` the loop of the concurrent middleware
is the one step `Collect`: a no-op response is never complete, so the loop reads
all the calls, and which of them is last is the choice that is left
(`ConcurrentCalls` has the loop in detail). A backend that breaks off in the
middle of a body, and the transport's own handling of the bodies of ended
requests, are left out: the body is closed by the repository's code only.

In `DnsHosts` the answer of a lookup is a set of entries: a zone holds no record
twice. What `sort.Slice` makes of it is the rank of each entry in the order
`Before`, which is total on distinct entries.

In `ConfigData` a duration is a number, or `Bad` where it is absent or does not
parse; a host is clean, bare (`SafeCleanHost` gives it a scheme) or invalid; a
placeholder is a name, and its key what the code makes of it; the keys of a URL are
a set, since only which they are, and how many, is ever asked; a path is allowed or
forbidden by `invalidPattern`; the extra configuration of an endpoint or backend is
the set of features that the streaming rules look for. Only the fields that `Init`
reads or completes are kept.

In `Documents` a document is a tree whose leaves are opaque, lists included, since
no operation of the formatter looks into them, except those of the flatmap, which
is left out. The recursions of the filters are recursive functions over the paths
of the document: `Walk` gives what is left under each path as one call of the code
leaves it (`AllowlistPrune`, `RecDelete`), from what the calls below it left;
`Graft` puts a dotted name into a tree from its end to the root, as
`buildDictPath` does from the root. A document has its keys in `Names` and is at
most `Depth` deep, whatever these are.

In `Response` the endpoint has one backend, and gin's content negotiation is a
choice among its renders. An `output` or `encoding` of "other" stands for every
name that no render is registered under: `GetRender` then falls back on the
render of the backend's encoding, or on JSON's. In `RequestSharing` a map is the set of those who wrote
its entries, and a write and a read of it are each a step; that Go may also abort
on an unordered read and write is left out. In `Gateway` a client asks for the
first endpoint, and what it is answered is left to the other modules; the engines
and `http.Server` are external, modelled by what the code relies on (a comment at
the head of the module says what).

## 3. Runs

| Run | Question | Instance |
|---|---|---|
| `parallel_merge` | does the fork and join lose, double or hide an answer, and does it leave goroutines behind | 3 backends, 2 with filters, bodies with one key, no key or nil: a failure can come before, between and after answers, and filters can leave one, two or three |
| `concurrent_calls` | does the first complete answer win, do late calls end | 3 calls, one deaf to its context: a winner, a late call and an earlier failure at once |
| `sequential_merge` | does the loop stop at trouble, are parameters stable | 3 backends, all with filters, 2 keys: the third one's parameters are taken from responses that the second may have merged into, and one value of the first prints as the empty string |
| `sequential_params` | does a parameter hold a value of the backend it names (it does not, see Findings) | as above |
| `service_discovery` | is any index out of range, do rounding or failures lose hosts, does the cache catch up | 8 zones with weights below, at and above a scale of 2 (100 in the code), of up to 3 targets, two entries sharing one in a zone, two light ones of different weights, 2 requests, a counter of 4 values (2^64 in the code), 1 change of the zone |
| `relay` | is a no-op body relayed whole and promptly, and is everything released when the client leaves | both handlers, output `no-op` or `json`, one call or two concurrent ones, a body of 2 chunks |
| `relay_concurrent` | is the body whole under concurrent calls as well (it is not, see Findings) | as above |
| `response` | do the filters select what they say, does the order of a Go map show, is a client told of an error or of missing data | 25842 pairs of an endpoint and an answer, in three families: documents three levels deep under lists of up to three dotted names; every mapping of three keys; every combination of outcome (among them a redirect), static strategy, error handler, router, and 14 pairs of an output and a backend's encoding, with every render and every fallback |
| `config_init` | are exactly the valid files accepted, and is what is accepted complete | 6459 files: every value of every field, with every value of those it is checked against |
| `config_streaming` | do streaming endpoints come without response manipulation (they do not, see Findings) | as above |
| `gateway` | is each request answered as configured, does the shutdown cut one short, does the server end | 2171 configurations: two endpoints of every kind on two paths with both routers, with and without the debug, the echo and the OPTIONS routes, and one endpoint with every way to configure the shutdown and up to two key pairs; 2 clients |
| `request_sharing` | does a backend get what another one wrote (it does, see Findings) | 2 backends, every combination of GraphQL, filters, concurrent calls, methods, shadow and sequential |

Three backends are the least with which an answer can be merged into one that
has been merged before, and the capacity of the channels can be one too small
in more than one way. The scale and the counter's width are constants of the
model, scaled down so that the boundaries are within reach.

**Bounds.** `Chunks` is the length of a body: with 2 a copy can be cut short in
the middle and a chunk can wait for another. `MaxChanges` bounds how often the zone
changes; all other variables are bounded by the code. The change of a zone between the two lookups is what
`Converges` and `NeverPanics` need: a request that holds the list of the old
zone while the new one is stored. `MaxCalls` is the most concurrent calls of a
backend in `RequestSharing`. Two clients of the server are needed for one to be
waited for by the shutdown while the other keeps its stream. In `response` `Depth` is
3: three levels of documents are one more than a name and a prefix of it need, and three
names are enough for one that shortens an earlier one which extended another.

**Fairness.** The Go runtime runs a goroutine that can run (weak fairness of its
steps) and timers fire (weak fairness of `ContextEnds`, `LocalTimeout`). A
backend proxy is assumed to return once its context ended, and not before:
that is what `http.Client` does with the request's context. In
`ConcurrentCalls` the backends in `Deaf` are not assumed to return even then.
In `ServiceDiscovery` a lookup may fail any number of times, but not for ever.
In `Relay` the backend may be silent for ever, before its answer and between two
chunks; only the round trip fails once its context ended, and neither timeouts
nor the client's leaving are assumed to come. In `Gateway` the steps of `Run` and
of the shutdown, the timer of the shutdown and the answers to requests that are
not streams are fair; a client of a stream need not leave, the context need not
end and serving need not fail. `Response`, `ConfigInit` and `RequestSharing` have
safety properties only.

## 4. What the checks show

*Parallel merge.* `NoSenderWaits`: both channels are as long as the list of
backends, so a goroutine that has something to send never waits, also when the
main goroutine is gone. `EveryBackendAccounted` and `CompleteIsHonest`: in each
order of answers, errors and timeouts each backend's error is in the reply once
or its keys are in the response, and the response is called complete only if
all backends asked delivered a complete one. `KeepsPromise` states it as a
refinement: the merge implements `ForkJoin`, whose one `Join` step says what
the reply must be, given what became of each backend. `Returns`: it ends.

*Concurrent calls.* `GivesUpOnlyWithoutSuccess`: while its caller waits, the
middleware returns something else than a complete response only if every call
has reported, its channels are empty and no call's answer was a complete response;
reading past one would break it. `KeepsPromise` says more, as a refinement: the
middleware implements `FirstSuccess`, in which a complete response that is read
ends everything (`Win`) and any other reply (`GiveUp`) accounts for the reports
read: an error among them leaves an error, an incomplete answer leaves a response
or an error, and the two come from different calls, neither of which delivered a
complete response. That also holds when the caller has gone. `CallsEnd` and
`NoSenderWaits`: nobody is left behind.
`ReturnsByDeadline`: the caller's deadline, and only that, ends the wait for a
deaf backend.

*Sequential merge.* `StopsAtFirstTrouble`, `LastWriterWins` (merging step by step is
one `combineData`), `KeepsPromise` (the merge implements `InTurn`: backends are settled
in their order and none after trouble, and the one reply names the only failure there
can be, holds the keys of all that delivered, and is complete exactly if all backends
had their turn and none made trouble), `ParamsStable` (a
parameter, once sent with a text, is the same for all later backends, although the
map it was read from may change), `Returns`. `ParamsStable` excepts the empty
string: `sequentialMergeRegistry` does not keep it (`merging.go:356`), so that a
parameter sent empty is copied afresh in a later turn, and may then be the text
another backend has merged over it.

*Service discovery.* `NeverPanics`, `HostsWhenPublished` (scaling down never
loses all hosts, because the scale is at least the number of entries),
`ExactProportions`, `Converges`.

*Relay.* `WholeBodyOfOneCall`: with one call no timeout, cancel or closing
goroutine cuts the body of a client that stays. `Prompt`: such a client sees a
chunk that has come although no further one does. `Released`: a client that
leaves ends the handler, even in a stream that is silent for ever, and each body
that was handed up is closed.

*Response.* `FilteredExactly`: the trees built from dotted names and pruned
recursively select what the names say, whatever the order of the list.
`RenamedInAnyOrder`: the order in which Go walks the mapping does not show as
long as no new name is one in use (otherwise it does, which is why the condition
is there). `CompletedFromSuccess`: `X-Pucora-Completed: true` means that the backend
succeeded and its document was decoded; static data and error details never pass
for it. The header speaks of the proxy's response and not of the body: under it
the JSON and YAML renders show all that the formatter left, but the string,
collection and XML ones show one value of it, or nothing. `ErrorNotDisguised`: a
status below 400 comes from a backend that succeeded, or is the backend's own,
handed on by a no-op endpoint or by `return_error_code`, or the endpoint has static
data, error details for a bad status, or a no-op backend whose response another render
than no-op shows, so that its status is lost.

*Configuration.* `AcceptsExactly` compares the verdict of the many steps of
`Init`, each of which works on what earlier steps completed, with rules stated
about the file alone: it shows among other things that `uniqueOutput`, which
counts one parameter too few, changes the error and never the verdict.
`EveryPipeTimed`, `NoOpUntouched` and `PatternsResolved` say that an accepted
configuration leaves no pipe without a timeout, no no-op endpoint with a backend
that decodes, and no placeholder that is not replaced by its key and is neither a
parameter of the route nor of the form of a sequential or JWT one. The form is
all the code asks for (`config.go:682`): `{resp5_x}` is accepted in a first
backend, where nothing fills it, and is listed as a hazard.

*Gateway.* `RoutedAsConfigured`: once the server runs, every method on every path
is answered by the endpoint the configuration has for it (the first of two under
gin is a panic at start-up, the last of two under mux), or by the health, debug or
echo route, and one endpoint whose
pipe cannot be built does not affect the others. `CutsNoRequestShort`: the server
returns with requests in flight only when serving failed or the configured
duration has passed, and says so. `Stops`: after its context ended it returns,
provided there is a duration or nobody keeps a stream open.

### Findings

`sequential_params`: `combineData` makes the merged response out of the map of
the first response, which `parts[]` still holds. A parameter `Resp0_<key>` read
after the second response was merged can hold the second backend's value.

`relay_concurrent`: `NoOpHTTPResponseParser` is documented to copy the backend's
body into the response. `processConcurrentCall` cancels its call's context once
it has sent the response, and the middleware cancels its own before it returns;
both close the body. A no-op endpoint with `concurrent_calls` above 1 can send
its client a part of the body, or none.

`config_streaming`: streaming endpoints "cannot use response manipulation
middleware" (`config/streaming.go:23`), and `validateStreamingEndpoint` checks
that before `initBackendDefaults` gives the backend its no-op encoding. A no-op
endpoint whose backend leaves its encoding out is accepted with such a middleware.

`request_sharing`: `CloneRequest` is documented to share no pointer with the
request it copies (`proxy/request.go:70`), and shares the Query map. The GraphQL
middleware writes its query into that map for GET calls, and another backend's
balancer, or the shadow's, encodes it into its own URL.

## 5. What is proved

Eight components have a module of proofs. Between them they prove every type
invariant, every safety invariant and every action property that the runs check,
and the refinements of `ForkJoin`, `InTurn` and `FirstSuccess`; for every value of the
constants, from the assumptions named `...Assumption` in the modules and nothing else.
TLC evaluates those assumptions in the runs.

Hardly any of the invariants is inductive as it stands. Each module has an `IInv`, the
conjunction of `TypeOK` and of named parts, proved by one lemma or step per action
(`Invariance`), and the theorems follow from it.

**`ParallelMergeProofs`**, for every number of backends (two or more), every set of
keys and every assignment of filters: `TypeCorrect`, `NoSenderWaitsAlways`,
`CompleteIsHonestAlways`, `EveryBackendAccountedAlways`, `KeepsPromiseAlways`.
That nobody waits holds because each backend is in at most one channel and at most
once, and one that is about to send is in neither: the channels hold fewer than N
messages. That needs `ChannelInv` (no message twice, every one sent by its sender).
That the accumulator's count keeps its type and that "returned" means "all merged"
needs `CountInv`: the loop variable equals the number of backends merged, and
`proxyCount` plus the skipped backends is N. `CompleteIsHonest` follows from
`ResponseInv`: as long as the accumulator's response counts as complete and there
is no error, all backends merged so far delivered a complete response.
`AccountInv`: each backend merged has its error in the list, once, or its keys in
the response built so far, and nothing merged later takes them out.

`KeepsPromiseAlways` says that every behaviour of `ParallelMerge` is, through the
mapping above `Promise`, one of `ForkJoin`. The mapping needs no history: a backend
is skipped, or delivered if its message was taken and is not in the list of errors,
or failed if it is. Steps of the requestParts, of the context and of the launch are
stutters; `Skip`, `CollectFailed` and `CollectPart` map to `Skip`, `Fail` and
`Deliver` of the backend at hand, one lemma each (`SkipMaps`, `FailMaps`,
`DeliverMaps`), and `Return` to `Join` (`ReturnMaps`). For `Join` the response must
be what the backends delivered; `GatherInv` says that of the accumulator in every
state: its keys are theirs, each value is that of one of its holders, it is nil
exactly if nobody delivered, and without errors it is complete exactly if all of
them were.

**`ConcurrentCallsProofs`**, for every number of calls (two or more) and whichever
of them are deaf: `TypeCorrect`, `NoSenderWaitsAlways`, `ErrorXorSuccessAlways` (a
complete response comes without an error, and while the caller waits no error means a
response), the action property `GivesUpOnlyWithoutSuccessAlways` and the refinement
`KeepsPromiseAlways`. `ChannelInv` is as above.
`CountInv` says that the loop variable equals the number of reports read, but only
while the caller waits, for its ended context uses up turns of the loop; at the end
of the loop the N reports read are those of all calls, which is why nothing was
passed over; that none of them was complete is the loop's invariant, since a complete
one that is read ends it. `ResponseInv` says that the response held in the loop comes from a
call that has reported, so that it no longer changes, and is not complete, for a
complete one would have ended the loop.

The mapping `Promise` to `FirstSuccess` needs no history either: a call is open until
its report is read, and then won if the reply is its complete response, short if its
answer was incomplete, and failed otherwise. Steps of the calls, of the launch and of
`ParentDone` are stutters; `ReceiveResult` maps to `Win` or `FallShort`,
`ReceiveError` to `Fail` or `FallShort` (an incomplete answer whose call found its
context ended is reported as an error), `GiveUp` to `GiveUp` and `ParentEnds` to
`Leave`. For `GiveUp`, `ReportInv` says what the loop holds: a response and an error
of two different calls it has read, an error if any was read, something if anything
was.

**`SequentialMergeProofs`**, for any number of backends, filters and replacements:
`TypeCorrect`, `StopsAtFirstTroubleAlways`, `CompleteMeansAllAskedAlways` (the reply
is complete exactly if every backend was skipped or delivered a complete response and,
where several delivered, none lacked a body; the refinement implies it, and it is
easier to read), `KeepsPromiseAlways`,
`LastWriterWinsAlways` and the action property `ParamsStableAlways`. `TurnInv` says
what the loop leaves behind it at every turn: the backends before the current one
skipped or complete, those after it untouched, and at the break the current one
failed or incomplete. `PendingInv` ties the accumulator's count to the loop index,
so that nothing pending at the return means that the loop came to its last backend;
`BodyInv` that the accumulator is complete as long as all that was delivered is, and
that the map later parameters are read from is there. `WriterInv` says of the
accumulator after every turn that each key anybody delivered holds the value of the
last one who did: `combineData` of two takes the value of the second, and the
second is the later backend. `ParamsStable` needs that a text in the registry
is never copied again, although the map it came from goes on changing.

`KeepsPromiseAlways` maps the loop to `InTurn` by the fates it keeps and what was
delivered. `Skip`, `LaterFails`, `FirstFails` and the two deliveries settle the backend
of the turn, and `TurnInv` is why it is its turn (`SettleMaps`); `Return` maps to `End`,
whether the loop ran out or broke off; asking, the proxy's return and the end of the
context are stutters. That the reply is exact needs `GatherInv`: the accumulator's
response is nil exactly if nobody delivered, without a body exactly if the only one who
did had none, complete exactly if all of them were, and the only error is that of the
backend that ended the loop.

**`ServiceDiscoveryProofs`**, for every set of finite zones with any weights, every
scale, counter and number of requests: `TypeCorrect`, `NeverPanicsAlways`,
`HostsWhenPublishedAlways` and `ExactProportionsAlways`. `CopyInv` says that a
request that picks has a list of its own that is not empty, whatever has become of
the cache; both ways to pick stay below its length. `CacheInv` says that the cache is
one of the lists that the answer seen last may be stored as. The rest is arithmetic
about those lists (`StoredLists`): the sum of the weights bounds each of them and is
at most their number times the greatest, so that with a scale at least their number
the heaviest entry, scaled down, is still at least one (`NormalizeKeeps`); the
divisor divides every weight, so that compacting keeps their proportions and loses
nobody (`CompactKeeps`); and a host is in the list as often as the compacted weights
of its entries say (`CountRepeated`), in whatever order the list is stored
(`CountShuffled`). The sum is a recursive function over an interval; what it computes
is proved by `IntervalInduction`, induction for a set of indices instead of a
predicate, derived from the well-founded order of the naturals.

**`RelayProofs`**, for bodies of any length, both routers and any number of
concurrent calls: `TypeCorrect` and `WholeBodyOfOneCallAlways`. `StreamInv` is the
argument of the code's design: while the client of a stream with one call waits,
no step ends the request's context, and the closing goroutine waits for just that;
so the only way out of the copy is its end. `ReplyInv` says that a reply without a
response comes with an error or an ended context, which keeps the render from
reading it.

**`ResponseProofs`**, for every endpoint, format and answer, and documents of any
keys and depth: `TypeCorrect`, `FilteredExactlyAlways`, `RenamedInAnyOrderAlways`,
`CompletedFromSuccessAlways`, `ErrorNotDisguisedAlways`.

What the filters select is proved by induction over paths (`PathInduction`), which
needs no more than induction over an interval: a set of paths that has the empty one
and with each path the next longer ones has them all. `AtFacts` and `HasPathFacts`
say how a document is walked one step further, and all else is said of paths. A tree
is known by its marks, the paths to its leaves. Putting a name into a tree leaves
what is not below the name (`GraftFacts`); so a deny list's tree covers exactly what
its names do, whatever their order (`AddDeniedFacts`, `DenyTreeFacts`), and the marks
of an allow list's are the names that no later one extends or shortens (`GraftMarks`,
`AllowTreeFacts`). Of the walk, `OneDeleted` and `OnePruned` say what one call does
to one dictionary. `DeletedFacts` follows from the root downwards: a path is left if
it is there and nothing on its way is marked. For the allow list whether a dictionary
stays depends on what is left below it, so `PrunedKeys` goes from the deepest paths
upwards, and only then `PrunedFacts` from the root down. `TargetFacts` and `BelowFacts`
move all that under the target; `FilteredStep` puts it together.

`RenameInv` says what the document is when some entries of the mapping have been
applied: the keys applied so far have given way to their new names, with their
values, and the others are as the filters left them. If new names are apart from
each other and from all names in use, one more entry keeps it so, whichever it is
(`OneMoreRenamed`); at the end nothing depends on the order. `AnswerInv` says what
each stage knows of the answer because of the checks before it, and `OutcomeInv`
what the proxy hands up: a complete response is the formatter's, of a backend that
succeeded, and whatever is added to it leaves its other keys alone; no response comes
without an error; and a response in spite of a failure is the backend's own status,
error details, or static data.

**`ConfigInitProofs`**, for every configuration file: `TypeCorrect`,
`AcceptsExactlyAlways`, `EveryPipeTimedAlways`, `NoOpUntouchedAlways`,
`PatternsResolvedAlways`. The invariant follows the initialisation: what a stage has
passed keeps the rules and has its defaults, what it has not reached is what the
parser made of the file. `ServiceInv` says that of the service itself, `AgentsInv`
of the agents, `EndpointsInv` of the endpoints, `CurrentInv` of the endpoint whose
backends are under work, and `VerdictInv` that a refusal has a reason in the file.
Two facts make the verdict exact. The streaming rules are checked on an endpoint
whose encoding is settled and whose backends are those of the file, except for
fields the rules do not read (`SameStreaming`, `FinishedStreaming`). And the count of
`uniqueOutput` is never more than there are placeholders (`CountedOutputs`): where
the code refuses a pattern because it has too many, one of them is not an input, and
it would have been refused anyway.

**`GatewayProofs`**, for every configuration, every set of paths, any number of
endpoints and clients: `RoutedAsConfiguredAlways` and `CutsNoRequestShortAlways`.
`RoutesInv` says of the engine, while endpoints are being registered, that it
answers as the endpoints registered so far ask, and afterwards, as all of them
do; `ShutdownInv` that the timer runs only in a shutdown with a duration and that
no client is in flight before the server is started.

The facts about the accumulator and about channels that two modules need are
stated in each of them, next to their use.

**Only model-checked.** Every liveness property (`Returns`, `CallsEnd`,
`ReturnsByDeadline`, `Converges`, `Prompt`, `Released`, `Stops`): the prover has no
rules for fairness and ENABLED. And the four violations of the findings, which are
counterexamples.

## 6. Not modelled

- Async agents and `backoff`: the agents call consumers that other programs
  register, and the back-offs are arithmetic on sleeping times.
- Registers (`register`, the registers of encoders, renders, plugins): maps under
  a lock, filled at start-up by code of other programs.
- The HTTP client transport, TLS certificates, plugins of all kinds: I/O, and the
  standard library's or other programs' code. Of TLS, `Gateway` has which errors
  of the key pairs keep the server from starting.
- Encoding and decoding, logging, version: no state and no order of steps.
- Of modelled parts: nested and whole-body parameters of the sequential merge,
  the flatmap, GraphQL mutations, the fixed list of hosts, gzip, headers copied to
  the client, routers other than gin and mux (chi, gorilla, negroni and httptreemux
  wrap the mux router with another engine).

## 7. Plan

1. The composition of `ForkJoin` or `InTurn` as the layer below `Response`, with more
   than one backend and group names.
2. The flatmap of `proxy/formatter.go` and its reading of a nil response; the async
   agents with their back-off, and the namespaced register.
