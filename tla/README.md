# docker-dns-rs: specifications, model checking and proofs

docker-dns-rs answers DNS queries for Docker containers. A monitor task follows
the events of the Docker daemon and keeps A, AAAA and PTR records in step with
the containers; a DNS server answers from those records. The code is
`src/crates/docker-dns-rs/src/`; paths below are relative to it.

The records are right only if a long chain of events, inspects and cache entries
stays consistent while the daemon runs ahead of its own event stream. That chain
is what the specifications here are about.

## 1. Inventory

| component | source | state | operations | interacts with |
|---|---|---|---|---|
| Docker event monitor | `docker/monitor.rs` | `containers` (id -> names, network -> addresses), `networks` (id -> registered zones) | `start`, `consume_events`, seven event handlers | daemon (list, inspect), record table, catalog, event channel |
| DNS record table | `table.rs` (`AuthorityWrapper`) | forward authority, `reverse_zones` (subnet -> authority) | `add`, `rename`, `remove_address`, `add_reverse_zone`, `remove_reverse_zone` | called by the monitor only; its authorities are read by the DNS server |
| Subnets and reverse zones | `docker/monitor.rs` `parse_subnet*`, `zone_name` | none | arithmetic on prefixes | monitor |
| Names of containers | `docker/monitor.rs` `append_compose_names`, `get_all_names_*`, `to_full_names` | none | from labels and names to DNS names | monitor |
| Docker daemon, twistlock client | outside the repository | containers, networks, event stream | list, inspect, `produce_events` | monitor, listener task |
| Task lifecycle and shutdown | `main.rs`, `shutdown.rs`, `signal_handlers.rs`, `task_tracker_ext.rs`, `utils/task.rs` | cancellation token, task tracker, channel of 50 events | spawn, cancel, 10 s grace period | everything |
| DNS request handler | `dns_listener.rs` | static intercepts, catalog | one lookup per query | catalog |
| Configuration | `config.rs` | none | parse the command line | `main.rs` |
| Glue | `build_env.rs`, `build.rs`, `utils.rs`, `docker.rs`, `crates/shared` | none | none | none |
| Python original | `src/docker-dns` | | the program this one rewrites | not part of the system |

What is hard in it, and what would be correct:

* **Inspects from the future.** A handler asks the daemon for the state *now*,
  while events that lead to that state are still queued. Start, connect,
  disconnect, die and rename events are therefore handled against a state they
  do not describe. Correct: once the queue is empty the records are exactly
  those of the running containers, and no record is ever left without a cache
  entry that can remove it.
* **Two tasks without an order.** `docker_listener` subscribes to the events and
  `start()` lists networks and containers; nothing orders the two, so events may
  be lost for good.
* **`start()` reads twice.** Networks first, containers later, with changes in
  between.
* **Shared zones.** Two networks that exist one after the other may be cut into
  the same reverse zone, or into zones that contain each other. Correct: an
  address has at most one registered reverse zone, `reverse_zones`, the catalog
  and `Monitor.networks` agree, and a PTR record never outlives its A record.
* **Partial failure.** An inspect fails, or a name is not a DNS name, and the
  handler stops half way.
* **Records have no owner.** `rename` moves every record of a name, also those of
  another container which has taken that name in the meantime.
* **Shared names.** Containers may share a compose name (one-off runs of a
  service all count as number 1), and a container may be called like a
  service. Correct: a record that one of them withdraws is one that no other
  cache entry stands for; the code does not ensure it (see 6).
* **Lock by lock.** Queries read the authorities between two sections of a call
  of `table.rs`, and contend with the monitor for the catalog. Correct: a query
  sees a difference in the names the call is about and in no others, each call
  amounts to one atomic step when it ends, and neither side starves.
* **Rounding.** A subnet is cut into zones at octet or nibble boundaries, the
  monitor finds a zone by address and the catalog by name. Correct: both find
  the same zone, and exactly one.
* **Static records.** A name with a static record hides a container of that
  name from the catalog. Correct: but for such a name, reverse and forward
  answers agree.
* **Shutdown.** Tasks end for many reasons, at any await; `start()` and the
  handlers do not watch the cancellation token, and the bounded channel makes
  the producer wait for them. Correct: whatever ends, everything ends, with the
  exit code of what ended it, and no event in the channel is lost before.

`PROJECT.json` lists each hazard at its line with the properties that cover it.

## 2. Modules

```
Addressing        addresses, networks, reverse zones, the partition assumption
  |-- RecordTable          table.rs, a call is a step
  |     |-- RecordCalls         specification of those calls (abstract)
  |     |-- AuthorityWrapper    table.rs, lock by lock; implements RecordCalls
  |     |     `-- Resolver      dns_listener.rs, between the lock sections
  |     |           |-- MCResolver
  |     |           `-- WrapperProofs    (with RecordTableProofs)
  |     |-- RecordTableProofs   lemmas on table.rs
  |     `-- Monitor             monitor.rs, with DockerDaemon and RecordTable
  |           |-- MCMonitor
  |           `-- MonitorProofs -- RecordProofs -- CatchUpProofs
  `-- DockerDaemon         the daemon and its event stream (external)

Subnets           parse_subnet and zone_name: what Addressing assumes
  |-- MCSubnets
  `-- SubnetsProofs
Names             append_compose_names; MCMonitor takes ComposeNames from it
  `-- NamesProofs
Service           what the process promises (abstract)
  `-- Lifecycle   main.rs and the loops of the tasks; implements Service
        `-- LifecycleProofs
```

### Addressing
`parse_subnet` as a constant: `ZonesOf[n]` is the set of octet (IPv4) or nibble
(IPv6) aligned zones of network `n`, `Covers[z]` the addresses of a zone.
`AddressingAssumption` says what the doc comment of `parse_subnet` says
(monitor.rs:209-221): the zones of a network partition its subnets. `Subnets`
shows it of the code.

### RecordTable
A table is a record `[fwd, zones, ptr]`; each call of `table.rs` that changes
records is a function from tables to tables. `fwd` is a set of pairs: a
`RecordSet` is the set of addresses paired with its name, and a set that becomes
empty is removed by the code as well. `find_reverse_authority` scans a `HashMap`
in arbitrary order; `Finders(t, ips)` is the set of all outcomes of such scans,
and a caller picks any of them, so every order of iteration is explored.

| code | definition |
|---|---|
| `upsert`, `add` | `Upsert` |
| `remove_record`, `remove_address` | `RemoveAddresses`: `Err` without a forward record, before the PTR is touched |
| `rename_records`, `rename` | `Rename`: every address of the old name, whoever it belongs to |
| `add_reverse_zone`, `remove_reverse_zone` | `AddReverseZones`, `RemoveReverseZones`: the authority goes with its PTR records |

### RecordCalls and AuthorityWrapper
`RecordCalls` is the abstract specification: one step for each call, with the
functions of `RecordTable`, on the table and the catalog. `AuthorityWrapper` is
the same code at the grain of its locks. A call is begun by `Add`,
`RemoveAddress`, `RenameCall`, `RegisterZone` or `DeregisterZone`, which put its
lock sections into `todo`; each section is an action, and may put further
sections in front of the rest.

| code | sections |
|---|---|
| `upsert` | `AppendForward`, `AppendPtr` |
| `remove_record` | `RemoveForward`, then `RemovePtr` if there was a record |
| `rename_records`, for A and for AAAA | `TakeOld`; for each address `MoveNext` and an upsert; `MoveEnds` |
| the loop of `register_network` | `InsertZone`, `UpdateCatalog` |
| the loop of `deregister_network` | `DeleteZone`, `UpdateCatalog` |

A zone is served by an *authority* (`Arc<InMemoryZoneHandler>`), to which
`reverse_zones` and the catalog point separately. A scan of `reverse_zones` finds
the same zone until the map changes (`scan`), as a `HashMap` does. The monitor
task is the only caller, so calls do not overlap. `committed` is a history
variable, the records when the last call ended: the refinement mapping is
`table <- committed.table, catalog <- committed.catalog`, so `CallsAtomic` says
that every call, at its end, is one step of `RecordCalls`.

### Resolver
`handle_request`, for several queries at a time, with the static records of the
command line (`Records`), extending `AuthorityWrapper`: every section of the
monitor is a `MonitorSection`, and those that write the catalog first wait for
its lock (`AwaitCatalog`). tokio's `RwLock` is fair: a reader that comes while a
writer waits is queued, and let in when the writer is done. The lock is held
until the response is sent (`Lookup`), which may fail (`Reply`).

### DockerDaemon (external)
Networks appear and disappear (ids are never reused, networks that exist
together never overlap), containers are created, started, die, are removed,
renamed and attached. Pausing and restarting are no states of their own: a
restart is a die and a start, and a paused container is a running one that
`start()` may find paused, the only place where the code looks (monitor.rs:662).
The stream is in order and without loss after `Subscribe`;
earlier events are not reported. Endpoints are released one by one, before or
after the `die` event. The daemon never waits for the monitor: the stream holds
up to `MaxPending` events that nobody has received yet.

### Monitor
One action per handler, plus the steps of `start()`. The monitor awaits the
daemon at most once in a handler and no other task writes its state, so a
handler is one step taken at the moment of its inspect. `start()` awaits many
times: its two listings and each registration are separate steps, with any
steps of the daemon in between.

| code | definition |
|---|---|
| `Monitor::start` | `StartListNetworks`, `StartRegisterNetwork(n)`, `StartListContainers`, `StartFails` |
| `consume_events` | `Receive(actions)` in every handler, `IgnoreEvent` |
| `register_container_networks` | `Entry`, `Registered`, `RegisteredPairs`, `Overwrites` |
| `register_network`, `deregister_network` | `RegisterNetwork`, `HandleNetworkDestroy` |
| `handle_*` | `Handle*` |
| `to_full_names`, `get_all_names_*` | `FullNames`, `AllNames` |

`Claims(c)` are the records that the cache entry of `c` stands for: its names
times its addresses, what a die event withdraws.

`hazard` is a history variable: it records that one of eleven circumstances has
occurred which weaken what the code can promise. No action reads it. The
properties name the flags they exclude, so each property also documents what
breaks the promise:

| flag | set when | what it costs |
|---|---|---|
| `missed_network` | a network event is emitted with nobody subscribed, after the listing | stale reverse zones |
| `missed_container` | likewise for container events | wrong records until the next events |
| `inspect_failed` | an inspect fails though its object exists | missing records, never retried |
| `rename_refused` | `rename` returns `Err` for a name that is not a DNS name | the old name stays published until the container dies |
| `rename_clash` | `rename` moves a name another cached container publishes | the other container's records move along |
| `rename_stale` | a rename event older than the inspect that cached the container drops a name with records | orphaned records |
| `rename_unfounded` | a rename event makes the cache claim a name that has no records of the container (one `start()` left out, or one that its own rename took) | compose names not found |
| `overwritten` | the start handler replaces cached addresses | orphaned records |
| `claim_lost` | a record is removed that a cache entry still stands for, of another container or through another network | a missing record that no connect event repairs |
| `compose_omitted` | `start()` caches a container that has compose names | the compose names are not published until its next start |
| `paused_skipped` | `start()` lists a running container while it is paused | it is not published until its next start or connect event; none is handled when it is unpaused |

The first two are cleared at the corresponding listing, which makes up for what
was missed before. No property assumes that they do not happen without naming
them, and the runs without a constraint explore the states after them.

### MCMonitor
Five networks (`n1` = 10.0.0.0/23 with an IPv6 subnet, `n2` = 10.0.0.0/24 whose
only zone is also one of `n1`'s, `n3` = 10.0.0.0/16 whose zone contains the
others, `n4` and `n5` apart), two containers, four container names one of which
(`long`) is not a DNS name. The compose names follow from labels by `Names`: two
one-off runs that share their names, a container that is called like its own
service, and none. A configuration takes a subset of each.

### Subnets
`parse_subnet_ipv4` and `_ipv6`, and `zone_name`, on addresses that are numbers
of any width. Docker creates and destroys subnets, `register_network` and
`deregister_network` follow; `IpNet`'s operations and the names a client asks
for (`ReverseName`, from the number and not from the octets) are external. The
code's boundaries for octets and nibbles are one definition, `Boundary`, because
the two functions differ in a constant only.

### Names
`append_compose_names` as a function of the labels of a container. A name is the
sequence of its dot-separated parts, so that a service called `1.web` beside one
called `web` is in the model; a missing number and one that does not parse are
the same value, `None`.

### Service and Lifecycle
`Lifecycle` is `start_tasks`, the three tasks it spawns and the end of the
process. A step of a task leads from one await to the next.

| code | definition |
|---|---|
| `start_tasks` before the `select!` | `SetupFails`, `SpawnMonitor`, `SpawnListener`, `SpawnDns`, `BindFails` |
| its biased `select!` | `PollToken`, `RegisterSignals`, `PollSignals`: token, SIGTERM, SIGINT, and the handlers are registered by the first poll |
| the rest of it | `CancelToken`, `TasksDone`, `GraceExpires`, `Exit` |
| `docker_event_monitor`, `consume_events` | `MonitorStarted`, `StartFails`, `RecvToken`, `Take`, `Handled`, `HandlerPanics` |
| `docker_listener` | `Connected`, `EventArrives`, `Send`, `ListenerCancelled`, `StreamEnds` |
| `dns_handler`, `set_up_dns_server` | `DnsCancelled`, `ServerStops`, `Drained` |
| `_guard` of a task | `GuardDrops`, after which the token is cancelled; the receiver is dropped before it where `consume_events` owns it, and after it (`ReceiverDrops`) where `start()` failed and it is still an argument |

`Service` is what a supervisor of the process relies on: it starts, serves,
stops for a cause that has happened, and exits with the code of that cause
(143 for SIGTERM, 130 for SIGINT, 1 otherwise). `Lifecycle` implements it under
the mapping `Status`, `SomeTaskEnded`, `pending`, `reason`.

`ListenerWatches` says at which of its awaits `produce_events` (in twistlock,
outside the repository) notices a cancelled token. The runs assume the least
that its signature suggests, the wait for the next event: a listener that
connects or sends is not cancelled.

## 3. Properties and runs

| run | instance | checks | shows |
|---|---|---|---|
| `networks` | 3 overlapping networks, one dual-stack, 1 container, failing inspects | `OneReverseZone`, `ZonesAgree`, `PtrBacked`, `Sound`, `Complete` | zones and records stay consistent through every order of network events |
| `two_containers` | 2 containers, 2 addresses | `Sound`, `Complete` | addresses handed from one container to the other |
| `name_changes` | 1 container called like its service, 3 names, one not a DNS name | `TypeOK`, `CatchUpInv`, `Sound`, `Complete` | renames to and fro, with restarts; a rename takes the record of an alias |
| `renames` | 2 one-off runs of a service, 3 names | `RecordsOwned`, `ClaimsPublished`, `PtrBacked`, `Sound` | containers that take over each other's names; a record with two claims |
| `settling` | 2 containers, 1 network with two addresses, three late events, fairness | `Converges` | a container left alone gets and keeps its records, although the other one takes what it gave up and never rests |
| `overlapping_zones` | as `networks` | `AtMostOneReverseZone` | **violated**, see 6 |
| `late_reverse_zone` | 1 container, 1 network | `PtrComplete` | **violated**, see 6 |
| `stale_records` | 1 container, 1 network | `StaleRecordsRemoved` | **violated**, see 6 |
| `lost_claim` | 2 one-off runs of a service | `SkippedWhenRegistered` | **violated**, see 6 |
| `replies` | 1 query, 2 names, an IPv4 and an IPv6 address with a zone each, a static record, fairness | `ResolverTypeOK`, `WrapperInv`, `RenameMoves`, `PtrHasForward`, `CatalogFollows`, `CallsAtomic`, `PtrConfirmed`, `RepliesSettled`, `QueriesAnswered`, `CallsEnd` | what is visible between lock sections, and that nobody starves at the catalog |
| `subnets` | pairs of subnets of 8-bit addresses, both families | `TypeOK`, `BoundariesFit`, `Partitioned`, `Coarsest`, `Routed` | octets and nibbles |
| `shutdown` | channel of 2, 4 events, fairness | `TypeOK`, `MainInv`, `TokenHasCause`, `LostOnlyInShutdown`, `NoInternalDeadlock`, `OrderlyExit`, `ServiceSafety`, `ServiceEnds`, `BacklogHandled` | every way to stop, and every event handled where the daemon answers |

Records and zones:

* `OneReverseZone`: an address is covered by one registered zone at most.
* `ZonesAgree`: `reverse_zones`, the catalog and `Monitor.networks` are copies of
  one fact.
* `PtrBacked`: a PTR record lies in the registered zone of its address and
  mirrors an A or AAAA record.
* `RecordsOwned`: each A or AAAA record is claimed by a cached container;
  `ClaimsPublished`: each claim is a record. Together: the records are exactly
  the claims.
* `Sound`: caught up, every record is a current name of a container with an
  address that container still has.
* `Complete`: caught up, every running container is found at all of its
  addresses, by its own name and by its compose names where those were published
  and no rename took them.
* `CatchUpInv`: not caught up, where the cache differs from the daemon an event
  that will correct it is in the stream.
* `Converges`: the liveness counterpart, while other containers never rest and the
  stream need never be empty.

Between lock sections:

* `WrapperInv`: wherever a call is, the records and zones are those of before
  the call with what its sections have changed so far, and no two zones have one
  authority.
* `RepliesSettled`: a call in progress changes the answers
  about its own names only, and a zone comes and goes in one piece.
* `RenameMoves`: an address that is renamed may be found under neither name
  while it is on its way, never under both, and is not lost.
* `PtrHasForward`, `PtrConfirmed`: a reverse lookup names hosts that resolve
  back, but for a record that is being withdrawn and a name that a static record
  hides.
* `CatalogFollows`: no records are written to an authority that answers no
  query, and none are answered from one that is written no more.
* `QueriesAnswered`, `CallsEnd`: every query is answered and every call of the
  monitor ends, however many of the others there are.

Zones:

* `BoundariesFit`: the rounded prefix is the next boundary and one that
  `subnets` accepts, `Partitioned`: zones cover the subnets, no address twice,
  `Coarsest`: with as few zones as possible, `Routed`: the catalog finds, by
  name, the zone that the monitor finds by address.

The process:

* `ServiceSafety`, `ServiceEnds`: it is a `Service`, and stops whatever ends.
* `TokenHasCause`: a failure is reported only when a task has ended.
* `LostOnlyInShutdown`: events in the channel are lost in a shutdown only.
* `NoInternalDeadlock`: a shutdown that is stuck waits for the daemon or for a
  client, never for tasks that wait for each other.
* `OrderlyExit`: a task is cut off only after the grace period, after a failed
  bind, or by a signal that has no handler.
* `BacklogHandled`: a channel that filled up during `start()` is worked off.

The runs of `Monitor` allow deadlock because the daemon may have nothing left to
do: all containers and networks are gone and every event is handled. In
`Lifecycle` the end of the process is the action `Terminated`, and deadlock is
checked.

### Bounds
* `MaxPending` (1 to 3) limits the events that are emitted and not received, not
  their total: the runs are unbounded in length. Two queued events are the least
  that make a handler see a state that is newer than the *next* event
  (disconnect and connect again); three add a die, a start or a rename around
  that pair. The theorems hold for every length.
* `Settling` has a queue of three as well, so that the records of the container
  left alone are published from inspects of the future and by events that are
  out of date, next to a stream that is never empty. To afford that for a
  liveness property it leaves out the behaviours of which `Converges` says
  nothing: `SettlingSpec` is `FairSpec` with `Unwaived` in every state, no flag
  raised that the property excludes. Such a flag is never withdrawn, but for
  `missed_container`, which `Unwaived` therefore allows.
* `MayBePaused` is true in `networks` and `two_containers`, where a container may
  be paused during the listing of `start()`, and false elsewhere to keep those
  runs small. The theorems hold with both.
* `NothingMissed` restricts `Renames` to runs in which the listener subscribed
  before `start()` listed; the other runs have no such restriction.
* One or two containers: interference between containers is pairwise (a shared
  address, a shared name). Three networks are the least for "the same zone" and
  "a zone inside another" to occur together.
* `Capacity` 2 and `MaxEvents` 4: the channel fills, the producer blocks on the
  third event, and one more arrives after it is released. The theorems hold for
  every capacity and number of events.
* `Authority` has two elements for two zones, and `RegisterZone` takes place
  while one is left: a zone is replaced while the other one is gone. An
  authority that nothing points to is as good as a fresh one.
* `replies` has one address of each family, so that a rename is half done
  between the A and the AAAA record set; the addresses of one set follow one
  another in the same way. Its zones are disjoint, as those of networks that
  exist together. Calls do not overlap, so behaviours of one call after another
  cover all. One query is enough: queries do not change what others read, and
  the fair lock serves a reader or a writer after those that came before it.
* Octets of 4 bits and nibbles of 2, two octets to an address: IPv4 has
  boundaries at /4 and /8, IPv6 at /2, /4, /6 and /8. Every prefix length is
  tried with the addresses of `Sample`: the ends of the range, both sides of the
  middle, and addresses whose octets or nibbles all differ. Taken with a short
  prefix such an address has a host part.

### Fairness
`Monitor.FairSpec` assumes weak fairness of `Subscribe` and of `MonitorStep`
(`Fairness`, also that of `SettlingSpec`). A task that can run is polled by
tokio, and a handler that has begun also ends when the daemon answers; over TCP
the timeout given to `Daemon::build` ends the request at the latest, over the
UNIX socket there is none (config.rs:68) and the answer is assumed. `StartFails`
is not among the fair steps: it may happen, or never. Nothing is assumed of the
daemon's events.

`Lifecycle.FairSpec` assumes of each task that it goes on when it can, of the
timer that it fires, and nothing of the daemon, of clients or of signals:
`ServiceEnds` holds for a daemon that never answers. `BacklogHandled` has a
premise of its own, `DaemonAnswers`: requests return, as above. `GraceExpires` takes ten
seconds to be long for the runtime: the timer fires when only the outside, or a
full channel, can let a task go on.

`FairResolverSpec` assumes that a query that was asked and a call that was begun
go on when they can, which includes that sending a response ends. Nothing makes
clients ask or the monitor call.

## 4. Theorems

They hold for every value of the constants that satisfies the named
assumptions, `MaxPending`, `Capacity`, `MaxEvents` and the width of addresses
included.

| module | theorem | states |
|---|---|---|
| `MonitorProofs` | `TypeCorrect` | `Spec => []TypeOK` |
| `MonitorProofs` | `NetworksInvariant` | `Spec => []NetworksInv` |
| `MonitorProofs` | `OneReverseZoneHolds` | `Spec => []OneReverseZone` |
| `MonitorProofs` | `ZonesAgreeHolds` | `Spec => []ZonesAgree` |
| `RecordProofs` | `PtrBackedHolds` | `Spec => []PtrBacked` |
| `RecordProofs` | `RecordsOwnedHolds` | `Spec => []RecordsOwned` |
| `RecordProofs` | `ClaimsPublishedHolds` | `Spec => []ClaimsPublished` |
| `CatchUpProofs` | `CatchUpInvariant` | `Spec => []CatchUpInv` |
| `CatchUpProofs` | `SoundHolds` | `Spec => []Sound` |
| `CatchUpProofs` | `CompleteHolds` | `Spec => []Complete` |
| `WrapperProofs` | `WrapperInvariant` | `ResolverSpec => []WrapperInv` |
| `WrapperProofs` | `CallsAtomicHolds` | `ResolverSpec => CallsAtomic` |
| `WrapperProofs` | `CatalogFollowsHolds` | `ResolverSpec => []CatalogFollows` |
| `WrapperProofs` | `RenameMovesHolds` | `ResolverSpec => []RenameMoves` |
| `WrapperProofs` | `PtrHasForwardHolds` | `ResolverSpec /\ []ZonesApart => []PtrHasForward` |
| `WrapperProofs` | `ResolverTypeOKHolds` | `ResolverSpec => []ResolverTypeOK` |
| `WrapperProofs` | `PtrConfirmedHolds` | `ResolverSpec /\ []ZonesApart => PtrConfirmed` |
| `WrapperProofs` | `RepliesSettledHolds` | `ResolverSpec => RepliesSettled` |
| `LifecycleProofs` | `TypeCorrect` | `Spec => []TypeOK` |
| `LifecycleProofs` | `MainInvariant` | `Spec => []MainInv` |
| `LifecycleProofs` | `TokenHasCauseHolds` | `Spec => []TokenHasCause` |
| `LifecycleProofs` | `OrderlyExitHolds` | `Spec => []OrderlyExit` |
| `LifecycleProofs` | `LostOnlyInShutdownHolds` | `Spec => []LostOnlyInShutdown` |
| `LifecycleProofs` | `NoInternalDeadlockHolds` | `Spec => []NoInternalDeadlock`, if `"wait" \in ListenerWatches` |
| `LifecycleProofs` | `ImplementsService` | `Spec => ServiceSafety` |
| `SubnetsProofs` | `SubnetsInvariant` | `Spec => []SubnetsInv` |
| `SubnetsProofs` | `TypeCorrect` | `Spec => []TypeOK` |
| `SubnetsProofs` | `BoundariesAlwaysFit` | `Spec => []BoundariesFit` |
| `SubnetsProofs` | `PartitionedHolds` | `Spec => []Partitioned` |
| `SubnetsProofs` | `CoarsestHolds` | `Spec => []Coarsest` |
| `SubnetsProofs` | `RoutedHolds` | `Spec => []Routed` |
| `NamesProofs` | `NamesIdentifyContainers` | `NamesIdentify` |

Assumptions: `AddressingAssumption`, `DaemonAssumption` and `MonitorAssumption`
for the first three modules; `WrapperAssumption` (some of the addresses are IPv4,
and `None` is neither an authority nor a zone) and `ResolverAssumption` (a static
record pairs a name with an address, and no name is an address) for the fourth;
`LifecycleAssumption` (a channel holds at least one event) and
`SubnetsAssumption` (octets have an even number of bits, addresses at least one
octet) for the others. TLC
evaluates all of them in the runs. Three theorems have a hypothesis:

* `ZonesApart` says that the registered zones that cover an address are one. It
  is what `OneReverseZone` proves of the monitor while it has missed no network
  event; the run `overlapping_zones` shows the case in which it fails.
* `"wait" \in ListenerWatches`: a listener that waits for the next event notices
  a cancelled token, the least that the runs assume. One that does not could be
  the task that everyone waits for.

**Zones.** That registered zones do not overlap is not inductive: a create event
is handled long after the network was created, with other networks registered
that may be gone by then. `NetworksInv` therefore describes the stream as well:

1. networks that exist have disjoint subnets;
2. a queued create is of a network that has existed, a queued destroy of one
   that is gone, and when the create of a network that still exists is queued
   before a destroy, the two networks do not overlap (they existed together);
3. a registered network exists, or its destroy is queued;
4. registered networks are pairwise apart, and `reverse_zones` and the catalog
   are exactly the zones of the registered networks.

When a create event reaches the head of the stream and the inspect succeeds, the
new network exists. A registered one exists too, and (1) applies, or its destroy
is queued behind the create, and (2) applies. Hence (4) is kept. With the
partition assumption no address has two zones.

**PTR records.** `PtrBacked` needs `OneReverseZone` in every state in which a
record is added, moved or removed: `remove_record` looks the reverse zone up
again, and only with a unique answer does it find the zone the record was put
in. `RecordTableProofs` has one lemma for each call of `table.rs` (it keeps the
table well formed, and it keeps the PTR records backed when no address has two
zones); `MonitorBacked` applies them to every handler.

**Owners and claims.** `RecordsOwned` is inductive together with `CacheInv`: the
cache is empty while `start()` runs, and an absent entry has no names. A record
can lose its claim in exactly three ways, the flags the property excludes;
`MonitorClaims` shows handler by handler that there is no fourth. For a rename,
the records that move must all be the renamed container's (no clash), and the
names it loses must not be those of other records (not stale).
`ClaimsPublished` is the converse: a claim loses its record by a rename that
takes it from another container or that caches a name without records, or when
one of two claims to a record is withdrawn; `MonitorPublishes` shows that every
other step keeps it. Where none of these flags is set, `Monitor.containers` and
the forward records are the same relation in two forms.

**Catching up.** `Sound` and `Complete` speak of a stream that is empty, which no
single step leads to; `CatchUpInv` says what holds before. The stream
(`StreamCurrent`): every rename in it is continued by the next one or leads to
the name the container has; a die that is in it is followed by a start if the
container runs, and so on for each event and its opposite. The cache
(`CacheFollows`): an address that the container has lost has a disconnect or die
event still to come, one that it has got a connect or start event; without a
rename to come the cached names are the daemon's; and of the names that the
container has had since the oldest rename in the stream, one is published at all
of its cached addresses, because a rename event withdraws the old name only when
it publishes the new one. The daemon's steps keep it because they announce what
they change (`DaemonAnnounces`); of the handlers, those that inspect write what
the daemon has now, and the others write what their event says, which the events
behind it correct (`StartFollows`, `DieFollows`, `DisconnectFollows`,
`ConnectFollows`, `RenameFollows`; `OthersFollow` for the containers that the
event is not about). With an empty stream nothing is left to correct: `Sound` is
`CatchUpInv` with `RecordsOwned`, `Complete` is `CatchUpInv` with
`ClaimsPublished`.

**Lock by lock.** A property of what a query sees in the middle of a call is not
inductive by itself: the sections left in `todo` do what is right only for the
records that the sections before them have left. `WrapperInv` names every place a
call can be in (`Adding`, `Removing`, `Zoning`, `Renamed`), each with its
sections left and with the records and zones as a function of those before the
call (`committed`). A rename is described by four sets of addresses: taken from
the old name, re-added to the new one, without the old PTR record, with the new
one. One lemma for each place shows which places the next section leads to; the
last section leaves what the operator of `RecordTable` computes, for the outcome
of the scan that `scan` is (`ScanIsFinder`), and so takes the step of
`RecordCalls`. That the authorities of different zones are different, and those
of no zone empty (`AuthoritiesInv`), makes a write to an authority one to a
single zone, and a new zone empty. From `WrapperInv`: `CatalogFollows` at once,
`RenameMoves` from the four sets (`RenamedShape`), `RepliesSettled` because every
place has changed records of the names of the call only and the PTR records that
the catalog serves are those of before the call until a zone is swapped in one
piece (`ChangedAbout`). `PtrHasForward` and `PtrConfirmed` also need that the
records before the call were backed, which follows from the refinement and from
the lemmas on `RecordTable` that `PtrBacked` rests on, where `ZonesApart` holds.

**Process.** `MainInv` ties the position of `start_tasks` to its decision and to
what it leaves behind; `TypeOK` needs it for the exit code. The refinement
(`ServiceTaskStep`, `ServiceMain`, `ServiceSignal`) maps each step of a task to
`Degrade` or a stutter, and each step of `start_tasks`, the exit and each signal
to the action of `Service` it stands for; `Kill` needs that a stop because of a
signal has both handlers registered, which `MainInv` says. `WaitInv` adds which
task holds which end of the channel in which phase: events are lost when the
receiver goes, which it does with the monitor's task only, and that task's guard
cancels the token, before or after it; and in a shutdown a task that waits for another one finds the
end of the channel that it needs still open, or closed for good.

**Subnets.** The theorems are about addresses of any width, and so about 4 and 16
octets of 8 bits, where TLC sees short addresses; they show that
`AddressingAssumption`, which the other theorems start from, is true of what
`parse_subnet` computes.

* `SubnetsInv`: subnets in use do not overlap, `reverse_zones` holds exactly
  their zones and the catalog exactly the names of those. To be kept by a
  destroy it needs that no zone belongs to two subnets (`CommonOverlaps`: with an
  address in common they would overlap) and that no two zones have one name
  (`ZoneNamesDiffer`).
* Sizes. `BoundaryIsNext` is arithmetic: `div_ceil(max(p, 1), b) * b` is the first
  multiple of `b` at or after `max(p, 1)`, and not past the width because the
  width is itself a multiple of `b`. All else needs that `2^(m+n)` is
  `2^m * 2^n`. The provers know no law of exponents and cannot use the library's
  induction over numbers, so `PowerSet` reads `2^n` as the number of subsets of
  `1 .. n`, and `Induction` takes a least counterexample from the well-founded
  order of finite sets. Then the zones tile their subnet (`ZonesCover`), and
  `Overlap`, which compares two first addresses, says that there is an address in
  common (`OverlapIsCommon`): `Partitioned`, `Coarsest`.
* Names. The labels of `ReverseName` are the digits of the address, octets or
  nibbles (`LabelIsDigit`), and two addresses agree in their leading digits where
  they agree after division by the size of the rest (`SameDigits`). So the name
  of an address ends in that of a zone exactly where the zone contains the
  address (`ZoneAnswers`): `Routed`.

**Names.** `NamesIdentify`: two containers whose labels give them a name in
common are the same instance of one service of one project, or the service of
one is called like an instance of the other's. A name ends in its project
(`AppendInjective`) and an instance name starts with its number (`NumberFirst`),
so both can be read off. The first case is that of the runs `renames` and
`lost_claim`.

Only model-checked are the liveness properties (`Converges`, `ServiceEnds`,
`BacklogHandled`, `QueriesAnswered`, `CallsEnd`): liveness under fairness is out
of the prover's reach.

## 5. Abstractions

* A network is known by one identifier. The code uses the id for `networks` and
  the name as key of a container's `networks`; Docker's names of networks that
  exist together are unique, and reuse of a name by a later network is left out.
* Names are canonical: `LowerName` and the comparison of `Name` ignore case.
* `handle_container_rename` appends the domain to the text of a name and parses
  the result, `to_full_names` parses the name and appends the domain. `Fqdn` is
  one map for both: they agree but for a name that ends in a dot, which Docker
  accepts and which the rename handler turns into two dots in a row.
* Whether a container is paused is a choice at the moment of the listing: nothing
  in the code depends on it at any other time.
* The names that `list_containers` reports are taken to be those of an inspect,
  without the leading slash, which the client strips.
* The label names of a container (`ComposeNames`) do not change, which holds in
  Docker; what they may be is in `Names`.
* TTLs, serial numbers and logging are left out. NXDOMAIN and an empty answer are
  not told apart, and queries outside the domain or of other types are left out.
* The lookup in an authority, under that authority's own lock, is one step with
  the rest of an answer.
* An event without the attributes its handler needs is `IgnoreEvent`.
* A reverse zone whose authority cannot be set up is skipped by the code with a
  warning; `ZonesOf` is the set of zones that can.
* A client asks for the types a name can have records of, or for ANY; any other
  type has an empty answer (`Types`).
* Each model has the grain its questions need: `Monitor` treats a call of
  `table.rs` as a step because `AuthorityWrapper` shows that it amounts to one;
  `Lifecycle` counts events because what they say does not matter to it.

### Not modelled
* Configuration but for the static records, and build information: conversions
  of strings at start, without state. An error there is `SetupFails`.
* A panic of `start_tasks` itself, and one in hickory's tasks.
* The wire format of DNS and the inside of hickory, tokio, twistlock and ipnet:
  external, modelled from how the code uses them.
* `src/docker-dns`, the Python program that this one rewrites.

## 6. Where comments and code disagree

* `overlapping_zones`: table.rs:86-89 says that at most one registered reverse
  zone can contain an address. A network destroyed between the listing of
  `start()` and the subscription of `docker_listener` stays registered for
  ever, and a later network may overlap it; `find_reverse_authority` then
  depends on the order of a `HashMap`.
* `late_reverse_zone`: monitor.rs:654-655 says that zones are registered first
  so that PTR records are in place before containers are processed. A network
  created after the listing of networks and before that of containers has no
  zone when its containers are registered, and the later connect event returns
  early because the addresses are known (monitor.rs:442).
* `stale_records`: monitor.rs:440 says that the stale records of other addresses
  are removed first. `register_container_networks`, run by the start event,
  overwrites the addresses (monitor.rs:288), and their records can never be
  removed again.
* `lost_claim`: monitor.rs:439 says that a connect event is skipped when the same
  addresses were registered before. Two one-off runs of a compose service share
  a name; when the first gives up an address and the second gets it, the second
  one's start event may be handled (its inspect shows the address) before the
  first one's disconnect event, which then removes the record they share. The
  second one's connect event is skipped, and the service is not found until the
  container is started again.

## 7. What is left

1. `ZonesApart` as a theorem instead of a hypothesis: a composition of the monitor
   with the lock-level table, in which only zones of existing networks are
   registered.
2. Reuse of a network's name by a later network, which shares the key of a
   container's `networks` but not that of `Monitor.networks`.
