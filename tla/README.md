# Silk in TLA+

A model of Silk: how container hosts obtain, renew, lose and route subnets of an
overlay network, and how containers are connected to it. The modules are
translated from the Go sources under `src/`; TLC checks them on small instances
and TLAPS proves every safety property the passing runs check, of the pool, the
controller, the daemon, the converger, the datastore, the CNI plugin and two
daemons with one controller, for every value of the constants.

## 1. The system and its parts

| Part | State | Operations | Talks to |
|---|---|---|---|
| silk-controller (`controller/leaser`, `controller/handlers`) | none of its own | acquire, renew, release, list | the SQL table |
| lease database (`controller/database`) | table `subnets`: host, subnet, hardware address, last renewal; three UNIQUE constraints | SELECT, INSERT, UPDATE, DELETE, one statement at a time | - |
| CIDR pool (`leaser/cidrpool.go`) | two fixed sets of subnets: blocks, and single addresses cut from the first block | choose an available one, membership | - |
| silk-daemon (`cmd/silk-daemon`) | its lease, the health check's answer | discover, renew or acquire, replace the VTEP, serve, exit | controller, kernel, datastore |
| poller, planner, fatal error detector (`daemon/poller`, `daemon/planner`) | time of the last success | renew, list, converge once per interval | controller, converger |
| VTEP factory (`daemon/vtep/factory.go`) | the kernel's link and its address | create (link, then address), delete, read back | kernel |
| converger (`daemon/vtep/converger.go`) | the kernel's routes, ARP and FDB entries | apply the list, delete what is gone | kernel |
| silk-teardown | none | release, then delete the VTEP | controller, kernel |
| datastore (`lib/datastore`, `lib/serial`) | a locked JSON file of containers | add, delete, read all | - |
| silk-cni (`cmd/silk-cni`, `cni/`) | veth pairs, IPAM allocations | ADD, DEL | daemon, datastore, kernel |
| migrator, metrics, health endpoint, configuration | - | start-up retries, gauges, ping | database |

What makes it hard:

- The controller takes no lock and opens no transaction. Several instances
  serve at once, so the statements of different requests interleave freely, and
  a statement that reports an error may have taken effect.
- An expired lease is found by one statement, deleted by a second and inserted
  for another host by a third.
- The daemon's view of its lease is the address on a link that outlives it. The
  link exists before it has the address.
- Answers are lost or late, and time goes on meanwhile: the host's partition
  tolerance races the controller's expiry.
- A convergence cycle is a dozen netlink calls, any of which ends it.
- The daemon decides from the datastore whether the VTEP may go while CNI calls
  begun earlier are still under way.
- The datastore is one file that several processes decode, truncate and write
  again, and each of them may be killed at any moment.
- An ADD or DEL of silk-cni touches four things (addresses, devices, namespaces,
  the datastore), cleans nothing up when it fails, and runs beside others.

What it means for each part to be correct:

- pool: what is handed out never overlaps what is out;
- controller: leases of different hosts are disjoint as long as renewals present
  what was handed out; a 200 answer is true of
  the table; every request ends; routable and reclaimable exclude each other;
- daemon: it serves only a subnet its VTEP carries and, once it has renewed, only
  a lease the controller still keeps for it; it does not take the VTEP away from
  containers; it comes to serve;
- converger: it never breaks a path that works, a cycle without an error has
  converged, and it converges in the end;
- datastore: to its users it is an atomic map;
- silk-cni: a successful ADD has wired and recorded its container, a DEL that met
  no failure leaves nothing that DEL could find, no two containers have one address, and every call
  returns;
- all hosts together: what two daemons serve does not overlap.

`PROJECT.json` lists the hazards line by line.

## 2. The modules

| Module | Models | Correspondence |
|---|---|---|
| `CIDRPool` | `cidrpool.go` | Addresses are numbers of `AddrBits` bits (32 in the code). A CIDR is an address with a prefix length, so equal records are equal strings. `getAvailable` is the set of subnets the random choice may return. |
| `Lease` | `client.go`, `hwaddr.go` | The lease record; the hardware address is a function of the subnet's address. |
| `LeaseController` | `lease_controller.go`, `database_handler.go`, the HTTP handlers | One action per SQL statement; what the handler computes between two statements belongs to the first. `pc[p]` is the next statement of handler `p`. An outcome "error" is possible at every statement, for writes with and without effect. |
| `LeaseRegistry` | the promise | An atomic map from hosts to different subnets, disjoint but for those in `Foreign`, which the registry never handed out itself. |
| `Converger` | `converger.go` | One action per netlink call. The kernel's tables are external and modelled by the keys netlink replaces and deletes by: a route by destination, an ARP entry by address, an FDB entry by hardware address (and by both on deletion). |
| `Daemon` | `silk-daemon/main.go`, `planner`, `poller`, `factory.go`, `silk-teardown` | One host. VTEP, datastore and the controller's row survive the process. The controller is this host's row plus answers that come, come as errors or never come; a call has a deadline and time cannot pass it. Of silk-cni only the learning of the subnet and the storing and removing of a container are kept. |
| `Datastore` | `datastore.go`, `file_serializer.go` | One action per system call: lock, decode, truncate, write. The deferred `Close` is part of the last. An empty file decodes to no entries (`io.EOF` is passed over), a file written in part to an error. `pool` is the map between decoding and encoding. |
| `AtomicStore` | the promise | A map that each call changes or returns in one step, or that loses everything. |
| `CNI` | `silk-cni/main.go`, `cni/lib`, `cni/config` | `Datastore` extended with the calls of silk-cni, one process for each container. A step is a call that changes the kernel, host-local or the store; the netlink calls that set up one end of a pair are one action whose failure leaves any prefix of them. `pairs` are veth pairs, with the namespace and name of the container's end. host-local, namespaces and device names are external. |
| `Silk` | two hosts and one table | Two instances of `Daemon` over disjoint variables and one clock. A row may not take the other's subnet, an expired lease is reclaimed in two statements, and a request whose client has given up may be served at any later time (`stray`). |
| `MC...` | - | Small instances for TLC. `MCCIDRPool` adds a client of the pools. |
| `...Theorems` | - | Proofs. |

Definitions whose name spells out a mistake (`MayAddAnySubnet`,
`IsFatalNever`, ...) stand before the definition they vary. No specification
uses them; each is substituted for the correct one to confirm that a property
notices.

## 3. What TLC checks

| Run | Instance | Shows |
|---|---|---|
| `cidr_pool` | all networks and prefixes of a 4-bit address space whose pools have at most 8 members | the two pools tile the network but for its first address; whatever is taken and returned, nothing overlapping is handed out |
| `lease_controller` | 3 hosts, 2 handlers, one block, one single address, one old-network block, renewals of these and of an address under a longer prefix, 2 attempts, clock to 1, expiry 1 | type correctness, leases disjoint but for the one never handed out, agreement on expiry, backed grants, backed renewals |
| `lease_liveness` | 2 hosts, the same pool, renewals of the block and of the single address with the block's prefix, clock to 1 | a leased block overlaps no other lease; the controller implements `LeaseRegistry`; every request is answered |
| `converger` | 2 hosts, subnets at 2 (local), 4, 6 and one outside the network, 2 changes of the list, 1 failing call, 1 unresolved neighbour | connected route stays, working paths stay, success means converged, convergence in the end |
| `daemon` | one container, one block, two old subnets (one inside the network, one outside), clock to 8, 1 crash or teardown, 4 failing calls | served subnet is on the VTEP, served lease is live, only late ADDs lose the VTEP, a restart on an intact host renews its block, the daemon comes to serve |
| `cni` | 2 containers (one with 3 calls, one with 1), 2 addresses, the daemon as a reader, 1 failure or kill | a successful ADD is wired and stored, addresses are unique, what a DEL leaves, also after a failed ADD, free addresses are usable, the store is atomic, every call returns |
| `silk` | 2 hosts, 1 block, clock to 6, expiry 5, 1 crash or teardown, 2 failures | disjoint ranges served, a served subnet stays leased, and the shared table implements `LeaseRegistry` |
| `reclaim`, `old_network`, `neighbour`, `in_flight`, `single_restart` | as above | five places where the code does not do what a test or the documentation says; the violated property quotes the sentence |

The violations:

- `reclaim`: a renewal between the SELECT of the oldest expired lease and its
  DELETE does not save the lease (`lease_controller.go:236`). Leases stay
  disjoint all the same, as `DisjointSubnets` shows: the host that lost its lease
  has its next renewal refused, or inserted again if its subnet is still free.
- `old_network`: a reclaimed subnet is not checked against the pool, so after a
  change of network an old subnet is handed out (`lease_controller.go:230`).
- `neighbour`: an incomplete ARP entry read before the cycle leads to the
  deletion of the permanent one set by it (`converger.go:79`). The next cycle
  repairs it, hence `EventuallyConverged` holds.
- `in_flight`: an ADD in flight stores its container after the daemon has read
  the datastore and before it deletes the VTEP (`silk-daemon/main.go:149`).
- `single_restart`: with `single_ip_only`, a restarted daemon presents its
  address with the block prefix and is refused (`silk-daemon/main.go:283`). When its
  row has been reclaimed the same request is inserted instead: see `Rebuilt` below.

**Bounds.** Two handlers are enough for every race between two requests, and
three hosts for a reclaim with a bystander. One subnet of each kind keeps the
pool exhausted most of the time, which is when reclaiming starts. Two attempts
make the retry loop both continue and end. Expiry 1 within a clock of 1 lets a
lease expire and be renewed or reclaimed; `reclaim` and `old_network` have a clock of
2, in which it expires again. In `Daemon` the times 5, 1, 2 and 1
(expiry, poll, tolerance, client timeout) meet `TimingAssumption` with equality:
with an expiry one second shorter TLC finds `ServesLiveLease` violated. A clock of
8 covers a renewal, a partition and a whole expiry after it. In `CNI` three calls
for one container are an ADD, a DEL and another of either, beside any call of
the other; two addresses let a released one be given to the other container or
not. In `Silk` the one block is what both hosts want; a clock of 6 goes one
second past the expiry of a lease granted at the start.

**Symmetry.** Hosts and handlers are interchangeable in `LeaseController`, and
hosts in `Converger`. Symmetry is used for invariants and action properties
only, never for liveness.

**Fairness.** A handler is a goroutine whose statements return, if only with an
error: weak fairness of its steps and of delivering the answer. The poll loop
never stops calling `Converge`, and netlink calls return: weak fairness of the
cycle. The daemon process is restarted by its supervisor, and the controller
serves: weak fairness of both, and of the second half of a teardown. Nothing is
assumed of ticks, crashes, failing calls, lost answers, list changes or CNI
calls. As failures are bounded, liveness says what happens once they stop. The
clock of `Daemon` is bounded too: at its end a sleeping daemon sleeps on, still
serving, so `EventuallyServes` is about start-up and recovery, and not about the
poll loop running for ever. In `CNI` a call that has begun goes on, and the
daemon's too (weak fairness), and `flock` serves those that wait for it (strong
fairness of `Open`, which others enable and disable). Nothing makes the runtime
call ADD or DEL.

A renewal of a lease that is not in the table inserts whatever subnet it presents,
if that string is not there (`lease_controller.go:115`), and `PresentedSubnets` may be
any CIDRs. So leases can overlap: after a change of prefix length within one network,
or for a single-address host whose restarted daemon presents its address with the
block's prefix length (`Rebuilt`). `DisjointSubnets` says that one of two overlapping
leases is then `Foreign`, one the controller never handed out; the registry makes the
same exception. `BlockLeaseIsExclusive` says that rebuilt leases do no harm to blocks:
they lie in the first block of the network, which the block pool leaves out. They may
overlap each other and the single addresses.

`RenewAckBacked` asks for a row of the host stamped since its request began, not for
the subnet presented: between the comparison and the UPDATE, which names the host
only, a release and an acquire can give the host another lease.
No property constrains the kind or age of the lease that an acquire returns, since the
code returns what the host has.

`EventuallyServes` leaves out a host that stays `Wedged`: with a VTEP without an
address (link made, address not: the next start can neither discover nor create
it, until a teardown), or with containers on a VTEP whose address is of another
network or whose lease is not the one in the controller's row, where the daemon means
to exit. Containers on a VTEP whose lease the controller has, or has lost and accepts
again, do not keep the daemon down.

`ServesLiveLease` speaks of a daemon that has renewed once while serving: an
acquire returns an existing lease without renewing it, so before the first
renewal the lease may already be past its expiry. It also takes for granted that
the controller reclaims only expired leases. Run `reclaim` shows a race in which
it does not; a daemon hit by it serves a lost lease until its next poll, when the
renewal is refused and it exits.

The properties of `CNI` name what the code does not promise:

- `AddedIsStored` excepts a write that was cut short between truncation and the
  end of encoding: every entry is gone then (`lost`).
- `DeletedIsGone` speaks of a DEL none of whose own calls failed (`failing`), after
  whatever calls before. An error of its own that it passes over leaves something: of
  host-local, the reservation; of the lookup of the device, which takes any error for
  its absence (`link_operations.go:101`), the device; of the datastore, the entry.
- A pair that an earlier failed ADD did not move or rename is not found by any DEL. It
  stays on the host, or in the namespace until that goes. Its names block the
  address, and the next ADD that is given the address fails: `FreeAddressIsUsable`
  excepts containers one of whose calls failed or was killed (`faulty`).
  `UniqueAddresses` holds all the same, because of that block.
- The datastore keeps the entry of a container whose namespace was gone before
  its DEL (`silk-cni/main.go:296`), and so keeps the daemon from replacing its VTEP.
- Between releasing the address and deleting the device a DEL leaves an address
  that others may be given and cannot use.

Those of `Silk` name two exceptions: `raced`, the race of run `reclaim`, and
`lateRelease`, a release that arrives after silk-teardown gave up and a new daemon
has taken a lease. They speak of daemons that have renewed while serving, for the
reason given above. Without `raced` or without `lateRelease` TLC finds the
properties violated.

Deadlock is checked in every run; `Silk` ends when its clock does.

## 4. What is proved

TLAPS checks every proof; nothing is left open. The constants are arbitrary:
any address width, any sets of hosts and handlers, any subnets that meet the
assumptions.

- `CIDRPoolTheorems`: members of the two pools are CIDRs (`PoolsAreCIDRs`),
  different members share no address and have different first addresses
  (`PoolsAreDisjoint`), a single address with the block prefix length shares none
  with a block (`FirstBlockApart`), and together they cover the network but for its first
  address, and nothing else (`PoolsCoverNetwork`). The argument gives each address
  the index of the block it is in: blocks of a pool have different indices, single
  addresses all lie in the block with the network's own, which the block pool
  skips.
- `PoolClientTheorems`: `PoolTypeCorrect`, `PoolsTile`, `HandsOutDisjoint`, for the
  client of the pools in `MCCIDRPool`. The invariant `PInv` says that the pools are
  those of a network without host bits and that what is out was taken from them;
  the rest is the three theorems above. Here the networks range over all of an
  address space of any width.
- `LeaseControllerTheorems`: `TypeCorrect`, `LeasesDisjoint`, `ExpiryAgrees`,
  `RefinesRegistry`, `GrantsBacked`, `RenewalsBacked`, and under an extra hypothesis
  `BlocksExclusive`, `AcquiresInNetwork` and `LoneReclaimExpired`.
  Disjointness is not inductive: the table only enforces distinct strings. The
  inductive invariant `IInv` therefore keeps three things: the types,
  `UniqueKeys` (what the constraints give), and `Coupled`, what a handler has set
  by the time it reaches a label: an insertion is of a lease record for the host
  of the request. `UniqueKeys` becomes disjointness through `SubnetsDisjoint`:
  different subnets that can occur in the table share no address, `Foreign` ones apart.
  `BlocksExclusive` adds `FirstBlockApart`, for hosts that present what they were
  leased or what `leaseFromVTEPState` makes of it. For the
  refinement, seen through `held`, an INSERT is a grant, a DELETE ends one lease or
  none, and everything else stutters.
  `RenewalsBacked` needs `Fresh`: a handler about to answer a renewal finds only
  rows of its host that were stamped since its request began, since no statement
  brings in a row with a past stamp (`RowsFresh`).
  The last two say what the findings of runs `old_network` and `reclaim` hinge on.
  With `OldSubnets = {}`, and nothing of an old network presented, every acquire stays in the network, by `GrantsBacked` and
  `PoolsCoverNetwork`. With a single handler a reclaim deletes expired leases only:
  `VictimExpired` holds from the SELECT to the DELETE, as nobody else renews.
- `CNITheorems`: `DatastoreIsAtomic`. The inductive invariant ties the
  lock to the steps behind it: a process between decoding and closing is the
  holder, and what it has decoded is the file with its own change. A write counts
  as done when the file is truncated; a kill or error after that is `Lose`.
  Then `CNIUsesDatastore` (every step is a step of the datastore or
  leaves it alone), hence `CNIStoreIsAtomic`; `CNITypeCorrect`; `AddressesUnique`
  from `PairsInv`: names on the host are unique, and a device has the address in
  its pair's name; `AddedContainersStored` from `StoredInv`: a call changes the
  entry of its own container only, and the entry is there from truncation on.
- `CNIWiringTheorems`: `AddedContainersWired` rests on `WiredInv`, which follows
  an ADD from host-local's answer: the address stays reserved, and each step
  finds its pair as the one before left it, since steps of other containers
  leave it alone (`Undisturbed`). `FreeAddressesUsable` rests on `CleanInv`: a pair
  of a container that met no failing call is on its way into an existing namespace, or there under its
  name, where Teardown and the removal of the namespace find it, and its address
  is reserved until a DEL releases it. `DeletedContainersGone` holds after failures
  too and needs `SweptInv`: a device that has its name is in its container's namespace,
  so that Teardown or the removal of the namespace takes it, and a DEL that met no
  failure of its own has released the address. For the entry in the datastore `GoneInv`
  is added: a Delete that fails on its own found a torn file, which only a lost
  write leaves.
- `DaemonTheorems`: `DaemonTypeCorrect`, `ServesItsVTEP`, `ServedLeaseIsLive`,
  `StartUpSparesContainers`, `BlockRestartRenews`.
  `LabelsInv` says what the process may rely on at each label: before it renews
  and while it serves, the link has its lease's address. `ServedLeaseIsLive` needs
  `TInv`, which bounds how far the lease's stamp and the detector's last success
  can be behind the clock at each label; `TimingAssumption` is what the sum of
  these bounds requires. `StartUpSparesContainers` follows from `LateInv`: an ADD
  under way when the daemon starts is late, none begins before it serves, and it
  deletes the VTEP only after it has read an empty datastore. `BlockRestartRenews`
  assumes that all leases are blocks of the configured length (`BlocksOnly`) and is
  the other side of run `single_restart`: `BInv` says that the link has the address
  of the block it was made for, and a block of known length is given by its
  address. The last section says what a host keeps when its row is changed by
  others, for use in `Silk`.
- `ConvergerTheorems`: `ConvergerTypeCorrect`, `ConnectedRouteKept`,
  `WorkingPathsKept`, `SuccessHasConverged`. The invariant `CInv` follows a cycle:
  what has been applied is there (`Applied`), only what was read before and is not
  wanted is marked (`Marked`), and what is there is wanted or will go (`Pending`).
  It rests on the tables having one entry for each key.
- `SilkTheorems`: `SilkTypeCorrect`, `ServedRowIsKept`, `RangesAreUnique`,
  `SilkImplementsRegistry`. The module instantiates `DaemonTheorems` once for each
  host (`D1`, `D2`) and proves the assumptions of the instances from those of
  `Silk`. The inductive invariant `SInv` has the host invariant of each daemon, the
  UNIQUE subnets (`MayLease`), and, until `raced` or `lateRelease`, the bounds `TInv`
  of each on how old its row can be. A step of host 1 is one of `DaemonTheorems`
  for `D1` and leaves `D2` alone; a reclaim of a row that is still expired cannot
  hit a daemon that has renewed, by `TInv`; a request that its client gave up on
  only inserts what `MayLease` admits, renews, or sets `lateRelease`.
  `ServedRowIsKept` follows from `TInv`, `RangesAreUnique` from it and from
  `PoolsAreDisjoint`: different blocks share no address. For the refinement a
  step grants at most one host a block that the other does not hold.

Assumptions, which TLC evaluates in the runs of the modules that make them:

- the network is a CIDR without host bits (so it lies in the address space as a
  whole, `NetworkFits`), and the subnet prefix is no shorter than the network's
  (`NetworkAssumption`; longer in `SilkNetworkAssumption`, which the VTEP
  configuration checks);
- the earlier network shares no address with the present one
  (`OldSubnetsAssumption`);
- renewals present CIDRs (`PresentedAssumption`, which `LeaseValidator` checks);
- facts about powers of two (`ShiftAssumption`);
- listed subnets have no host bits, different first addresses, and a longer prefix
  than the overlay network (`LeasedSubnetsAssumption`; the first theorems show it
  of the pools; rebuilt leases of single addresses, which have host bits, are
  outside it);
- the lease outlives what a cut-off daemon goes on serving (`TimingAssumption`, spelt out
  in `LeaseOutlivesServing`; `SilkTimingAssumption`);
- model values differ from data (`DatastoreAssumption`, `CNIAssumption`,
  `DaemonAssumption`, spelt out in `DaemonConstants`, and `ConvergerAssumption`).

Only model-checked is liveness, which needs fairness and `ENABLED` and is outside
what these provers do: `EveryRequestAnswered`, `EventuallyConverged`,
`EventuallyServes` and `EveryCallReturns`.

## 5. What is not modelled

- the migrator, one bounded retry loop around a migration library before the
  controller serves, and the health endpoint, which pings the database;
- metrics: gauges that change nothing and that nothing reads. `staleLeases`
  subtracts two reads made at different moments and may be negative;
- TLS, logging, process wiring, and unreadable requests (400), which change no
  lease;
- the conversions between configuration, network information and host-local's
  input; the VTEP's configuration beyond its address. Where they fail, the model
  has the failure;
- sysctl switches (`rp_filter`, forwarding, IPv6) and ARP off: only that they fail;
- changes of the prefix length within one network, other than by the subnets a
  renewal presents in `LeaseController`;
- the convergence of leases with host bits (`Rebuilt`): `Converger` takes what the
  pools hand out;
- an ADD that waits for a daemon which took the connection and does not answer
  (`silk-cni/main.go:169` sets no timeout): in `CNI` the daemon answers or the call fails;
- the count of the ten attempts at a hardware address in `BasicSetup`, which ends with
  the address asked for or with an error;
- containers in `Silk`, single-address hosts in `Silk`, and more than two hosts
  there;
- the packages named `fakes`. They hold 8539 of the 12813 lines of Go under `src/`,
  tests and `vendor` aside, are generated by counterfeiter from the interfaces, and are
  linked into no program. The `map` of `PROJECT.json` names 1661 lines of the other
  4274 (39%); most of the rest are imports, interface and structure declarations,
  command-line wiring and the one-line wrappers of the netlink adapter.

## 6. Plan

1. `Silk` with any number of hosts. `DaemonTheorems` is instantiated for each of two
   hosts now; a `Daemon` whose variables are functions of the host would be
   instantiated once, and is what this needs.
2. `Silk` with the datastore of `CNI` in place of the set of containers.
3. A run of `Daemon` with `SingleIPOnly` beyond `single_restart`.
