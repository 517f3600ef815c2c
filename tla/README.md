# Verification of csilvm

csilvm is a Container Storage Interface (CSI) plugin: an orchestrator (CO,
Kubernetes) calls it over gRPC to create, attach, mount, unmount, detach and
delete volumes, which are logical volumes (LVs) of one shared LVM2 volume group.
This directory holds TLA+ models of its logic, the TLC configurations that check
them on small instances, and TLAPS proofs: every safety property that a passing run
checks is also a theorem, for every value of the constants that its hypotheses (section
6) allow.

    tlc -workers 2 -config RequestQueueSafety.cfg RequestQueue
    tlc -workers 2 -config ProvisioningSafety.cfg MCProvisioning
    tlapm RequestQueueProofs.tla

`PROJECT.json` lists every run, the lines each definition models (`map`), the
mutants that show that each property can fail, findings, hazards and theorems.

## 1. The system

| Part | State | Operations | Hard because of |
|---|---|---|---|
| Request path: two interceptors around every handler (`server.go:1811-1848`, chained in `cmd/csilvm/csilvm.go:199`) | two weighted semaphores, a FIFO of waiters | admit or refuse, wait, second look at the context, execute, release | cancellation at every point, hung handlers, panics |
| Provisioning: `CreateVolume`, `DeleteVolume` (`server.go:347-600`, `lvm.go:378-421`) | the volume group | lookup by tag, draw a name, check the size, `lvcreate`, `wipefs`, deactivate; lookup, `lvremove` | retries after lost answers, commands that fail half way or answer too late, crashes |
| Capacity: `GetCapacity` and the checks of `CreateVolume` (`server.go:398-449, 907-944, 1673-1809`, `lvm.go:107-166, 268-300`) | the free extents | parse parameters, devices, free extents, rounding | unsigned arithmetic, boundaries |
| Attachment: `ControllerPublish/UnpublishVolume`, `NodePublish/UnpublishVolume` (`server.go:628-759, 1069-1555`, `mount.go`) | active LVs, iSCSI targets and sessions, mounts, what is on a volume | activate, stage, log in, probe, format, mount, tag, and back | two or more processes, ignored errors, retries, a CO that turns round |
| JBOF targets (`virsh.go:658-718`, `server.go:683-700, 1078-1101`) | the last list of targets, exports | stage on every JBOF, reuse the list for two minutes, log in | a cache with an incomplete key, dropped errors |
| StoLake client (`virsh.go:102-180, 349-435, 585-656, 900-927`, the stubs and messages of `pkg/stolake`) | a connection per call | dial, one message, one invocation with a deadline, close | timeouts that do not stop the command, an agent that dies, hangs or is of another version |
| LVM commands (`lvm.go`) | none | run a command locally or through the StoLake agent | commands that fail, half succeed, or name what is gone |
| Startup: `main`, `Setup`, `Probe`, the lock file (`cmd/csilvm/csilvm.go`, `server.go:186-318`, `lock.go`, `modules.go`) | the socket, the lock file, `s.volumeGroup` | lock, listen, dial StoLake, look the volume group up, serve; die and be restarted | crashes at every point, a dial without a timeout, errors that are only logged |
| Request validation (`validate.go`) and the handlers that read: `ListVolumes`, `ValidateVolumeCapabilities`, `GetCapacity`, the `Get*` methods (`server.go:226-267, 789-1057, 1560-1665`) | the process's flags | check the request, run several LVM commands, answer | other hosts change the volume group between two commands; validators that must agree with handlers |
| Metrics (`metrics.go`) | counters, storage gauges, uptime | count every request, report after four of the handlers, tick | a scope that all calls share, a ticker that is stopped |

A node runs one plugin process; one of them is the controller.  Each process
executes one handler at a time (that is what the request path establishes, and
what the other modules build on); processes interleave, and share the volume
group under the exclusive LV locks of lvmlockd.  The CO repeats every call until
it is answered.  A handler's panic is recovered nowhere: it ends the process, and
the pod is restarted with nothing but what is in the volume group.

## 2. The modules

* **RequestQueue** models `RequestLimitInterceptor` and `SerializingInterceptor`.
  `pc` is where the goroutine of each request is, `limitCur`, `serialCur` and
  `waiters` are the fields of the two semaphores.  A request goes through
  `TryAcquire` (or `Reject`), `Acquire` (or `AcquireCancelled`), `DoubleCheck`,
  `Finish`, `ReleaseLimit`.  `Panic` ends all of them.  `Release` hands the lock to
  the first waiter, as `semaphore.Weighted` does.
* **BoundedServer** is the abstract specification that it implements: at most
  `Limit` requests are admitted, at most one is active.
* **RequestQueueProofs** has the theorems about it.
* **Provisioning** models both handlers, one action per LVM command.  `lv` is the
  volume group, `h` the handler, `co` what the CO was told about each name,
  `late` the commands StoLake has not got to although their caller gave up.  The
  CO's part is to repeat calls and to delete nothing but ids it was given.
* **VolumeStore** is the abstract specification that it implements where lookups work:
  a name has one volume or none, the CO is told its id while it is there, and that it
  is gone when it is.  `VolumeOf` and `Knowledge` are the refinement mapping.
* **ProvisioningProofs** has the theorems about it.
* **Capacity** models parameters, layouts and arithmetic with the width of the
  code's integers scaled down to `Width` bits, and the two handlers as one step
  each.  What `lvcreate` itself needs (`Needed`, `Fits`) is external: data plus one
  metadata extent per RAID subvolume, in whole stripes, on distinct devices.  `Checked` is a chain of
  conditions, since the first early return of `CreateVolume` that applies decides.
* **CapacityProofs** has the theorems about it.
* **Attachment** models the four publish and unpublish handlers, one action per
  command or StoLake call, on one controller and several nodes.  `mount` is
  `live`, `dead` (its device is gone) or `twice` (mounted over).  `Visible` is what
  `getMountAt` returns of it: `parseMountinfo` drops a mount whose source neither begins
  with `/dev/sbvg_` nor is in `/dev/disk/by-path` (`mount.go:147, 181`), so that the
  name of the volume group matters, which is the constant `SbvgName`.
* **AttachmentProofs** has the theorems about it.
* **JbofTargets** models the cache of `JbofStageIscsiTargets` and what it is used
  for, with a clock.  `setup` is the time at which each JBOF set up its drives for an
  initiator, which is apart from what the cache remembers (`last`); a call that fails may
  or may not have set them up, and one that cannot connect leaves those before it.
* **JbofTargetsProofs** has the theorems about it.
* **Startup** models several csilvm processes of a host from `main` to `Serve`,
  `Probe`, and a call that meets a nil `volumeGroup`.  A process is at a point `pc`
  of `main` or of a handler; a missing StoLake path is fatal after the socket is bound
  (`Listen`, then `SetStolakeURL`), so that the socket file stays; `Die` is what a `Fatalf`, a panic and a kill have in
  common.  `handle` are the processes with a volume group, `ready` those that have
  been probed with success.  StoLake, volume groups and modules come and go.
* **Validation** has the validators of `validate.go` as operators: `Refusal` is
  the error of a request, or `OK`, in the order in which the code looks.
* **Service** composes them: one process, its `Chain` of interceptors (a request's
  `phase` and `pos` are its way down and up), the shared `scope` of the metrics, the
  handlers that read, one action per LVM command, and the other hosts of the group.
  A handler that another module has is `Delegate`: its outcome, and the metrics it
  reports.  Of the publish and unpublish handlers it has what can end the process:
  `killer` is the call whose handler panicked.  `window` is a history variable: what there was during a listing.  `conf`
  is what `main` and `Setup` left behind, the mode `-remove-volume-group` included.
* **ServiceProofs** has the theorems about Service and Validation.
* **Stolake** models the client: `Call`, `Dialed`, `Invoke`, then `Answered`, `Expires`
  or `Broken`, and `Finish` (or `Panic`).  Each function of `virsh.go` is an operator
  that gives the message it sends and what its caller takes to be true when it
  returns no error.  The agent executes, fails, does so late, dies, starts again.
* **StolakeProofs** has the theorems about it.

Startup also has `ReportUptime`: the ticker it starts (`ticking`), and stops when it
returns, and the gauge (`uptime`).

The `MC*` modules give the small sets for TLC; `RequestQueue` and `Startup` need none.
Definitions whose comment begins with "Mutant:" are wrong variants of the
definition that follows them, used to see that the properties notice.

### What is abstracted

Payloads, names and paths are model values.  Of a volume's content three states
are told apart: blank, a file system, a file system with data.  The tag of a
volume is its name (`volumeNameToTag` is injective).  Read-only and file system
mismatches in `NodePublishVolume` are request errors that change nothing; they are in
Service and not in Attachment.  A capacity range is absent, empty, inverted or fit in
Service, and numbers in Capacity.  The tags of a metrics scope pile up from call to
call; the model keeps the last.  A random 64-bit LV name may collide with an LV that exists, for which
the code has a loop (the fault `draw` is the case where the lookup of a name that is
taken fails); that it repeats the name of one deleted before is left out.  Service has the
panics that a request can reach.  It does not have those on malformed output of the
system (a line of `mountinfo` that ends at its separator, a by-path name shorter than
`-lun-0`, `server.go:1495`), the one for an LV without tags, which CreateVolume does not
make, those of `lock.go` at startup, and those in functions that nothing calls.

Processes without the proxy are what the repository's tests run.  In production
`SetStolakeURL` ends a process whose StoLake path does not exist, so that the
direct branches are left to a socket whose name is `none`.

Taken from outside the repository: `lvchange -ay` fails while another host has the
LV active, `-an` while it is in use; `lvcreate` refuses a size of zero; StoLake's
`MountVolume` mounts once and formats a blank volume; logging in to an iSCSI target
twice is no error; after a logout the device is not in `/dev/disk/by-path`.  What the
agent does with a message is what the message's fields say; it answers a `VgChange` that
failed with `IsSuccess` false and no error, and a portal on all addresses with 0.0.0.0.
Logical volumes are created by one host and seen by all.

## 3. Runs that pass

| Run | Bounds | States | Shows |
|---|---|---|---|
| RequestQueueSafety | 4 requests, limit 3 | 92,895 | serialization, no leak, no lost wake-up, no execution of cancelled requests, FIFO, refinement of BoundedServer; every request is answered unless a handler hangs for ever, and a cancelled one leaves the queue even then |
| ProvisioningSafety | 2 names, 3 ids, 3 requests that fit, 2 faults of 8 kinds | 28,065 | one volume per name, a reported deletion has happened, refinement of VolumeStore, retries get somewhere |
| ProvisioningFaults | 2 names, 3 ids, 7 requests, 3 faults of 9 kinds, failing lookups and late commands among them | 1,672,688 | what the CO was told it has, it has; only volumes whose deletion was asked for vanish |
| CapacitySafety | 17 parameter maps, 12 extents of 4 bytes, 4 devices, 8 bits | 9,728 | refusals are right, reports are the largest that can be allocated, up to whole stripes, sizes are tight, no parameter is ignored |
| AttachmentDirect | 2 volumes, 2 nodes, 3 faults of 7 kinds, no proxy, a group named `sbvg_*` | 302,921 | unpublished is unmounted, no stacked mounts, data is kept |
| AttachmentIscsi | 2 volumes, 2 nodes, 2 faults of 7 kinds, proxy | 474,235 | one node at a time, published is usable |
| AttachmentLiveness | iSCSI, 1 volume, 2 nodes, 3 faults of 7 kinds | 5,389 | publishes and unpublishes complete |
| JbofSafety | 2 nodes, 2 JBOFs, 2 classes, Ttl 2, SetupTime 1, 4 ticks | 924,820 | own targets only, none set up longer ago than the time to live and one setup |
| StartupRestart | 2 processes, one of them removing, 3 faults | 32,168 | every process gets to serve once StoLake stays, and one started without its volume group gets it in the end |
| ServiceSafety | 2 requests of 28 kinds, 4 configurations, 2 volumes, 1 failure or change by another host | 587,355 | lists are consistent, counters are right, only known requests end the process, what is confirmed can be published, what is offered can be created |
| StolakeSafety | 2 processes, 4 workloads, 3 calls, 1 death, 2 versions of the agent | 95,253 | what a call that returned no error said of the host is so, no connection leaks, every connected call returns |

Why the bounds are enough: four requests on a limit of three have one running,
two waiting (so that one can overtake or leave from the middle) and one refused.
Two names on three extents compete for space, three ids leave one for a
duplicate, seven requests cover sizes that need rounding, ranges without a
multiple of the extent size, no range, no room and bad parameters; the three that
fit have one name in two sizes.  Three faults are a fault, one in the retry, and one
in the clean-up after; the liveness properties of Provisioning make do with two.  Eight bits wrap
where 64 do, since the code compares with the group's size only.  Two nodes are
what exclusion needs.  `Ttl` 2 of 4 ticks lets a list expire and be set up anew, and a setup that takes a tick
lets its targets be older than its list.
Service's requests share the serializing lock, the scope and the volume group, in
pairs; its one event is a command that fails, or a volume that is created, formatted or
deleted in the middle of a handler or between the two (a listing has two volumes when the
other request creates one), and the theorems of ServiceProofs are for any number of
events; its configurations are a process that serves, with and without the proxy, one
whose group has a short name and was not found, and one that was to remove it.
Three StoLake calls are one that is given up, one after it, and one that asks; calls
about different things share only the agent, so that each workload is about one.

The kinds of faults are divided between the two Provisioning runs.  Failing
lookups and late commands break OneVolumePerName and DeletedVolumeIsGone (section
4), so ProvisioningSafety does without.  ProvisioningFaults does without `draw`:
together with a late `lvremove`, a name drawn twice gives one id to two volumes in
turn, which is a matter of 64 random bits.

`CHECK_DEADLOCK FALSE` is set in the Provisioning runs, because nothing more happens
when every volume is deleted or the names for LVs are used up, and in the Startup
runs, because every process blocks in the dial when StoLake is away for good; in
ServiceSafety and StolakeSafety, because the requests and the calls are finitely many,
and a panic ends the process.

## 4. Findings

One listed run, CapacityUnderflow, ends in a counterexample to what the repository says
of itself: the free extents of mirrored layouts wrap on a full group.  `PROJECT.json`
quotes the line.

Twenty more configurations have a counterexample each.  They are kept as
illustrations and are not among the listed runs:

| Configuration, module | Property | What happens |
|---|---|---|
| ProvisioningLeak, MCProvisioning | DeletedVolumeIsGone | a failing lookup in DeleteVolume is reported as success |
| ProvisioningDuplicate, MCProvisioning | OneVolumePerName | a failing lookup in a retried CreateVolume makes a second volume |
| ProvisioningHandover, MCProvisioning | HandedOverCleanAndInactive | an LV whose `lvcreate` answered late is handed over active and unwiped |
| ProvisioningContext, MCProvisioning | ContextHasDatapath | a retried CreateVolume returns a context without the datapath |
| CapacityThreeWayMirror, MCCapacity | NoFalseRefusal | raid1 with two mirrors is refused on three devices |
| CapacityZeroSize, MCCapacity | ZeroSizeTakesAll | a request with a limit only asks `lvcreate` for zero bytes |
| CapacityStriped, MCCapacity | ReportedCanBeHad | of a linear volume with two stripes an odd number of extents is reported, of which lvcreate cannot use the last |
| AttachmentGroupName, MCAttachment | UnpublishedMeansUnmounted | in a group not named `sbvg_*` (the tests have `test-vg-<uuid>`) an unpublish does not see the mount and reports success |
| AttachmentUmount, MCAttachment | UnpublishedMeansUnmounted | a failed unmount over iSCSI is reported as success by the retry |
| AttachmentBlock, MCAttachment | MountedOnce | a repeated publish of a block volume mounts again |
| AttachmentMove, MCAttachment | PublishCompletes | in proxy mode an LV is never deactivated on its node |
| AttachmentSas, MCAttachment | PublishCompletes | the documented default datapath cannot be published |
| AttachmentQos, MCAttachment | PublishedHasQosTag | in proxy mode the QoS tag is not set |
| AttachmentDetach, MCAttachment | DetachedMeansDetached | a failed unstaging is reported as success |
| JbofClass, MCJbofTargets | ListIsOfTheClass | a volume gets the targets of another storage class |
| StartupLock, Startup | NoConcurrentLvm | the lock file "used to prevent concurrent lvm invocation" is released before the first command; two processes run LVM commands at once |
| StartupUptime, Startup | UptimeReported | the ticker of `csilvm_uptime` is stopped before the process serves |
| ServiceDefaultFs, MCService | DefaultIsPublishable | the default file system, asked for as "", is confirmed for a volume with another one, and refused when it is published |
| StolakeLock, MCStolake | LockIsAsReported | VgActivate ignores `IsSuccess` and reports a lock that was not started |
| StolakeLate, MCStolake | NothingLate | a mount that timed out is executed after the unmount that was reported |

The passing runs are chosen around these: AttachmentDirect publishes file systems,
CapacitySafety has four devices, and so on.  The cfg of each run names its faults.

## 5. Fairness

* RequestQueue: goroutines are scheduled (weak fairness of each request's
  steps).  That handlers end is not assumed, because `stolakeConnect` may block for
  ever; it is a premise of EveryRequestAnswered, and CancelledLeavesQueue does
  without.
* Provisioning and Attachment: handlers run on (weak fairness), which rests on
  the six second timeout of every StoLake call; StoLake gets to its commands; the CO
  repeats a call it has begun (strong fairness, because the controller may be busy
  with another call when it does; the queue is FIFO, NoOvertaking).  That the CO
  begins anything, or does not change its mind, is not assumed.  Faults are
  finitely many (`MaxFaults`).
* Startup: processes run and are restarted when they have ended, sidecars probe
  until they are told the process is ready, and call it then (weak fairness).
  A process that waits for the lock file gets it some time although another is
  restarted over and over (strong fairness of `Lock`): the waiter sleeps in the
  kernel's `flock` queue, and restarts have pauses.  That StoLake, the volume group or
  the modules stay is a premise of the properties.  A ticker that runs ticks.
* Stolake: a process goes on and its timers fire (weak fairness of each process's
  steps).  Nothing is asked of the agent, which may hang for ever, dead or alive.
* Service, Capacity and JbofTargets are checked for safety only.

## 6. Proofs

Seven modules hold theorems; `tlapm M.tla` checks each in a few minutes at most.  Each
invariance proof has the same shape: an inductive invariant (checked by TLC before it
was proved), one lemma or step per action, and a theorem per property.

The constants are as the named assumptions of the component modules say, and otherwise
arbitrary: any number of requests, names, volumes, nodes, extents and faults.  Where a
property fails in some setting, the theorem has a hypothesis that leaves out that
setting and no more, and the configuration named has the counterexample without
it:

| Hypothesis | Leaves out | Without it |
|---|---|---|
| `NoRepeatedName` (Provisioning) | an LV name drawn although it is taken, which a late `lvremove` then frees | 64 random bits repeated; section 3 |
| `LookupsWork` (Provisioning) | failing lookups, commands executed after their caller gave up | ProvisioningLeak, ProvisioningDuplicate |
| `NoThreeWayMirror` (Capacity) | raid1 with two mirrors or more | CapacityThreeWayMirror |
| `FindsMounts` (Attachment) | mounts that `parseMountinfo` hides: block volumes and, but for iSCSI, volume groups not named `sbvg_*` | AttachmentBlock, AttachmentGroupName |
| `SeesMounts` (Attachment) | the same without the proxy; with it StoLake does not mount twice | AttachmentBlock |
| `Datapath = "iscsi" => ~Block` (Attachment) | over iSCSI, block volumes, for which no unpublish logs out | AttachmentIscsi with `Block = TRUE` |
| `NoDeadMounts` (Attachment) | over iSCSI, an unmount that fails | AttachmentUmount |
| `Setting` (Stolake) | processes of one host that are about the same part of it; a `CSI_NODE_IP` that is empty or another host's | see below |
| `Setting` (Service) | nothing: calls and configurations are of their types (`CallType`, `ConfigType`) | |

`Setting` of StolakeProofs says that the calls are those of `virsh.go`, with any
arguments; that the processes of a host divide its parts among them, as the controller
(targets, volume group) and the node plugin (mounts) do; and that `CSI_NODE_IP` is the
host's address, which is what its manifest sets it to.  Two processes that change one
part make each other's reports untrue in the time it takes to say so.  All hypotheses
hold in the runs that check the same property.

### RequestQueueProofs

For every finite set of requests and every positive limit (`RequestsAssumption`,
`LimitAssumption`; `main` exits on any other limit):

| Theorem | States |
|---|---|
| TypeCorrect | `Spec => []TypeOK` |
| Serialized | `Spec => []MutualExclusion` |
| NothingLeaks | `Spec => []NoLeak` |
| WakeupsKept | `Spec => []NoLostWakeup` |
| CancelledNotExecuted | `Spec => CancelledNeverExecuted` |
| ServedInOrder | `Spec => NoOvertaking` |
| Refinement | `Spec => ImplementsBoundedServer` |

The inductive invariant `IInv` is `TypeOK /\ LockInv /\ NoLostWakeup /\ LimitInv`.
Mutual exclusion is not inductive: a `Finish` that hands the lock on must know that
the first waiter really waits and is not the holder (`NoLostWakeup`), and that
nobody else is past the lock (`LockInv`: `serialCur` is 1 iff one request holds
it, and no two do).  That `limitCur` stays in its range when it is decremented
needs `LimitInv`, which counts the admitted requests.  `ReleaseIInv` is shared by the
two actions that release, and `WithoutProperties` says what leaving the queue does to
positions.  CancelledNotExecuted needs, besides, that nobody is answered before leaving
(`Unanswered`).  ServedInOrder is about each way in which the list changes: at its end
(`Acquire`), at its head (`Release`), in the middle (`AcquireCancelled`).  The refinement
maps `queued` to the requests that are admitted, waiting or granted, and `active` to the
running one; `Reject`, `Acquire`, `ReleaseLimit` and the clients' steps are stutters.

### ProvisioningProofs

| Theorem | Hypothesis | States |
|---|---|---|
| TypeCorrect | NoRepeatedName | `Spec => []TypeOK` |
| BoundExists | NoRepeatedName | `Spec => []BoundVolumeExists` |
| NothingElseVanishes | NoRepeatedName | `Spec => OnlyDeletedVolumesVanish` |
| OneVolume | LookupsWork | `Spec => []OneVolumePerName` |
| DeletedIsGone | LookupsWork | `Spec => []DeletedVolumeIsGone` |
| Refinement | LookupsWork | `Spec => ImplementsVolumeStore` |

`IInv` relates the four parts of the state.  `Records`: what the CO holds is an id that
was used.  `Owners`: an id belongs to one name, that of its LV while there is one; this
is what keeps a deletion of one name from another's volume.  `LateCommands`: a late
`lvremove` is of an id whose deletion was asked for, a late `lvcreate` of one that nobody
was told.  `Handler`: what the handler read is still so where it uses it.  For the
theorems under LookupsWork, `SInv` adds that the LVs of a name are at most one, none
between the failed lookup and `lvcreate`, and the CO's own once it has an id (`OneEach`).
In the refinement a handler's step is `Make`, `Report`, `Delete` or `ReportDeletion`, or a
stutter; lookups, sizes, attributes and crashes are stutters.

### CapacityProofs

| Theorem | Hypothesis | States |
|---|---|---|
| SizeIsTight | | `Spec => []TightSize` |
| NothingIgnored | | `Spec => []NothingIgnoredSilently` |
| CapacityIsLargest | | `Spec => []ReportedCapacityIsLargest` |
| RefusalsAreRight | NoThreeWayMirror | `Spec => []NoFalseRefusal` |

`CInv` is `Accounted /\ Answered`.  That the free extents never exceed the group (so that
no product wraps) rests on their sum with those of the volumes; as sums over a set need
an induction that the provers cannot do, `Accounted` says that some function of prefix
sums exists, and `Reaccounted` gives the one after a volume changed.  `Answered` records
which check led to each answer.  The rest is arithmetic: what rounding up and `CeilDiv`
are (`RoundUpIs`, `CeilDivIs`), where unsigned and signed integers do not wrap (`WrapIs`,
`SignedIs`, `BytesFit`), and what a layout takes against what `extentsFree` leaves
(`ExtentsFreeIs`, `NeededAtLeast`, `DevicesAsked`).  CapacityIsLargest is about linear and
mirrored layouts: what GetCapacity reports, rounded down to whole stripes, fits, and an
extent more than it reports does not.  The code does not round (CapacityStriped), and of
the other RAID levels it reports extents without their parity, of which nothing is
claimed.  `PowersAssumption` says that
2^Width is twice 2^(Width-1), and so on: it is true of every width, and stated because the
provers do not compute powers.  `CapacityAssumption` keeps the group's size below
2^(Width-1) and parameters below 2^(Width-2) (for 64 bits, eight exabytes); what a
`mirrors` of 2^64 - 1 does is in Service (`NoCopies`).

The proof of `Checked` found a flaw in the model: it was a CASE whose guards overlap,
of which TLA+ leaves open the one that is taken, where the code takes the first.

### AttachmentProofs

| Theorem | Hypothesis | States |
|---|---|---|
| TypeCorrect | | `Spec => []TypeOK` |
| PublishedUsable | | `Spec => []PublishedIsUsable` |
| DataIsKept | | `Spec => DataKept` |
| OneMount | SeesMounts | `Spec => []MountedOnce` |
| Exclusive | Datapath = "iscsi" => ~Block | `Spec => []ExclusiveMount` |
| NothingLeftMounted | FindsMounts, NoDeadMounts | `Spec => []UnpublishedMeansUnmounted` |

These hold in every mode (proxy or not, direct or iSCSI), with every fault any number of
times.  `IInv` says that a handler works on what the CO asks for, so that no two are at
one volume (`Serving`), which branch of the code a step belongs to (`Modes`), that a device
in use is backed by session, target and active LV (`Backed`), and that what is to be
formatted was not written to since it was probed (`Mounted`).  OneMount adds that nothing
is mounted between the look at the mount table and the mount (`Once`).  Exclusive has two
arguments: over iSCSI, that a live mount is where the CO publishes, and that a handler past
its unmount has none unless it remembers an error (`Placed`); else, whatever the plugin
sees of its mounts, that the LV is active on the one host where it is mounted (`Held`).
NothingLeftMounted adds that there is no dead mount (`NoneDead`).

### JbofTargetsProofs

For any nodes, JBOFs and storage classes, any time to live and any length of time
(`JbofAssumption`):

| Theorem | States |
|---|---|
| TypeCorrect | `Spec => []TypeOK`; the list that is remembered is that of the node that is remembered |
| TargetsAreOwn | `Spec => []OwnTargets` |
| TargetsAreFresh | `Spec => NotStale`: of each list that is sent, when it is sent |

`IInv` is `TypeOK /\ Memory /\ Past /\ OwnTargets`: what a node is sent from the cache is as
good as the cache is, so the invariant says of the cache that each target of its list was
set up at most `SetupTime` before the time that is remembered with it, or since
(`Memory`), and that nothing was set up later than now (`Past`).  NotStale compares the
clock with the JBOFs' own times, so that a cache that renews its time when it is used
breaks it (mutant `ControllerPublishRenewing`).  `AfterSetUp` and `SetUpKeeps` say what a
setup does to the clock and to the times.

### StolakeProofs

| Theorem | Hypothesis | States |
|---|---|---|
| ConnectionsClosed | | `Spec => []NoConnectionLeak` |
| ReportsAreTrue | Setting | `Spec => []StateIsAsReported` |

The first needs that a call has one connection in just the phases from `Dialed` to the
return (`Connected`).  The second has two invariants.  `Book`: calls and invocations have
numbers of their own, and only the invocation of a call that still waits has an answer, so
that no answer reaches another call.  `Reported`: nothing is said of a part while a call
may be changing it (`Unsaid`), and an answer on its way is the value of its part unless an
invocation that was given up is executed after it (`Answers`).  Under both is a lemma per
function of `virsh.go`: which part of the host its message is about, and that what it
returns is what it read.

### ServiceProofs

| Theorem | States, under Setting |
|---|---|
| CountsAreTrue | `Spec => []CountedAsServed` |
| PanicsAreKnown | `Spec => []OnlyKnownPanics` |
| OffersAreCreatable | `Spec => []OfferedIsCreatable` |
| ListsAreConsistent | `Spec => []ListingIsConsistent` |
| ConfirmedIsPublishable | `Spec => []ValidatedIsPublishable` |

Requests may carry lists of capabilities of any length.  A validator returns the first
error of a list; what that says of each element (`FirstErrorIs`, `ListTaken`) rests on
there being a least number in a set of them (`LeastNatural`).  `Chained` is the state of the
interceptors: who is past SerializingInterceptor has the lock, and who has tagged the
shared scope and is not counted yet finds its own tag there.  `SInv` adds that a handler
past its validator was not refused (`Passed`).  PanicsAreKnown goes through the actions
that panic (`StepPanics`), with that the events are counted (`EventsCount`) and that
nothing happens once the process has ended (`DeadStays`).  Each of the last three theorems has its own
strengthening: what a reply offers so far (`Offered`); that what was there all along is
listed or still to be looked up (`Listing`); what a confirmation and a refusal compared,
together with that a filesystem once there stays (`Publishing`, `FsStays`).

### Only model-checked

Liveness (EveryRequestAnswered, CancelledLeavesQueue, CreateCompletes, DeleteCompletes,
PublishCompletes, UnpublishCompletes, StartsEventually, Recovers, CallReturns), which is
out of the prover's reach; Startup, whose listed properties are all of that kind.

## 7. Plan

Done: the inventory, all modules above, and the proofs of all listed safety properties.
Next, in this order:

1. Proofs: the type invariants of Capacity, Service and Startup; for Provisioning, what
   holds of a name when lookups may fail but commands are not late.
2. Late StoLake commands in Attachment (Stolake shows that a mount may follow the
   unmount that was reported), the nvme and default branches of
   `NodeUnpublishVolume`, `jbofis` composed with the mounts.


## 8. Not modelled

* The StoLake agent, which is in another repository, and the methods of the generated
  protocol that csilvm does not call; of those that it calls, wire encoding.
* The functions of `virsh.go` for virtual machines and pools and over HTTP, which
  nothing in csilvm calls.
* The statsd reporter (`ddstatsd.go`), which forwards values to a UDP client; the
  stream and client halves of `chain.go`, which nothing uses.
* The functions of `lvm.go` that create and remove volume groups and physical
  volumes, which only the tests use, and the regular expressions for names and tags.
* Parsing of `/proc/self/mountinfo`, of `iscsiadm` and of `lsscsi`: Attachment has what
  comes out of it.
* Logging, version data, loop devices and clean-up helpers of the tests; flags that
  `main` refuses.

The type invariants of Provisioning, Capacity, Attachment, Startup and Service are
not among the listed properties.  Those of Provisioning and Attachment are theorems; the
inductive invariants of CapacityProofs and ServiceProofs hold what their proofs need of
the types.
