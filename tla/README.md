# kubemate: a TLA+ model of its stores, watches, processes and reconcilers

kubemate turns a single-board computer into a node of a k3s cluster. One Go process
serves a Kubernetes-style API for the device's own resources (Device,
NetworkInterface, DeviceToken, WifiPassword, ...), keeps them in memory or in files,
runs reconcilers that start and stop k3s, dnsmasq and the wifi daemons accordingly,
routes HTTP requests to the cluster's Ingresses, installs Apps and takes part in the
cluster's orderly shutdown of nodes. A web UI follows the resources with list and
watch.

This directory models the parts of it whose correctness depends on the order of
concurrent steps, on failures and on restarts. Modules are checked with TLC on small
instances; the most important invariants are proved with TLAPS for every value of the
constants. `PROJECT.json` maps every definition to the lines it models and lists
components, runs, mutants, findings, hazards and theorems.

## 1. The system's parts

| Part | State | Operations | What is hard | What makes it correct |
|---|---|---|---|---|
| event bus `pkg/pubsub` | map of watchers under an RWMutex, one buffered channel each | Subscribe, Publish, Stop, ResultChan | Stop from three sides while Publish sends; a slow consumer blocks all publishers for 20 s | never a send on a closed channel; no event lost without the stream being ended; nobody waits for ever |
| in-memory store `pkg/storage/inmemorystore.go` | `items`, `seq` under a mutex | List, Watch, Get, Create, Update, Delete | optimistic concurrency; Watch takes no mutex | no lost update; a stream ends at the state of the store |
| file store `pkg/storage/filestore.go` | the above and one YAML file per resource | the same, loadFromFiles | stops between two file operations; I/O errors; two mutexes | files are always loadable and follow the memory |
| REST handlers `pkg/rest/rest.go` | none | call the stores; PUT compares versions, PATCH does not | read–modify–write of several clients | as for the stores |
| UI synchronisation `ui/src/stores/sync.ts` | array of resources | list, watch, handle events, retry | handover from list to watch; broken streams | the copy and the events on their way add up to the store |
| process runner `pkg/runner` | `proc`, `terminated` under a mutex; two goroutines per process | Start, Stop, SignalReload, report | reaping, killing and reporting race with the next Start | never two process groups; calls return; ends are reported |
| orderly shutdown `pkg/rest/device_shutdown_rest.go`, `node_reconciler.go`, `pkg/drain` | annotations of the Node, rebootID | request, drain, shut down, acknowledge, uncordon | two reconcilers with stale caches; restarts between the steps | one shutdown per request, after a drain, no uncordon before it, every request is served |
| device reconciler `device_reconciler.go`, `device_reconciler_dns.go` | Runners of k3s and dnsmasq, two controller managers, the ingress controller, the join token | Reconcile, the reporters | stale cache; dropped cooldown error; early returns between two stops and starts; reports in any order; panics | what runs converges to the Device; the managers exclude each other |
| controller manager `pkg/controller` | cancel, WaitGroup, the registry of controller names | Start, Stop, retry loop | a second SetupWithManager is refused | Stop leaves nothing running |
| network interface `networkinterface_reconciler.go`, `pkg/networkifaces` | the resource, the link | Reconcile, link updates | a mode switch of many steps, each of which may fail | the mode that is asked for is set up in the end |
| wifi `pkg/wifi` | mode, interface, configuration files, Runners of hostapd, wpa_supplicant, dhcpcd, iptables rules, resolv.conf | StartAccessPoint, StartStation, StopX, restart | remembered mode and existing files decide whether to restart | daemons of two modes never together; address and resolv.conf are right |
| ingress controller `pkg/ingress` | router, its Cancel, contexts, channel of notifications | Start, Stop, start, Update, ServeHTTP | the router is written without the mutex; four goroutines per Start | Stop is complete; routes follow the cluster; goroutines end |
| app reconciler `pkg/reconciler/app` | App, Kustomization, configuration Secret and its copies | Reconcile | every read is from a lagging cache, every write may conflict | installed, removed and shown as the App says |
| refreshing store, discovery, mDNS reconciler, API server, other resources | see `PROJECT.json` and section 6 | | | |

How they interact: REST handlers and reconcilers call the stores; the stores publish
to the event bus while they hold their mutex; the API server's watch handler, the UI
(over HTTP) and the informers of the local controller manager consume watches;
reconcilers call runners; runners' reporters write the Device resource, or touch the
NetworkInterface, which triggers the reconciler again. The device reconciler starts
and stops the ingress controller and the controller managers, in which the node, app
and mDNS reconcilers run. Across devices, NodeReconcilers talk through annotations of
the cluster's Nodes.

## 2. Modules

| Module | Models | Used by |
|---|---|---|
| `PubSub` | the event bus at the grain of lock and channel operations | `MCPubSub`, `PubSubProofs` |
| `Store` | the in-memory store, its clients and watchers; publishing is one step per event (the detail is in `PubSub`) | `SyncClient`, `StoreProofs` |
| `SyncClient` | the UI's loop, composed with `Store` (EXTENDS): a watcher with a copy | `MCSyncClient`, `StoreProofs` |
| `FileStore` | the file store with its files, restarts and power failures | `MCFileStore`, `FileStoreProofs` |
| `DurableStore` | the abstract promise: an atomic map that restarts do not change | refined by `FileStore` |
| `Runner` | the process runner, the process and its goroutines | `MCRunner`, `RunnerProofs` |
| `Supervisor` | the abstract promise: calls that take effect at one moment, one command at a time | refined by `Runner` |
| `NodeDrain` | the shutdown protocol of a server device and its agents | `MCNodeDrain`, `NodeDrainProofs` |
| `ControllerManager` | the two controller managers and the registry of names | `DeviceReconciler` |
| `DeviceReconciler` | the device reconciler, composed with `ControllerManager` (EXTENDS) and with what a Runner promises | `MCDeviceReconciler`, `DeviceReconcilerProofs` |
| `Wifi` | the operations of pkg/wifi as functions of its state | `NetworkInterface` |
| `NetworkInterface` | the NetworkInterface reconciler, composed with `Wifi` | `NetworkInterfaceProofs` |
| `Ingress` | the ingress controller | `MCIngress`, `ClusterProofs` |
| `AppReconciler` | the app reconciler with API server, garbage collector and Flux | `ClusterProofs` |

### State and actions

**PubSub.** `watchers` is the map, `wch` says whether the field `w.ch` is set, `chan`
and `buf` are the Go channel. `writer` is a goroutine that has called `Lock`: Go's
RWMutex lets no new reader in from then on, and the critical section runs when the
readers have left. `Publish` is `PublishCall`, `PublishLocked` (RLock and the snapshot
of subscribed watchers), one `Send` or `SendTimeout` per watcher and `PublishReturn`.
`Stop` is `StopLock`, `Stop`, `CloseChannel`, `Drain`, `DrainEnd`; it is called by the
consumer, by the goroutine of `Subscribe` when the context ends and after a timeout. A
step that would panic in Go (send on a closed channel, double close) is one `NoPanic`
excludes beforehand. What a consumer does with its channel is external code.

**Store.** `items`, `seq` are the fields; `pub` is the event being published, and the
mutex is held exactly as long as there is one. A client reads a resource (`Get`), and
writes it back (`Update`) with the version it has. `Watch` is two steps, the
comparison with `s.seq` and the subscription, because it takes no mutex. A watcher
that does not read is kicked when its channel is full.

**SyncClient.** `view` and `dup` represent the array `resources.value`; every turn of
the loop is an action: list, watch (refused as outdated or accepted), events by type,
end and failure of the stream, retry after 5 s, cancellation.

**FileStore.** One operation at a time (`op`, `step`) goes through the steps temporary
file, sync, rename (or remove) and the change of the map, in the order of the code;
`IOError` may end it at each of the file steps. `temp` holds what the disk may have of
the temporary file: any part of it (`Torn`) until `WriteSync`, the whole of it
afterwards, and `Rename` gives the resource's file the same. `maybe` holds the
contents a power failure may leave of a file; `Load` is `loadFromFiles`. `Update`
writes the file *before* the embedded store compares versions, as in the code.
`Create` stores its caller's object, not a copy; no caller edits it afterwards, and
none that would is modelled.

**Runner.** `proc` is `m.proc`, `cooling` says that the cooldown since `m.terminated`
is not over. A call is `Call`, `Acquire` and the steps of `Start`, `Stop` or
`SignalReload` with the early returns. The goroutine of `StartProcess` is `Reap`, that
of `Start` is `ReportRunning`, `WaitReturns`, `ReportEnd`. `kids` are the other
members of the process group. A failing `StartProcess` ends in a nil dereference at
`runner.go:106`; its callers are reconcilers, whose panics controller-runtime
recovers, so that the call ends with the result `"panic"`. (`syscall.Getpgid` does not
fail after the launch: until `Wait` has reaped it, the child is found even if it has
ended.) `SignalReload` may or may not return `os.ErrProcessDone` for a process that
has ended and is still being reaped. `Promise` maps the Runner to `Supervisor`: what
is `running` are the commands of the slots of which anything is left (process, group
or Proc), and a Start has `taken` effect when it sleeps after the launch.

**NodeDrain.** `node` holds the annotations as the API server has them, `cache[d]` the
informer of device d, `work[d]` its Reconcile in progress. A copy is `fresh` until
somebody writes the Node; `Update` succeeds only with a fresh copy. (An `Update` that
is stored but answered with an error is `Update` followed by the failure of what comes
next, since the code stops there.) The branches of `NodeReconciler.Reconcile` are
`DrainBegin`, `DrainNode`, `DrainEnd`, `Uncordon`, `Terminate`, `Shutdown` and
`Restarted`; `Create` is the REST handler. Each start of a reconciler draws a new
rebootID (`NewRebootID`). `requests`, `ordered`, `shutdowns`, `lost` are history;
`pods` tells the Pods from before a request from later ones.

**ControllerManager, DeviceReconciler.** `cancel`, `ctx` and `loop` are the field, the
context and the goroutine of each manager, `names` controller-runtime's registry.
`dev`, `seen`, `event`, `queued` are the Device in the store, in the cache, an
undelivered event and the work queue. `rec` is Reconcile: the DNS server (`DnsDone`,
`DnsRefused`, `DnsFails`), the status (`UpdateStatus`, `StatusFails`), k3s (`StopK3s`,
or `K3sRunsAlready`, `StartRefused`, `Launched`, `StartPanics`), the join token, and
the switch of managers and ingress controller, split where `Stop` waits for the
manager's goroutine. Reconcile is the only caller of each Runner, so that a call is
one step with the answers of `Supervisor`; `gor` are the goroutines that report, in
any order. `missed` records a Start whose CooldownError was dropped or a report that
the store refused: until the next event nothing makes up for these, and `Converges`
says that nothing else is ever missed.

**Wifi, NetworkInterface.** An operation of `Wifi` is a function from its state to the
states it may lead to, including the ones in which the restart of the interface
stopped half way or a configuration file was truncated (`torn`; the next call finds it
under its name, which is made of its content, and takes it for complete). Errors of
`iptables` (`ap.go:117-131`) and of the copies of resolv.conf (`station.go:79-93`) are
only logged, and any failing `iptables -C` is taken for "no such rule". What such a
call leaves is `"odd"`: the rules of the access point, each there or not or twice; a
resolv.conf or a backup with any content or none. Every operation that changes these
may have that result, without an error and so without a retry, until one that does not
fail replaces it; `FaultIfOdd` counts it as a fault for the bound. Reconcile is
`Begin`, `StopOthers`, `StartWifiInterface`, `Prepare`, `Run`, `RunDhcpcd`, `Finish`,
each with its failure; a password is not watched, so that its change sets `missed`.

**Ingress.** Every Start has a number g: its context is in `live`, its goroutine is
`at[g]`, its router `handler[g]` and `cancels[g]`, its channel `ch[g]`, `closed`, and
the goroutine that serves it `loop[g]`. `router` is `s.router`, 0 the empty one; a
router's routes are represented by the cluster they were built from, and `Lookup` is
what newRouter's mux answers, with the shadowed variable of `ingress.go:233`. `Fetch`
is a change that an informer sees: `Noticed` compares generations, which Endpoints do
not have, and annotations, in which the endpoints controller stamps the time of a
change of readiness (`stamp`), if it knows it. An equal annotation may be taken for a
changed one, as `mapToString` lists a map in any order. `latest` is what was built
most recently for a router; `behind` says that a change without a stamp was ignored,
or that an older table was assigned after the latest and nobody is about to assign
again. A send on the closed channel ends the process (`crashed`): `defer recover()`
does nothing.

**AppReconciler.** `app`, `kz`, `user`, `copies` are what the API server has, `cache`
what the client reads; each kind catches up on its own (`Sync`). A write with an old
version is refused; `current` names the copies of the App that are not old. The
branches of Reconcile are actions; the deferred status update is one of its own,
because its error is ignored.

## 3. Runs

| Run | Result | Bounds and why they are enough |
|---|---|---|
| `PubSub` | NoPanic, NoSilentLoss, InOrder hold | 2 publishers × 2 events of every kind `isSubscribed` tells apart, 1 watcher with a channel of 1 and up to 3 pending Stops: the channel fills, times out and is stopped from all sides. Watchers share nothing but the lock; `NoPanic` is proved for any number of them |
| `PubSub_live` | PublishReturns, StopCompletes, ConsumerLearnsEnd hold | 2 publishers that never end, a channel of 2; the histories are switched off |
| `SyncClient` | VersionIdentifiesContent, StreamEndsAtStore, VersionsAdvance, CopyAddsUp hold | 2 resources, 1 client besides other writers, the UI with a channel of 2, 3 versions: a copy can become stale, be rejected and the resource be deleted and created again; changes come between list and watch, during the watch and after a retry |
| `SyncClient_handover` | violated (finding) | the same without the client |
| `FileStore` | FileFollowsMemory, AlwaysLoadable, VersionIdentifiesContent hold | 2 resources, 2 specs and statuses, 3 versions per run, 1 restart, with power failures |
| `FileStore_durable` | refines `DurableStore` | 2 restarts, no stale clients, no power failure |
| `Runner` | NoStrayProcess, CallsReturn, EndReported hold; KeepsPromise: it refines `Supervisor` | 1 caller (the mutex makes callers take turns; `NoStrayProcess` and `KeepsPromise` are proved for any number), 2 commands, 2 processes whose goroutines have not ended (a third behaves as the first) |
| `NodeDrain` | OneShutdownPerRequest, DrainedFirst, UncordonAfterShutdown, RequestServed, Settles hold | a server and an agent, 2 requests for the same or both, 2 faults (restart, failed drain or shutdown, other writer) at any step |
| `DeviceReconciler` | ManagersExclude, RestIsRight, Converges, DownIsShown, JoinTokenAppears hold | 1 change (mode, termination, token, link) and 1 fault (crash, failing or panicking call, lost report) at any point of the start-up and of each other's handling; 2 k3s processes whose goroutines have not ended, so that reports of an old and a new one mix |
| `Ingress` | StopStops, RoutesFollow, CancelledEnds hold | 2 Starts (the second meets what the first left behind), a channel of 1 and one informer, whose handler can be blocked on it when it is closed; 4 clusters: with hosts and another class, the same with a Service that is not ready, with and without a stamp, and one with contradicting Ingresses; it begins in the first or the last (`Initial`); 1 change |
| `NetworkInterface` | OneModeAtATime, RestIsRight, WifiSettles, AddressesSettle hold | 2 passwords per mode, 2 changes (there and back between modes, a new password), 1 fault at any step, among them a failing iptables or copy of resolv.conf (`FaultIfOdd`) and a truncated file; restarts within StopAccessPoint may fail any number of times, and a process with a truncated file ends at any time |
| `AppReconciler` | RestIsRight, SecretExists, Installs, DeletionEnds, StateIsTrue hold | a configuration or none, an incomplete one being refused; 2 changes by users, enough to delete an App and create it again over what the first left; failing calls without bound |

Deadlock is checked for `Runner`. The other runs switch it off because their bounded
environment may stop: no more events, versions, changes or requests, and a UI that was
cancelled.

### Fairness

* `PubSub`: every goroutine that can take a step takes one (the Go scheduler), and the
  writer that has called `Lock` gets it once the readers have left (RWMutex). Nothing
  is assumed of consumers; `ConsumerLearnsEnd` is about those that keep reading, and
  says so in the property.
* `Runner`: a call in progress and the two goroutines go on; a caller gets the mutex
  eventually (sync.Mutex has a starvation mode, hence strong fairness). Nothing is
  assumed of the process: it may ignore its signal. The grace period does expire, as
  part of the call.
* `NodeDrain`: Reconcile is called again after an error and on every change of the
  cache, informers follow the API server, and a device that was shut down is turned on
  again by its user. Faults and requests are finite in number.
* `DeviceReconciler`, `NetworkInterface`: the watch delivers, the worker of the work
  queue goes on, reporters run, cooldowns end, the loops of the managers turn and a
  k3s server that runs writes its token. Nothing is assumed of users, links, processes
  and failing calls, nor of the informers' resync every ten hours.
* `Ingress`: the goroutines run, the API server becomes reachable and its watches
  deliver. Nobody need call Start or Stop.
* `AppReconciler`: watches, worker, Flux and the garbage collector do their work, and
  calls do not fail for ever (the work queue repeats a failed Reconcile).

## 4. Findings and known deviations

Finding: **changes between check and subscription are lost** (`inmemorystore.go:37`,
`SyncClient_handover`): `Watch` takes no mutex, so that an accepted watch can miss a
change the list does not have. `Delete` draws no version (`inmemorystore.go:115`),
which lets an outdated list pass as well.

The models contain these behaviours of the code too; the properties that hold name
them as their exceptions:

* a rejected update stays in the file and comes into force at the next start
  (`filestore.go:144`; `FileFollowsMemory` allows it, `FileStore_durable` has no stale
  clients);
* versions start again from 1 after a restart, so that a copy read before it may be
  accepted (`filestore.go:63`; `VersionIdentifiesContent` is about one run of the
  process);
* a failed shutdown is not repeated (`node_reconciler.go:149`; `lost` in
  `RequestServed`), draining does not cordon (`drain.go:75`), and a second request
  made during a shutdown leaves an order that shuts the device down after its boot,
  for which its Pods were drained before that boot (`DrainedFirst`);
* k3s stays down when its Start is refused in the cooldown and no event follows, or
  when the report of its end could not be stored (`device_reconciler.go:238`; `missed`
  in `Converges`). A late report of an old end may show a running k3s as ended;
* a controller manager never runs again once one of its controllers' names is taken,
  that is after any failed start, a switch of the device's mode or a termination
  (`controllermanager.go:152`; the TODO at line 87 says so). `Converges` is about what
  the managers were told;
* a start of the ingress controller that Stop has overtaken publishes its router
  afterwards (`late`), and its notification of a closed channel ends the process
  (`crashed`); a change of Endpoints without a new stamp leaves old routes, and so do
  two overlapping Updates of which the one that built older routes assigns them last
  (`behind`). Overlapping Updates in any other order are no exception;
* the join token that `JoinTokenAppears` waits for may be an old one: after a
  regeneration (`devicetoken_rest.go:95`) reconcileServerToken stores the token of a
  k3s that has not written its file anew yet, and it stays;
* a new wifi password takes effect with the next event only; an access point whose
  restart failed keeps `w.mode` and does not get its address again (`w.lost`);
* a failing iptables leaves the rules as they were, or some of them, and a failing
  backup or restoration leaves dhcpcd's resolv.conf, for good: both are only logged
  (`ap.go:117-131`, `station.go:79-93`; `"odd"` in `OneModeAtATime`, `Matches` and
  `Addressed`). These properties cover what goes wrong although no such call fails:
  the order of the steps, repeated attempts and what is remembered. A configuration
  file that was truncated when it was written is never written again, and its daemon
  ends again and again (`conf.go:19`; `torn` in `Matches`);
* an App whose kustomization is removed from its spec is neither uninstalled nor
  deleted; a Status().Update that fails for another reason than a conflict is not
  repeated (`statusLost`).

Each exception is the bad half of a hazard in `PROJECT.json`, which no property
covers: `tainted` of `filestore.go:144`, the other run of the process of `:63`, `lost`
of `node_reconciler.go:149`, `missed` of `device_reconciler.go:238` and of
`networkinterface_reconciler.go:56`, `late` of `ingress.go:132`, `crashed` of `:110`,
`behind` of `:131` and `:443`, `w.lost` and `torn` of `ap.go:23`, `"odd"` of
`ap.go:124` and `station.go:77`, `statusLost` of `app_reconciler.go:142`.

## 5. Proofs

All proofs hold for every value of the constants, under the named assumptions of the
modules (sizes are natural numbers, the extra values are not among the ordinary ones,
the two managers are the ones the device reconciler has).

* `PubSubProofs`: `TypeCorrect`, `NeverPanics`, `NeverLosesSilently` and
  `AlwaysInOrder`. NoPanic is not inductive; the invariant `LockInv` adds what the
  lock protects: a watcher is in the map exactly when its field `w.ch` is set, a set
  field is an open channel, publishers only hold watchers that are still registered,
  and the one Stop that took the channel away is the only one that closes it. For
  NoSilentLoss, `LossInv` adds that a watcher nobody has subscribed yet is owed
  nothing; for InOrder, `OrderInv` adds that every event of a publisher in a stream is
  older than the ones it has still to send there. InOrder is about numbered events,
  hence the hypothesis `Record` (the switch that numbers the events and keeps
  histories of them).
* `StoreProofs`: `TypeCorrect`, `NoLostUpdate`, `StreamsKeepUp`, `StreamsAdvance`.
  `VersionInv` adds that no version in use is above `seq`; `StreamInv` adds that the
  event being published has been applied, that no queued event is newer than the
  store, that the queued events followed by the event being published are in order,
  and that the last of them about a resource leads to its state. Four lemmas say what
  appending and taking an event does to those two facts. Of the composition with the
  UI: `ImplementsStore`, `StoreSound`, `SyncTypeCorrect`, `CopyFollowsStore`. Every
  step of `SyncClient` is a step of `Store` or leaves it alone, so that the theorems
  above carry over. CopyAddsUp is not inductive: `CopyInv` adds that a list that is
  still current shows the store, and that each event on its way fits the copy as the
  events before it leave it (`FitsCopy`: an ADDED one finds no such resource, the
  others find it), so that applying the first one neither shows a resource twice nor
  misses one.
* `FileStoreProofs`: `FilesSound` (types, AlwaysLoadable, FileFollowsMemory) with
  `TypeCorrect` and `NeverTorn`, `NoLostUpdate`, `RacesAreCreates`,
  `ImplementsDurableStore`. NeverTorn rests on the order of sync and rename:
  `WholeFiles`, a part of `DiskInv`, says that the temporary file is whole when it is
  about to be renamed, so that no file is ever one of which the disk may have a part.
  `DiskInv` also has the shape of the operation in progress and what it has already
  done to the file at each step. For VersionIdentifiesContent, `VersionInv` adds that
  no version in use is above the counter and that nobody has read the resource with
  the version that a Create in progress has drawn for it. The refinement is proved
  where nobody writes back a stale copy (`Client = {}`; a rejected update that stays
  in the file shows why) and the power stays on: the abstract map is the memory, or
  what the files say for a resource whose write has been renamed into place.
* `RunnerProofs`: `TypeCorrect`, `NothingStrays`, `PromiseKept`. `RunInv` adds mutual
  exclusion of the callers, that a caller past `Proc.Stop` finds `m.proc` nil, that a
  reaped process is gone with its group, and that every other process than `m.proc`
  has been reaped. For the refinement of `Supervisor`, `AnswerInv` adds that what is
  known of a process is forgotten only after it was reaped (`Watched`) and that a call
  is at a step of its own method (`Routes`). `WhatRuns` says what is running in terms
  of `m.proc`; then each step maps to a step (the launch takes effect, reaping is the
  end, a return is an answer) or to a stutter, such as all of `Proc.Stop`.
* `NetworkInterfaceProofs`: `TypeCorrect`, `NeverBothModes`, `RestsRight`.
  OneModeAtATime is not inductive: `ModeInv` adds that between `StopOthers` and the
  start of the daemons those of the other mode, and for a station the rules, are off
  (or the rules are odd), `RecInv` which mode and password Reconcile has there. Lemmas
  about the operations of `Wifi` say which processes and rules they leave.
  `RestsRight` proves RestIsRight, the safety half of `WifiSettles` and
  `AddressesSettle`, with their exceptions `missed`, `w.lost`, `torn` and odd. Its
  invariant `WakeInv` says of the Wifi that an access point has its address or lost it
  in a failed restart (`Fine`) and that there is a backup of resolv.conf before dhcpcd
  can write it (`Backed`); of Reconcile what it has prepared at each step (`StepInv`),
  that it works on the present resource unless it will be called again (`CopyInv`),
  and that it has finished its work if it will not (`DoneInv`). TLC checked it on a
  larger instance (3 changes, 2 faults).
* `ClusterProofs` holds the proofs about the two components that follow the cluster:
  it extends `AppReconciler`, and `Ingress` is an instance in it (`I`), since both
  modules have variables of the same name. Its theorems about `Ingress` therefore have
  the assumptions on its constants (`IngressConstants`) as a hypothesis.
  - `IngressTypeCorrect`, `StopIsComplete`. `CancelInv` adds that the Cancel of
    `s.router` covers the one live context at any time: that of the empty router after
    Start, that of the new one once it is published. It holds until a router is
    published late, which is the exception in StopStops.
  - `AppTypeCorrect`, `AppRestIsRight`, `AppEditsKept`. RestIsRight is the safety half
    of `Installs` and `StateIsTrue`: whenever the system is at rest (`AtRest`: no
    request queued, no Reconcile, caches current, Flux done), it is `Installed` and
    the state is `Shown`. That it comes to rest is the liveness half, which TLC
    checks. The inductive invariant says, for each thing that can be wrong, who still
    has to hear of it: a cache that is old, a queued request, the Reconcile in
    progress (with what it has decided so far) or an error that will be repeated.
    `NoEditLost`, an action property without a run of its own, follows from
    `CurrentInv`: a copy of the App that can be written is the App as it is, and the
    state decided from it fits.
* `NodeDrainProofs`: `TypeCorrect`, `ShutdownOncePerRequest`, `ShutsDownDrained`,
  `UncordonsAfterShutdown`. The invariant `DrainInv` says what a reconciler knows
  (`WorkInv`: a copy that can be written back is the Node as it is, and a drain whose
  copy is still fresh is the last thing that happened to the old Pods), what the
  annotations say (`NodeShape`: "terminated" with the current rebootID stands from the
  moment the device sets out to shut down until it starts again, and no restart is
  reported before) and where requests and orders are (`NodeCount`: an order is an
  annotation, in the device's hands, carried out or lost; a request is an annotation
  or became an order). Optimistic concurrency enters the proof at one place,
  `UpdateAccepted`: a write that is accepted outdates every other copy.
* `DeviceReconcilerProofs`: `TypeCorrect`, `ManagersApart`, `OneGoroutinePerManager`,
  `RestsWhenDone`. Every step of the system changes the loops of the managers in one
  of three ways (`LoopChange`): not at all, the loop of a running manager, or the
  start of one while no other runs, since `Switch` waits for the other manager before
  it starts one. `StartedRuns` is inductive given the types: a manager that is not
  started has no goroutine, unless Reconcile is in Stop, waiting for it, so that no
  early return or failure lets Start run a second one. RestIsRight is the safety half
  of `Converges`: at rest, everything runs as the Device asks for. Its invariant
  `WakeInv` has four parts: a cache that is old has an event on its way (`CachedInv`),
  a Reconcile has done its work up to the step it is at or something will wake it
  again (`StepInv`), a process that has ended while the system counts on it has a
  report to come (`ProcInv`), and when Reconcile is idle its work is done, or a
  wake-up is queued or on its way (`DoneInv`).

Only model-checked: all liveness properties, since liveness under fairness is outside
of what the proof system handles. Every invariant and safety property of the runs that
pass is proved. Only proved, and left out of the runs: the type invariants,
`OnlyCreateRaces`, `StartedRuns` and `NoEditLost`.

## 6. Not modelled

* Formatting and parsing: table output, YAML, iw, the text of the hostapd, dnsmasq and
  bind configurations (the last of which nothing calls).
* Authentication, the HTTP proxy and the wiring of the API server, whose control flow
  is that of k8s.io/apiserver; logging; the UI's views; the image build.
* Code generated from the API types and the n-gram table of the password generator:
  some 31000 of the repository's 40000 lines of Go and TypeScript, without behaviour
  of their own. Of the rest the map covers a third.
* The refreshing store, device discovery and the mDNS reconciler: what they keep is a
  list that is filled again after every scan or change, on which no modelled component
  depends; their writes to the store are those of `Store`'s other writers.
* Several wifi interfaces, which would share the one `Wifi`; interfaces of other
  types, for which Reconcile only looks up the address.

## 7. Plan

Modelled: the stores, the event bus, the UI's synchronisation, the runner, the
shutdown protocol, the device reconciler with the controller managers, the network
interface and wifi, the ingress controller, the app reconciler. Left, in this order:

1. A refinement from `PubSub` to the one-step publication that `Store` assumes.
2. The safety half, in the form of RestIsRight, of what `Ingress` and `NodeDrain`
   promise.
3. `Refresher`, composed with the event bus: rateLimit, Get, the wrapping watcher.
