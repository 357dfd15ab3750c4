----------------------------- MODULE NodeDrain -----------------------------
(***************************************************************************)
(* The orderly shutdown of a device (pkg/rest/device_shutdown_rest.go,     *)
(* pkg/reconciler/device/node_reconciler.go, pkg/drain): a protocol        *)
(* between the NodeReconcilers of the server device and of the device      *)
(* itself, whose messages are annotations of the Kubernetes Node.          *)
(*                                                                         *)
(* A reconciler reads Nodes from its informer's cache, which follows the   *)
(* API server with a delay, and writes them with optimistic concurrency: a *)
(* copy is `fresh' as long as nobody has written the Node since, and only  *)
(* a fresh copy can be written back.  A write that fails makes Reconcile   *)
(* return an error and be called again.                                    *)
(*                                                                         *)
(* rebootID is a new UUID per start of the reconciler.  Only the           *)
(* reconciler of the Node's own device compares it, so that the annotation *)
(* is "current" or "former".                                               *)
(***************************************************************************)
EXTENDS Naturals

LOCAL INSTANCE Functions

CONSTANTS Node,            \* devices, and their Nodes
          Server,          \* the device in server mode
          MaxRequests,     \* bound: shutdown requests of all devices together
          MaxFaults        \* bound: restarts, failing drains and shutdowns, other writers

ASSUME ServerAssumption == Server \in Node
ASSUME BoundsAssumption == MaxRequests \in Nat /\ MaxFaults \in Nat

VARIABLES node,      \* the annotations of each Node in the API server
          unsched,   \* spec.unschedulable
          pods,      \* Pods that a drain has to delete run on the node: "new" ones
                     \* were started after a shutdown was requested, "old" ones before
          up,        \* kubemate runs on the device
          cache,     \* cache[d][n]: Node n in the cache of d's reconciler
          work,      \* the Reconcile call in progress on each device
          requests, ordered, shutdowns, lost,  \* history: numbers per device
          faults

vars == <<node, unsched, pods, up, cache, work, requests, ordered, shutdowns, lost, faults>>
history == <<requests, ordered, shutdowns, lost>>

Annotations == [drain: BOOLEAN, uncordon: BOOLEAN, restarted: {"", "false", "true"},
                shutdown: BOOLEAN, terminated: {"", "current", "former"}]

None == [drain |-> FALSE, uncordon |-> FALSE, restarted |-> "", shutdown |-> FALSE,
         terminated |-> ""]

Idle(d) == [at |-> "idle", n |-> d, a |-> None, fresh |-> FALSE]

TypeOK ==
    /\ node \in [Node -> Annotations]
    /\ unsched \in [Node -> BOOLEAN]
    /\ pods \in [Node -> {"none", "old", "new"}]
    /\ up \in [Node -> BOOLEAN]
    /\ cache \in [Node -> [Node -> [a: Annotations, fresh: BOOLEAN]]]
    /\ work \in [Node -> [at: {"idle", "drain", "drained", "shutdown"}, n: Node,
                          a: Annotations, fresh: BOOLEAN]]
    /\ requests \in [Node -> Nat]
    /\ ordered \in [Node -> Nat]
    /\ shutdowns \in [Node -> Nat]
    /\ lost \in [Node -> Nat]
    /\ faults \in 0..MaxFaults

Init ==
    /\ node = [n \in Node |-> None]
    /\ unsched = [n \in Node |-> FALSE]
    /\ pods = [n \in Node |-> "old"]
    /\ up = [n \in Node |-> TRUE]
    /\ cache = [d \in Node |-> [n \in Node |-> [a |-> None, fresh |-> TRUE]]]
    /\ work = [d \in Node |-> Idle(d)]
    /\ requests = [n \in Node |-> 0]
    /\ ordered = [n \in Node |-> 0]
    /\ shutdowns = [n \in Node |-> 0]
    /\ lost = [n \in Node |-> 0]
    /\ faults = 0

-----------------------------------------------------------------------------
(* The API server, which runs on the server device *)

Unfresh(r) == [r EXCEPT !.fresh = FALSE]

\* The API server stores Node n: every copy of it is outdated.
Store(n, a) ==
    /\ node' = [node EXCEPT ![n] = a]
    /\ cache' = [e \in Node |-> [cache[e] EXCEPT ![n] = Unfresh(@)]]

Outdated(n) == [e \in Node |-> IF work[e].n = n THEN Unfresh(work[e]) ELSE work[e]]

\* Mutant: an update that does not compare the versions.
UpdateBlind(d, n, copy, a, w) ==
    /\ up[Server]
    /\ Store(n, a)
    /\ work' = [Outdated(n) EXCEPT ![d] = w]

\* Client.Update of Node n by device d with the copy it has; Reconcile goes
\* on as w, or returns the error.  An update that is stored but answered with
\* an error is one that succeeds, after which the next call fails (DrainFails,
\* ShutdownFails) or, as Reconcile has ended anyway, none is made.
Update(d, n, copy, a, w) ==
    \/ /\ up[Server] /\ copy.fresh
       /\ Store(n, a)
       /\ work' = [Outdated(n) EXCEPT ![d] = w]
    \/ /\ ~(up[Server] /\ copy.fresh)
       /\ work' = [work EXCEPT ![d] = Idle(d)]
       /\ UNCHANGED <<node, cache>>

\* The Nodes for which Reconcile can have something to do on device d.
Concerns(d, n) == d = Server \/ n = d

\* The informer of d learns the state of Node n.
Sync(d, n) ==
    /\ up[d] /\ up[Server]
    /\ Concerns(d, n)
    /\ cache[d][n] # [a |-> node[n], fresh |-> TRUE]
    /\ cache' = [cache EXCEPT ![d][n] = [a |-> node[n], fresh |-> TRUE]]
    /\ UNCHANGED <<node, unsched, pods, up, work, history, faults>>

Fault == faults < MaxFaults /\ faults' = faults + 1

\* Somebody else, such as the kubelet, writes Node n.
Touch(n) ==
    /\ up[Server]
    /\ Fault
    /\ Store(n, node[n])
    /\ work' = Outdated(n)
    /\ UNCHANGED <<unsched, pods, up, history>>

\* The scheduler starts a Pod on the node.
Schedule(n) ==
    /\ up[Server] /\ up[n]
    /\ ~unsched[n] /\ pods[n] = "none"
    /\ pods' = [pods EXCEPT ![n] = "new"]
    /\ UNCHANGED <<node, unsched, up, cache, work, history, faults>>

-----------------------------------------------------------------------------
(* DeviceShutdownREST.Create on device d, for an object of the given name *)

Create(d, name) ==
    /\ up[d] /\ up[Server]
    /\ name # d
    /\ SumFunction(requests) < MaxRequests
    /\ requests' = [requests EXCEPT ![d] = @ + 1]
    /\ Store(d, [node[d] EXCEPT !.drain = TRUE])
    /\ work' = Outdated(d)
    /\ UNCHANGED <<unsched, pods, up, ordered, shutdowns, lost, faults>>

-----------------------------------------------------------------------------
(* NodeReconciler.Reconcile on device d for Node n *)

Reads(d, n) == up[d] /\ work[d].at = "idle" /\ Concerns(d, n)

MustDrain(d, n) == d = Server /\ cache[d][n].a.drain

\* Mutant: the server does not wait for the restart.
MustUncordonEarly(d, n) ==
    LET a == cache[d][n].a
    IN  d = Server /\ ~a.drain /\ a.uncordon /\ a.terminated = ""

MustUncordon(d, n) ==
    LET a == cache[d][n].a
    IN  d = Server /\ ~a.drain /\ a.uncordon /\ a.restarted = "true" /\ a.terminated = ""

\* The part that only the device itself executes.
Own(d, n) ==
    /\ ~MustDrain(d, n) /\ ~MustUncordon(d, n)
    /\ n = d /\ cache[d][n].a.terminated # "current"

DrainBegin(d, n) ==
    LET copy == cache[d][n]
        a == [copy.a EXCEPT !.uncordon = TRUE, !.restarted = "false"]
    IN  /\ Reads(d, n)
        /\ MustDrain(d, n)
        /\ Update(d, n, copy, a, [at |-> "drain", n |-> n, a |-> a, fresh |-> TRUE])
        /\ UNCHANGED <<unsched, pods, up, history, faults>>

\* cordonOrUncordon does not tell the helper which state is desired: the
\* patch it computes is empty.
CordonOrUncordon(n, cordon) == UNCHANGED unsched

\* DrainNode succeeds: the Pods that ran are gone.
DrainNode(d) ==
    /\ up[d] /\ up[Server]
    /\ work[d].at = "drain"
    /\ CordonOrUncordon(work[d].n, TRUE)
    /\ pods' = [pods EXCEPT ![work[d].n] = "none"]
    /\ work' = [work EXCEPT ![d].at = "drained"]
    /\ UNCHANGED <<node, up, cache, history, faults>>

\* Mutant: the error of DrainNode is only logged.
DrainFailsIgnored(d) ==
    /\ up[d]
    /\ work[d].at = "drain"
    /\ Fault
    /\ work' = [work EXCEPT ![d].at = "drained"]
    /\ UNCHANGED <<node, unsched, pods, up, cache, history>>

\* DrainNode fails, for instance because a Pod does not end in time.
DrainFails(d) ==
    /\ up[d]
    /\ work[d].at = "drain"
    /\ Fault
    /\ work' = [work EXCEPT ![d] = Idle(d)]
    /\ UNCHANGED <<node, unsched, pods, up, cache, history>>

\* Mutant: the drain is done but the device is not told.
DrainEndUntold(d) ==
    LET w == work[d]
    IN  /\ up[d]
        /\ w.at = "drained"
        /\ Update(d, w.n, w, [w.a EXCEPT !.drain = FALSE], Idle(d))
        /\ UNCHANGED <<unsched, pods, up, history, faults>>

\* The device is told to shut down.
DrainEnd(d) ==
    LET w == work[d]
        a == [w.a EXCEPT !.drain = FALSE, !.shutdown = TRUE]
    IN  /\ up[d]
        /\ w.at = "drained"
        /\ Update(d, w.n, w, a, Idle(d))
        /\ ordered' = [ordered EXCEPT ![w.n] =
                          IF ~node[w.n].shutdown /\ node'[w.n].shutdown THEN @ + 1 ELSE @]
        /\ UNCHANGED <<unsched, pods, up, requests, shutdowns, lost, faults>>

Uncordon(d, n) ==
    LET copy == cache[d][n]
    IN  /\ Reads(d, n)
        /\ MustUncordon(d, n)
        /\ CordonOrUncordon(n, FALSE)
        /\ Update(d, n, copy, [copy.a EXCEPT !.uncordon = FALSE], Idle(d))
        /\ UNCHANGED <<pods, up, history, faults>>

Terminate(d) ==
    LET copy == cache[d][d]
        a == [copy.a EXCEPT !.shutdown = FALSE, !.terminated = "current"]
    IN  /\ Reads(d, d)
        /\ Own(d, d)
        /\ copy.a.shutdown
        /\ Update(d, d, copy, a, [at |-> "shutdown", n |-> d, a |-> a, fresh |-> TRUE])
        /\ UNCHANGED <<unsched, pods, up, history, faults>>

\* Shutdown: the marker file is written and kubemate ends, which makes
\* systemd halt the device.
Shutdown(d) ==
    /\ up[d]
    /\ work[d].at = "shutdown"
    /\ up' = [up EXCEPT ![d] = FALSE]
    /\ shutdowns' = [shutdowns EXCEPT ![d] = @ + 1]
    /\ work' = [work EXCEPT ![d] = Idle(d)]
    /\ UNCHANGED <<node, unsched, pods, cache, requests, ordered, lost, faults>>

\* The marker file cannot be written.
ShutdownFails(d) ==
    /\ up[d]
    /\ work[d].at = "shutdown"
    /\ Fault
    /\ lost' = [lost EXCEPT ![d] = @ + 1]
    /\ work' = [work EXCEPT ![d] = Idle(d)]
    /\ UNCHANGED <<node, unsched, pods, up, cache, requests, ordered, shutdowns>>

Restarted(d) ==
    LET copy == cache[d][d]
    IN  /\ Reads(d, d)
        /\ Own(d, d)
        /\ ~copy.a.shutdown /\ copy.a.restarted = "false" /\ copy.a.terminated # ""
        /\ Update(d, d, copy, [copy.a EXCEPT !.terminated = "", !.restarted = "true"], Idle(d))
        /\ UNCHANGED <<unsched, pods, up, history, faults>>

-----------------------------------------------------------------------------
(* Starts of the reconciler: SetupWithManager draws a new rebootID *)

Former(a) == IF a.terminated = "current" THEN [a EXCEPT !.terminated = "former"] ELSE a

\* Mutant: the rebootID survives a restart.
NewRebootIDForgotten(d) ==
    /\ cache' = [cache EXCEPT ![d] = [n \in Node |-> [a |-> None, fresh |-> FALSE]]]
    /\ work' = [work EXCEPT ![d] = Idle(d)]
    /\ UNCHANGED node

\* d starts with an empty cache; what the other copies of its Node call the
\* current rebootID is the former one.
NewRebootID(d) ==
    /\ node' = [node EXCEPT ![d] = Former(@)]
    /\ cache' = [e \in Node |->
           IF e = d THEN [n \in Node |-> [a |-> None, fresh |-> FALSE]]
           ELSE [cache[e] EXCEPT ![d].a = Former(@)]]
    /\ work' = [e \in Node |->
           IF e = d THEN Idle(d)
           ELSE IF work[e].n = d THEN [work[e] EXCEPT !.a = Former(@)] ELSE work[e]]

\* The user turns the device on again.
Boot(d) ==
    /\ ~up[d]
    /\ up' = [up EXCEPT ![d] = TRUE]
    /\ NewRebootID(d)
    /\ pods' = [pods EXCEPT ![d] =
                    IF requests[d] > shutdowns[d] + lost[d] THEN "new" ELSE "old"]
    /\ UNCHANGED <<unsched, history, faults>>

\* kubemate stops and is started again by systemd.
Restart(d) ==
    /\ up[d]
    /\ Fault
    /\ NewRebootID(d)
    /\ lost' = [lost EXCEPT ![d] = IF work[d].at = "shutdown" THEN @ + 1 ELSE @]
    /\ UNCHANGED <<unsched, pods, up, requests, ordered, shutdowns>>

-----------------------------------------------------------------------------
Reconcile(d) ==
    \/ \E n \in Node : DrainBegin(d, n) \/ Uncordon(d, n)
    \/ DrainNode(d) \/ DrainEnd(d) \/ Terminate(d) \/ Shutdown(d) \/ Restarted(d)

Next ==
    \/ \E d \in Node :
           \/ Reconcile(d) \/ DrainFails(d) \/ ShutdownFails(d) \/ Boot(d) \/ Restart(d)
           \/ Touch(d) \/ Schedule(d)
           \/ \E n \in Node : Sync(d, n) \/ Create(d, n)

Spec == Init /\ [][Next]_vars

(***************************************************************************)
(* Reconcile is called again after an error and on every change of the     *)
(* cache, informers follow the API server, and devices that were shut down *)
(* are turned on again.                                                    *)
(***************************************************************************)
Fairness == \A d \in Node : /\ WF_vars(Reconcile(d))
                            /\ WF_vars(Boot(d))
                            /\ \A n \in Node : WF_vars(Sync(d, n))

FairSpec == Spec /\ Fairness

-----------------------------------------------------------------------------
(* Properties *)

(***************************************************************************)
(* A device is shut down, or fails to be, at most once per order and an    *)
(* order takes a request of its own, although caches are stale, a drain is *)
(* interrupted by other writers and both reconcilers restart.              *)
(***************************************************************************)
OneShutdownPerRequest ==
    \A n \in Node : shutdowns[n] + lost[n] <= ordered[n] /\ ordered[n] <= requests[n]

(***************************************************************************)
(* The server takes the uncordon mark from a Node only when every shutdown *)
(* ordered so far has taken place (or failed) and the device is back.      *)
(***************************************************************************)
UncordonAfterShutdown ==
    [][\A n \in Node : node[n].uncordon /\ ~node'[n].uncordon
           => up[n] /\ shutdowns[n] + lost[n] = ordered[n]]_vars

\* A device that was asked to shut down does so, unless its one attempt to
\* carry out the order failed.
RequestServed == \A n \in Node : node[n].drain ~> (~up[n] \/ lost[n] > 0)

(***************************************************************************)
(* In the end every device is up again and no annotation asks for anything.*)
(* A device that failed to shut down is marked as terminated until it is   *)
(* restarted.                                                              *)
(***************************************************************************)
Settles ==
    \A n \in Node : <>[](\/ /\ up[n] /\ node[n].terminated = ""
                            /\ ~node[n].drain /\ ~node[n].shutdown /\ ~node[n].uncordon
                         \/ node[n].terminated = "current" /\ lost[n] > 0)

(***************************************************************************)
(* A device never shuts down with Pods that ran when this was requested    *)
(* and were not drained, whatever order of an earlier request is left over *)
(* and whichever drain failed.  (Pods scheduled after the drain may run:   *)
(* cordonOrUncordon does not cordon.  So may the ones of a boot that the   *)
(* request precedes: their drain was done before the boot.)                *)
(***************************************************************************)
DrainedFirst == [][\A n \in Node : up[n] /\ ~up'[n] => pods[n] # "old"]_vars
=============================================================================
