------------------------------- MODULE Ingress -------------------------------
(***************************************************************************)
(* IngressController (pkg/ingress): routes HTTP requests to the Services   *)
(* that the Ingress resources of the cluster name.  Every Start has a      *)
(* context, a goroutine that builds a router over a cache of the cluster   *)
(* and publishes it as s.router, a channel on which the informers ask for  *)
(* updates, and a goroutine that serves this channel.                      *)
(*                                                                         *)
(* The DeviceReconciler is the only caller of Start and Stop, so that the  *)
(* mutex is free, but the goroutines write s.router without it.            *)
(*                                                                         *)
(* Abstracted: a rule of an Ingress has one path, and a path matches only  *)
(* itself; headers, rewriting and the proxy itself; the three informers    *)
(* see one cluster, whose changes reach the cache in order.  A cluster has *)
(* its Ingresses `ing', its `ready' Services, and the `stamp' of the       *)
(* annotations of its Endpoints: the endpoints controller stamps the time  *)
(* of the change that triggered an update there, if it knows it.           *)
(***************************************************************************)
EXTENDS Naturals, Sequences

CONSTANTS
    MaxStarts,     \* bound: calls of Start
    Cluster,       \* the states of the cluster: Ingresses by key, ready Services, stamp
    Initial,       \* bound: those there may be at first
    Request,       \* the requests, by host and path
    Unsynced,      \* a cache that has not been filled yet
    Cap,           \* capacity of the channel, 10 in the code
    Informers,     \* 3 in the code; each has one call of update at a time
    MaxChanges     \* bound: changes of the cluster

IngressConstants ==
    /\ MaxStarts \in Nat \ {0} /\ Cap \in Nat \ {0} /\ Informers \in Nat /\ MaxChanges \in Nat
    /\ Unsynced \notin Cluster /\ Initial \subseteq Cluster

ASSUME IngressAssumption == IngressConstants

VARIABLES
    started,       \* s.started
    router,        \* s.router: that of a goroutine, or 0 for the empty one
    handler,       \* [router -> Handler: the cluster whose routes it has]
    cancels,       \* [router -> the contexts its Cancel cancels]
    live,          \* the contexts that are not done
    prev,          \* [goroutine -> the contexts prevCancel cancels]
    at,            \* [goroutine of Start -> where it is]
    built,         \* [goroutine of Start -> what its r.Update has built]
    loop,          \* [goroutine that serves the channel -> where it is, what it built]
    ch,            \* [channel -> its length]
    closed,        \* the channels that are closed
    notes,         \* [informers -> events whose update has not sent yet: an informer
                   \* is in update, the other events wait for theirs to return]
    cluster,       \* the cluster
    cache,         \* [cache -> the cluster as it sees it, or Unsynced]
    crashed,       \* the process ended by a panic
    late,          \* history: a router was published after its context was done
    latest,        \* history: [router -> the routes built for it most recently]
    behind,        \* history: [router -> a change is not in it that nobody will add]
    changes

control == <<started, router, cancels, live, prev, at>>
routes == <<handler, built, loop, latest, behind>>
watch == <<ch, closed, notes, cache>>
vars == <<control, routes, watch, cluster, crashed, late, changes>>

Gor == 1..MaxStarts
Router == 0..MaxStarts

-----------------------------------------------------------------------------
(* newRouter.  A router is represented by the cluster it was built from,   *)
(* one without routes by Unsynced.                                         *)

Table == Cluster \cup {Unsynced}
NoRoutes == Unsynced

Considered(c) == SelectSeq(c.ing, LAMBDA i : i.class \in {"", "kubemate"})

\* validateIngressBackend.
Valid(i) == i.service # "invalid"

\* Two Ingresses claim the same host and path.
Duplicate(s) == \E i, j \in DOMAIN s :
    i # j /\ Valid(s[i]) /\ Valid(s[j]) /\ s[i].host = s[j].host /\ s[i].path = s[j].path

Fails(c) == c = Unsynced \/ Duplicate(Considered(c))

\* A rule with a host adds a route for that host to an empty router, as the
\* path is added to the root router all the same: `m, ok :=` declares a new m.
HostRoute(i, q) == i.host # "" /\ i.host = q.host

\* endpointURL fails unless the Service has a ready endpoint at the port.
PathRoute(i, c, q) == Valid(i) /\ i.service \in c.ready /\ i.path = q.path

\* The first route that matches answers a request.
Lookup(c, q) ==
    LET s == Considered(c)
        hits == {k \in DOMAIN s : HostRoute(s[k], q) \/ PathRoute(s[k], c, q)}
        first == CHOOSE k \in hits : \A l \in hits : k <= l
    IN  IF hits = {} \/ HostRoute(s[first], q) THEN "notfound" ELSE s[first].service

ServeHTTP(c, q) == IF c = NoRoutes THEN "notfound" ELSE Lookup(c, q)

-----------------------------------------------------------------------------
TypeOK ==
    /\ started \in BOOLEAN /\ crashed \in BOOLEAN /\ late \in BOOLEAN
    /\ router \in Router
    /\ handler \in [Router -> Table]
    /\ cancels \in [Router -> SUBSET Gor]
    /\ live \subseteq Gor
    /\ prev \in [Gor -> SUBSET Gor]
    /\ at \in [Gor -> {"none", "setup", "build", "assign", "publish", "wait", "ended"}]
    /\ built \in [Gor -> Table]
    /\ loop \in [Gor -> [at : {"none", "receive", "assign"}, built : Table]]
    /\ ch \in [Gor -> 0..Cap] /\ closed \subseteq Gor
    /\ notes \in [Gor -> Nat]
    /\ cluster \in Cluster
    /\ cache \in [Gor -> Table]
    /\ latest \in [Gor -> Table] /\ behind \in [Gor -> BOOLEAN]
    /\ changes \in 0..MaxChanges

Init ==
    /\ started = FALSE /\ crashed = FALSE /\ late = FALSE
    /\ router = 0
    /\ handler = [r \in Router |-> NoRoutes]
    /\ cancels = [r \in Router |-> {}]
    /\ live = {}
    /\ prev = [g \in Gor |-> {}]
    /\ at = [g \in Gor |-> "none"]
    /\ built = [g \in Gor |-> NoRoutes]
    /\ loop = [g \in Gor |-> [at |-> "none", built |-> NoRoutes]]
    /\ ch = [g \in Gor |-> 0] /\ closed = {}
    /\ notes = [g \in Gor |-> 0]
    /\ cluster \in Initial
    /\ cache = [g \in Gor |-> Unsynced]
    /\ latest = [g \in Gor |-> NoRoutes] /\ behind = [g \in Gor |-> FALSE]
    /\ changes = 0

Goto(g, l) == at' = [at EXCEPT ![g] = l]

-----------------------------------------------------------------------------
(* Start and Stop *)

\* Mutant: the Cancel of the router stays what it was until a new router comes.
StartUncancelled(g) ==
    /\ ~started
    /\ at[g] = "none" /\ \A h \in 1..(g - 1) : at[h] # "none"
    /\ started' = TRUE
    /\ live' = live \cup {g}
    /\ prev' = [prev EXCEPT ![g] = cancels[router]]
    /\ Goto(g, "setup")
    /\ UNCHANGED <<router, cancels, routes, watch, cluster, crashed, late, changes>>

Start(g) ==
    /\ ~started
    /\ at[g] = "none" /\ \A h \in 1..(g - 1) : at[h] # "none"
    /\ started' = TRUE
    /\ live' = live \cup {g}
    /\ prev' = [prev EXCEPT ![g] = cancels[router]]
    /\ cancels' = [cancels EXCEPT ![router] = @ \cup {g}]
    /\ Goto(g, "setup")
    /\ UNCHANGED <<router, routes, watch, cluster, crashed, late, changes>>

Stop ==
    /\ started
    /\ started' = FALSE
    /\ live' = live \ cancels[router]
    /\ router' = 0
    /\ cancels' = [cancels EXCEPT ![0] = {}]
    /\ handler' = [handler EXCEPT ![0] = NoRoutes]
    /\ UNCHANGED <<prev, at, built, loop, latest, behind, watch, cluster, crashed, late, changes>>

-----------------------------------------------------------------------------
(* start, in the goroutine of Start.  It is called again, a second later,  *)
(* if it cannot reach the API server.                                      *)

GiveUp(g) ==
    /\ at[g] = "setup"
    /\ g \notin live
    /\ Goto(g, "ended")
    /\ UNCHANGED <<started, router, cancels, live, prev, routes, watch, cluster, crashed, late,
                   changes>>

\* The new router, the informers, the goroutines, prevCancel.
Setup(g) ==
    /\ at[g] = "setup"
    /\ cancels' = [cancels EXCEPT ![g] = {g}]
    /\ loop' = [loop EXCEPT ![g].at = "receive"]
    /\ live' = live \ prev[g]
    /\ Goto(g, "build")
    /\ UNCHANGED <<started, router, prev, handler, built, latest, behind, watch, cluster, crashed,
                   late, changes>>

\* WaitForCacheSync, then newRouter in r.Update, which fails without a cache.
Build(g) ==
    /\ at[g] = "build"
    /\ cache[g] # Unsynced \/ g \notin live
    /\ IF Fails(cache[g]) THEN Goto(g, "publish") /\ UNCHANGED <<built, latest, behind>>
       ELSE /\ built' = [built EXCEPT ![g] = cache[g]]
            /\ latest' = [latest EXCEPT ![g] = cache[g]]
            /\ behind' = [behind EXCEPT ![g] = FALSE]
            /\ Goto(g, "assign")
    /\ UNCHANGED <<started, router, cancels, live, prev, handler, loop, watch, cluster, crashed,
                   late, changes>>

\* r.Handler = h.  The goroutine that serves the channel may be in r.Update,
\* too, and may have assigned a handler that was built later than this one.
Assign(g) ==
    /\ at[g] = "assign"
    /\ handler' = [handler EXCEPT ![g] = built[g]]
    /\ built' = [built EXCEPT ![g] = NoRoutes]
    /\ behind' = [behind EXCEPT ![g] = @ \/ (built[g] # latest[g] /\ loop[g].at # "assign")]
    /\ Goto(g, "publish")
    /\ UNCHANGED <<started, router, cancels, live, prev, loop, latest, watch, cluster,
                   crashed, late, changes>>

\* It then waits for the end of c.Start, which comes with that of the context.
Publish(g) ==
    /\ at[g] = "publish"
    /\ router' = g
    /\ late' = (late \/ g \notin live)
    /\ Goto(g, "wait")
    /\ UNCHANGED <<started, cancels, live, prev, routes, watch, cluster, crashed, changes>>

-----------------------------------------------------------------------------
(* The informers and the channel *)

\* Mutant: OnUpdate compares generations only, which Endpoints do not have.
NoticedByGeneration(old, new) == old = Unsynced \/ old.ing # new.ing

\* OnAdd and OnDelete call update, OnUpdate if the generation or the
\* annotations differ: Endpoints have no generation.
Noticed(old, new) == old = Unsynced \/ old.ing # new.ing \/ old.stamp # new.stamp

\* A Service becomes ready or stops being ready, and nothing shows when.
Unstamped(old, new) == old # Unsynced /\ old.ing = new.ing /\ old.stamp = new.stamp

\* mapToString lists a map in any order: OnUpdate may also call update for
\* annotations that are equal.
Fetch(g) ==
    /\ at[g] \notin {"none", "setup"}
    /\ g \in live
    /\ cache[g] # cluster
    /\ cache' = [cache EXCEPT ![g] = cluster]
    /\ \/ notes' = [notes EXCEPT ![g] = @ + 1] /\ UNCHANGED behind
       \/ /\ ~Noticed(cache[g], cluster)
          /\ behind' = [behind EXCEPT ![g] = @ \/ Unstamped(cache[g], cluster)]
          /\ UNCHANGED notes
    /\ UNCHANGED <<control, handler, built, loop, latest, ch, closed, cluster, crashed, late,
                   changes>>

\* `ch <- struct{}{}', which waits as long as the channel is full.
Notify(g) ==
    /\ notes[g] > 0
    /\ g \notin closed
    /\ ch[g] < Cap
    /\ ch' = [ch EXCEPT ![g] = @ + 1]
    /\ notes' = [notes EXCEPT ![g] = @ - 1]
    /\ UNCHANGED <<control, routes, closed, cache, cluster, crashed, late, changes>>

\* `defer recover()' has no effect.
NotifyPanics(g) ==
    /\ notes[g] > 0
    /\ g \in closed
    /\ crashed' = TRUE
    /\ UNCHANGED <<control, routes, watch, cluster, late, changes>>

\* The informers end with the context.  Events that wait for a handler are
\* dropped, but a handler that is in update stays there until it can send.
InformersEnd(g) ==
    /\ notes[g] > Informers
    /\ g \notin live
    /\ notes' = [notes EXCEPT ![g] = Informers]
    /\ UNCHANGED <<control, routes, ch, closed, cache, cluster, crashed, late, changes>>

\* Mutant: the goroutine that closes the channel is missing.
NeverClosed(g) == FALSE /\ g \in Gor /\ UNCHANGED vars

CloseChannel(g) ==
    /\ at[g] \notin {"none", "setup"}
    /\ g \notin live \cup closed
    /\ closed' = closed \cup {g}
    /\ UNCHANGED <<control, routes, ch, notes, cache, cluster, crashed, late, changes>>

-----------------------------------------------------------------------------
(* The goroutine that serves the channel *)

\* It receives and, after 100ms, calls r.Update, which lists the cache.  (The
\* free place in the channel in between is like a larger Cap.)
LoopBuilds(g) ==
    /\ loop[g].at = "receive"
    /\ ch[g] > 0
    /\ ch' = [ch EXCEPT ![g] = @ - 1]
    /\ IF Fails(cache[g]) THEN UNCHANGED <<loop, latest, behind>>
       ELSE /\ loop' = [loop EXCEPT ![g] = [at |-> "assign", built |-> cache[g]]]
            /\ latest' = [latest EXCEPT ![g] = cache[g]]
            /\ behind' = [behind EXCEPT ![g] = FALSE]
    /\ UNCHANGED <<control, handler, built, closed, notes, cache, cluster, crashed, late, changes>>

LoopAssigns(g) ==
    /\ loop[g].at = "assign"
    /\ handler' = [handler EXCEPT ![g] = loop[g].built]
    /\ loop' = [loop EXCEPT ![g] = [at |-> "receive", built |-> NoRoutes]]
    /\ behind' = [behind EXCEPT ![g] = @ \/ (loop[g].built # latest[g] /\ at[g] # "assign")]
    /\ UNCHANGED <<control, built, latest, watch, cluster, crashed, late, changes>>

LoopEnds(g) ==
    /\ loop[g].at = "receive"
    /\ ch[g] = 0 /\ g \in closed
    /\ loop' = [loop EXCEPT ![g].at = "none"]
    /\ UNCHANGED <<control, handler, built, latest, behind, watch, cluster, crashed, late,
                   changes>>

-----------------------------------------------------------------------------
\* Users change Ingresses, Pods become ready.
Change ==
    /\ changes < MaxChanges
    /\ changes' = changes + 1
    /\ cluster' \in Cluster \ {cluster}
    /\ UNCHANGED <<control, routes, watch, crashed, late>>

StartStep(g) == Setup(g) \/ Build(g) \/ Assign(g) \/ Publish(g)

LoopStep(g) == LoopBuilds(g) \/ LoopAssigns(g) \/ LoopEnds(g)

WatchStep(g) ==
    Fetch(g) \/ Notify(g) \/ NotifyPanics(g) \/ InformersEnd(g)

\* Nothing happens after a panic.
Next ==
    /\ ~crashed
    /\ \/ Stop \/ Change
       \/ \E g \in Gor : \/ Start(g) \/ GiveUp(g) \/ StartStep(g) \/ LoopStep(g)
                         \/ WatchStep(g) \/ CloseChannel(g)

Spec == Init /\ [][Next]_vars

(***************************************************************************)
(* Goroutines that can run do run, the API server becomes reachable and    *)
(* the watches deliver.  Nobody need call Start or Stop.                   *)
(***************************************************************************)
Fairness ==
    \A g \in Gor : /\ WF_vars(~crashed /\ StartStep(g)) /\ WF_vars(~crashed /\ LoopStep(g))
                   /\ WF_vars(~crashed /\ WatchStep(g)) /\ WF_vars(~crashed /\ CloseChannel(g))

FairSpec == Spec /\ Fairness

-----------------------------------------------------------------------------
(* Properties *)

(***************************************************************************)
(* A stopped controller answers with the empty router and no goroutine     *)
(* goes on watching the cluster: the Cancel that Stop finds in s.router,   *)
(* which Start and start write at different times, covers every context -  *)
(* as long as no start that Stop has overtaken publishes its router.       *)
(***************************************************************************)
StopStops == ~started /\ ~late => router = 0 /\ live = {}

(***************************************************************************)
(* The routes follow the cluster: the last change is in the handler that   *)
(* answers requests, whatever updates it competes with for the channel and *)
(* the cache, unless the Ingresses contradict each other; unless Endpoints *)
(* became ready without a new stamp, which OnUpdate may ignore; and unless *)
(* of two Updates that overlap the one that built older routes assigns     *)
(* them last.  Two that overlap otherwise are no excuse.                   *)
(***************************************************************************)
RoutesFollow ==
    <>[](started /\ ~late /\ ~crashed => \/ Fails(cluster)
                                         \/ /\ router # 0
                                            /\ \/ behind[router]
                                               \/ \A q \in Request :
                                                    ServeHTTP(handler[router], q) = Lookup(cluster, q))

\* After a Stop all goroutines of the Start end, in whatever state it met them,
\* or the process panics: none waits for a channel or a cache for ever, nor does
\* a handler that Stop found waiting for a place in the full channel.
CancelledEnds ==
    \A g \in Gor : (at[g] # "none" /\ g \notin live) ~>
        (crashed \/ (at[g] \in {"wait", "ended"} /\ loop[g].at = "none" /\ notes[g] = 0))
=============================================================================
