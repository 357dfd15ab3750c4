--------------------------- MODULE NodeDrainProofs ---------------------------
(***************************************************************************)
(* The shutdown protocol between the NodeReconcilers of the server and of  *)
(* a device: one shutdown per request, drained before and uncordoned after *)
(* it, for any number of devices, requests, restarts and failures.         *)
(***************************************************************************)
EXTENDS NodeDrain, TLAPS

Work == [at: {"idle", "drain", "drained", "shutdown"}, n: Node, a: Annotations, fresh: BOOLEAN]

\* Requests and orders that are annotations, and orders in a device's hands.
Requested(n) == IF node[n].drain THEN 1 ELSE 0
Ordered(n) == IF node[n].shutdown THEN 1 ELSE 0
InHand(n) == IF work[n].at = "shutdown" THEN 1 ELSE 0

(***************************************************************************)
(* What a reconciler knows.  A copy that can be written back is the Node   *)
(* as it is; a call that drains holds a Node with the request and with the *)
(* restart pending, and while its copy is fresh the drain it has done is   *)
(* the last thing that happened to the old Pods.                           *)
(***************************************************************************)
WorkInv(d) ==
    /\ \A n \in Node : cache[d][n].fresh => cache[d][n].a = node[n]
    /\ work[d].fresh => work[d].a = node[work[d].n]
    /\ work[d].at = "shutdown" => work[d].n = d
    /\ work[d].at \in {"drain", "drained"} =>
           work[d].a.drain /\ work[d].a.restarted = "false"
    /\ work[d].at = "drained" /\ work[d].fresh => pods[work[d].n] # "old"

(***************************************************************************)
(* What the annotations of a Node say.  "terminated" with the current      *)
(* rebootID stands from the moment the device sets out to shut down until  *)
(* it starts again; an order is either an annotation, in the device's      *)
(* hands, or carried out; a request is an annotation or has become an      *)
(* order; and until the device reports its restart, none is reported.      *)
(***************************************************************************)
NodeShape(n) ==
    /\ work[n].at = "shutdown" \/ ~up[n] => node[n].terminated = "current"
    /\ ~up[n] => work[n].at = "idle"
    /\ node[n].shutdown \/ node[n].terminated # "" => node[n].restarted = "false"
    /\ node[n].shutdown \/ work[n].at = "shutdown" => pods[n] # "old"

NodeCount(n) ==
    /\ shutdowns[n] + lost[n] + Ordered(n) + InHand(n) = ordered[n]
    /\ ordered[n] + Requested(n) <= requests[n]

NodeInv(n) == NodeShape(n) /\ NodeCount(n)

DrainInv == TypeOK /\ \A n \in Node : WorkInv(n) /\ NodeInv(n)

-----------------------------------------------------------------------------
(***************************************************************************)
(* What the API server's writes and the restarts do, node by node.         *)
(***************************************************************************)

\* What TypeOK says of one device.
LEMMA Types ==
    ASSUME TypeOK, NEW d \in Node
    PROVE  /\ work[d] \in Work /\ node[d] \in Annotations
           /\ \A n \in Node : cache[d][n] \in [a: Annotations, fresh: BOOLEAN]
           /\ requests[d] \in Nat /\ ordered[d] \in Nat
           /\ shutdowns[d] \in Nat /\ lost[d] \in Nat
  BY DEF TypeOK, Work

\* The API server stores a Node: copies of it are outdated, and nothing else.
LEMMA StoreEffect ==
    ASSUME TypeOK, NEW n \in Node, NEW a \in Annotations, Store(n, a)
    PROVE  /\ node' \in [Node -> Annotations]
           /\ cache' \in [Node -> [Node -> [a: Annotations, fresh: BOOLEAN]]]
           /\ node'[n] = a
           /\ \A m \in Node : m # n => node'[m] = node[m]
           /\ \A e, m \in Node : IF m = n THEN ~cache'[e][m].fresh
                                          ELSE cache'[e][m] = cache[e][m]
<1>1. \A r \in [a: Annotations, fresh: BOOLEAN] :
          Unfresh(r) \in [a: Annotations, fresh: BOOLEAN] /\ ~Unfresh(r).fresh
  BY DEF Unfresh
<1>2. ASSUME NEW e \in Node
      PROVE  /\ cache'[e] \in [Node -> [a: Annotations, fresh: BOOLEAN]]
             /\ \A m \in Node : IF m = n THEN ~cache'[e][m].fresh
                                         ELSE cache'[e][m] = cache[e][m]
  <2>1. cache[e] \in [Node -> [a: Annotations, fresh: BOOLEAN]]
    BY DEF TypeOK
  <2>2. cache'[e] = [cache[e] EXCEPT ![n] = Unfresh(@)]
    BY DEF Store
  <2>3. QED
    BY <1>1, <2>1, <2>2
<1>3. cache' \in [Node -> [Node -> [a: Annotations, fresh: BOOLEAN]]]
  BY <1>2 DEF Store
<1>4. QED
  BY <1>2, <1>3 DEF Store, TypeOK

\* A Reconcile call keeps everything but the freshness of its copy.
LEMMA OutdatedEffect ==
    ASSUME TypeOK, NEW n \in Node
    PROVE  /\ Outdated(n) \in [Node -> Work]
           /\ \A e \in Node :
                  LET w == Outdated(n)[e]
                  IN  /\ w.at = work[e].at /\ w.n = work[e].n /\ w.a = work[e].a
                      /\ w.fresh => work[e].fresh /\ work[e].n # n
<1>1. \A w \in Work : /\ Unfresh(w) \in Work /\ ~Unfresh(w).fresh
                      /\ Unfresh(w).at = w.at /\ Unfresh(w).n = w.n /\ Unfresh(w).a = w.a
  BY DEF Unfresh, Work
<1>2. ASSUME NEW e \in Node
      PROVE  LET w == Outdated(n)[e]
             IN  /\ w \in Work
                 /\ w.at = work[e].at /\ w.n = work[e].n /\ w.a = work[e].a
                 /\ w.fresh => work[e].fresh /\ work[e].n # n
  BY <1>1, Types DEF Outdated
<1>3. QED
  BY <1>2 DEF Outdated

\* A Reconcile call that returns.
LEMMA IdleType == \A d \in Node : /\ Idle(d) \in Work /\ Idle(d).at = "idle"
                                  /\ ~Idle(d).fresh
  BY DEF Idle, Work, None, Annotations

\* An update that the API server accepts, and one that fails.
Accepted(d, n, copy, a, w) ==
    /\ up[Server] /\ copy.fresh /\ Store(n, a)
    /\ work'[d] = w
    /\ \A e \in Node : e # d => work'[e] = Outdated(n)[e]

Refused(d) ==
    /\ UNCHANGED <<node, cache>>
    /\ work'[d] = Idle(d)
    /\ \A e \in Node : e # d => work'[e] = work[e]

\* What an update does, whether the API server accepts it or not.
LEMMA UpdateEffect ==
    ASSUME TypeOK, NEW d \in Node, NEW n \in Node, NEW copy, NEW a \in Annotations,
           NEW w \in Work, Update(d, n, copy, a, w)
    PROVE  /\ node' \in [Node -> Annotations]
           /\ cache' \in [Node -> [Node -> [a: Annotations, fresh: BOOLEAN]]]
           /\ work' \in [Node -> Work]
           /\ Accepted(d, n, copy, a, w) \/ Refused(d)
<1>1. CASE up[Server] /\ copy.fresh
  <2>1. Store(n, a) /\ work' = [Outdated(n) EXCEPT ![d] = w]
    BY <1>1 DEF Update
  <2>2. Outdated(n) \in [Node -> Work]
    BY OutdatedEffect
  <2>3. QED
    BY <1>1, <2>1, <2>2, StoreEffect DEF Accepted
<1>2. CASE ~(up[Server] /\ copy.fresh)
  <2>1. UNCHANGED <<node, cache>> /\ work' = [work EXCEPT ![d] = Idle(d)]
    BY <1>2 DEF Update
  <2>2. QED
    BY <2>1, IdleType DEF TypeOK, Work, Refused
<1>3. QED
  BY <1>1, <1>2

\* What a new rebootID changes: the own one is called a former one.
LEMMA NewRebootIDEffect ==
    ASSUME TypeOK, NEW d \in Node, NewRebootID(d)
    PROVE  /\ node' \in [Node -> Annotations]
           /\ cache' \in [Node -> [Node -> [a: Annotations, fresh: BOOLEAN]]]
           /\ work' \in [Node -> Work]
           /\ node'[d] = Former(node[d])
           /\ \A m \in Node : m # d => node'[m] = node[m]
           /\ work'[d] = Idle(d)
           /\ \A n \in Node : ~cache'[d][n].fresh
           /\ \A e \in Node \ {d}, n \in Node :
                  /\ cache'[e][n].fresh = cache[e][n].fresh
                  /\ cache'[e][n].a = IF n = d THEN Former(cache[e][n].a) ELSE cache[e][n].a
           /\ \A e \in Node \ {d} :
                  /\ work'[e].at = work[e].at /\ work'[e].n = work[e].n
                  /\ work'[e].fresh = work[e].fresh
                  /\ work'[e].a = IF work[e].n = d THEN Former(work[e].a) ELSE work[e].a
<1>1. \A a \in Annotations : Former(a) \in Annotations
  BY DEF Former, Annotations
<1>2. None \in Annotations
  BY DEF None, Annotations
<1>3. ASSUME NEW e \in Node
      PROVE  /\ cache'[e] \in [Node -> [a: Annotations, fresh: BOOLEAN]]
             /\ e = d => \A n \in Node : ~cache'[e][n].fresh
             /\ e # d => \A n \in Node :
                    /\ cache'[e][n].fresh = cache[e][n].fresh
                    /\ cache'[e][n].a = IF n = d THEN Former(cache[e][n].a) ELSE cache[e][n].a
  <2>1. cache[e] \in [Node -> [a: Annotations, fresh: BOOLEAN]]
    BY DEF TypeOK
  <2>2. CASE e = d
    BY <1>2, <2>2 DEF NewRebootID
  <2>3. CASE e # d
    <3>1. cache'[e] = [cache[e] EXCEPT ![d].a = Former(@)]
      BY <2>3 DEF NewRebootID
    <3>2. QED
      BY <1>1, <2>1, <2>3, <3>1
  <2>4. QED
    BY <2>2, <2>3
<1>4. cache' \in [Node -> [Node -> [a: Annotations, fresh: BOOLEAN]]]
  BY <1>3 DEF NewRebootID
<1>5. ASSUME NEW e \in Node
      PROVE  /\ work'[e] \in Work
             /\ e = d => work'[e] = Idle(d)
             /\ e # d => /\ work'[e].at = work[e].at /\ work'[e].n = work[e].n
                         /\ work'[e].fresh = work[e].fresh
                         /\ work'[e].a = IF work[e].n = d THEN Former(work[e].a)
                                                          ELSE work[e].a
  <2>1. work[e] \in Work
    BY Types
  <2>2. CASE e = d
    BY <2>2, IdleType DEF NewRebootID
  <2>3. CASE e # d
    <3>1. work'[e] = IF work[e].n = d THEN [work[e] EXCEPT !.a = Former(@)] ELSE work[e]
      BY <2>3 DEF NewRebootID
    <3>2. QED
      BY <1>1, <2>1, <2>3, <3>1 DEF Work
  <2>4. QED
    BY <2>2, <2>3
<1>6. work' \in [Node -> Work]
  BY <1>5 DEF NewRebootID
<1>7. /\ node' \in [Node -> Annotations] /\ node'[d] = Former(node[d])
      /\ \A m \in Node : m # d => node'[m] = node[m]
  BY <1>1 DEF NewRebootID, TypeOK
<1>8. QED
  BY <1>3, <1>4, <1>5, <1>6, <1>7

-----------------------------------------------------------------------------
(* Type correctness *)

\* The initial state has the right types.
LEMMA TypeInit == Init => TypeOK
<1> SUFFICES ASSUME Init PROVE TypeOK
  OBVIOUS
<1>1. None \in Annotations
  BY DEF None, Annotations
<1>2. work \in [Node -> Work]
  BY IdleType DEF Init
<1>3. QED
  BY <1>1, <1>2, BoundsAssumption DEF Init, TypeOK, Work

\* The annotations a reconciler writes are annotations.
LEMMA WrittenType ==
    ASSUME NEW b \in Annotations
    PROVE  /\ [b EXCEPT !.drain = TRUE] \in Annotations
           /\ [b EXCEPT !.uncordon = TRUE, !.restarted = "false"] \in Annotations
           /\ [b EXCEPT !.drain = FALSE, !.shutdown = TRUE] \in Annotations
           /\ [b EXCEPT !.uncordon = FALSE] \in Annotations
           /\ [b EXCEPT !.shutdown = FALSE, !.terminated = "current"] \in Annotations
           /\ [b EXCEPT !.terminated = "", !.restarted = "true"] \in Annotations
  BY DEF Annotations

\* Every step of the protocol keeps its variables in their types.
LEMMA TypeStep == TypeOK /\ [Next]_vars => TypeOK'
<1> SUFFICES ASSUME TypeOK, [Next]_vars PROVE TypeOK'
  OBVIOUS
<1> USE DEF history
<1>0. work \in [Node -> Work]
  BY DEF TypeOK, Work
<1>a. ASSUME node' \in [Node -> Annotations],
             cache' \in [Node -> [Node -> [a: Annotations, fresh: BOOLEAN]]],
             work' \in [Node -> Work],
             UNCHANGED <<unsched, pods, up, history, faults>>
      PROVE  TypeOK'
  BY <1>a DEF TypeOK, Work
<1>b. Fault => faults' \in 0..MaxFaults
  BY BoundsAssumption DEF TypeOK, Fault
<1>1. ASSUME NEW d \in Node, NEW n \in Node, Sync(d, n) PROVE TypeOK'
  <2>1. cache' \in [Node -> [Node -> [a: Annotations, fresh: BOOLEAN]]]
    BY <1>1 DEF Sync, TypeOK
  <2>2. QED
    BY <1>0, <1>1, <1>a, <2>1 DEF Sync, TypeOK
<1>2. ASSUME NEW n \in Node, Touch(n) PROVE TypeOK'
  <2>1. /\ node' \in [Node -> Annotations]
        /\ cache' \in [Node -> [Node -> [a: Annotations, fresh: BOOLEAN]]]
    BY <1>2, StoreEffect, Types DEF Touch
  <2>2. work' \in [Node -> Work]
    BY <1>2, OutdatedEffect DEF Touch
  <2>3. QED
    BY <1>2, <1>b, <2>1, <2>2 DEF Touch, TypeOK, Work
<1>3. ASSUME NEW n \in Node, Schedule(n) PROVE TypeOK'
  BY <1>3 DEF Schedule, TypeOK
<1>4. ASSUME NEW d \in Node, NEW name, Create(d, name) PROVE TypeOK'
  <2>1. /\ node' \in [Node -> Annotations]
        /\ cache' \in [Node -> [Node -> [a: Annotations, fresh: BOOLEAN]]]
    BY <1>4, StoreEffect, WrittenType, Types DEF Create
  <2>2. work' \in [Node -> Work]
    BY <1>4, OutdatedEffect DEF Create
  <2>3. requests' \in [Node -> Nat]
    BY <1>4 DEF Create, TypeOK
  <2>4. QED
    BY <1>4, <2>1, <2>2, <2>3 DEF Create, TypeOK, Work
<1>5. ASSUME NEW d \in Node, NEW n \in Node, DrainBegin(d, n) PROVE TypeOK'
  <2> DEFINE a == [cache[d][n].a EXCEPT !.uncordon = TRUE, !.restarted = "false"]
             w == [at |-> "drain", n |-> n, a |-> a, fresh |-> TRUE]
  <2>1. Update(d, n, cache[d][n], a, w) /\ UNCHANGED <<unsched, pods, up, history, faults>>
    BY <1>5 DEF DrainBegin
  <2>2. a \in Annotations
    BY Types, WrittenType
  <2> HIDE DEF a
  <2>3. w \in Work
    BY <2>2 DEF Work
  <2> HIDE DEF w
  <2>4. QED
    BY <1>a, <2>1, <2>2, <2>3, UpdateEffect
<1>6. ASSUME NEW d \in Node, DrainNode(d) PROVE TypeOK'
  <2>1. work[d] \in Work /\ work[d].n \in Node
    BY Types DEF Work
  <2>2. pods' \in [Node -> {"none", "old", "new"}]
    BY <1>6, <2>1 DEF DrainNode, TypeOK
  <2>3. work' \in [Node -> Work]
    BY <1>0, <1>6 DEF DrainNode, Work
  <2>4. QED
    BY <1>6, <2>2, <2>3 DEF DrainNode, CordonOrUncordon, TypeOK, Work
<1>7. ASSUME NEW d \in Node, DrainFails(d) PROVE TypeOK'
  <2>1. work' \in [Node -> Work]
    BY <1>0, <1>7, IdleType DEF DrainFails
  <2>2. QED
    BY <1>7, <1>b, <2>1 DEF DrainFails, TypeOK, Work
<1>8. ASSUME NEW d \in Node, DrainEnd(d) PROVE TypeOK'
  <2> DEFINE a == [work[d].a EXCEPT !.drain = FALSE, !.shutdown = TRUE]
  <2>1. work[d].n \in Node /\ a \in Annotations
    BY Types, WrittenType DEF Work
  <2>2. Update(d, work[d].n, work[d], a, Idle(d))
    BY <1>8 DEF DrainEnd
  <2> HIDE DEF a
  <2>3. /\ node' \in [Node -> Annotations]
        /\ cache' \in [Node -> [Node -> [a: Annotations, fresh: BOOLEAN]]]
        /\ work' \in [Node -> Work]
    BY <2>1, <2>2, UpdateEffect, IdleType
  <2>4. ordered' \in [Node -> Nat]
    BY <1>8, <2>1 DEF DrainEnd, TypeOK
  <2>5. QED
    BY <1>8, <2>3, <2>4 DEF DrainEnd, TypeOK, Work
<1>9. ASSUME NEW d \in Node, NEW n \in Node, Uncordon(d, n) PROVE TypeOK'
  BY <1>9, <1>a, UpdateEffect, IdleType, Types, WrittenType
  DEF Uncordon, CordonOrUncordon
<1>10. ASSUME NEW d \in Node, Terminate(d) PROVE TypeOK'
  <2> DEFINE a == [cache[d][d].a EXCEPT !.shutdown = FALSE, !.terminated = "current"]
             w == [at |-> "shutdown", n |-> d, a |-> a, fresh |-> TRUE]
  <2>1. Update(d, d, cache[d][d], a, w) /\ UNCHANGED <<unsched, pods, up, history, faults>>
    BY <1>10 DEF Terminate
  <2>2. a \in Annotations
    BY Types, WrittenType
  <2> HIDE DEF a
  <2>3. w \in Work
    BY <2>2 DEF Work
  <2> HIDE DEF w
  <2>4. QED
    BY <1>a, <2>1, <2>2, <2>3, UpdateEffect
<1>11. ASSUME NEW d \in Node, Shutdown(d) PROVE TypeOK'
  <2>1. work' \in [Node -> Work]
    BY <1>0, <1>11, IdleType DEF Shutdown
  <2>2. QED
    BY <1>11, <2>1 DEF Shutdown, TypeOK, Work
<1>12. ASSUME NEW d \in Node, ShutdownFails(d) PROVE TypeOK'
  <2>1. work' \in [Node -> Work]
    BY <1>0, <1>12, IdleType DEF ShutdownFails
  <2>2. QED
    BY <1>12, <1>b, <2>1 DEF ShutdownFails, TypeOK, Work
<1>13. ASSUME NEW d \in Node, Restarted(d) PROVE TypeOK'
  BY <1>13, <1>a, UpdateEffect, IdleType, Types, WrittenType DEF Restarted
<1>14. ASSUME NEW d \in Node, Boot(d) PROVE TypeOK'
  <2>1. /\ node' \in [Node -> Annotations]
        /\ cache' \in [Node -> [Node -> [a: Annotations, fresh: BOOLEAN]]]
        /\ work' \in [Node -> Work]
    BY <1>14, NewRebootIDEffect DEF Boot
  <2>2. QED
    BY <1>14, <2>1 DEF Boot, TypeOK, Work
<1>15. ASSUME NEW d \in Node, Restart(d) PROVE TypeOK'
  <2>1. /\ node' \in [Node -> Annotations]
        /\ cache' \in [Node -> [Node -> [a: Annotations, fresh: BOOLEAN]]]
        /\ work' \in [Node -> Work]
    BY <1>15, NewRebootIDEffect DEF Restart
  <2>2. lost' \in [Node -> Nat]
    BY <1>15 DEF Restart, TypeOK
  <2>3. QED
    BY <1>15, <1>b, <2>1, <2>2 DEF Restart, TypeOK, Work
<1>16. CASE UNCHANGED vars
  BY <1>16 DEF vars, TypeOK
<1>17. QED
  BY <1>1, <1>2, <1>3, <1>4, <1>5, <1>6, <1>7, <1>8, <1>9, <1>10, <1>11, <1>12, <1>13,
     <1>14, <1>15, <1>16 DEF Next, Reconcile

(***************************************************************************)
(* The protocol's variables always have their types: whatever is written   *)
(* back from whatever copy is a set of annotations of the protocol.        *)
(***************************************************************************)
THEOREM TypeCorrect == Spec => []TypeOK
<1>1. Init => TypeOK
  BY TypeInit
<1>2. TypeOK /\ [Next]_vars => TypeOK'
  BY TypeStep
<1>3. QED
  BY <1>1, <1>2, PTL DEF Spec

-----------------------------------------------------------------------------
(* The inductive invariant *)

\* Initially nothing is requested.
LEMMA DrainInvInit == Init => DrainInv
<1> SUFFICES ASSUME Init, NEW n \in Node PROVE WorkInv(n) /\ NodeInv(n)
  BY TypeInit DEF DrainInv
<1>1. WorkInv(n)
  BY DEF Init, WorkInv, Idle
<1>2. /\ work[n].at = "idle" /\ up[n] /\ node[n].terminated = ""
      /\ ~node[n].shutdown /\ ~node[n].drain
  BY DEF Init, Idle, None
<1>3. requests[n] = 0 /\ ordered[n] = 0 /\ shutdowns[n] = 0 /\ lost[n] = 0
  BY DEF Init
<1>4. Requested(n) = 0 /\ Ordered(n) = 0 /\ InHand(n) = 0
  BY <1>2 DEF Requested, Ordered, InHand
<1>5. NodeCount(n)
  BY <1>3, <1>4 DEF NodeCount
<1>6. NodeShape(n)
  BY <1>2 DEF NodeShape
<1>7. QED
  BY <1>1, <1>5, <1>6 DEF NodeInv

\* A step that leaves the requests, orders and reports of a Node alone and in
\* which its device neither sets out to shut down nor does so.
LEMMA NodeNotConcerned ==
    ASSUME NEW n \in Node, NodeInv(n),
           UNCHANGED <<node[n].drain, node[n].shutdown, node[n].terminated>>,
           node'[n].restarted \in {node[n].restarted, "false"},
           UNCHANGED <<up[n], pods[n], requests[n], ordered[n], shutdowns[n], lost[n]>>,
           \/ work'[n].at = work[n].at
           \/ up[n] /\ work[n].at # "shutdown" /\ work'[n].at # "shutdown"
    PROVE  NodeInv(n)'
<1>1. NodeShape(n)'
  BY DEF NodeInv, NodeShape
<1>2. Requested(n)' = Requested(n) /\ Ordered(n)' = Ordered(n)
  BY DEF Requested, Ordered
<1>3. InHand(n)' = InHand(n)
  BY DEF InHand
<1>4. NodeCount(n)'
  BY <1>2, <1>3 DEF NodeInv, NodeCount
<1>5. QED
  BY <1>1, <1>4 DEF NodeInv

\* A write to Node n leaves what a reconciler that did not make it knows
\* true: its copies of n can no longer be written back.
LEMMA OthersKnow ==
    ASSUME TypeOK, NEW n \in Node, NEW a \in Annotations, Store(n, a),
           NEW e \in Node, WorkInv(e), UNCHANGED pods, work'[e] = Outdated(n)[e]
    PROVE  WorkInv(e)'
<1>1. /\ \A m \in Node : m # n => node'[m] = node[m] /\ cache'[e][m] = cache[e][m]
      /\ ~cache'[e][n].fresh
  BY StoreEffect
<1>2. /\ work'[e].at = work[e].at /\ work'[e].n = work[e].n /\ work'[e].a = work[e].a
      /\ work'[e].fresh => work[e].fresh /\ work[e].n # n
      /\ work[e].n \in Node
  BY OutdatedEffect, Types DEF Work
<1>3. QED
  BY <1>1, <1>2 DEF WorkInv

\* An update of Node n by d that the API server accepts; what it does to the
\* annotations of n is shown separately.
LEMMA UpdateAccepted ==
    ASSUME DrainInv, TypeOK', NEW d \in Node, NEW n \in Node, NEW a \in Annotations,
           NEW w \in Work, NEW copy, Accepted(d, n, copy, a, w),
           UNCHANGED <<pods, up>>, up[d], work[d].at # "shutdown",
           \A m \in Node : m # n =>
               UNCHANGED <<requests[m], ordered[m], shutdowns[m], lost[m]>>,
           w.fresh => w.n = n /\ w.a = a,
           w.at # "drained",
           w.at = "shutdown" => w.n = d /\ n = d,
           w.at = "drain" => w.a.drain /\ w.a.restarted = "false",
           NodeInv(n)'
    PROVE  DrainInv'
<1>1. /\ TypeOK /\ \A m \in Node : WorkInv(m) /\ NodeInv(m)
      /\ Store(n, a) /\ work'[d] = w
      /\ \A e \in Node : e # d => work'[e] = Outdated(n)[e]
  BY DEF DrainInv, Accepted
<1>2. /\ \A m \in Node : m # n => node'[m] = node[m] /\ cache'[d][m] = cache[d][m]
      /\ ~cache'[d][n].fresh /\ node'[n] = a
  BY <1>1, StoreEffect
<1>3. WorkInv(d)'
  BY <1>1, <1>2 DEF WorkInv
<1>4. \A e \in Node : e # d => WorkInv(e)'
  BY <1>1, OthersKnow
<1>5. ASSUME NEW m \in Node, m # n PROVE NodeInv(m)'
  <2>1. \/ work'[m].at = work[m].at
        \/ up[m] /\ work[m].at # "shutdown" /\ work'[m].at # "shutdown"
    <3>1. CASE m = d
      BY <1>1, <1>5, <3>1
    <3>2. CASE m # d
      BY <1>1, <3>2, OutdatedEffect
    <3>3. QED
      BY <3>1, <3>2
  <2>2. QED
    BY <1>1, <1>2, <1>5, <2>1, NodeNotConcerned
<1>6. QED
  BY <1>3, <1>4, <1>5 DEF DrainInv

\* A step that only ends a Reconcile call that was not shutting down.
LEMMA CallEnds ==
    ASSUME DrainInv, TypeOK', NEW d \in Node, UNCHANGED <<pods, up>>,
           UNCHANGED <<requests, ordered, shutdowns, lost>>,
           Refused(d), up[d], work[d].at # "shutdown"
    PROVE  DrainInv'
<1>1. /\ \A m \in Node : WorkInv(m) /\ NodeInv(m)
      /\ UNCHANGED <<node, cache>> /\ work'[d] = Idle(d)
      /\ \A e \in Node : e # d => work'[e] = work[e]
  BY DEF DrainInv, Refused
<1>2. work'[d].at = "idle" /\ ~work'[d].fresh
  BY <1>1, IdleType
<1>3. ASSUME NEW m \in Node PROVE WorkInv(m)'
  BY <1>1, <1>2 DEF WorkInv
<1>4. ASSUME NEW m \in Node PROVE NodeInv(m)'
  BY <1>1, <1>2, NodeNotConcerned
<1>5. QED
  BY <1>3, <1>4 DEF DrainInv

\* Every step of the protocol preserves the invariant.
LEMMA DrainInvStep == DrainInv /\ [Next]_vars => DrainInv'
<1> SUFFICES ASSUME DrainInv, [Next]_vars PROVE DrainInv'
  OBVIOUS
<1> USE DEF history
<1>0. /\ TypeOK /\ TypeOK'
      /\ \A m \in Node : /\ WorkInv(m) /\ NodeInv(m) /\ NodeShape(m) /\ NodeCount(m)
                         /\ work[m] \in Work /\ node[m] \in Annotations
  BY TypeStep, Types DEF DrainInv, NodeInv
<1>a. \A m \in Node : /\ requests[m] \in Nat /\ ordered[m] \in Nat
                      /\ shutdowns[m] \in Nat /\ lost[m] \in Nat
                      /\ Requested(m) \in {0, 1} /\ Ordered(m) \in {0, 1}
                      /\ InHand(m) \in {0, 1}
  BY <1>0, Types DEF Requested, Ordered, InHand
<1>1. ASSUME NEW d \in Node, NEW n \in Node, Sync(d, n) PROVE DrainInv'
  <2>1. /\ UNCHANGED <<node, work, pods, up, requests, ordered, shutdowns, lost>>
        /\ \A e, m \in Node : cache'[e][m] = IF e = d /\ m = n THEN [a |-> node[n], fresh |-> TRUE]
                                             ELSE cache[e][m]
    <3>1. cache \in [Node -> [Node -> [a: Annotations, fresh: BOOLEAN]]]
      BY <1>0 DEF TypeOK
    <3>2. QED
      BY <1>1, <3>1 DEF Sync
  <2>2. ASSUME NEW m \in Node PROVE WorkInv(m)'
    BY <1>0, <2>1 DEF WorkInv
  <2>3. ASSUME NEW m \in Node PROVE NodeInv(m)'
    BY <1>0, <2>1, NodeNotConcerned
  <2>4. QED
    BY <1>0, <2>2, <2>3 DEF DrainInv
<1>2. ASSUME NEW n \in Node, Touch(n) PROVE DrainInv'
  <2>1. /\ Store(n, node[n]) /\ work' = Outdated(n)
        /\ UNCHANGED <<pods, up, requests, ordered, shutdowns, lost>>
    BY <1>2 DEF Touch
  <2>2. \A m \in Node : WorkInv(m)'
    BY <1>0, <2>1, OthersKnow
  <2>3. ASSUME NEW m \in Node PROVE NodeInv(m)'
    <3>1. node'[m] = node[m] /\ work'[m].at = work[m].at
      BY <1>0, <2>1, StoreEffect, OutdatedEffect
    <3>2. QED
      BY <1>0, <2>1, <3>1, NodeNotConcerned
  <2>4. QED
    BY <1>0, <2>2, <2>3 DEF DrainInv
<1>3. ASSUME NEW n \in Node, Schedule(n) PROVE DrainInv'
  <2>1. /\ UNCHANGED <<node, cache, work, up, requests, ordered, shutdowns, lost>>
        /\ \A m \in Node : pods[m] # "old" => pods'[m] # "old"
    BY <1>0, <1>3 DEF Schedule, TypeOK
  <2>2. ASSUME NEW m \in Node PROVE WorkInv(m)'
    BY <1>0, <2>1 DEF WorkInv, Work
  <2>3. ASSUME NEW m \in Node PROVE NodeShape(m)' /\ NodeCount(m)'
    <3>1. NodeShape(m)'
      BY <1>0, <2>1 DEF NodeShape
    <3>2. NodeCount(m)'
      BY <1>0, <2>1 DEF NodeCount, Requested, Ordered, InHand
    <3>3. QED
      BY <3>1, <3>2
  <2>4. QED
    BY <1>0, <2>2, <2>3 DEF DrainInv, NodeInv
<1>4. ASSUME NEW d \in Node, NEW name, Create(d, name) PROVE DrainInv'
  <2> DEFINE a == [node[d] EXCEPT !.drain = TRUE]
  <2>1. /\ Store(d, a) /\ work' = Outdated(d)
        /\ UNCHANGED <<pods, up, ordered, shutdowns, lost>>
        /\ requests'[d] = requests[d] + 1
        /\ \A m \in Node : m # d => requests'[m] = requests[m]
    BY <1>0, <1>4 DEF Create, TypeOK
  <2>2. a \in Annotations
    BY <1>0, WrittenType
  <2>3. \A m \in Node : WorkInv(m)'
    BY <1>0, <2>1, <2>2, OthersKnow
  <2>4. /\ node'[d] = a /\ \A m \in Node : m # d => node'[m] = node[m]
        /\ \A m \in Node : work'[m].at = work[m].at
    BY <1>0, <2>1, <2>2, StoreEffect, OutdatedEffect
  <2>5. ASSUME NEW m \in Node, m # d PROVE NodeInv(m)'
    BY <1>0, <2>1, <2>4, <2>5, NodeNotConcerned
  <2>6. /\ UNCHANGED <<node[d].shutdown, node[d].terminated, node[d].restarted>>
        /\ node'[d].drain
    BY <1>0, <2>4 DEF Annotations
  <2>7. NodeShape(d)'
    <3>1. NodeShape(d) /\ UNCHANGED <<up[d], pods[d], work[d].at>>
      BY <1>0, <2>1, <2>4
    <3>2. QED
      BY <2>6, <3>1 DEF NodeShape
  <2>8. NodeCount(d)'
    <3>1. Ordered(d)' = Ordered(d) /\ Requested(d)' = 1
      BY <2>6 DEF Ordered, Requested
    <3>2. InHand(d)' = InHand(d)
      BY <2>4 DEF InHand
    <3>3. QED
      BY <1>0, <1>a, <2>1, <3>1, <3>2 DEF NodeCount
  <2>9. QED
    BY <1>0, <2>3, <2>5, <2>7, <2>8 DEF DrainInv, NodeInv
<1>5. ASSUME NEW d \in Node, NEW n \in Node, DrainBegin(d, n) PROVE DrainInv'
  <2> DEFINE b == cache[d][n].a
             a == [b EXCEPT !.uncordon = TRUE, !.restarted = "false"]
             w == [at |-> "drain", n |-> n, a |-> a, fresh |-> TRUE]
  <2>1. /\ Update(d, n, cache[d][n], a, w) /\ up[d] /\ work[d].at = "idle" /\ b.drain
        /\ UNCHANGED <<pods, up, requests, ordered, shutdowns, lost>>
    BY <1>5 DEF DrainBegin, Reads, MustDrain
  <2>2. b \in Annotations /\ a \in Annotations
    BY <1>0, Types, WrittenType
  <2>3. /\ a.drain = b.drain /\ a.shutdown = b.shutdown /\ a.terminated = b.terminated
        /\ a.restarted = "false"
    BY <2>2 DEF Annotations
  <2> HIDE DEF a, b
  <2>4. w \in Work /\ w.at = "drain" /\ w.n = n /\ w.a = a
    BY <2>2 DEF Work
  <2> HIDE DEF w
  <2>5. CASE Accepted(d, n, cache[d][n], a, w)
    <3>1. b = node[n] /\ node'[n] = a
      BY <1>0, <2>2, <2>5, StoreEffect DEF WorkInv, b, Accepted
    <3>2. \/ work'[n].at = work[n].at
          \/ up[n] /\ work[n].at # "shutdown" /\ work'[n].at # "shutdown"
      <4>1. CASE n = d
        BY <2>1, <2>4, <2>5, <4>1 DEF Accepted
      <4>2. CASE n # d
        BY <1>0, <2>5, <4>2, OutdatedEffect DEF Accepted
      <4>3. QED
        BY <4>1, <4>2
    <3>3. NodeInv(n)'
      BY <1>0, <2>1, <2>3, <3>1, <3>2, NodeNotConcerned
    <3>4. QED
      BY <1>0, <2>1, <2>2, <2>3, <2>4, <2>5, <3>3, UpdateAccepted
  <2>6. CASE Refused(d)
    BY <1>0, <2>1, <2>6, CallEnds
  <2>7. QED
    BY <1>0, <2>1, <2>2, <2>4, <2>5, <2>6, UpdateEffect
<1>6. ASSUME NEW d \in Node, DrainNode(d) PROVE DrainInv'
  <2>1. /\ UNCHANGED <<node, cache, up, requests, ordered, shutdowns, lost>>
        /\ work[d].at = "drain" /\ up[d]
        /\ work'[d] = [work[d] EXCEPT !.at = "drained"]
        /\ \A e \in Node : e # d => work'[e] = work[e]
        /\ pods' = [pods EXCEPT ![work[d].n] = "none"]
    BY <1>0, <1>6 DEF DrainNode, TypeOK
  <2>2. /\ work'[d].at = "drained" /\ work'[d].n = work[d].n /\ work'[d].a = work[d].a
        /\ work'[d].fresh = work[d].fresh /\ work[d].n \in Node
    BY <1>0, <2>1 DEF Work
  <2>3. /\ pods'[work[d].n] = "none"
        /\ \A m \in Node : pods[m] # "old" => pods'[m] # "old"
    BY <1>0, <2>1, <2>2 DEF TypeOK
  <2>4. WorkInv(d)'
    BY <1>0, <2>1, <2>2, <2>3 DEF WorkInv
  <2>5. ASSUME NEW m \in Node, m # d PROVE WorkInv(m)'
    BY <1>0, <2>1, <2>3, <2>5 DEF WorkInv, Work
  <2>6. ASSUME NEW m \in Node PROVE NodeShape(m)'
    <3>1. /\ NodeShape(m) /\ UNCHANGED <<up[m], node[m]>>
          /\ pods[m] # "old" => pods'[m] # "old"
          /\ \/ up[m] /\ work[m].at # "shutdown" /\ work'[m].at # "shutdown"
             \/ UNCHANGED work[m].at
      BY <1>0, <2>1, <2>2, <2>3
    <3>2. QED
      BY <3>1 DEF NodeShape
  <2>7. ASSUME NEW m \in Node PROVE NodeCount(m)'
    <3>1. InHand(m)' = InHand(m)
      BY <2>1, <2>2 DEF InHand
    <3>2. QED
      BY <1>0, <2>1, <3>1 DEF NodeCount, Requested, Ordered
  <2>8. QED
    BY <1>0, <2>4, <2>5, <2>6, <2>7 DEF DrainInv, NodeInv
<1>7. ASSUME NEW d \in Node, DrainFails(d) PROVE DrainInv'
  <2>1. /\ Refused(d) /\ UNCHANGED <<pods, up, requests, ordered, shutdowns, lost>>
        /\ up[d] /\ work[d].at # "shutdown"
    BY <1>0, <1>7 DEF DrainFails, TypeOK, Refused
  <2>2. QED
    BY <1>0, <2>1, CallEnds
<1>8. ASSUME NEW d \in Node, DrainEnd(d) PROVE DrainInv'
  <2>0. PICK n \in Node : n = work[d].n
    BY <1>0 DEF Work
  <2> DEFINE b == work[d].a
             a == [b EXCEPT !.drain = FALSE, !.shutdown = TRUE]
  <2>1. /\ Update(d, n, work[d], a, Idle(d)) /\ up[d] /\ work[d].at = "drained"
        /\ UNCHANGED <<pods, up, requests, shutdowns, lost>>
        /\ ordered' = [ordered EXCEPT ![n] =
                          IF ~node[n].shutdown /\ node'[n].shutdown THEN @ + 1 ELSE @]
    BY <1>8, <2>0 DEF DrainEnd
  <2>2. b \in Annotations /\ a \in Annotations
    BY <1>0, WrittenType DEF Work
  <2>3. /\ ~a.drain /\ a.shutdown /\ a.terminated = b.terminated
        /\ a.restarted = b.restarted
    BY <2>2 DEF Annotations
  <2>4. b.drain /\ b.restarted = "false" /\ (work[d].fresh => b = node[n] /\ pods[n] # "old")
    BY <1>0, <2>0, <2>1 DEF WorkInv
  <2>5. Idle(d) \in Work /\ Idle(d).at = "idle" /\ ~Idle(d).fresh
    BY IdleType
  <2>6. ordered \in [Node -> Nat]
    BY <1>0 DEF TypeOK
  <2> HIDE DEF a, b
  <2>7. CASE Accepted(d, n, work[d], a, Idle(d))
    <3>1. b = node[n] /\ node'[n] = a /\ pods[n] # "old"
      BY <1>0, <2>2, <2>4, <2>7, StoreEffect DEF Accepted
    <3>2. /\ work'[n].at = "shutdown" <=> work[n].at = "shutdown"
          /\ work[n].at = "idle" => work'[n].at = "idle"
      <4>1. CASE n = d
        BY <2>1, <2>5, <2>7, <4>1 DEF Accepted
      <4>2. CASE n # d
        BY <1>0, <2>7, <4>2, OutdatedEffect DEF Accepted
      <4>3. QED
        BY <4>1, <4>2
    <3>3. NodeShape(n)'
      BY <1>0, <2>1, <2>3, <2>4, <3>1, <3>2 DEF NodeShape
    <3>4. /\ \A m \in Node : m # n => ordered'[m] = ordered[m]
          /\ ordered'[n] = ordered[n] + (1 - Ordered(n))
      <4>1. CASE node[n].shutdown
        BY <2>1, <2>6, <4>1 DEF Ordered
      <4>2. CASE ~node[n].shutdown
        <5>1. ~node[n].shutdown /\ node'[n].shutdown
          BY <2>3, <3>1, <4>2
        <5>2. ordered' = [ordered EXCEPT ![n] = @ + 1]
          BY <2>1, <5>1
        <5>3. Ordered(n) = 0
          BY <4>2 DEF Ordered
        <5>4. QED
          BY <2>6, <5>2, <5>3
      <4>3. QED
        BY <4>1, <4>2
    <3>5. Requested(n) = 1 /\ Requested(n)' = 0 /\ Ordered(n)' = 1
      BY <2>3, <2>4, <3>1 DEF Requested, Ordered
    <3>6. InHand(n)' = InHand(n)
      BY <3>2 DEF InHand
    <3>7. NodeCount(n)'
      BY <1>0, <1>a, <2>1, <3>4, <3>5, <3>6 DEF NodeCount
    <3>8. NodeInv(n)'
      BY <3>3, <3>7 DEF NodeInv
    <3>9. QED
      BY <1>0, <2>1, <2>2, <2>5, <2>7, <3>4, <3>8, UpdateAccepted
  <2>8. CASE Refused(d)
    <3>1. ~(~node[n].shutdown /\ node'[n].shutdown)
      BY <2>8 DEF Refused
    <3>2. ordered' = [ordered EXCEPT ![n] = @]
      BY <2>1, <3>1
    <3>3. ordered' = ordered
      BY <2>6, <3>2
    <3>4. QED
      BY <1>0, <2>1, <2>8, <3>3, CallEnds
  <2>9. QED
    BY <1>0, <2>1, <2>2, <2>5, <2>7, <2>8, UpdateEffect
<1>9. ASSUME NEW d \in Node, NEW n \in Node, Uncordon(d, n) PROVE DrainInv'
  <2> DEFINE b == cache[d][n].a
             a == [b EXCEPT !.uncordon = FALSE]
  <2>1. /\ Update(d, n, cache[d][n], a, Idle(d)) /\ up[d] /\ work[d].at = "idle"
        /\ UNCHANGED <<pods, up, requests, ordered, shutdowns, lost>>
    BY <1>9 DEF Uncordon, Reads
  <2>2. b \in Annotations /\ a \in Annotations
    BY <1>0, Types, WrittenType
  <2>3. /\ a.drain = b.drain /\ a.shutdown = b.shutdown /\ a.terminated = b.terminated
        /\ a.restarted = b.restarted
    BY <2>2 DEF Annotations
  <2>4. Idle(d) \in Work /\ Idle(d).at = "idle" /\ ~Idle(d).fresh
    BY IdleType
  <2> HIDE DEF a, b
  <2>5. CASE Accepted(d, n, cache[d][n], a, Idle(d))
    <3>1. b = node[n] /\ node'[n] = a
      BY <1>0, <2>2, <2>5, StoreEffect DEF WorkInv, b, Accepted
    <3>2. work'[n].at = work[n].at
      <4>1. CASE n = d
        BY <2>1, <2>4, <2>5, <4>1 DEF Accepted
      <4>2. CASE n # d
        BY <1>0, <2>5, <4>2, OutdatedEffect DEF Accepted
      <4>3. QED
        BY <4>1, <4>2
    <3>3. NodeInv(n)'
      BY <1>0, <2>1, <2>3, <3>1, <3>2, NodeNotConcerned
    <3>4. QED
      BY <1>0, <2>1, <2>2, <2>4, <2>5, <3>3, UpdateAccepted
  <2>6. CASE Refused(d)
    BY <1>0, <2>1, <2>6, CallEnds
  <2>7. QED
    BY <1>0, <2>1, <2>2, <2>4, <2>5, <2>6, UpdateEffect
<1>10. ASSUME NEW d \in Node, Terminate(d) PROVE DrainInv'
  <2> DEFINE b == cache[d][d].a
             a == [b EXCEPT !.shutdown = FALSE, !.terminated = "current"]
             w == [at |-> "shutdown", n |-> d, a |-> a, fresh |-> TRUE]
  <2>1. /\ Update(d, d, cache[d][d], a, w) /\ up[d] /\ work[d].at = "idle" /\ b.shutdown
        /\ UNCHANGED <<pods, up, requests, ordered, shutdowns, lost>>
    BY <1>10 DEF Terminate, Reads
  <2>2. b \in Annotations /\ a \in Annotations
    BY <1>0, Types, WrittenType
  <2>3. /\ a.drain = b.drain /\ ~a.shutdown /\ a.terminated = "current"
        /\ a.restarted = b.restarted
    BY <2>2 DEF Annotations
  <2> HIDE DEF a, b
  <2>4. w \in Work /\ w.at = "shutdown" /\ w.n = d /\ w.a = a
    BY <2>2 DEF Work
  <2> HIDE DEF w
  <2>5. CASE Accepted(d, d, cache[d][d], a, w)
    <3>1. b = node[d] /\ node'[d] = a
      BY <1>0, <2>2, <2>5, StoreEffect DEF WorkInv, b, Accepted
    <3>2. NodeShape(d)'
      BY <1>0, <2>1, <2>3, <2>4, <2>5, <3>1 DEF NodeShape, Accepted
    <3>3. /\ Requested(d)' = Requested(d) /\ Ordered(d) = 1 /\ Ordered(d)' = 0
      BY <2>1, <2>3, <3>1 DEF Requested, Ordered
    <3>4. InHand(d) = 0 /\ InHand(d)' = 1
      BY <2>1, <2>4, <2>5 DEF InHand, Accepted
    <3>5. NodeCount(d)'
      BY <1>0, <1>a, <2>1, <3>3, <3>4 DEF NodeCount
    <3>6. NodeInv(d)'
      BY <3>2, <3>5 DEF NodeInv
    <3>7. QED
      BY <1>0, <2>1, <2>2, <2>4, <2>5, <3>6, UpdateAccepted
  <2>6. CASE Refused(d)
    BY <1>0, <2>1, <2>6, CallEnds
  <2>7. QED
    BY <1>0, <2>1, <2>2, <2>4, <2>5, <2>6, UpdateEffect
<1>11. ASSUME NEW d \in Node, Shutdown(d) \/ ShutdownFails(d) PROVE DrainInv'
  <2>1. /\ UNCHANGED <<node, cache, pods, requests, ordered>> /\ work[d].at = "shutdown"
        /\ work'[d] = Idle(d) /\ \A e \in Node : e # d => work'[e] = work[e] /\ up'[e] = up[e]
    BY <1>0, <1>11 DEF Shutdown, ShutdownFails, TypeOK
  <2>2. /\ shutdowns'[d] + lost'[d] = shutdowns[d] + lost[d] + 1
        /\ \A e \in Node : e # d => shutdowns'[e] = shutdowns[e] /\ lost'[e] = lost[e]
    <3>1. shutdowns \in [Node -> Nat] /\ lost \in [Node -> Nat]
      BY <1>0 DEF TypeOK
    <3>2. \/ shutdowns' = [shutdowns EXCEPT ![d] = @ + 1] /\ lost' = lost
          \/ shutdowns' = shutdowns /\ lost' = [lost EXCEPT ![d] = @ + 1]
      BY <1>11 DEF Shutdown, ShutdownFails
    <3>3. QED
      BY <3>1, <3>2
  <2>3. work'[d].at = "idle" /\ ~work'[d].fresh
    BY <2>1, IdleType
  <2>4. ASSUME NEW m \in Node PROVE WorkInv(m)'
    BY <1>0, <2>1, <2>3 DEF WorkInv
  <2>5. ASSUME NEW m \in Node, m # d PROVE NodeInv(m)'
    BY <1>0, <2>1, <2>2, <2>5, NodeNotConcerned
  <2>6. NodeShape(d)'
    BY <1>0, <2>1, <2>3 DEF NodeShape
  <2>7. NodeCount(d)'
    <3>1. Requested(d)' = Requested(d) /\ Ordered(d)' = Ordered(d)
      BY <2>1 DEF Requested, Ordered
    <3>2. InHand(d) = 1 /\ InHand(d)' = 0
      BY <2>1, <2>3 DEF InHand
    <3>3. /\ shutdowns'[d] \in Nat /\ lost'[d] \in Nat
      BY <1>0 DEF TypeOK
    <3>4. QED
      BY <1>0, <1>a, <2>1, <2>2, <3>1, <3>2, <3>3 DEF NodeCount
  <2>8. QED
    BY <1>0, <2>4, <2>5, <2>6, <2>7 DEF DrainInv, NodeInv
<1>12. ASSUME NEW d \in Node, Restarted(d) PROVE DrainInv'
  <2> DEFINE b == cache[d][d].a
             a == [b EXCEPT !.terminated = "", !.restarted = "true"]
  <2>1. /\ Update(d, d, cache[d][d], a, Idle(d)) /\ up[d] /\ work[d].at = "idle"
        /\ ~b.shutdown
        /\ UNCHANGED <<pods, up, requests, ordered, shutdowns, lost>>
    BY <1>12 DEF Restarted, Reads
  <2>2. b \in Annotations /\ a \in Annotations
    BY <1>0, Types, WrittenType
  <2>3. a.drain = b.drain /\ a.shutdown = b.shutdown /\ a.terminated = ""
    BY <2>2 DEF Annotations
  <2>4. Idle(d) \in Work /\ Idle(d).at = "idle" /\ ~Idle(d).fresh
    BY IdleType
  <2> HIDE DEF a, b
  <2>5. CASE Accepted(d, d, cache[d][d], a, Idle(d))
    <3>1. b = node[d] /\ node'[d] = a
      BY <1>0, <2>2, <2>5, StoreEffect DEF WorkInv, b, Accepted
    <3>2. NodeShape(d)'
      BY <1>0, <2>1, <2>3, <2>4, <2>5, <3>1 DEF NodeShape, Accepted
    <3>3. Requested(d)' = Requested(d) /\ Ordered(d)' = Ordered(d)
      BY <2>3, <3>1 DEF Requested, Ordered
    <3>4. InHand(d)' = InHand(d)
      BY <2>1, <2>4, <2>5 DEF InHand, Accepted
    <3>5. NodeCount(d)'
      BY <1>0, <2>1, <3>3, <3>4 DEF NodeCount
    <3>6. NodeInv(d)'
      BY <3>2, <3>5 DEF NodeInv
    <3>7. QED
      BY <1>0, <2>1, <2>2, <2>4, <2>5, <3>6, UpdateAccepted
  <2>6. CASE Refused(d)
    BY <1>0, <2>1, <2>6, CallEnds
  <2>7. QED
    BY <1>0, <2>1, <2>2, <2>4, <2>5, <2>6, UpdateEffect
<1>b. \A x \in Annotations :
          /\ Former(x).drain = x.drain /\ Former(x).shutdown = x.shutdown
          /\ Former(x).restarted = x.restarted
          /\ Former(x).terminated # "" => x.terminated # ""
  BY DEF Former, Annotations
<1>c. ASSUME NEW d \in Node, NewRebootID(d),
             \A n \in Node : n # d => UNCHANGED pods[n],
             \A e \in Node \ {d} : /\ work[e].at = "drained" /\ work[e].fresh /\ work[e].n = d
                                   => pods'[d] # "old"
      PROVE  \A m \in Node : WorkInv(m)'
  <2>1. work'[d].at = "idle" /\ ~work'[d].fresh /\ \A n \in Node : ~cache'[d][n].fresh
    BY <1>0, <1>c, NewRebootIDEffect, IdleType
  <2>2. WorkInv(d)'
    BY <2>1 DEF WorkInv
  <2>3. ASSUME NEW e \in Node \ {d} PROVE WorkInv(e)'
    <3>1. /\ \A n \in Node :
                 /\ cache'[e][n].fresh = cache[e][n].fresh
                 /\ cache'[e][n].a = IF n = d THEN Former(cache[e][n].a) ELSE cache[e][n].a
                 /\ node'[n] = IF n = d THEN Former(node[n]) ELSE node[n]
          /\ work'[e].at = work[e].at /\ work'[e].n = work[e].n
          /\ work'[e].fresh = work[e].fresh
          /\ work'[e].a = IF work[e].n = d THEN Former(work[e].a) ELSE work[e].a
      BY <1>0, <1>c, NewRebootIDEffect
    <3>2. WorkInv(e) /\ work[e].n \in Node /\ work[e].a \in Annotations
      BY <1>0 DEF Work
    <3>3. work'[e].a.drain = work[e].a.drain /\ work'[e].a.restarted = work[e].a.restarted
      BY <1>b, <3>1, <3>2
    <3>4. \A n \in Node : cache'[e][n].fresh => cache'[e][n].a = node'[n]
      BY <3>1, <3>2 DEF WorkInv
    <3>5. work'[e].fresh => work'[e].a = node'[work'[e].n]
      BY <3>1, <3>2 DEF WorkInv
    <3>6. work'[e].at = "drained" /\ work'[e].fresh => pods'[work'[e].n] # "old"
      <4>1. CASE work[e].n = d
        BY <1>c, <3>1, <4>1
      <4>2. CASE work[e].n # d
        <5>1. pods'[work[e].n] = pods[work[e].n]
          BY <1>c, <3>2, <4>2
        <5>2. QED
          BY <3>1, <3>2, <5>1 DEF WorkInv
      <4>3. QED
        BY <4>1, <4>2
    <3>7. QED
      BY <3>1, <3>2, <3>3, <3>4, <3>5, <3>6 DEF WorkInv
  <2>4. QED
    BY <2>2, <2>3
<1>13. ASSUME NEW d \in Node, Boot(d) PROVE DrainInv'
  <2>1. /\ NewRebootID(d) /\ ~up[d] /\ UNCHANGED <<requests, ordered, shutdowns, lost>>
        /\ up'[d] /\ \A m \in Node : m # d => up'[m] = up[m] /\ pods'[m] = pods[m]
        /\ requests[d] > shutdowns[d] + lost[d] => pods'[d] = "new"
    BY <1>0, <1>13 DEF Boot, TypeOK
  <2>2. /\ node'[d] = Former(node[d]) /\ work'[d].at = "idle"
        /\ \A m \in Node : m # d => node'[m] = node[m] /\ work'[m].at = work[m].at
    BY <1>0, <2>1, NewRebootIDEffect, IdleType
  <2>3. UNCHANGED <<node[d].drain, node[d].shutdown, node[d].restarted>>
    BY <1>0, <1>b, <2>2
  <2>4. node'[d].terminated # "" => node[d].terminated # ""
    BY <1>0, <1>b, <2>2
  <2>5. work[d].at = "idle"
    BY <1>0, <2>1 DEF NodeShape
  <2>6. node[d].drain \/ node[d].shutdown => pods'[d] # "old"
    <3>1. node[d].drain \/ node[d].shutdown => Requested(d) = 1 \/ Ordered(d) = 1
      BY DEF Requested, Ordered
    <3>2. Requested(d) = 1 \/ Ordered(d) = 1 => requests[d] > shutdowns[d] + lost[d]
      <4>1. NodeCount(d)
        BY <1>0
      <4>2. QED
        BY <1>a, <4>1 DEF NodeCount
    <3>3. QED
      BY <2>1, <3>1, <3>2
  <2>7. ASSUME NEW e \in Node \ {d}, work[e].at = "drained", work[e].fresh, work[e].n = d
        PROVE  pods'[d] # "old"
    BY <1>0, <2>6, <2>7 DEF WorkInv
  <2>8. \A m \in Node : WorkInv(m)'
    BY <1>c, <2>1, <2>7
  <2>9. ASSUME NEW m \in Node, m # d PROVE NodeInv(m)'
    BY <1>0, <2>1, <2>2, <2>9, NodeNotConcerned
  <2>10. NodeShape(d)'
    <3>1. NodeShape(d)
      BY <1>0
    <3>2. QED
      BY <2>1, <2>2, <2>3, <2>4, <2>6, <3>1 DEF NodeShape
  <2>11. NodeCount(d)'
    <3>1. Requested(d)' = Requested(d) /\ Ordered(d)' = Ordered(d)
      BY <2>3 DEF Requested, Ordered
    <3>2. InHand(d)' = InHand(d)
      BY <2>2, <2>5 DEF InHand
    <3>3. QED
      BY <1>0, <2>1, <3>1, <3>2 DEF NodeCount
  <2>12. QED
    BY <1>0, <2>8, <2>9, <2>10, <2>11 DEF DrainInv, NodeInv
<1>14. ASSUME NEW d \in Node, Restart(d) PROVE DrainInv'
  <2>1. /\ NewRebootID(d) /\ up[d] /\ UNCHANGED <<up, pods, requests, ordered, shutdowns>>
        /\ lost' = [lost EXCEPT ![d] = IF work[d].at = "shutdown" THEN @ + 1 ELSE @]
    BY <1>14 DEF Restart
  <2>2. /\ node'[d] = Former(node[d]) /\ work'[d].at = "idle"
        /\ \A m \in Node : m # d => node'[m] = node[m] /\ work'[m].at = work[m].at
    BY <1>0, <2>1, NewRebootIDEffect, IdleType
  <2>3. UNCHANGED <<node[d].drain, node[d].shutdown, node[d].restarted>>
    BY <1>0, <1>b, <2>2
  <2>4. node'[d].terminated # "" => node[d].terminated # ""
    BY <1>0, <1>b, <2>2
  <2>5. /\ lost'[d] = lost[d] + InHand(d)
        /\ \A m \in Node : m # d => lost'[m] = lost[m]
    BY <1>0, <2>1 DEF InHand, TypeOK
  <2>6. \A m \in Node : WorkInv(m)'
    BY <1>0, <1>c, <2>1 DEF WorkInv
  <2>7. ASSUME NEW m \in Node, m # d PROVE NodeInv(m)'
    BY <1>0, <2>1, <2>2, <2>5, <2>7, NodeNotConcerned
  <2>8. NodeShape(d)'
    <3>1. NodeShape(d)
      BY <1>0
    <3>2. QED
      BY <2>1, <2>2, <2>3, <2>4, <3>1 DEF NodeShape
  <2>9. NodeCount(d)'
    <3>1. Requested(d)' = Requested(d) /\ Ordered(d)' = Ordered(d)
      BY <2>3 DEF Requested, Ordered
    <3>2. InHand(d)' = 0
      BY <2>2 DEF InHand
    <3>3. NodeCount(d)
      BY <1>0
    <3>4. QED
      BY <1>a, <2>1, <2>5, <3>1, <3>2, <3>3 DEF NodeCount
  <2>10. QED
    BY <1>0, <2>6, <2>7, <2>8, <2>9 DEF DrainInv, NodeInv
<1>15. CASE UNCHANGED vars
  <2>1. UNCHANGED <<node, cache, work, pods, up, requests, ordered, shutdowns, lost>>
    BY <1>15 DEF vars
  <2>2. ASSUME NEW m \in Node PROVE WorkInv(m)'
    BY <1>0, <2>1 DEF WorkInv
  <2>3. ASSUME NEW m \in Node PROVE NodeInv(m)'
    BY <1>0, <2>1, NodeNotConcerned
  <2>4. QED
    BY <1>0, <2>2, <2>3 DEF DrainInv
<1>16. QED
  BY <1>1, <1>2, <1>3, <1>4, <1>5, <1>6, <1>7, <1>8, <1>9, <1>10, <1>11, <1>12, <1>13,
     <1>14, <1>15 DEF Next, Reconcile

\* The invariant holds in every state.
LEMMA DrainInvariant == Spec => []DrainInv
<1>1. Init => DrainInv
  BY DrainInvInit
<1>2. DrainInv /\ [Next]_vars => DrainInv'
  BY DrainInvStep
<1>3. QED
  BY <1>1, <1>2, PTL DEF Spec

-----------------------------------------------------------------------------
(* What the protocol guarantees *)

(***************************************************************************)
(* A device shuts down, or fails to, at most once per order of the server, *)
(* and each order took a request of its own, although reconcilers work     *)
(* with stale copies, repeat what failed and restart at any point.         *)
(***************************************************************************)
THEOREM ShutdownOncePerRequest == Spec => []OneShutdownPerRequest
<1>1. DrainInv => OneShutdownPerRequest
  <2> SUFFICES ASSUME DrainInv, NEW n \in Node
               PROVE  shutdowns[n] + lost[n] <= ordered[n] /\ ordered[n] <= requests[n]
    BY DEF OneShutdownPerRequest
  <2>1. NodeCount(n)
    BY DEF DrainInv, NodeInv
  <2>2. /\ requests[n] \in Nat /\ ordered[n] \in Nat /\ shutdowns[n] \in Nat /\ lost[n] \in Nat
        /\ Requested(n) \in {0, 1} /\ Ordered(n) \in {0, 1} /\ InHand(n) \in {0, 1}
    BY Types DEF DrainInv, Requested, Ordered, InHand
  <2>3. QED
    BY <2>1, <2>2 DEF NodeCount
<1>2. QED
  BY <1>1, DrainInvariant, PTL

(***************************************************************************)
(* A device does not go down while Pods run that ran when its shutdown was *)
(* requested: only Shutdown stops a device, and the order it carries out   *)
(* was given by a drain that nothing has outdated.                         *)
(***************************************************************************)
THEOREM ShutsDownDrained == Spec => DrainedFirst
<1>1. ASSUME DrainInv, [Next]_vars, NEW n \in Node, up[n], ~up'[n]
      PROVE  pods[n] # "old"
  <2> USE DEF history
  <2>1. up \in [Node -> BOOLEAN] /\ NodeShape(n)
    BY <1>1 DEF DrainInv, TypeOK, NodeInv
  <2>2. CASE \E d \in Node : Shutdown(d)
    <3>1. PICK d \in Node : Shutdown(d)
      BY <2>2
    <3>2. d = n /\ work[n].at = "shutdown"
      BY <1>1, <2>1, <3>1 DEF Shutdown
    <3>3. QED
      BY <2>1, <3>2 DEF NodeShape
  <2>3. CASE \E d \in Node : Boot(d)
    BY <1>1, <2>1, <2>3 DEF Boot
  <2>4. CASE UNCHANGED up
    BY <1>1, <2>4
  <2>5. ASSUME NEW d \in Node,
               \/ DrainNode(d) \/ DrainEnd(d) \/ Terminate(d) \/ Restarted(d)
               \/ DrainFails(d) \/ ShutdownFails(d) \/ Restart(d) \/ Touch(d) \/ Schedule(d)
        PROVE  UNCHANGED up
    BY <2>5 DEF DrainNode, DrainEnd, Terminate, Restarted, DrainFails, ShutdownFails, Restart,
                Touch, Schedule
  <2>6. ASSUME NEW d \in Node, NEW m \in Node,
               DrainBegin(d, m) \/ Uncordon(d, m) \/ Sync(d, m) \/ Create(d, m)
        PROVE  UNCHANGED up
    BY <2>6 DEF DrainBegin, Uncordon, Sync, Create
  <2>7. UNCHANGED vars => UNCHANGED up
    BY DEF vars
  <2>8. QED
    BY <1>1, <2>2, <2>3, <2>4, <2>5, <2>6, <2>7 DEF Next, Reconcile
<1>2. DrainInv /\ [Next]_vars => [\A n \in Node : up[n] /\ ~up'[n] => pods[n] # "old"]_vars
  BY <1>1
<1>3. QED
  BY <1>2, DrainInvariant, PTL DEF Spec, DrainedFirst

(***************************************************************************)
(* The server takes the uncordon mark from a Node only when the device is  *)
(* back and every order it was given has been carried out or has failed:   *)
(* the copy it writes back is the Node as it is, and a Node whose device   *)
(* has reported its restart has neither an order nor a shutdown under way. *)
(***************************************************************************)
THEOREM UncordonsAfterShutdown == Spec => UncordonAfterShutdown
<1> DEFINE Mark == \A n \in Node : node[n].uncordon /\ ~node'[n].uncordon
                       => up[n] /\ shutdowns[n] + lost[n] = ordered[n]
<1>1. ASSUME DrainInv, [Next]_vars, NEW n \in Node, node[n].uncordon, ~node'[n].uncordon
      PROVE  up[n] /\ shutdowns[n] + lost[n] = ordered[n]
  <2>0. /\ TypeOK /\ \A m \in Node : /\ WorkInv(m) /\ NodeShape(m) /\ NodeCount(m)
                                     /\ work[m] \in Work /\ node[m] \in Annotations
    BY <1>1, Types DEF DrainInv, NodeInv
  <2>a. ASSUME NEW m \in Node, NEW b \in Annotations, Store(m, b),
               b.uncordon = node[m].uncordon \/ b.uncordon = TRUE
        PROVE  FALSE
    BY <1>1, <2>0, <2>a, StoreEffect
  <2>b. \A x \in Annotations :
            /\ [x EXCEPT !.drain = TRUE].uncordon = x.uncordon
            /\ [x EXCEPT !.uncordon = TRUE, !.restarted = "false"].uncordon = TRUE
            /\ [x EXCEPT !.drain = FALSE, !.shutdown = TRUE].uncordon = x.uncordon
            /\ [x EXCEPT !.shutdown = FALSE, !.terminated = "current"].uncordon = x.uncordon
            /\ [x EXCEPT !.terminated = "", !.restarted = "true"].uncordon = x.uncordon
            /\ Former(x).uncordon = x.uncordon
    BY DEF Annotations, Former
  <2>c. ~UNCHANGED node
    BY <1>1
  <2>1. ASSUME NEW d \in Node, NEW m \in Node, Uncordon(d, m)
        PROVE  up[n] /\ shutdowns[n] + lost[n] = ordered[n]
    <3> DEFINE b == cache[d][m].a
               a == [b EXCEPT !.uncordon = FALSE]
    <3>1. /\ Update(d, m, cache[d][m], a, Idle(d))
          /\ b.restarted = "true" /\ b.terminated = ""
      BY <2>1 DEF Uncordon, MustUncordon
    <3>2. b \in Annotations /\ a \in Annotations
      BY <2>0, Types, WrittenType
    <3> HIDE DEF a
    <3>3. cache[d][m].fresh /\ Store(m, a)
      BY <2>c, <3>1 DEF Update
    <3>4. b = node[m]
      BY <2>0, <3>3 DEF WorkInv
    <3>5. m = n
      BY <1>1, <2>0, <3>2, <3>3, StoreEffect
    <3>6. up[n] /\ ~node[n].shutdown /\ work[n].at # "shutdown"
      BY <2>0, <3>1, <3>4, <3>5 DEF NodeShape
    <3>7. Ordered(n) = 0 /\ InHand(n) = 0
      BY <3>6 DEF Ordered, InHand
    <3>8. shutdowns[n] + lost[n] = ordered[n]
      BY <2>0, <3>7, Types DEF NodeCount
    <3>9. QED
      BY <3>6, <3>8
  <2>2. ASSUME NEW d \in Node, NEW m \in Node, DrainBegin(d, m) PROVE FALSE
    <3> DEFINE a == [cache[d][m].a EXCEPT !.uncordon = TRUE, !.restarted = "false"]
    <3>1. Store(m, a)
      BY <2>2, <2>c DEF DrainBegin, Update
    <3>2. a \in Annotations /\ a.uncordon = TRUE
      BY <2>0, <2>b, Types, WrittenType
    <3> HIDE DEF a
    <3>3. QED
      BY <2>a, <3>1, <3>2
  <2>3. ASSUME NEW d \in Node, DrainEnd(d) PROVE FALSE
    <3> DEFINE a == [work[d].a EXCEPT !.drain = FALSE, !.shutdown = TRUE]
    <3>1. Store(work[d].n, a) /\ work[d].fresh
      BY <2>3, <2>c DEF DrainEnd, Update
    <3>2. work[d].a = node[work[d].n] /\ work[d].n \in Node /\ work[d].a \in Annotations
      BY <2>0, <3>1 DEF WorkInv, Work
    <3>3. a \in Annotations /\ a.uncordon = node[work[d].n].uncordon
      BY <2>b, <3>2, WrittenType
    <3> HIDE DEF a
    <3>4. QED
      BY <2>a, <3>1, <3>2, <3>3
  <2>4. ASSUME NEW d \in Node, Terminate(d) PROVE FALSE
    <3> DEFINE a == [cache[d][d].a EXCEPT !.shutdown = FALSE, !.terminated = "current"]
    <3>1. Store(d, a) /\ cache[d][d].fresh
      BY <2>4, <2>c DEF Terminate, Update
    <3>2. cache[d][d].a = node[d]
      BY <2>0, <3>1 DEF WorkInv
    <3>3. a \in Annotations /\ a.uncordon = node[d].uncordon
      BY <2>0, <2>b, <3>2, WrittenType
    <3> HIDE DEF a
    <3>4. QED
      BY <2>a, <3>1, <3>3
  <2>5. ASSUME NEW d \in Node, Restarted(d) PROVE FALSE
    <3> DEFINE a == [cache[d][d].a EXCEPT !.terminated = "", !.restarted = "true"]
    <3>1. Store(d, a) /\ cache[d][d].fresh
      BY <2>5, <2>c DEF Restarted, Update
    <3>2. cache[d][d].a = node[d]
      BY <2>0, <3>1 DEF WorkInv
    <3>3. a \in Annotations /\ a.uncordon = node[d].uncordon
      BY <2>0, <2>b, <3>2, WrittenType
    <3> HIDE DEF a
    <3>4. QED
      BY <2>a, <3>1, <3>3
  <2>6. ASSUME NEW d \in Node, NEW name, Create(d, name) PROVE FALSE
    <3> DEFINE a == [node[d] EXCEPT !.drain = TRUE]
    <3>1. Store(d, a)
      BY <2>6 DEF Create
    <3>2. a \in Annotations /\ a.uncordon = node[d].uncordon
      BY <2>0, <2>b, WrittenType
    <3> HIDE DEF a
    <3>3. QED
      BY <2>a, <3>1, <3>2
  <2>7. ASSUME NEW d \in Node, Touch(d) PROVE FALSE
    BY <2>0, <2>7, <2>a DEF Touch
  <2>8. ASSUME NEW d \in Node, NewRebootID(d) PROVE FALSE
    <3>1. /\ node'[d] = Former(node[d])
          /\ \A m \in Node : m # d => node'[m] = node[m]
      BY <2>0, <2>8, NewRebootIDEffect
    <3>2. Former(node[d]).uncordon = node[d].uncordon
      BY <2>0, <2>b
    <3>3. QED
      BY <1>1, <3>1, <3>2
  <2>9. QED
    BY <1>1, <2>1, <2>2, <2>3, <2>4, <2>5, <2>6, <2>7, <2>8, <2>c
    DEF Next, Reconcile, vars, DrainNode, Shutdown, DrainFails, ShutdownFails, Boot, Restart,
        Schedule, Sync
<1>2. DrainInv /\ [Next]_vars => [Mark]_vars
  BY <1>1
<1>3. QED
  BY <1>2, DrainInvariant, PTL DEF Spec, UncordonAfterShutdown
=============================================================================
