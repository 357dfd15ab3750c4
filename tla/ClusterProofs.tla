---------------------------- MODULE ClusterProofs ----------------------------
(***************************************************************************)
(* Proofs about the two components that serve the apps in the cluster: the *)
(* AppReconciler, for any number of configurations and of changes made by  *)
(* users, and the IngressController (module Ingress), for any number of    *)
(* starts, any cluster and any capacity of the channel.                    *)
(***************************************************************************)
EXTENDS AppReconciler, TLAPS

-----------------------------------------------------------------------------
(* The invariant of the AppReconciler *)

\* A copy of the App that is not old is the App: a write of it is accepted.
CurrentInv ==
    /\ "cache" \in current => cache.app = app
    /\ "rec" \in current =>
           /\ app.uid # 0 /\ rec.at # "idle"
           /\ rec.at = "kustomization" => rec.app = app
           /\ rec.at = "status" /\ rec.state # "" => Fits(rec.state, app.enabled)

\* Reconcile acts for an App, and a Kustomization has an owner.
OwnerInv ==
    /\ rec.at = "kustomization" => rec.app.uid # 0
    /\ kz.gen # 0 => kz.owner # 0

\* The Kustomization differs from the cached one and will not be that again.
Beyond ==
    IF cache.kz.gen = 0 THEN kz.gen # 0 /\ kz.owner = app.uid /\ ~kz.deleting
                        ELSE kz.gen = 0 \/ kz.gen > cache.kz.gen

\* What Reconcile has made of the Kustomization in the cache.
Followed ==
    IF app.enabled /\ ~app.deleting
    THEN Beyond \/ (cache.kz.gen # 0 /\ cache.kz.secret = cache.user)
    ELSE /\ cache.kz.gen # 0 => kz.gen = 0 \/ kz.deleting
         /\ app.deleting => cache.kz.gen # 0

\* The configuration in the cache has its copy, or had it and the change of the
\* copies is still to come.
Copied == cache.user # 0 => cache.copies[cache.user] # 0 \/ copies[cache.user] = app.uid

\* The state s is that of the Kustomization in the cache, unless it changes.
StateFollows(s) == Beyond \/ s = StateOf(app, cache.kz, cache.user)

\* While no request is queued, Reconcile has seen, or is just seeing, what is
\* in the cache.
WakeInv ==
    "cache" \in current /\ ~queued =>
        /\ rec.at # "idle" =>
               /\ "rec" \in current
               /\ app.kustomization /\ ~app.deleting
               /\ Copied
        /\ rec.at = "kustomization" => rec.conf = cache.user
        /\ rec.at = "status" /\ ~rec.again =>
               Followed /\ StateFollows(IF rec.state = "" THEN app.state ELSE rec.state)
        /\ rec.at = "idle" /\ app.uid # 0 /\ app.kustomization =>
               /\ Followed
               /\ app.deleting \/ Copied
               /\ app.deleting \/ statusLost \/ StateFollows(app.state)

\* Together: the inductive invariant.
AppInv == TypeOK /\ CurrentInv /\ OwnerInv /\ WakeInv

USE AppAssumption

-----------------------------------------------------------------------------
(* Records *)

\* The records keep their fields.
LEMMA AppTypes ==
    /\ NoApp \in App /\ NoApp.uid = 0
    /\ \A u \in Nat : NewApp(u) \in App /\ NewApp(u).uid = u
    /\ \A a \in App : /\ [a EXCEPT !.enabled = ~@] \in App
                      /\ [a EXCEPT !.kustomization = ~@] \in App
                      /\ [a EXCEPT !.deleting = TRUE] \in App
                      /\ [a EXCEPT !.finalizer = TRUE] \in App
                      /\ [a EXCEPT !.finalizer = FALSE] \in App
                      /\ \A s \in State : [a EXCEPT !.state = s] \in App
<1>1. NoApp \in App /\ NoApp.uid = 0
  BY DEF NoApp, App, State
<1>2. ASSUME NEW u \in Nat  PROVE NewApp(u) \in App /\ NewApp(u).uid = u
  BY <1>1 DEF NewApp, App
<1>3. ASSUME NEW a \in App  
      PROVE  /\ [a EXCEPT !.enabled = ~@] \in App
             /\ [a EXCEPT !.kustomization = ~@] \in App
             /\ [a EXCEPT !.deleting = TRUE] \in App
             /\ [a EXCEPT !.finalizer = TRUE] \in App
             /\ [a EXCEPT !.finalizer = FALSE] \in App
             /\ \A s \in State : [a EXCEPT !.state = s] \in App
  BY DEF App
<1> QED  BY <1>1, <1>2, <1>3

\* The same of the Kustomization.
LEMMA KustomizationTypes ==
    /\ NoKustomization \in Kustomization /\ NoKustomization.gen = 0
    /\ \A k \in Kustomization :
           /\ [k EXCEPT !.deleting = TRUE] \in Kustomization
           /\ \A s \in {"True", "False"} :
                  [k EXCEPT !.observed = k.gen, !.status = s] \in Kustomization
<1>1. NoKustomization \in Kustomization /\ NoKustomization.gen = 0
  BY DEF NoKustomization, Kustomization
<1>2. ASSUME NEW k \in Kustomization  
      PROVE  /\ [k EXCEPT !.deleting = TRUE] \in Kustomization
             /\ \A s \in {"True", "False"} :
                  [k EXCEPT !.observed = k.gen, !.status = s] \in Kustomization
  BY DEF Kustomization
<1> QED  BY <1>1, <1>2

\* The Kustomization that Install writes.
Put(k, g) == [k EXCEPT !.gen = g, !.owner = rec.app.uid, !.secret = rec.conf]

\* It has the fields it was given.
LEMMA Written ==
    ASSUME AppInv, NEW K \in Kustomization, NEW g \in Nat
    PROVE  /\ Put(K, g) \in Kustomization /\ Put(K, g).gen = g
           /\ Put(K, g).owner = rec.app.uid /\ Put(K, g).secret = rec.conf
           /\ Put(K, g).deleting = K.deleting
<1> DEFINE u == rec.app.uid
           c == rec.conf
           n == Put(K, g)
<1>1. u \in Nat /\ c \in {0} \cup Conf
  BY DEF AppInv, TypeOK, App
<1>2. n = [K EXCEPT !.gen = g, !.owner = u, !.secret = c]
  BY DEF Put
<1> HIDE DEF n, u, c
<1>3. n \in Kustomization /\ n.gen = g /\ n.owner = u /\ n.secret = c /\ n.deleting = K.deleting
  BY <1>1, <1>2 DEF Kustomization
<1> QED  BY <1>3 DEF n, u, c

-----------------------------------------------------------------------------
(* The invariant is inductive *)

\* A cluster with a new App, and an empty cache.
LEMMA AppInvInit == Init => AppInv
<1> SUFFICES ASSUME Init  PROVE AppInv
  OBVIOUS
<1>1. TypeOK
  <2>1. app \in App /\ app.uid = 1 /\ kz \in Kustomization /\ kz = NoKustomization
    BY AppTypes, KustomizationTypes DEF Init
  <2>2. user \in Conf /\ copies \in [Conf -> Nat] /\ 1 \in Nat
    BY DEF Init, Conf
  <2>3. cache \in [app : App, kz : Kustomization, user : {0} \cup Conf, copies : [Conf -> Nat]]
    BY <2>1, <2>2, AppTypes DEF Init
  <2>4. rec \in [at : {"idle", "kustomization", "status"}, app : App,
                conf : {0} \cup Conf, state : State, again : BOOLEAN]
    BY AppTypes DEF Init, Idle, State
  <2>5. current \subseteq {"cache", "rec"} /\ uids \in Nat /\ changes \in 0..MaxChanges
    BY DEF Init
  <2>6. queued \in BOOLEAN /\ statusLost \in BOOLEAN
    BY Zenon DEF Init
  <2> QED  BY <2>1, <2>2, <2>3, <2>4, <2>5, <2>6 DEF TypeOK
<1>2. CurrentInv /\ WakeInv
  BY DEF Init, CurrentInv, WakeInv
<1>3. OwnerInv
  BY DEF Init, OwnerInv, NoKustomization, Idle
<1> QED  BY <1>1, <1>2, <1>3 DEF AppInv

\* Users edit, delete and create the App and its configuration.
LEMMA UserStep == ASSUME AppInv, UserChange  PROVE AppInv'
<1> USE DEF AppInv
<1>1. TypeOK'
  <2>0. changes' \in 0..MaxChanges
    BY DEF TypeOK, UserChange, Changed
  <2>1. CASE /\ app.uid # 0
             /\ app' \in {[app EXCEPT !.enabled = ~@],
                          [app EXCEPT !.kustomization = ~@], Deleted(app)}
             /\ current' = {}
             /\ UNCHANGED <<user, uids>>
    <3>1. app' \in App /\ (app'.uid = 0 => app' = NoApp)
      <4>1. app \in App
        BY DEF TypeOK
      <4>2. CASE app' = Deleted(app)
        BY <2>1, <4>1, <4>2, AppTypes DEF Deleted, App
      <4>3. CASE app' = [app EXCEPT !.enabled = ~@] \/ app' = [app EXCEPT !.kustomization = ~@]
        <5>1. app'.uid = app.uid
          BY <4>1, <4>3 DEF App
        <5> QED  BY <2>1, <4>1, <4>3, <5>1, AppTypes
      <4> QED  BY <2>1, <4>2, <4>3
    <3> QED  BY <2>0, <2>1, <3>1 DEF TypeOK, UserChange, Changed
  <2>2. CASE /\ app.uid = 0
             /\ uids' = uids + 1
             /\ app' = NewApp(uids')
             /\ current' = {}
             /\ UNCHANGED user
    <3>1. app' \in App /\ app'.uid # 0
      <4>1. uids' \in Nat /\ uids' # 0
        BY <2>2 DEF TypeOK
      <4> QED  BY <2>2, <4>1, AppTypes
    <3> QED  BY <2>0, <2>2, <3>1 DEF TypeOK, UserChange, Changed
  <2>3. CASE user' \in ({0} \cup Conf) \ {user} /\ UNCHANGED <<app, current, uids>>
    BY <2>0, <2>3 DEF TypeOK, UserChange, Changed
  <2> QED  BY <2>1, <2>2, <2>3 DEF UserChange
<1>2. UNCHANGED <<kz, copies, cache, queued, rec, statusLost>>
  BY DEF UserChange, Changed
<1>3. OwnerInv'
  BY <1>2 DEF OwnerInv
<1>4. CASE current' = {}
  BY <1>1, <1>3, <1>4 DEF CurrentInv, WakeInv
<1>5. CASE UNCHANGED <<app, current>>
  <2>1. CurrentInv'
    BY <1>2, <1>5 DEF CurrentInv, Fits
  <2>2. WakeInv'
    BY <1>2, <1>5 DEF WakeInv, Followed, Beyond, Copied, StateFollows, StateOf
  <2> QED  BY <1>1, <1>3, <2>1, <2>2
<1> QED  BY <1>4, <1>5 DEF UserChange

\* A cache catches up: a request is queued.
LEMMA SyncStep == ASSUME AppInv, Sync  PROVE AppInv'
<1> USE DEF AppInv
<1>0. UNCHANGED <<app, kz, user, copies, rec, statusLost, uids, changes>> /\ queued' = TRUE
  BY DEF Sync
<1>1. TypeOK'
  BY <1>0 DEF TypeOK, Sync
<1>2. CurrentInv'
  <2>1. CASE "cache" \notin current /\ cache' = [cache EXCEPT !.app = app]
             /\ current' = current \cup {"cache"}
    BY <1>0, <2>1 DEF CurrentInv, TypeOK, Fits
  <2>2. CASE cache'.app = cache.app /\ current' = current
    BY <1>0, <2>2 DEF CurrentInv, Fits
  <2> QED  BY <2>1, <2>2 DEF Sync, TypeOK
<1>3. OwnerInv' /\ WakeInv'
  BY <1>0 DEF OwnerInv, WakeInv
<1> QED  BY <1>1, <1>2, <1>3

\* Flux and the garbage collector.
LEMMA ClusterStep ==
    ASSUME AppInv, CollectGarbage \/ FluxApplies \/ FluxPrunes
    PROVE  AppInv'
<1> USE DEF AppInv
<1>0. UNCHANGED <<app, current, user, cache, queued, rec, statusLost, uids, changes>>
  BY DEF CollectGarbage, FluxApplies, FluxPrunes, External
<1>1. kz' \in Kustomization /\ (kz'.gen = 0 => kz' = NoKustomization) /\ copies' \in [Conf -> Nat]
  <2>1. CASE CollectGarbage
    <3>1. CASE /\ kz.gen # 0 /\ kz' = [kz EXCEPT !.deleting = TRUE] /\ UNCHANGED copies
      <4>1. kz \in Kustomization /\ copies \in [Conf -> Nat]
        BY DEF TypeOK
      <4>2. kz'.gen = kz.gen
        BY <3>1, <4>1 DEF Kustomization
      <4> QED  BY <3>1, <4>1, <4>2, KustomizationTypes
    <3>2. CASE UNCHANGED kz /\ \E c \in Conf : copies' = [copies EXCEPT ![c] = 0]
      BY <3>2 DEF TypeOK
    <3> QED  BY <2>1, <3>1, <3>2 DEF CollectGarbage
  <2>2. CASE FluxApplies
    <3>1. PICK s \in {"True", "False"} : kz' = [kz EXCEPT !.observed = kz.gen, !.status = s]
      BY <2>2 DEF FluxApplies
    <3>2. kz \in Kustomization /\ kz.gen # 0 /\ copies' = copies
      BY <2>2 DEF FluxApplies, TypeOK
    <3>3. kz'.gen = kz.gen
      BY <3>1, <3>2 DEF Kustomization
    <3> QED  BY <3>1, <3>2, <3>3, KustomizationTypes DEF TypeOK
  <2>3. CASE FluxPrunes
    BY <2>3, KustomizationTypes DEF FluxPrunes, TypeOK
  <2> QED  BY <2>1, <2>2, <2>3
<1>2. TypeOK'
  BY <1>0, <1>1 DEF TypeOK
<1>3. CurrentInv'
  BY <1>0 DEF CurrentInv, Fits
<1>4. /\ kz'.gen = 0 \/ (kz'.gen = kz.gen /\ kz'.owner = kz.owner)
      /\ kz.gen # 0 /\ kz.deleting => kz'.gen = 0 \/ kz'.deleting
      /\ kz.gen = 0 => kz'.gen = 0
      /\ kz.gen # 0 /\ kz.owner = app.uid /\ ~kz.deleting => kz'.gen # 0 /\ ~kz'.deleting
      /\ \A c \in Conf : copies[c] = app.uid => copies'[c] = app.uid
  <2>1. CASE CollectGarbage
    <3>1. kz \in Kustomization /\ copies \in [Conf -> Nat]
      BY DEF TypeOK
    <3>2. CASE kz.owner # app.uid /\ kz' = [kz EXCEPT !.deleting = TRUE] /\ UNCHANGED copies
      BY <3>1, <3>2 DEF Kustomization
    <3>3. CASE /\ \E c \in Conf : copies[c] \notin {0, app.uid} /\ copies' = [copies EXCEPT ![c] = 0]
               /\ UNCHANGED kz
      BY <3>1, <3>3
    <3> QED  BY <2>1, <3>2, <3>3 DEF CollectGarbage
  <2>2. CASE FluxApplies
    <3>1. PICK s \in {"True", "False"} : kz' = [kz EXCEPT !.observed = kz.gen, !.status = s]
      BY <2>2 DEF FluxApplies
    <3>2. kz \in Kustomization /\ kz.gen # 0 /\ copies' = copies
      BY <2>2 DEF FluxApplies, TypeOK
    <3> QED  BY <2>2, <3>1, <3>2 DEF FluxApplies, Kustomization
  <2>3. CASE FluxPrunes
    BY <2>3 DEF FluxPrunes, TypeOK, Kustomization, NoKustomization
  <2> QED  BY <2>1, <2>2, <2>3
<1>5. OwnerInv'
  BY <1>0, <1>4 DEF OwnerInv
<1>6. WakeInv'
  <2>1. Beyond => Beyond'
    BY <1>0, <1>4 DEF Beyond
  <2>2. Followed => Followed'
    BY <1>0, <1>4, <2>1 DEF Followed
  <2>3. Copied => Copied'
    BY <1>0, <1>4 DEF Copied, TypeOK
  <2>4. \A s : StateFollows(s) => StateFollows(s)'
    BY <1>0, <2>1 DEF StateFollows, StateOf
  <2> QED  BY <1>0, <2>2, <2>3, <2>4 DEF WakeInv
<1> QED  BY <1>2, <1>3, <1>5, <1>6

\* Reconcile returns.
LEMMA IdleType ==
    /\ Idle \in [at : {"idle", "kustomization", "status"}, app : App,
                 conf : {0} \cup Conf, state : State, again : BOOLEAN]
    /\ Idle.at = "idle"
BY AppTypes DEF Idle, State

RecType == [at : {"idle", "kustomization", "status"}, app : App,
            conf : {0} \cup Conf, state : State, again : BOOLEAN]

\* A write of the App is refused, so that Reconcile is called again, or it
\* outdates all copies.
LEMMA UpdateStep ==
    ASSUME AppInv, rec.at = "idle", NEW a \in App, a.uid # 0, Update(a), Rest,
           UNCHANGED <<kz, copies>>
    PROVE  AppInv'
<1> USE DEF AppInv
<1>0. rec' = Idle
  BY DEF Update, Return
<1>1. OwnerInv'
  BY <1>0, IdleType DEF OwnerInv
<1>2. CASE "cache" \notin current
  <2>1. queued' = TRUE /\ UNCHANGED <<app, current>>
    BY <1>2 DEF Update, Return
  <2>2. TypeOK'
    BY <1>0, <2>1, IdleType DEF TypeOK, Rest
  <2>3. CurrentInv' /\ WakeInv'
    BY <1>0, <1>2, <2>1, IdleType DEF CurrentInv, WakeInv
  <2> QED  BY <1>1, <2>2, <2>3
<1>3. CASE "cache" \in current
  <2>1. current' = {} /\ app' \in {NoApp, a} /\ queued' = FALSE
    BY <1>3 DEF Update, Return
  <2>2. TypeOK'
    BY <1>0, <2>1, IdleType, AppTypes DEF TypeOK, Rest
  <2>3. CurrentInv' /\ WakeInv'
    BY <2>1 DEF CurrentInv, WakeInv
  <2> QED  BY <1>1, <2>2, <2>3
<1> QED  BY <1>2, <1>3

\* Reconcile ends at the App, without touching the copies.
LEMMA FirstStep ==
    ASSUME AppInv, NothingToDo \/ AddFinalizer \/ deleteKustomization
    PROVE  AppInv'
<1> USE DEF AppInv
<1>0. rec.at = "idle" /\ Rest /\ UNCHANGED copies
  BY DEF NothingToDo, AddFinalizer, deleteKustomization, Specified, Begin
<1>a. cache.app \in App /\ cache.kz \in Kustomization /\ kz \in Kustomization
  BY DEF TypeOK
<1>r. "rec" \notin current
  BY <1>0 DEF CurrentInv
<1>1. CASE NothingToDo
  <2>1. rec' = Idle /\ queued' = FALSE /\ UNCHANGED <<app, current, kz>>
    BY <1>1 DEF NothingToDo, Return
  <2>2. TypeOK'
    BY <1>0, <2>1, IdleType DEF TypeOK, Rest
  <2>3. CurrentInv' /\ OwnerInv'
    BY <1>0, <1>r, <2>1, IdleType DEF CurrentInv, OwnerInv, Rest
  <2>4. WakeInv'
    BY <1>0, <1>1, <2>1, IdleType DEF WakeInv, NothingToDo, CurrentInv, Rest
  <2> QED  BY <2>2, <2>3, <2>4
<1>2. CASE AddFinalizer
  <2>1. [cache.app EXCEPT !.finalizer = TRUE].uid = cache.app.uid /\ cache.app.uid # 0
    BY <1>2, <1>a DEF AddFinalizer, Specified, App
  <2> QED  BY <1>0, <1>2, <1>a, <2>1, AppTypes, UpdateStep DEF AddFinalizer
<1>3. CASE deleteKustomization /\ ~(cache.kz.gen # 0 /\ kz.gen # 0)
  <2>1. [cache.app EXCEPT !.finalizer = FALSE].uid = cache.app.uid /\ cache.app.uid # 0
    BY <1>3, <1>a DEF deleteKustomization, Specified, App
  <2> QED  BY <1>0, <1>3, <1>a, <2>1, AppTypes, UpdateStep DEF deleteKustomization
<1>4. CASE deleteKustomization /\ cache.kz.gen # 0 /\ kz.gen # 0
  <2>1. /\ rec' = Idle /\ queued' = FALSE /\ UNCHANGED <<app, current>>
        /\ kz' = [kz EXCEPT !.deleting = TRUE] /\ cache.app.deleting
    BY <1>4 DEF deleteKustomization, Return
  <2>2. kz' \in Kustomization /\ kz'.gen = kz.gen /\ kz'.owner = kz.owner /\ kz'.deleting
    BY <1>a, <2>1 DEF Kustomization
  <2>3. TypeOK'
    BY <1>0, <1>4, <2>1, <2>2, IdleType DEF TypeOK, Rest
  <2>4. CurrentInv' /\ OwnerInv'
    BY <1>0, <1>r, <2>1, <2>2, IdleType DEF CurrentInv, OwnerInv, Rest
  <2>5. WakeInv'
    BY <1>0, <1>4, <2>1, <2>2, IdleType DEF WakeInv, Followed, CurrentInv, Rest
  <2> QED  BY <2>3, <2>4, <2>5
<1> QED  BY <1>1, <1>2, <1>3, <1>4

\* Reconcile goes on with the App as the cache has it, and its configuration.
LEMMA SecretStep == ASSUME AppInv, reconcileSecret  PROVE AppInv'
<1> USE DEF AppInv
<1>0. /\ rec.at = "idle" /\ Rest /\ UNCHANGED <<app, kz>>
      /\ cache.app.uid # 0 /\ cache.app.kustomization /\ ~cache.app.deleting
  BY DEF reconcileSecret, Specified, Begin
<1>a. cache.app \in App /\ cache.user \in {0} \cup Conf /\ copies \in [Conf -> Nat]
  BY DEF TypeOK
<1>r. "rec" \notin current
  BY <1>0 DEF CurrentInv
<1>1. CASE rec' = Idle /\ queued' = TRUE /\ UNCHANGED <<copies, current>>
  <2>1. TypeOK'
    BY <1>0, <1>1, IdleType DEF TypeOK, Rest
  <2>2. CurrentInv' /\ OwnerInv' /\ WakeInv'
    BY <1>0, <1>1, <1>r, IdleType DEF CurrentInv, OwnerInv, WakeInv, Rest
  <2> QED  BY <2>1, <2>2
<1>2. CASE /\ copies' = IF cache.user # 0 /\ cache.copies[cache.user] = 0
                        THEN [copies EXCEPT ![cache.user] = cache.app.uid] ELSE copies
           /\ rec' = [Idle EXCEPT !.at = "kustomization", !.app = cache.app, !.conf = cache.user]
           /\ queued' = FALSE
           /\ current' = IF "cache" \in current THEN {"cache", "rec"} ELSE {}
  <2>1. /\ rec' \in RecType /\ rec'.at = "kustomization" /\ rec'.app = cache.app
        /\ rec'.conf = cache.user
    BY <1>2, <1>a, IdleType DEF RecType
  <2>2. copies' \in [Conf -> Nat]
    BY <1>2, <1>a DEF App
  <2>3. current' \subseteq {"cache", "rec"}
    BY <1>2
  <2>4. TypeOK'
    BY <1>0, <1>2, <2>1, <2>2, <2>3 DEF TypeOK, Rest, RecType
  <2>5. CurrentInv'
    BY <1>0, <1>2, <2>1 DEF CurrentInv, Rest
  <2>6. OwnerInv'
    BY <1>0, <2>1 DEF OwnerInv
  <2>7. "cache" \in current => Copied'
    BY <1>0, <1>2, <1>a, <2>2 DEF Copied, CurrentInv, Rest
  <2>8. WakeInv'
    BY <1>0, <1>2, <2>1, <2>7 DEF WakeInv, CurrentInv, Rest
  <2> QED  BY <2>4, <2>5, <2>6, <2>8
<1> QED  BY <1>1, <1>2 DEF reconcileSecret, Return

\* What Result leaves in the variables of Reconcile.
LEMMA ResultIs ==
    ASSUME AppInv, rec.at = "kustomization", NEW k \in Kustomization,
           NEW err \in {"none", "conflict", "other"}, Result(k, err)
    PROVE  /\ rec' \in RecType /\ rec'.at = "status" /\ rec'.again = (err # "none")
           /\ err = "none" =>
                 StateOf(rec.app, k, rec.conf) = IF rec'.state = "" THEN rec.app.state ELSE rec'.state
           /\ rec'.state # "" => Fits(rec'.state, rec.app.enabled)
<1> DEFINE s == NewState(k, err)
           t == IF s = rec.app.state THEN "" ELSE s
<1>1. rec.app \in App
  BY DEF AppInv, TypeOK
<1>2. StateOf(rec.app, k, rec.conf) \in State \ {""}
  BY DEF StateOf, State
<1>3. Fits(StateOf(rec.app, k, rec.conf), rec.app.enabled)
  BY <1>1 DEF StateOf, Fits, App
<1>4. /\ s \in State
      /\ err = "none" => s = StateOf(rec.app, k, rec.conf)
      /\ s # rec.app.state => Fits(s, rec.app.enabled)
  BY <1>1, <1>2, <1>3 DEF NewState, Fits, App, State
<1>5. rec' = [Idle EXCEPT !.at = "status", !.state = t, !.again = err # "none"]
  BY DEF Result
<1>6. t \in State /\ (err # "none") \in BOOLEAN
  BY <1>4 DEF State
<1> HIDE DEF s, t
<1>7. rec' \in RecType /\ rec'.at = "status" /\ rec'.again = (err # "none") /\ rec'.state = t
  BY <1>5, <1>6, IdleType DEF RecType
<1> QED  BY <1>2, <1>4, <1>7 DEF t

\* Reconcile creates, changes or deletes the Kustomization, or fails to.
LEMMA KustomizationStep ==
    ASSUME AppInv, rec.at = "kustomization",
           NEW k \in Kustomization, NEW err \in {"none", "conflict", "other"}, Result(k, err),
           kz' \in Kustomization, kz'.gen = 0 => kz' = NoKustomization,
           kz'.gen # 0 => kz'.owner \in {kz.owner, rec.app.uid} /\ (kz.gen = 0 => kz'.owner = rec.app.uid),
           err = "none" /\ rec.app = app /\ rec.conf = cache.user /\ ~app.deleting =>
                Followed' /\ (Beyond' \/ k = cache.kz),
           UNCHANGED <<app, current, copies, queued, user, cache, statusLost, uids, changes>>
    PROVE  AppInv'
<1> USE DEF AppInv
<1>1. /\ rec' \in RecType /\ rec'.at = "status" /\ rec'.again = (err # "none")
      /\ err = "none" =>
            StateOf(rec.app, k, rec.conf) = IF rec'.state = "" THEN rec.app.state ELSE rec'.state
      /\ rec'.state # "" => Fits(rec'.state, rec.app.enabled)
  BY ResultIs
<1>2. TypeOK'
  BY <1>1 DEF TypeOK, RecType
<1>3. CurrentInv'
  BY <1>1 DEF CurrentInv, Fits
<1>4. OwnerInv'
  BY <1>1 DEF OwnerInv
<1>5. ASSUME "cache" \in current, ~queued, err = "none"
      PROVE  Followed' /\ StateFollows(IF rec.state = "" THEN app.state ELSE rec.state)'
  <2>1. rec.app = app /\ rec.conf = cache.user /\ ~app.deleting
    BY <1>5 DEF WakeInv, CurrentInv
  <2>2. Followed' /\ (Beyond' \/ k = cache.kz)
    BY <1>5, <2>1
  <2>3. (IF rec.state = "" THEN app.state ELSE rec.state)' = StateOf(app, k, cache.user)
    BY <1>1, <1>5, <2>1
  <2> QED  BY <2>2, <2>3 DEF StateFollows, StateOf
<1>6. WakeInv'
  BY <1>1, <1>5 DEF WakeInv, Copied
<1> QED  BY <1>2, <1>3, <1>4, <1>6

\* The steps that Install and Uninstall may take.
LEMMA ReconcileKustomization == ASSUME AppInv, reconcileKustomization  PROVE AppInv'
<1> USE DEF AppInv
<1>0. /\ rec.at = "kustomization" /\ rec.app \in App /\ rec.app.uid # 0
      /\ rec.conf \in {0} \cup Conf
      /\ cache.kz \in Kustomization /\ kz \in Kustomization
      /\ kz.gen = 0 => kz = NoKustomization
      /\ UNCHANGED <<app, current, copies, queued, user, cache, statusLost, uids, changes>>
  BY DEF reconcileKustomization, Rest, OwnerInv, TypeOK
<1> DEFINE k == cache.kz
           new == IF k.gen = 0 THEN [NoKustomization EXCEPT !.gen = 1, !.owner = rec.app.uid,
                                                            !.secret = rec.conf]
                  ELSE [k EXCEPT !.gen = @ + 1, !.owner = rec.app.uid, !.secret = rec.conf]
<1>1. CASE UNCHANGED kz /\ \E err \in {"conflict", "other"} : Result(k, err)
  BY <1>0, <1>1, KustomizationStep
<1>2. CASE rec.app.enabled /\ k.gen # 0 /\ k.secret = rec.conf /\ Result(k, "none") /\ UNCHANGED kz
  <2>1. rec.app = app /\ rec.conf = cache.user /\ ~app.deleting => Followed'
    BY <1>0, <1>2 DEF Followed
  <2> QED  BY <1>0, <1>2, <2>1, KustomizationStep
<1>3. CASE rec.app.enabled /\ kz = k /\ Result(new, "none") /\ kz' = new
  <2>1. CASE k.gen = 0
    <3>1. /\ new \in Kustomization /\ new.gen = 1 /\ new.owner = rec.app.uid
          /\ new.secret = rec.conf /\ ~new.deleting
      <4>1. ~NoKustomization.deleting /\ 1 \in Nat
        BY DEF NoKustomization
      <4>2. new = Put(NoKustomization, 1)
        BY <2>1 DEF Put
      <4> HIDE DEF new
      <4>3. NoKustomization \in Kustomization
        BY KustomizationTypes
      <4> QED  BY <4>1, <4>2, <4>3, Written
    <3>2. rec.app = app /\ rec.conf = cache.user /\ ~app.deleting => Followed' /\ Beyond'
      BY <1>0, <1>3, <2>1, <3>1 DEF Followed, Beyond
    <3> HIDE DEF new
    <3> QED  BY <1>0, <1>3, <3>1, <3>2, KustomizationStep
  <2>2. CASE k.gen # 0
    <3>1. /\ new \in Kustomization /\ new.gen = k.gen + 1 /\ new.owner = rec.app.uid
          /\ new.secret = rec.conf
      <4>0. k.gen \in Nat
        BY <1>0 DEF Kustomization
      <4>1. k.gen + 1 \in Nat
        BY <4>0
      <4>2. new = Put(k, k.gen + 1)
        BY <2>2 DEF Put
      <4> HIDE DEF new
      <4>3. k \in Kustomization
        BY <1>0
      <4> HIDE DEF k
      <4> QED  BY <4>1, <4>2, <4>3, Written
    <3>2. new.gen # 0 /\ new.gen > k.gen
      <4>1. k.gen \in Nat
        BY <1>0 DEF Kustomization
      <4> HIDE DEF new
      <4> QED  BY <3>1, <4>1
    <3>3. rec.app = app /\ rec.conf = cache.user /\ ~app.deleting => Followed' /\ Beyond'
      BY <1>0, <1>3, <2>2, <3>1, <3>2 DEF Followed, Beyond
    <3> HIDE DEF new
    <3> QED  BY <1>0, <1>3, <3>1, <3>2, <3>3, KustomizationStep
  <2> QED  BY <2>1, <2>2
<1>4. CASE ~rec.app.enabled /\ k.gen = 0 /\ Result(k, "none") /\ UNCHANGED kz
  <2>1. rec.app = app /\ ~app.deleting => Followed'
    BY <1>0, <1>4 DEF Followed
  <2> QED  BY <1>0, <1>4, <2>1, KustomizationStep
<1>5. CASE ~rec.app.enabled /\ kz.gen # 0 /\ Result(k, "none") /\ kz' = [kz EXCEPT !.deleting = TRUE]
  <2>1. kz' \in Kustomization /\ kz'.gen = kz.gen /\ kz'.owner = kz.owner /\ kz'.deleting
    BY <1>0, <1>5 DEF Kustomization
  <2>2. rec.app = app /\ ~app.deleting => Followed'
    BY <1>0, <1>5, <2>1 DEF Followed
  <2> QED  BY <1>0, <1>5, <2>1, <2>2, KustomizationStep
<1> QED
  <2>1. CASE rec.app.enabled
    <3>1. Install(k)
      BY <2>1 DEF reconcileKustomization
    <3> QED  BY <1>1, <1>2, <1>3, <2>1, <3>1 DEF Install
  <2>2. CASE ~rec.app.enabled
    <3>1. Uninstall(k)
      BY <2>2 DEF reconcileKustomization
    <3> QED  BY <1>1, <1>4, <1>5, <2>2, <3>1 DEF Uninstall
  <2> QED  BY <2>1, <2>2

\* The status is written, refused or lost, and Reconcile ends.
LEMMA StatusStep ==
    ASSUME AppInv, UpdateStatus \/ StatusFails \/ CallFails
    PROVE  AppInv'
<1> USE DEF AppInv
<1>1. CASE rec.at = "kustomization"
  <2>1. Result(cache.kz, "other") /\ cache.kz \in Kustomization /\ kz \in Kustomization
        /\ (kz.gen = 0 => kz = NoKustomization)
        /\ UNCHANGED <<app, current, kz, copies, queued, user, cache, statusLost, uids, changes>>
    BY <1>1 DEF UpdateStatus, StatusFails, CallFails, TypeOK
  <2> QED  BY <1>1, <2>1, KustomizationStep
<1>2. CASE rec.at # "kustomization"
  <2>1. /\ rec.at = "status" /\ rec' = Idle /\ UNCHANGED <<kz, user, copies, cache, uids, changes>>
        /\ rec.state \in State /\ app \in App
    BY <1>2 DEF UpdateStatus, StatusFails, CallFails, End, TypeOK
  <2>2. OwnerInv'
    BY <2>1, IdleType DEF OwnerInv
  <2>3. CASE UpdateStatus /\ rec.state # "" /\ "rec" \in current
    <3>1. app' = [app EXCEPT !.state = rec.state] /\ current' = {}
      BY <2>3 DEF UpdateStatus, Show
    <3>2. app' \in App /\ app'.uid = app.uid /\ app.uid # 0
      BY <2>1, <2>3, <3>1, AppTypes DEF App, CurrentInv
    <3>3. queued' \in BOOLEAN /\ statusLost' \in BOOLEAN
      BY <2>3 DEF UpdateStatus, End, TypeOK
    <3>4. TypeOK'
      BY <2>1, <3>1, <3>2, <3>3, IdleType DEF TypeOK
    <3>5. CurrentInv' /\ WakeInv'
      BY <3>1 DEF CurrentInv, WakeInv
    <3> QED  BY <2>2, <3>4, <3>5
  <2>4. CASE ~(UpdateStatus /\ rec.state # "" /\ "rec" \in current)
    <3>1. app' = app /\ current' = current \ {"rec"}
      BY <2>1, <2>4 DEF UpdateStatus, Show, StatusFails, CallFails
    <3>2. queued' \in BOOLEAN /\ statusLost' \in BOOLEAN
      BY <2>1 DEF UpdateStatus, StatusFails, CallFails, End, TypeOK
    <3>3. TypeOK'
      BY <2>1, <3>1, <3>2, IdleType DEF TypeOK
    <3>4. CurrentInv'
      BY <2>1, <3>1, IdleType DEF CurrentInv
    <3>5. ~queued' => ~queued /\ ~rec.again /\ (statusLost' \/ UpdateStatus)
      BY <2>1 DEF UpdateStatus, StatusFails, CallFails, End
    <3>6. WakeInv'
      <4> SUFFICES ASSUME "cache" \in current', ~queued'  
                   PROVE  /\ Followed' /\ Copied'
                          /\ statusLost' \/ StateFollows(app.state)'
        BY <2>1, IdleType DEF WakeInv
      <4>1. "cache" \in current /\ ~queued /\ ~rec.again /\ "rec" \in current
        BY <2>1, <3>1, <3>5 DEF WakeInv
      <4>2. Followed /\ Copied /\ StateFollows(IF rec.state = "" THEN app.state ELSE rec.state)
        BY <2>1, <4>1 DEF WakeInv
      <4>3. Followed' /\ Copied'
        BY <2>1, <3>1, <4>2 DEF Followed, Copied, Beyond
      <4>4. statusLost' \/ rec.state = ""
        BY <2>4, <3>5, <4>1
      <4> QED  BY <2>1, <3>1, <4>2, <4>3, <4>4 DEF StateFollows, Beyond, StateOf
    <3> QED  BY <2>2, <3>3, <3>4, <3>6
  <2> QED  BY <2>3, <2>4
<1> QED  BY <1>1, <1>2

\* All steps.
LEMMA AppInvStep == AppInv /\ [Next]_vars => AppInv'
<1> SUFFICES ASSUME AppInv, [Next]_vars  PROVE AppInv'
  OBVIOUS
<1>1. CASE UNCHANGED vars
  <2>0. TypeOK'
    BY <1>1 DEF AppInv, vars, TypeOK
  <2>1. CurrentInv' /\ OwnerInv'
    BY <1>1 DEF AppInv, vars, CurrentInv, Fits, OwnerInv
  <2>2. WakeInv'
    BY <1>1 DEF AppInv, vars, WakeInv, Followed, Copied, Beyond, StateFollows, StateOf
  <2> QED  BY <2>0, <2>1, <2>2 DEF AppInv
<1> QED
  BY <1>1, UserStep, SyncStep, ClusterStep, FirstStep, SecretStep, ReconcileKustomization,
     StatusStep DEF Next, ReconcileStep

\* It holds at all times.
LEMMA AppInvariant == Spec => []AppInv
BY AppInvInit, AppInvStep, PTL DEF Spec

\* The variables of the AppReconciler keep their types, for any number of
\* configurations and changes.
THEOREM AppTypeCorrect == Spec => []TypeOK
<1>1. AppInv => TypeOK
  BY DEF AppInv
<1> QED  BY <1>1, AppInvariant, PTL

(***************************************************************************)
(* For any number of configurations and of edits, whatever writes are      *)
(* refused and calls fail: when nothing is left to do, neither in the work *)
(* queue nor in the cluster, the App is installed or removed as its spec   *)
(* says, and shows so.  No early return of Reconcile loses a wake-up.      *)
(***************************************************************************)
THEOREM AppRestIsRight == Spec => []RestIsRight
<1>1. ASSUME AppInv, AtRest
      PROVE  /\ Installed /\ Shown
             /\ app.kustomization => ~app.deleting
             /\ app.kustomization /\ app.enabled => ~Dangling
  <2> USE DEF AppInv
  <2>0. /\ app \in App /\ kz \in Kustomization /\ user \in {0} \cup Conf
        /\ app.uid = 0 => app = NoApp
        /\ "cache" \in current /\ ~queued /\ rec.at = "idle"
        /\ cache.kz = kz /\ cache.user = user /\ cache.copies = copies
    BY <1>1 DEF AtRest, TypeOK
  <2>1. ~Beyond
    <3>1. kz.gen \in Nat
      BY <2>0 DEF Kustomization
    <3> QED  BY <2>0, <3>1 DEF Beyond
  <2>2. CASE app.uid = 0
    <3>1. kz.gen = 0
      BY <1>1, <2>0, <2>2 DEF AtRest, OwnerInv
    <3>2. ~app.kustomization
      <4>1. NoApp.kustomization = FALSE
        BY DEF NoApp
      <4> QED  BY <2>0, <2>2, <4>1
    <3> QED  BY <2>2, <3>1, <3>2 DEF Installed, Shown
  <2>3. CASE app.uid # 0 /\ app.kustomization
    <3>1. /\ Followed /\ (app.deleting \/ Copied)
          /\ app.deleting \/ statusLost \/ app.state = StateOf(app, kz, user)
      BY <1>1, <2>0, <2>1, <2>3 DEF WakeInv, StateFollows
    <3>2. ~app.deleting
      BY <1>1, <2>0, <3>1 DEF Followed, AtRest
    <3>3. IF app.enabled THEN kz.gen # 0 /\ kz.secret = user ELSE kz.gen = 0
      BY <1>1, <2>0, <2>1, <3>1, <3>2 DEF Followed, AtRest
    <3>4. app.enabled => ~Dangling
      BY <2>0, <2>3, <3>1, <3>2, <3>3 DEF Dangling, Copied
    <3>5. Installed
      BY <1>1, <2>3, <3>2, <3>3 DEF Installed, AtRest
    <3>6. Shown
      BY <3>1, <3>2 DEF Shown
    <3> QED  BY <3>2, <3>4, <3>5, <3>6
  <2>4. CASE app.uid # 0 /\ ~app.kustomization
    BY <2>4 DEF Installed, Shown
  <2> QED  BY <2>2, <2>3, <2>4
<1>2. AppInv => RestIsRight
  BY <1>1 DEF RestIsRight
<1> QED  BY <1>2, AppInvariant, PTL

\* No write of Reconcile, made from a cache that may be stale, undoes an edit.
THEOREM AppEditsKept == Spec => NoEditLost
<1> DEFINE Kept ==
        changes' = changes /\ app' # app =>
            \/ app' = NoApp /\ app.deleting
            \/ app' = [app EXCEPT !.finalizer = TRUE]
            \/ \E s \in State : app' = [app EXCEPT !.state = s] /\ Fits(s, app.enabled)
<1>1. ASSUME AppInv, Next  PROVE Kept
  <2> USE DEF AppInv
  <2>0. app \in App /\ cache.app \in App
    BY <1>1 DEF TypeOK
  <2>c. changes \in Nat
    BY <1>1 DEF TypeOK
  <2>d. "cache" \in current => cache.app = app
    BY <1>1 DEF CurrentInv
  <2>1. CASE UserChange
    BY <2>c, <2>1 DEF UserChange, Changed
  <2>2. CASE AddFinalizer
    <3>1. [cache.app EXCEPT !.finalizer = TRUE].finalizer
      BY <2>0 DEF App
    <3> QED  BY <2>d, <2>2, <3>1 DEF AddFinalizer, Update
  <2>3. CASE deleteKustomization
    <3>1. /\ ~[cache.app EXCEPT !.finalizer = FALSE].finalizer
          /\ [cache.app EXCEPT !.finalizer = FALSE].deleting = cache.app.deleting
      BY <2>0 DEF App
    <3> QED  BY <2>d, <2>3, <3>1 DEF deleteKustomization, Update
  <2>4. CASE UpdateStatus
    <3>1. rec.state \in State /\ rec.at = "status"
      BY <1>1, <2>4 DEF UpdateStatus, TypeOK
    <3>2. "rec" \in current /\ rec.state # "" => Fits(rec.state, app.enabled)
      BY <1>1, <3>1 DEF CurrentInv
    <3> QED  BY <2>4, <3>1, <3>2 DEF UpdateStatus, Show
  <2>5. CASE app' = app
    BY <2>5
  <2> QED
    BY <1>1, <2>1, <2>2, <2>3, <2>4, <2>5
       DEF Next, ReconcileStep, Sync, CollectGarbage, FluxApplies, FluxPrunes, External,
           NothingToDo, reconcileSecret, reconcileKustomization, CallFails, StatusFails
<1>2. AppInv /\ [Next]_vars => [Kept]_vars
  BY <1>1
<1> HIDE DEF Kept
<1>3. Spec /\ []AppInv => [][Kept]_vars
  BY <1>2, PTL DEF Spec
<1> QED  BY <1>3, AppInvariant, PTL DEF NoEditLost, Kept

-----------------------------------------------------------------------------
(* The IngressController: its constants and variables, of which MaxMoves,  *)
(* known and moves are MaxChanges, cache and changes in Ingress.  What     *)
(* Ingress assumes of its constants, IngressConstants, is a hypothesis of  *)
(* the theorems.                                                           *)

CONSTANTS MaxStarts, Cluster, Initial, Request, Unsynced, Cap, Informers, MaxMoves

VARIABLES started, router, handler, cancels, live, prev, at, built, loop, ch, closed,
          notes, cluster, known, crashed, late, latest, behind, moves

I == INSTANCE Ingress WITH MaxChanges <- MaxMoves, cache <- known, changes <- moves

-----------------------------------------------------------------------------
(* Ingress: type correctness *)

\* The type of the variables of Start and Stop.
ControlType ==
    /\ started \in BOOLEAN /\ router \in I!Router /\ cancels \in [I!Router -> SUBSET I!Gor]
    /\ live \subseteq I!Gor /\ prev \in [I!Gor -> SUBSET I!Gor]
    /\ at \in [I!Gor -> {"none", "setup", "build", "assign", "publish", "wait", "ended"}]

\* That of the routers and of the goroutines that build them.
RoutesType ==
    /\ handler \in [I!Router -> I!Table] /\ built \in [I!Gor -> I!Table]
    /\ loop \in [I!Gor -> [at : {"none", "receive", "assign"}, built : I!Table]]
    /\ latest \in [I!Gor -> I!Table] /\ behind \in [I!Gor -> BOOLEAN]

\* That of the informers and the channels.
WatchType ==
    /\ ch \in [I!Gor -> 0..Cap] /\ closed \subseteq I!Gor
    /\ notes \in [I!Gor -> Nat] /\ known \in [I!Gor -> I!Table]

\* That of the rest.
OtherType ==
    /\ crashed \in BOOLEAN /\ late \in BOOLEAN
    /\ cluster \in Cluster /\ moves \in 0..MaxMoves

\* TypeOK by the parts of the state.
LEMMA TypeParts ==
    I!TypeOK <=> ControlType /\ RoutesType /\ WatchType /\ OtherType
BY DEF I!TypeOK, ControlType, RoutesType, WatchType, OtherType

\* The same after a step.
LEMMA TypeNext == ControlType' /\ RoutesType' /\ WatchType' /\ OtherType' => I!TypeOK'
BY DEF I!TypeOK, ControlType, RoutesType, WatchType, OtherType

\* The goroutines are routers, of which there is one more.
LEMMA Routers ==
    ASSUME I!IngressConstants
    PROVE  /\ I!Gor \subseteq I!Router /\ 0 \in I!Router /\ 0 \notin I!Gor
           /\ \A r \in I!Router : r # 0 => r \in I!Gor
BY DEF I!IngressConstants, I!Gor, I!Router

\* A part that a step leaves alone keeps its type.
LEMMA Untouched ==
    ASSUME I!TypeOK
    PROVE  /\ UNCHANGED I!control => ControlType'
           /\ UNCHANGED I!routes => RoutesType'
           /\ UNCHANGED I!watch => WatchType'
           /\ UNCHANGED <<cluster, crashed, late, moves>> => OtherType'
<1>1. ControlType /\ RoutesType /\ WatchType /\ OtherType
  BY TypeParts
<1>2. UNCHANGED I!control => ControlType'
  BY <1>1 DEF ControlType, I!control
<1>3. UNCHANGED I!routes => RoutesType'
  BY <1>1 DEF RoutesType, I!routes
<1>4. UNCHANGED I!watch => WatchType'
  BY <1>1 DEF WatchType, I!watch
<1>5. UNCHANGED <<cluster, crashed, late, moves>> => OtherType'
  BY <1>1 DEF OtherType
<1> QED
  BY <1>2, <1>3, <1>4, <1>5

\* Start, Stop and the steps of start.
LEMMA StartType ==
    ASSUME I!IngressConstants, I!TypeOK, NEW g \in I!Gor, I!Start(g) \/ I!Stop \/ I!GiveUp(g) \/ I!StartStep(g)
    PROVE  I!TypeOK'
<1> USE Routers
<1>0. ControlType /\ RoutesType /\ WatchType /\ OtherType
  BY TypeParts
<1>1. CASE I!Start(g)
  <2>1. ControlType'
    BY <1>0, <1>1 DEF I!Start, I!Goto, ControlType
  <2> QED
    BY <1>1, <2>1, Untouched, TypeNext DEF I!Start
<1>2. CASE I!Stop
  <2>1. ControlType'
    BY <1>0, <1>2 DEF I!Stop, ControlType
  <2>2. RoutesType'
    BY <1>0, <1>2 DEF I!Stop, RoutesType, I!Table, I!NoRoutes
  <2> QED
    BY <1>2, <2>1, <2>2, Untouched, TypeNext DEF I!Stop
<1>3. CASE I!GiveUp(g)
  <2>1. ControlType'
    BY <1>0, <1>3 DEF I!GiveUp, I!Goto, ControlType
  <2> QED
    BY <1>3, <2>1, Untouched, TypeNext DEF I!GiveUp
<1>4. CASE I!Setup(g)
  <2>1. ControlType'
    BY <1>0, <1>4 DEF I!Setup, I!Goto, ControlType
  <2>2. RoutesType'
    BY <1>0, <1>4 DEF I!Setup, RoutesType
  <2> QED
    BY <1>4, <2>1, <2>2, Untouched, TypeNext DEF I!Setup
<1>5. CASE I!Build(g)
  <2>1. /\ \/ I!Goto(g, "publish") /\ UNCHANGED <<built, latest, behind>>
           \/ /\ built' = [built EXCEPT ![g] = known[g]]
              /\ latest' = [latest EXCEPT ![g] = known[g]]
              /\ behind' = [behind EXCEPT ![g] = FALSE]
              /\ I!Goto(g, "assign")
        /\ UNCHANGED <<started, router, cancels, live, prev, handler, loop>>
        /\ UNCHANGED <<I!watch, cluster, crashed, late, moves>>
    BY <1>5 DEF I!Build
  <2>2. ControlType'
    BY <1>0, <2>1 DEF I!Goto, ControlType
  <2>3. RoutesType'
    BY <1>0, <2>1 DEF RoutesType, WatchType
  <2> QED
    BY <2>1, <2>2, <2>3, Untouched, TypeNext
<1>6. CASE I!Assign(g)
  <2>1. ControlType'
    BY <1>0, <1>6 DEF I!Assign, I!Goto, ControlType
  <2>2. RoutesType'
    <3> DEFINE o == behind[g] \/ (built[g] # latest[g] /\ loop[g].at # "assign")
    <3>1. behind' = [behind EXCEPT ![g] = o] /\ o \in BOOLEAN
      BY <1>0, <1>6 DEF I!Assign, RoutesType
    <3> HIDE DEF o
    <3>2. behind' \in [I!Gor -> BOOLEAN]
      BY <1>0, <3>1 DEF RoutesType
    <3> QED
      BY <1>0, <1>6, <3>2 DEF I!Assign, RoutesType, I!Table, I!NoRoutes
  <2> QED
    BY <1>6, <2>1, <2>2, Untouched, TypeNext DEF I!Assign
<1>7. CASE I!Publish(g)
  <2>1. ControlType'
    BY <1>0, <1>7 DEF I!Publish, I!Goto, ControlType
  <2>2. OtherType'
    BY <1>0, <1>7 DEF I!Publish, OtherType
  <2> QED
    BY <1>7, <2>1, <2>2, Untouched, TypeNext DEF I!Publish
<1> QED
  BY <1>1, <1>2, <1>3, <1>4, <1>5, <1>6, <1>7 DEF I!StartStep

\* The steps of the informers, of the goroutine that serves the channel and of
\* the cluster: they leave the control of Start and Stop alone.
LEMMA WatchTypes ==
    ASSUME I!IngressConstants, I!TypeOK, NEW g \in I!Gor,
           I!LoopStep(g) \/ I!WatchStep(g) \/ I!CloseChannel(g) \/ I!Change
    PROVE  I!TypeOK' /\ UNCHANGED <<I!control, late>>
<1> USE Routers
<1>0. ControlType /\ RoutesType /\ WatchType /\ OtherType
  BY TypeParts
<1>1. CASE I!LoopBuilds(g)
  <2>1. /\ ch[g] > 0 /\ ch' = [ch EXCEPT ![g] = @ - 1]
        /\ \/ UNCHANGED <<loop, latest, behind>>
           \/ /\ loop' = [loop EXCEPT ![g] = [at |-> "assign", built |-> known[g]]]
              /\ latest' = [latest EXCEPT ![g] = known[g]]
              /\ behind' = [behind EXCEPT ![g] = FALSE]
        /\ UNCHANGED <<I!control, handler, built, closed, notes, known>>
        /\ UNCHANGED <<cluster, crashed, late, moves>>
    BY <1>1 DEF I!LoopBuilds
  <2>2. RoutesType'
    <3> DEFINE l == [at |-> "assign", built |-> known[g]]
    <3>1. l \in [at : {"none", "receive", "assign"}, built : I!Table]
      BY <1>0 DEF WatchType
    <3> HIDE DEF l
    <3>2. loop' = loop \/ loop' = [loop EXCEPT ![g] = l]
      BY <2>1 DEF l
    <3>3. loop' \in [I!Gor -> [at : {"none", "receive", "assign"}, built : I!Table]]
      BY <1>0, <3>1, <3>2 DEF RoutesType
    <3>4. behind' \in [I!Gor -> BOOLEAN] /\ latest' \in [I!Gor -> I!Table]
      BY <1>0, <2>1 DEF RoutesType, WatchType
    <3> QED
      BY <1>0, <2>1, <3>3, <3>4 DEF RoutesType
  <2>3. WatchType'
    <3>1. ch[g] \in 0..Cap /\ ch[g] - 1 \in 0..Cap
      BY <1>0, <2>1 DEF I!IngressConstants, WatchType
    <3>2. ch' \in [I!Gor -> 0..Cap]
      BY <1>0, <2>1, <3>1 DEF WatchType
    <3> QED
      BY <1>0, <2>1, <3>2 DEF WatchType
  <2> QED
    BY <2>1, <2>2, <2>3, Untouched, TypeNext
<1>2. CASE I!LoopAssigns(g)
  <2>1. RoutesType'
    <3> DEFINE o == behind[g] \/ (loop[g].built # latest[g] /\ at[g] # "assign")
    <3>1. behind' = [behind EXCEPT ![g] = o] /\ o \in BOOLEAN
      BY <1>0, <1>2 DEF I!LoopAssigns, RoutesType
    <3> HIDE DEF o
    <3>2. behind' \in [I!Gor -> BOOLEAN]
      BY <1>0, <3>1 DEF RoutesType
    <3> QED
      BY <1>0, <1>2, <3>2 DEF I!LoopAssigns, RoutesType, I!Table, I!NoRoutes
  <2> QED
    BY <1>2, <2>1, Untouched, TypeNext DEF I!LoopAssigns
<1>3. CASE I!LoopEnds(g)
  <2>1. RoutesType'
    BY <1>0, <1>3 DEF I!LoopEnds, RoutesType
  <2> QED
    BY <1>3, <2>1, Untouched, TypeNext DEF I!LoopEnds
<1>4. CASE I!Fetch(g)
  <2>1. /\ known' = [known EXCEPT ![g] = cluster]
        /\ \/ notes' = [notes EXCEPT ![g] = @ + 1] /\ UNCHANGED behind
           \/ /\ behind' = [behind EXCEPT ![g] = @ \/ I!Unstamped(known[g], cluster)]
              /\ UNCHANGED notes
        /\ UNCHANGED <<I!control, handler, built, loop, latest, ch, closed>>
        /\ UNCHANGED <<cluster, crashed, late, moves>>
    BY <1>4 DEF I!Fetch
  <2>2. RoutesType'
    <3> DEFINE o == behind[g] \/ I!Unstamped(known[g], cluster)
    <3>1. behind' = behind \/ behind' = [behind EXCEPT ![g] = o]
      BY <2>1
    <3>2. o \in BOOLEAN
      BY <1>0 DEF RoutesType
    <3> HIDE DEF o
    <3>3. behind' \in [I!Gor -> BOOLEAN]
      BY <1>0, <3>1, <3>2 DEF RoutesType
    <3> QED
      BY <1>0, <2>1, <3>3 DEF RoutesType
  <2>3. WatchType'
    BY <1>0, <2>1 DEF WatchType, OtherType, I!Table
  <2> QED
    BY <2>1, <2>2, <2>3, Untouched, TypeNext
<1>5. CASE I!Notify(g) \/ I!InformersEnd(g) \/ I!CloseChannel(g)
  <2>1. WatchType'
    BY <1>0, <1>5 DEF I!IngressConstants, I!Notify, I!InformersEnd, I!CloseChannel, WatchType
  <2> QED
    BY <1>5, <2>1, Untouched, TypeNext DEF I!Notify, I!InformersEnd, I!CloseChannel
<1>6. CASE I!NotifyPanics(g)
  <2>1. OtherType'
    BY <1>0, <1>6 DEF I!NotifyPanics, OtherType
  <2> QED
    BY <1>6, <2>1, Untouched, TypeNext DEF I!NotifyPanics
<1>7. CASE I!Change
  <2>1. OtherType'
    BY <1>0, <1>7 DEF I!IngressConstants, I!Change, OtherType
  <2> QED
    BY <1>7, <2>1, Untouched, TypeNext DEF I!Change
<1> QED
  BY <1>1, <1>2, <1>3, <1>4, <1>5, <1>6, <1>7 DEF I!LoopStep, I!WatchStep

-----------------------------------------------------------------------------
(* Ingress: what Stop finds in s.router *)

(***************************************************************************)
(* The Cancel of s.router covers the one context that can be live: Start   *)
(* puts it into the router it finds, and start, before it publishes its    *)
(* own router, into that one.                                              *)
(***************************************************************************)
CancelInv ==
    /\ ~started => router = 0 /\ live = {}
    /\ live \subseteq cancels[router]
    /\ \A g, h \in live : g = h
    /\ \A g \in live : at[g] # "none"
    /\ \A g \in I!Gor : at[g] \in {"build", "assign", "publish", "wait"} => g \in cancels[g]
    /\ router # 0 => at[router] = "wait"

IInv == I!IngressConstants /\ I!TypeOK /\ (~late => CancelInv)

\* Start, Stop and the steps of start keep it, unless a router is published
\* too late.
LEMMA CancelStep ==
    ASSUME I!IngressConstants, I!TypeOK, CancelInv, NEW g \in I!Gor,
           I!Start(g) \/ I!Stop \/ I!GiveUp(g) \/ I!StartStep(g), ~late'
    PROVE  CancelInv'
<1> USE Routers
<1>0. ControlType
  BY TypeParts
<1>1. CASE I!Start(g)
  <2>1. router = 0 /\ live = {} /\ live' = {g} /\ router' = 0
    BY <1>1 DEF I!Start, CancelInv
  <2> QED
    BY <1>0, <1>1, <2>1 DEF I!Start, I!Goto, ControlType, CancelInv
<1>2. CASE I!Stop
  <2>1. live' = {} /\ router' = 0
    BY <1>2 DEF I!Stop, CancelInv
  <2> QED
    BY <1>0, <1>2, <2>1 DEF I!Stop, ControlType, CancelInv
<1>3. CASE I!GiveUp(g)
  BY <1>0, <1>3 DEF I!GiveUp, I!Goto, ControlType, CancelInv
<1>4. CASE I!Setup(g)
  <2>1. router' = router /\ router # g
    BY <1>4 DEF I!Setup, CancelInv
  <2> QED
    BY <1>0, <1>4, <2>1 DEF I!Setup, I!Goto, ControlType, CancelInv
<1>5. CASE I!Build(g)
  <2>1. \E l \in {"publish", "assign"} : I!Goto(g, l)
    BY <1>5 DEF I!Build
  <2>2. at[g] = "build" /\ UNCHANGED <<started, router, cancels, live>>
    BY <1>5 DEF I!Build
  <2> QED
    BY <1>0, <2>1, <2>2 DEF I!Goto, ControlType, CancelInv
<1>6. CASE I!Assign(g)
  BY <1>0, <1>6 DEF I!Assign, I!Goto, ControlType, CancelInv
<1>7. CASE I!Publish(g)
  <2>1. g \in live
    BY <1>7 DEF I!Publish
  <2> QED
    BY <1>0, <1>7, <2>1 DEF I!Publish, I!Goto, ControlType, CancelInv
<1> QED
  BY <1>1, <1>2, <1>3, <1>4, <1>5, <1>6, <1>7 DEF I!StartStep

\* The invariant is inductive.
THEOREM IngressInductive == I!IngressConstants /\ I!Spec => []IInv
<1>1. I!IngressConstants /\ I!Init => IInv
  <2> SUFFICES ASSUME I!IngressConstants, I!Init PROVE IInv
    OBVIOUS
  <2>1. ControlType
    BY Routers DEF I!Init, ControlType
  <2>2. RoutesType
    BY DEF I!Init, RoutesType, I!Table, I!NoRoutes
  <2>3. WatchType
    BY DEF I!IngressConstants, I!Init, WatchType, I!Table
  <2>4. OtherType
    <3>1. 0 \in 0..MaxMoves
      BY DEF I!IngressConstants
    <3>2. crashed = FALSE /\ late = FALSE /\ cluster \in Cluster /\ moves = 0
      BY DEF I!Init, I!IngressConstants
    <3> QED
      BY <3>1, <3>2 DEF OtherType
  <2>5. CancelInv
    BY Routers DEF I!Init, CancelInv
  <2> QED
    BY <2>1, <2>2, <2>3, <2>4, <2>5, TypeParts DEF IInv
<1>2. IInv /\ [I!Next]_(I!vars) => IInv'
  <2> SUFFICES ASSUME IInv, [I!Next]_(I!vars) PROVE IInv'
    OBVIOUS
  <2>0. I!IngressConstants /\ I!TypeOK
    BY DEF IInv
  <2>1. ASSUME NEW g \in I!Gor, I!Start(g) \/ I!Stop \/ I!GiveUp(g) \/ I!StartStep(g)
        PROVE  IInv'
    <3>1. I!TypeOK'
      BY <2>0, <2>1, StartType
    <3>2. late => late'
      BY <2>1 DEF I!Start, I!Stop, I!GiveUp, I!StartStep, I!Setup, I!Build, I!Assign, I!Publish
    <3> QED
      BY <2>0, <2>1, <3>1, <3>2, CancelStep DEF IInv
  <2>2. ASSUME NEW g \in I!Gor,
               I!LoopStep(g) \/ I!WatchStep(g) \/ I!CloseChannel(g) \/ I!Change
        PROVE  IInv'
    <3>1. I!TypeOK' /\ UNCHANGED <<I!control, late>>
      BY <2>0, <2>2, WatchTypes
    <3> QED
      BY <3>1 DEF IInv, CancelInv, I!control
  <2>3. CASE UNCHANGED I!vars
    <3>1. UNCHANGED <<I!control, late>> /\ I!TypeOK'
      BY <2>0, <2>3, Untouched, TypeNext DEF I!vars
    <3> QED
      BY <3>1 DEF IInv, CancelInv, I!control
  <2>4. 1 \in I!Gor
    BY <2>0 DEF I!IngressConstants, I!Gor
  <2> QED
    BY <2>1, <2>2, <2>3, <2>4 DEF I!Next
<1> QED
  BY <1>1, <1>2, PTL DEF I!Spec

\* The variables of the IngressController keep their types: in particular no
\* channel holds more than it can.
THEOREM IngressTypeCorrect == I!IngressConstants /\ I!Spec => []I!TypeOK
<1>1. IInv => I!TypeOK
  BY DEF IInv
<1> QED
  BY <1>1, IngressInductive, PTL

\* For any number of starts, wherever Stop interrupts them, Stop ends every
\* context and leaves the empty router, unless start publishes too late.
THEOREM StopIsComplete == I!IngressConstants /\ I!Spec => []I!StopStops
<1>1. IInv => I!StopStops
  BY DEF IInv, CancelInv, I!StopStops
<1> QED
  BY <1>1, IngressInductive, PTL
=============================================================================
