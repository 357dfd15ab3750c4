---------------------------- MODULE AppReconciler ----------------------------
(***************************************************************************)
(* AppReconciler (pkg/reconciler/app): installs an App by a Kustomization, *)
(* which the external Flux controller applies, with a copy of the user's   *)
(* configuration Secret under a name made from its content, and shows the  *)
(* state of the Kustomization as the state of the App.                     *)
(*                                                                         *)
(* Reconcile reads from caches that lag behind the API server, each kind   *)
(* of resource on its own; a write is refused if the resource has changed. *)
(* The calls of one Reconcile that write are steps of their own.           *)
(*                                                                         *)
(* Abstracted: one App, enabled when created, and its AppConfigSchema,     *)
(* which can be read; a configuration is a number; messages, revisions.    *)
(***************************************************************************)
EXTENDS Naturals

CONSTANTS
    MaxConf,       \* bound: configurations
    Incomplete,    \* the ones, 0 for none, that miss a mandatory parameter
    MaxChanges     \* bound: changes made by users

Conf == 1..MaxConf

ASSUME AppAssumption ==
    /\ MaxConf \in Nat \ {0} /\ MaxChanges \in Nat
    /\ Incomplete \subseteq {0} \cup Conf

VARIABLES
    app,           \* the App; uid 0: there is none
    kz,            \* its Kustomization; gen 0: there is none
    user,          \* the <app>-userconfig Secret, 0: there is none
    copies,        \* the owners of the copies, by content; 0: there is none
    cache,         \* these as the client's cache has them
    current,       \* which of "cache" and "rec" have the App's present version
    queued,        \* a request is in the work queue
    rec,           \* Reconcile: where it is and its variables
    statusLost,    \* history: the last update of the status failed
    uids,          \* the Apps created so far
    changes

vars == <<app, current, kz, user, copies, cache, queued, rec, statusLost, uids, changes>>

State == {"", "installing", "installed", "error", "deinstalling", "notinstalled", "config"}
App == [uid : Nat, deleting : BOOLEAN, finalizer : BOOLEAN, enabled : BOOLEAN,
        kustomization : BOOLEAN, state : State]
\* secret: the copy it names, 0: <app>-defaultconfig.  status: of the condition
\* Ready for the generation observed; "Unknown" is the same as none yet.
Kustomization == [gen : Nat, owner : Nat, deleting : BOOLEAN, secret : {0} \cup Conf,
                  observed : Nat, status : {"", "True", "False"}]
NoApp == [uid |-> 0, deleting |-> FALSE, finalizer |-> FALSE, enabled |-> FALSE,
          kustomization |-> FALSE, state |-> ""]
NoKustomization == [gen |-> 0, owner |-> 0, deleting |-> FALSE, secret |-> 0, observed |-> 0,
                    status |-> ""]

TypeOK ==
    /\ app \in App /\ (app.uid = 0 => app = NoApp)
    /\ current \subseteq {"cache", "rec"}
    /\ kz \in Kustomization /\ (kz.gen = 0 => kz = NoKustomization)
    /\ user \in {0} \cup Conf /\ copies \in [Conf -> Nat]
    /\ cache \in [app : App, kz : Kustomization, user : {0} \cup Conf, copies : [Conf -> Nat]]
    /\ queued \in BOOLEAN /\ statusLost \in BOOLEAN
    /\ rec \in [at : {"idle", "kustomization", "status"}, app : App,
                conf : {0} \cup Conf, state : State, again : BOOLEAN]
    /\ uids \in Nat /\ changes \in 0..MaxChanges

Idle == [at |-> "idle", app |-> NoApp, conf |-> 0, state |-> "", again |-> FALSE]

NewApp(uid) == [NoApp EXCEPT !.uid = uid, !.enabled = TRUE, !.kustomization = TRUE]

Init ==
    /\ app = NewApp(1)
    /\ current = {} /\ kz = NoKustomization
    /\ user = 1 /\ copies = [c \in Conf |-> 0]
    /\ cache = [app |-> NoApp, kz |-> kz, user |-> 0, copies |-> copies]
    /\ queued = FALSE /\ statusLost = FALSE
    /\ rec = Idle
    /\ uids = 1 /\ changes = 0

-----------------------------------------------------------------------------
(* Users, the API server, Flux *)

Changed ==
    /\ changes < MaxChanges
    /\ changes' = changes + 1
    /\ UNCHANGED <<kz, copies, cache, queued, rec, statusLost>>

\* An App without finalizer is gone at once.
Deleted(a) == IF a.finalizer THEN [a EXCEPT !.deleting = TRUE] ELSE NoApp

UserChange ==
    /\ Changed
    /\ \/ /\ app.uid # 0
          /\ app' \in {[app EXCEPT !.enabled = ~@],
                      [app EXCEPT !.kustomization = ~@], Deleted(app)}
          /\ current' = {}
          /\ UNCHANGED <<user, uids>>
       \/ /\ app.uid = 0
          /\ uids' = uids + 1
          /\ app' = NewApp(uids')
          /\ current' = {}
          /\ UNCHANGED user
       \/ user' \in ({0} \cup Conf) \ {user} /\ UNCHANGED <<app, current, uids>>

\* Mutant: the Kustomization and the copies are not watched.
SyncUnowned ==
    /\ \/ /\ "cache" \notin current
          /\ cache' = [cache EXCEPT !.app = app]
          /\ current' = current \cup {"cache"} /\ queued' = TRUE
       \/ cache.kz # kz /\ cache' = [cache EXCEPT !.kz = kz] /\ UNCHANGED <<current, queued>>
       \/ /\ cache.user # user \/ cache.copies # copies
          /\ cache' = [cache EXCEPT !.user = user, !.copies = copies]
          /\ UNCHANGED current
          /\ queued' = (queued \/ cache.user # user)
    /\ UNCHANGED <<app, kz, user, copies, rec, statusLost, uids, changes>>

\* The cache of a kind catches up, and the handlers enqueue the App: also for
\* the Kustomization and the copies, which it owns.
Sync ==
    /\ \/ /\ "cache" \notin current
          /\ cache' = [cache EXCEPT !.app = app]
          /\ current' = current \cup {"cache"}
       \/ cache.kz # kz /\ cache' = [cache EXCEPT !.kz = kz] /\ UNCHANGED current
       \/ /\ cache.user # user \/ cache.copies # copies
          /\ cache' = [cache EXCEPT !.user = user, !.copies = copies]
          /\ UNCHANGED current
    /\ queued' = TRUE
    /\ UNCHANGED <<app, kz, user, copies, rec, statusLost, uids, changes>>

External == UNCHANGED <<app, current, user, cache, queued, rec, statusLost, uids, changes>>

\* The garbage collector deletes what belongs to an App that is gone.
CollectGarbage ==
    /\ \/ /\ kz.gen # 0 /\ ~kz.deleting /\ kz.owner # app.uid
          /\ kz' = [kz EXCEPT !.deleting = TRUE]
          /\ UNCHANGED copies
       \/ /\ \E c \in Conf : /\ copies[c] \notin {0, app.uid}
                            /\ copies' = [copies EXCEPT ![c] = 0]
          /\ UNCHANGED kz
    /\ External

\* Flux applies a generation, or prunes a Kustomization that is being deleted.
FluxApplies ==
    /\ kz.gen # 0 /\ ~kz.deleting
    /\ kz.observed # kz.gen
    /\ \E s \in {"True", "False"} : kz' = [kz EXCEPT !.observed = kz.gen, !.status = s]
    /\ UNCHANGED copies
    /\ External

FluxPrunes ==
    /\ kz.deleting
    /\ kz' = NoKustomization
    /\ UNCHANGED copies
    /\ External

-----------------------------------------------------------------------------
(* Reconcile *)

Return(again) == rec' = Idle /\ queued' = again

End(again) == rec' = Idle /\ queued' = (queued \/ again)

Begin == rec.at = "idle" /\ queued

\* Client.Update of the App as the cache has it, refused if it has changed.
\* Removing the last finalizer of an App that is being deleted removes it.
Update(a) ==
    IF "cache" \notin current THEN Return(TRUE) /\ UNCHANGED <<app, current>>
    ELSE Return(FALSE) /\ current' = {} /\ app' = IF a.deleting /\ ~a.finalizer THEN NoApp ELSE a

Rest == UNCHANGED <<user, cache, statusLost, uids, changes>>

\* There is no App or it specifies no kustomization: not even its finalizer
\* is removed.
NothingToDo ==
    /\ Begin
    /\ cache.app.uid = 0 \/ ~cache.app.kustomization
    /\ Return(FALSE)
    /\ Rest
    /\ UNCHANGED <<app, current, kz, copies>>

Specified == Begin /\ cache.app.uid # 0 /\ cache.app.kustomization

AddFinalizer ==
    /\ Specified
    /\ ~cache.app.finalizer
    /\ Update([cache.app EXCEPT !.finalizer = TRUE])
    /\ Rest
    /\ UNCHANGED <<kz, copies>>

\* Mutant: the finalizer is left when the Kustomization is gone already.
deleteKustomizationLeft ==
    /\ Specified
    /\ cache.app.finalizer /\ cache.app.deleting
    /\ kz' = IF cache.kz.gen # 0 /\ kz.gen # 0 THEN [kz EXCEPT !.deleting = TRUE] ELSE kz
    /\ Return(FALSE)
    /\ Rest
    /\ UNCHANGED <<app, current, copies>>

\* The finalizer is removed when the Kustomization is gone, or not yet in the
\* cache; until then its deletion wakes Reconcile up.
deleteKustomization ==
    /\ Specified
    /\ cache.app.finalizer /\ cache.app.deleting
    /\ IF cache.kz.gen # 0 /\ kz.gen # 0
       THEN kz' = [kz EXCEPT !.deleting = TRUE] /\ Return(FALSE) /\ UNCHANGED <<app, current>>
       ELSE Update([cache.app EXCEPT !.finalizer = FALSE]) /\ UNCHANGED kz
    /\ Rest
    /\ UNCHANGED copies

\* The Secret is copied unless the cache has the copy, of whatever owner.
reconcileSecret ==
    /\ Specified
    /\ cache.app.finalizer /\ ~cache.app.deleting
    /\ LET c == cache.user
           create == c # 0 /\ cache.copies[c] = 0
       IN  IF create /\ copies[c] # 0
           THEN Return(TRUE) /\ UNCHANGED <<copies, current>>
           ELSE /\ copies' = IF create THEN [copies EXCEPT ![c] = cache.app.uid] ELSE copies
                /\ rec' = [Idle EXCEPT !.at = "kustomization", !.app = cache.app, !.conf = c]
                /\ queued' = FALSE
                /\ current' = IF "cache" \in current THEN {"cache", "rec"} ELSE {}
    /\ Rest
    /\ UNCHANGED <<app, kz>>

\* The state of the App; validateConfiguration has the last word.
StateOf(a, k, c) ==
    CASE ~a.enabled -> IF k.gen > 0 THEN "deinstalling" ELSE "notinstalled"
      [] a.enabled /\ c \in Incomplete -> "config"
      [] OTHER -> IF k.observed # k.gen THEN "installing"
                  ELSE IF k.status = "True" THEN "installed" ELSE "error"

\* Mutant: a Kustomization that is ready counts, for whatever generation.
NewStateAny(k, err) ==
    CASE err = "none" /\ k.status = "True" -> "installed"
      [] err = "none" /\ k.status # "True" -> StateOf(rec.app, k, rec.conf)
      [] err = "conflict" -> rec.app.state
      [] err = "other" -> "error"

\* The state to show: a conflict leaves it as it was, another error is shown.
NewState(k, err) ==
    CASE err = "none" -> StateOf(rec.app, k, rec.conf)
      [] err = "conflict" -> rec.app.state
      [] err = "other" -> "error"

\* Mutant: the error is shown, but not returned.
ResultShown(k, err) ==
    LET s == NewState(k, err)
    IN  rec' = [Idle EXCEPT !.at = "status", !.state = IF s = rec.app.state THEN "" ELSE s]

\* It returns what the API server answered or else the cached Kustomization,
\* and an error.  Of the state Reconcile keeps whether it has changed.
Result(k, err) ==
    LET s == NewState(k, err)
    IN  rec' = [Idle EXCEPT !.at = "status", !.state = IF s = rec.app.state THEN "" ELSE s,
                            !.again = err # "none"]

\* Create, or Update, refused if the cache is stale.  kz = k stands for equal
\* resource versions: a Kustomization is only created anew once the cache has
\* shown that the last one is gone, and of one each change shows.
Install(k) ==
    LET new == IF k.gen = 0 THEN [NoKustomization EXCEPT !.gen = 1, !.owner = rec.app.uid,
                                                         !.secret = rec.conf]
               ELSE [k EXCEPT !.gen = @ + 1, !.owner = rec.app.uid, !.secret = rec.conf]
    IN  IF k.gen # 0 /\ k.secret = rec.conf THEN Result(k, "none") /\ UNCHANGED kz
        ELSE IF kz = k THEN Result(new, "none") /\ kz' = new
        ELSE /\ Result(k, IF k.gen # 0 /\ kz.gen # 0 THEN "conflict" ELSE "other")
             /\ UNCHANGED kz

Uninstall(k) ==
    IF k.gen = 0 THEN Result(k, "none") /\ UNCHANGED kz
    ELSE IF kz.gen = 0 THEN Result(k, "other") /\ UNCHANGED kz
    ELSE Result(k, "none") /\ kz' = [kz EXCEPT !.deleting = TRUE]

\* Mutant: an existing Kustomization is left as it is.
reconcileKustomizationOnce ==
    /\ rec.at = "kustomization"
    /\ IF ~rec.app.enabled THEN Uninstall(cache.kz)
       ELSE IF cache.kz.gen # 0 THEN Result(cache.kz, "none") /\ UNCHANGED kz
       ELSE Install(cache.kz)
    /\ Rest
    /\ UNCHANGED <<app, current, copies, queued>>

reconcileKustomization ==
    /\ rec.at = "kustomization"
    /\ IF rec.app.enabled THEN Install(cache.kz) ELSE Uninstall(cache.kz)
    /\ Rest
    /\ UNCHANGED <<app, current, copies, queued>>

\* The deferred Status().Update of a changed status; its error is ignored.
Show(s) ==
    IF s # "" /\ "rec" \in current
    THEN app' = [app EXCEPT !.state = s] /\ current' = {}
    ELSE current' = current \ {"rec"} /\ UNCHANGED app

UpdateStatus ==
    /\ rec.at = "status"
    /\ Show(rec.state)
    /\ statusLost' = FALSE
    /\ End(rec.again)
    /\ UNCHANGED <<kz, user, copies, cache, uids, changes>>

\* A call fails and writes nothing, and Reconcile is called again: when it was
\* the first that writes, as if it had not begun; when it was that of the
\* Kustomization, the state shows it ...
CallFails ==
    /\ \/ rec.at = "kustomization" /\ Result(cache.kz, "other") /\ UNCHANGED <<current, queued>>
       \/ rec.at = "status" /\ End(TRUE) /\ current' = current \ {"rec"}
    /\ UNCHANGED <<app, kz, user, copies, cache, statusLost, uids, changes>>

\* ... but not if it was Status().Update.
StatusFails ==
    /\ rec.at = "status" /\ ~rec.again
    /\ statusLost' = TRUE
    /\ current' = current \ {"rec"}
    /\ End(FALSE)
    /\ UNCHANGED <<app, kz, user, copies, cache, uids, changes>>

-----------------------------------------------------------------------------
ReconcileStep ==
    \/ NothingToDo \/ AddFinalizer \/ deleteKustomization \/ reconcileSecret
    \/ reconcileKustomization \/ UpdateStatus

Next ==
    \/ UserChange \/ Sync \/ CollectGarbage \/ FluxApplies \/ FluxPrunes
    \/ ReconcileStep \/ CallFails \/ StatusFails

Spec == Init /\ [][Next]_vars

\* The watches, the worker, Flux and the garbage collector do their work, and
\* calls do not fail for ever.
Fairness ==
    /\ <>[][~(CallFails \/ StatusFails)]_vars
    /\ WF_vars(Sync) /\ WF_vars(ReconcileStep)
    /\ WF_vars(CollectGarbage) /\ WF_vars(FluxApplies) /\ WF_vars(FluxPrunes)

FairSpec == Spec /\ Fairness

-----------------------------------------------------------------------------
(* Properties *)

(***************************************************************************)
(* A Kustomization that names a copy of the configuration which does not   *)
(* exist - because the cache still had it or because it was a former App's *)
(* and the garbage collector came later - does not stay so: the copy is    *)
(* made again, or the Kustomization is changed or deleted.                 *)
(***************************************************************************)
Dangling == kz.gen # 0 /\ kz.secret # 0 /\ copies[kz.secret] = 0

SecretExists == Dangling ~> (~Dangling \/ ~app.kustomization)

\* What the App asks for is there: a Kustomization with the user's latest
\* configuration, or none for a disabled, deleted or former App.
Installed ==
    CASE app.uid = 0 -> kz.gen = 0
      [] app.uid # 0 /\ app.kustomization ->
           IF app.enabled /\ ~app.deleting
           THEN kz.gen # 0 /\ ~kz.deleting /\ kz.secret = user /\ kz.owner = app.uid
           ELSE kz.gen = 0
      [] OTHER -> TRUE

\* The state shown is the true one; only a failed update of it is lost.
Shown ==
    app.uid # 0 /\ app.kustomization /\ ~app.deleting =>
        statusLost \/ app.state = StateOf(app, kz, user)

(***************************************************************************)
(* In the end the Kustomization is what the App asks for, in spite of      *)
(* stale caches, refused writes and failing calls: there for an enabled    *)
(* App, with the user's latest configuration, and gone for a disabled or   *)
(* deleted one, also when it belonged to a former App of this name.        *)
(***************************************************************************)
Installs == <>[]Installed

\* The deletion of an App comes to an end, though it waits for the deletion of
\* the Kustomization without asking to be called again - unless its spec
\* names no kustomization any more, as Reconcile then does nothing.
DeletionEnds == app.deleting ~> (~app.deleting \/ ~app.kustomization)

(***************************************************************************)
(* The state shown for an App becomes the true one, although errors of     *)
(* Status().Update are ignored: a refused one is made up for by the event  *)
(* of the change that refused it.  Only one that fails otherwise is lost.  *)
(***************************************************************************)
StateIsTrue == <>[]Shown

\* Nobody but a user has anything to do: no request and no Reconcile, caches
\* that are up to date, nothing for Flux and the garbage collector.
AtRest ==
    /\ ~queued /\ rec.at = "idle"
    /\ "cache" \in current
    /\ cache.kz = kz /\ cache.user = user /\ cache.copies = copies
    /\ kz.gen # 0 => ~kz.deleting /\ kz.observed = kz.gen /\ kz.owner = app.uid
    /\ \A c \in Conf : copies[c] \in {0, app.uid}

(***************************************************************************)
(* No wake-up is missed: whenever all have come to rest, the App is        *)
(* installed or removed as it asks for, with a configuration that exists,  *)
(* its deletion is not waiting for anything and its state is shown - the   *)
(* early returns of Reconcile without asking to be called again, and the   *)
(* errors that it drops, rely on an event that is still to come.           *)
(***************************************************************************)
RestIsRight ==
    AtRest => /\ Installed /\ Shown
              /\ app.kustomization => ~app.deleting
              /\ app.kustomization /\ app.enabled => ~Dangling

\* A state that Reconcile shows fits an App that is enabled or not.
Fits(s, enabled) == s = "error" \/ (enabled <=> s \notin {"deinstalling", "notinstalled"})

(***************************************************************************)
(* Reconcile never undoes an edit: it writes the App as its cache has it,  *)
(* and a user may change, delete or re-create the App at any time before   *)
(* that, but a write changes only the finalizer of an App, removes one     *)
(* that a user has deleted, or sets a state that fits the present spec.    *)
(***************************************************************************)
NoEditLost ==
    [][changes' = changes /\ app' # app =>
          \/ app' = NoApp /\ app.deleting
          \/ app' = [app EXCEPT !.finalizer = TRUE]
          \/ \E s \in State : app' = [app EXCEPT !.state = s] /\ Fits(s, app.enabled)]_vars
=============================================================================
