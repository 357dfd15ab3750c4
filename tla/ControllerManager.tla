-------------------------- MODULE ControllerManager --------------------------
(***************************************************************************)
(* ControllerManager (pkg/controller): runs a set of reconcilers in a      *)
(* controller-runtime manager that a goroutine restarts whenever it ends,  *)
(* until Stop cancels it and waits for it.                                 *)
(*                                                                         *)
(* controller-runtime keeps the names of the controllers of a process in   *)
(* one registry and refuses a name that was ever registered before; that   *)
(* library is modelled from how runControllerManager uses it.              *)
(***************************************************************************)
EXTENDS Naturals, Sequences

CONSTANTS
    Manager,       \* the ControllerManagers of the process
    Controllers    \* [Manager -> the names its reconcilers register, in order]

VARIABLES
    cancel,        \* [Manager -> BOOLEAN] m.cancel # nil
    ctx,           \* [Manager -> BOOLEAN] the context of the last Start is live
    loop,          \* [Manager -> where the goroutine of Start is]
    names          \* the controller names registered in this process

cmVars == <<cancel, ctx, loop, names>>

\* "check": before or after the sleep of a second that ends an attempt.
LoopState == {"none", "check", "run"}

NameOf(m) == {Controllers[m][i] : i \in DOMAIN Controllers[m]}

CMTypeOK ==
    /\ cancel \in [Manager -> BOOLEAN]
    /\ ctx \in [Manager -> BOOLEAN]
    /\ loop \in [Manager -> LoopState]
    /\ names \subseteq UNION {NameOf(m) : m \in Manager}

CMInit ==
    /\ cancel = [m \in Manager |-> FALSE]
    /\ ctx = [m \in Manager |-> FALSE]
    /\ loop = [m \in Manager |-> "none"]
    /\ names = {}

-----------------------------------------------------------------------------
(* Start and Stop.  The one caller is the DeviceReconciler, so that the    *)
(* mutex is free; Stop is split where it waits for the goroutine.          *)

\* Start.
StartManager(m) ==
    /\ cancel' = [cancel EXCEPT ![m] = TRUE]
    /\ IF cancel[m] THEN UNCHANGED <<ctx, loop>>
       ELSE /\ ctx' = [ctx EXCEPT ![m] = TRUE]
            /\ loop' = [loop EXCEPT ![m] = "check"]
    /\ UNCHANGED names

\* Stop up to wg.Wait.
CancelManager(m) ==
    /\ cancel' = [cancel EXCEPT ![m] = FALSE]
    /\ ctx' = [ctx EXCEPT ![m] = FALSE]
    /\ UNCHANGED <<loop, names>>

\* Mutant: Stop does not wait for the goroutine.
ManagerEndedUnwaited(m) == m \in Manager

\* wg.Wait returns.
ManagerEnded(m) == loop[m] = "none"

-----------------------------------------------------------------------------
(* The goroutine of Start *)

GotoLoop(m, l) == loop' = [loop EXCEPT ![m] = l] /\ UNCHANGED <<cancel, ctx>>

\* ctx.Err() at the top of the loop.
LoopEnds(m) ==
    /\ loop[m] = "check"
    /\ ~ctx[m]
    /\ GotoLoop(m, "none")
    /\ UNCHANGED names

\* SetupWithManager of each reconciler in turn, up to the first whose
\* controller name is taken; then mgr.Start.  (An attempt in which the config
\* function or NewManager fails changes nothing.)
SetupAndRun(m) ==
    /\ loop[m] = "check"
    /\ ctx[m]
    /\ LET taken == {i \in DOMAIN Controllers[m] : Controllers[m][i] \in names}
       IN  /\ names' = names \cup {Controllers[m][i] : i \in
                           {j \in DOMAIN Controllers[m] : \A t \in taken : j < t}}
           /\ GotoLoop(m, IF taken = {} THEN "run" ELSE "check")

\* mgr.Start returns because the context is done ...
RunEnds(m) ==
    /\ loop[m] = "run"
    /\ ~ctx[m]
    /\ GotoLoop(m, "check")
    /\ UNCHANGED names

\* ... or it fails, for example because the caches do not synchronize.
RunFails(m) ==
    /\ loop[m] = "run"
    /\ ctx[m]
    /\ GotoLoop(m, "check")
    /\ UNCHANGED names

\* The steps that are not faults of the environment.
LoopStep(m) == LoopEnds(m) \/ SetupAndRun(m) \/ RunEnds(m)
=============================================================================
