----------------------------- MODULE Supervisor -----------------------------
(***************************************************************************)
(* What the supervisor of a process promises its callers: at most one      *)
(* command runs at a time, it may end at any moment but is replaced only   *)
(* after it has ended, and each answer says what is running when it is     *)
(* given.                                                                  *)
(***************************************************************************)
CONSTANTS Caller, Cmd, NoCmd

VARIABLES running,       \* the commands that have processes
          op, arg, res,  \* the call each caller is in, its last result
          taken          \* taken[c]: the call of c has started its command

vars == <<running, op, arg, res, taken>>

Init ==
    /\ running = {}
    /\ op = [c \in Caller |-> "none"]
    /\ arg = [c \in Caller |-> NoCmd]
    /\ res = [c \in Caller |-> "none"]
    /\ taken = [c \in Caller |-> FALSE]

Call(c, o, a) ==
    /\ op[c] = "none"
    /\ op' = [op EXCEPT ![c] = o]
    /\ arg' = [arg EXCEPT ![c] = a]
    /\ res' = [res EXCEPT ![c] = "none"]
    /\ UNCHANGED <<running, taken>>

Answer(c, r) ==
    /\ op' = [op EXCEPT ![c] = "none"]
    /\ arg' = [arg EXCEPT ![c] = NoCmd]
    /\ res' = [res EXCEPT ![c] = r]
    /\ taken' = [taken EXCEPT ![c] = FALSE]
    /\ UNCHANGED running

\* The command runs already, and nothing else does.
Unchanged(c) ==
    /\ op[c] = "Start"
    /\ ~taken[c]
    /\ running = {arg[c]}
    /\ Answer(c, "unchanged")

Take(c) ==
    /\ op[c] = "Start"
    /\ ~taken[c]
    /\ running = {}
    /\ running' = {arg[c]}
    /\ taken' = [taken EXCEPT ![c] = TRUE]
    /\ UNCHANGED <<op, arg, res>>

Started(c) == taken[c] /\ Answer(c, "started")

\* A Start that is refused or fails leaves nothing running.
NotStarted(c) ==
    /\ op[c] = "Start"
    /\ ~taken[c]
    /\ running = {}
    /\ \E r \in {"cooldown", "panic"} : Answer(c, r)

Stopped(c) == op[c] = "Stop" /\ running = {} /\ Answer(c, "ok")

\* An error may also come from a command that is about to end.
Reloaded(c) ==
    /\ op[c] = "SignalReload"
    /\ \E r \in {"error"} \cup IF running = {} THEN {"panic"} ELSE {"ok"} : Answer(c, r)

Ends ==
    /\ running # {}
    /\ running' = {}
    /\ UNCHANGED <<op, arg, res, taken>>

CallStep(c) ==
    Unchanged(c) \/ Take(c) \/ Started(c) \/ NotStarted(c) \/ Stopped(c) \/ Reloaded(c)

Next ==
    \/ \E c \in Caller :
           \/ \E a \in Cmd : Call(c, "Start", a)
           \/ \E o \in {"Stop", "SignalReload"} : Call(c, o, NoCmd)
           \/ CallStep(c)
    \/ Ends

Spec == Init /\ [][Next]_vars
=============================================================================
