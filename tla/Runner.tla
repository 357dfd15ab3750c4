------------------------------- MODULE Runner -------------------------------
(***************************************************************************)
(* pkg/runner: a Runner supervises one child process (k3s, dnsmasq,        *)
(* hostapd, wpa_supplicant, dhcpcd).                                       *)
(*                                                                         *)
(* Start, Stop and SignalReload hold the Runner's mutex until they return. *)
(* Two goroutines belong to each process: the one of StartProcess that     *)
(* reaps it (Reap) and the one of Runner.Start that reports its state      *)
(* (ReportRunning, WaitReturns, ReportEnd).  They take no mutex: a write   *)
(* of m.terminated and a report may come at any time.                      *)
(*                                                                         *)
(* Time is abstract: `cooling' says that m.terminated is less than the     *)
(* cooldown of 1s ago, and the grace period may expire at any time.        *)
(* Processes are numbered by slots that are used again once all goroutines *)
(* of the process have ended.                                              *)
(***************************************************************************)
EXTENDS Naturals

CONSTANTS Caller,    \* goroutines that call the Runner
          Cmd,       \* command lines
          NoCmd,     \* not a Cmd
          Slots      \* bound: processes whose goroutines have not ended

Proc == 1..Slots

ASSUME SlotsAssumption == Slots \in Nat \ {0}
ASSUME CmdAssumption == NoCmd \notin Cmd

VARIABLES proc,     \* m.proc: a slot, or 0 for nil
          cooling,  \* now is before m.terminated + cooldown
          alive,    \* alive[n]: the process has not exited
          kids,     \* kids[n]: there are other processes in its group
          failed,   \* failed[n]: it exited with an error
          reaped,   \* reaped[n]: p.running is false and p.wg is done
          cmd,      \* cmd[n]: p.cmd
          gor,      \* gor[n]: progress of the goroutine that reports
          status,   \* the last report: slot and state
          op, arg, at, \* the call each caller is in: method, command, progress
          res       \* result of each caller's last call

procVars == <<alive, kids, failed, reaped, cmd>>
callVars == <<op, arg, at, res>>
vars == <<proc, cooling, procVars, gor, status, callVars>>

TypeOK ==
    /\ proc \in 0..Slots
    /\ cooling \in BOOLEAN
    /\ alive \in [Proc -> BOOLEAN]
    /\ kids \in [Proc -> BOOLEAN]
    /\ failed \in [Proc -> BOOLEAN]
    /\ reaped \in [Proc -> BOOLEAN]
    /\ cmd \in [Proc -> Cmd \cup {NoCmd}]
    /\ gor \in [Proc -> {"none", "starting", "report", "wait", "ended"}]
    /\ status \in [n: 0..Slots, state: {"none", "running", "failed", "exited"}]
    /\ op \in [Caller -> {"none", "Start", "Stop", "SignalReload"}]
    /\ arg \in [Caller -> Cmd \cup {NoCmd}]
    /\ at \in [Caller -> {"idle", "lock", "locked", "wait", "killed", "cool", "sleep"}]
    /\ res \in [Caller -> {"none", "unchanged", "cooldown", "started", "ok", "error", "panic"}]

Init ==
    /\ proc = 0
    /\ cooling = FALSE
    /\ alive = [n \in Proc |-> FALSE]
    /\ kids = [n \in Proc |-> FALSE]
    /\ failed = [n \in Proc |-> FALSE]
    /\ reaped = [n \in Proc |-> TRUE]
    /\ cmd = [n \in Proc |-> NoCmd]
    /\ gor = [n \in Proc |-> "none"]
    /\ status = [n |-> 0, state |-> "none"]
    /\ op = [c \in Caller |-> "none"]
    /\ arg = [c \in Caller |-> NoCmd]
    /\ at = [c \in Caller |-> "idle"]
    /\ res = [c \in Caller |-> "none"]

-----------------------------------------------------------------------------
(* Calls *)

Call(c, o, a) ==
    /\ at[c] = "idle"
    /\ op' = [op EXCEPT ![c] = o]
    /\ arg' = [arg EXCEPT ![c] = a]
    /\ at' = [at EXCEPT ![c] = "lock"]
    /\ res' = [res EXCEPT ![c] = "none"]
    /\ UNCHANGED <<proc, cooling, procVars, gor, status>>

MutexFree == \A c \in Caller : at[c] \in {"idle", "lock"}

Acquire(c) ==
    /\ at[c] = "lock"
    /\ MutexFree
    /\ at' = [at EXCEPT ![c] = "locked"]
    /\ UNCHANGED <<proc, cooling, procVars, gor, status, op, arg, res>>

\* The call goes on at step s, or returns r and releases the mutex.
Goto(c, s) == at' = [at EXCEPT ![c] = s] /\ UNCHANGED <<op, arg, res>>
Return(c, r) ==
    /\ at' = [at EXCEPT ![c] = "idle"]
    /\ res' = [res EXCEPT ![c] = r]
    /\ op' = [op EXCEPT ![c] = "none"]
    /\ arg' = [arg EXCEPT ![c] = NoCmd]

\* Mutant: Start does not ask whether the process still runs.
SameOnce(c) == op[c] = "Start" /\ proc # 0 /\ cmd[proc] = arg[c]

\* Start finds the same command still running.
Same(c) == op[c] = "Start" /\ proc # 0 /\ ~reaped[proc] /\ cmd[proc] = arg[c]

StartSame(c) ==
    /\ at[c] = "locked"
    /\ Same(c)
    /\ Return(c, "unchanged")
    /\ UNCHANGED <<proc, cooling, procVars, gor, status>>

\* Proc.Stop: the termination signal is sent; what it does is up to the
\* process (Exit).
StopSignal(c) ==
    /\ at[c] = "locked"
    /\ op[c] \in {"Start", "Stop"}
    /\ proc # 0
    /\ ~Same(c)
    /\ Goto(c, "wait")
    /\ UNCHANGED <<proc, cooling, procVars, gor, status>>

NothingToStop(c) ==
    /\ at[c] = "locked"
    /\ proc = 0
    /\ \/ op[c] = "Start" /\ Goto(c, "cool")
       \/ op[c] = "Stop" /\ Return(c, "ok")
    /\ UNCHANGED <<proc, cooling, procVars, gor, status>>

\* Mutant: Proc.Stop without its timeout.
GraceNeverExpires(c) == FALSE

\* Proc.Stop: the grace period is over, the whole group is killed.
GraceExpired(c) ==
    /\ at[c] = "wait"
    /\ ~reaped[proc]
    /\ alive' = [alive EXCEPT ![proc] = FALSE]
    /\ failed' = [failed EXCEPT ![proc] = @ \/ alive[proc]]
    /\ kids' = [kids EXCEPT ![proc] = FALSE]
    /\ Goto(c, "killed")
    /\ UNCHANGED <<proc, cooling, reaped, cmd, gor, status>>

\* Mutant: Proc.Stop does not wait for the process.
StopUnwaited(c) ==
    /\ at[c] \in {"wait", "killed"}
    /\ proc' = 0
    /\ \/ op[c] = "Start" /\ Goto(c, "cool")
       \/ op[c] = "Stop" /\ Return(c, "ok")
    /\ UNCHANGED <<cooling, procVars, gor, status>>

\* Proc.Stop has waited for the process.
Stopped(c) ==
    /\ at[c] \in {"wait", "killed"}
    /\ reaped[proc]
    /\ proc' = 0
    /\ \/ op[c] = "Start" /\ Goto(c, "cool")
       \/ op[c] = "Stop" /\ Return(c, "ok")
    /\ UNCHANGED <<cooling, procVars, gor, status>>

RefuseCooldown(c) ==
    /\ at[c] = "cool"
    /\ cooling
    /\ Return(c, "cooldown")
    /\ UNCHANGED <<proc, cooling, procVars, gor, status>>

\* StartProcess succeeds; Start then sleeps for 50ms.
Launch(c, n) ==
    /\ at[c] = "cool"
    /\ ~cooling
    /\ gor[n] = "none"
    /\ proc' = n
    /\ cooling' = TRUE
    /\ alive' = [alive EXCEPT ![n] = TRUE]
    /\ \E k \in BOOLEAN : kids' = [kids EXCEPT ![n] = k]
    /\ failed' = [failed EXCEPT ![n] = FALSE]
    /\ reaped' = [reaped EXCEPT ![n] = FALSE]
    /\ cmd' = [cmd EXCEPT ![n] = arg[c]]
    /\ gor' = [gor EXCEPT ![n] = "starting"]
    /\ Goto(c, "sleep")
    /\ UNCHANGED status

\* StartProcess fails before there is a process: it returns no Proc, and the
\* report of the failure dereferences it.  Once there is one, syscall.Getpgid
\* finds it: nobody has waited for it yet, so that it keeps its process ID.
LaunchFails(c) ==
    /\ at[c] = "cool"
    /\ ~cooling
    /\ cooling' = TRUE
    /\ Return(c, "panic")
    /\ UNCHANGED <<proc, procVars, gor, status>>

\* Mutant: nobody waits for the process.
StartedUnwatched(c) ==
    /\ at[c] = "sleep"
    /\ Return(c, "started")
    /\ UNCHANGED <<proc, cooling, procVars, gor, status>>

Started(c) ==
    /\ at[c] = "sleep"
    /\ gor' = [gor EXCEPT ![proc] = "report"]
    /\ Return(c, "started")
    /\ UNCHANGED <<proc, cooling, procVars, status>>

\* SignalReload; its error message dereferences m.proc when it is nil.  Wait
\* may have taken the process already, but not reset p.running yet.
Reload(c) ==
    /\ at[c] = "locked"
    /\ op[c] = "SignalReload"
    /\ \E r \in IF proc = 0 THEN {"panic"}
               ELSE IF reaped[proc] THEN {"error"}
               ELSE IF alive[proc] THEN {"ok"} ELSE {"ok", "error"} : Return(c, r)
    /\ UNCHANGED <<proc, cooling, procVars, gor, status>>

-----------------------------------------------------------------------------
(* The process and its goroutines *)

\* The process ends, by itself or on a signal; others of its group may stay.
Exit(n) ==
    /\ alive[n]
    /\ alive' = [alive EXCEPT ![n] = FALSE]
    /\ \E e \in BOOLEAN : failed' = [failed EXCEPT ![n] = e]
    /\ UNCHANGED <<proc, cooling, kids, reaped, cmd, gor, status, callVars>>

\* The goroutine of StartProcess: Wait returns, the rest of the group is
\* killed, p.running is reset and p.wg done.
Reap(n) ==
    /\ ~alive[n]
    /\ ~reaped[n]
    /\ reaped' = [reaped EXCEPT ![n] = TRUE]
    /\ kids' = [kids EXCEPT ![n] = FALSE]
    /\ UNCHANGED <<proc, cooling, alive, failed, cmd, gor, status, callVars>>

ReportRunning(n) ==
    /\ gor[n] = "report"
    /\ gor' = [gor EXCEPT ![n] = "wait"]
    /\ status' = [n |-> n, state |-> "running"]
    /\ UNCHANGED <<proc, cooling, procVars, callVars>>

\* p.Wait returns in the goroutine of Start.
WaitReturns(n) ==
    /\ gor[n] = "wait"
    /\ reaped[n]
    /\ cooling' = TRUE
    /\ gor' = [gor EXCEPT ![n] = "ended"]
    /\ UNCHANGED <<proc, procVars, status, callVars>>

\* The last report.  What is known of the process is not read any more.
ReportEnd(n) ==
    /\ gor[n] = "ended"
    /\ gor' = [gor EXCEPT ![n] = "none"]
    /\ status' = [n |-> n, state |-> IF failed[n] THEN "failed" ELSE "exited"]
    /\ failed' = [failed EXCEPT ![n] = FALSE]
    /\ cmd' = [cmd EXCEPT ![n] = NoCmd]
    /\ UNCHANGED <<proc, cooling, alive, kids, reaped, callVars>>

CooldownOver ==
    /\ cooling
    /\ cooling' = FALSE
    /\ UNCHANGED <<proc, procVars, gor, status, callVars>>

-----------------------------------------------------------------------------
\* The steps of a call once it holds the mutex.
CallStep(c) ==
    \/ StartSame(c) \/ StopSignal(c) \/ NothingToStop(c) \/ GraceExpired(c) \/ Stopped(c)
    \/ RefuseCooldown(c) \/ (\E n \in Proc : Launch(c, n)) \/ LaunchFails(c) \/ Started(c)
    \/ Reload(c)

GoroutineStep(n) == Reap(n) \/ ReportRunning(n) \/ WaitReturns(n) \/ ReportEnd(n)

\* What happens whether or not somebody calls.
InnerStep ==
    \/ \E c \in Caller : Acquire(c) \/ CallStep(c)
    \/ \E n \in Proc : Exit(n) \/ GoroutineStep(n)
    \/ CooldownOver

Next ==
    \/ \E c \in Caller :
           \/ \E a \in Cmd : Call(c, "Start", a)
           \/ Call(c, "Stop", NoCmd)
           \/ Call(c, "SignalReload", NoCmd)
    \/ InnerStep

Spec == Init /\ [][Next]_vars

(***************************************************************************)
(* Goroutines that can run do run, and a sync.Mutex does not starve a      *)
(* waiter.  A process need not exit on its signal: nothing is assumed of   *)
(* Exit.  The kernel reports the end of a killed process.                  *)
(***************************************************************************)
Fairness ==
    /\ \A c \in Caller : SF_vars(Acquire(c)) /\ WF_vars(CallStep(c))
    /\ \A n \in Proc : WF_vars(GoroutineStep(n))

FairSpec == Spec /\ Fairness

-----------------------------------------------------------------------------
(* Properties *)

\* The slots that something is left of: the process, its group, or its Proc
\* before the process is waited for.
Occupied == {n \in Proc : alive[n] \/ kids[n] \/ ~reaped[n]}

Running == {cmd[n] : n \in Occupied}

\* The callers whose Start has launched its command and has not returned yet.
Taken == [c \in Caller |-> at[c] = "sleep"]

Promise == INSTANCE Supervisor WITH running <- Running, taken <- Taken

(***************************************************************************)
(* The Runner keeps the promises of Supervisor: of all the interleavings   *)
(* of callers, exits, reaping and reports, none lets a call answer         *)
(* something that is not true of the processes at that moment.  Start says *)
(* "unchanged" only while this command runs and no other, it starts one    *)
(* only when nothing is left of the last, a refused Start and a Stop leave *)
(* nothing, and SignalReload only says that it has signalled a process if  *)
(* there is one.                                                           *)
(***************************************************************************)
KeepsPromise == Promise!Spec

(***************************************************************************)
(* Every living process, and every process of its group, belongs to the    *)
(* command the Runner is running: Start never runs two at the same time    *)
(* and Stop leaves nothing behind, whether the process exits, crashes or   *)
(* ignores its signal.                                                     *)
(***************************************************************************)
NoStrayProcess == \A n \in Proc : alive[n] \/ kids[n] => n = proc

\* Start, Stop and SignalReload return, also when the process ignores its
\* termination signal.
CallsReturn == \A c \in Caller : at[c] # "idle" ~> at[c] = "idle"

\* The end of a process is eventually reported.
EndReported == \A n \in Proc : (~alive[n] /\ gor[n] # "none") ~> (gor[n] = "none")
=============================================================================
