---------------------------- MODULE RunnerProofs ----------------------------
(* Proofs about Runner, for any callers, commands and number of processes. *)
EXTENDS Runner, TLAPS

Holding(c) == at[c] \notin {"idle", "lock"}

(***************************************************************************)
(* Why there is no stray process: one caller at a time is inside, it is    *)
(* past Proc.Stop only when m.proc is nil, and a process that m.proc does  *)
(* not point to has been reaped, which kills its group.                    *)
(***************************************************************************)
Exclusion == \A c, d \in Caller : Holding(c) /\ Holding(d) => c = d

Progress ==
    \A c \in Caller : /\ at[c] \in {"wait", "killed", "sleep"} => proc # 0
                      /\ at[c] = "cool" => proc = 0

ReapedIsGone == \A n \in Proc : reaped[n] => ~alive[n] /\ ~kids[n]

OthersReaped == \A n \in Proc : ~reaped[n] => n = proc

RunInv == TypeOK /\ Exclusion /\ Progress /\ ReapedIsGone /\ OthersReaped

-----------------------------------------------------------------------------
\* Initially nothing runs and nobody calls.
LEMMA RunInvInit == Init => RunInv
<1> SUFFICES ASSUME Init  PROVE RunInv
  OBVIOUS
<1> USE DEF Init
<1>1. 0 \in 0..Slots
  BY SlotsAssumption
<1>2. TypeOK
  BY <1>1 DEF TypeOK
<1>3. Exclusion /\ Progress
  BY DEF Exclusion, Progress, Holding
<1>4. ReapedIsGone /\ OthersReaped
  BY DEF ReapedIsGone, OthersReaped
<1> QED  BY <1>2, <1>3, <1>4 DEF RunInv

\* Entering a call and taking the mutex.
LEMMA EnterStep ==
    ASSUME RunInv,
           NEW c \in Caller,
           \/ \E a \in Cmd : Call(c, "Start", a)
           \/ Call(c, "Stop", NoCmd)
           \/ Call(c, "SignalReload", NoCmd)
           \/ Acquire(c)
    PROVE  RunInv'
<1> USE DEF RunInv, procVars, callVars
<1>1. TypeOK'
  BY DEF TypeOK, Call, Acquire
<1>2. Exclusion'
  BY DEF TypeOK, Call, Acquire, Exclusion, Holding, MutexFree
<1>3. Progress'
  BY DEF TypeOK, Call, Acquire, Progress
<1>4. ReapedIsGone' /\ OthersReaped'
  BY DEF Call, Acquire, ReapedIsGone, OthersReaped
<1> QED  BY <1>1, <1>2, <1>3, <1>4

\* The steps of a call that do not touch the processes.
LEMMA QuietStep ==
    ASSUME RunInv,
           NEW c \in Caller,
           \/ StartSame(c) \/ StopSignal(c) \/ NothingToStop(c) \/ Stopped(c)
           \/ RefuseCooldown(c) \/ LaunchFails(c) \/ Started(c) \/ Reload(c)
    PROVE  RunInv'
<1> USE DEF RunInv, procVars, callVars, Goto, Return
<1>0. Proc = 1..Slots /\ Slots \in Nat
  BY SlotsAssumption DEF Proc
<1>1. Holding(c)
  BY DEF Holding, StartSame, StopSignal, NothingToStop, Stopped, RefuseCooldown, LaunchFails,
         Started, Reload
<1>2. TypeOK'
  <2>1. CASE StartSame(c) \/ StopSignal(c) \/ RefuseCooldown(c)
    BY <2>1 DEF TypeOK, StartSame, StopSignal, RefuseCooldown
  <2>2. CASE NothingToStop(c)
    BY <2>2 DEF TypeOK, NothingToStop
  <2>3. CASE Stopped(c)
    <3>1. CASE Goto(c, "cool")
      BY <1>0, <2>3, <3>1 DEF TypeOK, Stopped
    <3>2. CASE Return(c, "ok")
      BY <1>0, <2>3, <3>2 DEF TypeOK, Stopped
    <3> QED  BY <2>3, <3>1, <3>2 DEF Stopped
  <2>4. CASE LaunchFails(c)
    BY <2>4 DEF TypeOK, LaunchFails
  <2>5. CASE Reload(c)
    <3>1. PICK r \in {"panic", "error", "ok"} : res' = [res EXCEPT ![c] = r]
      BY <2>5 DEF Reload
    <3> QED  BY <2>5, <3>1 DEF TypeOK, Reload
  <2>6. CASE Started(c)
    <3>1. gor' \in [Proc -> {"none", "starting", "report", "wait", "ended"}]
      BY <2>6 DEF TypeOK, Started
    <3> QED  BY <2>6, <3>1 DEF TypeOK, Started
  <2> QED  BY <2>1, <2>2, <2>3, <2>4, <2>5, <2>6
<1>3. /\ \A d \in Caller : d # c => at'[d] = at[d]
      /\ at'[c] \in {"idle", "wait", "cool"}
      /\ at'[c] = "wait" => proc' # 0
      /\ at'[c] = "cool" => proc' = 0
  BY DEF TypeOK, StartSame, StopSignal, NothingToStop, Stopped, RefuseCooldown, LaunchFails,
         Started, Reload
<1>4. Exclusion'
  BY <1>1, <1>3 DEF Exclusion, Holding
<1>5. Progress'
  BY <1>1, <1>3 DEF Progress, Exclusion, Holding
<1>6. UNCHANGED <<alive, kids, reaped>>
  BY DEF StartSame, StopSignal, NothingToStop, Stopped, RefuseCooldown, LaunchFails, Started,
         Reload
<1>7. ReapedIsGone'
  BY <1>6 DEF ReapedIsGone
<1>8. OthersReaped'
  <2>1. CASE Stopped(c)
    BY <1>0, <1>6, <2>1 DEF OthersReaped, Stopped
  <2>2. CASE proc' = proc
    BY <1>6, <2>2 DEF OthersReaped
  <2> QED
    BY <2>1, <2>2 DEF StartSame, StopSignal, NothingToStop, RefuseCooldown, LaunchFails, Started,
                      Reload
<1> QED  BY <1>2, <1>4, <1>5, <1>7, <1>8

\* The group is killed when the grace period expires.
LEMMA GraceStep == ASSUME RunInv, NEW c \in Caller, GraceExpired(c)  PROVE RunInv'
<1> USE DEF RunInv, procVars, callVars, Goto, GraceExpired
<1>0. proc \in Proc
  BY SlotsAssumption DEF TypeOK, Progress, Proc
<1>1. TypeOK'
  BY <1>0 DEF TypeOK
<1>2. Exclusion' /\ Progress'
  BY DEF TypeOK, Exclusion, Progress, Holding
<1>3. ReapedIsGone' /\ OthersReaped'
  BY <1>0 DEF TypeOK, ReapedIsGone, OthersReaped
<1> QED  BY <1>1, <1>2, <1>3

\* A process is started while no other is alive.
LEMMA LaunchStep ==
    ASSUME RunInv, NEW c \in Caller, NEW n \in Proc, Launch(c, n)  PROVE RunInv'
<1> USE DEF RunInv, procVars, callVars, Goto, Launch
<1>0. n \in 0..Slots /\ n # 0
  BY SlotsAssumption DEF Proc
<1>1. TypeOK'
  BY <1>0 DEF TypeOK
<1>2. Exclusion' /\ Progress'
  BY <1>0 DEF TypeOK, Exclusion, Progress, Holding
<1>3. ReapedIsGone'
  BY DEF TypeOK, ReapedIsGone
<1>4. OthersReaped'
  <2>1. \A m \in Proc : reaped[m]
    BY SlotsAssumption DEF OthersReaped, Progress, Proc
  <2> QED  BY <2>1 DEF TypeOK, OthersReaped
<1> QED  BY <1>1, <1>2, <1>3, <1>4

\* What the process and its goroutines do.
LEMMA ProcessStep ==
    ASSUME RunInv, NEW n \in Proc, Exit(n) \/ GoroutineStep(n)  PROVE RunInv'
<1> USE DEF RunInv, procVars, callVars
<1>0. n \in 0..Slots
  BY SlotsAssumption DEF Proc
<1>1. TypeOK'
  <2>1. CASE Exit(n)
    BY <2>1 DEF TypeOK, Exit
  <2>2. CASE Reap(n)
    BY <2>2 DEF TypeOK, Reap
  <2>3. CASE WaitReturns(n)
    BY <2>3 DEF TypeOK, WaitReturns
  <2>4. CASE ReportRunning(n)
    BY <1>0, <2>4 DEF TypeOK, ReportRunning
  <2>5. CASE ReportEnd(n)
    <3>1. PICK s \in {"failed", "exited"} : status' = [n |-> n, state |-> s]
      BY <2>5 DEF ReportEnd
    <3> QED  BY <1>0, <2>5, <3>1 DEF TypeOK, ReportEnd
  <2> QED  BY <2>1, <2>2, <2>3, <2>4, <2>5 DEF GoroutineStep
<1>2. Exclusion' /\ Progress'
  BY DEF Exclusion, Progress, Holding, Exit, GoroutineStep, Reap, ReportRunning, WaitReturns,
         ReportEnd
<1>3. ReapedIsGone' /\ OthersReaped'
  BY DEF TypeOK, ReapedIsGone, OthersReaped, Exit, GoroutineStep, Reap, ReportRunning,
         WaitReturns, ReportEnd
<1> QED  BY <1>1, <1>2, <1>3

\* RunInv is inductive.
LEMMA RunInvStep == RunInv /\ [Next]_vars => RunInv'
<1> SUFFICES ASSUME RunInv, [Next]_vars  PROVE RunInv'
  OBVIOUS
<1>1. CASE CooldownOver
  BY <1>1 DEF CooldownOver, RunInv, TypeOK, Exclusion, Progress, Holding, ReapedIsGone,
              OthersReaped, procVars, callVars
<1>2. CASE UNCHANGED vars
  BY <1>2 DEF vars, RunInv, TypeOK, Exclusion, Progress, Holding, ReapedIsGone, OthersReaped,
              procVars, callVars
<1> QED
  BY <1>1, <1>2, EnterStep, QuietStep, GraceStep, LaunchStep, ProcessStep
     DEF Next, InnerStep, CallStep

\* The inductive invariant holds in every reachable state.
LEMMA RunInvariant == Spec => []RunInv
BY RunInvInit, RunInvStep, PTL DEF Spec

(***************************************************************************)
(* The variables of the Runner keep their types.                           *)
(***************************************************************************)
THEOREM TypeCorrect == Spec => []TypeOK
<1>1. RunInv => TypeOK
  BY DEF RunInv
<1> QED  BY <1>1, RunInvariant, PTL

(***************************************************************************)
(* Runner.Start never runs two process groups at the same time and         *)
(* Runner.Stop leaves nothing behind, for any number of callers and        *)
(* processes, whatever the processes do.                                   *)
(***************************************************************************)
THEOREM NothingStrays == Spec => []NoStrayProcess
<1>1. RunInv => NoStrayProcess
  BY DEF RunInv, ReapedIsGone, OthersReaped, NoStrayProcess
<1> QED  BY <1>1, RunInvariant, PTL

(***************************************************************************)
(* Why the answers are true: a process is all gone exactly when it has     *)
(* been reaped, its command is forgotten only after that, and a call is    *)
(* where its method goes.                                                  *)
(***************************************************************************)
Watched == \A n \in Proc : gor[n] \in {"none", "ended"} => reaped[n]

Routes == \A c \in Caller : /\ at[c] = "idle" => op[c] = "none"
                            /\ at[c] \in {"cool", "sleep"} => op[c] = "Start"

AnswerInv == RunInv /\ Watched /\ Routes

LEMMA AnswerInvInit == Init => AnswerInv
<1> SUFFICES ASSUME Init  PROVE AnswerInv
  OBVIOUS
<1>1. Watched /\ Routes
  BY DEF Init, Watched, Routes
<1> QED  BY <1>1, RunInvInit DEF AnswerInv

\* What the steps of the processes leave of Watched.
LEMMA WatchedStep == AnswerInv /\ [Next]_vars => Watched'
<1> SUFFICES ASSUME AnswerInv, [Next]_vars  PROVE Watched'
  OBVIOUS
<1> USE DEF AnswerInv, Watched, procVars, callVars, Goto, Return
<1>0. TypeOK
  BY DEF RunInv
<1>1. ASSUME NEW n \in Proc, Exit(n) \/ GoroutineStep(n)  PROVE Watched'
  BY <1>0, <1>1 DEF TypeOK, Exit, GoroutineStep, Reap, ReportRunning, WaitReturns, ReportEnd
<1>2. ASSUME NEW c \in Caller, NEW n \in Proc, Launch(c, n)  PROVE Watched'
  BY <1>0, <1>2 DEF TypeOK, Launch
<1>3. ASSUME NEW c \in Caller, Started(c)  PROVE Watched'
  BY <1>0, <1>3 DEF TypeOK, Started
<1>4. CASE UNCHANGED <<gor, reaped>>
  BY <1>4
<1>5. ASSUME NEW c \in Caller,
             \/ StartSame(c) \/ StopSignal(c) \/ NothingToStop(c) \/ GraceExpired(c)
             \/ Stopped(c) \/ RefuseCooldown(c) \/ LaunchFails(c) \/ Reload(c) \/ Acquire(c)
             \/ \E o \in {"Start", "Stop", "SignalReload"}, a \in Cmd \cup {NoCmd} : Call(c, o, a)
      PROVE  UNCHANGED <<gor, reaped>>
  BY <1>5 DEF StartSame, StopSignal, NothingToStop, GraceExpired, Stopped, RefuseCooldown,
              LaunchFails, Reload, Acquire, Call
<1>6. CooldownOver \/ UNCHANGED vars => UNCHANGED <<gor, reaped>>
  BY DEF CooldownOver, vars
<1> QED  BY <1>1, <1>2, <1>3, <1>4, <1>5, <1>6 DEF Next, InnerStep, CallStep

LEMMA RoutesStep == AnswerInv /\ [Next]_vars => Routes'
<1> SUFFICES ASSUME AnswerInv, [Next]_vars  PROVE Routes'
  OBVIOUS
<1> USE DEF AnswerInv, Routes, procVars, callVars, Goto, Return
<1>0. TypeOK
  BY DEF RunInv
<1>1. CASE UNCHANGED <<op, at>>
  BY <1>1
<1>2. ASSUME NEW c \in Caller, CallStep(c) \/ Acquire(c)  PROVE Routes'
  <2>1. /\ \A d \in Caller : d # c => at'[d] = at[d] /\ op'[d] = op[d]
        /\ at'[c] = "idle" => op'[c] = "none"
        /\ at'[c] \in {"cool", "sleep"} => op'[c] = "Start"
    BY <1>0, <1>2 DEF TypeOK, CallStep, StartSame, StopSignal, NothingToStop, GraceExpired,
                      Stopped, RefuseCooldown, Launch, LaunchFails, Started, Reload, Acquire
  <2> QED  BY <2>1
<1>3. ASSUME NEW c \in Caller, NEW o, NEW a, Call(c, o, a)  PROVE Routes'
  BY <1>0, <1>3 DEF TypeOK, Call
<1>4. ASSUME NEW n \in Proc, Exit(n) \/ GoroutineStep(n)  PROVE UNCHANGED <<op, at>>
  BY <1>4 DEF Exit, GoroutineStep, Reap, ReportRunning, WaitReturns, ReportEnd
<1>5. CooldownOver \/ UNCHANGED vars => UNCHANGED <<op, at>>
  BY DEF CooldownOver, vars
<1> QED  BY <1>1, <1>2, <1>3, <1>4, <1>5 DEF Next, InnerStep

\* AnswerInv is inductive.
LEMMA AnswerInvStep == AnswerInv /\ [Next]_vars => AnswerInv'
BY RunInvStep, WatchedStep, RoutesStep DEF AnswerInv

\* Nothing is left of a process exactly when it has been reaped, and only of
\* the one m.proc points to can something be left.
LEMMA WhatRuns ==
    ASSUME RunInv
    PROVE  /\ Occupied = {n \in Proc : ~reaped[n]}
           /\ Running = IF proc # 0 /\ ~reaped[proc] THEN {cmd[proc]} ELSE {}
<1>0. proc # 0 => proc \in Proc
  BY SlotsAssumption DEF RunInv, TypeOK, Proc
<1>1. Occupied = {n \in Proc : ~reaped[n]}
  BY DEF RunInv, TypeOK, ReapedIsGone, Occupied
<1>2. 0 \notin Proc
  BY SlotsAssumption DEF Proc
<1>3. ASSUME proc # 0 /\ ~reaped[proc]  PROVE Running = {cmd[proc]}
  <2>1. Occupied = {proc}
    BY <1>0, <1>1, <1>3 DEF RunInv, OthersReaped
  <2> QED  BY <2>1 DEF Running
<1>4. ASSUME ~(proc # 0 /\ ~reaped[proc])  PROVE Running = {}
  <2>1. Occupied = {}
    BY <1>0, <1>1, <1>2, <1>4 DEF RunInv, OthersReaped
  <2> QED  BY <2>1 DEF Running
<1> QED  BY <1>1, <1>3, <1>4

\* What a step of a call does to the history of Start.
LEMMA TakenChanges ==
    ASSUME RunInv, NEW c \in Caller, NEW s, at' = [at EXCEPT ![c] = s]
    PROVE  /\ s = "sleep" => Taken' = [Taken EXCEPT ![c] = TRUE]
           /\ s = "idle" => Taken' = [Taken EXCEPT ![c] = FALSE]
           /\ s # "sleep" /\ at[c] # "sleep" => Taken' = Taken
<1>1. at \in [Caller -> {"idle", "lock", "locked", "wait", "killed", "cool", "sleep"}]
  BY DEF RunInv, TypeOK
<1> QED  BY <1>1 DEF Taken

\* Only Launch and Reap change what runs.
LEMMA RunningKept ==
    ASSUME RunInv, RunInv', UNCHANGED reaped, \A n \in Proc : ~reaped[n] => cmd'[n] = cmd[n]
    PROVE  Running' = Running
<1>1. Occupied = {n \in Proc : ~reaped[n]}
  BY WhatRuns
<1>2. ReapedIsGone'
  BY DEF RunInv
<1>3. Occupied' = {n \in Proc : ~reaped[n]}
  BY <1>2 DEF Occupied, ReapedIsGone
<1> QED  BY <1>1, <1>3 DEF Running

-----------------------------------------------------------------------------
\* Each step of the Runner is a step of Supervisor or changes nothing there.
LEMMA EnterServes ==
    ASSUME AnswerInv, RunInv',
           NEW c \in Caller,
           \/ \E a \in Cmd : Call(c, "Start", a)
           \/ Call(c, "Stop", NoCmd)
           \/ Call(c, "SignalReload", NoCmd)
           \/ Acquire(c)
    PROVE  [Promise!Next]_(Promise!vars)
<1> USE DEF AnswerInv, procVars, callVars
<1>1. Running' = Running
  <2>1. UNCHANGED <<reaped, cmd>>
    BY DEF Call, Acquire
  <2> QED  BY <2>1, RunningKept
<1>2. Taken' = Taken
  <2>1. PICK s \in {"lock", "locked"} : at' = [at EXCEPT ![c] = s] /\ at[c] # "sleep"
    BY DEF Call, Acquire
  <2> QED  BY <2>1, TakenChanges
<1>3. CASE Acquire(c)
  BY <1>1, <1>2, <1>3 DEF Acquire, Promise!vars
<1>4. ASSUME NEW o, NEW a, Call(c, o, a)  PROVE Promise!Call(c, o, a)
  BY <1>1, <1>2, <1>4 DEF Call, Promise!Call, Routes
<1> QED  BY <1>3, <1>4 DEF Promise!Next

\* A call that returns: what it says is true.
LEMMA AnswerServes ==
    ASSUME AnswerInv, RunInv',
           NEW c \in Caller, NEW r, Return(c, r),
           \/ StartSame(c) \/ NothingToStop(c) \/ Stopped(c) \/ RefuseCooldown(c)
           \/ LaunchFails(c) \/ Started(c) \/ Reload(c)
    PROVE  Promise!CallStep(c)
<1> USE DEF AnswerInv, procVars, callVars
<1>0. TypeOK
  BY DEF RunInv
<1>1. Running' = Running
  <2>1. UNCHANGED <<reaped, cmd>>
    BY DEF StartSame, NothingToStop, Stopped, RefuseCooldown, LaunchFails, Started, Reload
  <2>2. reaped' = reaped /\ \A n \in Proc : cmd'[n] = cmd[n]
    BY <2>1
  <2> QED  BY <2>2, RunningKept
<1>2. Promise!Answer(c, r)
  <2>1. at' = [at EXCEPT ![c] = "idle"]
    BY DEF Return
  <2>2. Taken' = [Taken EXCEPT ![c] = FALSE]
    BY <2>1, TakenChanges
  <2> QED  BY <1>1, <2>2 DEF Return, Promise!Answer
<1>3. Taken[c] <=> at[c] = "sleep"
  BY DEF Taken
<1>4. Running = IF proc # 0 /\ ~reaped[proc] THEN {cmd[proc]} ELSE {}
  BY WhatRuns
<1>5. res'[c] = r /\ at'[c] = "idle"
  BY <1>0 DEF Return, TypeOK
<1>6. CASE StartSame(c)
  <2>1. r = "unchanged"
    BY <1>0, <1>5, <1>6 DEF StartSame, Return, TypeOK
  <2> QED
    BY <1>2, <1>3, <1>4, <1>6, <2>1 DEF StartSame, Same, Promise!Unchanged, Promise!CallStep
<1>7. CASE NothingToStop(c)
  <2>1. op[c] = "Stop" /\ r = "ok"
    BY <1>0, <1>5, <1>7 DEF NothingToStop, Goto, Return, TypeOK
  <2> QED  BY <1>2, <1>4, <1>7, <2>1 DEF NothingToStop, Promise!Stopped, Promise!CallStep
<1>8. CASE Stopped(c)
  <2>1. op[c] = "Stop" /\ r = "ok"
    BY <1>0, <1>5, <1>8 DEF Stopped, Goto, Return, TypeOK
  <2> QED  BY <1>2, <1>4, <1>8, <2>1 DEF Stopped, Promise!Stopped, Promise!CallStep
<1>9. CASE RefuseCooldown(c) \/ LaunchFails(c)
  <2>1. r \in {"cooldown", "panic"}
    BY <1>0, <1>5, <1>9 DEF RefuseCooldown, LaunchFails, Return, TypeOK
  <2>2. at[c] = "cool" /\ proc = 0 /\ op[c] = "Start"
    BY <1>9 DEF RefuseCooldown, LaunchFails, RunInv, Progress, Routes
  <2> QED  BY <1>2, <1>3, <1>4, <2>1, <2>2 DEF Promise!NotStarted, Promise!CallStep
<1>10. CASE Started(c)
  <2>1. r = "started"
    BY <1>0, <1>5, <1>10 DEF Started, Return, TypeOK
  <2> QED  BY <1>2, <1>3, <1>10, <2>1 DEF Started, Promise!Started, Promise!CallStep
<1>11. CASE Reload(c)
  <2>1. r \in {"error"} \cup IF Running = {} THEN {"panic"} ELSE {"ok"}
    BY <1>0, <1>4, <1>5, <1>11 DEF Reload, Return, TypeOK
  <2> QED  BY <1>2, <1>11, <2>1 DEF Reload, Promise!Reloaded, Promise!CallStep
<1> QED  BY <1>6, <1>7, <1>8, <1>9, <1>10, <1>11

\* A call that goes on without starting anything.
LEMMA WaitServes ==
    ASSUME AnswerInv, RunInv',
           NEW c \in Caller, NEW s \in {"wait", "killed", "cool"}, Goto(c, s),
           StopSignal(c) \/ NothingToStop(c) \/ Stopped(c) \/ GraceExpired(c)
    PROVE  UNCHANGED Promise!vars
<1> USE DEF AnswerInv, procVars, callVars
<1>1. UNCHANGED <<reaped, cmd>> /\ at[c] # "sleep"
  BY DEF StopSignal, NothingToStop, Stopped, GraceExpired
<1>2. Running' = Running
  BY <1>1, RunningKept
<1>3. Taken' = Taken
  BY <1>1, TakenChanges DEF Goto
<1> QED  BY <1>2, <1>3 DEF Goto, Promise!vars

\* A process is launched when nothing is left of the last one.
LEMMA LaunchServes ==
    ASSUME AnswerInv, RunInv', NEW c \in Caller, NEW n \in Proc, Launch(c, n)
    PROVE  Promise!Take(c)
<1> USE DEF AnswerInv, procVars, callVars
<1>0. TypeOK /\ n # 0
  BY SlotsAssumption DEF RunInv, Proc
<1>1. at[c] = "cool" /\ proc = 0 /\ op[c] = "Start"
  BY DEF Launch, RunInv, Progress, Routes
<1>2. Running = {}
  BY <1>1, WhatRuns
<1>3. Running' = {arg[c]}
  <2>1. proc' = n /\ ~reaped'[n] /\ cmd'[n] = arg[c]
    BY <1>0 DEF Launch, TypeOK
  <2>2. Occupied' = {n}
    BY <2>1 DEF RunInv, OthersReaped, ReapedIsGone, Occupied
  <2> QED  BY <2>1, <2>2 DEF Running
<1>4. ~Taken[c] /\ Taken' = [Taken EXCEPT ![c] = TRUE]
  <2>1. at' = [at EXCEPT ![c] = "sleep"]
    BY DEF Launch, Goto
  <2> QED  BY <1>1, <2>1, TakenChanges DEF Taken
<1> QED  BY <1>1, <1>2, <1>3, <1>4 DEF Launch, Goto, Promise!Take

\* The end of a process is seen when it is reaped.
LEMMA ProcessServes ==
    ASSUME AnswerInv, RunInv', NEW n \in Proc, Exit(n) \/ GoroutineStep(n)
    PROVE  [Promise!Next]_(Promise!vars)
<1> USE DEF AnswerInv, procVars, callVars
<1>0. TypeOK
  BY DEF RunInv
<1>1. UNCHANGED <<op, arg, res, at>> /\ Taken' = Taken
  BY DEF Exit, GoroutineStep, Reap, ReportRunning, WaitReturns, ReportEnd, Taken
<1>2. CASE Reap(n)
  <2>1. n = proc /\ proc # 0
    BY <1>2, SlotsAssumption DEF Reap, RunInv, OthersReaped, Proc
  <2>2. Running = {cmd[n]}
    BY <1>2, <2>1, WhatRuns DEF Reap
  <2>3. Running' = {}
    <3>1. \A m \in Proc : reaped'[m]
      BY <1>0, <1>2, <2>1 DEF Reap, TypeOK, RunInv, OthersReaped
    <3>2. Occupied' = {}
      BY <3>1 DEF RunInv, ReapedIsGone, Occupied
    <3> QED  BY <3>2 DEF Running
  <2> QED  BY <1>1, <2>2, <2>3 DEF Promise!Ends, Promise!Next
<1>3. CASE ~Reap(n)
  <2>1. UNCHANGED reaped
    BY <1>3 DEF Exit, GoroutineStep, ReportRunning, WaitReturns, ReportEnd
  <2>2. \A m \in Proc : ~reaped[m] => cmd'[m] = cmd[m]
    BY <1>0, <1>3 DEF Exit, GoroutineStep, ReportRunning, WaitReturns, ReportEnd, TypeOK, Watched
  <2>3. Running' = Running
    BY <2>1, <2>2, RunningKept
  <2> QED  BY <1>1, <2>3 DEF Promise!vars
<1> QED  BY <1>2, <1>3

LEMMA NextServes == AnswerInv /\ RunInv' /\ [Next]_vars => [Promise!Next]_(Promise!vars)
<1> SUFFICES ASSUME AnswerInv, RunInv', [Next]_vars  PROVE [Promise!Next]_(Promise!vars)
  OBVIOUS
<1>1. ASSUME NEW c \in Caller, CallStep(c)  PROVE [Promise!Next]_(Promise!vars)
  <2>1. CASE \E n \in Proc : Launch(c, n)
    BY <2>1, LaunchServes DEF Promise!CallStep, Promise!Next
  <2>2. ASSUME NEW r, Return(c, r),
               \/ StartSame(c) \/ NothingToStop(c) \/ Stopped(c) \/ RefuseCooldown(c)
               \/ LaunchFails(c) \/ Started(c) \/ Reload(c)
        PROVE  [Promise!Next]_(Promise!vars)
    BY <2>2, AnswerServes DEF Promise!Next
  <2>3. ASSUME NEW s \in {"wait", "killed", "cool"}, Goto(c, s),
               StopSignal(c) \/ NothingToStop(c) \/ Stopped(c) \/ GraceExpired(c)
        PROVE  [Promise!Next]_(Promise!vars)
    BY <2>3, WaitServes
  <2>4. StopSignal(c) => Goto(c, "wait")
    BY DEF StopSignal
  <2>5. GraceExpired(c) => Goto(c, "killed")
    BY DEF GraceExpired
  <2>6. NothingToStop(c) \/ Stopped(c) => Goto(c, "cool") \/ Return(c, "ok")
    BY DEF NothingToStop, Stopped
  <2>7. /\ StartSame(c) => Return(c, "unchanged")
        /\ RefuseCooldown(c) => Return(c, "cooldown")
        /\ LaunchFails(c) => Return(c, "panic")
        /\ Started(c) => Return(c, "started")
        /\ Reload(c) => \E r : Return(c, r)
    BY DEF StartSame, RefuseCooldown, LaunchFails, Started, Reload
  <2> QED  BY <1>1, <2>1, <2>2, <2>3, <2>4, <2>5, <2>6, <2>7 DEF CallStep
<1>2. CASE CooldownOver \/ UNCHANGED vars
  BY <1>2 DEF CooldownOver, vars, procVars, callVars, Occupied, Running, Taken, Promise!vars
<1> QED
  BY <1>1, <1>2, EnterServes, ProcessServes DEF Next, InnerStep

(***************************************************************************)
(* The Runner implements Supervisor: every call of Start, Stop and         *)
(* SignalReload takes effect at one moment and answers what is true then,  *)
(* with any number of callers, commands and processes, whenever processes  *)
(* exit and however late they are reaped and reported.                     *)
(***************************************************************************)
THEOREM PromiseKept == Spec => KeepsPromise
<1>1. Init => Promise!Init
  <2>1. ASSUME Init  PROVE Running = {}
    BY <2>1 DEF Init, Running, Occupied
  <2>2. ASSUME Init  PROVE Taken = [c \in Caller |-> FALSE]
    BY <2>2 DEF Init, Taken
  <2> QED  BY <2>1, <2>2 DEF Init, Promise!Init
<1>2. AnswerInv => RunInv
  BY DEF AnswerInv
<1> QED
  BY <1>1, <1>2, AnswerInvInit, AnswerInvStep, NextServes, PTL
     DEF Spec, KeepsPromise, Promise!Spec
=============================================================================
