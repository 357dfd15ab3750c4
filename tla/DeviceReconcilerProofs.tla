----------------------- MODULE DeviceReconcilerProofs -----------------------
(***************************************************************************)
(* Proofs about DeviceReconciler and the ControllerManagers it switches,   *)
(* for any number of changes, faults and unfinished goroutines.            *)
(***************************************************************************)
EXTENDS DeviceReconciler, TLAPS

\* What the exclusion of the managers rests on.
LoopInv == loop \in [Manager -> LoopState] /\ ManagersExclude

\* Any step of the managers and of Reconcile changes the loops one at a time
\* and sends one off only when the other has ended.
LoopChange ==
    \/ UNCHANGED loop
    \/ \E m \in Manager, l \in LoopState : loop[m] # "none" /\ loop' = [loop EXCEPT ![m] = l]
    \/ \E m \in Manager : /\ \A o \in Manager \ {m} : loop[o] = "none"
                          /\ loop' = [loop EXCEPT ![m] = "check"]

\* A change of that form keeps the managers apart.
LEMMA ChangeExcludes ==
    ASSUME LoopInv, LoopChange
    PROVE  LoopInv'
<1> USE DeviceAssumption
<1>1. CASE UNCHANGED loop
  BY <1>1 DEF LoopInv, ManagersExclude
<1>2. ASSUME NEW m \in Manager, NEW l \in LoopState,
             loop[m] # "none", loop' = [loop EXCEPT ![m] = l]
      PROVE  LoopInv'
  BY <1>2 DEF LoopInv, ManagersExclude
<1>3. ASSUME NEW m \in Manager, \A o \in Manager \ {m} : loop[o] = "none",
             loop' = [loop EXCEPT ![m] = "check"]
      PROVE  LoopInv'
  BY <1>3 DEF LoopInv, ManagersExclude, LoopState
<1> QED
  BY <1>1, <1>2, <1>3 DEF LoopChange

\* The goroutine of a ControllerManager.
LEMMA ManagerChange ==
    ASSUME NEW m \in Manager, ManagerStep(m) \/ ManagerFails(m)
    PROVE  LoopChange
<1>1. loop[m] # "none"
  BY DEF ManagerStep, ManagerFails, LoopStep, LoopEnds, SetupAndRun, RunEnds, RunFails
<1>2. \E l \in LoopState : GotoLoop(m, l)
  <2>1. CASE LoopEnds(m)
    BY <2>1 DEF LoopEnds, LoopState
  <2>2. CASE SetupAndRun(m)
    <3>1. GotoLoop(m, "run") \/ GotoLoop(m, "check")
      BY <2>2 DEF SetupAndRun
    <3> QED
      BY <3>1 DEF LoopState
  <2>3. CASE RunEnds(m) \/ RunFails(m)
    BY <2>3 DEF RunEnds, RunFails, LoopState
  <2> QED
    BY <2>1, <2>2, <2>3 DEF ManagerStep, ManagerFails, LoopStep
<1> QED
  BY <1>1, <1>2 DEF LoopChange, GotoLoop

\* Switch starts a manager after the other one has ended.
LEMMA SwitchChange ==
    ASSUME Switch
    PROVE  LoopChange
<1> USE DeviceAssumption
<1>0. loop[otherManager] = "none"
  BY DEF Switch, ManagerEnded
<1>s. ASSUME NEW m \in Manager, StartManager(m), \A o \in Manager \ {m} : loop[o] = "none"
      PROVE  LoopChange
  BY <1>s DEF StartManager, LoopChange
<1>1. CASE Serves(rec.d)
  <2>1. StartManager("controllers")
    BY <1>1 DEF Switch, Serves
  <2>2. \A o \in Manager \ {"controllers"} : loop[o] = "none"
    BY <1>0, <1>1 DEF otherManager
  <2> QED
    BY <1>s, <2>1, <2>2
<1>2. CASE ~Serves(rec.d) /\ Terminating(rec.d)
  <2>1. CancelManager("nodeController")
    BY <1>2 DEF Switch
  <2> QED
    BY <2>1 DEF CancelManager, LoopChange
<1>3. CASE ~Serves(rec.d) /\ ~Terminating(rec.d)
  <2>1. StartManager("nodeController")
    BY <1>3 DEF Switch
  <2>2. \A o \in Manager \ {"nodeController"} : loop[o] = "none"
    BY <1>0, <1>3 DEF otherManager
  <2> QED
    BY <1>s, <2>1, <2>2
<1> QED
  BY <1>1, <1>2, <1>3

\* Every other step leaves the loops alone.
LEMMA OthersLeaveLoops ==
    ASSUME \/ Change \/ regenerateClusterJoinToken \/ Deliver \/ CooldownOver \/ WriteTokenFile
           \/ K3sExits \/ DnsExits
           \/ (\E n \in Proc : ReportStep(n) \/ ReportLost(n) \/ Launched(n))
           \/ NothingToDo \/ DnsDone \/ DnsRefused \/ UpdateStatus \/ StopK3s \/ K3sRunsAlready
           \/ StartRefused \/ reconcileServerToken \/ StopOther \/ NodeControllerStopped
           \/ ReconcileFails
    PROVE  UNCHANGED loop
<1>1. CASE \/ Change \/ regenerateClusterJoinToken \/ Deliver \/ CooldownOver
           \/ WriteTokenFile \/ K3sExits \/ DnsExits
  BY <1>1 DEF Change, regenerateClusterJoinToken, Changed, Deliver, CooldownOver,
              WriteTokenFile, K3sExits, DnsExits, cmVars
<1>2. CASE \E n \in Proc : ReportStep(n) \/ ReportLost(n) \/ Launched(n)
  BY <1>2 DEF ReportStep, ReportRunning, ReportEnd, ReportLost, Report, Launched, StartK3s,
              K3sFrame, cmVars
<1>3. CASE NothingToDo \/ DnsDone \/ DnsRefused \/ UpdateStatus \/ StopK3s \/ K3sRunsAlready
  BY <1>3 DEF NothingToDo, DnsDone, DnsRefused, BeginReconcile, UpdateStatus, StatusFrame,
              StopK3s, K3sRunsAlready, StartK3s, K3sFrame, cmVars
<1>4. CASE StartRefused \/ reconcileServerToken \/ StopOther \/ NodeControllerStopped
  BY <1>4 DEF StartRefused, StartK3s, K3sFrame, reconcileServerToken, TokenFrame, StopOther,
              CancelManager, NodeControllerStopped, cmVars
<1>5. CASE ReconcileFails
  BY <1>5 DEF ReconcileFails, DnsFails, BeginReconcile, StatusFails, StatusFrame, StartPanics,
              StartK3s, K3sFrame, TokenFails, TokenFrame, cmVars
<1> QED
  BY <1>1, <1>2, <1>3, <1>4, <1>5

\* For any changes and faults at most one of the two ControllerManagers, which
\* share the NodeReconciler, has a goroutine.
THEOREM ManagersApart == Spec => []ManagersExclude
<1>1. Init => LoopInv
  BY DeviceAssumption DEF Init, CMInit, LoopInv, ManagersExclude, LoopState
<1>2. LoopInv /\ [Next]_vars => LoopInv'
  <2> SUFFICES ASSUME LoopInv, [Next]_vars PROVE LoopInv'
    OBVIOUS
  <2>1. LoopChange
    <3>1. CASE Switch
      BY <3>1, SwitchChange
    <3>2. ASSUME NEW m \in Manager, ManagerStep(m) \/ ManagerFails(m) PROVE LoopChange
      BY <3>2, ManagerChange
    <3>3. CASE UNCHANGED vars
      BY <3>3 DEF vars, cmVars, LoopChange
    <3> QED
      BY <3>1, <3>2, <3>3, OthersLeaveLoops DEF Next, ReconcileStep, LoopChange
  <2> QED
    BY <2>1, ChangeExcludes
<1>3. LoopInv => ManagersExclude
  BY DEF LoopInv
<1> QED
  BY <1>1, <1>2, <1>3, PTL DEF Spec

-----------------------------------------------------------------------------
(* Type correctness *)

Request == [at : Step, d : Device, args : Args, msg : {"", "join"}]

\* The parts of TypeOK that belong together in the frames of the actions.
OuterTypes ==
    /\ dev \in Device /\ seen \in Device
    /\ token \in [data : Nat, join : Nat, peer : BOOLEAN]
    /\ net \in Net
    /\ event \in BOOLEAN /\ queued \in BOOLEAN
    /\ dns \in Net \cup {"cooling"}
    /\ ingress \in BOOLEAN
    /\ missed \subseteq {"k3s", "dnsmasq", "report"}

K3sTypes ==
    /\ cur \in 0..Slots /\ cmd \in Args /\ cooling \in BOOLEAN
    /\ gor \in [Proc -> {"none", "report", "wait"}]
    /\ tokenFile \in Nat

BoundTypes == changes \in 0..MaxChanges /\ faults \in 0..MaxFaults

Parts == CMTypeOK /\ OuterTypes /\ K3sTypes /\ rec \in Request /\ BoundTypes

\* TypeOK is the conjunction of these parts, before and after a step.
LEMMA TypeParts == (TypeOK <=> Parts) /\ (TypeOK' <=> Parts')
  BY DEF TypeOK, Parts, OuterTypes, K3sTypes, Request, BoundTypes

\* The bounds are numbers.
LEMMA Bounds == Slots \in Nat \ {0} /\ MaxChanges \in Nat /\ MaxFaults \in Nat
  BY DeviceAssumption

\* The values the variables begin with.
LEMMA Values == NewDevice \in Device /\ NoArgs \in Args /\ Idle \in Request
<1>1. NewDevice \in Device /\ NoArgs \in Args
  BY DEF NewDevice, Device, Mode, NoArgs, Args, Net
<1>2. QED
  BY <1>1 DEF Idle, Request, Step

\* Changed records are records of their types.
LEMMA RecordTypes ==
    /\ \A x \in Device, m \in Mode : [x EXCEPT !.mode = m] \in Device
    /\ \A x \in Device, s \in {"unknown", "running", "ended", "terminating"} :
           [x EXCEPT !.state = s] \in Device
    /\ \A x \in Device, t \in {"unset", "", "join", "k3s"} : [x EXCEPT !.msg = t] \in Device
    /\ \A r \in Request, l \in Step : [r EXCEPT !.at = l] \in Request
  BY DEF Device, Request

\* The arguments of k3s follow from the Device, the network and the tokens.
LEMMA ArgsType ==
    ASSUME OuterTypes, NEW x \in Device
    PROVE  buildK3sArgs(x) \in Args
<1>1. net \in Net /\ token.data \in Nat
  BY DEF OuterTypes
<1>2. [mode |-> "server", net |-> net, token |-> token.data] \in Args
  BY <1>1 DEF Args
<1>3. [mode |-> "agent", net |-> net, token |-> 0] \in Args
  BY <1>1 DEF Args
<1>4. QED
  BY <1>2, <1>3, Values DEF buildK3sArgs

\* The managers keep their types, whichever of their operations runs.
LEMMA ManagerTypes ==
    ASSUME CMTypeOK, NEW m \in Manager,
           \/ StartManager(m) \/ CancelManager(m) \/ LoopStep(m) \/ RunFails(m)
    PROVE  CMTypeOK'
<1>1. CASE StartManager(m) \/ CancelManager(m)
  BY <1>1 DEF StartManager, CancelManager, CMTypeOK, LoopState
<1>2. CASE LoopEnds(m) \/ RunEnds(m) \/ RunFails(m)
  BY <1>2 DEF LoopEnds, RunEnds, RunFails, GotoLoop, CMTypeOK, LoopState
<1>3. CASE SetupAndRun(m)
  <2>1. GotoLoop(m, "run") \/ GotoLoop(m, "check")
    BY <1>3 DEF SetupAndRun
  <2>2. names' \subseteq names \cup NameOf(m)
    BY <1>3 DEF SetupAndRun, NameOf
  <2>3. QED
    BY <2>1, <2>2 DEF GotoLoop, CMTypeOK, LoopState
<1>4. QED
  BY <1>1, <1>2, <1>3 DEF LoopStep

\* The bounded counters stay within their bounds.
LEMMA BoundsKept ==
    ASSUME BoundTypes,
           UNCHANGED faults \/ Fault,
           UNCHANGED changes \/ Changed
    PROVE  BoundTypes'
  BY Bounds DEF BoundTypes, Fault, Changed

\* A k3s that is gone leaves the Runner without a process.
LEMMA GoneTypes ==
    ASSUME K3sTypes, K3sGone, UNCHANGED gor
    PROVE  K3sTypes'
<1>1. 0 \in 0..Slots
  BY Bounds
<1>2. QED
  BY <1>1, Values DEF K3sTypes, K3sGone

\* Initially all variables have their types.
LEMMA TypeInit == Init => TypeOK
<1> SUFFICES ASSUME Init PROVE TypeOK
  OBVIOUS
<1>1. CMTypeOK
  BY DEF Init, CMInit, CMTypeOK, LoopState
<1>2. OuterTypes
  BY Values DEF Init, OuterTypes, Net
<1>3. K3sTypes /\ BoundTypes
  <2>1. 0 \in 0..Slots /\ 0 \in 0..MaxChanges /\ 0 \in 0..MaxFaults
    BY Bounds
  <2>2. cooling \in BOOLEAN /\ cur \in 0..Slots /\ BoundTypes
    BY <2>1 DEF Init, BoundTypes
  <2>3. cmd \in Args /\ tokenFile \in Nat /\ gor \in [Proc -> {"none", "report", "wait"}]
    BY Values DEF Init
  <2>4. QED
    BY <2>2, <2>3 DEF K3sTypes
<1>4. QED
  BY <1>1, <1>2, <1>3, Values, TypeParts DEF Init, Parts

\* Changes, exits and reports keep the types.
LEMMA EnvironmentTypes ==
    ASSUME TypeOK,
           \/ Change \/ regenerateClusterJoinToken \/ Deliver \/ CooldownOver \/ WriteTokenFile
           \/ K3sExits \/ DnsExits \/ \E n \in Proc : ReportStep(n) \/ ReportLost(n)
    PROVE  TypeOK'
<1>0. CMTypeOK /\ OuterTypes /\ K3sTypes /\ rec \in Request /\ BoundTypes
  BY TypeParts DEF Parts
<1> USE DEF cmVars, k3sVars
<1>1. /\ UNCHANGED <<cancel, ctx, loop, names, rec>>
      /\ UNCHANGED faults \/ Fault
      /\ UNCHANGED changes \/ Changed
  BY DEF Change, regenerateClusterJoinToken, Changed, Deliver, CooldownOver, WriteTokenFile,
         K3sExits, DnsExits, ReportStep, ReportRunning, ReportEnd, ReportLost, Report
<1>2. CMTypeOK' /\ (rec \in Request)' /\ BoundTypes'
  BY <1>0, <1>1, BoundsKept DEF CMTypeOK
<1>3. CASE Change
  <2>1. dev' \in Device /\ net' \in Net /\ token' \in [data : Nat, join : Nat, peer : BOOLEAN]
    <3>1. dev \in Device /\ net \in Net /\ token \in [data : Nat, join : Nat, peer : BOOLEAN]
      BY <1>0 DEF OuterTypes
    <3>2. [token EXCEPT !.peer = ~@] \in [data : Nat, join : Nat, peer : BOOLEAN]
      BY <3>1
    <3>3. /\ \/ \E m \in Mode : dev' = [dev EXCEPT !.mode = m]
             \/ \E s \in {"unknown", "terminating"} : dev' = [dev EXCEPT !.state = s]
             \/ dev' = dev
          /\ net' \in Net \/ net' = net
          /\ token' = token \/ token' = [token EXCEPT !.peer = ~@]
      BY <1>3 DEF Change
    <3>4. dev' \in Device
      <4>1. /\ \A m \in Mode : [dev EXCEPT !.mode = m] \in Device
            /\ \A s \in {"unknown", "terminating"} : [dev EXCEPT !.state = s] \in Device
        BY <3>1, RecordTypes
      <4>2. QED
        BY <3>1, <3>3, <4>1
    <3>5. QED
      BY <3>1, <3>2, <3>3, <3>4
  <2>2. QED
    BY <1>0, <1>2, <1>3, <2>1, TypeParts DEF Parts, Change, Changed, OuterTypes, K3sTypes
<1>4. CASE regenerateClusterJoinToken
  <2>1. token' \in [data : Nat, join : Nat, peer : BOOLEAN]
    <3>1. token \in [data : Nat, join : Nat, peer : BOOLEAN]
      BY <1>0 DEF OuterTypes
    <3>2. token' = [token EXCEPT !.data = @ + 1, !.join = 0]
      BY <1>4 DEF regenerateClusterJoinToken
    <3>3. token.data + 1 \in Nat
      BY <3>1
    <3>4. \A i \in Nat : [token EXCEPT !.data = i, !.join = 0]
                              \in [data : Nat, join : Nat, peer : BOOLEAN]
      BY <3>1
    <3>5. QED
      BY <3>2, <3>3, <3>4
  <2>2. QED
    BY <1>0, <1>2, <1>4, <2>1, TypeParts
    DEF Parts, regenerateClusterJoinToken, Changed, OuterTypes, K3sTypes
<1>5. CASE Deliver \/ CooldownOver
  BY <1>0, <1>2, <1>5, TypeParts DEF Parts, Deliver, CooldownOver, OuterTypes, K3sTypes, Net
<1>6. CASE WriteTokenFile \/ K3sExits
  <2>1. K3sTypes'
    <3>1. CASE WriteTokenFile
      <4>1. tokenFile' \in Nat
        BY <1>0, <3>1 DEF WriteTokenFile, K3sTypes, Args
      <4>2. QED
        BY <1>0, <3>1, <4>1 DEF WriteTokenFile, K3sTypes
    <3>2. CASE K3sExits
      BY <1>0, <3>2, GoneTypes DEF K3sExits
    <3>3. QED
      BY <1>6, <3>1, <3>2
  <2>2. QED
    BY <1>0, <1>2, <1>6, <2>1, TypeParts DEF Parts, WriteTokenFile, K3sExits, OuterTypes
<1>7. CASE DnsExits
  BY <1>0, <1>2, <1>7, TypeParts DEF Parts, DnsExits, OuterTypes, K3sTypes
<1>8. ASSUME NEW n \in Proc, ReportStep(n) PROVE TypeOK'
  <2>1. PICK s \in {"running", "ended"}, t \in {"", "k3s"} : Report(s, t)
    BY <1>8 DEF ReportStep, ReportRunning, ReportEnd
  <2>2. gor' \in [Proc -> {"none", "report", "wait"}]
    BY <1>0, <1>8 DEF ReportStep, ReportRunning, ReportEnd, Ended, K3sTypes
  <2>3. dev' \in Device
    BY <1>0, <2>1 DEF Report, OuterTypes, Device
  <2>4. QED
    BY <1>0, <1>2, <2>1, <2>2, <2>3, TypeParts DEF Parts, Report, OuterTypes, K3sTypes
<1>9. ASSUME NEW n \in Proc, ReportLost(n) PROVE TypeOK'
  <2>1. gor' \in [Proc -> {"none", "report", "wait"}]
    BY <1>0, <1>9 DEF ReportLost, Ended, K3sTypes
  <2>2. QED
    BY <1>0, <1>2, <1>9, <2>1, TypeParts DEF Parts, ReportLost, OuterTypes, K3sTypes
<1>10. QED
  BY <1>3, <1>4, <1>5, <1>6, <1>7, <1>8, <1>9

\* Reconcile goes on or returns with its variables in their types.
LEMMA ProgressTypes ==
    ASSUME rec \in Request, queued \in BOOLEAN,
           \/ \E l \in Step : Goto(l)
           \/ \E again \in BOOLEAN : Return(again)
    PROVE  rec' \in Request /\ queued' \in BOOLEAN
<1>1. CASE \E l \in Step : Goto(l)
  BY <1>1, RecordTypes DEF Goto
<1>2. CASE \E again \in BOOLEAN : Return(again)
  BY <1>2, Values DEF Return
<1>3. QED
  BY <1>1, <1>2

\* The steps of Reconcile up to the writing of the status keep the types.
LEMMA BeginTypes ==
    ASSUME TypeOK, \/ NothingToDo \/ DnsDone \/ DnsRefused \/ DnsFails
    PROVE  TypeOK'
<1>0. CMTypeOK /\ OuterTypes /\ K3sTypes /\ rec \in Request /\ BoundTypes
  BY TypeParts DEF Parts
<1> USE DEF cmVars, k3sVars
<1>1. /\ UNCHANGED <<cancel, ctx, loop, names, dev, token, net, seen, cur, cmd, cooling, gor,
                     tokenFile, ingress, changes>>
      /\ UNCHANGED faults \/ Fault
  BY DEF NothingToDo, DnsDone, DnsRefused, DnsFails, BeginReconcile
<1>2. CMTypeOK' /\ K3sTypes' /\ BoundTypes'
  BY <1>0, <1>1, BoundsKept DEF CMTypeOK, K3sTypes
<1>3. /\ event' \in BOOLEAN /\ queued' \in BOOLEAN
      /\ missed' \subseteq {"k3s", "dnsmasq", "report"}
  BY <1>0 DEF NothingToDo, DnsDone, DnsRefused, DnsFails, OuterTypes
<1>4. dns' \in Net \cup {"cooling"}
  <2>1. wantedDns(seen) \in Net
    BY <1>0 DEF OuterTypes, wantedDns, Net
  <2>2. dns \in Net \cup {"cooling"}
    BY <1>0 DEF OuterTypes
  <2>3. QED
    BY <2>1, <2>2 DEF NothingToDo, DnsDone, DnsRefused, DnsFails
<1>5. rec' \in Request
  <2>1. CASE DnsDone
    <3>1. rec' = [at |-> "status", d |-> seen, args |-> buildK3sArgs(seen),
                  msg |-> IF seen.mode = "nojoin" THEN "join" ELSE ""]
      BY <2>1 DEF DnsDone
    <3>2. seen \in Device
      BY <1>0 DEF OuterTypes
    <3>3. buildK3sArgs(seen) \in Args
      BY <1>0, <3>2, ArgsType
    <3>4. QED
      BY <3>1, <3>2, <3>3 DEF Request, Step
  <2>2. CASE ~DnsDone
    BY <1>0, <2>2, Values DEF NothingToDo, DnsRefused, DnsFails
  <2>3. QED
    BY <2>1, <2>2
<1>6. OuterTypes'
  BY <1>0, <1>1, <1>3, <1>4 DEF OuterTypes
<1>7. QED
  BY <1>2, <1>5, <1>6, TypeParts DEF Parts

\* The writing of the status keeps the types.
LEMMA StatusTypes ==
    ASSUME TypeOK, UpdateStatus \/ StatusFails
    PROVE  TypeOK'
<1>0. CMTypeOK /\ OuterTypes /\ K3sTypes /\ rec \in Request /\ BoundTypes
  BY TypeParts DEF Parts
<1> USE DEF cmVars, k3sVars
<1>1. /\ UNCHANGED <<cancel, ctx, loop, names, token, net, seen, cur, cmd, cooling, gor,
                     tokenFile, dns, ingress, missed, changes>>
      /\ UNCHANGED faults \/ Fault
  BY DEF UpdateStatus, StatusFails, StatusFrame
<1>2. CMTypeOK' /\ K3sTypes' /\ BoundTypes'
  BY <1>0, <1>1, BoundsKept DEF CMTypeOK, K3sTypes
<1>3. dev' \in Device
  <2>1. dev \in Device /\ rec.msg \in {"", "join"}
    BY <1>0 DEF OuterTypes, Request
  <2>2. [dev EXCEPT !.msg = rec.msg] \in Device
    BY <2>1, RecordTypes
  <2>3. QED
    BY <2>1, <2>2 DEF UpdateStatus, StatusFails, WriteStatus
<1>4. event' \in BOOLEAN
  BY <1>0 DEF UpdateStatus, StatusFails, WriteStatus, OuterTypes
<1>5. queued' \in BOOLEAN
  BY <1>0 DEF UpdateStatus, StatusFails, Return, OuterTypes
<1>6. rec' \in Request
  <2>1. CASE rec' = Idle
    BY <2>1, Values
  <2>2. CASE rec' = [rec EXCEPT !.at = "k3s", !.d = IF @.msg = rec.msg THEN @ ELSE dev']
    <3>1. rec.d \in Device
      BY <1>0 DEF Request
    <3>2. \A x \in Device : [rec EXCEPT !.at = "k3s", !.d = x] \in Request
      BY <1>0 DEF Request, Step
    <3>3. QED
      BY <1>3, <2>2, <3>1, <3>2
  <2>3. QED
    BY <2>1, <2>2 DEF UpdateStatus, StatusFails, Return
<1>7. OuterTypes'
  BY <1>0, <1>1, <1>3, <1>4, <1>5 DEF OuterTypes
<1>8. QED
  BY <1>2, <1>6, <1>7, TypeParts DEF Parts

\* Starting and stopping k3s keeps the types.
LEMMA K3sStepTypes ==
    ASSUME TypeOK, \/ StopK3s \/ K3sRunsAlready \/ StartRefused \/ StartPanics
                   \/ \E n \in Proc : Launched(n)
    PROVE  TypeOK'
<1>0. CMTypeOK /\ OuterTypes /\ K3sTypes /\ rec \in Request /\ BoundTypes
  BY TypeParts DEF Parts
<1> USE DEF cmVars, k3sVars
<1>1. /\ UNCHANGED <<cancel, ctx, loop, names, dev, token, net, seen, event, dns, ingress,
                     changes>>
      /\ UNCHANGED faults \/ Fault
  BY DEF StopK3s, K3sRunsAlready, StartRefused, StartPanics, Launched, StartK3s, K3sFrame
<1>2. CMTypeOK' /\ BoundTypes'
  BY <1>0, <1>1, BoundsKept DEF CMTypeOK
<1>3. rec' \in Request /\ queued' \in BOOLEAN
  <2>1. AfterStart \in Step /\ "stop" \in Step
    BY DEF AfterStart, Step
  <2>2. (\E l \in Step : Goto(l)) \/ \E again \in BOOLEAN : Return(again)
    BY <2>1 DEF StopK3s, K3sRunsAlready, StartRefused, StartPanics, Launched
  <2>3. QED
    BY <1>0, <2>2, ProgressTypes DEF OuterTypes
<1>4. missed' \subseteq {"k3s", "dnsmasq", "report"}
  BY <1>0 DEF StopK3s, K3sRunsAlready, StartRefused, StartPanics, Launched, OuterTypes
<1>5. OuterTypes'
  BY <1>0, <1>1, <1>3, <1>4 DEF OuterTypes
<1>6. K3sTypes'
  <2>1. CASE K3sGone /\ UNCHANGED gor
    BY <1>0, <2>1, GoneTypes
  <2>2. CASE UNCHANGED <<cur, cmd, cooling, gor, tokenFile>>
    BY <1>0, <2>2 DEF K3sTypes
  <2>3. ASSUME NEW n \in Proc, Launched(n) PROVE K3sTypes'
    <3>1. n \in 0..Slots /\ rec.args \in Args
      <4>1. n \in 0..Slots
        BY Bounds DEF Proc
      <4>2. rec.args \in Args
        BY <1>0 DEF Request
      <4>3. QED
        BY <4>1, <4>2
    <3>2. gor' \in [Proc -> {"none", "report", "wait"}]
      BY <1>0, <2>3 DEF Launched, K3sTypes
    <3>3. cur' = n /\ cmd' = rec.args /\ UNCHANGED <<cooling, tokenFile>>
      BY <2>3 DEF Launched
    <3>4. QED
      BY <1>0, <3>1, <3>2, <3>3 DEF K3sTypes
  <2>4. QED
    BY <2>1, <2>2, <2>3 DEF StopK3s, K3sRunsAlready, StartRefused, StartPanics
<1>7. QED
  BY <1>2, <1>3, <1>5, <1>6, TypeParts DEF Parts

\* The join token and the switching of the managers keep the types.
LEMMA SwitchTypes ==
    ASSUME TypeOK, \/ reconcileServerToken \/ TokenFails \/ StopOther \/ Switch
                   \/ NodeControllerStopped
                   \/ \E m \in Manager : ManagerStep(m) \/ ManagerFails(m)
    PROVE  TypeOK'
<1>0. CMTypeOK /\ OuterTypes /\ K3sTypes /\ rec \in Request /\ BoundTypes
  BY TypeParts DEF Parts
<1> USE DEF cmVars, k3sVars
<1>1. /\ UNCHANGED <<dev, net, seen, cur, cmd, cooling, gor, tokenFile, dns, missed, changes>>
      /\ UNCHANGED faults \/ Fault
  BY DEF reconcileServerToken, TokenFails, TokenFrame, StopOther, Switch, SwitchFrame,
         NodeControllerStopped, ManagerStep, ManagerFails, ManagerFrame
<1>2. K3sTypes' /\ BoundTypes'
  BY <1>0, <1>1, BoundsKept DEF K3sTypes
<1>3. rec' \in Request /\ queued' \in BOOLEAN
  <2>1. /\ "stop" \in Step /\ "switch" \in Step /\ "stopNode" \in Step
        /\ TRUE \in BOOLEAN /\ FALSE \in BOOLEAN
    BY DEF Step
  <2>2. \/ \E l \in Step : Goto(l)
        \/ \E again \in BOOLEAN : Return(again)
        \/ UNCHANGED <<rec, queued>>
    BY <2>1 DEF reconcileServerToken, TokenFails, StopOther, Switch, NodeControllerStopped,
                ManagerStep, ManagerFails, ManagerFrame
  <2>3. QED
    BY <1>0, <2>2, ProgressTypes DEF OuterTypes
<1>4. token' \in [data : Nat, join : Nat, peer : BOOLEAN] /\ event' \in BOOLEAN
  <2>1. token \in [data : Nat, join : Nat, peer : BOOLEAN] /\ event \in BOOLEAN /\ tokenFile \in Nat
    BY <1>0 DEF OuterTypes, K3sTypes
  <2>2. [token EXCEPT !.join = tokenFile] \in [data : Nat, join : Nat, peer : BOOLEAN]
    BY <2>1
  <2>3. \/ UNCHANGED <<token, event>>
        \/ token' = [token EXCEPT !.join = tokenFile] /\ event' = TRUE
    BY DEF reconcileServerToken, TokenFails, StopOther, Switch, NodeControllerStopped,
           SwitchFrame, ManagerStep, ManagerFails, ManagerFrame
  <2>4. QED
    BY <2>1, <2>2, <2>3
<1>5. ingress' \in BOOLEAN
  BY <1>0 DEF reconcileServerToken, TokenFails, TokenFrame, StopOther, Switch,
     NodeControllerStopped, ManagerStep, ManagerFails, ManagerFrame, OuterTypes, Serves
<1>6. CMTypeOK'
  <2>1. "controllers" \in Manager /\ "nodeController" \in Manager /\ otherManager \in Manager
    BY DeviceAssumption DEF otherManager
  <2>2. \/ UNCHANGED <<cancel, ctx, loop, names>>
        \/ \E m \in Manager : StartManager(m) \/ CancelManager(m) \/ LoopStep(m) \/ RunFails(m)
    BY <2>1 DEF reconcileServerToken, TokenFails, TokenFrame, StopOther, Switch,
                NodeControllerStopped, ManagerStep, ManagerFails
  <2>3. QED
    BY <1>0, <2>2, ManagerTypes DEF CMTypeOK
<1>7. OuterTypes'
  BY <1>0, <1>1, <1>3, <1>4, <1>5 DEF OuterTypes
<1>8. QED
  BY <1>2, <1>3, <1>6, <1>7, TypeParts DEF Parts

(***************************************************************************)
(* The variables of the DeviceReconciler, of the Runners it drives and of  *)
(* the managers always have their types: whatever is reported, written or  *)
(* refreshed in between, Reconcile works on a Device of a known shape.     *)
(***************************************************************************)
THEOREM TypeCorrect == Spec => []TypeOK
<1>1. Init => TypeOK
  BY TypeInit
<1>2. TypeOK /\ [Next]_vars => TypeOK'
  <2>1. CASE UNCHANGED vars
    BY <2>1 DEF vars, cmVars, k3sVars, TypeOK, CMTypeOK
  <2>2. QED
    BY <2>1, EnvironmentTypes, BeginTypes, StatusTypes, K3sStepTypes, SwitchTypes
    DEF Next, ReconcileStep, ReconcileFails
<1>3. QED
  BY <1>1, <1>2, PTL DEF Spec

-----------------------------------------------------------------------------
(* Start and Stop of the managers *)

\* Reconcile is in Stop of manager m, waiting for its goroutine.
Stopping(m) ==
    \/ rec.at = "switch" /\ m = otherManager
    \/ rec.at = "stopNode" /\ m = "nodeController"

(***************************************************************************)
(* A manager that is started has a goroutine and a live context; one that  *)
(* is not has none, unless Reconcile is waiting for it to end.             *)
(***************************************************************************)
StartedRuns ==
    \A m \in Manager :
        /\ ctx[m] = cancel[m]
        /\ cancel[m] => loop[m] # "none"
        /\ ~cancel[m] => loop[m] = "none" \/ Stopping(m)

\* Steps that do nothing to the managers; only from the steps in which it
\* waits for a manager that has ended does Reconcile go on.
LEMMA ManagersLeftAlone ==
    ASSUME \/ Change \/ regenerateClusterJoinToken \/ Deliver \/ CooldownOver \/ WriteTokenFile
           \/ K3sExits \/ DnsExits
           \/ (\E n \in Proc : ReportStep(n) \/ ReportLost(n) \/ Launched(n))
           \/ NothingToDo \/ DnsDone \/ DnsRefused \/ UpdateStatus \/ StopK3s \/ K3sRunsAlready
           \/ StartRefused \/ reconcileServerToken \/ NodeControllerStopped
           \/ ReconcileFails
    PROVE  /\ UNCHANGED <<cancel, ctx, loop>>
           /\ \/ UNCHANGED rec
              \/ rec.at \notin {"switch", "stopNode"}
              \/ rec.at = "stopNode" /\ loop["nodeController"] = "none"
<1>1. CASE \/ Change \/ regenerateClusterJoinToken \/ Deliver \/ CooldownOver
           \/ WriteTokenFile \/ K3sExits \/ DnsExits
  BY <1>1 DEF Change, regenerateClusterJoinToken, Changed, Deliver, CooldownOver,
              WriteTokenFile, K3sExits, DnsExits, cmVars
<1>2. CASE \E n \in Proc : ReportStep(n) \/ ReportLost(n) \/ Launched(n)
  BY <1>2 DEF ReportStep, ReportRunning, ReportEnd, ReportLost, Report, Launched, StartK3s,
              K3sFrame, cmVars
<1>3. CASE NothingToDo \/ DnsDone \/ DnsRefused \/ UpdateStatus \/ StopK3s \/ K3sRunsAlready
  BY <1>3 DEF NothingToDo, DnsDone, DnsRefused, BeginReconcile, UpdateStatus, StatusFrame,
              StopK3s, K3sRunsAlready, StartK3s, K3sFrame, cmVars
<1>4. CASE StartRefused \/ reconcileServerToken \/ NodeControllerStopped
  BY <1>4 DEF StartRefused, StartK3s, K3sFrame, reconcileServerToken, TokenFrame,
              NodeControllerStopped, ManagerEnded, cmVars
<1>5. CASE ReconcileFails
  BY <1>5 DEF ReconcileFails, DnsFails, BeginReconcile, StatusFails, StatusFrame, StartPanics,
              StartK3s, K3sFrame, TokenFails, TokenFrame, cmVars
<1> QED
  BY <1>1, <1>2, <1>3, <1>4, <1>5

\* Stop cancels the context and leaves the goroutine to end by itself.
LEMMA StopEffect ==
    ASSUME CMTypeOK, NEW k \in Manager, CancelManager(k)
    PROVE  /\ UNCHANGED loop /\ cancel'[k] = FALSE /\ ctx'[k] = FALSE
           /\ \A m \in Manager : m # k => cancel'[m] = cancel[m] /\ ctx'[m] = ctx[m]
  BY DEF CancelManager, CMTypeOK

\* Start does nothing to a manager that is started.
LEMMA StartEffect ==
    ASSUME CMTypeOK, NEW k \in Manager, StartManager(k), StartedRuns
    PROVE  /\ cancel'[k] /\ ctx'[k] = cancel'[k] /\ loop'[k] # "none"
           /\ \A m \in Manager : m # k => /\ cancel'[m] = cancel[m] /\ ctx'[m] = ctx[m]
                                          /\ loop'[m] = loop[m]
<1>1. CASE cancel[k]
  <2>1. UNCHANGED <<ctx, loop>> /\ cancel' = [cancel EXCEPT ![k] = TRUE]
    BY <1>1 DEF StartManager
  <2>2. ctx[k] = cancel[k] /\ loop[k] # "none"
    BY <1>1 DEF StartedRuns
  <2>3. cancel'[k] = TRUE /\ cancel[k] = TRUE /\ \A m \in Manager : m # k => cancel'[m] = cancel[m]
    BY <1>1, <2>1 DEF CMTypeOK
  <2>4. QED
    BY <2>1, <2>2, <2>3
<1>2. CASE ~cancel[k]
  BY <1>2 DEF StartManager, CMTypeOK
<1>3. QED
  BY <1>1, <1>2

(***************************************************************************)
(* Start and Stop keep count of the goroutines: a Start never runs a       *)
(* second goroutine beside one that Stop has cancelled and that has not    *)
(* ended, and none that ought to run is missing, in spite of the early     *)
(* returns and failures between the steps of Reconcile.                    *)
(***************************************************************************)
THEOREM OneGoroutinePerManager == Spec => []StartedRuns
<1>1. Init => StartedRuns
  BY DEF Init, CMInit, StartedRuns
<1>2. TypeOK /\ StartedRuns /\ [Next]_vars => StartedRuns'
  <2> SUFFICES ASSUME TypeOK, StartedRuns, [Next]_vars PROVE StartedRuns'
    OBVIOUS
  <2>0. CMTypeOK /\ rec \in Request
    BY TypeParts DEF Parts
  <2>1. ASSUME UNCHANGED <<cancel, ctx, loop>>,
               \/ UNCHANGED rec
               \/ rec.at \notin {"switch", "stopNode"}
               \/ rec.at = "stopNode" /\ loop["nodeController"] = "none"
        PROVE  StartedRuns'
    BY <2>1 DEF StartedRuns, Stopping, otherManager
  <2>2. ASSUME NEW k \in Manager, ManagerStep(k) \/ ManagerFails(k) PROVE StartedRuns'
    <3>1. /\ UNCHANGED <<cancel, ctx, rec>> /\ loop[k] # "none"
          /\ \/ loop' = [loop EXCEPT ![k] = "none"] /\ ~ctx[k]
             \/ loop' = [loop EXCEPT ![k] = "check"]
             \/ loop' = [loop EXCEPT ![k] = "run"]
      BY <2>2 DEF ManagerStep, ManagerFails, ManagerFrame, LoopStep, LoopEnds, SetupAndRun,
                  RunEnds, RunFails, GotoLoop
    <3>2. \A m \in Manager : m # k => loop'[m] = loop[m]
      BY <2>0, <3>1 DEF CMTypeOK
    <3>3. loop'[k] = "none" => ~ctx[k]
      <4>1. loop \in [Manager -> LoopState]
        BY <2>0 DEF CMTypeOK
      <4>2. CASE loop' = [loop EXCEPT ![k] = "none"] /\ ~ctx[k]
        BY <4>1, <4>2
      <4>3. CASE loop' = [loop EXCEPT ![k] = "check"] \/ loop' = [loop EXCEPT ![k] = "run"]
        <5>1. loop'[k] = "check" \/ loop'[k] = "run"
          BY <4>1, <4>3
        <5>2. QED
          BY <5>1
      <4>4. QED
        BY <3>1, <4>2, <4>3
    <3>4. \A m \in Manager : Stopping(m)' <=> Stopping(m)
      BY <3>1 DEF Stopping, otherManager
    <3>5. QED
      BY <3>1, <3>2, <3>3, <3>4 DEF StartedRuns
  <2>3. CASE StopOther
    <3>1. PICK k \in Manager : k = otherManager /\ CancelManager(k)
      BY <2>3, DeviceAssumption DEF StopOther, otherManager
    <3>2. rec.at = "stop" /\ rec'.at = "switch" /\ rec'.d = rec.d
      BY <2>0, <2>3 DEF StopOther, Goto, Request
    <3>3. Stopping(k)' /\ \A m \in Manager : ~Stopping(m)
      BY <3>1, <3>2 DEF Stopping, otherManager
    <3>4. ASSUME NEW m \in Manager
          PROVE  /\ ctx'[m] = cancel'[m] /\ (cancel'[m] => loop'[m] # "none")
                 /\ (~cancel'[m] => loop'[m] = "none" \/ m = k)
      <4>1. CASE m = k
        BY <2>0, <3>1, <4>1, StopEffect
      <4>2. CASE m # k
        BY <2>0, <3>1, <3>3, <4>2, StopEffect DEF StartedRuns
      <4>3. QED
        BY <4>1, <4>2
    <3>5. QED
      BY <3>3, <3>4 DEF StartedRuns
  <2>4. CASE Switch
    <3>1. rec.at = "switch" /\ loop[otherManager] = "none" /\ otherManager \in Manager
      BY <2>4, DeviceAssumption DEF Switch, ManagerEnded, otherManager
    <3>2. \A m \in Manager : /\ ctx[m] = cancel[m] /\ (cancel[m] => loop[m] # "none")
                             /\ (~cancel[m] => loop[m] = "none")
      BY <3>1 DEF StartedRuns, Stopping
    <3>3. ASSUME NEW k \in Manager, StartManager(k) PROVE StartedRuns'
      BY <2>0, <3>2, <3>3, StartEffect DEF StartedRuns
    <3>4. CASE CancelManager("nodeController") /\ Goto("stopNode")
      <4>1. "nodeController" \in Manager /\ rec' = [rec EXCEPT !.at = "stopNode"]
        BY <3>4, DeviceAssumption DEF Goto
      <4>2. rec'.at = "stopNode"
        BY <2>0, <4>1 DEF Request
      <4>3. Stopping("nodeController")'
        BY <4>2 DEF Stopping
      <4>4. QED
        <5>1. ASSUME NEW m \in Manager
              PROVE  /\ ctx'[m] = cancel'[m] /\ (cancel'[m] => loop'[m] # "none")
                     /\ (~cancel'[m] => loop'[m] = "none" \/ m = "nodeController")
          <6>1. CASE m = "nodeController"
            BY <2>0, <3>4, <4>1, <6>1, StopEffect
          <6>2. CASE m # "nodeController"
            BY <2>0, <3>2, <3>4, <4>1, <6>2, StopEffect
          <6>3. QED
            BY <6>1, <6>2
        <5>2. QED
          BY <4>3, <5>1 DEF StartedRuns
    <3>5. "controllers" \in Manager /\ "nodeController" \in Manager
      BY DeviceAssumption
    <3>6. \/ StartManager("controllers") \/ StartManager("nodeController")
          \/ CancelManager("nodeController") /\ Goto("stopNode")
      BY <2>4 DEF Switch
    <3>7. QED
      BY <3>3, <3>4, <3>5, <3>6
  <2>5. CASE UNCHANGED vars
    BY <2>1, <2>5 DEF vars, cmVars
  <2>6. QED
    BY <2>1, <2>2, <2>3, <2>4, <2>5, ManagersLeftAlone DEF Next, ReconcileStep
<1>3. QED
  BY <1>1, <1>2, TypeCorrect, PTL DEF Spec

-----------------------------------------------------------------------------
(* Reconcile rests only when its work is done *)

\* There is neither an event to come nor a request.
Quiet == ~event /\ ~queued

\* The Device asks for a k3s, and can be served.
Wanted == net # "none" /\ dev.mode # "unsupported" /\ buildK3sArgs(dev) # NoArgs

\* Without an event to come the cache is up to date, and Reconcile works on
\* the present Device unless there is another request.
CachedInv ==
    /\ ~event => seen = dev
    /\ Quiet /\ rec.at # "idle" => rec.d = dev /\ rec.args = buildK3sArgs(dev)

\* Reconcile goes on only with arguments for k3s, and waits only for a manager
\* that it has cancelled.
StepInv ==
    /\ rec.at \notin {"idle", "status"} => rec.args # NoArgs
    /\ rec.at = "switch" => ~cancel[otherManager]

\* A process has its goroutine, and its end is shown or will be.
ProcInv ==
    /\ cur # 0 => gor[cur] # "none"
    /\ cmd = NoArgs <=> cur = 0
    /\ dev.state = "running" => cur # 0 \/ Pending \/ "report" \in missed

\* What the steps of Reconcile have achieved, if no request is left.
DnsFollows ==
    \/ "dnsmasq" \in missed \/ dns = wantedDns(dev)
    \/ wantedDns(dev) = "none" /\ dns = "cooling"

K3sFollows ==
    \/ "k3s" \in missed \/ Pending
    \/ cmd = IF Terminating(dev) THEN NoArgs ELSE buildK3sArgs(dev)

Switched ==
    /\ ingress <=> Serves(dev)
    /\ cancel["controllers"] <=> Serves(dev)
    /\ cancel["nodeController"] <=> dev.mode = "agent" /\ ~Terminating(dev)

DoneInv ==
    Quiet /\ Wanted =>
        /\ DnsFollows
        /\ rec.at \notin {"status", "k3s"} => K3sFollows
        /\ rec.at \notin {"status", "k3s", "token"} /\ Serves(dev) => token.join # 0
        /\ rec.at \in {"idle", "stopNode"} => Switched

WakeInv == CachedInv /\ StepInv /\ ProcInv /\ DoneInv

\* What Reconcile is to achieve follows from the Device, the network, tokens.
LEMMA SameWish ==
    ASSUME UNCHANGED <<dev, token, net>>
    PROVE  /\ Wanted' <=> Wanted
           /\ buildK3sArgs(dev)' = buildK3sArgs(dev) /\ wantedDns(dev)' = wantedDns(dev)
           /\ Serves(dev)' <=> Serves(dev)
           /\ Terminating(dev)' <=> Terminating(dev)
  BY DEF Wanted, buildK3sArgs, wantedDns, Serves, Terminating

\* A step after which Reconcile will be called again.
LEMMA Loud ==
    ASSUME StepInv', ProcInv', event' \/ (queued' /\ seen' = dev')
    PROVE  WakeInv'
  BY DEF WakeInv, CachedInv, DoneInv, Quiet

\* The invariant on the processes, when they are left alone.
LEMMA ProcKept ==
    ASSUME ProcInv, UNCHANGED <<cur, cmd, gor>>,
           dev'.state = "running" => dev.state = "running",
           "report" \in missed => "report" \in missed'
    PROVE  ProcInv'
  BY DEF ProcInv, Pending

\* The process that runs is one.
LEMMA Procs ==
    ASSUME TypeOK
    PROVE  /\ cur # 0 => cur \in Proc
           /\ 0 \notin Proc
           /\ gor \in [Proc -> {"none", "report", "wait"}]
<1>1. cur \in 0..Slots /\ gor \in [Proc -> {"none", "report", "wait"}]
  BY DEF TypeOK
<1> QED
  BY <1>1, Bounds DEF Proc

\* A process that is gone has its end still to report.
LEMMA ProcGone ==
    ASSUME TypeOK, ProcInv, K3sGone, UNCHANGED <<gor, dev>>,
           "report" \in missed => "report" \in missed'
    PROVE  ProcInv' /\ (cur # 0 \/ Pending => Pending')
<1>1. cur' = 0 /\ cmd' = NoArgs
  BY DEF K3sGone
<1>2. cur # 0 \/ Pending => Pending'
  <2>1. CASE cur # 0
    <3>1. cur \in Proc /\ gor[cur] \in {"report", "wait"} /\ cur # cur'
      BY <1>1, <2>1, Procs DEF ProcInv
    <3> QED
      BY <3>1 DEF Pending
  <2>2. CASE cur = 0
    BY <1>1, <2>2 DEF Pending
  <2> QED
    BY <2>1, <2>2
<1> QED
  BY <1>1, <1>2 DEF ProcInv

\* Users, links, the watches and the Reporters wake Reconcile up.
LEMMA LoudWakes ==
    ASSUME TypeOK, WakeInv,
           \/ Change \/ regenerateClusterJoinToken \/ Deliver \/ \E n \in Proc : ReportStep(n)
    PROVE  WakeInv'
<1> USE DEF cmVars, k3sVars
<1>0. StepInv /\ ProcInv /\ dev \in Device /\ gor \in [Proc -> {"none", "report", "wait"}]
  BY DEF WakeInv, TypeOK
<1>1. event' \/ (queued' /\ seen' = dev')
  BY DEF Change, regenerateClusterJoinToken, Changed, Deliver, ReportStep, ReportRunning,
         ReportEnd, Report
<1>2. StepInv'
  <2>1. UNCHANGED <<rec, cancel>>
    BY DEF Change, regenerateClusterJoinToken, Changed, Deliver, ReportStep, ReportRunning,
           ReportEnd, Report
  <2> QED
    BY <1>0, <2>1 DEF StepInv, otherManager, Serves, Terminating
<1>3. CASE Change
  <2>1. dev'.state = "running" => dev.state = "running"
    <3>1. CASE dev' = dev
      BY <3>1
    <3>2. ASSUME NEW m \in Mode, dev' = [dev EXCEPT !.mode = m] PROVE dev'.state = dev.state
      BY <1>0, <3>2 DEF Device
    <3>3. ASSUME NEW s \in {"unknown", "terminating"}, dev' = [dev EXCEPT !.state = s]
          PROVE  dev'.state # "running"
      BY <1>0, <3>3 DEF Device
    <3> QED
      BY <1>3, <3>1, <3>2, <3>3 DEF Change
  <2> QED
    BY <1>0, <1>1, <1>2, <1>3, <2>1, ProcKept, Loud DEF Change, Changed
<1>4. CASE regenerateClusterJoinToken \/ Deliver
  <2>1. UNCHANGED <<dev, cur, cmd, gor, missed>>
    BY <1>4 DEF regenerateClusterJoinToken, Changed, Deliver
  <2> QED
    BY <1>0, <1>1, <1>2, <2>1, ProcKept, Loud
<1>5. ASSUME NEW n \in Proc, ReportRunning(n) PROVE WakeInv'
  <2>1. UNCHANGED <<cur, cmd>> /\ gor' = [gor EXCEPT ![n] = "wait"]
    BY <1>5 DEF ReportRunning, Report
  <2>2. gor'[n] = "wait" /\ \A k \in Proc : gor[k] # "none" => gor'[k] # "none"
    BY <1>0, <2>1
  <2>3. cur # 0 => gor'[cur] # "none"
    <3>1. cur # 0 => cur \in Proc
      BY Procs
    <3> QED
      BY <1>0, <2>2, <3>1 DEF ProcInv
  <2>4. cur # 0 \/ Pending'
    <3>1. n # 0
      BY DEF Proc
    <3> QED
      BY <2>1, <2>2, <3>1 DEF Pending
  <2>5. ProcInv'
    BY <1>0, <2>1, <2>3, <2>4 DEF ProcInv
  <2> QED
    BY <1>1, <1>2, <2>5, Loud
<1>6. ASSUME NEW n \in Proc, ReportEnd(n) PROVE WakeInv'
  <2>1. /\ UNCHANGED <<cur, cmd>> /\ gor' = [gor EXCEPT ![n] = "none"] /\ n # cur
        /\ \E t : dev' = [dev EXCEPT !.state = IF @ = "terminating" THEN @ ELSE "ended", !.msg = t]
    BY <1>6 DEF ReportEnd, Ended, Report
  <2>2. dev'.state # "running"
    BY <1>0, <2>1 DEF Device
  <2>3. cur # 0 => gor'[cur] # "none"
    <3>1. cur # 0 => cur \in Proc
      BY Procs
    <3> QED
      BY <1>0, <2>1, <3>1 DEF ProcInv
  <2>4. ProcInv'
    BY <1>0, <2>1, <2>2, <2>3 DEF ProcInv
  <2> QED
    BY <1>1, <1>2, <2>4, Loud
<1> QED
  BY <1>3, <1>4, <1>5, <1>6 DEF ReportStep

\* A step of others that leaves the work of Reconcile done.
LEMMA WorkKept ==
    ASSUME WakeInv, ProcInv', event => event',
           UNCHANGED <<cancel, dev, token, net, seen, queued, ingress, rec>>,
           DnsFollows => DnsFollows' \/ event', K3sFollows => K3sFollows'
    PROVE  WakeInv'
<1>1. CachedInv'
  BY SameWish DEF WakeInv, CachedInv, Quiet
<1>2. StepInv'
  BY DEF WakeInv, StepInv, otherManager, Serves, Terminating
<1>3. DoneInv'
  <2> SUFFICES ASSUME Quiet', Wanted'
               PROVE  /\ DnsFollows'
                      /\ rec.at \notin {"status", "k3s"} => K3sFollows'
                      /\ rec.at \notin {"status", "k3s", "token"} /\ Serves(dev) => token.join # 0
                      /\ rec.at \in {"idle", "stopNode"} => Switched'
    BY SameWish DEF DoneInv
  <2>1. Quiet /\ Wanted /\ ~event'
    BY SameWish DEF Quiet
  <2>2. /\ DnsFollows
        /\ rec.at \notin {"status", "k3s"} => K3sFollows
        /\ rec.at \notin {"status", "k3s", "token"} /\ Serves(dev) => token.join # 0
        /\ rec.at \in {"idle", "stopNode"} => Switched
    BY <2>1 DEF WakeInv, DoneInv
  <2>3. Switched => Switched'
    BY DEF Switched, Serves, Terminating
  <2> QED
    BY <2>1, <2>2, <2>3
<1> QED
  BY <1>1, <1>2, <1>3 DEF WakeInv

\* Time, crashes, reports that are lost and the managers.
LEMMA OthersKeepWork ==
    ASSUME TypeOK, WakeInv,
           \/ CooldownOver \/ WriteTokenFile \/ K3sExits \/ DnsExits
           \/ (\E n \in Proc : ReportLost(n))
           \/ (\E m \in Manager : ManagerStep(m) \/ ManagerFails(m))
           \/ UNCHANGED vars
    PROVE  WakeInv'
<1> USE DEF cmVars, k3sVars
<1>0. ProcInv
  BY DEF WakeInv
<1>1. UNCHANGED <<cancel, dev, token, net, seen, queued, ingress, rec>> /\ (event => event')
  BY DEF CooldownOver, WriteTokenFile, K3sExits, DnsExits, ReportLost, ManagerStep, ManagerFails,
         ManagerFrame, LoopStep, LoopEnds, SetupAndRun, RunEnds, RunFails, GotoLoop, vars
<1>2. CASE /\ UNCHANGED <<cur, cmd, gor>>
           /\ missed \subseteq missed'
           /\ dns' = dns \/ (dns = "cooling" /\ dns' = "none") \/ event' \/ "dnsmasq" \in missed'
  <2>1. ProcInv'
    BY <1>0, <1>1, <1>2, ProcKept
  <2>2. K3sFollows => K3sFollows'
    BY <1>1, <1>2, SameWish DEF K3sFollows, Pending
  <2>3. DnsFollows => DnsFollows' \/ event'
    <3>1. wantedDns(dev) # "cooling"
      BY DEF TypeOK, Net, wantedDns
    <3> QED
      BY <1>1, <1>2, <3>1, SameWish DEF DnsFollows
  <2> QED
    BY <1>1, <2>1, <2>2, <2>3, WorkKept
<1>3. CASE K3sExits
  <2>1. cur # 0 /\ K3sGone /\ UNCHANGED <<gor, dev, dns, missed>>
    BY <1>3 DEF K3sExits
  <2>2. ProcInv' /\ Pending'
    BY <1>0, <2>1, ProcGone
  <2>3. DnsFollows => DnsFollows'
    BY <1>1, <2>1, SameWish DEF DnsFollows
  <2> QED
    BY <1>1, <2>2, <2>3, WorkKept DEF K3sFollows
<1>4. ASSUME NEW n \in Proc, ReportLost(n) PROVE WakeInv'
  <2>1. /\ UNCHANGED <<cur, cmd, dns>> /\ gor' = [gor EXCEPT ![n] = "none"] /\ n # cur
        /\ missed' = missed \cup {"k3s", "report"}
    BY <1>4 DEF ReportLost, Ended
  <2>2. cur # 0 => gor'[cur] # "none"
    BY <1>0, <2>1, Procs DEF ProcInv
  <2>3. ProcInv'
    BY <1>0, <2>1, <2>2 DEF ProcInv
  <2>4. DnsFollows => DnsFollows'
    BY <1>1, <2>1, SameWish DEF DnsFollows
  <2> QED
    BY <1>1, <2>1, <2>3, <2>4, WorkKept DEF K3sFollows
<1>5. CASE CooldownOver \/ WriteTokenFile \/ DnsExits
  BY <1>2, <1>5 DEF CooldownOver, WriteTokenFile, DnsExits
<1>6. CASE (\E m \in Manager : ManagerStep(m) \/ ManagerFails(m)) \/ UNCHANGED vars
  BY <1>2, <1>6 DEF ManagerStep, ManagerFails, ManagerFrame, vars
<1> QED
  BY <1>3, <1>4, <1>5, <1>6

\* Reconcile begins: its variables are what is in the cache.
LEMMA BeginsRight ==
    ASSUME TypeOK, WakeInv, NothingToDo \/ DnsDone \/ DnsRefused \/ DnsFails
    PROVE  WakeInv'
<1> USE DEF cmVars, k3sVars
<1>0. /\ CachedInv /\ StepInv /\ ProcInv /\ rec.at = "idle" /\ event \in BOOLEAN
      /\ UNCHANGED <<cancel, dev, token, net, seen, cur, cmd, gor>>
      /\ event => event'
      /\ "report" \in missed => "report" \in missed'
  BY DEF NothingToDo, DnsDone, DnsRefused, DnsFails, BeginReconcile, WakeInv, TypeOK
<1>1. ProcInv'
  BY <1>0, ProcKept
<1>2. CASE NothingToDo
  <2>1. rec' = rec /\ event' = event /\ (seen.mode = "unsupported" \/ net = "none")
    BY <1>2 DEF NothingToDo
  <2>2. StepInv' /\ CachedInv'
    BY <1>0, <2>1 DEF StepInv, CachedInv
  <2>3. DoneInv'
    BY <1>0, <2>1 DEF DoneInv, CachedInv, Quiet, Wanted
  <2> QED
    BY <1>1, <2>2, <2>3 DEF WakeInv
<1>3. CASE DnsRefused \/ DnsFails
  <2>1. rec' = Idle /\ queued'
    BY <1>3 DEF DnsRefused, DnsFails
  <2>2. StepInv'
    BY <2>1 DEF StepInv, Idle
  <2>3. event' \/ seen' = dev'
    BY <1>0 DEF CachedInv
  <2> QED
    BY <1>1, <2>1, <2>2, <2>3, Loud
<1>4. CASE DnsDone
  <2>1. rec'.at = "status" /\ rec'.d = seen /\ rec'.args = buildK3sArgs(seen)
    BY <1>4 DEF DnsDone
  <2>2. StepInv'
    BY <2>1 DEF StepInv
  <2>3. ~event' => seen = dev
    BY <1>0 DEF CachedInv
  <2>4. CachedInv'
    BY <1>0, <2>1, <2>3, SameWish DEF CachedInv, Quiet
  <2>5. ~event' => DnsFollows'
    <3> SUFFICES ASSUME ~event' PROVE DnsFollows'
      OBVIOUS
    <3>1. dns' = IF wantedDns(dev) = "none" /\ dns # "none" THEN "cooling" ELSE wantedDns(dev)
      BY <1>4, <2>3 DEF DnsDone
    <3> QED
      BY <1>0, <3>1, SameWish DEF DnsFollows
  <2>6. DoneInv'
    BY <2>1, <2>5 DEF DoneInv, Quiet
  <2> QED
    BY <1>1, <2>2, <2>4, <2>6 DEF WakeInv
<1> QED
  BY <1>2, <1>3, <1>4

\* Reconcile writes the status, which wakes it up again, and goes on or returns
\* without arguments for k3s.
LEMMA StatusRight ==
    ASSUME TypeOK, WakeInv, UpdateStatus \/ StatusFails
    PROVE  WakeInv'
<1> USE DEF cmVars, k3sVars
<1>0. /\ CachedInv /\ StepInv /\ ProcInv /\ rec.at = "status" /\ rec \in Request
      /\ dev \in Device
      /\ UNCHANGED <<cancel, token, net, seen, cur, cmd, gor, dns, ingress, missed>>
      /\ event' \/ UNCHANGED <<dev, event>>
      /\ dev' = dev \/ dev' = [dev EXCEPT !.msg = rec.msg]
  BY DEF UpdateStatus, StatusFails, StatusFrame, WriteStatus, WakeInv, TypeOK, Request
<1>1. ProcInv'
  <2>1. dev'.state = dev.state
    BY <1>0 DEF Device
  <2> QED
    BY <1>0, <2>1, ProcKept
<1>2. StepInv' /\ rec'.at \in {"idle", "k3s"} /\ (rec'.at = "idle" => rec' = Idle)
  <2>1. CASE rec' = Idle
    BY <2>1 DEF StepInv, Idle
  <2>2. CASE /\ UpdateStatus /\ rec.args # NoArgs
             /\ rec' = [rec EXCEPT !.at = "k3s", !.d = IF @.msg = rec.msg THEN @ ELSE dev']
    <3>1. rec'.at = "k3s" /\ rec'.args = rec.args
      BY <1>0, <2>2 DEF Request
    <3> QED
      BY <2>2, <3>1 DEF StepInv
  <2> QED
    BY <2>1, <2>2 DEF UpdateStatus, StatusFails, Return
<1>3. CASE event' \/ queued'
  BY <1>0, <1>1, <1>2, <1>3, Loud DEF CachedInv
<1>4. CASE ~event' /\ ~queued'
  <2>1. UpdateStatus /\ ~queued
    BY <1>4 DEF UpdateStatus, StatusFails, Return
  <2>2. rec.d.msg = rec.msg /\ UNCHANGED <<dev, event>>
    BY <1>0, <1>4, <2>1 DEF UpdateStatus, WriteStatus
  <2>3. Quiet /\ Quiet' /\ rec.d = dev /\ rec.args = buildK3sArgs(dev)
    BY <1>0, <1>4, <2>1, <2>2 DEF Quiet, CachedInv
  <2>4. CASE rec.args = NoArgs
    <3>1. ~Wanted' /\ rec' = Idle
      BY <1>0, <2>1, <2>2, <2>3, <2>4, SameWish DEF Wanted, UpdateStatus, Return
    <3>2. CachedInv'
      BY <1>0, <2>2, <3>1 DEF CachedInv, Idle
    <3> QED
      BY <1>1, <1>2, <3>1, <3>2 DEF WakeInv, DoneInv
  <2>5. CASE rec.args # NoArgs
    <3>1. rec' = [rec EXCEPT !.at = "k3s", !.d = rec.d]
      BY <2>1, <2>2, <2>5 DEF UpdateStatus
    <3>2. rec'.at = "k3s" /\ rec'.d = dev /\ rec'.args = buildK3sArgs(dev)
      BY <1>0, <2>3, <3>1 DEF Request
    <3>3. CachedInv'
      BY <1>0, <2>2, <2>3, <3>2, SameWish DEF CachedInv
    <3>4. DnsFollows /\ Wanted' => DnsFollows'
      BY <1>0, <2>2, SameWish DEF DnsFollows
    <3>5. Wanted' => DnsFollows
      BY <1>0, <2>2, <2>3, SameWish DEF WakeInv, DoneInv
    <3>6. DoneInv'
      BY <3>2, <3>4, <3>5 DEF DoneInv
    <3> QED
      BY <1>1, <1>2, <3>3, <3>6 DEF WakeInv
  <2> QED
    BY <2>4, <2>5
<1> QED
  BY <1>3, <1>4

\* Goto leaves the other variables of Reconcile alone.
LEMMA GoesOn ==
    ASSUME rec \in Request, NEW l \in Step, rec' = [rec EXCEPT !.at = l]
    PROVE  rec'.at = l /\ rec'.d = rec.d /\ rec'.args = rec.args
  BY DEF Request

\* Reconcile goes on, or returns, at a later step: what is left to show.
LEMMA Onward ==
    ASSUME TypeOK, WakeInv, rec.at \notin {"idle", "status"},
           UNCHANGED <<dev, token, net, seen, event, dns>>,
           "dnsmasq" \in missed => "dnsmasq" \in missed',
           \/ UNCHANGED queued /\ \E l \in Step \ {"idle", "status"} : rec' = [rec EXCEPT !.at = l]
           \/ UNCHANGED queued /\ rec' = Idle,
           StepInv', ProcInv',
           ASSUME Quiet, Wanted, Wanted', rec.d = dev, rec.args = buildK3sArgs(dev)
           PROVE  /\ rec'.at # "k3s" => K3sFollows'
                  /\ rec'.at \notin {"k3s", "token"} /\ Serves(dev) => token.join # 0
                  /\ rec'.at \in {"idle", "stopNode"} => Switched'
    PROVE  WakeInv'
<1>0. CachedInv /\ DoneInv /\ rec \in Request
  BY DEF WakeInv, TypeOK, Request
<1>1. Quiet' <=> Quiet
  BY DEF Quiet
<1>2. /\ rec'.at # "idle" => rec'.d = rec.d /\ rec'.args = rec.args
      /\ rec'.at # "status"
  <2>1. CASE rec' = Idle
    BY <2>1 DEF Idle
  <2>2. ASSUME NEW l \in Step \ {"idle", "status"}, rec' = [rec EXCEPT !.at = l]
        PROVE  rec'.at = l /\ rec'.d = rec.d /\ rec'.args = rec.args
    BY <1>0, <2>2, GoesOn
  <2> QED
    BY <2>1, <2>2
<1>3. CachedInv'
  BY <1>0, <1>1, <1>2, SameWish DEF CachedInv
<1>4. ASSUME Quiet', Wanted'
      PROVE  /\ DnsFollows'
             /\ rec'.at # "k3s" => K3sFollows'
             /\ rec'.at \notin {"k3s", "token"} /\ Serves(dev)' => token'.join # 0
             /\ rec'.at \in {"idle", "stopNode"} => Switched'
  <2>1. Quiet /\ Wanted /\ rec.d = dev /\ rec.args = buildK3sArgs(dev)
    BY <1>0, <1>1, <1>4, SameWish DEF CachedInv
  <2>2. DnsFollows
    BY <1>0, <2>1 DEF DoneInv
  <2>3. DnsFollows'
    BY <2>2, SameWish DEF DnsFollows
  <2> QED
    BY <1>4, <2>1, <2>3, SameWish
<1>5. DoneInv'
  BY <1>2, <1>4 DEF DoneInv
<1> QED
  BY <1>3, <1>5 DEF WakeInv

\* Reconcile starts or stops k3s.
LEMMA K3sRight ==
    ASSUME TypeOK, WakeInv,
           \/ StopK3s \/ K3sRunsAlready \/ StartRefused \/ StartPanics
           \/ \E n \in Proc : Launched(n)
    PROVE  WakeInv'
<1> USE DEF cmVars, k3sVars
<1>0. /\ StepInv /\ ProcInv /\ rec.at = "k3s" /\ rec \in Request /\ rec.args # NoArgs
      /\ UNCHANGED <<cancel, dev, token, net, seen, event, dns, ingress>>
      /\ "dnsmasq" \in missed => "dnsmasq" \in missed'
      /\ "report" \in missed => "report" \in missed'
  BY DEF StopK3s, K3sRunsAlready, StartRefused, StartPanics, Launched, StartK3s, K3sFrame,
         WakeInv, StepInv, TypeOK, Request
<1>1. AfterStart \in {"token", "stop"} /\ (AfterStart = "stop" => ~Serves(rec.d))
  BY DEF AfterStart
<1>2. CASE StartPanics
  <2>1. queued' /\ rec' = Idle /\ K3sGone /\ UNCHANGED gor
    BY <1>2 DEF StartPanics, Return
  <2>2. StepInv'
    BY <2>1 DEF StepInv, Idle
  <2>3. ProcInv'
    BY <1>0, <2>1, ProcGone
  <2>4. event' \/ seen' = dev'
    BY <1>0 DEF WakeInv, CachedInv
  <2> QED
    BY <2>1, <2>2, <2>3, <2>4, Loud
<1>3. ASSUME NEW l \in {"token", "stop"}, Goto(l), l = "token" \/ ~Serves(rec.d),
             ProcInv', rec.d = dev /\ rec.args = buildK3sArgs(dev) => K3sFollows'
      PROVE  WakeInv'
  <2>1. UNCHANGED queued /\ rec' = [rec EXCEPT !.at = l] /\ l \in Step \ {"idle", "status"}
    BY <1>3 DEF Goto, Step
  <2>2. rec'.at = l /\ rec'.args = rec.args
    BY <1>0, <2>1, GoesOn
  <2>3. StepInv'
    BY <1>0, <1>3, <2>2 DEF StepInv
  <2> QED
    BY <1>0, <1>3, <2>1, <2>2, <2>3, Onward
<1>4. CASE StopK3s
  <2>1. Goto("stop") /\ Terminating(rec.d) /\ ~Serves(rec.d)
    BY <1>4 DEF StopK3s, Serves
  <2>2. ProcInv' /\ cmd' = NoArgs
    <3>1. CASE cur = 0
      BY <1>0, <1>4, <3>1, ProcKept DEF StopK3s, ProcInv
    <3>2. CASE cur # 0
      <4>1. K3sGone /\ UNCHANGED gor
        BY <1>4, <3>2 DEF StopK3s
      <4> QED
        BY <1>0, <4>1, ProcGone DEF K3sGone
    <3> QED
      BY <3>1, <3>2
  <2>3. rec.d = dev => K3sFollows'
    BY <1>0, <2>1, <2>2, SameWish DEF K3sFollows
  <2> QED
    BY <1>3, <2>1, <2>2, <2>3
<1>5. CASE K3sRunsAlready
  <2>1. Goto(AfterStart) /\ ~Terminating(rec.d) /\ cmd = rec.args /\ UNCHANGED <<cur, cmd, gor>>
    BY <1>5 DEF K3sRunsAlready, StartK3s
  <2>2. ProcInv'
    BY <1>0, <2>1, ProcKept
  <2>3. rec.d = dev /\ rec.args = buildK3sArgs(dev) => K3sFollows'
    BY <1>0, <2>1, SameWish DEF K3sFollows
  <2> QED
    BY <1>1, <1>3, <2>1, <2>2, <2>3
<1>6. CASE StartRefused
  <2>1. Goto(AfterStart) /\ K3sGone /\ UNCHANGED gor /\ "k3s" \in missed'
    BY <1>6 DEF StartRefused
  <2>2. ProcInv'
    BY <1>0, <2>1, ProcGone
  <2> QED
    BY <1>1, <1>3, <2>1, <2>2 DEF K3sFollows
<1>7. ASSUME NEW n \in Proc, Launched(n) PROVE WakeInv'
  <2>1. /\ Goto(AfterStart) /\ ~Terminating(rec.d)
        /\ cur' = n /\ cmd' = rec.args /\ gor' = [gor EXCEPT ![n] = "report"]
    BY <1>7 DEF Launched, StartK3s
  <2>2. gor'[n] = "report" /\ n # 0
    BY <2>1, Procs
  <2>3. ProcInv'
    BY <1>0, <2>1, <2>2 DEF ProcInv
  <2>4. Pending'
    BY <2>2 DEF Pending
  <2> QED
    BY <1>1, <1>3, <2>1, <2>3, <2>4 DEF K3sFollows
<1> QED
  BY <1>2, <1>4, <1>5, <1>6, <1>7

\* Reconcile takes the join token from the file of k3s, or waits for that.
LEMMA TokenRight ==
    ASSUME TypeOK, WakeInv, reconcileServerToken \/ TokenFails
    PROVE  WakeInv'
<1> USE DEF cmVars, k3sVars
<1>0. /\ CachedInv /\ StepInv /\ ProcInv /\ DoneInv /\ rec.at = "token" /\ rec \in Request
      /\ rec.args # NoArgs
      /\ UNCHANGED <<cancel, dev, net, seen, cur, cmd, gor, dns, ingress, missed>>
      /\ event => event'
  BY DEF reconcileServerToken, TokenFails, TokenFrame, WakeInv, StepInv, TypeOK, Request
<1>1. ProcInv'
  BY <1>0, ProcKept
<1>2. CASE rec' = Idle /\ queued'
  <2>1. StepInv'
    BY <1>2 DEF StepInv, Idle
  <2> QED
    BY <1>0, <1>1, <1>2, <2>1, Loud DEF CachedInv
<1>3. CASE reconcileServerToken /\ Goto("stop")
  <2>1. rec' = [rec EXCEPT !.at = "stop"] /\ "stop" \in Step \ {"idle", "status"} /\ UNCHANGED queued
    BY <1>3 DEF Goto, Step
  <2>2. rec'.at = "stop" /\ rec'.args = rec.args
    BY <1>0, <2>1, GoesOn
  <2>3. StepInv'
    BY <1>0, <2>2 DEF StepInv
  <2>4. CASE event'
    BY <1>1, <2>3, <2>4, Loud
  <2>5. CASE ~event'
    <3>0. ~Return(TRUE)
      <4>1. Idle.at # "stop"
        BY DEF Idle
      <4>2. rec' # Idle
        BY <2>2, <4>1
      <4> QED
        BY <4>2 DEF Return
    <3>1. token.join # 0 /\ UNCHANGED <<token, event>>
      <4>1. CASE token.join # 0
        BY <1>3, <4>1 DEF reconcileServerToken
      <4>2. CASE token.join = 0
        BY <1>3, <2>5, <3>0, <4>2 DEF reconcileServerToken
      <4> QED
        BY <4>1, <4>2
    <3>2. Quiet /\ Wanted => K3sFollows
      BY <1>0 DEF DoneInv
    <3>3. K3sFollows => K3sFollows'
      BY <1>0, <3>1, SameWish DEF K3sFollows, Pending
    <3> QED
      BY <1>0, <1>1, <2>1, <2>2, <2>3, <3>1, <3>2, <3>3, Onward
  <2> QED
    BY <2>4, <2>5
<1> QED
  BY <1>2, <1>3 DEF reconcileServerToken, TokenFails, Return

\* Reconcile stops the managers that the Device must not have, and starts the
\* one that it must have, with the ingress controller of a server.
LEMMA SwitchRight ==
    ASSUME TypeOK, WakeInv, StopOther \/ Switch \/ NodeControllerStopped
    PROVE  WakeInv'
<1> USE DEF cmVars, k3sVars
<1>0. /\ CachedInv /\ StepInv /\ ProcInv /\ DoneInv /\ rec \in Request /\ rec.args # NoArgs
      /\ rec.at \in {"stop", "switch", "stopNode"}
      /\ UNCHANGED <<dev, token, net, seen, event, cur, cmd, gor, dns, missed>>
      /\ cancel \in [Manager -> BOOLEAN] /\ queued \in BOOLEAN
  BY DEF StopOther, Switch, NodeControllerStopped, SwitchFrame, WakeInv, StepInv, TypeOK,
         CMTypeOK, Request
<1>1. ProcInv'
  BY <1>0, ProcKept
<1>2. /\ Quiet /\ Wanted => K3sFollows'
      /\ Quiet /\ Wanted /\ Serves(dev) => token.join # 0
  <2>1. Quiet /\ Wanted => K3sFollows /\ (Serves(dev) => token.join # 0)
    BY <1>0 DEF DoneInv
  <2>2. K3sFollows => K3sFollows'
    BY <1>0, SameWish DEF K3sFollows, Pending
  <2> QED
    BY <2>1, <2>2
<1>3. "controllers" \in Manager /\ "nodeController" \in Manager
  BY DeviceAssumption
<1>4. CASE StopOther
  <2>1. rec' = [rec EXCEPT !.at = "switch"] /\ "switch" \in Step \ {"idle", "status"} /\ UNCHANGED queued
    BY <1>4 DEF StopOther, Goto, Step
  <2>2. rec'.at = "switch" /\ rec'.args = rec.args /\ rec'.d = rec.d
    BY <1>0, <2>1, GoesOn
  <2>3. otherManager' = otherManager /\ otherManager \in Manager
    BY <1>3, <2>2 DEF otherManager
  <2>4. ~cancel'[otherManager]
    BY <1>0, <1>4, <2>3 DEF StopOther, CancelManager
  <2>5. StepInv'
    BY <1>0, <2>2, <2>3, <2>4 DEF StepInv
  <2> QED
    BY <1>0, <1>1, <1>2, <2>1, <2>2, <2>5, Onward
<1>r. ASSUME Return(FALSE) PROVE rec' = Idle /\ UNCHANGED queued
  BY <1>0, <1>r DEF Return
<1>5. CASE Switch /\ ~Terminating(rec.d)
  <2>0. /\ rec.at = "switch" /\ ~cancel[otherManager]
        /\ ingress' <=> Serves(rec.d)
        /\ Return(FALSE)
    BY <1>0, <1>5 DEF Switch, StepInv
  <2>1. rec' = Idle /\ UNCHANGED queued
    BY <1>r, <2>0
  <2>2. StepInv' /\ rec'.at = "idle"
    BY <2>1 DEF StepInv, Idle
  <2>4. (cancel'["controllers"] <=> Serves(rec.d)) /\ (cancel'["nodeController"] <=> ~Serves(rec.d))
    <3>1. CASE Serves(rec.d)
      <4>1. cancel' = [cancel EXCEPT !["controllers"] = TRUE] /\ ~cancel["nodeController"]
        BY <1>5, <2>0, <3>1 DEF Switch, StartManager, otherManager
      <4> QED
        BY <1>0, <1>3, <3>1, <4>1
    <3>2. CASE ~Serves(rec.d)
      <4>1. cancel' = [cancel EXCEPT !["nodeController"] = TRUE] /\ ~cancel["controllers"]
        BY <1>5, <2>0, <3>2 DEF Switch, StartManager, otherManager
      <4> QED
        BY <1>0, <1>3, <3>2, <4>1
    <3> QED
      BY <3>1, <3>2
  <2>5. Wanted /\ rec.d = dev => Switched'
    <3> SUFFICES ASSUME Wanted, rec.d = dev PROVE Switched'
      OBVIOUS
    <3>1. ~Terminating(dev) /\ (Serves(dev) <=> dev.mode = "server")
      BY <1>5 DEF Serves
    <3>2. dev.mode \in {"server", "agent"}
      <4>1. dev.mode \in Mode /\ dev.mode # "unsupported"
        BY DEF Wanted, TypeOK, Device
      <4>2. dev.mode # "nojoin"
        BY DEF Wanted, buildK3sArgs
      <4> QED
        BY <4>1, <4>2 DEF Mode
    <3>3. ~Serves(dev) <=> dev.mode = "agent"
      BY <3>1, <3>2
    <3>4. dev' = dev /\ (Terminating(dev)' <=> Terminating(dev)) /\ (Serves(dev)' <=> Serves(dev))
      BY <1>0, SameWish
    <3> QED
      BY <2>0, <2>4, <3>1, <3>3, <3>4 DEF Switched
  <2> QED
    BY <1>0, <1>1, <1>2, <2>1, <2>2, <2>5, Onward
<1>6. CASE Switch /\ Terminating(rec.d)
  <2>1. /\ rec.at = "switch" /\ ~cancel[otherManager] /\ ~Serves(rec.d)
        /\ Goto("stopNode") /\ ~ingress'
        /\ CancelManager("nodeController")
    BY <1>0, <1>6 DEF Switch, StepInv, Serves
  <2>2. /\ rec' = [rec EXCEPT !.at = "stopNode"] /\ "stopNode" \in Step \ {"idle", "status"}
        /\ UNCHANGED queued
    BY <2>1 DEF Goto, Step
  <2>3. rec'.at = "stopNode" /\ rec'.args = rec.args
    BY <1>0, <2>2, GoesOn
  <2>4. StepInv'
    BY <1>0, <2>3 DEF StepInv
  <2>5. ~cancel'["controllers"] /\ ~cancel'["nodeController"]
    BY <1>0, <1>3, <2>1 DEF CancelManager, otherManager
  <2>6. rec.d = dev => Switched'
    BY <1>0, <1>6, <2>1, <2>5, SameWish DEF Switched
  <2> QED
    BY <1>0, <1>1, <1>2, <2>2, <2>3, <2>4, <2>6, Onward
<1>7. CASE NodeControllerStopped
  <2>1. rec.at = "stopNode" /\ rec' = Idle /\ UNCHANGED <<queued, cancel, ingress>>
    BY <1>7, <1>r DEF NodeControllerStopped
  <2>2. StepInv' /\ rec'.at = "idle"
    BY <2>1 DEF StepInv, Idle
  <2>3. Quiet /\ Wanted => Switched'
    BY <1>0, <2>1, SameWish DEF DoneInv, Switched
  <2> QED
    BY <1>0, <1>1, <1>2, <2>1, <2>2, <2>3, Onward
<1> QED
  BY <1>4, <1>5, <1>6, <1>7

(***************************************************************************)
(* For any changes, crashes and failing calls, and any number of processes *)
(* whose ends are still to be reported: when Reconcile rests, k3s, dnsmasq,*)
(* the managers and the ingress controller are what the Device asks for,   *)
(* and the status does not hide that k3s is down.  What is left to         *)
(* liveness is that it comes to rest.                                      *)
(***************************************************************************)
THEOREM RestsWhenDone == Spec => []RestIsRight
<1>1. Init => WakeInv
  <2> SUFFICES ASSUME Init PROVE WakeInv
    OBVIOUS
  <2>1. CachedInv /\ DoneInv
    BY DEF Init, CachedInv, DoneInv, Quiet
  <2>2. StepInv
    BY DEF Init, StepInv, Idle
  <2>3. ProcInv
    BY DEF Init, ProcInv, NewDevice
  <2> QED
    BY <2>1, <2>2, <2>3 DEF WakeInv
<1>2. TypeOK /\ WakeInv /\ [Next]_vars => WakeInv'
  BY LoudWakes, OthersKeepWork, BeginsRight, StatusRight, K3sRight, TokenRight, SwitchRight
  DEF Next, ReconcileStep, ReconcileFails
<1>3. WakeInv => RestIsRight
  <2> SUFFICES ASSUME WakeInv, AtRest
               PROVE  /\ Settled
                      /\ cur = 0 => dev.state # "running" \/ "report" \in missed
                      /\ Serves(dev) /\ net # "none" => token.join # 0
    BY DEF RestIsRight
  <2>1. Quiet /\ rec.at = "idle" /\ ~Pending /\ dns # "cooling"
    BY DEF AtRest, Quiet
  <2>2. Wanted => DnsFollows /\ K3sFollows /\ Switched /\ (Serves(dev) => token.join # 0)
    BY <2>1 DEF WakeInv, DoneInv
  <2>3. Settled
    BY <2>1, <2>2 DEF Settled, Wanted, DnsFollows, K3sFollows, Switched
  <2>4. cur = 0 => dev.state # "running" \/ "report" \in missed
    BY <2>1 DEF WakeInv, ProcInv
  <2>5. Serves(dev) /\ net # "none" => Wanted
    <3> SUFFICES ASSUME Serves(dev), net # "none" PROVE Wanted
      OBVIOUS
    <3>1. dev.mode = "server"
      BY DEF Serves
    <3>2. buildK3sArgs(dev).mode = "server"
      BY <3>1 DEF buildK3sArgs
    <3>3. buildK3sArgs(dev) # NoArgs
      BY <3>2 DEF NoArgs
    <3> QED
      BY <3>1, <3>3 DEF Wanted
  <2> QED
    BY <2>2, <2>3, <2>4, <2>5
<1> QED
  BY <1>1, <1>2, <1>3, TypeCorrect, PTL DEF Spec
=============================================================================
