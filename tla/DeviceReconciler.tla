-------------------------- MODULE DeviceReconciler --------------------------
(***************************************************************************)
(* DeviceReconciler (pkg/reconciler/device): makes what runs on a device   *)
(* follow its Device resource - k3s, dnsmasq, the two controller managers  *)
(* and the ingress controller - and writes what happened to k3s back into  *)
(* the resource, which wakes it up again.                                  *)
(*                                                                         *)
(* k3s and dnsmasq are run by a Runner each.  Module Runner shows that a   *)
(* Runner has at most one process; here a call of Start or Stop is one     *)
(* step, as Reconcile, the only caller, waits for it.  The goroutine of    *)
(* each k3s process reports its start and its end, in any order with the   *)
(* reports of other processes.                                             *)
(*                                                                         *)
(* Abstracted: addresses, tokens and arguments, of which the differences   *)
(* that restart a process are kept; an exit and a failure of k3s are both  *)
(* "ended"; the DNSServer part of the status, so that a report of dnsmasq  *)
(* is only a wake-up; delays of the work queue.  The code never sets a     *)
(* Generation: the device is advertised in every reconciliation.           *)
(***************************************************************************)
EXTENDS ControllerManager

CONSTANTS
    Slots,         \* bound: k3s processes whose goroutines have not ended
    MaxChanges,    \* bound: changes made by users and by the network
    MaxFaults      \* bound: crashes and failing calls

ASSUME DeviceAssumption ==
    /\ Slots \in Nat \ {0} /\ MaxChanges \in Nat /\ MaxFaults \in Nat
    /\ Manager = {"controllers", "nodeController"}
    /\ Controllers = [m \in Manager |->
            IF m = "controllers" THEN <<"node", "app", "service">> ELSE <<"node">>]

VARIABLES
    dev,           \* the Device in the store: mode, state, message
    token,         \* the DeviceTokens: the device's own one, the join token its
                   \* status shows (0: none), whether that of a peer is known
    net,           \* the network: no address, a LAN or an access point address
    seen,          \* the Device in the client's cache
    event,         \* there are changes the watches have not delivered yet
    queued,        \* a request is in the work queue
    cur,           \* the running k3s process, 0: none
    cmd,           \* its arguments
    cooling,       \* there is none and a Start would be refused
    gor,           \* [process -> where the goroutine of its Start is]
    tokenFile,     \* the join token in k3s' file, 0: none
    dns,           \* the configuration dnsmasq runs with, or its cooldown
    ingress,       \* the IngressController is started
    rec,           \* Reconcile: where it is and its variables
    missed,        \* history: the Runners for which nobody will call Start again,
                   \* and "report" if the last report of k3s was lost
    changes, faults

k3sVars == <<cur, cmd, cooling, gor, tokenFile>>
vars == <<cmVars, dev, token, net, seen, event, queued, k3sVars, dns, ingress, rec, missed,
          changes, faults>>

Proc == 1..Slots
\* "nojoin": an agent whose server address or token name is missing or wrong.
Mode == {"server", "agent", "nojoin", "unsupported"}
\* msg "unset": the address is still to be written, too.
Device == [mode : Mode, state : {"unknown", "running", "ended", "terminating"},
           msg : {"unset", "", "join", "k3s"}]
Net == {"none", "lan", "ap"}
Args == [mode : {"none", "server", "agent"}, net : Net, token : Nat]
NoArgs == [mode |-> "none", net |-> "none", token |-> 0]
Step == {"idle", "status", "k3s", "token", "stop", "switch", "stopNode"}

TypeOK ==
    /\ CMTypeOK
    /\ dev \in Device /\ seen \in Device
    /\ token \in [data : Nat, join : Nat, peer : BOOLEAN]
    /\ net \in Net
    /\ event \in BOOLEAN /\ queued \in BOOLEAN
    /\ cur \in 0..Slots /\ cmd \in Args /\ cooling \in BOOLEAN
    /\ gor \in [Proc -> {"none", "report", "wait"}]
    /\ tokenFile \in Nat
    /\ dns \in Net \cup {"cooling"}
    /\ ingress \in BOOLEAN
    /\ rec \in [at : Step, d : Device, args : Args, msg : {"", "join"}]
    /\ missed \subseteq {"k3s", "dnsmasq", "report"}
    /\ changes \in 0..MaxChanges /\ faults \in 0..MaxFaults

\* newDeviceStore creates the Device, NewDeviceTokenREST the token.
NewDevice == [mode |-> "server", state |-> "unknown", msg |-> "unset"]
Idle == [at |-> "idle", d |-> NewDevice, args |-> NoArgs, msg |-> ""]

Init ==
    /\ CMInit
    /\ dev = NewDevice /\ seen = NewDevice
    /\ token = [data |-> 1, join |-> 0, peer |-> FALSE]
    /\ net \in {"none", "lan"}
    /\ event = TRUE /\ queued = FALSE
    /\ cur = 0 /\ cmd = NoArgs /\ cooling = FALSE
    /\ gor = [n \in Proc |-> "none"]
    /\ tokenFile = 0
    /\ dns = "none"
    /\ ingress = FALSE
    /\ rec = Idle
    /\ missed = {}
    /\ changes = 0 /\ faults = 0

Terminating(x) == x.state = "terminating"
Serves(x) == x.mode = "server" /\ ~Terminating(x)

Fault == faults < MaxFaults /\ faults' = faults + 1

-----------------------------------------------------------------------------
(* The environment *)

Changed ==
    /\ changes < MaxChanges
    /\ changes' = changes + 1
    /\ event' = TRUE
    /\ UNCHANGED <<cmVars, seen, queued, k3sVars, dns, ingress, rec, missed, faults>>

\* Users edit the Device or the token of a peer, links go up and down.
Change ==
    /\ Changed
    /\ \/ /\ \/ \E m \in Mode : dev' = [dev EXCEPT !.mode = m]
             \/ \E s \in {"unknown", "terminating"} : dev' = [dev EXCEPT !.state = s]
          /\ UNCHANGED <<net, token>>
       \/ net' \in Net /\ UNCHANGED <<dev, token>>
       \/ token' = [token EXCEPT !.peer = ~@] /\ UNCHANGED <<dev, net>>

\* deviceTokenREST.Delete of the device's own token.
regenerateClusterJoinToken ==
    /\ Changed
    /\ token' = [token EXCEPT !.data = @ + 1, !.join = 0]
    /\ UNCHANGED <<dev, net>>

\* The watches deliver: the cache is updated and the request queued.
Deliver ==
    /\ event
    /\ event' = FALSE
    /\ seen' = dev
    /\ queued' = TRUE
    /\ UNCHANGED <<cmVars, dev, token, net, k3sVars, dns, ingress, rec, missed, changes, faults>>

\* The cooldown period of a Runner ends.
CooldownOver ==
    /\ \/ cooling /\ cooling' = FALSE /\ UNCHANGED dns
       \/ dns = "cooling" /\ dns' = "none" /\ UNCHANGED cooling
    /\ UNCHANGED <<cmVars, dev, token, net, seen, event, queued, cur, cmd, gor, tokenFile,
                   ingress, rec, missed, changes, faults>>

\* k3s as a server writes the token it was started with.
WriteTokenFile ==
    /\ cmd.mode = "server"
    /\ tokenFile # cmd.token
    /\ tokenFile' = cmd.token
    /\ UNCHANGED <<cmVars, dev, token, net, seen, event, queued, cur, cmd, cooling, gor, dns,
                   ingress, rec, missed, changes, faults>>

-----------------------------------------------------------------------------
(* The processes and their Reporters *)

\* The Runner of k3s has no process any more.
K3sGone == cur' = 0 /\ cmd' = NoArgs /\ cooling' = TRUE /\ UNCHANGED tokenFile

K3sExits ==
    /\ cur # 0
    /\ Fault
    /\ K3sGone
    /\ UNCHANGED <<cmVars, dev, token, net, seen, event, queued, gor, dns, ingress, rec, missed,
                   changes>>

\* The Reporter of dnsmasq updates the Device, or fails to.
DnsExits ==
    /\ dns \notin {"none", "cooling"}
    /\ Fault
    /\ dns' = "cooling"
    /\ \/ event' = TRUE /\ UNCHANGED missed
       \/ missed' = missed \cup {"dnsmasq"} /\ UNCHANGED event
    /\ UNCHANGED <<cmVars, dev, token, net, seen, queued, k3sVars, ingress, rec, changes>>

\* The Reporter of k3s: the state is kept while the device is terminating.
Report(state, msg) ==
    /\ dev' = [dev EXCEPT !.state = IF @ = "terminating" THEN @ ELSE state, !.msg = msg]
    /\ event' = TRUE
    /\ missed' = missed \ {"report"}
    /\ UNCHANGED <<cmVars, token, net, seen, queued, cur, cmd, cooling, tokenFile, dns, ingress,
                   rec, changes, faults>>

ReportRunning(n) ==
    /\ gor[n] = "report"
    /\ gor' = [gor EXCEPT ![n] = "wait"]
    /\ Report("running", "")

Ended(n) == gor[n] = "wait" /\ n # cur /\ gor' = [gor EXCEPT ![n] = "none"]

\* Mutant: the end is only logged.
ReportEndDropped(n) ==
    /\ Ended(n)
    /\ UNCHANGED <<cmVars, dev, token, net, seen, event, queued, cur, cmd, cooling, tokenFile,
                   dns, ingress, rec, missed, changes, faults>>

\* Its message says why, unless k3s exited by itself.
ReportEnd(n) ==
    /\ Ended(n)
    /\ \E msg \in {"", "k3s"} : Report("ended", msg)

\* The store fails: the Reporter logs that and nothing wakes Reconcile up.
ReportLost(n) ==
    /\ Ended(n)
    /\ Fault
    /\ missed' = missed \cup {"k3s", "report"}
    /\ UNCHANGED <<cmVars, dev, token, net, seen, event, queued, cur, cmd, cooling, tokenFile,
                   dns, ingress, rec, changes>>

-----------------------------------------------------------------------------
(* Reconcile *)

\* It goes on, or returns and is called again later if it asks for that, by
\* RequeueAfter or with an error.
Goto(l) == rec' = [rec EXCEPT !.at = l] /\ UNCHANGED queued

\* Mutant: a request that comes in the meantime counts as served.
ReturnServed(again) == rec' = Idle /\ queued' = again

Return(again) == rec' = Idle /\ queued' = (queued \/ again)

\* The closure fn: buildK3sServerArgs and buildK3sAgentArgs.
buildK3sArgs(x) ==
    CASE x.mode = "server" -> [mode |-> "server", net |-> net, token |-> token.data]
      [] x.mode = "agent" /\ token.peer -> [mode |-> "agent", net |-> net, token |-> 0]
      [] OTHER -> NoArgs

\* Nothing is done, and nothing requested, without a known mode and an address.
NothingToDo ==
    /\ rec.at = "idle" /\ queued
    /\ seen.mode = "unsupported" \/ net = "none"
    /\ queued' = FALSE
    /\ UNCHANGED <<cmVars, dev, token, net, seen, event, k3sVars, dns, ingress, rec, missed,
                   changes, faults>>

BeginReconcile ==
    /\ rec.at = "idle" /\ queued
    /\ seen.mode # "unsupported" /\ net # "none"
    /\ UNCHANGED <<cmVars, dev, token, net, seen, k3sVars, ingress, changes>>

wantedDns(x) == IF x.mode = "server" \/ net = "ap" THEN net ELSE "none"

\* deviceDnsServerReconciler.Reconcile does what it is to do, then fn.  A
\* dnsmasq that is stopped or started reports that.
DnsDone ==
    /\ BeginReconcile
    /\ LET wanted == wantedDns(seen)
       IN  /\ wanted # dns => wanted = "none" \/ dns # "cooling"
           /\ dns' = IF wanted = "none" /\ dns # "none" THEN "cooling" ELSE wanted
           /\ event' = (event \/ dns' # dns)
    /\ queued' = FALSE
    /\ rec' = [at |-> "status", d |-> seen, args |-> buildK3sArgs(seen),
               msg |-> IF seen.mode = "nojoin" THEN "join" ELSE ""]
    /\ missed' = missed \ {"dnsmasq"}
    /\ UNCHANGED faults

\* Mutant: the CooldownError of dnsmasq is dropped like that of k3s.
DnsRefusedDropped ==
    /\ BeginReconcile
    /\ wantedDns(seen) \notin {"none", dns}
    /\ dns # "none"
    /\ dns' = "cooling"
    /\ event' = (event \/ dns # "cooling")
    /\ rec' = Idle /\ queued' = FALSE
    /\ missed' = missed \ {"dnsmasq"}
    /\ UNCHANGED faults

\* dnsmasq cannot be started within its cooldown, which a Start that replaces
\* a process may begin itself.
DnsRefused ==
    /\ BeginReconcile
    /\ wantedDns(seen) \notin {"none", dns}
    /\ dns # "none"
    /\ dns' = "cooling"
    /\ event' = (event \/ dns # "cooling")
    /\ rec' = Idle /\ queued' = TRUE
    /\ missed' = missed \ {"dnsmasq"}
    /\ UNCHANGED faults

\* The interfaces cannot be listed, the configuration not written, dnsmasq
\* not signalled or not launched: an error, or a panic that is recovered.
DnsFails ==
    /\ BeginReconcile
    /\ Fault
    /\ dns' \in {dns, "cooling"}
    /\ event' = (event \/ dns' # dns)
    /\ rec' = Idle /\ queued' = TRUE
    /\ UNCHANGED missed

StatusFrame ==
    UNCHANGED <<cmVars, token, net, seen, k3sVars, dns, ingress, missed, changes>>

WriteStatus == dev' = [dev EXCEPT !.msg = rec.msg] /\ event' = TRUE

\* The status is written if its message or address changed, which also
\* refreshes the Device; Advertise.
UpdateStatus ==
    /\ rec.at = "status"
    /\ IF rec.d.msg = rec.msg THEN UNCHANGED <<dev, event>> ELSE WriteStatus
    /\ IF rec.args = NoArgs THEN Return(rec.msg # "")
       ELSE /\ rec' = [rec EXCEPT !.at = "k3s", !.d = IF @.msg = rec.msg THEN @ ELSE dev']
            /\ UNCHANGED queued
    /\ StatusFrame
    /\ UNCHANGED faults

StatusFails ==
    /\ rec.at = "status"
    /\ Fault
    /\ \/ UNCHANGED <<dev, event>>
       \/ rec.d.msg # rec.msg /\ WriteStatus
    /\ Return(TRUE)
    /\ StatusFrame

K3sFrame == UNCHANGED <<cmVars, dev, token, net, seen, event, dns, ingress, changes>>

StopK3s ==
    /\ rec.at = "k3s"
    /\ Terminating(rec.d)
    /\ IF cur = 0 THEN UNCHANGED k3sVars ELSE K3sGone /\ UNCHANGED gor
    /\ missed' = missed \ {"k3s"}
    /\ Goto("stop")
    /\ K3sFrame
    /\ UNCHANGED faults

\* Start, which returns at once if k3s runs with these arguments.
StartK3s ==
    /\ rec.at = "k3s"
    /\ ~Terminating(rec.d)
    /\ K3sFrame

AfterStart == IF Serves(rec.d) THEN "token" ELSE "stop"

K3sRunsAlready ==
    /\ StartK3s
    /\ cmd = rec.args
    /\ missed' = missed \ {"k3s"}
    /\ Goto(AfterStart)
    /\ UNCHANGED <<k3sVars, faults>>

\* The CooldownError of Start is dropped.
StartRefused ==
    /\ StartK3s
    /\ cmd # rec.args
    /\ cooling \/ cur # 0
    /\ K3sGone
    /\ missed' = missed \cup {"k3s"}
    /\ Goto(AfterStart)
    /\ UNCHANGED <<gor, faults>>

\* The goroutine of the new process takes the first free slot.
Launched(n) ==
    /\ StartK3s
    /\ cmd # rec.args
    /\ ~cooling
    /\ gor[n] = "none" /\ \A m \in 1..(n - 1) : gor[m] # "none"
    /\ gor' = [gor EXCEPT ![n] = "report"]
    /\ cur' = n /\ cmd' = rec.args
    /\ missed' = missed \ {"k3s"}
    /\ Goto(AfterStart)
    /\ UNCHANGED <<cooling, tokenFile, faults>>

\* StartProcess fails and Start panics, which controller-runtime recovers.
StartPanics ==
    /\ StartK3s
    /\ cmd # rec.args
    /\ ~cooling
    /\ Fault
    /\ K3sGone
    /\ Return(TRUE)
    /\ UNCHANGED <<gor, missed>>

TokenFrame == UNCHANGED <<cmVars, dev, net, seen, k3sVars, dns, ingress, missed, changes>>

\* Mutant: an unreadable token file is not tried again.
reconcileServerTokenOnce ==
    /\ rec.at = "token"
    /\ Goto("stop")
    /\ IF token.join # 0 \/ tokenFile = 0 THEN UNCHANGED <<token, event>>
       ELSE token' = [token EXCEPT !.join = tokenFile] /\ event' = TRUE
    /\ TokenFrame
    /\ UNCHANGED faults

\* Without the file of k3s the controllers are not switched yet.
reconcileServerToken ==
    /\ rec.at = "token"
    /\ IF token.join # 0 THEN Goto("stop") /\ UNCHANGED <<token, event>>
       ELSE IF tokenFile = 0 THEN Return(TRUE) /\ UNCHANGED <<token, event>>
       ELSE Goto("stop") /\ token' = [token EXCEPT !.join = tokenFile] /\ event' = TRUE
    /\ TokenFrame
    /\ UNCHANGED faults

TokenFails ==
    /\ rec.at = "token"
    /\ Fault
    /\ Return(TRUE)
    /\ TokenFrame
    /\ UNCHANGED <<token, event>>

SwitchFrame ==
    UNCHANGED <<dev, token, net, seen, event, k3sVars, dns, missed, changes, faults>>

\* The manager that must not run in the device's mode.
otherManager == IF Serves(rec.d) THEN "nodeController" ELSE "controllers"

StopOther ==
    /\ rec.at = "stop"
    /\ CancelManager(otherManager)
    /\ Goto("switch")
    /\ SwitchFrame
    /\ UNCHANGED ingress

Switch ==
    /\ rec.at = "switch"
    /\ ManagerEnded(otherManager)
    /\ ingress' = Serves(rec.d)
    /\ CASE Serves(rec.d) -> StartManager("controllers") /\ Return(FALSE)
         [] Terminating(rec.d) -> CancelManager("nodeController") /\ Goto("stopNode")
         [] OTHER -> StartManager("nodeController") /\ Return(FALSE)
    /\ SwitchFrame

NodeControllerStopped ==
    /\ rec.at = "stopNode"
    /\ ManagerEnded("nodeController")
    /\ Return(FALSE)
    /\ SwitchFrame
    /\ UNCHANGED <<cmVars, ingress>>

-----------------------------------------------------------------------------
ManagerFrame ==
    UNCHANGED <<dev, token, net, seen, event, queued, k3sVars, dns, ingress, rec, missed, changes>>

ManagerStep(m) == LoopStep(m) /\ ManagerFrame /\ UNCHANGED faults

ManagerFails(m) == RunFails(m) /\ Fault /\ ManagerFrame

ReconcileStep ==
    \/ NothingToDo \/ DnsDone \/ DnsRefused \/ UpdateStatus \/ StopK3s \/ K3sRunsAlready
    \/ StartRefused \/ (\E n \in Proc : Launched(n)) \/ reconcileServerToken \/ StopOther
    \/ Switch \/ NodeControllerStopped

ReconcileFails == DnsFails \/ StatusFails \/ StartPanics \/ TokenFails

ReportStep(n) == ReportRunning(n) \/ ReportEnd(n)

Next ==
    \/ Change \/ regenerateClusterJoinToken \/ Deliver \/ CooldownOver \/ WriteTokenFile
    \/ K3sExits \/ DnsExits
    \/ \E n \in Proc : ReportStep(n) \/ ReportLost(n)
    \/ \E m \in Manager : ManagerStep(m) \/ ManagerFails(m)
    \/ ReconcileStep \/ ReconcileFails

Spec == Init /\ [][Next]_vars

(***************************************************************************)
(* Goroutines that can run do run: the watches, the worker of the work     *)
(* queue, the Reporters, the loops of the managers.  Time passes, and a    *)
(* k3s server that runs writes its token.  Nothing is assumed of users,    *)
(* links, crashes and failing calls, nor of the resync of the informers    *)
(* every ten hours, which nobody would wait for.                           *)
(***************************************************************************)
Fairness ==
    /\ WF_vars(Deliver) /\ WF_vars(ReconcileStep) /\ WF_vars(WriteTokenFile)
    /\ WF_vars(CooldownOver)
    /\ \A n \in Proc : WF_vars(ReportStep(n))
    /\ \A m \in Manager : WF_vars(ManagerStep(m))

FairSpec == Spec /\ Fairness

-----------------------------------------------------------------------------
(* Properties *)

\* What runs is what the Device in the store asks for, except for a process
\* whose last Start was refused or whose last report was lost.
Settled ==
    (net # "none" /\ dev.mode # "unsupported" /\ buildK3sArgs(dev) # NoArgs) =>
        /\ "k3s" \in missed \/ cmd = IF Terminating(dev) THEN NoArgs ELSE buildK3sArgs(dev)
        /\ "dnsmasq" \in missed \/ dns = wantedDns(dev)
        /\ ingress <=> Serves(dev)
        /\ cancel["controllers"] <=> Serves(dev)
        /\ cancel["nodeController"] <=> dev.mode = "agent" /\ ~Terminating(dev)

(***************************************************************************)
(* After any changes and faults, once they stop, Reconcile makes k3s,      *)
(* dnsmasq, the controllers and the ingress controller what the Device     *)
(* asks for, for good: no wake-up is lost between the cached Device, the   *)
(* reports and the early returns - except the ones in missed.              *)
(***************************************************************************)
Converges == <>[]Settled

(***************************************************************************)
(* A device whose k3s is down is not shown as running for ever, in         *)
(* whatever order the reports of consecutive processes arrive, unless one  *)
(* could not be stored.  (The converse does not hold: a late end may       *)
(* overwrite a new start.)                                                 *)
(***************************************************************************)
DownIsShown == cur = 0 ~> (cur # 0 \/ dev.state # "running" \/ "report" \in missed)

\* A server that runs gets a join token to show to agents, however late k3s
\* writes it.
JoinTokenAppears ==
    (Serves(dev) /\ net # "none" /\ cur # 0) ~>
        (token.join # 0 \/ ~Serves(dev) \/ net = "none" \/ cur = 0)

\* A goroutine has the start or the end of a k3s process still to report.
Pending == \E n \in Proc : gor[n] = "report" \/ (gor[n] = "wait" /\ n # cur)

\* Nobody but users, links and crashes has anything to do for Reconcile.
AtRest == rec.at = "idle" /\ ~queued /\ ~event /\ ~Pending /\ dns # "cooling"

(***************************************************************************)
(* No wake-up is missed, whatever crashes and fails: whenever Reconcile    *)
(* has come to rest, what runs is what the Device asks for, a device whose *)
(* k3s is down is not shown as running, and a server has a join token -    *)
(* except for what is in missed.  It may rest after an early return, after *)
(* it has worked on a Device that was changed in the meantime, and with a  *)
(* k3s that ended while it was reconciled.                                 *)
(***************************************************************************)
RestIsRight ==
    AtRest => /\ Settled
              /\ cur = 0 => dev.state # "running" \/ "report" \in missed
              /\ Serves(dev) /\ net # "none" => token.join # 0

\* The two managers share the NodeReconciler: neither is started before the
\* goroutine of the other has ended, in spite of early returns in between.
ManagersExclude ==
    ~(loop["controllers"] # "none" /\ loop["nodeController"] # "none")
=============================================================================
