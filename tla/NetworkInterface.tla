-------------------------- MODULE NetworkInterface --------------------------
(***************************************************************************)
(* NetworkInterfaceReconciler (pkg/reconciler/device) with the             *)
(* NetworkInterface resource of the wifi interface: users write its spec   *)
(* and the WifiPasswords, NetworkIfaceSync (pkg/networkifaces) writes its  *)
(* link status, the Reporters of the wifi processes touch it, and each of  *)
(* these writes wakes Reconcile up - but not one of a WifiPassword.        *)
(*                                                                         *)
(* Abstracted: error messages, of which there is one; the country code,    *)
(* which is known or not; delays of the work queue.                        *)
(***************************************************************************)
EXTENDS Wifi

CONSTANTS
    MaxChanges,    \* bound: changes made by users and seen on the link
    MaxFaults      \* bound: exits of processes and failing calls

ASSUME BoundsAssumption == MaxChanges \in Nat /\ MaxFaults \in Nat

VARIABLES
    w,             \* the Wifi
    ni,            \* the NetworkInterface in the store
    pw,            \* [the password of the access point, of the station -> its number]
    seen,          \* the NetworkInterface in the client's cache
    event,         \* there are changes the watch has not delivered yet
    queued,        \* a request is in the work queue
    rec,           \* Reconcile: where it is, its copy of the resource, its error
    missed,        \* history: a change after which nobody calls Reconcile
    changes, faults

vars == <<w, ni, pw, seen, event, queued, rec, missed, changes, faults>>

NI == [mode : {"disabled", "station", "ap"}, country : BOOLEAN, up : BOOLEAN, ip : BOOLEAN,
       err : BOOLEAN]
Step == {"idle", "stop", "iface", "prepare", "run", "dhcpcd", "finish"}

TypeOK ==
    /\ w \in Wifi
    /\ ni \in NI /\ seen \in NI
    /\ pw \in [{"ap", "station"} -> 0..MaxConf]
    /\ event \in BOOLEAN /\ queued \in BOOLEAN /\ missed \in BOOLEAN
    /\ rec \in [at : Step, ni : NI, conf : 0..MaxConf, err : BOOLEAN]
    /\ changes \in 0..MaxChanges /\ faults \in 0..MaxFaults

New(m) == [mode |-> m, country |-> FALSE, up |-> FALSE, ip |-> FALSE, err |-> FALSE]

\* Between two calls Reconcile remembers nothing.
Idle == [at |-> "idle", ni |-> New("disabled"), conf |-> 0, err |-> FALSE]

\* startNetworkLinkStatusSync creates the resource or finds that of an earlier
\* run; wifiPasswordREST generates the password of the access point.
Init ==
    /\ w = NewWifi
    /\ \E m \in {"disabled", "station", "ap"} : ni = New(m)
    /\ seen = ni
    /\ pw \in {[ap |-> 1, station |-> c] : c \in {0, 1}}
    /\ event = TRUE /\ queued = FALSE /\ missed = FALSE
    /\ rec = Idle
    /\ changes = 0 /\ faults = 0

Fault == faults < MaxFaults /\ faults' = faults + 1

-----------------------------------------------------------------------------
(* The environment *)

Changed ==
    /\ changes < MaxChanges
    /\ changes' = changes + 1
    /\ UNCHANGED <<w, seen, queued, rec, faults>>

SetMode ==
    /\ Changed
    /\ \E m \in {"disabled", "station", "ap"} : ni' = [ni EXCEPT !.mode = m]
    /\ event' = TRUE
    /\ UNCHANGED <<pw, missed>>

\* Create, update and delete of a WifiPassword; that of the access point is
\* regenerated instead of deleted.
SetPassword(k) ==
    /\ Changed
    /\ pw' \in {[pw EXCEPT ![k] = c] : c \in IF k = "ap" THEN Conf ELSE {0} \cup Conf}
    /\ missed' = TRUE
    /\ UNCHANGED <<ni, event>>

\* The goroutine of startNetworkLinkStatusSync, updateNetworkInterfaceStatus.
LinkUpdate ==
    /\ Changed
    /\ \E u, i \in BOOLEAN : ni' = [ni EXCEPT !.up = u, !.ip = u /\ i]
    /\ event' = TRUE
    /\ UNCHANGED <<pw, missed>>

Deliver ==
    /\ event
    /\ event' = FALSE
    /\ seen' = ni
    /\ queued' = TRUE
    /\ UNCHANGED <<w, ni, pw, rec, missed, changes, faults>>

WifiOnly == UNCHANGED <<ni, pw, seen, event, queued, rec, missed, changes, faults>>

CooldownOver(p) ==
    /\ p \in w.cool
    /\ w' = [w EXCEPT !.cool = @ \ {p}]
    /\ WifiOnly

\* dhcpcd gets a lease.
WriteResolvConf ==
    /\ w.proc["dhcpcd"] # 0
    /\ w.resolv # "dhcp"
    /\ w' = [w EXCEPT !.resolv = "dhcp"]
    /\ WifiOnly

\* A process ends by itself, at any time if its configuration is truncated.
ProcessExits(p) ==
    /\ w.proc[p] # 0
    /\ IF Misled(w, p) THEN UNCHANGED faults ELSE Fault
    /\ w' = Ended(w, p)
    /\ UNCHANGED <<ni, pw, seen, event, queued, rec, missed, changes>>

\* onProcessTermination: every wifi interface is updated without a change.
Report ==
    /\ w.report
    /\ w' = [w EXCEPT !.report = FALSE]
    /\ event' = TRUE
    /\ UNCHANGED <<ni, pw, seen, queued, rec, missed, changes, faults>>

ReportLost ==
    /\ w.report
    /\ Fault
    /\ w' = [w EXCEPT !.report = FALSE]
    /\ missed' = TRUE
    /\ UNCHANGED <<ni, pw, seen, event, queued, rec, changes>>

-----------------------------------------------------------------------------
(* Reconcile *)

Goto(l) == rec' = [rec EXCEPT !.at = l]

\* The rest of Reconcile writes the error into the status.
Error == rec' = [rec EXCEPT !.at = "finish", !.err = TRUE]

Begin ==
    /\ rec.at = "idle" /\ queued
    /\ queued' = FALSE
    /\ missed' = FALSE
    /\ rec' = [at |-> "stop", ni |-> seen, conf |-> 0, err |-> FALSE]
    /\ UNCHANGED <<w, ni, pw, seen, event, changes, faults>>

Own == UNCHANGED <<ni, pw, seen, event, queued, missed, changes>>

\* A failing call counts as a fault also where its error is only logged.
FaultIfOdd ==
    IF \/ w'.rules = "odd" /\ w.rules # "odd"
       \/ "odd" \in {w'.resolv, w'.backup} /\ "odd" \notin {w.resolv, w.backup}
    THEN Fault ELSE UNCHANGED faults

\* Mutant: the processes of the former mode are left alone.
StopOthersNone ==
    /\ rec.at = "stop"
    /\ IF rec.ni.mode = "disabled"
       THEN /\ w' \in {StopWifiInterface(x) : x \in StopBoth(w)}
            /\ Goto("finish")
       ELSE w' = w /\ Goto("iface")
    /\ Own
    /\ FaultIfOdd

\* What must not run in this mode is stopped.
StopOthers ==
    /\ rec.at = "stop"
    /\ CASE rec.ni.mode = "ap" -> w' \in StopStation(w) /\ Goto("iface")
         [] rec.ni.mode = "station" -> w' \in StopAccessPoint(w) /\ Goto("iface")
         [] OTHER -> /\ w' \in {StopWifiInterface(x) : x \in StopBoth(w)}
                     /\ Goto("finish")
    /\ Own
    /\ FaultIfOdd

StopFails ==
    /\ rec.at = "stop"
    /\ rec.ni.mode = "disabled"
    /\ Fault
    /\ w' \in StopBoth(w)
    /\ Error
    /\ Own

\* StartWifiInterface, updateWifiNetworkList, setWifiIfaceCountry, whose
\* Update also refreshes the copy of the resource.
StartWifiInterface ==
    /\ rec.at = "iface"
    /\ w' = IF w.started THEN w ELSE Restarted(w)
    /\ ni' = IF rec.ni.country THEN ni ELSE [ni EXCEPT !.country = TRUE]
    /\ event' = (event \/ ~rec.ni.country)
    /\ rec' = [rec EXCEPT !.at = "prepare",
                          !.ni = IF @.country THEN @ ELSE [ni' EXCEPT !.mode = rec.ni.mode]]
    /\ UNCHANGED <<pw, seen, queued, missed, changes, faults>>

StartWifiInterfaceFails ==
    /\ rec.at = "iface"
    /\ Fault
    /\ w' \in {w} \cup IF w.started THEN {} ELSE {Restarted(w)} \cup RestartFailed(w)
    /\ Error
    /\ Own

\* The password, then StartAccessPoint or StartStation up to the first Runner.
Prepare ==
    /\ rec.at = "prepare"
    /\ LET k == rec.ni.mode
           c == pw[k]
       IN  IF c = 0 THEN Error /\ UNCHANGED w
           ELSE /\ w' \in IF k = "ap" THEN PrepareAccessPoint(w, c) ELSE PrepareStation(w, c)
                /\ rec' = [rec EXCEPT !.at = "run", !.conf = c]
    /\ Own
    /\ FaultIfOdd

PrepareFails ==
    /\ rec.at = "prepare"
    /\ pw[rec.ni.mode] # 0
    /\ Fault
    /\ w' \in PrepareFailed(w, rec.ni.mode, pw[rec.ni.mode])
    /\ Error
    /\ Own

Run ==
    /\ rec.at = "run"
    /\ \E r \in StartRunner(w, rec.ni.mode, rec.conf) :
          /\ w' = r[1]
          /\ IF ~r[2] THEN Error
             ELSE Goto(IF rec.ni.mode = "ap" THEN "finish" ELSE "dhcpcd")
    /\ Own
    /\ UNCHANGED faults

RunDhcpcd ==
    /\ rec.at = "dhcpcd"
    /\ \E r \in StartRunner(w, "dhcpcd", 1) :
          w' = r[1] /\ IF r[2] THEN Goto("finish") ELSE Error
    /\ Own
    /\ UNCHANGED faults

\* StartProcess fails and Start panics, which controller-runtime recovers.
StartPanics ==
    /\ rec.at \in {"run", "dhcpcd"}
    /\ Fault
    /\ \E p \in Process : /\ p = IF rec.at = "run" THEN rec.ni.mode ELSE "dhcpcd"
                          /\ p \notin w.cool
                          /\ w' = [Halt(w, p) EXCEPT !.cool = @ \cup {p}]
    /\ queued' = TRUE
    /\ rec' = Idle
    /\ UNCHANGED <<ni, pw, seen, event, missed, changes>>

\* Mutant: an error is only shown in the status.
ReturnOnce(again) == rec' = Idle /\ queued' = (queued /\ again \in BOOLEAN)

Return(again) == rec' = Idle /\ queued' = (queued \/ again)

\* ensureIPAddress, which may find an address or not; then the error in the
\* status.  An error is tried again.
Finish ==
    /\ rec.at = "finish"
    /\ \E found \in BOOLEAN :
          LET asks == ~rec.err /\ rec.ni.up /\ ~rec.ni.ip
              err == rec.err \/ (asks /\ ~found)
              old == IF asks /\ found THEN ni.err ELSE rec.ni.err
          IN  /\ ni' = [ni EXCEPT !.ip = @ \/ (asks /\ found),
                                  !.err = IF err # old THEN err ELSE @]
              /\ event' = (event \/ (asks /\ found) \/ err # old)
              /\ Return(err)
    /\ UNCHANGED <<w, pw, seen, missed, changes, faults>>

FinishFails ==
    /\ rec.at = "finish"
    /\ Fault
    /\ Return(TRUE)
    /\ UNCHANGED <<w, ni, pw, seen, event, missed, changes>>

-----------------------------------------------------------------------------
ReconcileStep ==
    \/ Begin \/ StopOthers \/ StartWifiInterface \/ Prepare \/ Run \/ RunDhcpcd \/ Finish

ReconcileFails ==
    StopFails \/ StartWifiInterfaceFails \/ PrepareFails \/ StartPanics \/ FinishFails

Next ==
    \/ SetMode \/ LinkUpdate \/ (\E k \in {"ap", "station"} : SetPassword(k))
    \/ Deliver \/ WriteResolvConf \/ Report \/ ReportLost
    \/ \E p \in Process : CooldownOver(p) \/ ProcessExits(p)
    \/ ReconcileStep \/ ReconcileFails

Spec == Init /\ [][Next]_vars

(***************************************************************************)
(* The watch, the worker and the Reporters run, and time passes.  Nothing  *)
(* is assumed of users, links, processes and failing calls.                *)
(***************************************************************************)
Fairness ==
    /\ WF_vars(Deliver) /\ WF_vars(ReconcileStep) /\ WF_vars(Report)
    /\ \A p \in Process : WF_vars(CooldownOver(p))

FairSpec == Spec /\ Fairness

-----------------------------------------------------------------------------
(* Properties *)

(***************************************************************************)
(* hostapd and wpa_supplicant, which would fight for the interface, never  *)
(* run together, nor does a station with the forwarding rules of the       *)
(* access point, in whatever mode the last reconciliation has ended; the   *)
(* rules are "odd", though, since iptables has failed and until they have  *)
(* been added or removed without a failure.                                *)
(***************************************************************************)
OneModeAtATime ==
    /\ w.proc["ap"] # 0 => w.proc["station"] = 0 /\ w.proc["dhcpcd"] = 0
    /\ w.proc["station"] # 0 => w.rules # "all"

Off(p) == w.proc[p] = 0

\* A truncated configuration, which is never written again, is an exception.
Runs(k) == pw[k] \in w.torn[k] \/ w.proc[k] = pw[k]

Matches ==
    CASE ni.mode = "ap" -> Runs("ap") /\ w.rules # "none" /\ Off("station") /\ Off("dhcpcd")
      [] ni.mode = "station" -> pw["station"] # 0 =>
            /\ Runs("station") /\ (Off("dhcpcd") => pw["station"] \in w.torn["station"])
            /\ Off("ap") /\ w.rules # "all"
      [] OTHER -> Off("ap") /\ Off("station") /\ Off("dhcpcd") /\ w.rules # "all" /\ ~w.started

(***************************************************************************)
(* When changes and faults stop, what runs becomes what the resource and   *)
(* the password ask for and stays so: neither the mode that Wifi remembers *)
(* nor the configuration files that exist already mislead the next         *)
(* attempt, and no cooldown is forgotten - except for a new password or a  *)
(* lost report that no event follows, a configuration that was truncated   *)
(* (Runs) and rules that iptables failed to change ("odd").                *)
(***************************************************************************)
WifiSettles == <>[](missed \/ Matches)

(***************************************************************************)
(* An access point has its address, and the resolv.conf from before the    *)
(* station mode is back.  The exceptions are a restart that failed while   *)
(* it was an access point already: w.mode then keeps the next attempt from *)
(* adding the address again; and a failing copy of resolv.conf ("odd"):    *)
(* one that was restored is restored by the next Reconcile that finds no   *)
(* station wanted, but a backup is not made again.                         *)
(***************************************************************************)
Addressed ==
    /\ ni.mode = "ap" => w.addr \/ w.lost
    /\ ni.mode # "station" => w.resolv # "dhcp"

\* The address and resolv.conf settle too, however often the station was
\* configured anew and whenever dhcpcd last wrote resolv.conf.
AddressesSettle == <>[](missed \/ Addressed)

\* Nobody has anything to do about the interface.
AtRest == ~event /\ ~queued /\ ~w.report /\ rec.at = "idle"

(***************************************************************************)
(* No wake-up is missed but the ones that the code does not send: whenever *)
(* all have come to rest, the daemons, the rules, the address and          *)
(* resolv.conf are what the resource and the password ask for, however     *)
(* often a switch of the mode has failed half way before - with the        *)
(* exceptions named above: missed, w.lost, w.torn, and what is "odd".      *)
(***************************************************************************)
RestIsRight == AtRest => missed \/ (Matches /\ Addressed)
=============================================================================
