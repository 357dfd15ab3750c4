-------------------------------- MODULE Wifi --------------------------------
(***************************************************************************)
(* Wifi (pkg/wifi): the wifi interface of the device and the processes     *)
(* that make it an access point (hostapd) or a station (wpa_supplicant and *)
(* dhcpcd), with the iptables rules and the resolv.conf that go with them. *)
(*                                                                         *)
(* Its one caller is the NetworkInterfaceReconciler, so that an operation  *)
(* is a function from the state w to the states it can lead to.  Each      *)
(* process has a Runner (see module Runner), whose Start and Stop return   *)
(* only when the old process is gone.                                      *)
(*                                                                         *)
(* Errors of iptables, and of the copies of resolv.conf, are only logged.  *)
(* What such a call leaves behind is "odd": any of the rules, each there   *)
(* or not or twice; a file with any content, or no file.                   *)
(*                                                                         *)
(* Abstracted: a configuration is the number of the password in it; the    *)
(* copy of resolv.conf on the host; the list of networks a scan finds.     *)
(***************************************************************************)
EXTENDS Naturals

CONSTANT MaxConf   \* bound: passwords of a kind
ASSUME ConfAssumption == MaxConf \in Nat \ {0}

Process == {"ap", "station", "dhcpcd"}
Conf == 1..MaxConf

Wifi ==
    [mode : {"", "disabled", "station", "ap"},
     started : BOOLEAN,                \* wifiIfaceStarted
     addr : BOOLEAN,                   \* the interface has the address of the access point
     lost : BOOLEAN,                   \* history: an access point lost it in a failed restart
     files : [{"ap", "station"} -> SUBSET Conf],    \* configuration files in /tmp
     torn : [{"ap", "station"} -> SUBSET Conf],     \* those that were not written completely
     proc : [Process -> {0} \cup Conf],             \* the configuration it runs with, 0: none
     cool : SUBSET Process,            \* the Runners that would refuse a Start
     report : BOOLEAN,                 \* there are reports the Reporters have not handled
     rules : {"none", "all", "odd"},   \* the iptables rules of the access point
     resolv : {"own", "dhcp", "odd"},  \* /etc/resolv.conf
     backup : {"none", "own", "dhcp", "odd"}]       \* its backup

NewWifi ==
    [mode |-> "", started |-> FALSE, addr |-> FALSE, lost |-> FALSE,
     files |-> [k \in {"ap", "station"} |-> {}], torn |-> [k \in {"ap", "station"} |-> {}],
     proc |-> [p \in Process |-> 0], cool |-> {}, report |-> FALSE,
     rules |-> "none", resolv |-> "own", backup |-> "none"]

-----------------------------------------------------------------------------
(* The Runners *)

\* The process p has ended, by itself or in Runner.Stop, and this is reported.
Ended(w, p) == [w EXCEPT !.proc[p] = 0, !.cool = @ \cup {p}, !.report = TRUE]

Halt(w, p) == IF w.proc[p] = 0 THEN w ELSE Ended(w, p)

Launched(w, p, c) == [w EXCEPT !.proc[p] = c, !.cool = @ \ {p}, !.report = TRUE]

\* Runner.Start: the state and whether it returned without an error.  After it
\* has ended another process it may or may not see the begin of its cooldown.
StartRunner(w, p, c) ==
    LET h == Halt(w, p)
    IN  IF w.proc[p] = c THEN {<<w, TRUE>>}
        ELSE {r \in {<<Launched(h, p, c), TRUE>>, <<h, FALSE>>} :
                IF r[2] THEN p \notin w.cool ELSE p \in h.cool}

-----------------------------------------------------------------------------
(* The interface *)

\* restartWifiInterface: link down, addresses flushed, link up, scan.
Restarted(w) == [w EXCEPT !.started = TRUE, !.addr = FALSE]

\* One of the commands or the scan fails.
HalfRestarted(w, a, s) ==
    [w EXCEPT !.lost = @ \/ (w.mode = "ap" /\ a # w.addr), !.addr = a, !.started = s]

RestartFailed(w) ==
    {HalfRestarted(w, w.addr, w.started), HalfRestarted(w, FALSE, w.started),
     HalfRestarted(w, FALSE, TRUE)}

\* StopWifiInterface.
StopWifiInterface(w) == [w EXCEPT !.started = FALSE]

-----------------------------------------------------------------------------
(* The access point *)

\* delIPTablesRule takes any error of `iptables -C' for "no such rule".
RulesRemoved(w) ==
    {[w EXCEPT !.rules = r] : r \in IF w.rules = "none" THEN {"none"} ELSE {"none", "odd"}}

\* addIPTablesRule does, too: it may add a rule twice, or not at all.
RulesInstalled(w) == {[w EXCEPT !.rules = r] : r \in {"all", "odd"}}

\* The error of the restart is only logged.
StopAccessPoint(w) ==
    UNION {LET v == Halt(u, "ap")
           IN  IF v.mode # "ap" THEN {v}
               ELSE {[x EXCEPT !.mode = "disabled", !.lost = FALSE] :
                        x \in {Restarted(v)} \cup RestartFailed(v)} : u \in RulesRemoved(w)}

\* The configuration file is named after its content: it has changed if there
\* is no such file yet.
WithFile(w, k, c) == [w EXCEPT !.files[k] = @ \cup {c}]

\* os.WriteFile fails half way.  What there is of the file is not removed.
WithTornFile(w, k, c) == [WithFile(w, k, c) EXCEPT !.torn[k] = @ \cup {c}]

\* The process runs with such a file, or tries to.
Misled(w, p) == p # "dhcpcd" /\ w.proc[p] \in w.torn[p]

MustRestart(w, k, c) == c \notin w.files[k] \/ w.mode # k

\* Mutant: the address is not added again after a restart.
AccessPointUpNoAddr(w, c) == [Restarted(w) EXCEPT !.mode = "ap", !.lost = FALSE]

\* ip addr add.
AccessPointUp(w, c) == [Restarted(w) EXCEPT !.addr = TRUE, !.lost = FALSE, !.mode = "ap"]

\* StartAccessPoint up to ap.Start.
PrepareAccessPoint(w, c) ==
    LET v == WithFile(w, "ap", c)
    IN  RulesInstalled(IF MustRestart(w, "ap", c) THEN AccessPointUp(v, c) ELSE v)

-----------------------------------------------------------------------------
(* The station *)

\* restoreResolvConf.  The mode stays what it was.
StopStation(w) ==
    LET v == Halt(Halt(w, "station"), "dhcpcd")
    IN  IF v.backup = "none" THEN {v}
        ELSE {[v EXCEPT !.resolv = r] : r \in {v.backup, "odd"}}

\* Mutant: the backup is made anew each time.
backupResolvConfAlways(w) == {[w EXCEPT !.backup = b] : b \in {w.resolv, "odd"}}

\* An odd backup is there or not, so that the one that is made then, of what
\* dhcpcd has written meanwhile, is not any better.
backupResolvConf(w) ==
    IF w.backup = "none" THEN {[w EXCEPT !.backup = b] : b \in {w.resolv, "odd"}} ELSE {w}

\* StartStation up to station.Start.
PrepareStation(w, c) ==
    LET v == WithFile(w, "station", c)
    IN  IF MustRestart(w, "station", c)
        THEN {[Halt(Restarted(x), "station") EXCEPT !.mode = "station"] :
                 x \in backupResolvConf(v)}
        ELSE {v}

\* Either preparation ends where writing the file, the restart or what follows
\* it fails.
PrepareFailed(w, k, c) ==
    LET v == WithFile(w, k, c)
    IN  {w} \cup (IF c \in w.files[k] THEN {} ELSE {WithTornFile(w, k, c)})
            \cup (IF ~MustRestart(w, k, c) THEN {}
                  ELSE UNION {RestartFailed(x) :
                                x \in IF k = "station" THEN backupResolvConf(v) ELSE {v}})

\* StopStation, then StopAccessPoint.
StopBoth(w) == UNION {StopAccessPoint(x) : x \in StopStation(w)}
=============================================================================
