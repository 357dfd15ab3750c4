----------------------- MODULE NetworkInterfaceProofs -----------------------
(***************************************************************************)
(* Proofs about NetworkInterface, for any number of passwords, changes and *)
(* faults.  The lemmas say what each operation of Wifi does to the         *)
(* processes and to the iptables rules, and, further below, to the         *)
(* address, resolv.conf and its backup; the calls whose errors are only    *)
(* logged leave the rules and these files "odd".                           *)
(***************************************************************************)
EXTENDS NetworkInterface, TLAPS

Kind == {"ap", "station"}

\* x is a Wifi with the processes and the rules of v.
Same(v, x) == x \in Wifi /\ x.proc = v.proc /\ x.rules = v.rules

-----------------------------------------------------------------------------
(* The operations of Wifi *)

\* Ended: the process, and nothing else, is gone.
LEMMA EndedFact ==
    ASSUME NEW v \in Wifi, NEW p \in Process
    PROVE  /\ Ended(v, p) \in Wifi
           /\ Ended(v, p).proc = [v.proc EXCEPT ![p] = 0]
           /\ Ended(v, p).rules = v.rules
           /\ Ended(v, p).mode = v.mode
BY DEF Wifi, Ended, Process

\* Halt, Runner.Stop: the same if there was none.
LEMMA HaltFact ==
    ASSUME NEW v \in Wifi, NEW p \in Process
    PROVE  /\ Halt(v, p) \in Wifi
           /\ Halt(v, p).proc = [v.proc EXCEPT ![p] = 0]
           /\ Halt(v, p).rules = v.rules
           /\ Halt(v, p).mode = v.mode
<1>1. CASE v.proc[p] = 0
  <2>1. v.proc \in [Process -> {0} \cup Conf]
    BY DEF Wifi
  <2>2. v.proc = [v.proc EXCEPT ![p] = 0]
    BY <1>1, <2>1
  <2> QED
    BY <1>1, <2>2 DEF Halt
<1>2. CASE v.proc[p] # 0
  BY <1>2, EndedFact DEF Halt
<1> QED
  BY <1>1, <1>2

\* Runner.Start runs the process with the configuration, or none.
LEMMA StartRunnerFact ==
    ASSUME NEW v \in Wifi, NEW p \in Process, NEW c \in Conf, NEW r \in StartRunner(v, p, c)
    PROVE  /\ r[1] \in Wifi
           /\ \E d \in {0, c} : r[1].proc = [v.proc EXCEPT ![p] = d]
           /\ r[1].rules = v.rules
<1> DEFINE h == Halt(v, p)
<1>1. /\ h \in Wifi
      /\ h.proc = [v.proc EXCEPT ![p] = 0]
      /\ h.rules = v.rules
  BY HaltFact
<1>2. v.proc \in [Process -> {0} \cup Conf]
  BY DEF Wifi
<1>3. CASE v.proc[p] = c
  <2>1. r = <<v, TRUE>>
    BY <1>3 DEF StartRunner
  <2>2. v.proc = [v.proc EXCEPT ![p] = c]
    BY <1>2, <1>3
  <2> QED
    BY <2>1, <2>2
<1>4. CASE v.proc[p] # c
  <2>1. r \in {<<Launched(h, p, c), TRUE>>, <<h, FALSE>>}
    BY <1>4 DEF StartRunner
  <2>2. /\ Launched(h, p, c) \in Wifi
        /\ Launched(h, p, c).proc = [h.proc EXCEPT ![p] = c]
        /\ Launched(h, p, c).rules = h.rules
    <3> HIDE DEF h
    <3> QED
      BY <1>1 DEF Launched, Wifi
  <2>3. [h.proc EXCEPT ![p] = c] = [v.proc EXCEPT ![p] = c]
    BY <1>1, <1>2
  <2>4. r[1] = Launched(h, p, c) \/ r[1] = h
    <3>1. CASE r = <<Launched(h, p, c), TRUE>>
      BY <3>1
    <3>2. CASE r = <<h, FALSE>>
      BY <3>2
    <3> QED
      BY <2>1, <3>1, <3>2
  <2> QED
    BY <1>1, <2>2, <2>3, <2>4
<1> QED
  BY <1>3, <1>4

\* What Reconcile remembers between two calls.
LEMMA IdleFact ==
    /\ Idle \in [at : Step, ni : NI, conf : 0..MaxConf, err : BOOLEAN]
    /\ Idle.at = "idle"
BY ConfAssumption DEF Idle, New, NI, Step

\* A restart of the interface concerns no process.
LEMMA RestartFact ==
    ASSUME NEW v \in Wifi
    PROVE  /\ Same(v, Restarted(v)) /\ Restarted(v).mode = v.mode
           /\ \A x \in RestartFailed(v) : Same(v, x) /\ x.mode = v.mode
<1>1. Same(v, Restarted(v)) /\ Restarted(v).mode = v.mode
  BY DEF Wifi, Restarted, Same
<1>2. ASSUME NEW a \in BOOLEAN, NEW s \in BOOLEAN
      PROVE  Same(v, HalfRestarted(v, a, s)) /\ HalfRestarted(v, a, s).mode = v.mode
  <2> DEFINE l == v.lost \/ (v.mode = "ap" /\ a # v.addr)
  <2>1. l \in BOOLEAN
    BY DEF Wifi
  <2>2. HalfRestarted(v, a, s) = [v EXCEPT !.lost = l, !.addr = a, !.started = s]
    BY DEF HalfRestarted
  <2> HIDE DEF l
  <2> QED
    BY <2>1, <2>2 DEF Wifi, Same
<1>3. v.addr \in BOOLEAN /\ v.started \in BOOLEAN
  BY DEF Wifi
<1> QED
  BY <1>1, <1>2, <1>3 DEF RestartFailed

\* StopAccessPoint: hostapd is gone, and the rules are, unless iptables failed.
LEMMA StopAccessPointFact ==
    ASSUME NEW v \in Wifi, NEW x \in StopAccessPoint(v)
    PROVE  x \in Wifi /\ x.proc = [v.proc EXCEPT !["ap"] = 0] /\ x.rules # "all"
<1> DEFINE S(h) == {[y EXCEPT !.mode = "disabled", !.lost = FALSE] :
                       y \in {Restarted(h)} \cup RestartFailed(h)}
<1>0. PICK u \in RulesRemoved(v) : x \in IF Halt(u, "ap").mode # "ap" THEN {Halt(u, "ap")}
                                         ELSE S(Halt(u, "ap"))
  BY DEF StopAccessPoint
<1> DEFINE h == Halt(u, "ap")
<1>1. u \in Wifi /\ u.proc = v.proc /\ u.rules # "all"
  <2>1. PICK r \in {"none", "odd"} : u = [v EXCEPT !.rules = r]
    BY DEF RulesRemoved
  <2> QED  BY <2>1 DEF Wifi
<1>2. h \in Wifi /\ h.proc = [v.proc EXCEPT !["ap"] = 0] /\ h.rules # "all"
  BY <1>1, HaltFact DEF Process
<1>3. CASE x = h
  BY <1>2, <1>3
<1>4. CASE x \in {[y EXCEPT !.mode = "disabled", !.lost = FALSE] : y \in {Restarted(h)} \cup RestartFailed(h)}
  <2>1. PICK y \in {Restarted(h)} \cup RestartFailed(h) : x = [y EXCEPT !.mode = "disabled", !.lost = FALSE]
    BY <1>4
  <2>2. Same(h, y)
    BY <1>2, <2>1, RestartFact
  <2>3. x \in Wifi /\ x.proc = y.proc /\ x.rules = y.rules
    BY <2>1, <2>2 DEF Same, Wifi
  <2> QED
    BY <1>2, <2>2, <2>3 DEF Same
<1> HIDE DEF h
<1>5. x = h \/ x \in S(h)
  BY <1>0 DEF h
<1> QED
  BY <1>3, <1>4, <1>5

\* StopStation: wpa_supplicant and dhcpcd are gone.
LEMMA StopStationFact ==
    ASSUME NEW v \in Wifi, NEW x \in StopStation(v)
    PROVE  /\ x \in Wifi
           /\ x.proc = [v.proc EXCEPT !["station"] = 0, !["dhcpcd"] = 0]
           /\ x.rules = v.rules
<1> DEFINE h == Halt(Halt(v, "station"), "dhcpcd")
<1>1. /\ h \in Wifi
      /\ h.proc = [v.proc EXCEPT !["station"] = 0, !["dhcpcd"] = 0]
      /\ h.rules = v.rules
  <2> DEFINE g == Halt(v, "station")
  <2>1. g \in Wifi /\ g.proc = [v.proc EXCEPT !["station"] = 0] /\ g.rules = v.rules
    BY HaltFact DEF Process
  <2>2. h \in Wifi /\ h.proc = [g.proc EXCEPT !["dhcpcd"] = 0] /\ h.rules = g.rules
    BY <2>1, HaltFact DEF Process
  <2> QED
    BY <2>1, <2>2
<1>2. x = h \/ (h.backup # "none" /\ \E r \in {h.backup, "odd"} : x = [h EXCEPT !.resolv = r])
  BY DEF StopStation
<1> HIDE DEF h
<1>3. \A r \in {h.backup, "odd"} : h.backup # "none" => Same(h, [h EXCEPT !.resolv = r])
  BY <1>1 DEF Wifi, Same
<1> QED
  BY <1>1, <1>2, <1>3 DEF Same

\* Both, one after the other.
LEMMA StopBothFact ==
    ASSUME NEW v \in Wifi, NEW x \in StopBoth(v)
    PROVE  /\ x \in Wifi /\ x.rules # "all"
           /\ x.proc["ap"] = 0 /\ x.proc["station"] = 0 /\ x.proc["dhcpcd"] = 0
<1>1. PICK s \in StopStation(v) : x \in StopAccessPoint(s)
  BY DEF StopBoth
<1>2. s \in Wifi /\ s.proc = [v.proc EXCEPT !["station"] = 0, !["dhcpcd"] = 0]
  BY StopStationFact
<1>3. x \in Wifi /\ x.rules # "all" /\ x.proc = [s.proc EXCEPT !["ap"] = 0]
  BY <1>1, <1>2, StopAccessPointFact
<1>4. v.proc \in [Process -> {0} \cup Conf]
  BY DEF Wifi
<1> QED
  BY <1>2, <1>3, <1>4 DEF Process

\* backupResolvConf, which may fail.
LEMMA BackupFact ==
    ASSUME NEW v \in Wifi, NEW x \in backupResolvConf(v)
    PROVE  Same(v, x)
<1>1. x = v \/ \E b \in {v.resolv, "odd"} : x = [v EXCEPT !.backup = b]
  BY DEF backupResolvConf
<1> QED
  BY <1>1 DEF Wifi, Same

\* PrepareAccessPoint tries to add the rules.
LEMMA PrepareAccessPointFact ==
    ASSUME NEW v \in Wifi, NEW c \in Conf, NEW x \in PrepareAccessPoint(v, c)
    PROVE  x \in Wifi /\ x.proc = v.proc /\ x.rules # "none"
<1> DEFINE f == WithFile(v, "ap", c)
           y == IF MustRestart(v, "ap", c) THEN AccessPointUp(f, c) ELSE f
<1>1. f \in Wifi /\ f.proc = v.proc
  BY DEF Wifi, WithFile
<1>2. AccessPointUp(f, c) \in Wifi /\ AccessPointUp(f, c).proc = f.proc
  <2> HIDE DEF f
  <2> QED
    BY <1>1 DEF Wifi, AccessPointUp, Restarted
<1>3. y \in Wifi /\ y.proc = v.proc
  BY <1>1, <1>2
<1>4. x \in RulesInstalled(y)
  BY DEF PrepareAccessPoint
<1> HIDE DEF y
<1>5. PICK r \in {"all", "odd"} : x = [y EXCEPT !.rules = r]
  BY <1>4 DEF RulesInstalled
<1> QED
  BY <1>3, <1>5 DEF Wifi

\* PrepareStation may end wpa_supplicant.
LEMMA PrepareStationFact ==
    ASSUME NEW v \in Wifi, NEW c \in Conf, NEW x \in PrepareStation(v, c)
    PROVE  /\ x \in Wifi /\ x.rules = v.rules
           /\ x.proc = v.proc \/ x.proc = [v.proc EXCEPT !["station"] = 0]
<1> DEFINE f == WithFile(v, "station", c)
<1>1. Same(v, f)
  BY DEF Wifi, WithFile, Same
<1>2. CASE x = f
  BY <1>1, <1>2 DEF Same
<1>3. ASSUME NEW b \in backupResolvConf(f),
             x = [Halt(Restarted(b), "station") EXCEPT !.mode = "station"]
      PROVE  x \in Wifi /\ x.rules = v.rules /\ x.proc = [v.proc EXCEPT !["station"] = 0]
  <2> HIDE DEF f
  <2>1. Same(f, b)
    BY <1>1, BackupFact DEF Same
  <2>2. Same(v, Restarted(b))
    BY <1>1, <2>1, RestartFact DEF Same
  <2> DEFINE h == Halt(Restarted(b), "station")
  <2>3. h \in Wifi /\ h.rules = v.rules /\ h.proc = [v.proc EXCEPT !["station"] = 0]
    BY <2>2, HaltFact DEF Same, Process
  <2> HIDE DEF h
  <2>4. x = [h EXCEPT !.mode = "station"]
    BY <1>3 DEF h
  <2> QED
    BY <2>3, <2>4 DEF Wifi
<1> QED
  BY <1>2, <1>3 DEF PrepareStation

\* Where either fails the processes and the rules are left alone.
LEMMA PrepareFailedFact ==
    ASSUME NEW v \in Wifi, NEW k \in Kind, NEW c \in Conf, NEW x \in PrepareFailed(v, k, c)
    PROVE  Same(v, x)
<1> DEFINE f == WithFile(v, k, c)
<1>1. Same(v, f)
  BY DEF Wifi, WithFile, Same, Kind
<1>2. Same(v, WithTornFile(v, k, c))
  <2>1. WithTornFile(v, k, c) = [f EXCEPT !.torn[k] = f.torn[k] \cup {c}]
    BY DEF WithTornFile
  <2> HIDE DEF f
  <2>2. f \in Wifi /\ Same(f, [f EXCEPT !.torn[k] = f.torn[k] \cup {c}])
    BY <1>1 DEF Wifi, Same, Kind
  <2> QED
    BY <1>1, <2>1, <2>2 DEF Same
<1>3. ASSUME NEW y \in (IF k = "station" THEN backupResolvConf(f) ELSE {f}), x \in RestartFailed(y)
      PROVE  Same(v, x)
  <2>1. Same(f, y)
    <3> HIDE DEF f
    <3> QED
      BY <1>1, <1>3, BackupFact DEF Same
  <2> QED
    BY <1>1, <1>3, <2>1, RestartFact DEF Same
<1>4. \/ x = v \/ x = WithTornFile(v, k, c)
      \/ \E y \in (IF k = "station" THEN backupResolvConf(f) ELSE {f}) : x \in RestartFailed(y)
  BY DEF PrepareFailed
<1>5. CASE x = v
  BY <1>5 DEF Same
<1> QED
  BY <1>2, <1>3, <1>4, <1>5

-----------------------------------------------------------------------------
(* Type correctness *)

\* Boolean fields are set to Boolean values.
LEMMA NIFact ==
    ASSUME NEW x \in NI, NEW b \in BOOLEAN, NEW d \in BOOLEAN
    PROVE  /\ [x EXCEPT !.country = TRUE] \in NI
           /\ [x EXCEPT !.up = b, !.ip = d] \in NI
           /\ [x EXCEPT !.ip = b, !.err = d] \in NI
           /\ \A m \in {"disabled", "station", "ap"} : [x EXCEPT !.mode = m] \in NI
BY DEF NI

\* What Reconcile knows while it is on its way to start something.
RecInv ==
    /\ rec.at \in {"iface", "prepare", "run", "dhcpcd"} => rec.ni.mode \in Kind
    /\ rec.at = "dhcpcd" => rec.ni.mode = "station"
    /\ rec.at = "run" => rec.conf \in Conf

\* A step of Reconcile keeps its variables in their types.
LEMMA RecFact ==
    ASSUME TypeOK
    PROVE  /\ \A l \in Step : [rec EXCEPT !.at = l] \in [at : Step, ni : NI, conf : 0..MaxConf,
                                                         err : BOOLEAN]
           /\ [rec EXCEPT !.at = "finish", !.err = TRUE] \in
                  [at : Step, ni : NI, conf : 0..MaxConf, err : BOOLEAN]
           /\ rec.ni \in NI /\ rec.ni.mode \in {"disabled", "station", "ap"}
           /\ rec.err \in BOOLEAN /\ rec.conf \in 0..MaxConf
BY DEF TypeOK, Step, NI

\* The steps that only users, links and processes make.
LEMMA EnvironmentType ==
    ASSUME TypeOK,
           \/ SetMode \/ LinkUpdate \/ (\E k \in Kind : SetPassword(k))
           \/ Deliver \/ WriteResolvConf \/ Report \/ ReportLost
           \/ \E p \in Process : CooldownOver(p) \/ ProcessExits(p)
    PROVE  TypeOK'
<1> USE BoundsAssumption, ConfAssumption
<1>0. /\ w \in Wifi /\ ni \in NI /\ seen \in NI
      /\ changes \in 0..MaxChanges /\ faults \in 0..MaxFaults
  BY DEF TypeOK
<1>1. CASE SetMode
  <2>1. ni' \in NI
    BY <1>0, <1>1, NIFact DEF SetMode
  <2> QED
    BY <1>0, <1>1, <2>1 DEF SetMode, Changed, TypeOK
<1>2. CASE LinkUpdate
  <2>1. PICK u, i \in BOOLEAN : ni' = [ni EXCEPT !.up = u, !.ip = u /\ i]
    BY <1>2 DEF LinkUpdate
  <2>2. (u /\ i) \in BOOLEAN
    OBVIOUS
  <2>3. ni' \in NI
    BY <1>0, <2>1, <2>2 DEF NI
  <2>4. Changed /\ event' = TRUE /\ UNCHANGED <<pw, missed>>
    BY <1>2 DEF LinkUpdate
  <2> QED
    BY <1>0, <2>3, <2>4 DEF Changed, TypeOK
<1>3. ASSUME NEW k \in Kind, SetPassword(k)
      PROVE  TypeOK'
  <2>1. pw' \in [Kind -> 0..MaxConf]
    BY <1>3 DEF SetPassword, TypeOK, Kind, Conf
  <2> QED
    BY <1>0, <1>3, <2>1 DEF SetPassword, Changed, TypeOK, Kind
<1>4. CASE Deliver
  BY <1>4 DEF Deliver, TypeOK
<1>5. CASE WriteResolvConf
  <2>1. w' \in Wifi
    BY <1>0, <1>5 DEF WriteResolvConf, Wifi
  <2> QED
    BY <1>5, <2>1 DEF WriteResolvConf, WifiOnly, TypeOK
<1>6. CASE Report
  <2>1. w' \in Wifi
    BY <1>0, <1>6 DEF Report, Wifi
  <2> QED
    BY <1>6, <2>1 DEF Report, TypeOK
<1>7. CASE ReportLost
  <2>1. w' \in Wifi
    BY <1>0, <1>7 DEF ReportLost, Wifi
  <2> QED
    BY <1>0, <1>7, <2>1 DEF ReportLost, Fault, TypeOK
<1>8. ASSUME NEW p \in Process, CooldownOver(p)
      PROVE  TypeOK'
  <2>1. w' \in Wifi
    BY <1>0, <1>8 DEF CooldownOver, Wifi
  <2> QED
    BY <1>8, <2>1 DEF CooldownOver, WifiOnly, TypeOK
<1>9. ASSUME NEW p \in Process, ProcessExits(p)
      PROVE  TypeOK'
  <2>1. w' \in Wifi
    BY <1>0, <1>9, EndedFact DEF ProcessExits
  <2>2. Fault \/ faults' = faults
    BY <1>9 DEF ProcessExits
  <2>3. faults' \in 0..MaxFaults
    BY <1>0, <2>2 DEF Fault
  <2> QED
    BY <1>0, <1>9, <2>1, <2>3 DEF ProcessExits, TypeOK
<1> QED
  BY <1>1, <1>2, <1>3, <1>4, <1>5, <1>6, <1>7, <1>8, <1>9

\* The steps of Reconcile and its failures.
LEMMA ReconcileType ==
    ASSUME TypeOK, RecInv, ReconcileStep \/ ReconcileFails
    PROVE  TypeOK'
<1> USE BoundsAssumption, ConfAssumption
<1> DEFINE Rec == [at : Step, ni : NI, conf : 0..MaxConf, err : BOOLEAN]
<1>0. /\ w \in Wifi /\ ni \in NI /\ seen \in NI /\ rec \in Rec
      /\ pw \in [Kind -> 0..MaxConf] /\ event \in BOOLEAN /\ queued \in BOOLEAN
      /\ missed \in BOOLEAN /\ changes \in 0..MaxChanges /\ faults \in 0..MaxFaults
  BY DEF TypeOK, Kind
<1>f. ASSUME Fault PROVE faults' \in 0..MaxFaults
  BY <1>0, <1>f DEF Fault
<1>g. ASSUME NEW l \in Step, Goto(l) PROVE rec' \in Rec
  BY <1>g, RecFact DEF Goto
<1>e. ASSUME Error PROVE rec' \in Rec
  BY <1>e, RecFact DEF Error
<1>own. ASSUME w' \in Wifi, rec' \in Rec, faults' \in 0..MaxFaults, Own PROVE TypeOK'
  BY <1>0, <1>own DEF Own, TypeOK, Kind
<1>odd. ASSUME FaultIfOdd PROVE faults' \in 0..MaxFaults
  <2>1. Fault \/ faults' = faults
    BY <1>odd DEF FaultIfOdd
  <2> QED
    BY <1>0, <1>f, <2>1
<1>1. CASE Begin
  <2>1. rec' \in Rec
    BY <1>0, <1>1 DEF Begin, Step
  <2> QED
    BY <1>0, <1>1, <2>1 DEF Begin, TypeOK, Kind
<1>2. CASE StopOthers
  <2>1. w' \in Wifi
    <3>1. \A x \in Wifi : StopWifiInterface(x) \in Wifi
      BY DEF StopWifiInterface, Wifi
    <3>2. CASE rec.ni.mode = "ap"
      BY <1>0, <1>2, <3>2, StopStationFact DEF StopOthers
    <3>3. CASE rec.ni.mode = "station"
      BY <1>0, <1>2, <3>3, StopAccessPointFact DEF StopOthers
    <3>4. CASE rec.ni.mode \notin {"ap", "station"}
      <4>1. PICK x \in StopBoth(w) : w' = StopWifiInterface(x)
        BY <1>2, <3>4 DEF StopOthers
      <4> QED
        BY <1>0, <3>1, <4>1, StopBothFact
    <3> QED
      BY <3>2, <3>3, <3>4
  <2>2. Goto("iface") \/ Goto("finish")
    BY <1>2 DEF StopOthers
  <2>3. Own /\ FaultIfOdd
    BY <1>2 DEF StopOthers
  <2> QED
    BY <1>g, <1>odd, <1>own, <2>1, <2>2, <2>3 DEF Step
<1>3. CASE StopFails
  <2>1. w' \in Wifi
    BY <1>0, <1>3, StopBothFact DEF StopFails
  <2> QED
    BY <1>3, <1>e, <1>f, <1>own, <2>1 DEF StopFails
<1>4. CASE StartWifiInterface
  <2>1. w' \in Wifi
    BY <1>0, <1>4, RestartFact DEF StartWifiInterface, Same
  <2>2. ni' \in NI
    BY <1>0, <1>4, NIFact DEF StartWifiInterface
  <2>3. [ni' EXCEPT !.mode = rec.ni.mode] \in NI
    BY <2>2, RecFact, NIFact
  <2>4. rec' \in Rec
    <3> DEFINE x == IF rec.ni.country THEN rec.ni ELSE [ni' EXCEPT !.mode = rec.ni.mode]
    <3>1. x \in NI
      BY <2>3, RecFact
    <3>2. rec' = [rec EXCEPT !.at = "prepare", !.ni = x]
      BY <1>4 DEF StartWifiInterface
    <3> HIDE DEF x
    <3> QED
      BY <1>0, <3>1, <3>2 DEF Step
  <2>5. event' \in BOOLEAN
    BY <1>4 DEF StartWifiInterface
  <2>6. UNCHANGED <<pw, seen, queued, missed, changes, faults>>
    BY <1>4 DEF StartWifiInterface
  <2> QED
    BY <1>0, <2>1, <2>2, <2>4, <2>5, <2>6 DEF TypeOK, Kind
<1>5. CASE StartWifiInterfaceFails
  <2>1. w' \in Wifi
    BY <1>0, <1>5, RestartFact DEF StartWifiInterfaceFails, Same
  <2> QED
    BY <1>5, <1>e, <1>f, <1>own, <2>1 DEF StartWifiInterfaceFails
<1>6. CASE Prepare
  <2> DEFINE k == rec.ni.mode
             c == pw[k]
  <2>1. Own /\ faults' \in 0..MaxFaults
    BY <1>6, <1>odd DEF Prepare
  <2>2. CASE c = 0
    BY <1>0, <1>6, <1>e, <1>own, <2>1, <2>2 DEF Prepare
  <2>3. CASE c # 0
    <3>1. /\ w' \in IF k = "ap" THEN PrepareAccessPoint(w, c) ELSE PrepareStation(w, c)
          /\ rec' = [rec EXCEPT !.at = "run", !.conf = c]
      BY <1>6, <2>3 DEF Prepare
    <3>2. c \in Conf
      BY <1>0, <1>6, <2>3 DEF Prepare, RecInv, Conf
    <3>3. w' \in Wifi
      BY <1>0, <3>1, <3>2, PrepareAccessPointFact, PrepareStationFact
    <3>4. rec' \in Rec
      <4>1. c \in 0..MaxConf
        BY <3>2 DEF Conf
      <4> HIDE DEF c
      <4> QED
        BY <1>0, <3>1, <4>1 DEF Step
    <3> QED
      BY <1>0, <1>own, <2>1, <3>3, <3>4
  <2> QED
    BY <2>2, <2>3
<1>7. CASE PrepareFails
  <2>1. pw[rec.ni.mode] \in Conf /\ rec.ni.mode \in Kind
    BY <1>0, <1>7 DEF PrepareFails, RecInv, Conf
  <2>2. w' \in Wifi
    BY <1>0, <1>7, <2>1, PrepareFailedFact DEF PrepareFails, Same
  <2> QED
    BY <1>7, <1>e, <1>f, <1>own, <2>2 DEF PrepareFails
<1>8. CASE Run
  <2>1. PICK r \in StartRunner(w, rec.ni.mode, rec.conf) :
            /\ w' = r[1]
            /\ Error \/ Goto("finish") \/ Goto("dhcpcd")
    BY <1>8 DEF Run
  <2>2. w' \in Wifi
    BY <1>0, <1>8, <2>1, StartRunnerFact DEF Run, RecInv, Kind, Process
  <2>3. Own /\ faults' = faults
    BY <1>8 DEF Run
  <2> QED
    BY <1>0, <1>e, <1>g, <1>own, <2>1, <2>2, <2>3 DEF Step
<1>9. CASE RunDhcpcd
  <2>1. PICK r \in StartRunner(w, "dhcpcd", 1) : w' = r[1] /\ (Error \/ Goto("finish"))
    BY <1>9 DEF RunDhcpcd
  <2>2. 1 \in Conf
    BY DEF Conf
  <2>3. w' \in Wifi
    BY <1>0, <2>1, <2>2, StartRunnerFact DEF Process
  <2>4. Own /\ faults' = faults
    BY <1>9 DEF RunDhcpcd
  <2> QED
    BY <1>0, <1>e, <1>g, <1>own, <2>1, <2>3, <2>4 DEF Step
<1>10. CASE StartPanics
  <2>1. PICK p \in Process : w' = [Halt(w, p) EXCEPT !.cool = @ \cup {p}]
    BY <1>10 DEF StartPanics
  <2>2. w' \in Wifi
    <3> DEFINE h == Halt(w, p)
    <3>1. h \in Wifi /\ w' = [h EXCEPT !.cool = h.cool \cup {p}]
      BY <1>0, <2>1, HaltFact
    <3> HIDE DEF h
    <3> QED
      BY <3>1 DEF Wifi
  <2>3. rec' = Idle /\ Fault /\ queued' = TRUE /\ UNCHANGED <<ni, pw, seen, event, missed, changes>>
    BY <1>10 DEF StartPanics
  <2>4. rec' \in Rec
    BY <2>3, IdleFact
  <2> QED
    BY <1>0, <1>f, <2>2, <2>3, <2>4 DEF TypeOK, Kind
<1>11. CASE Finish
  <2>1. PICK found \in BOOLEAN :
          LET asks == ~rec.err /\ rec.ni.up /\ ~rec.ni.ip
              err == rec.err \/ (asks /\ ~found)
              old == IF asks /\ found THEN ni.err ELSE rec.ni.err
          IN  /\ ni' = [ni EXCEPT !.ip = @ \/ (asks /\ found),
                                  !.err = IF err # old THEN err ELSE @]
              /\ event' = (event \/ (asks /\ found) \/ err # old)
              /\ Return(err)
    BY <1>11 DEF Finish
  <2> DEFINE asks == ~rec.err /\ rec.ni.up /\ ~rec.ni.ip
             err == rec.err \/ (asks /\ ~found)
             old == IF asks /\ found THEN ni.err ELSE rec.ni.err
             b == ni.ip \/ (asks /\ found)
             d == IF err # old THEN err ELSE ni.err
  <2>2. b \in BOOLEAN /\ d \in BOOLEAN /\ err \in BOOLEAN
    BY <1>0 DEF NI
  <2>3. ni' = [ni EXCEPT !.ip = b, !.err = d] /\ Return(err)
    BY <2>1
  <2>4. ni' \in NI
    <3> HIDE DEF b, d
    <3> QED
      BY <1>0, <2>2, <2>3, NIFact
  <2>5. event' \in BOOLEAN
    BY <2>1
  <2>6. queued' \in BOOLEAN /\ rec' = Idle
    BY <2>3 DEF Return
  <2>7. rec' \in Rec
    BY <2>6, IdleFact
  <2>8. UNCHANGED <<w, pw, seen, missed, changes, faults>>
    BY <1>11 DEF Finish
  <2> QED
    BY <1>0, <2>4, <2>5, <2>6, <2>7, <2>8 DEF TypeOK, Kind
<1>12. CASE FinishFails
  <2>1. rec' = Idle /\ queued' \in BOOLEAN
    BY <1>12 DEF FinishFails, Return
  <2>2. rec' \in Rec
    BY <2>1, IdleFact
  <2> QED
    BY <1>0, <1>f, <1>12, <2>1, <2>2 DEF FinishFails, TypeOK, Kind
<1> QED
  BY <1>1, <1>2, <1>3, <1>4, <1>5, <1>6, <1>7, <1>8, <1>9, <1>10, <1>11, <1>12
  DEF ReconcileStep, ReconcileFails

-----------------------------------------------------------------------------
(* One mode at a time *)

Starting == {"iface", "prepare", "run", "dhcpcd"}

\* What the mode Reconcile is about to start excludes is gone.
ModeInv ==
    /\ OneModeAtATime
    /\ rec.at \in Starting /\ rec.ni.mode = "ap" => Off("station") /\ Off("dhcpcd")
    /\ rec.at \in Starting /\ rec.ni.mode = "station" => Off("ap") /\ w.rules # "all"

IInv == TypeOK /\ RecInv /\ ModeInv

\* Processes that end and what leaves them alone does not disturb the invariant.
LEMMA FewerProcesses ==
    ASSUME IInv, rec' = rec, w' \in Wifi, w'.rules = w.rules,
           \A p \in Process : w'.proc[p] \in {0, w.proc[p]}
    PROVE  RecInv' /\ ModeInv'
<1>1. RecInv'
  BY DEF IInv, RecInv
<1>2. ModeInv'
  BY DEF IInv, ModeInv, OneModeAtATime, Off, Process
<1> QED
  BY <1>1, <1>2

\* The steps of the environment.
LEMMA EnvironmentInv ==
    ASSUME IInv,
           \/ SetMode \/ LinkUpdate \/ (\E k \in Kind : SetPassword(k))
           \/ Deliver \/ WriteResolvConf \/ Report \/ ReportLost
           \/ \E p \in Process : CooldownOver(p) \/ ProcessExits(p)
    PROVE  RecInv' /\ ModeInv'
<1>0. w \in Wifi /\ w.proc \in [Process -> {0} \cup Conf]
  BY DEF IInv, TypeOK, Wifi
<1>1. CASE SetMode \/ LinkUpdate \/ (\E k \in Kind : SetPassword(k)) \/ Deliver
  <2>1. UNCHANGED <<w, rec>>
    BY <1>1 DEF SetMode, LinkUpdate, SetPassword, Deliver, Changed
  <2> QED
    BY <1>0, <2>1, FewerProcesses
<1>2. CASE WriteResolvConf
  <2>1. rec' = rec /\ w' \in Wifi /\ w'.rules = w.rules /\ w'.proc = w.proc
    BY <1>0, <1>2 DEF WriteResolvConf, WifiOnly, Wifi
  <2> QED
    BY <2>1, FewerProcesses
<1>3. CASE Report \/ ReportLost
  <2>1. rec' = rec /\ w' \in Wifi /\ w'.rules = w.rules /\ w'.proc = w.proc
    BY <1>0, <1>3 DEF Report, ReportLost, Wifi
  <2> QED
    BY <2>1, FewerProcesses
<1>4. ASSUME NEW p \in Process, CooldownOver(p)
      PROVE  RecInv' /\ ModeInv'
  <2>1. rec' = rec /\ w' \in Wifi /\ w'.rules = w.rules /\ w'.proc = w.proc
    BY <1>0, <1>4 DEF CooldownOver, WifiOnly, Wifi
  <2> QED
    BY <2>1, FewerProcesses
<1>5. ASSUME NEW p \in Process, ProcessExits(p)
      PROVE  RecInv' /\ ModeInv'
  <2>1. rec' = rec /\ w' = Ended(w, p)
    BY <1>5 DEF ProcessExits
  <2>2. w' \in Wifi /\ w'.rules = w.rules /\ w'.proc = [w.proc EXCEPT ![p] = 0]
    BY <1>0, <2>1, EndedFact
  <2>3. \A q \in Process : w'.proc[q] \in {0, w.proc[q]}
    BY <1>0, <2>2
  <2> QED
    BY <2>1, <2>2, <2>3, FewerProcesses
<1> QED
  BY <1>1, <1>2, <1>3, <1>4, <1>5

\* The same when Reconcile ends or goes to its end.
LEMMA AtTheEnd ==
    ASSUME IInv, rec' \in [at : Step, ni : NI, conf : 0..MaxConf, err : BOOLEAN],
           rec'.at \in {"idle", "stop", "finish"}, w' \in Wifi,
           w'.rules # "all" \/ w'.rules = w.rules,
           \A p \in Process : w'.proc[p] \in {0, w.proc[p]}
    PROVE  RecInv' /\ ModeInv'
<1>1. RecInv'
  BY DEF RecInv
<1>2. ModeInv'
  BY DEF IInv, ModeInv, OneModeAtATime, Off, Process, Starting
<1> QED
  BY <1>1, <1>2

\* The same when Reconcile goes on in the same mode.
LEMMA GoesOn ==
    ASSUME IInv, rec.at \in Starting, rec'.at \in {"prepare", "run"},
           rec'.ni.mode = rec.ni.mode, rec'.at = "run" => rec'.conf \in Conf,
           w' \in Wifi, w'.rules = w.rules \/ rec.ni.mode = "ap",
           \A p \in Process : w'.proc[p] \in {0, w.proc[p]}
    PROVE  RecInv' /\ ModeInv'
<1>1. RecInv'
  BY DEF IInv, RecInv, Starting, Kind
<1>2. rec.ni.mode \in Kind
  BY DEF IInv, RecInv, Starting
<1>3. CASE rec.ni.mode = "ap"
  BY <1>1, <1>3 DEF IInv, ModeInv, OneModeAtATime, Off, Process, Starting
<1>4. CASE rec.ni.mode = "station"
  BY <1>1, <1>4 DEF IInv, ModeInv, OneModeAtATime, Off, Process, Starting
<1> QED
  BY <1>1, <1>2, <1>3, <1>4 DEF Kind

\* The steps of Reconcile and its failures: a process is started only when
\* those of the other mode are gone.
LEMMA ReconcileInv ==
    ASSUME IInv, TypeOK', ReconcileStep \/ ReconcileFails
    PROVE  RecInv' /\ ModeInv'
<1> USE ConfAssumption
<1> DEFINE Rec == [at : Step, ni : NI, conf : 0..MaxConf, err : BOOLEAN]
<1>0. /\ w \in Wifi /\ w.proc \in [Process -> {0} \cup Conf]
      /\ w' \in Wifi /\ rec \in Rec /\ rec' \in Rec /\ TypeOK /\ RecInv
  BY DEF IInv, TypeOK, Wifi
<1>g. ASSUME NEW l \in Step, Goto(l) PROVE rec'.at = l /\ rec'.ni = rec.ni
  BY <1>0, <1>g DEF Goto
<1>e. ASSUME Error PROVE rec'.at = "finish"
  BY <1>0, <1>e DEF Error
<1>1. CASE Begin
  <2>1. rec'.at = "stop" /\ w' = w
    BY <1>1 DEF Begin
  <2> QED
    BY <1>0, <2>1, AtTheEnd
<1>2. CASE StopOthers
  <2>1. CASE rec.ni.mode = "ap"
    <3>1. w' \in StopStation(w) /\ Goto("iface")
      BY <1>2, <2>1 DEF StopOthers
    <3>2. w'.proc["station"] = 0 /\ w'.proc["dhcpcd"] = 0
      <4>1. w'.proc = [w.proc EXCEPT !["station"] = 0, !["dhcpcd"] = 0]
        BY <1>0, <3>1, StopStationFact
      <4> QED
        BY <1>0, <4>1 DEF Process
    <3>3. rec'.at = "iface" /\ rec'.ni = rec.ni
      BY <3>1, <1>g DEF Step
    <3> QED
      BY <2>1, <3>2, <3>3 DEF RecInv, ModeInv, OneModeAtATime, Off, Kind, Starting
  <2>2. CASE rec.ni.mode = "station"
    <3>1. w' \in StopAccessPoint(w) /\ Goto("iface")
      BY <1>2, <2>2 DEF StopOthers
    <3>2. w'.proc["ap"] = 0 /\ w'.rules # "all"
      <4>1. w'.proc = [w.proc EXCEPT !["ap"] = 0] /\ w'.rules # "all"
        BY <1>0, <3>1, StopAccessPointFact
      <4> QED
        BY <1>0, <4>1 DEF Process
    <3>3. rec'.at = "iface" /\ rec'.ni = rec.ni
      BY <3>1, <1>g DEF Step
    <3> QED
      BY <2>2, <3>2, <3>3 DEF RecInv, ModeInv, OneModeAtATime, Off, Kind, Starting
  <2>3. CASE rec.ni.mode \notin Kind
    <3>1. PICK x \in StopBoth(w) : w' = StopWifiInterface(x)
      BY <1>2, <2>3 DEF StopOthers, Kind
    <3>2. x \in Wifi /\ x.proc["ap"] = 0 /\ x.proc["station"] = 0
      BY <1>0, <3>1, StopBothFact
    <3>3. w'.proc = x.proc
      BY <3>1, <3>2 DEF StopWifiInterface, Wifi
    <3>4. Goto("finish")
      BY <1>2, <2>3 DEF StopOthers, Kind
    <3>5. rec'.at = "finish"
      BY <3>4, <1>g DEF Step
    <3> QED
      BY <3>2, <3>3, <3>5 DEF RecInv, ModeInv, OneModeAtATime, Starting
  <2> QED
    BY <2>1, <2>2, <2>3 DEF Kind
<1>3. CASE StopFails
  <2>1. w'.proc["ap"] = 0 /\ w'.proc["station"] = 0
    BY <1>0, <1>3, StopBothFact DEF StopFails
  <2>2. rec'.at = "finish"
    BY <1>3, <1>e DEF StopFails
  <2> QED
    BY <2>1, <2>2 DEF RecInv, ModeInv, OneModeAtATime, Starting
<1>4. CASE StartWifiInterface
  <2>1. w'.proc = w.proc /\ w'.rules = w.rules
    BY <1>0, <1>4, RestartFact DEF StartWifiInterface, Same
  <2>2. rec.at = "iface" /\ rec'.at = "prepare"
    BY <1>0, <1>4 DEF StartWifiInterface
  <2>3. rec'.ni.mode = rec.ni.mode
    <3>1. ni' \in NI /\ rec.ni \in NI
      BY RecFact DEF TypeOK, IInv
    <3>2. rec'.ni = IF rec.ni.country THEN rec.ni ELSE [ni' EXCEPT !.mode = rec.ni.mode]
      BY <1>0, <1>4 DEF StartWifiInterface
    <3> QED
      BY <3>1, <3>2 DEF NI
  <2> QED
    BY <1>0, <2>1, <2>2, <2>3, GoesOn DEF Starting
<1>5. CASE StartWifiInterfaceFails
  <2>1. w'.proc = w.proc /\ w'.rules = w.rules
    BY <1>0, <1>5, RestartFact DEF StartWifiInterfaceFails, Same
  <2>2. rec'.at = "finish"
    BY <1>5, <1>e DEF StartWifiInterfaceFails
  <2> QED
    BY <1>0, <2>1, <2>2, AtTheEnd
<1>6. CASE Prepare
  <2> DEFINE k == rec.ni.mode
             c == pw[k]
  <2>1. CASE c = 0
    <3>1. Error /\ w' = w
      BY <1>6, <2>1 DEF Prepare
    <3> QED
      BY <1>0, <1>e, <3>1, AtTheEnd
  <2>2. CASE c # 0
    <3>1. /\ w' \in IF k = "ap" THEN PrepareAccessPoint(w, c) ELSE PrepareStation(w, c)
          /\ rec' = [rec EXCEPT !.at = "run", !.conf = c]
          /\ rec.at = "prepare"
      BY <1>6, <2>2 DEF Prepare
    <3>2. c \in Conf
      BY <1>0, <2>2, <3>1 DEF TypeOK, RecInv, Kind, Conf
    <3>3. rec'.at = "run" /\ rec'.ni = rec.ni /\ rec'.conf = c
      BY <1>0, <3>1
    <3> HIDE DEF c
    <3>4. /\ w'.rules = w.rules \/ rec.ni.mode = "ap"
          /\ w'.proc \in {w.proc, [w.proc EXCEPT !["station"] = 0]}
      BY <1>0, <3>1, <3>2, PrepareAccessPointFact, PrepareStationFact
    <3>5. \A p \in Process : w'.proc[p] \in {0, w.proc[p]}
      BY <1>0, <3>4 DEF Process
    <3> QED
      BY <1>0, <3>1, <3>2, <3>3, <3>4, <3>5, GoesOn DEF Starting
  <2> QED
    BY <2>1, <2>2
<1>7. CASE PrepareFails
  <2> DEFINE k == rec.ni.mode
             c == pw[k]
  <2>0. c # 0 /\ rec.at = "prepare" /\ w' \in PrepareFailed(w, k, c)
    BY <1>7 DEF PrepareFails
  <2>1. k \in Kind /\ c \in Conf
    BY <1>0, <2>0 DEF RecInv, Conf, TypeOK, Kind
  <2>2. w'.proc = w.proc /\ w'.rules = w.rules
    <3> HIDE DEF k, c
    <3>1. \A x \in PrepareFailed(w, k, c) : Same(w, x)
      BY <1>0, <2>1, PrepareFailedFact
    <3> QED
      BY <2>0, <3>1 DEF Same
  <2>3. rec'.at = "finish"
    BY <1>7, <1>e DEF PrepareFails
  <2> QED
    BY <1>0, <2>2, <2>3, AtTheEnd
<1>8. CASE Run
  <2>0. rec.at = "run" /\ rec.ni.mode \in Kind /\ rec.conf \in Conf
    BY <1>0, <1>8 DEF Run, RecInv
  <2>1. PICK r \in StartRunner(w, rec.ni.mode, rec.conf) :
            /\ w' = r[1]
            /\ \/ Error
               \/ Goto("finish")
               \/ Goto("dhcpcd") /\ rec.ni.mode # "ap"
    BY <1>8 DEF Run
  <2>f. /\ \E d \in {0, rec.conf} : r[1].proc = [w.proc EXCEPT ![rec.ni.mode] = d]
        /\ r[1].rules = w.rules
    <3> DEFINE k == rec.ni.mode
               c == rec.conf
    <3>1. k \in Process /\ c \in Conf /\ r \in StartRunner(w, k, c)
      BY <2>0, <2>1 DEF Kind, Process
    <3> HIDE DEF k, c
    <3>2. (\E d \in {0, c} : r[1].proc = [w.proc EXCEPT ![k] = d]) /\ r[1].rules = w.rules
      BY <1>0, <3>1, StartRunnerFact
    <3> QED
      BY <3>2 DEF k, c
  <2>2. PICK d \in {0, rec.conf} : w'.proc = [w.proc EXCEPT ![rec.ni.mode] = d]
    BY <2>1, <2>f
  <2>3. w'.rules = w.rules
    BY <2>1, <2>f
  <2>4. \/ rec'.at = "finish"
        \/ rec'.at = "dhcpcd" /\ rec'.ni = rec.ni /\ rec.ni.mode = "station"
    BY <1>e, <1>g, <2>0, <2>1 DEF Step, Kind
  <2>5. CASE rec.ni.mode = "ap"
    BY <1>0, <2>0, <2>2, <2>3, <2>4, <2>5
    DEF IInv, RecInv, ModeInv, OneModeAtATime, Off, Starting, Process
  <2>6. CASE rec.ni.mode = "station"
    BY <1>0, <2>0, <2>2, <2>3, <2>4, <2>6
    DEF IInv, RecInv, ModeInv, OneModeAtATime, Off, Starting, Process, Kind
  <2> QED
    BY <2>0, <2>5, <2>6 DEF Kind
<1>9. CASE RunDhcpcd
  <2>0. rec.at = "dhcpcd" /\ rec.ni.mode = "station" /\ 1 \in Conf
    BY <1>0, <1>9 DEF RunDhcpcd, RecInv, Conf
  <2>1. PICK r \in StartRunner(w, "dhcpcd", 1) : w' = r[1] /\ (Error \/ Goto("finish"))
    BY <1>9 DEF RunDhcpcd
  <2>f. /\ \E d \in {0, 1} : r[1].proc = [w.proc EXCEPT !["dhcpcd"] = d]
        /\ r[1].rules = w.rules
    <3>1. "dhcpcd" \in Process
      BY DEF Process
    <3> QED
      BY <1>0, <2>0, <2>1, <3>1, StartRunnerFact
  <2>2. PICK d \in {0, 1} : w'.proc = [w.proc EXCEPT !["dhcpcd"] = d]
    BY <2>1, <2>f
  <2>3. w'.rules = w.rules
    BY <2>1, <2>f
  <2>4. rec'.at = "finish"
    BY <1>e, <1>g, <2>1 DEF Step
  <2> QED
    BY <1>0, <2>0, <2>2, <2>3, <2>4
    DEF IInv, RecInv, ModeInv, OneModeAtATime, Off, Starting, Process
<1>10. CASE StartPanics
  <2>1. PICK p \in Process : w' = [Halt(w, p) EXCEPT !.cool = @ \cup {p}]
    BY <1>10 DEF StartPanics
  <2> DEFINE h == Halt(w, p)
  <2>2. h \in Wifi /\ h.proc = [w.proc EXCEPT ![p] = 0] /\ h.rules = w.rules
    BY <1>0, HaltFact
  <2>3. w'.proc = h.proc /\ w'.rules = h.rules
    <3>1. w' = [h EXCEPT !.cool = h.cool \cup {p}]
      BY <2>1
    <3> HIDE DEF h
    <3> QED
      BY <2>2, <3>1 DEF Wifi
  <2>4. \A q \in Process : w'.proc[q] \in {0, w.proc[q]}
    BY <1>0, <2>2, <2>3
  <2>5. rec' = Idle
    BY <1>10 DEF StartPanics
  <2>6. rec'.at = "idle"
    BY <2>5, IdleFact
  <2> QED
    BY <1>0, <2>2, <2>3, <2>4, <2>6, AtTheEnd
<1>11. CASE Finish \/ FinishFails
  <2>1. w' = w /\ rec' = Idle
    BY <1>11 DEF Finish, FinishFails, Return
  <2>2. rec'.at = "idle"
    BY <2>1, IdleFact
  <2> QED
    BY <1>0, <2>1, <2>2, AtTheEnd
<1> QED
  BY <1>1, <1>2, <1>3, <1>4, <1>5, <1>6, <1>7, <1>8, <1>9, <1>10, <1>11
  DEF ReconcileStep, ReconcileFails

-----------------------------------------------------------------------------
(* The theorems *)

\* The invariant is inductive.
THEOREM Inductive == Spec => []IInv
<1>1. Init => IInv
  <2> SUFFICES ASSUME Init PROVE IInv
    OBVIOUS
  <2> USE BoundsAssumption, ConfAssumption
  <2>1. NewWifi \in Wifi
    BY DEF NewWifi, Wifi, Process, Conf
  <2>2. ni \in NI
    BY DEF Init, NI, New
  <2>3. \A c \in {0, 1} : [ap |-> 1, station |-> c] \in [{"ap", "station"} -> 0..MaxConf]
    OBVIOUS
  <2>4. TypeOK
    <3>1. pw \in [{"ap", "station"} -> 0..MaxConf]
      BY <2>3 DEF Init
    <3>2. rec \in [at : Step, ni : NI, conf : 0..MaxConf, err : BOOLEAN]
      BY IdleFact DEF Init
    <3>3. /\ w \in Wifi /\ seen \in NI /\ event \in BOOLEAN /\ queued \in BOOLEAN
          /\ missed \in BOOLEAN /\ changes = 0 /\ faults = 0
      BY <2>1, <2>2 DEF Init
    <3> QED
      BY <2>2, <3>1, <3>2, <3>3 DEF TypeOK
  <2>5. RecInv /\ ModeInv
    BY IdleFact DEF Init, RecInv, ModeInv, OneModeAtATime, NewWifi, Off, Starting, Process
  <2> QED
    BY <2>4, <2>5 DEF IInv
<1>2. IInv /\ [Next]_vars => IInv'
  <2> SUFFICES ASSUME IInv, [Next]_vars PROVE IInv'
    OBVIOUS
  <2>1. CASE ReconcileStep \/ ReconcileFails
    <3>1. TypeOK'
      BY <2>1, ReconcileType DEF IInv
    <3> QED
      BY <2>1, <3>1, ReconcileInv DEF IInv
  <2>2. CASE \/ SetMode \/ LinkUpdate \/ (\E k \in Kind : SetPassword(k))
             \/ Deliver \/ WriteResolvConf \/ Report \/ ReportLost
             \/ \E p \in Process : CooldownOver(p) \/ ProcessExits(p)
    BY <2>2, EnvironmentType, EnvironmentInv DEF IInv
  <2>3. CASE UNCHANGED vars
    BY <2>3 DEF IInv, TypeOK, RecInv, ModeInv, OneModeAtATime, Off, vars
  <2> QED
    BY <2>1, <2>2, <2>3 DEF Next, Kind
<1> QED
  BY <1>1, <1>2, PTL DEF Spec

\* The variables of the NetworkInterfaceReconciler and of Wifi keep their
\* types: in particular resolv.conf is only ever restored from a backup.
THEOREM TypeCorrect == Spec => []TypeOK
<1>1. IInv => TypeOK
  BY DEF IInv
<1> QED
  BY <1>1, Inductive, PTL

\* For any number of passwords, changes and faults, among them those of
\* iptables that are only logged, hostapd never runs together with
\* wpa_supplicant or dhcpcd, nor wpa_supplicant with the rules: what iptables
\* failed to change ("odd") is the only exception.
THEOREM NeverBothModes == Spec => []OneModeAtATime
<1>1. IInv => OneModeAtATime
  BY DEF IInv, ModeInv
<1> QED
  BY <1>1, Inductive, PTL

-----------------------------------------------------------------------------
(* No wake-up is missed *)

\* An access point that was not reset has its address, or lost it.
Fine(v) == v.mode = "ap" => v.started /\ (v.addr \/ v.lost)

\* resolv.conf is as it was before, or there is a backup of that, or a copy
\* has failed.
Backed(v) ==
    /\ v.backup # "dhcp"
    /\ v.backup = "none" => v.resolv = "own" /\ v.proc["dhcpcd"] = 0 /\ v.mode # "station"

\* What the Runners leave alone.
Kept(v, x) ==
    /\ x.backup = v.backup /\ x.resolv = v.resolv /\ x.mode = v.mode /\ x.torn = v.torn
    /\ (x.started <=> v.started) /\ (x.addr <=> v.addr) /\ (x.lost <=> v.lost)
    /\ v.report => x.report

\* Runner.Stop does nothing, or will report it.
LEMMA HaltKeeps == ASSUME NEW v \in Wifi, NEW p \in Process  PROVE Kept(v, Halt(v, p))
BY DEF Wifi, Halt, Ended, Kept

\* Runner.Start without an error has found the same command running, or will
\* report another.
LEMMA StartRunnerKeeps ==
    ASSUME NEW v \in Wifi, NEW p \in Process, NEW c \in Conf, NEW r \in StartRunner(v, p, c)
    PROVE  /\ Kept(v, r[1])
           /\ r[2] => r[1].report \/ (r[1] = v /\ v.proc[p] = c)
<1> DEFINE h == Halt(v, p)
<1>1. h \in Wifi /\ Kept(v, h)
  BY HaltFact, HaltKeeps
<1>2. CASE v.proc[p] = c
  BY <1>2 DEF StartRunner, Kept
<1>3. CASE v.proc[p] # c
  <2>1. r = <<Launched(h, p, c), TRUE>> \/ r = <<h, FALSE>>
    BY <1>3 DEF StartRunner
  <2>2. Kept(v, Launched(h, p, c)) /\ Launched(h, p, c).report
    <3> HIDE DEF h
    <3> QED  BY <1>1 DEF Launched, Wifi, Kept
  <2>3. CASE r = <<Launched(h, p, c), TRUE>>
    <3>1. r[1] = Launched(h, p, c)
      BY <2>3
    <3> HIDE DEF h
    <3> QED  BY <2>2, <3>1
  <2>4. CASE r = <<h, FALSE>>
    <3>1. r[1] = h /\ ~r[2]
      BY <2>4
    <3> HIDE DEF h
    <3> QED  BY <1>1, <3>1
  <2> QED  BY <2>1, <2>3, <2>4
<1> QED  BY <1>2, <1>3

\* A restart loses the address; a failed one says so.
LEMMA RestartKeeps ==
    ASSUME NEW v \in Wifi
    PROVE  /\ Restarted(v).backup = v.backup /\ Restarted(v).resolv = v.resolv
           /\ (Restarted(v).report <=> v.report) /\ Restarted(v).started
           /\ \A x \in RestartFailed(v) : /\ x.backup = v.backup /\ x.resolv = v.resolv
                                          /\ (x.report <=> v.report)
                                          /\ Fine(v) => Fine(x)
<1>1. /\ Restarted(v).backup = v.backup /\ Restarted(v).resolv = v.resolv
      /\ (Restarted(v).report <=> v.report) /\ Restarted(v).started
  BY DEF Wifi, Restarted
<1>2. ASSUME NEW a \in {v.addr, FALSE}, NEW s \in {v.started, TRUE}
      PROVE  LET x == HalfRestarted(v, a, s)
             IN  x.backup = v.backup /\ x.resolv = v.resolv /\ (x.report <=> v.report)
                 /\ (Fine(v) => Fine(x))
  <2> DEFINE l == v.lost \/ (v.mode = "ap" /\ a # v.addr)
             x == [v EXCEPT !.lost = l, !.addr = a, !.started = s]
  <2>1. HalfRestarted(v, a, s) = x
    BY DEF HalfRestarted
  <2>2. /\ x.backup = v.backup /\ x.resolv = v.resolv /\ (x.report <=> v.report) /\ x.mode = v.mode
        /\ x.lost = l /\ x.addr = a /\ x.started = s
    <3> HIDE DEF l
    <3> QED  BY DEF Wifi
  <2>3. v.addr \in BOOLEAN /\ v.started \in BOOLEAN /\ v.lost \in BOOLEAN
    BY DEF Wifi
  <2> HIDE DEF x
  <2>4. Fine(v) => Fine(x)
    BY <2>2, <2>3 DEF Fine
  <2> QED  BY <2>1, <2>2, <2>4
<1> QED  BY <1>1, <1>2 DEF RestartFailed

\* StopAccessPoint forgets the access point, and touches no resolv.conf.
LEMMA StopAccessPointKeeps ==
    ASSUME NEW v \in Wifi, NEW x \in StopAccessPoint(v)
    PROVE  /\ x.backup = v.backup /\ x.resolv = v.resolv
           /\ x.mode # "ap" /\ x.mode \in {v.mode, "disabled"}
           /\ v.report => x.report
<1> DEFINE S(h) == {[y EXCEPT !.mode = "disabled", !.lost = FALSE] :
                       y \in {Restarted(h)} \cup RestartFailed(h)}
<1>0. PICK u \in RulesRemoved(v) : x \in IF Halt(u, "ap").mode # "ap" THEN {Halt(u, "ap")}
                                         ELSE S(Halt(u, "ap"))
  BY DEF StopAccessPoint
<1> DEFINE h == Halt(u, "ap")
<1>1. u \in Wifi /\ Kept(v, u)
  <2>1. PICK r \in {"none", "odd"} : u = [v EXCEPT !.rules = r]
    BY DEF RulesRemoved
  <2> QED  BY <2>1 DEF Wifi, Kept
<1>2. h \in Wifi /\ Kept(v, h)
  BY <1>1, HaltFact, HaltKeeps DEF Process, Kept
<1>3. CASE h.mode # "ap" /\ x = h
  BY <1>2, <1>3 DEF Kept
<1>4. CASE x \in {[y EXCEPT !.mode = "disabled", !.lost = FALSE] : y \in {Restarted(h)} \cup RestartFailed(h)}
  <2>1. PICK y \in {Restarted(h)} \cup RestartFailed(h) : x = [y EXCEPT !.mode = "disabled", !.lost = FALSE]
    BY <1>4
  <2>2. y \in Wifi /\ y.backup = h.backup /\ y.resolv = h.resolv /\ (y.report <=> h.report)
    BY <1>2, <2>1, RestartFact, RestartKeeps DEF Same
  <2>3. x.backup = y.backup /\ x.resolv = y.resolv /\ (x.report <=> y.report) /\ x.mode = "disabled"
    BY <2>1, <2>2 DEF Wifi
  <2> QED  BY <1>2, <2>2, <2>3 DEF Kept
<1> HIDE DEF h
<1>5. (x = h /\ h.mode # "ap") \/ x \in S(h)
  BY <1>0 DEF h
<1> QED  BY <1>3, <1>4, <1>5

\* StopStation brings resolv.conf back, or what a failing copy leaves of it.
LEMMA StopStationKeeps ==
    ASSUME NEW v \in Wifi, Backed(v), NEW x \in StopStation(v)
    PROVE  /\ x.backup = v.backup /\ x.resolv # "dhcp"
           /\ x.backup = "none" => x.resolv = "own"
           /\ x.mode = v.mode /\ (x.started <=> v.started) /\ (x.addr <=> v.addr) /\ (x.lost <=> v.lost)
           /\ v.report => x.report
<1> DEFINE g == Halt(v, "station")
           h == Halt(g, "dhcpcd")
<1>1. g \in Wifi /\ Kept(v, g)
  BY HaltFact, HaltKeeps DEF Process
<1>2. h \in Wifi /\ Kept(g, h)
  BY <1>1, HaltFact, HaltKeeps DEF Process
<1>3. h \in Wifi /\ Kept(v, h)
  BY <1>1, <1>2 DEF Kept
<1>4. IF h.backup = "none" THEN x = h ELSE \E r \in {h.backup, "odd"} : x = [h EXCEPT !.resolv = r]
  BY DEF StopStation
<1> HIDE DEF h
<1>5. CASE h.backup = "none"
  BY <1>3, <1>4, <1>5 DEF Kept, Backed
<1>6. CASE h.backup # "none"
  <2>1. PICK r \in {h.backup, "odd"} : x = [h EXCEPT !.resolv = r]
    BY <1>4, <1>6
  <2>2. r # "dhcp"
    BY <1>3 DEF Kept, Backed
  <2>3. /\ x.backup = h.backup /\ x.resolv = r /\ x.mode = h.mode
        /\ (x.started <=> h.started) /\ (x.addr <=> h.addr) /\ (x.lost <=> h.lost) /\ (x.report <=> h.report)
    BY <1>3, <2>1 DEF Wifi
  <2> QED  BY <1>3, <1>6, <2>2, <2>3 DEF Kept
<1> QED  BY <1>5, <1>6

\* A new configuration file changes nothing else.
LEMMA WithFileKeeps ==
    ASSUME NEW v \in Wifi, NEW k \in Kind, NEW c \in Conf
    PROVE  Same(v, WithFile(v, k, c)) /\ Kept(v, WithFile(v, k, c))
BY DEF Wifi, WithFile, Same, Kept, Kind

\* The backup is made once, before dhcpcd writes anything; a failing copy
\* leaves an odd one or none.
LEMMA BackupKeeps ==
    ASSUME NEW v \in Wifi, Backed(v), NEW x \in backupResolvConf(v)
    PROVE  /\ Same(v, x) /\ x.backup \in {"own", "odd"} /\ x.resolv = v.resolv /\ x.mode = v.mode
           /\ (x.started <=> v.started) /\ (x.addr <=> v.addr) /\ (x.lost <=> v.lost)
           /\ (x.report <=> v.report)
<1>1. CASE v.backup = "none"
  <2>1. PICK b \in {"own", "odd"} : x = [v EXCEPT !.backup = b]
    BY <1>1 DEF backupResolvConf, Backed
  <2> QED  BY <2>1 DEF Wifi, Same
<1>2. CASE v.backup # "none"
  BY <1>2 DEF backupResolvConf, Backed, Same, Wifi
<1> QED  BY <1>1, <1>2

\* After PrepareAccessPoint there is an access point and some of its rules.
LEMMA PrepareAccessPointKeeps ==
    ASSUME NEW v \in Wifi, NEW c \in Conf, Fine(v), NEW x \in PrepareAccessPoint(v, c)
    PROVE  /\ x.backup = v.backup /\ x.resolv = v.resolv /\ (x.report <=> v.report)
           /\ x.mode = "ap" /\ x.rules # "none" /\ Fine(x)
<1> DEFINE f == WithFile(v, "ap", c)
           y == IF MustRestart(v, "ap", c) THEN AccessPointUp(f, c) ELSE f
<1>1. f \in Wifi /\ Kept(v, f) /\ (f.report <=> v.report)
  BY DEF Wifi, WithFile, Kept
<1>2. LET z == AccessPointUp(f, c)
      IN  /\ z \in Wifi /\ z.backup = f.backup /\ z.resolv = f.resolv /\ (z.report <=> f.report)
          /\ z.mode = "ap" /\ z.started /\ z.addr
  <2> HIDE DEF f
  <2> QED  BY <1>1 DEF Wifi, AccessPointUp, Restarted
<1>3. /\ y \in Wifi /\ y.backup = v.backup /\ y.resolv = v.resolv /\ (y.report <=> v.report)
      /\ y.mode = "ap" /\ Fine(y)
  <2>1. CASE MustRestart(v, "ap", c)
    BY <1>1, <1>2, <2>1 DEF Kept, Fine
  <2>2. CASE ~MustRestart(v, "ap", c)
    <3>1. v.mode = "ap" /\ y = f
      BY <2>2 DEF MustRestart
    <3> HIDE DEF f, y
    <3> QED  BY <1>1, <3>1 DEF Kept, Fine
  <2> QED  BY <2>1, <2>2
<1>4. x \in RulesInstalled(y)
  BY DEF PrepareAccessPoint
<1> HIDE DEF y
<1>5. PICK r \in {"all", "odd"} : x = [y EXCEPT !.rules = r]
  BY <1>4 DEF RulesInstalled
<1>6. /\ x.backup = y.backup /\ x.resolv = y.resolv /\ (x.report <=> y.report)
      /\ x.mode = y.mode /\ x.rules = r
      /\ (x.started <=> y.started) /\ (x.addr <=> y.addr) /\ (x.lost <=> y.lost)
  BY <1>3, <1>5 DEF Wifi
<1> QED  BY <1>3, <1>6 DEF Fine

\* After PrepareStation there is a backup of resolv.conf, or an odd one.
LEMMA PrepareStationKeeps ==
    ASSUME NEW v \in Wifi, NEW c \in Conf, Backed(v), NEW x \in PrepareStation(v, c)
    PROVE  x.mode = "station" /\ x.backup \in {"own", "odd"} /\ (v.report => x.report)
<1> DEFINE f == WithFile(v, "station", c)
<1>1. f \in Wifi /\ Kept(v, f) /\ f.proc = v.proc
  BY WithFileKeeps DEF Same, Kind
<1>2. Backed(f)
  BY <1>1 DEF Backed, Kept
<1>3. ASSUME NEW b \in backupResolvConf(f),
             x = [Halt(Restarted(b), "station") EXCEPT !.mode = "station"]
      PROVE  x.mode = "station" /\ x.backup \in {"own", "odd"} /\ (v.report => x.report)
  <2> DEFINE t == Restarted(b)
             h == Halt(t, "station")
  <2>1. b \in Wifi /\ b.backup \in {"own", "odd"} /\ (b.report <=> f.report)
    <3> HIDE DEF f
    <3> QED  BY <1>1, <1>2, <1>3, BackupKeeps DEF Same
  <2>2. t \in Wifi /\ t.backup \in {"own", "odd"} /\ (t.report <=> f.report)
    BY <2>1, RestartFact, RestartKeeps DEF Same
  <2> HIDE DEF t
  <2>3. h \in Wifi /\ Kept(t, h)
    BY <2>2, HaltFact, HaltKeeps DEF Process
  <2>4. x = [h EXCEPT !.mode = "station"]
    BY <1>3 DEF t
  <2> HIDE DEF h, f
  <2>5. x.mode = "station" /\ x.backup = h.backup /\ (x.report <=> h.report)
    BY <2>3, <2>4 DEF Wifi
  <2> QED  BY <1>1, <2>2, <2>3, <2>5 DEF Kept
<1>4. CASE MustRestart(v, "station", c)
  BY <1>3, <1>4 DEF PrepareStation
<1>5. CASE ~MustRestart(v, "station", c)
  <2>1. x = f /\ v.mode = "station"
    BY <1>5 DEF PrepareStation, MustRestart
  <2> HIDE DEF f
  <2>2. v.backup \in {"own", "odd"}
    BY <2>1 DEF Backed, Wifi
  <2> QED  BY <1>1, <2>1, <2>2 DEF Kept
<1> QED  BY <1>4, <1>5

\* Where a preparation fails, the mode stays what it was.
LEMMA PrepareFailedKeeps ==
    ASSUME NEW v \in Wifi, NEW k \in Kind, NEW c \in Conf, NEW x \in PrepareFailed(v, k, c),
           Fine(v), Backed(v)
    PROVE  Fine(x) /\ Backed(x) /\ (v.report => x.report)
<1> DEFINE f == WithFile(v, k, c)
           Y == IF k = "station" THEN backupResolvConf(f) ELSE {f}
<1>1. /\ Same(v, f) /\ Kept(v, f)
  BY WithFileKeeps
<1>2. f \in Wifi /\ Fine(f) /\ Backed(f)
  BY <1>1 DEF Fine, Backed, Same, Kept
<1>3. ASSUME NEW y \in Y
      PROVE  y \in Wifi /\ Fine(y) /\ Backed(y) /\ (v.report => y.report)
  <2>1. CASE k = "station"
    <3> HIDE DEF f
    <3>1. /\ Same(f, y) /\ y.backup \in {"own", "odd"} /\ y.resolv = f.resolv /\ y.mode = f.mode
          /\ (y.started <=> f.started) /\ (y.addr <=> f.addr) /\ (y.lost <=> f.lost)
          /\ (y.report <=> f.report)
      BY <1>2, <1>3, <2>1, BackupKeeps
    <3> QED  BY <1>1, <1>2, <3>1 DEF Fine, Backed, Same, Kept
  <2>2. CASE k # "station"
    BY <1>1, <1>2, <1>3, <2>2 DEF Kept
  <2> QED  BY <2>1, <2>2
<1>4. x = v \/ x = WithTornFile(v, k, c) \/ \E y \in Y : x \in RestartFailed(y)
  BY DEF PrepareFailed
<1>5. CASE x = WithTornFile(v, k, c)
  <2>1. x = [f EXCEPT !.torn[k] = f.torn[k] \cup {c}]
    BY <1>5 DEF WithTornFile
  <2> HIDE DEF f
  <2>2. /\ x.backup = f.backup /\ x.resolv = f.resolv /\ x.mode = f.mode /\ x.proc = f.proc
        /\ (x.started <=> f.started) /\ (x.addr <=> f.addr) /\ (x.lost <=> f.lost)
        /\ (x.report <=> f.report)
    BY <1>2, <2>1 DEF Wifi, Kind
  <2> QED  BY <1>1, <1>2, <2>2 DEF Fine, Backed, Kept
<1> HIDE DEF Y
<1>6. ASSUME NEW y \in Y, x \in RestartFailed(y)
      PROVE  Fine(x) /\ Backed(x) /\ (v.report => x.report)
  <2>1. /\ Same(y, x) /\ x.mode = y.mode /\ x.backup = y.backup /\ x.resolv = y.resolv
        /\ (x.report <=> y.report) /\ Fine(x)
    BY <1>3, <1>6, RestartFact, RestartKeeps
  <2> QED  BY <1>3, <1>6, <2>1 DEF Backed, Same
<1> QED  BY <1>4, <1>5, <1>6

-----------------------------------------------------------------------------
\* Nothing has happened that Reconcile does not know of.
Quiet == ~event /\ ~queued /\ ~w.report /\ ~missed

\* What Reconcile has achieved whether or not it will be called again.
StepInv ==
    /\ rec.at \in {"run", "dhcpcd"} /\ rec.ni.mode = "station" => w.backup # "none"
    /\ rec.at \in Starting /\ rec.ni.mode = "ap" => w.resolv # "dhcp"
    /\ rec.at = "run" /\ rec.ni.mode = "ap" => w.mode = "ap" /\ w.rules # "none"

\* Without an event to come the cache is up to date, and Reconcile works on the
\* present NetworkInterface unless there is another request.
CopyInv ==
    /\ ~event => seen = ni
    /\ Quiet /\ rec.at # "idle" => rec.ni = ni

Right ==
    /\ Matches
    /\ ni.mode = "ap" => w.mode = "ap"
    /\ ni.mode # "station" => w.resolv # "dhcp"

\* What Reconcile has achieved if nobody will call it again.
DoneInv ==
    Quiet => /\ rec.at = "run" => rec.conf = pw[ni.mode]
             /\ rec.at = "dhcpcd" => w.proc["station"] = pw["station"]
             /\ rec.at = "idle" \/ (rec.at = "finish" /\ ~rec.err) => Right

WakeInv == Fine(w) /\ Backed(w) /\ StepInv /\ CopyInv /\ DoneInv

\* A step after which Reconcile will be called again.
LEMMA Loud ==
    ASSUME ~Quiet', ~event' => seen' = ni', Fine(w)', Backed(w)', StepInv'
    PROVE  WakeInv'
BY DEF WakeInv, CopyInv, DoneInv

\* Processes may end: what Reconcile has prepared stays prepared.
LEMMA StillPrepared ==
    ASSUME WakeInv, rec' = rec, Kept(w, w'), w'.rules = w.rules,
           w'.proc["dhcpcd"] \in {0, w.proc["dhcpcd"]}
    PROVE  Fine(w)' /\ Backed(w)' /\ StepInv'
BY DEF WakeInv, Kept, Fine, Backed, StepInv

LEMMA EnvironmentWakes ==
    ASSUME IInv, IInv', WakeInv,
           \/ SetMode \/ LinkUpdate \/ (\E k \in Kind : SetPassword(k))
           \/ Deliver \/ WriteResolvConf \/ Report \/ ReportLost
           \/ \E p \in Process : CooldownOver(p) \/ ProcessExits(p)
    PROVE  WakeInv'
<1>0. w \in Wifi /\ w.proc \in [Process -> {0} \cup Conf] /\ ni \in NI
  BY DEF IInv, TypeOK, Wifi
<1>1. CASE SetMode \/ LinkUpdate \/ Deliver \/ (\E k \in Kind : SetPassword(k))
  <2>1. w' = w /\ rec' = rec
    BY <1>1 DEF SetMode, LinkUpdate, Deliver, SetPassword, Changed
  <2>2. Fine(w)' /\ Backed(w)' /\ StepInv'
    BY <2>1 DEF WakeInv, Fine, Backed, StepInv
  <2>3. ~Quiet' /\ (~event' => seen' = ni')
    BY <1>1 DEF SetMode, LinkUpdate, Deliver, SetPassword, Changed, Quiet, WakeInv, CopyInv
  <2> QED  BY <2>2, <2>3, Loud
<1>2. CASE WriteResolvConf
  <2>1. /\ w' = [w EXCEPT !.resolv = "dhcp"] /\ w.proc["dhcpcd"] # 0
        /\ UNCHANGED <<ni, pw, seen, event, queued, rec, missed>>
    BY <1>2 DEF WriteResolvConf, WifiOnly
  <2>2. /\ w'.proc = w.proc /\ w'.backup = w.backup /\ w'.mode = w.mode
        /\ (w'.started <=> w.started) /\ (w'.addr <=> w.addr) /\ (w'.lost <=> w.lost)
        /\ (w'.report <=> w.report) /\ w'.rules = w.rules /\ w'.torn = w.torn
    BY <1>0, <2>1 DEF Wifi
  <2>3. Fine(w)' /\ Backed(w)'
    BY <2>1, <2>2 DEF WakeInv, Fine, Backed
  <2>4. StepInv'
    BY <2>1, <2>2 DEF WakeInv, StepInv, IInv, ModeInv, Off
  <2>5. CopyInv'
    BY <2>1, <2>2 DEF WakeInv, CopyInv, Quiet
  <2>6. Matches /\ ni.mode # "station" => w.proc["dhcpcd"] = 0
    BY <1>0 DEF Matches, Off, NI
  <2>7. Matches => Matches'
    BY <2>1, <2>2 DEF Matches, Runs, Off
  <2>8. Right => Right'
    BY <2>1, <2>2, <2>6, <2>7 DEF Right
  <2>9. DoneInv'
    BY <2>1, <2>2, <2>8 DEF WakeInv, DoneInv, Quiet
  <2> QED  BY <2>3, <2>4, <2>5, <2>9 DEF WakeInv
<1>3. CASE Report \/ ReportLost
  <2>1. /\ w' = [w EXCEPT !.report = FALSE] /\ rec' = rec /\ event' \in {TRUE, event}
        /\ (event' \/ missed') /\ UNCHANGED <<ni, seen>>
    BY <1>3 DEF Report, ReportLost
  <2>2. /\ w'.proc = w.proc /\ w'.backup = w.backup /\ w'.mode = w.mode /\ w'.resolv = w.resolv
        /\ (w'.started <=> w.started) /\ (w'.addr <=> w.addr) /\ (w'.lost <=> w.lost)
        /\ w'.rules = w.rules
    BY <1>0, <2>1 DEF Wifi
  <2>3. Fine(w)' /\ Backed(w)' /\ StepInv'
    BY <2>1, <2>2 DEF WakeInv, Fine, Backed, StepInv
  <2>4. ~Quiet' /\ (~event' => seen' = ni')
    BY <1>3, <2>1 DEF Quiet, WakeInv, CopyInv, Report, ReportLost
  <2> QED  BY <2>3, <2>4, Loud
<1>4. ASSUME NEW p \in Process, CooldownOver(p)  PROVE WakeInv'
  <2>1. /\ w' = [w EXCEPT !.cool = w.cool \ {p}]
        /\ UNCHANGED <<ni, pw, seen, event, queued, rec, missed>>
    BY <1>4 DEF CooldownOver, WifiOnly
  <2>2. /\ w'.proc = w.proc /\ w'.backup = w.backup /\ w'.mode = w.mode /\ w'.resolv = w.resolv
        /\ (w'.started <=> w.started) /\ (w'.addr <=> w.addr) /\ (w'.lost <=> w.lost)
        /\ (w'.report <=> w.report) /\ w'.rules = w.rules /\ w'.torn = w.torn
    BY <1>0, <2>1 DEF Wifi
  <2>3. Fine(w)' /\ Backed(w)' /\ StepInv' /\ CopyInv'
    BY <2>1, <2>2 DEF WakeInv, Fine, Backed, StepInv, CopyInv, Quiet
  <2>4. Right => Right'
    <3>1. Matches => Matches'
      BY <2>1, <2>2 DEF Matches, Runs, Off
    <3> QED  BY <2>1, <2>2, <3>1 DEF Right
  <2>5. DoneInv'
    BY <2>1, <2>2, <2>4 DEF WakeInv, DoneInv, Quiet
  <2> QED  BY <2>3, <2>5 DEF WakeInv
<1>5. ASSUME NEW p \in Process, ProcessExits(p)  PROVE WakeInv'
  <2>1. w' = Ended(w, p) /\ w.proc[p] # 0 /\ UNCHANGED <<ni, seen, event, rec>>
    BY <1>5 DEF ProcessExits
  <2>2. w' = Halt(w, p) /\ Kept(w, w')
    BY <1>0, <2>1, HaltKeeps DEF Halt
  <2>3. w'.rules = w.rules /\ w'.proc = [w.proc EXCEPT ![p] = 0] /\ w'.report
    BY <1>0, <2>1, EndedFact DEF Ended, Wifi
  <2>4. w'.proc["dhcpcd"] \in {0, w.proc["dhcpcd"]}
    BY <1>0, <2>3 DEF Process
  <2>5. Fine(w)' /\ Backed(w)' /\ StepInv'
    BY <2>1, <2>2, <2>3, <2>4, StillPrepared
  <2>6. ~Quiet' /\ (~event' => seen' = ni')
    BY <2>1, <2>3 DEF Quiet, WakeInv, CopyInv
  <2> QED  BY <2>5, <2>6, Loud
<1> QED  BY <1>1, <1>2, <1>3, <1>4, <1>5

\* Reconcile goes to its end with an error, which calls it again.
LEMMA ErrorWakes ==
    ASSUME IInv, WakeInv, Error, UNCHANGED <<ni, seen, event, queued, missed, pw>>,
           w.report => w'.report, Fine(w)', Backed(w)', rec.at # "idle"
    PROVE  WakeInv'
<1>1. rec'.at = "finish" /\ rec'.err /\ rec'.ni = rec.ni
  BY DEF Error, IInv, TypeOK
<1>2. StepInv'
  BY <1>1 DEF StepInv, Starting
<1>3. CopyInv'
  BY <1>1 DEF WakeInv, CopyInv, Quiet
<1>4. DoneInv'
  BY <1>1 DEF DoneInv
<1> QED  BY <1>2, <1>3, <1>4 DEF WakeInv

\* Reconcile goes on.
LEMMA GoesOnWakes ==
    ASSUME WakeInv, rec.at # "idle", rec'.ni = rec.ni,
           UNCHANGED <<ni, seen, queued, missed>>, event' <=> event, w.report => w'.report,
           Fine(w)', Backed(w)', StepInv', DoneInv'
    PROVE  WakeInv'
BY DEF WakeInv, CopyInv, Quiet

LEMMA StopWakes == ASSUME IInv, IInv', WakeInv, StopOthers \/ StopFails  PROVE WakeInv'
<1>0. /\ w \in Wifi /\ w' \in Wifi /\ Fine(w) /\ Backed(w)
      /\ w.proc \in [Process -> {0} \cup Conf]
  BY DEF IInv, TypeOK, WakeInv, Wifi
<1>1. rec.at = "stop" /\ Own
  BY DEF StopOthers, StopFails
<1>2. ASSUME NEW s \in StopStation(w)
      PROVE  /\ s \in Wifi /\ s.backup = w.backup /\ s.resolv # "dhcp" /\ s.mode = w.mode
             /\ (w.report => s.report) /\ Fine(s) /\ Backed(s)
  <2>1. s \in Wifi /\ s.proc = [w.proc EXCEPT !["station"] = 0, !["dhcpcd"] = 0]
    BY <1>0, StopStationFact
  <2>2. /\ s.backup = w.backup /\ s.resolv # "dhcp" /\ (s.backup = "none" => s.resolv = "own")
        /\ s.mode = w.mode
        /\ (s.started <=> w.started) /\ (s.addr <=> w.addr) /\ (s.lost <=> w.lost)
        /\ (w.report => s.report)
    BY <1>0, StopStationKeeps
  <2>3. s.proc["dhcpcd"] = 0
    BY <1>0, <2>1 DEF Process
  <2> QED  BY <1>0, <2>1, <2>2, <2>3 DEF Fine, Backed
\* StopAccessPoint, for a station or after StopStation.
<1>3. ASSUME NEW v \in Wifi, Backed(v), NEW x \in StopAccessPoint(v)
      PROVE  /\ x \in Wifi /\ Fine(x) /\ Backed(x) /\ x.resolv = v.resolv /\ x.rules # "all"
             /\ x.proc = [v.proc EXCEPT !["ap"] = 0] /\ (v.report => x.report)
  <2>1. x \in Wifi /\ x.proc = [v.proc EXCEPT !["ap"] = 0] /\ x.rules # "all"
    BY <1>3, StopAccessPointFact
  <2>2. /\ x.backup = v.backup /\ x.resolv = v.resolv
        /\ x.mode # "ap" /\ x.mode \in {v.mode, "disabled"} /\ (v.report => x.report)
    BY <1>3, StopAccessPointKeeps
  <2>3. x.proc["dhcpcd"] = v.proc["dhcpcd"]
    BY <2>1 DEF Wifi, Process
  <2> QED  BY <1>3, <2>1, <2>2, <2>3 DEF Fine, Backed
<1>4. CASE StopFails
  <2>0. w' \in StopBoth(w) /\ Error
    BY <1>4 DEF StopFails
  <2>1. PICK s \in StopStation(w) : w' \in StopAccessPoint(s)
    BY <2>0 DEF StopBoth
  <2>2. Fine(w)' /\ Backed(w)' /\ (w.report => w'.report)
    BY <1>2, <1>3, <2>1 DEF Fine, Backed
  <2> QED  BY <1>1, <2>0, <2>2, ErrorWakes DEF Own
<1>5. CASE StopOthers /\ rec.ni.mode = "ap"
  <2>1. w' \in StopStation(w) /\ Goto("iface")
    BY <1>5 DEF StopOthers
  <2>2. rec'.at = "iface" /\ rec'.ni = rec.ni
    BY <2>1 DEF Goto, IInv, TypeOK
  <2>3. Fine(w)' /\ Backed(w)' /\ (w.report => w'.report)
    BY <1>2, <2>1 DEF Fine, Backed
  <2>4. StepInv' /\ DoneInv'
    BY <1>2, <2>1, <2>2 DEF StepInv, DoneInv
  <2> QED  BY <1>1, <2>2, <2>3, <2>4, GoesOnWakes DEF Own
<1>6. CASE StopOthers /\ rec.ni.mode = "station"
  <2>1. w' \in StopAccessPoint(w) /\ Goto("iface")
    BY <1>6 DEF StopOthers
  <2>2. rec'.at = "iface" /\ rec'.ni = rec.ni
    BY <2>1 DEF Goto, IInv, TypeOK
  <2>3. Fine(w)' /\ Backed(w)' /\ (w.report => w'.report)
    BY <1>0, <1>3, <2>1 DEF Fine, Backed
  <2>4. StepInv' /\ DoneInv'
    BY <1>6, <2>2 DEF StepInv, DoneInv
  <2> QED  BY <1>1, <2>2, <2>3, <2>4, GoesOnWakes DEF Own
<1>7. CASE StopOthers /\ rec.ni.mode \notin Kind
  <2>0. PICK x \in StopBoth(w) : w' = StopWifiInterface(x) /\ Goto("finish")
    BY <1>7 DEF StopOthers, Kind
  <2>1. PICK s \in StopStation(w) : x \in StopAccessPoint(s)
    BY <2>0 DEF StopBoth
  <2>2. /\ x \in Wifi /\ Fine(x) /\ Backed(x) /\ x.resolv # "dhcp" /\ x.rules # "all"
        /\ (w.report => x.report)
    BY <1>2, <1>3, <2>1
  <2>3. x.proc["ap"] = 0 /\ x.proc["station"] = 0 /\ x.proc["dhcpcd"] = 0
    BY <1>0, <2>0, StopBothFact
  <2>4. /\ w'.proc = x.proc /\ w'.backup = x.backup /\ w'.resolv = x.resolv /\ w'.mode = x.mode
        /\ ~w'.started /\ w'.rules = x.rules /\ (w'.report <=> x.report)
    BY <2>0, <2>2 DEF StopWifiInterface, Wifi
  <2>5. x.mode # "ap"
    BY <1>2, <2>1, StopAccessPointKeeps
  <2>6. Fine(w)' /\ Backed(w)'
    BY <2>2, <2>4, <2>5 DEF Fine, Backed
  <2>7. rec'.at = "finish" /\ rec'.ni = rec.ni
    BY <2>0 DEF Goto, IInv, TypeOK
  <2>8. StepInv'
    BY <2>7 DEF StepInv, Starting
  <2>9. Quiet' => Right'
    <3>1. SUFFICES ASSUME Quiet'  PROVE Right'
      OBVIOUS
    <3>2. ni' = ni /\ ni.mode \notin Kind
      BY <1>1, <1>7, <2>2, <2>4, <3>1 DEF Own, Quiet, WakeInv, CopyInv
    <3> QED  BY <2>2, <2>3, <2>4, <3>2 DEF Right, Matches, Off, Kind
  <2>10. DoneInv'
    BY <2>7, <2>9 DEF DoneInv
  <2> QED  BY <1>1, <2>2, <2>4, <2>6, <2>7, <2>8, <2>10, GoesOnWakes DEF Own
<1> QED  BY <1>4, <1>5, <1>6, <1>7 DEF Kind

LEMMA InterfaceWakes ==
    ASSUME IInv, IInv', WakeInv, StartWifiInterface \/ StartWifiInterfaceFails
    PROVE  WakeInv'
<1>0. /\ w \in Wifi /\ Fine(w) /\ Backed(w) /\ rec.at = "iface"
      /\ rec \in [at : Step, ni : NI, conf : 0..MaxConf, err : BOOLEAN]
  BY DEF IInv, TypeOK, WakeInv, StartWifiInterface, StartWifiInterfaceFails
\* What a restart leaves; none happens once there is an access point.
<1>1. ASSUME NEW x \in {w} \cup IF w.started THEN {} ELSE {Restarted(w)} \cup RestartFailed(w)
      PROVE  Fine(x) /\ Backed(x) /\ x.resolv = w.resolv /\ x.backup = w.backup
             /\ (w.report => x.report)
  <2>1. CASE x = w
    BY <1>0, <2>1
  <2>2. CASE x # w
    <3>1. ~w.started /\ x \in {Restarted(w)} \cup RestartFailed(w)
      BY <1>1, <2>2
    <3>2. /\ Same(w, x) /\ x.mode = w.mode /\ x.backup = w.backup /\ x.resolv = w.resolv
          /\ (x.report <=> w.report)
      BY <1>0, <3>1, RestartFact, RestartKeeps
    <3>3. w.mode # "ap"
      BY <1>0, <3>1 DEF Fine
    <3> QED  BY <1>0, <3>2, <3>3 DEF Fine, Backed, Same
  <2> QED  BY <2>1, <2>2
<1>2. CASE StartWifiInterface
  <2>1. w' \in {w} \cup IF w.started THEN {} ELSE {Restarted(w)} \cup RestartFailed(w)
    BY <1>2 DEF StartWifiInterface
  <2>2. Fine(w)' /\ Backed(w)' /\ w'.resolv = w.resolv /\ (w.report => w'.report)
    BY <1>1, <2>1 DEF Fine, Backed
  <2>3. UNCHANGED <<pw, seen, queued, missed>> /\ (event' <=> event \/ ~rec.ni.country)
    BY <1>2 DEF StartWifiInterface
  <2>4. rec'.at = "prepare" /\ (rec.ni.country => rec'.ni = rec.ni /\ ni' = ni)
    BY <1>0, <1>2 DEF StartWifiInterface
  <2>5. rec'.ni.mode = rec.ni.mode
    <3>1. ni' \in NI /\ rec.ni \in NI
      BY RecFact DEF IInv, TypeOK
    <3>2. rec'.ni = IF rec.ni.country THEN rec.ni ELSE [ni' EXCEPT !.mode = rec.ni.mode]
      BY <1>0, <1>2 DEF StartWifiInterface
    <3> QED  BY <3>1, <3>2 DEF NI
  <2>6. StepInv'
    BY <1>0, <2>2, <2>4, <2>5 DEF WakeInv, StepInv, Starting
  <2>7. DoneInv'
    BY <2>4 DEF DoneInv
  <2>8. CASE rec.ni.country
    <3>1. event' <=> event
      BY <2>3, <2>8
    <3> QED  BY <1>0, <2>2, <2>3, <2>4, <2>6, <2>7, <2>8, <3>1, GoesOnWakes
  <2>9. CASE ~rec.ni.country
    <3>1. event'
      BY <2>3, <2>9
    <3> QED  BY <2>2, <2>6, <3>1, Loud DEF Quiet
  <2> QED  BY <2>8, <2>9
<1>3. CASE StartWifiInterfaceFails
  <2>1. /\ w' \in {w} \cup IF w.started THEN {} ELSE {Restarted(w)} \cup RestartFailed(w)
        /\ Error /\ Own
    BY <1>3 DEF StartWifiInterfaceFails
  <2>2. Fine(w)' /\ Backed(w)' /\ (w.report => w'.report)
    BY <1>1, <2>1 DEF Fine, Backed
  <2> QED  BY <1>0, <2>1, <2>2, ErrorWakes DEF Own
<1> QED  BY <1>2, <1>3

LEMMA PrepareWakes == ASSUME IInv, IInv', WakeInv, Prepare \/ PrepareFails  PROVE WakeInv'
<1> DEFINE k == rec.ni.mode
           c == pw[k]
<1>0. /\ w \in Wifi /\ Fine(w) /\ Backed(w) /\ rec.at = "prepare" /\ Own /\ k \in Kind
      /\ w.proc \in [Process -> {0} \cup Conf]
      /\ rec \in [at : Step, ni : NI, conf : 0..MaxConf, err : BOOLEAN]
      /\ c \in 0..MaxConf
  BY DEF IInv, TypeOK, RecInv, WakeInv, Prepare, PrepareFails, Wifi, Kind
<1>1. CASE Prepare /\ c = 0
  <2>1. Error /\ w' = w
    BY <1>1 DEF Prepare
  <2>2. Fine(w)' /\ Backed(w)' /\ (w.report => w'.report)
    BY <1>0, <2>1 DEF Fine, Backed
  <2> QED  BY <1>0, <2>1, <2>2, ErrorWakes DEF Own
<1>2. CASE PrepareFails
  <2>1. w' \in PrepareFailed(w, k, c) /\ c \in Conf /\ Error
    BY <1>0, <1>2 DEF PrepareFails, Conf
  <2>2. Fine(w)' /\ Backed(w)' /\ (w.report => w'.report)
    <3> HIDE DEF k, c
    <3>1. \A x \in PrepareFailed(w, k, c) : Fine(x) /\ Backed(x) /\ (w.report => x.report)
      BY <1>0, <2>1, PrepareFailedKeeps
    <3> QED  BY <2>1, <3>1 DEF Fine, Backed
  <2> QED  BY <1>0, <2>1, <2>2, ErrorWakes DEF Own
<1>3. CASE Prepare /\ c # 0
  <2>1. /\ w' \in IF k = "ap" THEN PrepareAccessPoint(w, c) ELSE PrepareStation(w, c)
        /\ rec' = [rec EXCEPT !.at = "run", !.conf = c]
    BY <1>3 DEF Prepare
  <2>2. c \in Conf
    BY <1>0, <1>3 DEF Conf
  <2>3. rec'.at = "run" /\ rec'.ni = rec.ni /\ rec'.conf = c
    BY <1>0, <2>1
  <2>4. (w.report => w'.report) /\ Fine(w)' /\ Backed(w)' /\ StepInv'
    <3>1. CASE k = "ap"
      <4>1. /\ w'.backup = w.backup /\ w'.resolv = w.resolv /\ (w'.report <=> w.report)
            /\ w'.mode = "ap" /\ w'.rules # "none" /\ Fine(w')
        <5> HIDE DEF c, k
        <5> QED  BY <1>0, <2>1, <2>2, <3>1, PrepareAccessPointKeeps
      <4>2. w'.proc = w.proc
        <5> HIDE DEF c, k
        <5> QED  BY <1>0, <2>1, <2>2, <3>1, PrepareAccessPointFact
      <4>3. Fine(w)' /\ Backed(w)'
        BY <1>0, <4>1, <4>2 DEF Fine, Backed
      <4>4. w.resolv # "dhcp"
        BY <1>0, <3>1 DEF WakeInv, StepInv, Starting
      <4> QED  BY <2>3, <3>1, <4>1, <4>3, <4>4 DEF StepInv
    <3>2. CASE k = "station"
      <4>1. w'.mode = "station" /\ w'.backup \in {"own", "odd"} /\ (w.report => w'.report)
        <5> HIDE DEF c, k
        <5> QED  BY <1>0, <2>1, <2>2, <3>2, PrepareStationKeeps
      <4> QED  BY <2>3, <3>2, <4>1 DEF Fine, Backed, StepInv
    <3> QED  BY <1>0, <3>1, <3>2 DEF Kind
  <2>5. DoneInv'
    <3>1. SUFFICES ASSUME Quiet'  PROVE rec'.conf = pw'[ni'.mode]
      BY <2>3 DEF DoneInv
    <3>2. Quiet /\ rec.ni = ni /\ pw' = pw /\ ni' = ni
      BY <1>0, <2>4, <3>1 DEF Quiet, Own, WakeInv, CopyInv
    <3> QED  BY <2>3, <3>2
  <2> QED  BY <1>0, <2>3, <2>4, <2>5, GoesOnWakes DEF Own
<1> QED  BY <1>1, <1>2, <1>3

LEMMA RunWakes == ASSUME IInv, IInv', WakeInv, Run  PROVE WakeInv'
<1> DEFINE k == rec.ni.mode
           c == rec.conf
<1>0. /\ w \in Wifi /\ Fine(w) /\ Backed(w) /\ rec.at = "run" /\ Own /\ k \in Kind /\ c \in Conf
      /\ w.proc \in [Process -> {0} \cup Conf]
      /\ rec \in [at : Step, ni : NI, conf : 0..MaxConf, err : BOOLEAN]
  BY DEF IInv, TypeOK, RecInv, WakeInv, Run, Wifi, Kind
<1>1. PICK r \in StartRunner(w, k, c) :
          /\ w' = r[1]
          /\ IF ~r[2] THEN Error ELSE Goto(IF k = "ap" THEN "finish" ELSE "dhcpcd")
  BY DEF Run
<1>2. k \in Process
  BY <1>0 DEF Kind, Process
<1>3. /\ Kept(w, w') /\ (r[2] => w'.report \/ (w' = w /\ w.proc[k] = c))
      /\ w'.rules = w.rules /\ \E d \in {0, c} : w'.proc = [w.proc EXCEPT ![k] = d]
  <2> HIDE DEF k, c
  <2> QED  BY <1>0, <1>1, <1>2, StartRunnerKeeps, StartRunnerFact
<1>4. w'.proc["dhcpcd"] = w.proc["dhcpcd"]
  BY <1>0, <1>3 DEF Kind, Process
<1>5. Fine(w)' /\ Backed(w)' /\ (w.report => w'.report)
  BY <1>0, <1>3, <1>4 DEF Fine, Backed, Kept
<1>6. CASE ~r[2]
  BY <1>0, <1>1, <1>5, <1>6, ErrorWakes DEF Own
<1>7. CASE r[2]
  <2>1. Goto(IF k = "ap" THEN "finish" ELSE "dhcpcd")
    BY <1>1, <1>7
  <2>2. /\ rec'.at = IF k = "ap" THEN "finish" ELSE "dhcpcd"
        /\ rec'.ni = rec.ni
    BY <1>0, <2>1 DEF Goto
  <2>3. StepInv'
    BY <1>0, <1>3, <2>2 DEF WakeInv, StepInv, Kind, Kept, Starting
  <2>4. DoneInv'
    <3>1. CASE ~Quiet'
      BY <3>1 DEF DoneInv
    <3>2. CASE Quiet'
      <4>1. /\ Quiet /\ rec.ni = ni /\ pw' = pw /\ ni' = ni
            /\ w' = w /\ w.proc[k] = pw[k]
        BY <1>0, <1>3, <1>5, <1>7, <3>2 DEF Quiet, Own, WakeInv, CopyInv, DoneInv
      <4>2. CASE k = "ap"
        <5>1. w.rules # "none" /\ w.mode = "ap" /\ w.resolv # "dhcp" /\ Off("station") /\ Off("dhcpcd")
          BY <1>0, <4>2 DEF WakeInv, StepInv, IInv, ModeInv, Starting
        <5>2. Right'
          BY <4>1, <4>2, <5>1 DEF Right, Matches, Runs, Off
        <5> QED  BY <2>2, <4>2, <5>2 DEF DoneInv
      <4>3. CASE k = "station"
        BY <2>2, <4>1, <4>3 DEF DoneInv
      <4> QED  BY <1>0, <4>2, <4>3 DEF Kind
    <3> QED  BY <3>1, <3>2
  <2> QED  BY <1>0, <1>5, <2>2, <2>3, <2>4, GoesOnWakes DEF Own
<1> QED  BY <1>6, <1>7

LEMMA RunDhcpcdWakes == ASSUME IInv, IInv', WakeInv, RunDhcpcd  PROVE WakeInv'
<1>0. /\ w \in Wifi /\ Fine(w) /\ Backed(w) /\ rec.at = "dhcpcd" /\ Own
      /\ rec.ni.mode = "station" /\ 1 \in Conf /\ "dhcpcd" \in Process
      /\ rec \in [at : Step, ni : NI, conf : 0..MaxConf, err : BOOLEAN]
  BY ConfAssumption DEF IInv, TypeOK, RecInv, WakeInv, RunDhcpcd, Conf, Process
<1>1. PICK r \in StartRunner(w, "dhcpcd", 1) :
          w' = r[1] /\ IF r[2] THEN Goto("finish") ELSE Error
  BY DEF RunDhcpcd
<1>2. Kept(w, w') /\ (r[2] => w'.report \/ (w' = w /\ w.proc["dhcpcd"] = 1))
  BY <1>0, <1>1, StartRunnerKeeps
<1>3. w.backup # "none"
  BY <1>0 DEF WakeInv, StepInv
<1>4. Fine(w)' /\ Backed(w)' /\ (w.report => w'.report)
  BY <1>0, <1>2, <1>3 DEF Fine, Backed, Kept
<1>5. CASE ~r[2]
  BY <1>0, <1>1, <1>4, <1>5, ErrorWakes DEF Own
<1>6. CASE r[2]
  <2>1. rec'.at = "finish" /\ rec'.ni = rec.ni
    BY <1>0, <1>1, <1>6 DEF Goto
  <2>2. StepInv'
    BY <2>1 DEF StepInv, Starting
  <2>3. Quiet' => Right'
    <3>1. SUFFICES ASSUME Quiet'  PROVE Right'
      OBVIOUS
    <3>2. /\ Quiet /\ rec.ni = ni /\ pw' = pw /\ ni' = ni /\ w' = w /\ w.proc["dhcpcd"] = 1
          /\ w.proc["station"] = pw["station"]
      BY <1>0, <1>2, <1>4, <1>6, <3>1 DEF Quiet, Own, WakeInv, CopyInv, DoneInv
    <3>3. Off("ap") /\ w.rules # "all"
      BY <1>0 DEF IInv, ModeInv, Starting
    <3> QED  BY <1>0, <3>2, <3>3 DEF Right, Matches, Runs, Off
  <2>4. DoneInv'
    BY <2>1, <2>3 DEF DoneInv
  <2> QED  BY <1>0, <1>4, <2>1, <2>2, <2>4, GoesOnWakes DEF Own
<1> QED  BY <1>5, <1>6

LEMMA EndWakes == ASSUME IInv, IInv', WakeInv, StartPanics \/ Finish \/ FinishFails  PROVE WakeInv'
<1>0. /\ w \in Wifi /\ w.proc \in [Process -> {0} \cup Conf] /\ rec' = Idle
      /\ event \in BOOLEAN /\ queued \in BOOLEAN
  BY DEF IInv, TypeOK, StartPanics, Finish, FinishFails, Return, Wifi
<1>1. rec'.at = "idle"
  BY <1>0, IdleFact
<1>2. StepInv'
  BY <1>1 DEF StepInv, Starting
<1>3. CASE StartPanics
  <2>1. PICK p \in Process : w' = [Halt(w, p) EXCEPT !.cool = @ \cup {p}]
    BY <1>3 DEF StartPanics
  <2> DEFINE h == Halt(w, p)
  <2>2. h \in Wifi /\ h.proc = [w.proc EXCEPT ![p] = 0] /\ Kept(w, h)
    BY <1>0, HaltFact, HaltKeeps
  <2>3. w' = [h EXCEPT !.cool = h.cool \cup {p}]
    BY <2>1
  <2> HIDE DEF h
  <2>4. /\ w'.proc = h.proc /\ w'.backup = h.backup /\ w'.resolv = h.resolv /\ w'.mode = h.mode
        /\ (w'.started <=> h.started) /\ (w'.addr <=> h.addr) /\ (w'.lost <=> h.lost)
    BY <2>2, <2>3 DEF Wifi
  <2>5. h.proc["dhcpcd"] \in {0, w.proc["dhcpcd"]}
    BY <1>0, <2>2 DEF Process
  <2>6. Fine(w)' /\ Backed(w)'
    BY <2>2, <2>4, <2>5 DEF WakeInv, Fine, Backed, Kept
  <2>7. ~Quiet' /\ (~event' => seen' = ni')
    BY <1>3 DEF StartPanics, Quiet, WakeInv, CopyInv
  <2> QED  BY <1>2, <2>6, <2>7, Loud
<1>4. CASE FinishFails
  <2>1. w' = w /\ queued' /\ UNCHANGED <<ni, seen, event>>
    BY <1>4 DEF FinishFails, Return
  <2>2. Fine(w)' /\ Backed(w)' /\ ~Quiet' /\ (~event' => seen' = ni')
    BY <2>1 DEF WakeInv, Fine, Backed, Quiet, CopyInv
  <2> QED  BY <1>2, <2>2, Loud
<1>5. CASE Finish
  <2>0. w' = w /\ rec.at = "finish" /\ UNCHANGED <<pw, seen, missed>> /\ ni \in NI
    BY <1>5 DEF Finish, IInv, TypeOK
  <2>1. Fine(w)' /\ Backed(w)'
    BY <2>0 DEF WakeInv, Fine, Backed
  <2>2. PICK found \in BOOLEAN :
          LET asks == ~rec.err /\ rec.ni.up /\ ~rec.ni.ip
              err == rec.err \/ (asks /\ ~found)
              old == IF asks /\ found THEN ni.err ELSE rec.ni.err
          IN  /\ ni' = [ni EXCEPT !.ip = @ \/ (asks /\ found),
                                  !.err = IF err # old THEN err ELSE @]
              /\ event' = (event \/ (asks /\ found) \/ err # old)
              /\ Return(err)
    BY <1>5 DEF Finish
  <2> DEFINE asks == ~rec.err /\ rec.ni.up /\ ~rec.ni.ip
             err == rec.err \/ (asks /\ ~found)
             old == IF asks /\ found THEN ni.err ELSE rec.ni.err
  <2>3. /\ ni' = [ni EXCEPT !.ip = @ \/ (asks /\ found), !.err = IF err # old THEN err ELSE @]
        /\ event' = (event \/ (asks /\ found) \/ err # old)
        /\ queued' = (queued \/ err)
    BY <2>2 DEF Return
  <2>4. CASE event' \/ queued'
    <3>1. ~event' => seen' = ni'
      <4>1. ASSUME ~event'  PROVE ~event /\ ~(asks /\ found) /\ err = old
        BY <2>3, <4>1
      <4>2. ASSUME ~event'  PROVE ni' = ni
        <5> HIDE DEF asks, err, old
        <5>1. ni' = [ni EXCEPT !.ip = ni.ip \/ (asks /\ found), !.err = ni.err]
          BY <2>3, <4>1, <4>2
        <5>2. (ni.ip \/ (asks /\ found)) = ni.ip
          BY <2>0, <4>1, <4>2 DEF NI
        <5> QED  BY <2>0, <5>1, <5>2 DEF NI
      <4> QED  BY <2>0, <4>1, <4>2 DEF WakeInv, CopyInv
    <3> QED  BY <1>2, <2>1, <2>4, <3>1, Loud DEF Quiet
  <2>5. CASE ~event' /\ ~queued'
    <3>1. ~event /\ ~(asks /\ found) /\ err = old /\ ~queued /\ ~err
      BY <2>3, <2>5
    <3>2. ~rec.err
      BY <3>1
    <3>3. ni' = ni
      <4> HIDE DEF asks, err, old
      <4>1. ni' = [ni EXCEPT !.ip = ni.ip \/ (asks /\ found), !.err = ni.err]
        BY <2>3, <3>1
      <4>2. (ni.ip \/ (asks /\ found)) = ni.ip
        BY <2>0, <3>1 DEF NI
      <4> QED  BY <2>0, <4>1, <4>2 DEF NI
    <3>4. Quiet' => Quiet
      BY <2>0, <3>1 DEF Quiet
    <3>5. Right => Right'
      BY <2>0, <3>3 DEF Right, Matches, Runs, Off
    <3>6. CopyInv'
      BY <1>1, <2>0, <3>1, <3>3 DEF WakeInv, CopyInv
    <3>7. DoneInv'
      BY <1>1, <2>0, <3>2, <3>4, <3>5 DEF WakeInv, DoneInv
    <3> QED  BY <1>2, <2>1, <3>6, <3>7 DEF WakeInv
  <2> QED  BY <2>4, <2>5
<1> QED  BY <1>3, <1>4, <1>5

LEMMA BeginWakes == ASSUME IInv, WakeInv, Begin  PROVE WakeInv'
<1>1. /\ rec'.at = "stop" /\ rec'.ni = seen /\ w' = w /\ ni' = ni /\ seen' = seen /\ event' = event
  BY DEF Begin
<1>2. Fine(w)' /\ Backed(w)' /\ StepInv' /\ DoneInv'
  BY <1>1 DEF WakeInv, Fine, Backed, StepInv, Starting, DoneInv
<1>3. CopyInv'
  BY <1>1 DEF WakeInv, CopyInv, Quiet
<1> QED  BY <1>2, <1>3 DEF WakeInv

\* Initially the interface has not been reconciled, and the first event comes.
LEMMA WakeInit == Init => WakeInv
<1> SUFFICES ASSUME Init  PROVE WakeInv
  OBVIOUS
<1>1. Fine(w) /\ Backed(w)
  BY DEF Init, NewWifi, Fine, Backed, Process
<1>2. rec.at = "idle"
  BY IdleFact DEF Init
<1> QED  BY <1>1, <1>2 DEF Init, WakeInv, StepInv, CopyInv, DoneInv, Quiet, Starting

\* WakeInv is inductive given the types and the modes.
LEMMA WakeStep == IInv /\ IInv' /\ WakeInv /\ [Next]_vars => WakeInv'
<1> SUFFICES ASSUME IInv, IInv', WakeInv, [Next]_vars  PROVE WakeInv'
  OBVIOUS
<1>1. CASE UNCHANGED vars
  BY <1>1 DEF vars, WakeInv, Fine, Backed, StepInv, CopyInv, DoneInv, Quiet, Right, Matches, Runs, Off
<1> QED
  BY <1>1, EnvironmentWakes, BeginWakes, StopWakes, InterfaceWakes, PrepareWakes, RunWakes,
     RunDhcpcdWakes, EndWakes
  DEF Next, ReconcileStep, ReconcileFails, Kind

(***************************************************************************)
(* Whenever the watch, the work queue and the Reporters have nothing left  *)
(* to do, the interface is as the resource and the password ask for: no    *)
(* switch of the mode that fails, panics or is overtaken half way leaves   *)
(* it wrong with nobody to come back to it - but for a new password or a   *)
(* lost report (missed), the address that a failed restart took away       *)
(* (w.lost), a configuration file that was truncated (w.torn), and what a  *)
(* failure of iptables or of a copy of resolv.conf left behind ("odd").    *)
(***************************************************************************)
THEOREM RestsRight == Spec => []RestIsRight
<1>1. IInv /\ WakeInv => RestIsRight
  BY DEF WakeInv, Fine, DoneInv, Quiet, Right, RestIsRight, AtRest, Addressed
<1> QED  BY <1>1, Inductive, WakeInit, WakeStep, PTL DEF Spec
=============================================================================
