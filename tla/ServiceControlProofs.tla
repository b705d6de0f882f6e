------------------------ MODULE ServiceControlProofs ------------------------
(***************************************************************************)
(* Proofs about the restarters, for any numbers of saves, links and        *)
(* faults, and whichever of them run alone: types, whole configuration     *)
(* files, the redirect of clients, and that daemon, rules and settings     *)
(* agree at rest.                                                          *)
(***************************************************************************)
EXTENDS ServiceControl, FiniteSetTheorems, TLAPS

(***************************************************************************)
(* Types.  Sets of at most one element are stated without their            *)
(* cardinality.                                                            *)
(***************************************************************************)
AtMostOne(S) == \A a, b \in S : a = b

Jobs == job \in [Callers -> Job] /\ \A w \in Callers : At(w, "idle") => job[w] = Idle

Daemons ==
  /\ proc \subseteq Settings /\ AtMostOne(proc)
  /\ pid \in BOOLEAN /\ crashed \in BOOLEAN /\ failed \in BOOLEAN
  /\ rules \subseteq Rules

Disk ==
  /\ conf \in Settings \cup {Torn} /\ (svc # "suricata" => conf \in Settings)
  /\ new \subseteq Settings \cup {Torn} /\ AtMostOne(new)
  /\ once \in BOOLEAN

Ended == last \in [how: How, rc: {0, 1}]

World ==
  /\ svc \in Service /\ saved \in Settings /\ red \in Link
  /\ owed \in [Callers -> Seq(How)]
  /\ bounds \in [saves: 0..MaxSaves, links: 0..MaxLinks, faults: 0..MaxFaults]

TypeInv == World /\ Jobs /\ Daemons /\ Disk /\ Ended

LEMMA Few == ASSUME NEW S, AtMostOne(S) PROVE Cardinality(S) <= 1
<1>1. CASE S = {}
  <2>1. Cardinality(S) = 0
    BY <1>1, FS_EmptySet
  <2> QED
    BY <2>1
<1>2. CASE S # {}
  <2>1. PICK a \in S : TRUE
    BY <1>2
  <2>2. S = {a}
    BY <2>1 DEF AtMostOne
  <2>3. Cardinality(S) = 1
    BY <2>2, FS_Singleton
  <2> QED
    BY <2>3
<1> QED
  BY <1>1, <1>2

LEMMA TypesFollow == TypeInv => TypeOK
<1> SUFFICES ASSUME TypeInv PROVE TypeOK
  OBVIOUS
<1>1. Cardinality(proc) <= 1 /\ Cardinality(new) <= 1
  BY Few DEF TypeInv, Daemons, Disk
<1> QED
  BY <1>1 DEF TypeInv, TypeOK, World, Jobs, Daemons, Disk, Ended

\* How a restarter moves on: only its own record changes.
Moved(w, s) ==
  /\ Jobs' /\ Ended'
  /\ job'[w].at = s /\ job'[w].how = job[w].how
  /\ job'[w].read \in {job[w].read, saved}
  /\ \A v \in Callers : v # w => job'[v] = job[v]

LEMMA IdleIsJob == Idle \in Job
BY ServiceAssumption DEF Idle, Job, Off, Settings, NoLink, Link, How, Steps

LEMMA Moves ==
  ASSUME TypeInv, NEW w \in Callers, NEW s \in Steps, Go(w, s) \/ Read(w, s) \/ See(w, s)
  PROVE  Moved(w, s)
<1> USE DEF TypeInv, Jobs, World, Ended
<1>1. s # "idle"
  BY DEF Steps
<1> DEFINE J == job[w]
<1>2. J \in Job
  OBVIOUS
<1>5. /\ [J EXCEPT !.at = s] \in Job
      /\ [J EXCEPT !.at = s, !.read = saved] \in Job
      /\ [J EXCEPT !.at = s, !.saw = red] \in Job
  BY <1>2 DEF Job
<1>6. PICK R \in Job : job' = [job EXCEPT ![w] = R]
  BY <1>5 DEF Go, Read, See
<1>7. job' \in [Callers -> Job]
  BY <1>6
<1>8. last' = last
  BY DEF Go, Read, See
<1>3. job'[w].at = s /\ job'[w].how = job[w].how /\ job'[w].read \in {job[w].read, saved}
  BY DEF Go, Read, See, Job
<1>4. \A v \in Callers : v # w => job'[v] = job[v]
  BY DEF Go, Read, See
<1> QED
  BY <1>1, <1>7, <1>8, <1>3, <1>4 DEF Moved, At

LEMMA Exits ==
  ASSUME TypeInv, NEW w \in Callers, NEW rc \in {0, 1}, Exit(w, rc)
  PROVE  /\ Jobs' /\ Ended' /\ job'[w] = Idle
         /\ \A v \in Callers : v # w => job'[v] = job[v]
<1> USE DEF TypeInv, Jobs, World, Ended
<1>1. job' \in [Callers -> Job] /\ job'[w] = Idle
  BY IdleIsJob DEF Exit
<1>2. \A v \in Callers : v # w => job'[v] = job[v]
  BY DEF Exit
<1>3. last' \in [how: How, rc: {0, 1}]
  BY DEF Exit, Job
<1> QED
  BY <1>1, <1>2, <1>3 DEF At

-----------------------------------------------------------------------------
(* The steps of each restarter.                                            *)

Editing(w) == job[w].at \in {"sed", "rename"}

\* A step of w that leaves the new configuration files alone.
Elsewhere(w) ==
  /\ Jobs' /\ Ended' /\ ~Editing(w)'
  /\ \A v \in Callers : v # w => job'[v] = job[v]

LEMMA Leaves ==
  ASSUME TypeInv, NEW w \in Callers,
         \/ \E s \in Steps \ {"sed", "rename"} : Go(w, s) \/ Read(w, s) \/ See(w, s)
         \/ \E rc \in {0, 1} : Exit(w, rc)
  PROVE  Elsewhere(w)
<1>1. ASSUME NEW s \in Steps \ {"sed", "rename"}, Go(w, s) \/ Read(w, s) \/ See(w, s)
      PROVE  Elsewhere(w)
  BY <1>1, Moves DEF Moved, Elsewhere, Editing
<1>2. ASSUME NEW rc \in {0, 1}, Exit(w, rc)
      PROVE  Elsewhere(w)
  <2>1. /\ Jobs' /\ Ended' /\ job'[w] = Idle
        /\ \A v \in Callers : v # w => job'[v] = job[v]
    BY <1>2, Exits
  <2> QED
    BY <2>1 DEF Elsewhere, Editing, Idle
<1> QED
  BY <1>1, <1>2

LEMMA NtpdSteps ==
  ASSUME TypeInv, NEW w \in Callers, UNCHANGED world, Ntpd(w)
  PROVE  Elsewhere(w) /\ Daemons' /\ Disk'
<1>1. Elsewhere(w)
  BY Leaves DEF Ntpd, Steps
<1>2. job[w].read \in Settings /\ job[w].saw \in Link /\ 0 \in 0 .. MaxLinks
  BY ServiceAssumption DEF TypeInv, Jobs, Job
<1>3. Rule("redirect", 0) \in Rules
  BY <1>2 DEF Rule, Rules
<1>4. rules' \subseteq rules \cup {Rule("redirect", 0)}
  BY DEF Ntpd, kernel
<1>5. Daemons'
  BY <1>2, <1>3, <1>4 DEF Ntpd, TypeInv, Disk, kernel, Stopped, Started, Launched, Chained,
     Daemons, AtMostOne
<1>6. Disk'
  BY <1>2 DEF Ntpd, TypeInv, Disk, files, AtMostOne
<1> QED
  BY <1>1, <1>5, <1>6

LEMMA SquidSteps ==
  ASSUME TypeInv, NEW w \in Callers, UNCHANGED world, Squid(w)
  PROVE  Elsewhere(w) /\ Daemons' /\ Disk'
<1>1. Elsewhere(w)
  BY Leaves DEF Squid, SquidStop, SquidRead, SquidRules, Steps
<1>2. job[w].read \in Settings /\ job[w].saw \in Link /\ 0 \in 0 .. MaxLinks
  BY ServiceAssumption DEF TypeInv, Jobs, Job
<1>3. SquidRules(w) \subseteq Rules
  BY <1>2 DEF SquidRules, Rule, Rules, Link
<1>4. rules' \subseteq rules \cup SquidRules(w)
  BY DEF Squid, SquidStop, SquidRead, kernel
<1>5. Daemons'
  BY <1>2, <1>3, <1>4 DEF Squid, SquidStop, SquidRead, TypeInv, Disk, kernel, Stopped, Started,
     Launched, Chained, Daemons, AtMostOne
<1>6. Disk'
  BY <1>2 DEF Squid, SquidStop, SquidRead, SquidRules, TypeInv, Disk, files, AtMostOne
<1> QED
  BY <1>1, <1>5, <1>6

LEMMA OpenvpnSteps ==
  ASSUME TypeInv, NEW w \in Callers, UNCHANGED world, Openvpn(w)
  PROVE  Elsewhere(w) /\ Daemons' /\ Disk'
<1>1. Elsewhere(w)
  BY Leaves DEF Openvpn, Steps
<1>2. job[w].read \in Settings /\ job[w].saw \in Link /\ 0 \in 0 .. MaxLinks
  BY ServiceAssumption DEF TypeInv, Jobs, Job
<1>3. Daemons'
  BY <1>2 DEF Openvpn, TypeInv, Disk, kernel, Stopped, Started, Launched, Chained, Daemons,
     AtMostOne, Rules, Rule
<1>4. Disk'
  BY <1>2 DEF Openvpn, TypeInv, Disk, files, AtMostOne
<1> QED
  BY <1>1, <1>3, <1>4

LEMMA WireguardSteps ==
  ASSUME TypeInv, NEW w \in Callers, UNCHANGED world, Wireguard(w)
  PROVE  Elsewhere(w) /\ Daemons' /\ Disk'
<1>1. Elsewhere(w)
  BY Leaves DEF Wireguard, Steps
<1>2. job[w].read \in Settings /\ job[w].saw \in Link /\ 0 \in 0 .. MaxLinks
  BY ServiceAssumption DEF TypeInv, Jobs, Job
<1>3. Daemons'
  BY <1>2 DEF Wireguard, TypeInv, Disk, kernel, Stopped, Started, Launched, Chained, Daemons,
     AtMostOne, Rules, Rule
<1>4. Disk'
  BY <1>2 DEF Wireguard, TypeInv, Disk, files, AtMostOne
<1> QED
  BY <1>1, <1>3, <1>4

LEMMA SuricataSteps ==
  ASSUME TypeInv, NEW w \in Callers, UNCHANGED world, Suricata(w)
  PROVE  Elsewhere(w) /\ Daemons' /\ Disk'
<1>1. Elsewhere(w)
  BY Leaves DEF Suricata, SuricataConf, Steps
<1>2. job[w].read \in Settings /\ job[w].saw \in Link /\ 0 \in 0 .. MaxLinks
  BY ServiceAssumption DEF TypeInv, Jobs, Job
<1>3. Daemons'
  BY <1>2 DEF Suricata, SuricataConf, Accepted, TypeInv, Disk, kernel, Stopped, Started,
     Launched, Chained, Daemons, AtMostOne, Rules, Rule
<1>4. Disk'
  BY <1>2 DEF Suricata, SuricataConf, TypeInv, Disk, files, world, AtMostOne
<1> QED
  BY <1>1, <1>3, <1>4

LEMMA AliasesSteps ==
  ASSUME TypeInv, NEW w \in Callers, UNCHANGED world, Aliases(w)
  PROVE  Elsewhere(w) /\ Daemons' /\ Disk'
<1>1. Elsewhere(w)
  BY Leaves DEF Aliases, Flush, Steps
<1>2. job[w].read \in Settings /\ job[w].saw \in Link /\ 0 \in 0 .. MaxLinks
  BY ServiceAssumption DEF TypeInv, Jobs, Job
<1>3. Daemons'
  BY <1>2 DEF Aliases, Flush, TypeInv, Disk, kernel, Daemons, AtMostOne, Rules, Rule
<1>4. Disk'
  BY <1>2 DEF Aliases, Flush, TypeInv, Disk, files, AtMostOne
<1> QED
  BY <1>1, <1>3, <1>4

LEMMA ShapingSteps ==
  ASSUME TypeInv, NEW w \in Callers, UNCHANGED world, Shaping(w)
  PROVE  Elsewhere(w) /\ Daemons' /\ Disk'
<1>1. Elsewhere(w)
  BY Leaves DEF Shaping, Steps
<1>2. job[w].read \in Settings /\ job[w].saw \in Link /\ 0 \in 0 .. MaxLinks
  BY ServiceAssumption DEF TypeInv, Jobs, Job
<1>3. Daemons'
  BY <1>2 DEF Shaping, TypeInv, Disk, kernel, Daemons, AtMostOne, Rules, Rule
<1>4. Disk'
  BY <1>2 DEF Shaping, TypeInv, Disk, files, AtMostOne
<1> QED
  BY <1>1, <1>3, <1>4

LEMMA AccountingSteps ==
  ASSUME TypeInv, NEW w \in Callers, UNCHANGED world, Accounting(w)
  PROVE  Elsewhere(w) /\ Daemons' /\ Disk'
<1>1. Elsewhere(w)
  BY Leaves DEF Accounting, Steps
<1>2. job[w].read \in Settings /\ job[w].saw \in Link /\ 0 \in 0 .. MaxLinks
  BY ServiceAssumption DEF TypeInv, Jobs, Job
<1>3. Daemons'
  <2>1. proc' \in {proc, {}, {job[w].read}}
    BY DEF Accounting, Launched
  <2>2. failed' \in BOOLEAN
    BY DEF Accounting, Launched, TypeInv, Daemons
  <2>3. rules' \subseteq Rules
    BY <1>2 DEF Accounting, TypeInv, Daemons, Rules, Rule
  <2> QED
    BY <1>2, <2>1, <2>2, <2>3 DEF Accounting, TypeInv, Daemons, AtMostOne
<1>4. Disk'
  BY <1>2 DEF Accounting, TypeInv, Disk, files, AtMostOne
<1> QED
  BY <1>1, <1>3, <1>4

LEMMA IpsecSteps ==
  ASSUME TypeInv, NEW w \in Callers, UNCHANGED world, Ipsec(w)
  PROVE  Elsewhere(w) /\ Daemons' /\ Disk'
<1>1. Elsewhere(w)
  BY Leaves DEF Ipsec, Steps
<1>2. job[w].read \in Settings /\ job[w].saw \in Link /\ 0 \in 0 .. MaxLinks
  BY ServiceAssumption DEF TypeInv, Jobs, Job
<1>3. Daemons'
  BY <1>2 DEF Ipsec, TypeInv, Disk, kernel, Stopped, Started, Launched, Chained, Daemons,
     AtMostOne, Rules, Rule
<1>4. Disk'
  BY <1>2 DEF Ipsec, TypeInv, Disk, files, AtMostOne
<1> QED
  BY <1>1, <1>3, <1>4

-----------------------------------------------------------------------------
(* Who holds a new configuration file: at most one restarter, since the    *)
(* file is created with O_EXCL, and it is complete before it is renamed.   *)

Edits ==
  /\ \A w \in Callers : Editing(w) => new # {}
  /\ \A v, w \in Callers : Editing(v) /\ Editing(w) => v = w
  /\ \A w \in Callers : At(w, "rename") => Torn \notin new

Inv == TypeInv /\ Edits

LEMMA NoEdit ==
  ASSUME Edits, NEW w \in Callers, Elsewhere(w), UNCHANGED new
  PROVE  Edits'
BY DEF Edits, Elsewhere, Editing, At

LEMMA EditsStay ==
  ASSUME Edits, UNCHANGED <<job, new>>
  PROVE  Edits'
BY DEF Edits, Editing, At

LEMMA CreateSteps ==
  ASSUME Inv, NEW w \in Callers, Create(w), ~Editing(w)
  PROVE  /\ Jobs' /\ Ended' /\ Edits'
         /\ new' \subseteq Settings \cup {Torn} /\ AtMostOne(new')
<1>1. CASE Exit(w, 1) /\ UNCHANGED new
  <2>1. Elsewhere(w)
    BY <1>1, Leaves DEF Inv
  <2> QED
    BY <1>1, <2>1, NoEdit DEF Inv, Elsewhere, TypeInv, Disk
<1>2. CASE new = {} /\ new' = {Torn} /\ Go(w, "sed")
  <2>1. Moved(w, "sed")
    BY <1>2, Moves DEF Inv, Steps
  <2>2. \A v \in Callers : ~Editing(v)
    BY <1>2 DEF Inv, Edits
  <2>3. Edits'
    BY <1>2, <2>1, <2>2 DEF Moved, Edits, Editing, At
  <2> QED
    BY <1>2, <2>1, <2>3 DEF Moved, AtMostOne
<1> QED
  BY <1>1, <1>2 DEF Create

LEMMA ConfiguredSteps ==
  ASSUME Inv, NEW w \in Callers, UNCHANGED <<world, once>>, Configured(w)
  PROVE  Jobs' /\ Ended' /\ Disk' /\ Edits'
<1> USE DEF Inv
<1>1. job[w].read \in Settings
  BY DEF TypeInv, Jobs, Job
<1>2. CASE At(w, "begin") /\ Read(w, "create") /\ UNCHANGED <<conf, new>>
  <2>1. Elsewhere(w)
    BY <1>2, Leaves DEF Steps
  <2> QED
    BY <1>2, <2>1, NoEdit DEF Elsewhere, TypeInv, Disk, world
<1>3. CASE At(w, "create") /\ Create(w) /\ UNCHANGED conf
  BY <1>3, CreateSteps DEF At, Editing, TypeInv, Disk, world
<1>4. CASE At(w, "sed") /\ new' = {job[w].read} /\ Go(w, "rename") /\ UNCHANGED conf
  <2>1. Moved(w, "rename")
    BY <1>4, Moves DEF Steps
  <2>2. Torn # job[w].read
    BY <1>1, ServiceAssumption
  <2>3. Edits'
    BY <1>4, <2>1, <2>2 DEF Moved, Edits, Editing, At
  <2> QED
    BY <1>1, <1>4, <2>1, <2>3 DEF Moved, TypeInv, Disk, AtMostOne, world
<1>5. CASE At(w, "rename") /\ new # {} /\ conf' \in new /\ new' = {} /\ Go(w, "down")
  <2>1. Elsewhere(w)
    BY <1>5, Leaves DEF Steps
  <2>2. conf' \in Settings
    BY <1>5 DEF Edits, TypeInv, Disk
  <2>3. Edits'
    BY <1>5, <2>1 DEF Edits, Elsewhere, Editing, At
  <2> QED
    BY <1>5, <2>1, <2>2, <2>3 DEF Elsewhere, TypeInv, Disk, AtMostOne, world
<1> QED
  BY <1>2, <1>3, <1>4, <1>5 DEF Configured

LEMMA SshdSteps ==
  ASSUME Inv, NEW w \in Callers, UNCHANGED world, Sshd(w)
  PROVE  Jobs' /\ Ended' /\ Daemons' /\ Disk' /\ Edits'
<1>1. CASE Configured(w) /\ UNCHANGED <<proc, pid, crashed, failed>>
  BY <1>1, ConfiguredSteps DEF Sshd, Inv, TypeInv, Daemons
<1>2. CASE ~(Configured(w) /\ UNCHANGED <<proc, pid, crashed, failed>>)
  <2>1. Elsewhere(w)
    BY <1>2, Leaves DEF Sshd, Inv, Steps
  <2>2. UNCHANGED <<conf, new, once, rules>>
    BY <1>2 DEF Sshd
  <2>3. Daemons'
    BY <1>2, <2>2 DEF Sshd, Started, Launched, Chained, Inv, TypeInv, Disk, Daemons, AtMostOne
  <2> QED
    BY <2>1, <2>2, <2>3, NoEdit DEF Elsewhere, Inv, TypeInv, Disk, world
<1> QED
  BY <1>1, <1>2 DEF Sshd

LEMMA RsyslogdSteps ==
  ASSUME Inv, NEW w \in Callers, UNCHANGED world, Rsyslogd(w)
  PROVE  Jobs' /\ Ended' /\ Daemons' /\ Disk' /\ Edits'
<1>1. CASE Configured(w) /\ UNCHANGED <<proc, pid, crashed, failed>>
  BY <1>1, ConfiguredSteps DEF Rsyslogd, Inv, TypeInv, Daemons
<1>2. CASE ~(Configured(w) /\ UNCHANGED <<proc, pid, crashed, failed>>)
  <2>1. Elsewhere(w)
    <3>1. (IF proc' = {} THEN 1 ELSE 0) \in {0, 1}
      OBVIOUS
    <3>2. Go(w, "up") \/ Exit(w, IF proc' = {} THEN 1 ELSE 0)
      BY <1>2 DEF Rsyslogd
    <3> QED
      BY <3>1, <3>2, Leaves DEF Inv, Steps
  <2>2. UNCHANGED <<conf, new, once, rules>>
    BY <1>2 DEF Rsyslogd
  <2>3. Daemons'
    BY <1>2, <2>2 DEF Rsyslogd, Stopped, Started, Launched, Chained, Inv, TypeInv, Disk,
       Daemons, AtMostOne
  <2> QED
    BY <2>1, <2>2, <2>3, NoEdit DEF Elsewhere, Inv, TypeInv, Disk, world
<1> QED
  BY <1>1, <1>2 DEF Rsyslogd

LEMMA OtherSteps ==
  ASSUME Inv, NEW w \in Callers, Elsewhere(w), Daemons', Disk', UNCHANGED world, UNCHANGED new
  PROVE  Inv'
BY NoEdit DEF Inv, TypeInv, World, Elsewhere, world

LEMMA StepInv ==
  ASSUME Inv, NEW w \in Callers, Step(w)
  PROVE  Inv'
<1> USE DEF Inv
<1>1. UNCHANGED world /\ World'
  BY DEF Step, TypeInv, World, world
<1>2. CASE Sshd(w)
  BY <1>1, <1>2, SshdSteps DEF TypeInv
<1>3. CASE Rsyslogd(w)
  BY <1>1, <1>3, RsyslogdSteps DEF TypeInv
<1>4. CASE Ntpd(w)
  BY <1>1, <1>4, NtpdSteps, OtherSteps DEF Ntpd
<1>5. CASE Squid(w)
  BY <1>1, <1>5, SquidSteps, OtherSteps DEF Squid, files
<1>6. CASE Openvpn(w)
  BY <1>1, <1>6, OpenvpnSteps, OtherSteps DEF Openvpn, files
<1>7. CASE Wireguard(w)
  BY <1>1, <1>7, WireguardSteps, OtherSteps DEF Wireguard, files
<1>8. CASE Suricata(w)
  BY <1>1, <1>8, SuricataSteps, OtherSteps DEF Suricata
<1>9. CASE Aliases(w)
  BY <1>1, <1>9, AliasesSteps, OtherSteps DEF Aliases, files
<1>10. CASE Shaping(w)
  BY <1>1, <1>10, ShapingSteps, OtherSteps DEF Shaping, files
<1>11. CASE Accounting(w)
  BY <1>1, <1>11, AccountingSteps, OtherSteps DEF Accounting, files
<1>12. CASE Ipsec(w)
  BY <1>1, <1>12, IpsecSteps, OtherSteps DEF Ipsec, files
<1> QED
  BY <1>2, <1>3, <1>4, <1>5, <1>6, <1>7, <1>8, <1>9, <1>10, <1>11, <1>12 DEF Step

LEMMA BeginInv ==
  ASSUME Inv, NEW w \in Callers, Begin(w)
  PROVE  Inv'
<1> USE DEF Inv
<1> DEFINE J == [Idle EXCEPT !.at = "begin", !.how = Head(owed[w])]
<1>1. Head(owed[w]) \in How /\ Tail(owed[w]) \in Seq(How)
  BY DEF Begin, TypeInv, World
<1>2. J \in Job /\ J.at = "begin"
  BY <1>1, IdleIsJob DEF Job, Idle, Steps
<1> HIDE DEF J
<1>3. job' = [job EXCEPT ![w] = J] /\ owed' = [owed EXCEPT ![w] = Tail(@)]
  BY DEF Begin, J
<1>4. Jobs'
  BY <1>2, <1>3 DEF TypeInv, Jobs, At
<1>5. World'
  BY <1>1, <1>3 DEF Begin, TypeInv, World
<1>6. Elsewhere(w)
  BY <1>2, <1>3, <1>4 DEF Begin, Elsewhere, Editing, TypeInv, Jobs, Ended
<1>7. Edits'
  BY <1>6, NoEdit DEF Begin, files
<1> QED
  BY <1>4, <1>5, <1>7 DEF Begin, TypeInv, Daemons, Disk, Ended, kernel, files

LEMMA CountTypes ==
  ASSUME Inv, NEW b \in {"saves", "links", "faults"}, Count(b),
         bounds[b] < CASE b = "saves" -> MaxSaves [] b = "links" -> MaxLinks [] OTHER -> MaxFaults
  PROVE  bounds' \in [saves: 0..MaxSaves, links: 0..MaxLinks, faults: 0..MaxFaults]
<1>1. bounds \in [saves: 0..MaxSaves, links: 0..MaxLinks, faults: 0..MaxFaults]
  BY DEF Inv, TypeInv, World
<1>2. CASE b = "saves"
  BY <1>1, <1>2, ServiceAssumption DEF Count
<1>3. CASE b = "links"
  BY <1>1, <1>3, ServiceAssumption DEF Count
<1>4. CASE b = "faults"
  BY <1>1, <1>4, ServiceAssumption DEF Count
<1> QED
  BY <1>2, <1>3, <1>4

LEMMA OweTypes ==
  ASSUME Inv, NEW w \in Callers, NEW h \in How, Owe(w, h)
  PROVE  owed' \in [Callers -> Seq(How)]
<1>1. owed \in [Callers -> Seq(How)]
  BY DEF Inv, TypeInv, World
<1>2. Append(owed[w], h) \in Seq(How)
  BY <1>1
<1> QED
  BY <1>1, <1>2 DEF Owe

LEMMA SaveInv ==
  ASSUME Inv, NEW w \in Callers, NEW s \in Settings, Save(w, s)
  PROVE  Inv'
<1>1. Called(s) \in Seq(How)
  <2>1. \/ Called(s) = <<"start">> \/ Called(s) = <<"stop">>
        \/ Called(s) = <<>> \/ Called(s) = <<"restart">>
    BY DEF Called
  <2>2. /\ <<"start">> \in Seq(How) /\ <<"stop">> \in Seq(How)
        /\ <<>> \in Seq(How) /\ <<"restart">> \in Seq(How)
    BY DEF How
  <2> QED
    BY <2>1, <2>2
<1>2. owed \in [Callers -> Seq(How)]
  BY DEF Inv, TypeInv, World
<1>3. owed[w] \o Called(s) \in Seq(How)
  BY <1>1, <1>2
<1>4. owed' \in [Callers -> Seq(How)]
  BY <1>2, <1>3 DEF Save
<1>5. bounds' \in [saves: 0..MaxSaves, links: 0..MaxLinks, faults: 0..MaxFaults]
  BY CountTypes DEF Save
<1>6. World'
  BY <1>4, <1>5 DEF Save, Inv, TypeInv, World
<1>7. Edits'
  BY EditsStay DEF Save, Inv
<1> QED
  BY <1>6, <1>7 DEF Save, Inv, TypeInv, Jobs, At, Daemons, Disk, Ended, kernel

LEMMA StopInv ==
  ASSUME Inv, NEW w \in Callers, Stop(w)
  PROVE  Inv'
<1>1. owed' \in [Callers -> Seq(How)]
  BY OweTypes DEF Stop, How
<1>2. bounds' \in [saves: 0..MaxSaves, links: 0..MaxLinks, faults: 0..MaxFaults]
  BY CountTypes DEF Stop
<1>3. World'
  BY <1>1, <1>2 DEF Stop, Inv, TypeInv, World
<1>4. Edits'
  BY EditsStay DEF Stop, Inv, files
<1> QED
  BY <1>3, <1>4 DEF Stop, Inv, TypeInv, Jobs, At, Daemons, Disk, Ended, kernel, files

LEMMA RedUpInv ==
  ASSUME Inv, RedUp
  PROVE  Inv'
<1>1. owed' \in [Callers -> Seq(How)]
  BY OweTypes DEF RedUp, Inv, TypeInv, World, Callers, How
<1>2. bounds' \in [saves: 0..MaxSaves, links: 0..MaxLinks, faults: 0..MaxFaults]
  BY CountTypes DEF RedUp
<1>3. bounds.links + 1 \in 0 .. MaxLinks
  BY ServiceAssumption DEF RedUp, Inv, TypeInv, World
<1>4. red' \in Link
  BY <1>3 DEF RedUp, Inv, TypeInv, World, Link
<1>5. World'
  BY <1>1, <1>2, <1>4 DEF RedUp, Inv, TypeInv, World
<1>6. Edits'
  BY EditsStay DEF RedUp, Inv, files
<1> QED
  BY <1>5, <1>6 DEF RedUp, Inv, TypeInv, Jobs, At, Daemons, Disk, Ended, kernel, files

LEMMA RedDownInv ==
  ASSUME Inv, RedDown
  PROVE  Inv'
<1>1. owed' \in [Callers -> Seq(How)]
  BY OweTypes DEF RedDown, Inv, TypeInv, World, Callers, How
<1>2. red' \in Link
  BY DEF RedDown, Inv, TypeInv, World, Link
<1>3. World'
  BY <1>1, <1>2 DEF RedDown, Inv, TypeInv, World
<1>4. Edits'
  BY EditsStay DEF RedDown, Inv, files
<1> QED
  BY <1>3, <1>4 DEF RedDown, Inv, TypeInv, Jobs, At, Daemons, Disk, Ended, files

LEMMA CrashInv ==
  ASSUME Inv, Crash
  PROVE  Inv'
<1>1. bounds' \in [saves: 0..MaxSaves, links: 0..MaxLinks, faults: 0..MaxFaults]
  BY CountTypes DEF Crash
<1>2. World'
  BY <1>1 DEF Crash, Inv, TypeInv, World
<1>3. Edits'
  BY EditsStay DEF Crash, Inv, files
<1> QED
  BY <1>2, <1>3 DEF Crash, Inv, TypeInv, Jobs, At, Daemons, Disk, Ended, AtMostOne, files

LEMMA BootTypes == Boot \in [Callers -> Seq(How)]
<1>1. <<>> \in Seq(How) /\ <<"start">> \in Seq(How)
  BY DEF How
<1> QED
  BY <1>1 DEF Boot

LEMMA RebootInv ==
  ASSUME Inv, Reboot
  PROVE  Inv'
<1>1. bounds' \in [saves: 0..MaxSaves, links: 0..MaxLinks, faults: 0..MaxFaults]
  BY CountTypes DEF Reboot
<1>2. red' \in Link
  BY ServiceAssumption DEF Reboot, Inv, TypeInv, World, Link, NoLink
<1>3. World'
  BY <1>1, <1>2, BootTypes DEF Reboot, Inv, TypeInv, World
<1>4. Jobs' /\ \A w \in Callers : ~At(w, "rename")' /\ ~Editing(w)'
  BY IdleIsJob DEF Reboot, Jobs, At, Editing, Idle
<1>5. Edits'
  BY <1>4 DEF Edits
<1>6. proc' \in {{}, {saved}, {conf} \ {Torn}}
  BY DEF Reboot, Accepted, Launched
<1>9. failed' \in BOOLEAN
  BY DEF Reboot, Launched, Inv, TypeInv, Daemons
<1>7. Daemons'
  BY <1>6, <1>9 DEF Reboot, Inv, TypeInv, World, Disk, Daemons, AtMostOne
<1>8. Ended'
  BY DEF Reboot, Ended, How
<1> QED
  BY <1>3, <1>4, <1>5, <1>7, <1>8 DEF Reboot, Inv, TypeInv, Disk

LEMMA InitInv == Init => Inv
<1> SUFFICES ASSUME Init PROVE Inv
  OBVIOUS
<1>1. World
  BY BootTypes, ServiceAssumption DEF Init, World, Off, Settings, NoLink, Link
<1>2. Jobs /\ \A w \in Callers : ~At(w, "rename") /\ ~Editing(w)
  BY IdleIsJob DEF Init, Jobs, At, Editing, Idle
<1>3. Daemons /\ Disk /\ Ended
  BY DEF Init, Daemons, Disk, Ended, Off, Settings, How, AtMostOne
<1> QED
  BY <1>1, <1>2, <1>3 DEF Inv, TypeInv, Edits

LEMMA NextInv == Inv /\ [Next]_vars => Inv'
<1> SUFFICES ASSUME Inv, [Next]_vars PROVE Inv'
  OBVIOUS
<1>1. CASE UNCHANGED vars
  BY <1>1 DEF vars, world, kernel, files, Inv, TypeInv, World, Jobs, At, Daemons, Disk,
              Ended, Edits, Editing, AtMostOne
<1>2. CASE Next
  BY <1>2, BeginInv, StepInv, StopInv, SaveInv, RedUpInv, RedDownInv, CrashInv, RebootInv
     DEF Next
<1> QED
  BY <1>1, <1>2

LEMMA Invariance == Spec => []Inv
BY InitInv, NextInv, PTL DEF Spec

\* The types, for any number of saves, links and faults.
THEOREM TypeCorrect == Spec => []TypeOK
<1>1. Inv => TypeOK
  BY TypesFollow DEF Inv
<1> QED
  BY <1>1, Invariance, PTL

\* However many restarters overlap, and wherever they die, sshd_config and
\* rsyslog.conf are never a part of a file (restartssh.c:97-137,
\* restartsyslogd.c:165-245).
THEOREM ConfigurationWhole == Spec => []ConfWhole
<1>1. Inv => ConfWhole
  BY ServiceAssumption DEF Inv, TypeInv, Disk, ConfWhole
<1> QED
  BY <1>1, Invariance, PTL

-----------------------------------------------------------------------------
(* The redirect of ntpd and squid, called one at a time.                   *)

Redirecting == svc \in {"ntpd", "squid"}
Redirected == Rule("redirect", 0) \in rules

\* Between the flush and the rules of a restart the chain is empty.
EmptyAt ==
  IF svc = "ntpd" THEN {"kill", "up"}
  ELSE IF svc = "squid" THEN {"down", "read", "net", "up"} ELSE {}

OneCall == \A v, w \in Callers : At(v, "idle") \/ At(w, "idle") \/ v = w
Emptied == \A w \in Callers : job[w].at \in EmptyAt => failed \/ ~Redirected
Manned == \A w \in Callers : At(w, "rules") => failed \/ (pid /\ (proc # {} \/ crashed))

RedirectInv ==
  /\ ~Redirecting => ~Redirected
  /\ Redirecting => OneCall /\ Emptied /\ Manned /\ (~pid => failed \/ ~Redirected)
  /\ RedirectServed

\* A restarter of another service has no redirect.
LEMMA OtherRules ==
  ASSUME Inv, NEW w \in Callers, Step(w), ~Redirecting, ~Redirected
  PROVE  ~Redirected'
<1>1. \A d, n : d # "redirect" => Rule(d, n) # Rule("redirect", 0)
  BY DEF Rule
<1>2. Rule("redirect", 0) \notin rules
  BY DEF Redirected
<1> HIDE DEF Rule
<1>3. CASE svc = "aliases"
  BY <1>1, <1>2, <1>3 DEF Step, Ntpd, Squid, Openvpn, Wireguard, Suricata, Sshd, Rsyslogd,
     Aliases, Flush, Shaping, Accounting, Ipsec, Redirected
<1>4. CASE svc = "shaping"
  BY <1>1, <1>2, <1>4 DEF Step, Ntpd, Squid, Openvpn, Wireguard, Suricata, Sshd, Rsyslogd,
     Aliases, Shaping, Accounting, Ipsec, Redirected
<1>5. CASE svc = "accounting"
  BY <1>1, <1>2, <1>5 DEF Step, Ntpd, Squid, Openvpn, Wireguard, Suricata, Sshd, Rsyslogd,
     Aliases, Shaping, Accounting, Ipsec, Redirected
<1>6. CASE svc \notin {"aliases", "shaping", "accounting"}
  BY <1>2, <1>6 DEF Step, Ntpd, Squid, Openvpn, Wireguard, Suricata, Sshd, Rsyslogd,
     Aliases, Shaping, Accounting, Ipsec, Redirecting, Redirected
<1> QED
  BY <1>3, <1>4, <1>5, <1>6

\* What a restarter of ntpd or squid owes after a step: the others are idle.
LEMMA OthersIdle ==
  ASSUME Inv, OneCall, NEW w \in Callers, ~At(w, "idle"), Elsewhere(w),
         job'[w].at \in EmptyAt' => failed' \/ ~Redirected',
         job'[w].at = "rules" => failed' \/ (pid' /\ (proc' # {} \/ crashed'))
  PROVE  OneCall' /\ Emptied' /\ Manned'
<1>1. \A v \in Callers : v # w => job'[v] = job[v] /\ job[v] = Idle
  BY DEF Elsewhere, OneCall, Inv, TypeInv, Jobs
<1>2. Idle.at = "idle" /\ "idle" \notin EmptyAt'
  BY DEF Idle, EmptyAt
<1> QED
  BY <1>1, <1>2 DEF OneCall, Emptied, Manned, At

LEMMA Where ==
  ASSUME Inv, NEW w \in Callers
  PROVE  /\ \A s \in Steps : Go(w, s) \/ Read(w, s) \/ See(w, s) => job'[w].at = s
         /\ \A rc \in {0, 1} : Exit(w, rc) => job'[w].at = "idle"
<1>1. \A rc \in {0, 1} : Exit(w, rc) => job'[w].at = "idle"
  BY Exits DEF Inv, Idle
<1> QED
  BY <1>1, Moves DEF Inv, Moved

\* A start: the daemon runs, or the failure is on record.
LEMMA Starts ==
  ASSUME Inv, NEW C, Launched(C)
  PROVE  \/ proc' = C /\ (svc \in Chained => failed' = failed)
         \/ proc' = {} /\ failed'
<1>1. failed \in BOOLEAN
  BY DEF Inv, TypeInv, Daemons
<1>2. svc \in Chained => (failed /\ svc \in Chained) = failed
  BY <1>1
<1> QED
  BY <1>2 DEF Launched

\* What a step of w has to show.
Owes(w) ==
  /\ job'[w].at \in EmptyAt' => failed' \/ ~Redirected'
  /\ job'[w].at = "rules" => failed' \/ (pid' /\ (proc' # {} \/ crashed'))
  /\ ~pid' => failed' \/ ~Redirected'
  /\ RedirectServed'

LEMMA NtpdRedirect ==
  ASSUME Inv, RedirectInv, NEW w \in Callers, UNCHANGED world, Ntpd(w)
  PROVE  RedirectInv'
<1>1. Elsewhere(w)
  BY NtpdSteps DEF Inv
<1>2. /\ svc = "ntpd" /\ Redirecting /\ svc' = svc /\ Redirecting'
      /\ EmptyAt = {"kill", "up"} /\ EmptyAt' = EmptyAt
  BY DEF Ntpd, Redirecting, EmptyAt, world
<1>3. job \in [Callers -> Job]
  BY DEF Inv, TypeInv, Jobs
<1>4. ~At(w, "idle")
  BY DEF Ntpd, At
<1>5. ASSUME At(w, "begin")
      PROVE  Owes(w)
  <2>1. UNCHANGED kernel /\ (job'[w].at = "flush" \/ job'[w].at = "idle")
    BY <1>5, Where DEF Ntpd, At, Steps
  <2> QED
    BY <1>2, <2>1 DEF Owes, RedirectInv, Redirected, RedirectServed, kernel
<1>6. ASSUME At(w, "flush")
      PROVE  Owes(w)
  <2>1. \/ pid /\ rules' = {} /\ job'[w].at = "kill" /\ UNCHANGED <<pid, proc, crashed>>
        \/ ~pid /\ UNCHANGED kernel /\ job'[w].at = "up"
    BY <1>6, Where DEF Ntpd, At, Steps
  <2> QED
    BY <1>2, <2>1 DEF Owes, RedirectInv, Redirected, RedirectServed, kernel
<1>7. ASSUME At(w, "kill")
      PROVE  Owes(w)
  <2>1. /\ rules' = rules /\ crashed' = crashed /\ failed' = failed
        /\ job'[w].at \in {"idle", "up"} /\ (failed \/ ~Redirected)
    BY <1>2, <1>7, Where DEF Ntpd, At, Steps, kernel, RedirectInv, Emptied
  <2> QED
    BY <1>2, <2>1 DEF Owes, RedirectInv, Redirected, RedirectServed
<1>8. ASSUME At(w, "up")
      PROVE  Owes(w)
  <2>1. rules' = rules /\ (failed \/ ~Redirected)
    BY <1>2, <1>8 DEF Ntpd, At, kernel, RedirectInv, Emptied
  <2>2. \/ /\ job'[w].at = "rules"
           /\ failed' \/ (proc' # {} /\ pid' /\ failed' = failed)
        \/ UNCHANGED kernel /\ job'[w].at = "idle"
    BY <1>2, <1>8, Where, Starts DEF Ntpd, At, Steps, Started, Chained
  <2> QED
    BY <1>2, <2>1, <2>2 DEF Owes, RedirectInv, Redirected, RedirectServed, kernel
<1>9. ASSUME At(w, "rules")
      PROVE  Owes(w)
  <2>1. /\ job'[w].at = "idle" /\ UNCHANGED <<proc, pid, crashed, failed>>
        /\ failed \/ (pid /\ (proc # {} \/ crashed))
    BY <1>2, <1>9, Where DEF Ntpd, At, RedirectInv, Manned
  <2> QED
    BY <1>2, <2>1 DEF Owes, RedirectInv, Redirected, RedirectServed
<1>10. Owes(w)
  BY <1>5, <1>6, <1>7, <1>8, <1>9 DEF Ntpd
<1>11. OneCall' /\ Emptied' /\ Manned'
  BY <1>1, <1>2, <1>4, <1>10, OthersIdle DEF RedirectInv, Owes
<1> QED
  BY <1>2, <1>10, <1>11 DEF RedirectInv, Owes

LEMMA SquidRedirect ==
  ASSUME Inv, RedirectInv, NEW w \in Callers, UNCHANGED world, Squid(w)
  PROVE  RedirectInv'
<1>1. Elsewhere(w)
  BY SquidSteps DEF Inv
<1>2. /\ svc = "squid" /\ Redirecting /\ svc' = svc /\ Redirecting'
      /\ EmptyAt = {"down", "read", "net", "up"} /\ EmptyAt' = EmptyAt
  BY DEF Squid, Redirecting, EmptyAt, world
<1>3. ~At(w, "idle")
  BY DEF Squid, SquidStop, SquidRead, At
<1>4. ASSUME At(w, "begin")
      PROVE  Owes(w)
  <2>1. /\ UNCHANGED kernel
        /\ \/ pid /\ job'[w].at = "flush"
           \/ ~pid /\ job'[w].at \in {"idle", "read"}
    BY <1>4, Where DEF Squid, SquidStop, SquidRead, At, Steps
  <2> QED
    BY <1>2, <2>1 DEF Owes, RedirectInv, Redirected, RedirectServed, kernel
<1>5. ASSUME At(w, "flush")
      PROVE  Owes(w)
  <2>1. rules' = {} /\ job'[w].at = "down"
    BY <1>5, Where DEF Squid, SquidStop, SquidRead, At, Steps
  <2> QED
    BY <1>2, <2>1 DEF Owes, RedirectInv, Redirected, RedirectServed
<1>6. ASSUME At(w, "down") \/ At(w, "read") \/ At(w, "net")
      PROVE  Owes(w)
  <2>1. /\ rules' = rules /\ failed' = failed /\ (failed \/ ~Redirected)
        /\ job'[w].at \in {"idle", "read", "net", "up"}
    BY <1>2, <1>6, Where DEF Squid, SquidStop, SquidRead, At, Steps, kernel, RedirectInv, Emptied
  <2> QED
    BY <1>2, <2>1 DEF Owes, RedirectInv, Redirected, RedirectServed
<1>7. ASSUME At(w, "up")
      PROVE  Owes(w)
  <2>1. /\ rules' = rules /\ job'[w].at = "rules" /\ (failed \/ ~Redirected)
        /\ failed' \/ (proc' # {} /\ pid' /\ failed' = failed)
    BY <1>2, <1>7, Where, Starts DEF Squid, SquidStop, SquidRead, At, Steps, Started, Chained,
       RedirectInv, Emptied
  <2> QED
    BY <1>2, <2>1 DEF Owes, RedirectInv, Redirected, RedirectServed
<1>8. ASSUME At(w, "rules")
      PROVE  Owes(w)
  <2>1. /\ job'[w].at = "idle" /\ UNCHANGED <<proc, pid, crashed, failed>>
        /\ failed \/ (pid /\ (proc # {} \/ crashed))
    BY <1>2, <1>8, Where DEF Squid, SquidStop, SquidRead, At, RedirectInv, Manned
  <2> QED
    BY <1>2, <2>1 DEF Owes, RedirectInv, Redirected, RedirectServed
<1>9. Owes(w)
  BY <1>4, <1>5, <1>6, <1>7, <1>8 DEF Squid, SquidStop, SquidRead
<1>10. OneCall' /\ Emptied' /\ Manned'
  BY <1>1, <1>2, <1>3, <1>9, OthersIdle DEF RedirectInv, Owes
<1> QED
  BY <1>2, <1>9, <1>10 DEF RedirectInv, Owes

\* What leaves the chain, the daemon and the calls alone.
LEMMA RedirectStays ==
  ASSUME RedirectInv, UNCHANGED <<svc, kernel, job>>
  PROVE  RedirectInv'
BY DEF RedirectInv, Redirecting, Redirected, RedirectServed, OneCall, Emptied, Manned, EmptyAt,
       At, kernel

LEMMA BeginRedirect ==
  ASSUME Inv, RedirectInv, Redirecting => svc \in Alone, NEW w \in Callers, Begin(w)
  PROVE  RedirectInv'
<1>1. job' = [job EXCEPT ![w] = job'[w]] /\ job'[w].at = "begin" /\ UNCHANGED <<svc, kernel>>
  BY DEF Begin, Inv, TypeInv, Jobs, Idle
<1>2. CASE ~Redirecting
  BY <1>1, <1>2 DEF RedirectInv, Redirecting, Redirected, RedirectServed, kernel
<1>3. CASE Redirecting
  <2>1. /\ \A v \in Callers : At(v, "idle")
        /\ \A v \in Callers : v # w => job'[v] = job[v]
    BY <1>1, <1>3 DEF Begin, Inv, TypeInv, Jobs
  <2>2. OneCall' /\ Emptied' /\ Manned'
    BY <1>1, <2>1 DEF OneCall, Emptied, Manned, EmptyAt, At
  <2> QED
    BY <1>1, <1>3, <2>2 DEF RedirectInv, Redirecting, Redirected, RedirectServed, kernel
<1> QED
  BY <1>2, <1>3

LEMMA CrashRedirect ==
  ASSUME RedirectInv, Crash
  PROVE  RedirectInv'
BY DEF Crash, RedirectInv, Redirecting, Redirected, RedirectServed, OneCall, Emptied, Manned,
       EmptyAt, At, files

LEMMA RedDownRedirect ==
  ASSUME RedirectInv, RedDown
  PROVE  RedirectInv'
BY DEF RedDown, RedirectInv, Redirecting, Redirected, RedirectServed, OneCall, Emptied, Manned,
       EmptyAt, At, files

LEMMA RebootRedirect ==
  ASSUME RedirectInv, Reboot
  PROVE  RedirectInv'
BY DEF Reboot, RedirectInv, Redirecting, Redirected, RedirectServed, OneCall, Emptied, Manned,
       EmptyAt, At, Idle

LEMMA RedirectInvariant ==
  ASSUME {"ntpd", "squid"} \cap Service \subseteq Alone
  PROVE  Spec => []RedirectInv
<1>1. Init => RedirectInv
  BY DEF Init, RedirectInv, Redirecting, Redirected, RedirectServed, OneCall, Emptied, Manned,
         EmptyAt, At, Idle
<1>2. ASSUME Inv, RedirectInv, [Next]_vars
      PROVE  RedirectInv'
  <2>1. Redirecting => svc \in Alone
    BY <1>2 DEF Redirecting, Inv, TypeInv, World
  <2>2. CASE UNCHANGED vars
    BY <1>2, <2>2, RedirectStays DEF vars, world, kernel
  <2>3. ASSUME NEW w \in Callers, Step(w)
        PROVE  RedirectInv'
    <3>1. CASE Redirecting
      BY <1>2, <2>3, <3>1, NtpdRedirect, SquidRedirect DEF Step, Redirecting, Openvpn, Wireguard,
         Suricata, Sshd, Rsyslogd, Aliases, Shaping, Accounting, Ipsec
    <3>2. CASE ~Redirecting
      <4>1. svc' = svc /\ ~Redirected /\ ~Redirected'
        BY <1>2, <2>3, <3>2, OtherRules DEF Step, world, RedirectInv
      <4> QED
        BY <3>2, <4>1 DEF RedirectInv, Redirecting, Redirected, RedirectServed
    <3> QED
      BY <3>1, <3>2
  <2>4. ASSUME NEW w \in Callers, Begin(w)
        PROVE  RedirectInv'
    BY <1>2, <2>1, <2>4, BeginRedirect
  <2>5. ASSUME NEW w \in Callers, Stop(w) \/ \E s \in Settings : Save(w, s)
        PROVE  RedirectInv'
    BY <1>2, <2>5, RedirectStays DEF Stop, Save
  <2>6. CASE RedUp
    BY <1>2, <2>6, RedirectStays DEF RedUp
  <2> QED
    BY <1>2, <2>2, <2>3, <2>4, <2>5, <2>6, CrashRedirect, RedDownRedirect, RebootRedirect
       DEF Next
<1> QED
  BY <1>1, <1>2, Invariance, PTL DEF Spec

\* Called one at a time, restartntpd and restartsquid do not redirect clients to
\* a daemon that is not there, whenever settings are saved, RED changes or the
\* machine goes down between two of their steps: unless the daemon died, or
\* could not be started and the chain was not emptied since.  These two fill
\* the chain all the same (restartntpd.c:118-209, restartsquid.c:262-410).
THEOREM ClientsServed ==
  ASSUME {"ntpd", "squid"} \cap Service \subseteq Alone
  PROVE  Spec => []RedirectServed
<1>1. RedirectInv => RedirectServed
  BY DEF RedirectInv
<1> QED
  BY <1>1, RedirectInvariant, PTL

-----------------------------------------------------------------------------
(* A service at rest, its restarters called one at a time.                 *)

\* A call is owed.  The calls of rc.updatered when RED comes up may do nothing
\* in restartntpd (only once after boot) and restartsquid (only if squid runs).
Awaited(H) == \E w \in Callers : \E i \in DOMAIN owed[w] : owed[w][i] \in H
Due(H) == Awaited(H) \/ \E w \in Callers : At(w, "begin") /\ job[w].how \in H
Full == IF svc \in {"ntpd", "squid"} THEN {"start", "restart"} ELSE How

\* The settings a restarter has read are those on the disk, or it is called
\* again.
Fresh(w) == Awaited(Full) \/ job[w].read = saved
Seen(w) == Awaited(How) \/ (red.up => job[w].saw.up)

\* What the restarter of each service has done at each of its steps.
NtpdDoes(w) ==
  /\ job[w].at \in {"flush", "kill", "up", "rules"} => Fresh(w)
  /\ At(w, "kill") => pid /\ rules = {}
  /\ At(w, "up") => ~pid
  /\ At(w, "rules") =>
       /\ job[w].read.on
       /\ failed \/ (pid /\ rules = {} /\ (crashed \/ proc # {}))

SquidDoes(w) ==
  /\ At(w, "down") => rules = {}
  /\ job[w].at \in {"read", "net", "up"} => ~pid
  /\ job[w].at \in {"net", "up", "rules"} => Fresh(w) /\ job[w].read.on
  /\ job[w].at \in {"up", "rules"} => Awaited(How) \/ (red.up => job[w].saw.addr = red.addr)
  /\ At(w, "rules") =>
       /\ failed \/ (pid /\ rules = {})
       /\ crashed \/ Awaited(Full) \/ proc = {saved} \/ (failed /\ proc = {})

OpenvpnDoes(w) ==
  /\ job[w].at \in {"read", "up"} => ~pid
  /\ At(w, "up") => Fresh(w)

WireguardDoes(w) == At(w, "act") => Fresh(w)

SuricataDoes(w) ==
  /\ job[w].at \in {"conf", "write", "restart"} => Fresh(w) /\ job[w].read.on
  /\ At(w, "restart") => conf = job[w].read

ConfiguredDoes(w) ==
  /\ job[w].at \in {"create", "sed", "rename", "down", "up"} => Fresh(w)
  /\ At(w, "rename") => new = {job[w].read}
  /\ job[w].at \in {"down", "up"} => conf = job[w].read
  /\ At(w, "up") => proc = {}

AliasesDoes(w) ==
  /\ At(w, "flush") => Awaited(How) \/ job[w].saw = red
  /\ At(w, "add") => Awaited(How) \/ red.up

ShapingDoes(w) ==
  /\ job[w].at \in {"net", "del", "add"} => Fresh(w) \/ ~saved.extra
  /\ At(w, "add") => job[w].read.on

AccountingDoes(w) ==
  /\ job[w].at \in {"flush", "net", "add", "daemons"} => Fresh(w)
  /\ job[w].at \in {"net", "add"} => job[w].read.on
  /\ At(w, "add") => Seen(w)
  /\ At(w, "daemons") =>
       LET counts == job[w].read.on /\ job[w].read.extra
       IN  /\ Rule("GREEN", 0) \in rules <=> counts
           /\ Awaited(How) \/ (red.up => (Rule("RED", 0) \in rules <=> counts))

IpsecDoes(w) ==
  /\ job[w].at \in {"read", "up"} => Seen(w)
  /\ At(w, "up") => Fresh(w) /\ job[w].read.on

Does(w) ==
  /\ svc = "ntpd" => NtpdDoes(w)
  /\ svc = "squid" => SquidDoes(w)
  /\ svc = "openvpn" => OpenvpnDoes(w)
  /\ svc = "wireguard" => WireguardDoes(w)
  /\ svc = "suricata" => SuricataDoes(w)
  /\ svc \in {"sshd", "rsyslogd"} => ConfiguredDoes(w)
  /\ svc = "aliases" => AliasesDoes(w)
  /\ svc = "shaping" => ShapingDoes(w)
  /\ svc = "accounting" => AccountingDoes(w)
  /\ svc = "ipsec" => IpsecDoes(w)

\* Where the pid file decides what a restarter does: without it there is no
\* daemon and there are no rules, and with it only a daemon that died is missing.
Kept ==
  /\ svc \in {"ntpd", "squid", "openvpn"} =>
       (~pid => proc = {}) /\ (pid /\ proc = {} => crashed)
  /\ svc \in {"ntpd", "squid"} => (~pid => failed \/ rules = {})
  /\ svc = "ntpd" => rules \subseteq {Rule("redirect", 0)}
  /\ svc = "squid" => conf = saved /\ (red.up => red.addr > 0)

\* What holds while no call is beyond its beginning: all but the bypass of
\* squid, for which restartsquid is also called when RED comes up.
Bypassed ==
  red.up /\ saved.on /\ saved.extra /\ ~failed =>
    {r \in rules : r.what = "bypass"} = {Rule("bypass", red.addr)}
Settled ==
  /\ svc # "squid" => Matches
  /\ svc = "squid" => Runs(saved.on) /\ Redirects

Resting == \A w \in Callers : job[w].at \in {"idle", "begin"}
Rested ==
  /\ Due(Full) \/ crashed \/ Settled \/ (last.rc = 1 /\ svc \notin {"ntpd", "squid"})
  /\ svc = "squid" => Due(How) \/ crashed \/ Bypassed

RestInv == OneCall /\ Kept /\ (\A w \in Callers : Does(w)) /\ (Resting => Rested)

\* The record of a restarter after each kind of step; the others stay.
Elsewise(w) == \A v \in Callers : v # w => job'[v] = job[v]
Went(w, s) ==
  /\ job'[w].at = s /\ job'[w].how = job[w].how /\ Elsewise(w) /\ last' = last
WentOn(w, s) == Went(w, s) /\ job'[w].read = job[w].read /\ job'[w].saw = job[w].saw
WentRead(w, s) == Went(w, s) /\ job'[w].read = saved /\ job'[w].saw = job[w].saw
WentSee(w, s) == Went(w, s) /\ job'[w].read = job[w].read /\ job'[w].saw = red
Left(w, rc) ==
  /\ job'[w].at = "idle" /\ Elsewise(w)
  /\ last'.how = job[w].how /\ last'.rc = rc

LEMMA Records ==
  ASSUME Inv, NEW w \in Callers
  PROVE  /\ \A s : Go(w, s) => WentOn(w, s)
         /\ \A s : Read(w, s) => WentRead(w, s)
         /\ \A s : See(w, s) => WentSee(w, s)
         /\ \A rc : Exit(w, rc) => Left(w, rc)
<1> USE DEF Went, WentOn, WentRead, WentSee, Left, Elsewise
<1>1. job \in [Callers -> Job] /\ job[w] \in Job
  BY DEF Inv, TypeInv, Jobs
<1>2. ASSUME NEW s, Go(w, s) PROVE WentOn(w, s)
  BY <1>1, <1>2 DEF Go, Job
<1>3. ASSUME NEW s, Read(w, s) PROVE WentRead(w, s)
  BY <1>1, <1>3 DEF Read, Job
<1>4. ASSUME NEW s, See(w, s) PROVE WentSee(w, s)
  BY <1>1, <1>4 DEF See, Job
<1>5. ASSUME NEW rc, Exit(w, rc) PROVE Left(w, rc)
  BY <1>1, <1>5 DEF Exit, Idle
<1> QED
  BY <1>2, <1>3, <1>4, <1>5

\* What a step of a restarter has to show: the others are idle.
Shown(w) ==
  /\ Elsewise(w) /\ job'[w].at # "begin" /\ Kept' /\ Does(w)'
  /\ job'[w].at = "idle" => Rested'

LEMMA IdleDoes ==
  ASSUME NEW w \in Callers, job[w].at \in {"idle", "begin"}
  PROVE  Does(w)
BY DEF Does, NtpdDoes, SquidDoes, OpenvpnDoes, WireguardDoes, SuricataDoes, ConfiguredDoes,
       AliasesDoes, ShapingDoes, AccountingDoes, IpsecDoes, At

LEMMA ShownKeeps ==
  ASSUME Inv, OneCall, NEW w \in Callers, ~At(w, "idle"), Shown(w)
  PROVE  RestInv'
<1>1. \A v \in Callers : v # w => job[v].at = "idle" /\ job'[v].at = "idle"
  BY DEF Shown, Elsewise, OneCall, At
<1>2. OneCall'
  BY <1>1 DEF OneCall, At
<1>3. \A v \in Callers : v # w => Does(v)'
  BY <1>1, IdleDoes DEF Does, NtpdDoes, SquidDoes, OpenvpnDoes, WireguardDoes, SuricataDoes,
     ConfiguredDoes, AliasesDoes, ShapingDoes, AccountingDoes, IpsecDoes, At
<1>4. Resting' => job'[w].at = "idle"
  BY DEF Resting, Shown
<1> QED
  BY <1>2, <1>3, <1>4 DEF Shown, RestInv

LEMMA SameCalls ==
  ASSUME UNCHANGED world
  PROVE  /\ svc' = svc /\ saved' = saved /\ red' = red /\ Full' = Full
         /\ \A H : Awaited(H)' <=> Awaited(H)
BY DEF world, Awaited, Full

\* What a restarter may count on.
Counts(w) ==
  /\ Kept /\ Does(w) /\ job[w] \in Job /\ saved \in Settings /\ red \in Link
  /\ At(w, "begin") => Rested

LEMMA RestCounts ==
  ASSUME Inv, RestInv, NEW w \in Callers
  PROVE  Counts(w)
<1>1. At(w, "begin") => Resting
  BY DEF RestInv, OneCall, At, Resting
<1> QED
  BY <1>1 DEF RestInv, Counts, Inv, TypeInv, World, Jobs

LEMMA WireguardRest ==
  ASSUME Inv, NEW w \in Callers, Counts(w), UNCHANGED world, Wireguard(w)
  PROVE  Shown(w)
<1> USE SameCalls, Records
<1>1. svc = "wireguard" /\ svc' = svc
  BY DEF Wireguard
<1>2. Kept'
  BY <1>1 DEF Kept
<1>3. CASE At(w, "begin")
  <2>1. WentRead(w, "act")
    BY <1>3 DEF Wireguard, At
  <2>2. Does(w)'
    BY <1>1, <2>1 DEF Does, WireguardDoes, Fresh, WentRead, Went, At
  <2> QED
    BY <1>2, <2>1, <2>2 DEF Shown, WentRead, Went
<1>4. CASE At(w, "act")
  <2>1. Left(w, 0) /\ Fresh(w)
    BY <1>1, <1>4 DEF Wireguard, At, Counts, Does, WireguardDoes
  <2>2. Does(w)'
    BY <1>1, <2>1 DEF Does, WireguardDoes, Left, At
  <2>5. pid' = job[w].read.on
    BY <1>4 DEF Wireguard, At, Stopped, Counts, Job, Settings
  <2>6. IF job[w].read.on /\ job[w].how # "stop"
          THEN proc' = {job[w].read} \/ (failed' /\ proc' = {}) ELSE proc' = {}
    BY <1>4, Starts DEF Wireguard, At, Stopped
  <2>3. job[w].read = saved => Settled'
    BY <1>1, <2>1, <2>5, <2>6 DEF Settled, Matches, Runs, Left
  <2>4. Rested'
    BY <1>1, <2>1, <2>3 DEF Rested, Fresh, Due, Full
  <2> QED
    BY <1>2, <2>1, <2>2, <2>4 DEF Shown, Left
<1> QED
  BY <1>3, <1>4 DEF Wireguard

LEMMA OpenvpnRest ==
  ASSUME Inv, NEW w \in Callers, Counts(w), UNCHANGED world, Openvpn(w)
  PROVE  Shown(w)
<1> USE SameCalls, Records
<1>1. svc = "openvpn" /\ svc' = svc /\ UNCHANGED <<files, rules>>
  BY DEF Openvpn
<1>2. /\ ~pid => proc = {}
      /\ pid /\ proc = {} => crashed
  BY <1>1 DEF Counts, Kept
<1>3. CASE At(w, "begin") /\ pid /\ proc = {}
  <2>1. Left(w, 0) /\ UNCHANGED <<proc, pid, crashed>> /\ crashed
    BY <1>2, <1>3 DEF Openvpn, At
  <2>2. Kept' /\ Does(w)' /\ Rested'
    BY <1>1, <1>2, <2>1 DEF Kept, Does, OpenvpnDoes, Left, At, Rested
  <2> QED
    BY <2>1, <2>2 DEF Shown, Left
<1>4. CASE At(w, "begin") /\ ~(pid /\ proc = {})
  <2>1. WentOn(w, "read") /\ proc' = {} /\ ~pid'
    BY <1>2, <1>4 DEF Openvpn, At, Stopped
  <2>2. Kept' /\ Does(w)'
    BY <1>1, <2>1 DEF Kept, Does, OpenvpnDoes, WentOn, Went, At
  <2> QED
    BY <2>1, <2>2 DEF Shown, WentOn, Went
<1>5. CASE At(w, "read")
  <2>1. WentRead(w, "up") /\ UNCHANGED <<proc, pid, crashed>> /\ ~pid
    BY <1>1, <1>5 DEF Openvpn, At, Counts, Does, OpenvpnDoes
  <2>2. Kept' /\ Does(w)'
    BY <1>1, <1>2, <2>1 DEF Kept, Does, OpenvpnDoes, WentRead, Went, At, Fresh
  <2> QED
    BY <2>1, <2>2 DEF Shown, WentRead, Went
<1>6. CASE At(w, "up")
  <2>1. Left(w, 0) /\ ~pid /\ Fresh(w)
    BY <1>1, <1>6 DEF Openvpn, At, Counts, Does, OpenvpnDoes
  <2>2. \/ job[w].read.on /\ job[w].how # "stop" /\ Started(job[w].read)
        \/ (~job[w].read.on \/ job[w].how = "stop") /\ UNCHANGED <<proc, pid, crashed>>
    BY <1>6 DEF Openvpn, At
  <2>6. \/ /\ job[w].read.on /\ job[w].how # "stop" /\ (pid' <=> proc' # {})
           /\ proc' = {job[w].read} \/ (failed' /\ proc' = {})
        \/ /\ ~job[w].read.on \/ job[w].how = "stop"
           /\ UNCHANGED <<proc, pid, crashed>>
    BY <2>1, <2>2, Starts DEF Started
  <2>3. Kept' /\ Does(w)'
    BY <1>1, <1>2, <2>1, <2>6 DEF Kept, Does, OpenvpnDoes, Left, At
  <2>4. job[w].read = saved => Settled'
    BY <1>1, <1>2, <2>1, <2>6 DEF Settled, Matches, Runs, Left
  <2>5. Rested'
    BY <1>1, <2>1, <2>4 DEF Rested, Fresh, Due, Full
  <2> QED
    BY <2>1, <2>3, <2>5 DEF Shown, Left
<1> QED
  BY <1>3, <1>4, <1>5, <1>6 DEF Openvpn

LEMMA SuricataRest ==
  ASSUME Inv, NEW w \in Callers, Counts(w), UNCHANGED world, Suricata(w)
  PROVE  Shown(w)
<1> USE SameCalls, Records
<1>1. svc = "suricata" /\ svc' = svc
  BY DEF Suricata
<1>2. Kept'
  BY <1>1 DEF Kept
<1>3. CASE At(w, "begin") /\ saved.on
  <2>1. WentRead(w, "conf")
    BY <1>3 DEF Suricata, SuricataConf, At
  <2>2. Does(w)'
    BY <1>1, <1>3, <2>1 DEF Does, SuricataDoes, Fresh, WentRead, Went, At
  <2> QED
    BY <1>2, <2>1, <2>2 DEF Shown, WentRead, Went
<1>4. CASE At(w, "begin") /\ ~saved.on
  <2>1. Left(w, 0) /\ proc' = {} /\ ~pid'
    BY <1>4 DEF Suricata, SuricataConf, At, Stopped
  <2>2. Does(w)'
    BY <1>1, <2>1 DEF Does, SuricataDoes, Left, At
  <2>3. Rested'
    BY <1>1, <1>4, <2>1 DEF Rested, Settled, Matches, Runs, Stopped, Suricata, SuricataConf, At,
       Counts, Settings, Inv, TypeInv, Daemons
  <2> QED
    BY <1>2, <2>1, <2>2, <2>3 DEF Shown, Left
<1>5. CASE At(w, "conf") \/ At(w, "write")
  <2>1. \/ At(w, "conf") /\ WentOn(w, "write")
        \/ At(w, "write") /\ WentOn(w, "restart") /\ conf' = job[w].read
    BY <1>5 DEF Suricata, SuricataConf, At
  <2>2. Does(w)'
    BY <1>1, <2>1 DEF Counts, Does, SuricataDoes, Fresh, WentOn, Went, At
  <2> QED
    BY <1>2, <2>1, <2>2 DEF Shown, WentOn, Went
<1>6. CASE At(w, "restart")
  <2>1. Left(w, 0) /\ Fresh(w) /\ job[w].read.on /\ conf = job[w].read
    BY <1>1, <1>6 DEF Suricata, SuricataConf, At, Counts, Does, SuricataDoes
  <2>2. pid' = TRUE /\ (proc' = {job[w].read} \/ (failed' /\ proc' = {}))
    <3>1. job[w].read # Torn
      BY ServiceAssumption DEF Counts, Job
    <3>2. pid' = TRUE /\ Launched({job[w].read})
      BY <1>6, <2>1, <3>1 DEF Suricata, SuricataConf, At, Accepted
    <3> QED
      BY <3>2, Starts
  <2>3. Does(w)'
    BY <1>1, <2>1 DEF Does, SuricataDoes, Left, At
  <2>4. job[w].read = saved => Settled'
    BY <1>1, <2>1, <2>2 DEF Settled, Matches, Runs, Counts, Settings
  <2>5. Rested'
    BY <1>1, <2>1, <2>4 DEF Rested, Fresh, Due, Full
  <2> QED
    BY <1>2, <2>1, <2>3, <2>5 DEF Shown, Left
<1> QED
  BY <1>3, <1>4, <1>5, <1>6 DEF Suricata, SuricataConf

\* restartssh and restartsyslogd up to the rename.
LEMMA ConfiguredRest ==
  ASSUME Inv, NEW w \in Callers, Counts(w), UNCHANGED world, svc \in {"sshd", "rsyslogd"},
         Configured(w)
  PROVE  Shown(w)
<1> USE SameCalls, Records
<1>1. Kept'
  BY DEF Kept
<1>2. CASE At(w, "begin")
  <2>1. WentRead(w, "create")
    BY <1>2 DEF Configured, At
  <2>2. Does(w)'
    BY <2>1 DEF Does, ConfiguredDoes, Fresh, WentRead, Went, At
  <2> QED
    BY <1>1, <2>1, <2>2 DEF Shown, WentRead, Went
<1>3. CASE At(w, "create") /\ new # {}
  <2>1. Left(w, 1)
    BY <1>3 DEF Configured, Create, At
  <2>2. Does(w)' /\ Rested'
    BY <2>1 DEF Does, ConfiguredDoes, Left, At, Rested
  <2> QED
    BY <1>1, <2>1, <2>2 DEF Shown, Left
<1>4. CASE (At(w, "create") /\ new = {}) \/ At(w, "sed")
  <2>1. \/ At(w, "create") /\ WentOn(w, "sed")
        \/ At(w, "sed") /\ WentOn(w, "rename") /\ new' = {job[w].read}
    BY <1>4 DEF Configured, Create, At
  <2>2. Does(w)'
    BY <2>1 DEF Counts, Does, ConfiguredDoes, Fresh, WentOn, Went, At
  <2> QED
    BY <1>1, <2>1, <2>2 DEF Shown, WentOn, Went
<1>5. CASE At(w, "rename")
  <2>1. WentOn(w, "down") /\ new = {job[w].read} /\ conf' \in new /\ Fresh(w)
    BY <1>5 DEF Configured, At, Counts, Does, ConfiguredDoes
  <2>2. Does(w)'
    BY <2>1 DEF Does, ConfiguredDoes, Fresh, WentOn, Went, At
  <2> QED
    BY <1>1, <2>1, <2>2 DEF Shown, WentOn, Went
<1> QED
  BY <1>2, <1>3, <1>4, <1>5 DEF Configured

LEMMA SshdRest ==
  ASSUME Inv, NEW w \in Callers, Counts(w), UNCHANGED world, Sshd(w)
  PROVE  Shown(w)
<1> USE SameCalls, Records
<1>1. svc = "sshd" /\ svc' = svc
  BY DEF Sshd
<1>2. Kept'
  BY <1>1 DEF Kept
<1>3. CASE Configured(w)
  BY <1>1, <1>3, ConfiguredRest
<1>4. CASE At(w, "down") /\ ~Configured(w)
  <2>1. WentOn(w, "up") /\ proc' = {} /\ conf' = conf
    BY <1>4 DEF Sshd, At
  <2>2. Does(w)'
    BY <1>1, <1>4, <2>1 DEF Counts, Does, ConfiguredDoes, Fresh, WentOn, Went, At
  <2> QED
    BY <1>2, <2>1, <2>2 DEF Shown, WentOn, Went
<1>5. CASE At(w, "up") /\ ~Configured(w)
  <2>1. Left(w, 0) /\ Fresh(w) /\ conf = job[w].read /\ proc = {}
    BY <1>1, <1>5 DEF Sshd, At, Counts, Does, ConfiguredDoes
  <2>2. proc' = {s \in {job[w].read} : s.on} \/ (failed' /\ proc' = {})
    BY <1>5, <2>1, Starts DEF Sshd, At, Started
  <2>3. Does(w)'
    BY <1>1, <2>1 DEF Does, ConfiguredDoes, Left, At
  <2>4. job[w].read = saved => Settled'
    BY <1>1, <2>2 DEF Settled, Matches, Runs
  <2>5. Rested'
    BY <1>1, <2>1, <2>4 DEF Rested, Fresh, Due, Full
  <2> QED
    BY <1>2, <2>1, <2>3, <2>5 DEF Shown, Left
<1> QED
  BY <1>3, <1>4, <1>5 DEF Sshd

LEMMA RsyslogdRest ==
  ASSUME Inv, NEW w \in Callers, Counts(w), UNCHANGED world, Rsyslogd(w)
  PROVE  Shown(w)
<1> USE SameCalls, Records
<1>1. svc = "rsyslogd" /\ svc' = svc
  BY DEF Rsyslogd
<1>2. Kept'
  BY <1>1 DEF Kept
<1>3. CASE Configured(w)
  BY <1>1, <1>3, ConfiguredRest
<1>4. CASE At(w, "down") /\ ~Configured(w)
  <2>1. WentOn(w, "up") /\ proc' = {} /\ conf' = conf
    BY <1>4 DEF Rsyslogd, At, Stopped
  <2>2. Does(w)'
    BY <1>1, <1>4, <2>1 DEF Counts, Does, ConfiguredDoes, Fresh, WentOn, Went, At
  <2> QED
    BY <1>2, <2>1, <2>2 DEF Shown, WentOn, Went
<1>5. CASE At(w, "up") /\ ~Configured(w)
  <2>1. (\E rc : Left(w, rc)) /\ Fresh(w) /\ conf = job[w].read
    BY <1>1, <1>5 DEF Rsyslogd, At, Counts, Does, ConfiguredDoes
  <2>5. proc' = {conf} \/ (failed' /\ proc' = {})
    BY <1>5, Starts DEF Rsyslogd, At, Started
  <2>2. Does(w)'
    BY <1>1, <2>1 DEF Does, ConfiguredDoes, Left, At
  <2>3. job[w].read = saved => Settled'
    BY <1>1, <2>1, <2>5 DEF Settled, Matches, Runs
  <2>4. Rested'
    BY <1>1, <2>1, <2>3 DEF Rested, Fresh, Due, Full
  <2> QED
    BY <1>2, <2>1, <2>2, <2>4 DEF Shown, Left
<1> QED
  BY <1>3, <1>4, <1>5 DEF Rsyslogd

LEMMA NtpdRest ==
  ASSUME Inv, NEW w \in Callers, Counts(w), UNCHANGED world, Ntpd(w)
  PROVE  Shown(w)
<1> USE SameCalls, Records
<1>1. svc = "ntpd" /\ svc' = svc
  BY DEF Ntpd
<1>2. /\ ~pid => proc = {} /\ (failed \/ rules = {})
      /\ pid /\ proc = {} => crashed
      /\ rules \subseteq {Rule("redirect", 0)}
  BY <1>1 DEF Counts, Kept
<1>3. CASE At(w, "begin") /\ (job[w].how = "red" => once)
  <2>1. WentRead(w, "flush") /\ UNCHANGED kernel
    BY <1>3 DEF Ntpd, At
  <2>2. Kept' /\ Does(w)'
    BY <1>1, <1>2, <2>1 DEF Kept, Does, NtpdDoes, Fresh, WentRead, Went, At, kernel
  <2> QED
    BY <2>1, <2>2 DEF Shown, WentRead, Went
<1>4. CASE At(w, "begin") /\ job[w].how = "red" /\ ~once
  <2>1. Left(w, 0) /\ UNCHANGED kernel
    BY <1>4 DEF Ntpd, At
  <2>2. Kept' /\ Does(w)'
    BY <1>1, <1>2, <2>1 DEF Kept, Does, NtpdDoes, Left, At, kernel
  <2>3. Due(Full) \/ crashed \/ Settled
    BY <1>1, <1>4 DEF Counts, Rested
  <2>4. ASSUME Due(Full)
        PROVE  Due(Full)'
    <3>1. PICK v \in Callers : Awaited(Full) \/ (At(v, "begin") /\ job[v].how \in Full)
      BY <2>4 DEF Due
    <3>2. CASE Awaited(Full)
      BY <3>2 DEF Due
    <3>3. CASE At(v, "begin") /\ job[v].how \in Full
      <4>1. v # w
        BY <1>1, <1>4, <3>3 DEF Full
      <4> QED
        BY <2>1, <3>3, <4>1 DEF Due, Left, Elsewise, At
    <3> QED
      BY <3>1, <3>2, <3>3
  <2>5. Settled => Settled'
    BY <1>1, <2>1 DEF Settled, Matches, Redirects, kernel
  <2>6. Rested'
    BY <1>1, <2>1, <2>3, <2>4, <2>5 DEF Rested, kernel
  <2> QED
    BY <2>1, <2>2, <2>6 DEF Shown, Left
<1>5. CASE At(w, "flush")
  <2>1. \/ pid /\ rules' = {} /\ WentOn(w, "kill") /\ UNCHANGED <<proc, pid, crashed>>
        \/ ~pid /\ WentOn(w, "up") /\ UNCHANGED kernel
    BY <1>5 DEF Ntpd, At
  <2>2. Kept' /\ Does(w)'
    BY <1>1, <1>2, <1>5, <2>1 DEF Counts, Kept, Does, NtpdDoes, Fresh, WentOn, Went, At, kernel
  <2> QED
    BY <2>1, <2>2 DEF Shown, WentOn, Went
<1>6. CASE At(w, "kill") /\ proc = {}
  <2>1. Left(w, 0) /\ UNCHANGED kernel /\ crashed
    BY <1>1, <1>2, <1>6 DEF Ntpd, At, Counts, Does, NtpdDoes
  <2>2. Kept' /\ Does(w)' /\ Rested'
    BY <1>1, <1>2, <2>1 DEF Kept, Does, NtpdDoes, Left, At, kernel, Rested
  <2> QED
    BY <2>1, <2>2 DEF Shown, Left
<1>7. CASE At(w, "kill") /\ proc # {}
  <2>1. WentOn(w, "up") /\ Stopped /\ rules = {} /\ rules' = {}
    BY <1>1, <1>7 DEF Ntpd, At, Counts, Does, NtpdDoes
  <2>2. Kept' /\ Does(w)'
    BY <1>1, <1>7, <2>1 DEF Counts, Kept, Does, NtpdDoes, Fresh, WentOn, Went, At, Stopped
  <2> QED
    BY <2>1, <2>2 DEF Shown, WentOn, Went
<1>8. CASE At(w, "up") /\ job[w].read.on
  <2>1. WentOn(w, "rules") /\ Started(job[w].read) /\ rules' = rules /\ ~pid
    BY <1>1, <1>8 DEF Ntpd, At, Counts, Does, NtpdDoes
  <2>2. Kept' /\ Does(w)'
    <3>1. Fresh(w) /\ Fresh(w)'
      BY <1>1, <1>8, <2>1 DEF Counts, Does, NtpdDoes, Fresh, At, WentOn, Went
    <3>2. /\ pid' <=> proc' # {}
          /\ failed' \/ (proc' # {} /\ failed' = failed)
      BY <1>1, <2>1, Starts DEF Started, Chained
    <3>3. Kept'
      BY <1>1, <1>2, <2>1, <3>2 DEF Kept
    <3> QED
      BY <1>1, <1>2, <1>8, <2>1, <3>1, <3>2, <3>3 DEF Does, NtpdDoes, WentOn, Went, At
  <2> QED
    BY <2>1, <2>2 DEF Shown, WentOn, Went
<1>9. CASE At(w, "up") /\ ~job[w].read.on
  <2>1. Left(w, 0) /\ UNCHANGED kernel /\ ~pid /\ Fresh(w)
    BY <1>1, <1>9 DEF Ntpd, At, Counts, Does, NtpdDoes
  <2>2. Kept' /\ Does(w)'
    BY <1>1, <1>2, <2>1 DEF Kept, Does, NtpdDoes, Left, At, kernel
  <2>3. job[w].read = saved => Settled'
    BY <1>1, <1>2, <1>9, <2>1 DEF Settled, Matches, Redirects, kernel
  <2>4. Rested'
    BY <1>1, <2>1, <2>3 DEF Rested, Fresh, Due
  <2> QED
    BY <2>1, <2>2, <2>4 DEF Shown, Left
<1>10. CASE At(w, "rules")
  <2>1. /\ Left(w, 0) /\ UNCHANGED <<proc, pid, crashed, failed>> /\ Fresh(w)
        /\ job[w].read.on
        /\ failed \/ (pid /\ rules = {} /\ (crashed \/ proc # {}))
        /\ rules' = rules \cup {r \in {Rule("redirect", 0)} : job[w].read.extra}
    BY <1>1, <1>10 DEF Ntpd, At, Counts, Does, NtpdDoes
  <2>2. Kept' /\ Does(w)'
    BY <1>1, <1>2, <2>1 DEF Kept, Does, NtpdDoes, Left, At
  <2>3. job[w].read = saved /\ ~crashed => Settled'
    BY <1>1, <2>1 DEF Settled, Matches, Redirects
  <2>4. Rested'
    BY <1>1, <2>1, <2>3 DEF Rested, Fresh, Due
  <2> QED
    BY <2>1, <2>2, <2>4 DEF Shown, Left
<1> QED
  BY <1>3, <1>4, <1>5, <1>6, <1>7, <1>8, <1>9, <1>10 DEF Ntpd

LEMMA AliasesRest ==
  ASSUME Inv, NEW w \in Callers, Counts(w), UNCHANGED world, Aliases(w)
  PROVE  Shown(w)
<1> USE SameCalls, Records
<1>1. svc = "aliases" /\ svc' = svc
  BY DEF Aliases
<1>2. Kept'
  BY <1>1 DEF Kept
<1>3. CASE At(w, "begin")
  <2>1. WentSee(w, "flush")
    BY <1>3 DEF Aliases, At
  <2>2. Does(w)'
    BY <1>1, <2>1 DEF Does, AliasesDoes, WentSee, Went, At
  <2> QED
    BY <1>2, <2>1, <2>2 DEF Shown, WentSee, Went
<1>4. CASE At(w, "flush") /\ job[w].saw.up
  <2>1. WentOn(w, "add")
    BY <1>4 DEF Aliases, Flush, At
  <2>2. Does(w)'
    BY <1>1, <1>4, <2>1 DEF Counts, Does, AliasesDoes, WentOn, Went, At
  <2> QED
    BY <1>2, <2>1, <2>2 DEF Shown, WentOn, Went
<1>5. CASE At(w, "flush") /\ ~job[w].saw.up
  <2>1. Left(w, 0) /\ rules' = {} /\ (Awaited(How) \/ job[w].saw = red)
    BY <1>1, <1>5 DEF Aliases, Flush, At, Counts, Does, AliasesDoes
  <2>2. Does(w)'
    BY <1>1, <2>1 DEF Does, AliasesDoes, Left, At
  <2>3. job[w].saw = red => Settled'
    BY <1>1, <1>5, <2>1 DEF Settled, Matches, Serves
  <2>4. Rested'
    BY <1>1, <2>1, <2>3 DEF Rested, Due, Full
  <2> QED
    BY <1>2, <2>1, <2>2, <2>4 DEF Shown, Left
<1>6. CASE At(w, "add")
  <2>1. /\ Left(w, 0) /\ rules' = {r \in {Rule("alias", 0)} : saved.on /\ Device(red)}
        /\ Awaited(How) \/ red.up
    BY <1>1, <1>6 DEF Aliases, At, Counts, Does, AliasesDoes
  <2>2. Does(w)'
    BY <1>1, <2>1 DEF Does, AliasesDoes, Left, At
  <2>3. red.up => Settled'
    BY <1>1, <2>1 DEF Settled, Matches, Serves, Device
  <2>4. Rested'
    BY <1>1, <2>1, <2>3 DEF Rested, Due, Full
  <2> QED
    BY <1>2, <2>1, <2>2, <2>4 DEF Shown, Left
<1> QED
  BY <1>3, <1>4, <1>5, <1>6 DEF Aliases

LEMMA ShapingRest ==
  ASSUME Inv, NEW w \in Callers, Counts(w), UNCHANGED world, Shaping(w)
  PROVE  Shown(w)
<1> USE SameCalls, Records
<1>1. svc = "shaping" /\ svc' = svc
  BY DEF Shaping
<1>2. Kept'
  BY <1>1 DEF Kept
<1>3. CASE At(w, "begin") /\ saved.extra
  <2>1. WentRead(w, "net")
    BY <1>3 DEF Shaping, At
  <2>2. Does(w)'
    BY <1>1, <2>1 DEF Does, ShapingDoes, Fresh, WentRead, Went, At
  <2> QED
    BY <1>2, <2>1, <2>2 DEF Shown, WentRead, Went
<1>4. CASE At(w, "begin") /\ ~saved.extra
  <2>1. Left(w, 0)
    BY <1>4 DEF Shaping, At
  <2>2. Does(w)'
    BY <1>1, <2>1 DEF Does, ShapingDoes, Left, At
  <2>3. Rested'
    BY <1>1, <1>4 DEF Rested, Settled, Matches
  <2> QED
    BY <1>2, <2>1, <2>2, <2>3 DEF Shown, Left
<1>5. CASE At(w, "net") /\ Device(red)
  <2>1. WentSee(w, "del")
    BY <1>5 DEF Shaping, At
  <2>2. Does(w)'
    BY <1>1, <1>5, <2>1 DEF Counts, Does, ShapingDoes, Fresh, WentSee, Went, At
  <2> QED
    BY <1>2, <2>1, <2>2 DEF Shown, WentSee, Went
<1>6. CASE At(w, "net") /\ ~Device(red)
  <2>1. Left(w, 1)
    BY <1>6 DEF Shaping, At
  <2>2. Does(w)' /\ Rested'
    BY <1>1, <2>1 DEF Does, ShapingDoes, Left, At, Rested
  <2> QED
    BY <1>2, <2>1, <2>2 DEF Shown, Left
<1>7. CASE At(w, "del") /\ job[w].read.on
  <2>1. WentOn(w, "add")
    BY <1>7 DEF Shaping, At
  <2>2. Does(w)'
    BY <1>1, <1>7, <2>1 DEF Counts, Does, ShapingDoes, Fresh, WentOn, Went, At
  <2> QED
    BY <1>2, <2>1, <2>2 DEF Shown, WentOn, Went
<1>8. CASE (At(w, "del") /\ ~job[w].read.on) \/ At(w, "add")
  <2>1. /\ Left(w, 0) /\ (Fresh(w) \/ ~saved.extra)
        /\ \/ ~job[w].read.on /\ rules' = {}
           \/ job[w].read.on /\ rules' = {r \in {Rule("classes", 0)} : Device(red)}
    BY <1>1, <1>8 DEF Shaping, At, Counts, Does, ShapingDoes
  <2>2. Does(w)'
    BY <1>1, <2>1 DEF Does, ShapingDoes, Left, At
  <2>3. job[w].read = saved \/ ~saved.extra => Settled'
    BY <1>1, <2>1 DEF Settled, Matches, Serves, Device
  <2>4. Rested'
    BY <1>1, <2>1, <2>3 DEF Rested, Fresh, Due
  <2> QED
    BY <1>2, <2>1, <2>2, <2>4 DEF Shown, Left
<1> QED
  BY <1>3, <1>4, <1>5, <1>6, <1>7, <1>8 DEF Shaping

LEMMA SquidRest ==
  ASSUME Inv, NEW w \in Callers, Counts(w), UNCHANGED world, Squid(w)
  PROVE  Shown(w)
<1> USE SameCalls, Records
<1>1. svc = "squid" /\ svc' = svc /\ conf' = conf /\ saved' = saved /\ red' = red
  BY DEF Squid, files
<1>2. /\ ~pid => proc = {} /\ (failed \/ rules = {})
      /\ pid /\ proc = {} => crashed
      /\ conf = saved /\ (red.up => red.addr > 0)
  BY <1>1 DEF Counts, Kept
<1>3. CASE At(w, "begin") /\ ~pid /\ job[w].how = "red"
  <2>1. Left(w, 0) /\ UNCHANGED kernel
    BY <1>3 DEF Squid, SquidStop, SquidRead, At
  <2>2. Kept' /\ Does(w)'
    BY <1>1, <1>2, <2>1 DEF Kept, Does, SquidDoes, Left, At, kernel
  <2>3. Due(Full) \/ crashed \/ Settled
    BY <1>1, <1>3 DEF Counts, Rested
  <2>4. ASSUME Due(Full)
        PROVE  Due(Full)'
    <3>1. PICK v \in Callers : Awaited(Full) \/ (At(v, "begin") /\ job[v].how \in Full)
      BY <2>4 DEF Due
    <3>2. CASE Awaited(Full)
      BY <3>2 DEF Due
    <3>3. CASE At(v, "begin") /\ job[v].how \in Full
      <4>1. v # w
        BY <1>1, <1>3, <3>3 DEF Full
      <4> QED
        BY <2>1, <3>3, <4>1 DEF Due, Left, Elsewise, At
    <3> QED
      BY <3>1, <3>2, <3>3
  <2>5. Due(Full)' => Due(How)'
    BY DEF Due, Full, How, Awaited
  <2>6. Settled => Settled' /\ Bypassed'
    BY <1>1, <1>2, <1>3, <2>1 DEF Settled, Runs, Redirects, kernel, Bypassed
  <2>7. Rested'
    BY <1>1, <2>1, <2>3, <2>4, <2>5, <2>6 DEF Rested, kernel
  <2> QED
    BY <2>1, <2>2, <2>7 DEF Shown, Left
<1>4. CASE At(w, "begin") /\ (pid \/ job[w].how # "red")
  <2>1. UNCHANGED kernel /\ ((pid /\ Go(w, "flush")) \/ (~pid /\ Go(w, "read")))
    BY <1>4 DEF Squid, SquidStop, SquidRead, At
  <2>2. (pid /\ WentOn(w, "flush")) \/ (~pid /\ WentOn(w, "read"))
    BY <2>1
  <2>3. Kept' /\ Does(w)'
    BY <1>1, <1>2, <2>1, <2>2 DEF Kept, Does, SquidDoes, WentOn, Went, At, kernel
  <2> QED
    BY <2>2, <2>3 DEF Shown, WentOn, Went
<1>5. CASE At(w, "flush")
  <2>1. WentOn(w, "down") /\ rules' = {} /\ UNCHANGED <<proc, pid, crashed>>
    BY <1>5 DEF Squid, SquidStop, SquidRead, At
  <2>2. Kept' /\ Does(w)'
    BY <1>1, <1>2, <2>1 DEF Kept, Does, SquidDoes, WentOn, Went, At
  <2> QED
    BY <2>1, <2>2 DEF Shown, WentOn, Went
<1>6. CASE At(w, "down")
  <2>1. WentOn(w, "read") /\ rules' = {} /\ Stopped
    BY <1>1, <1>6 DEF Squid, SquidStop, SquidRead, At, Counts, Does, SquidDoes
  <2>2. Kept' /\ Does(w)'
    BY <1>1, <1>2, <2>1 DEF Kept, Does, SquidDoes, WentOn, Went, At, Stopped
  <2> QED
    BY <2>1, <2>2 DEF Shown, WentOn, Went
<1>7. CASE At(w, "read") /\ saved.on
  <2>1. WentRead(w, "net") /\ UNCHANGED kernel /\ ~pid
    BY <1>1, <1>7 DEF Squid, SquidStop, SquidRead, At, Counts, Does, SquidDoes
  <2>2. Kept' /\ Does(w)'
    BY <1>1, <1>2, <1>7, <2>1 DEF Kept, Does, SquidDoes, Fresh, WentRead, Went, At, kernel
  <2> QED
    BY <2>1, <2>2 DEF Shown, WentRead, Went
<1>8. CASE At(w, "read") /\ ~saved.on
  <2>1. Left(w, 0) /\ ~pid /\ UNCHANGED <<proc, pid, rules, failed>>
    BY <1>1, <1>8 DEF Squid, SquidStop, SquidRead, At, Counts, Does, SquidDoes
  <2>2. Kept' /\ Does(w)'
    BY <1>1, <1>2, <2>1 DEF Kept, Does, SquidDoes, Left, At
  <2>3. Settled' /\ Bypassed'
    BY <1>1, <1>2, <1>8, <2>1 DEF Settled, Runs, Redirects, Bypassed
  <2> QED
    BY <2>1, <2>2, <2>3 DEF Shown, Left, Rested
<1>9. CASE At(w, "net")
  <2>1. WentSee(w, "up") /\ UNCHANGED kernel /\ ~pid /\ Fresh(w) /\ job[w].read.on
    BY <1>1, <1>9 DEF Squid, SquidStop, SquidRead, At, Counts, Does, SquidDoes
  <2>2. Kept' /\ Does(w)'
    BY <1>1, <1>2, <2>1 DEF Kept, Does, SquidDoes, Fresh, WentSee, Went, At, kernel
  <2> QED
    BY <2>1, <2>2 DEF Shown, WentSee, Went
<1>10. CASE At(w, "up")
  <2>1. /\ WentOn(w, "rules") /\ Started(conf) /\ rules' = rules /\ ~pid /\ Fresh(w)
        /\ job[w].read.on
        /\ Awaited(How) \/ (red.up => job[w].saw.addr = red.addr)
    BY <1>1, <1>10 DEF Squid, SquidStop, SquidRead, At, Counts, Does, SquidDoes
  <2>2. Kept' /\ Does(w)'
    <3>1. Fresh(w)' /\ job'[w].read.on
      BY <2>1 DEF Fresh, WentOn, Went
    <3>2. /\ pid' <=> proc' # {}
          /\ proc' = {saved} \/ (failed' /\ proc' = {})
          /\ failed' \/ failed' = failed
      BY <1>1, <1>2, <2>1, Starts DEF Started, Chained
    <3>3. Kept'
      BY <1>1, <1>2, <2>1, <3>2 DEF Kept
    <3>4. failed' \/ (pid' /\ rules' = {})
      BY <1>2, <2>1, <3>2
    <3> QED
      BY <1>1, <2>1, <3>1, <3>2, <3>3, <3>4 DEF Does, SquidDoes, WentOn, Went, At
  <2> QED
    BY <2>1, <2>2 DEF Shown, WentOn, Went
<1>11. CASE At(w, "rules")
  <2>1. /\ Left(w, 0) /\ UNCHANGED <<proc, pid, crashed, failed>> /\ Fresh(w)
        /\ failed \/ (pid /\ rules = {})
        /\ job[w].read.on
        /\ crashed \/ Awaited(Full) \/ proc = {saved} \/ (failed /\ proc = {})
        /\ Awaited(How) \/ (red.up => job[w].saw.addr = red.addr)
        /\ rules' = rules \cup SquidRules(w)
    BY <1>1, <1>11 DEF Squid, SquidStop, SquidRead, At, Counts, Does, SquidDoes
  <2>2. Kept' /\ Does(w)'
    BY <1>1, <1>2, <2>1 DEF Kept, Does, SquidDoes, Left, At
  <2>3. Rule("redirect", 0) \in SquidRules(w) <=> job[w].read.extra
    BY DEF SquidRules, Rule
  <2>4. job[w].read = saved /\ (proc = {saved} \/ (failed /\ proc = {})) => Settled'
    BY <1>1, <2>1, <2>3 DEF Settled, Runs, Redirects
  <2>5. job[w].read = saved /\ (red.up => job[w].saw.addr = red.addr) => Bypassed'
    BY <1>1, <1>2, <2>1 DEF SquidRules, Rule, Bypassed
  <2>6. Awaited(Full) => Awaited(How)
    BY DEF Awaited, Full, How
  <2>7. Rested'
    BY <1>1, <2>1, <2>4, <2>5, <2>6 DEF Rested, Fresh, Due
  <2> QED
    BY <2>1, <2>2, <2>7 DEF Shown, Left
<1> QED
  BY <1>3, <1>4, <1>5, <1>6, <1>7, <1>8, <1>9, <1>10, <1>11 DEF Squid, SquidStop, SquidRead

LEMMA AccountingRest ==
  ASSUME Inv, NEW w \in Callers, Counts(w), UNCHANGED world, Accounting(w)
  PROVE  Shown(w)
<1> USE SameCalls, Records
<1>1. svc = "accounting" /\ svc' = svc
  BY DEF Accounting
<1>2. Kept'
  BY <1>1 DEF Kept
<1>3. Rule("GREEN", 0) # Rule("RED", 0)
  BY DEF Rule
<1>4. CASE At(w, "begin")
  <2>1. WentRead(w, "flush")
    BY <1>4 DEF Accounting, At
  <2>2. Does(w)'
    BY <1>1, <2>1 DEF Does, AccountingDoes, Fresh, WentRead, Went, At
  <2> QED
    BY <1>2, <2>1, <2>2 DEF Shown, WentRead, Went
<1>5. CASE At(w, "flush")
  <2>1. /\ Fresh(w) /\ rules' = {}
        /\ \/ job[w].read.on /\ WentOn(w, "net")
           \/ ~job[w].read.on /\ WentOn(w, "daemons")
    BY <1>1, <1>5 DEF Accounting, At, Counts, Does, AccountingDoes
  <2>2. Does(w)'
    BY <1>1, <2>1 DEF Does, AccountingDoes, Fresh, WentOn, Went, At
  <2> QED
    BY <1>2, <2>1, <2>2 DEF Shown, WentOn, Went
<1>6. CASE At(w, "net")
  <2>1. WentSee(w, "add") /\ Fresh(w) /\ job[w].read.on
    BY <1>1, <1>6 DEF Accounting, At, Counts, Does, AccountingDoes
  <2>2. Does(w)'
    BY <1>1, <2>1 DEF Does, AccountingDoes, Fresh, Seen, WentSee, Went, At
  <2> QED
    BY <1>2, <2>1, <2>2 DEF Shown, WentSee, Went
<1>7. CASE At(w, "add")
  <2>1. /\ WentOn(w, "daemons") /\ Fresh(w) /\ job[w].read.on /\ Seen(w)
        /\ rules' = {Rule(c, 0) : c \in {d \in {"GREEN", "RED"} :
             job[w].read.extra /\ (d = "RED" => job[w].saw.up)}}
    BY <1>1, <1>7 DEF Accounting, At, Counts, Does, AccountingDoes
  <2>2. /\ Rule("GREEN", 0) \in rules' <=> job[w].read.extra
        /\ Rule("RED", 0) \in rules' <=> job[w].read.extra /\ job[w].saw.up
    BY <1>3, <2>1
  <2>3. Does(w)'
    BY <1>1, <2>1, <2>2 DEF Does, AccountingDoes, Fresh, Seen, WentOn, Went, At
  <2> QED
    BY <1>2, <2>1, <2>3 DEF Shown, WentOn, Went
<1>8. CASE At(w, "daemons")
  <2>1. Left(w, 0) /\ Fresh(w) /\ rules' = rules
    BY <1>1, <1>8 DEF Accounting, At, Counts, Does, AccountingDoes
  <2>6. proc' = {s \in {job[w].read} : s.on} \/ (failed' /\ proc' = {})
    BY <1>8, Starts DEF Accounting, At
  <2>2. Does(w)'
    BY <1>1, <2>1 DEF Does, AccountingDoes, Left, At
  <2> DEFINE counts == job[w].read.on /\ job[w].read.extra
  <2>3. /\ Rule("GREEN", 0) \in rules <=> counts
        /\ Awaited(How) \/ (red.up => (Rule("RED", 0) \in rules <=> counts))
    BY <1>1, <1>8 DEF Counts, Does, AccountingDoes
  <2>4. Awaited(How) \/ Settled'
    BY <1>1, <2>1, <2>3, <2>6 DEF Settled, Matches, Runs, Fresh, Full
  <2>5. Rested'
    BY <1>1, <2>4 DEF Rested, Due, Full
  <2> QED
    BY <1>2, <2>1, <2>2, <2>5 DEF Shown, Left
<1> QED
  BY <1>4, <1>5, <1>6, <1>7, <1>8 DEF Accounting

LEMMA IpsecRest ==
  ASSUME Inv, NEW w \in Callers, Counts(w), UNCHANGED world, Ipsec(w)
  PROVE  Shown(w)
<1> USE SameCalls, Records
<1>1. svc = "ipsec" /\ svc' = svc
  BY DEF Ipsec
<1>2. Kept'
  BY <1>1 DEF Kept
<1>3. CASE At(w, "begin") /\ job[w].how = "stop"
  <2>1. Left(w, 0)
    BY <1>3 DEF Ipsec, At
  <2>2. Does(w)' /\ Rested'
    BY <1>1, <1>3, <2>1 DEF Does, IpsecDoes, Left, At, Rested, Settled, Matches
  <2> QED
    BY <1>2, <2>1, <2>2 DEF Shown, Left
<1>4. CASE At(w, "begin") /\ job[w].how # "stop"
  <2>1. WentSee(w, "read")
    BY <1>4 DEF Ipsec, At
  <2>2. Does(w)'
    BY <1>1, <2>1 DEF Does, IpsecDoes, Seen, WentSee, Went, At
  <2> QED
    BY <1>2, <2>1, <2>2 DEF Shown, WentSee, Went
<1>5. CASE At(w, "read") /\ saved.on /\ Device(job[w].saw)
  <2>1. WentRead(w, "up") /\ Seen(w)
    BY <1>1, <1>5 DEF Ipsec, At, Counts, Does, IpsecDoes
  <2>2. Does(w)'
    BY <1>1, <1>5, <2>1 DEF Does, IpsecDoes, Seen, Fresh, WentRead, Went, At
  <2> QED
    BY <1>2, <2>1, <2>2 DEF Shown, WentRead, Went
<1>6. CASE At(w, "read") /\ saved.on /\ ~Device(job[w].saw)
  <2>1. Left(w, 0) /\ Seen(w) /\ ~job[w].saw.up
    BY <1>1, <1>6 DEF Ipsec, At, Counts, Does, IpsecDoes, Device
  <2>2. Awaited(How) \/ Settled'
    BY <1>1, <2>1 DEF Seen, Settled, Matches
  <2>3. Does(w)' /\ Rested'
    BY <1>1, <2>1, <2>2 DEF Does, IpsecDoes, Left, At, Rested, Due, Full
  <2> QED
    BY <1>2, <2>1, <2>3 DEF Shown, Left
<1>7. CASE At(w, "read") /\ ~saved.on
  <2>1. Left(w, 0) /\ proc' = {} /\ pid' = FALSE
    BY <1>7 DEF Ipsec, At, Stopped
  <2>2. saved.on = FALSE
    BY <1>7 DEF Counts, Settings
  <2>3. Settled'
    BY <1>1, <2>1, <2>2 DEF Settled, Matches, Runs
  <2>4. Does(w)' /\ Rested'
    BY <1>1, <2>1, <2>3 DEF Does, IpsecDoes, Left, At, Rested
  <2> QED
    BY <1>2, <2>1, <2>4 DEF Shown, Left
<1>8. CASE At(w, "up")
  <2>1. /\ Left(w, 0) /\ pid' = TRUE /\ Fresh(w) /\ job[w].read.on
        /\ proc' = {job[w].read} \/ (failed' /\ proc' = {})
    BY <1>1, <1>8, Starts DEF Ipsec, At, Counts, Does, IpsecDoes
  <2>2. job[w].read.on = TRUE
    BY <2>1 DEF Counts, Job, Settings
  <2>3. job[w].read = saved => Settled'
    BY <1>1, <2>1, <2>2 DEF Settled, Matches, Runs
  <2>4. Does(w)' /\ Rested'
    BY <1>1, <2>1, <2>3 DEF Does, IpsecDoes, Left, At, Rested, Due, Fresh
  <2> QED
    BY <1>2, <2>1, <2>4 DEF Shown, Left
<1> QED
  BY <1>3, <1>4, <1>5, <1>6, <1>7, <1>8 DEF Ipsec

LEMMA StepRest ==
  ASSUME Inv, RestInv, NEW w \in Callers, Step(w)
  PROVE  RestInv'
<1>1. UNCHANGED world /\ Counts(w)
  BY RestCounts DEF Step
<1>2. Shown(w)
  BY <1>1, NtpdRest, SquidRest, OpenvpnRest, WireguardRest, SuricataRest, SshdRest, RsyslogdRest,
     AliasesRest, ShapingRest, AccountingRest, IpsecRest DEF Step
<1>3. ~At(w, "idle")
  BY DEF Step, Ntpd, Squid, SquidStop, SquidRead, Openvpn, Wireguard, Suricata, SuricataConf,
     Sshd,
     Rsyslogd, Configured, Aliases, Shaping, Accounting, Ipsec, At
<1> QED
  BY <1>2, <1>3, ShownKeeps DEF RestInv

-----------------------------------------------------------------------------
(* What happens around the restarters of a service at rest.                *)

LEMMA Longer ==
  ASSUME Inv, NEW w \in Callers, NEW q \in Seq(How), owed' = [owed EXCEPT ![w] = @ \o q]
  PROVE  /\ \A H : Awaited(H) => Awaited(H)'
         /\ \A H : (\E i \in DOMAIN q : q[i] \in H) => Awaited(H)'
<1>1. owed \in [Callers -> Seq(How)] /\ owed[w] \in Seq(How)
  BY DEF Inv, TypeInv, World
<1>2. owed'[w] = owed[w] \o q /\ \A v \in Callers : v # w => owed'[v] = owed[v]
  BY <1>1
<1>3. /\ DOMAIN (owed[w] \o q) = 1 .. Len(owed[w]) + Len(q)
      /\ DOMAIN owed[w] = 1 .. Len(owed[w]) /\ DOMAIN q = 1 .. Len(q)
      /\ Len(owed[w]) \in Nat /\ Len(q) \in Nat
  BY <1>1
<1>4. ASSUME NEW H, Awaited(H)
      PROVE  Awaited(H)'
  <2>1. PICK v \in Callers : \E i \in DOMAIN owed[v] : owed[v][i] \in H
    BY <1>4 DEF Awaited
  <2>2. CASE v # w
    BY <1>2, <2>1, <2>2 DEF Awaited
  <2>3. CASE v = w
    <3>1. PICK i \in DOMAIN owed[w] : owed[w][i] \in H
      BY <2>1, <2>3
    <3>2. i \in DOMAIN owed'[w] /\ owed'[w][i] = owed[w][i]
      BY <1>1, <1>2, <1>3, <3>1
    <3> QED
      BY <3>1, <3>2 DEF Awaited
  <2> QED
    BY <2>2, <2>3
<1>5. ASSUME NEW H, NEW i \in DOMAIN q, q[i] \in H
      PROVE  Awaited(H)'
  <2>1. Len(owed[w]) + i \in DOMAIN owed'[w] /\ owed'[w][Len(owed[w]) + i] = q[i]
    BY <1>1, <1>2, <1>3
  <2> QED
    BY <1>5, <2>1 DEF Awaited
<1> QED
  BY <1>4, <1>5

LEMMA Owing ==
  ASSUME Inv, NEW w \in Callers, NEW h \in How, Owe(w, h)
  PROVE  /\ \A H : Awaited(H) => Awaited(H)'
         /\ \A H : h \in H => Awaited(H)'
<1>1. owed[w] \in Seq(How) /\ <<h>> \in Seq(How)
  BY DEF Inv, TypeInv, World
<1>2. Append(owed[w], h) = owed[w] \o <<h>>
  BY <1>1
<1>3. owed' = [owed EXCEPT ![w] = @ \o <<h>>]
  BY <1>2 DEF Owe
<1>4. 1 \in DOMAIN <<h>> /\ <<h>>[1] = h
  OBVIOUS
<1> QED
  BY <1>1, <1>3, <1>4, Longer

\* As long as nothing is read or done by the restarters themselves.
LEMMA CallsStay ==
  ASSUME UNCHANGED <<svc, job>>, \A H : Awaited(H) => Awaited(H)'
  PROVE  /\ OneCall => OneCall'
         /\ Resting' <=> Resting
         /\ Full' = Full
         /\ \A H : Due(H) => Due(H)'
BY DEF OneCall, At, Resting, Due, Full

LEMMA BeginRest ==
  ASSUME Inv, RestInv, svc \in Alone, NEW w \in Callers, Begin(w)
  PROVE  RestInv'
<1>1. /\ \A v \in Callers : job[v].at = "idle" /\ v # w => job'[v] = job[v]
      /\ job'[w].at = "begin" /\ job'[w].how = Head(owed[w])
      /\ UNCHANGED <<svc, saved, red, bounds, kernel, files, last>>
  BY DEF Begin, Inv, TypeInv, Jobs, Idle, At
<1>2. \A v \in Callers : job[v].at = "idle" /\ job'[v].at \in {"idle", "begin"}
  BY <1>1 DEF Begin, At
<1>3. OneCall' /\ Resting' /\ Resting
  BY <1>1, <1>2 DEF Begin, OneCall, Resting, At
<1>4. \A v \in Callers : Does(v)'
  BY <1>2, IdleDoes DEF Does, NtpdDoes, SquidDoes, OpenvpnDoes, WireguardDoes, SuricataDoes,
     ConfiguredDoes, AliasesDoes, ShapingDoes, AccountingDoes, IpsecDoes, At
<1>5. Kept'
  BY <1>1 DEF RestInv, Kept, kernel, files
<1>6. ASSUME NEW H, Due(H)
      PROVE  Due(H)'
  <2>1. PICK v \in Callers : \E i \in DOMAIN owed[v] : owed[v][i] \in H
    BY <1>2, <1>6 DEF Due, Awaited, At
  <2>2. PICK i \in DOMAIN owed[v] : owed[v][i] \in H
    BY <2>1
  <2>3. owed \in [Callers -> Seq(How)] /\ owed' = [owed EXCEPT ![w] = Tail(@)] /\ owed[w] # <<>>
    BY DEF Begin, Inv, TypeInv, World
  <2>4. CASE v # w
    BY <2>2, <2>3, <2>4 DEF Due, Awaited
  <2>5. CASE v = w /\ i = 1
    BY <1>1, <2>2, <2>3, <2>5 DEF Due, At
  <2>6. CASE v = w /\ i # 1
    <3>1. /\ owed[w] \in Seq(How) /\ owed'[w] = Tail(owed[w]) /\ DOMAIN owed[w] = 1 .. Len(owed[w])
          /\ Len(owed[w]) \in Nat
      BY <2>3
    <3>2. i - 1 \in DOMAIN owed'[w] /\ owed'[w][i - 1] = owed[w][i]
      BY <2>2, <2>6, <3>1
    <3> QED
      BY <2>2, <2>6, <3>2 DEF Due, Awaited
  <2> QED
    BY <2>4, <2>5, <2>6
<1>7. Settled' <=> Settled
  BY <1>1 DEF Settled, Matches, Runs, Redirects, Serves, kernel
<1>8. Bypassed' <=> Bypassed
  BY <1>1 DEF Bypassed, kernel
<1>9. Full' = Full /\ Rested
  BY <1>1, <1>3 DEF Full, RestInv
<1>10. Rested'
  BY <1>1, <1>6, <1>7, <1>8, <1>9 DEF Rested, kernel
<1> QED
  BY <1>3, <1>4, <1>5, <1>10 DEF RestInv

LEMMA SaveRest ==
  ASSUME Inv, RestInv, NEW w \in Callers, NEW s \in Settings, Save(w, s)
  PROVE  RestInv'
<1>1. /\ UNCHANGED <<svc, red, kernel, new, once, job, last>> /\ saved' = s
      /\ owed' = [owed EXCEPT ![w] = @ \o Called(s)]
      /\ conf' = IF svc = "squid" THEN s ELSE conf
  BY DEF Save
<1>2. /\ <<"start">> \in Seq(How) /\ <<"stop">> \in Seq(How)
      /\ <<>> \in Seq(How) /\ <<"restart">> \in Seq(How)
  BY DEF How
<1>3. Called(s) \in Seq(How)
  BY <1>2 DEF Called
<1>4. \A H : Awaited(H) => Awaited(H)'
  BY <1>1, <1>3, Longer
<1>5. Kept'
  BY <1>1 DEF RestInv, Kept, kernel
<1>6. CASE svc = "shaping" /\ ~s.extra
  <2>1. \A v \in Callers : Does(v)'
    BY <1>1, <1>6 DEF RestInv, Does, ShapingDoes, At
  <2>2. Rested'
    BY <1>1, <1>6 DEF Rested, Settled, Matches
  <2> QED
    BY <1>1, <1>4, <1>5, <2>1, <2>2, CallsStay DEF RestInv
<1>7. CASE ~(svc = "shaping" /\ ~s.extra)
  <2>1. 1 \in DOMAIN Called(s) /\ Called(s)[1] \in Full
    BY <1>7 DEF Called, Full, How
  <2>2. Awaited(Full)'
    <3>1. \E i \in DOMAIN Called(s) : Called(s)[i] \in Full
      BY <2>1
    <3>2. \E v \in Callers : \E i \in DOMAIN owed'[v] : owed'[v][i] \in Full
      BY <1>1, <1>3, <3>1, Longer DEF Awaited
    <3> QED
      BY <1>1, <3>2 DEF Awaited, Full
  <2>3. Awaited(How)'
    BY <2>2 DEF Awaited, Full, How
  <2>4. ASSUME NEW v \in Callers
        PROVE  Does(v)'
    BY <1>1, <2>2, <2>3 DEF RestInv, Does, NtpdDoes, SquidDoes, OpenvpnDoes, WireguardDoes,
       SuricataDoes, ConfiguredDoes, AliasesDoes, ShapingDoes, AccountingDoes, IpsecDoes, At,
       Fresh, Seen, kernel
  <2>5. Rested'
    BY <2>2, <2>3 DEF Rested, Due
  <2> QED
    BY <1>1, <1>4, <1>5, <2>4, <2>5, CallsStay DEF RestInv
<1> QED
  BY <1>6, <1>7

LEMMA StopRest ==
  ASSUME Inv, RestInv, NEW w \in Callers, Stop(w)
  PROVE  RestInv'
<1>1. svc = "openvpn" /\ UNCHANGED <<svc, saved, red, kernel, files, job, last>>
  BY DEF Stop
<1>2. (\A H : Awaited(H) => Awaited(H)') /\ Awaited(How)'
  BY Owing DEF Stop, How
<1>3. Kept'
  BY <1>1 DEF RestInv, Kept, kernel, files
<1>4. \A v \in Callers : Does(v)'
  BY <1>1, <1>2 DEF RestInv, Does, OpenvpnDoes, Fresh, Full, At, kernel
<1>5. Rested'
  BY <1>1, <1>2 DEF Rested, Due, Full
<1> QED
  BY <1>1, <1>2, <1>3, <1>4, <1>5, CallsStay DEF RestInv

\* Services that do not look at RED.
Deaf == {"ntpd", "openvpn", "wireguard", "suricata", "sshd", "rsyslogd"}

LEMMA DeafStay ==
  ASSUME RestInv, svc \in Deaf, UNCHANGED <<svc, saved, kernel, files, job, last>>,
         \A H : Awaited(H) => Awaited(H)'
  PROVE  RestInv'
<1>1. Kept'
  BY DEF Deaf, RestInv, Kept, kernel, files
<1>2. \A v \in Callers : Does(v)'
  BY DEF Deaf, RestInv, Does, NtpdDoes, OpenvpnDoes, WireguardDoes, SuricataDoes, ConfiguredDoes,
     Fresh, Full, At, kernel, files
<1>3. Settled' <=> Settled
  BY DEF Deaf, Settled, Matches, Runs, Redirects, Serves, kernel
<1>4. Rested => Rested'
  BY <1>3, CallsStay DEF Deaf, Rested, kernel
<1> QED
  BY <1>1, <1>2, <1>4, CallsStay DEF RestInv

LEMMA RedUpRest ==
  ASSUME Inv, RestInv, RedUp
  PROVE  RestInv'
<1>1. /\ UNCHANGED <<svc, saved, kernel, files, job, last>>
      /\ red' = [red EXCEPT !.up = TRUE, !.addr = bounds.links + 1]
  BY DEF RedUp
<1>2. \A H : Awaited(H) => Awaited(H)'
  <2>1. CASE svc \in HearsUp
    BY <2>1, Owing DEF RedUp, Callers, How
  <2>2. CASE svc \notin HearsUp
    BY <2>2 DEF RedUp, Awaited
  <2> QED
    BY <2>1, <2>2
<1>3. CASE svc \in Deaf
  BY <1>1, <1>2, <1>3, DeafStay
<1>4. CASE svc \notin Deaf
  <2>1. svc \in HearsUp /\ (svc # "squid" => Full = How)
    BY <1>4, ServiceAssumption DEF Deaf, HearsUp, Full, Inv, TypeInv, World
  <2>2. Awaited(How)'
    BY <2>1, Owing DEF RedUp, Callers, How
  <2>3. red' \in Link /\ red'.addr > 0
    <3>1. red \in Link /\ bounds.links \in 0 .. MaxLinks /\ bounds.links < MaxLinks
      BY DEF RedUp, Inv, TypeInv, World
    <3>2. bounds.links + 1 \in 0 .. MaxLinks /\ bounds.links + 1 > 0
      BY <3>1, ServiceAssumption
    <3>3. red' \in Link
      BY <1>1, <3>1, <3>2 DEF Link
    <3>4. red'.addr = bounds.links + 1
      BY <1>1, <3>1 DEF Link
    <3> QED
      BY <3>2, <3>3, <3>4
  <2>4. Kept'
    BY <1>1, <1>4, <2>3 DEF Deaf, RestInv, Kept, kernel, files
  <2>5. ASSUME NEW v \in Callers
        PROVE  Does(v)'
    <3>1. Fresh(v) => Fresh(v)'
      BY <1>1, <1>2, CallsStay DEF Fresh
    <3>2. Awaited(Full) => Awaited(Full)'
      BY <1>1, <1>2, CallsStay
    <3> QED
      BY <1>1, <1>4, <2>2, <3>1, <3>2 DEF Deaf, RestInv, Does, SquidDoes, AliasesDoes,
         ShapingDoes, AccountingDoes, IpsecDoes, At, Seen, kernel
  <2>6. Settled /\ svc = "squid" => Settled'
    BY <1>1 DEF Settled, Runs, Redirects, kernel
  <2>7. Rested => Rested'
    BY <1>1, <1>2, <2>1, <2>2, <2>6, CallsStay DEF Rested, Due, kernel
  <2> QED
    BY <1>1, <1>2, <2>4, <2>5, <2>7, CallsStay DEF RestInv
<1> QED
  BY <1>3, <1>4

LEMMA RedDownRest ==
  ASSUME Inv, RestInv, RedDown
  PROVE  RestInv'
<1>1. /\ UNCHANGED <<svc, saved, proc, pid, crashed, failed, files, job, last>>
      /\ red' = [red EXCEPT !.up = FALSE]
      /\ rules' = IF red.ppp /\ svc \in {"aliases", "shaping"} THEN {} ELSE rules
  BY DEF RedDown
<1>2. red' \in Link /\ ~red'.up /\ red'.addr = red.addr
  BY <1>1 DEF Inv, TypeInv, World, Link
<1>3. \A H : Awaited(H) => Awaited(H)'
  <2>1. CASE svc \in HearsDown
    BY <2>1, Owing DEF RedDown, Callers, How
  <2>2. CASE svc \notin HearsDown
    BY <2>2 DEF RedDown, Awaited
  <2> QED
    BY <2>1, <2>2
<1>4. svc \in HearsDown => Awaited(How)'
  BY Owing DEF RedDown, Callers, How
<1>5. CASE svc \in Deaf
  BY <1>1, <1>3, <1>5, DeafStay DEF Deaf, kernel
<1>6. CASE svc \notin Deaf
  <2>1. svc \in {"aliases", "ipsec", "squid", "shaping", "accounting"}
    BY <1>6, ServiceAssumption DEF Deaf, Inv, TypeInv, World
  <2>2. svc # "squid" => Full = How
    BY <2>1 DEF Full
  <2>3. Kept'
    BY <1>1, <1>2 DEF RestInv, Kept, files
  <2>4. ASSUME NEW v \in Callers
        PROVE  Does(v)'
    <3>1. Fresh(v) => Fresh(v)'
      BY <1>1, <1>3, CallsStay DEF Fresh
    <3>2. Awaited(Full) => Awaited(Full)'
      BY <1>1, <1>3, CallsStay
    <3>3. CASE svc \in {"aliases", "ipsec"}
      BY <1>1, <1>2, <1>4, <3>1, <3>3 DEF HearsDown, RestInv, Does, AliasesDoes, IpsecDoes, At,
         Seen
    <3>4. CASE svc \in {"squid", "shaping"}
      BY <1>1, <1>2, <1>3, <3>1, <3>2, <3>4 DEF RestInv, Does, SquidDoes, ShapingDoes, At
    <3>5. CASE svc = "accounting"
      BY <1>1, <1>2, <1>3, <3>1, <3>5 DEF RestInv, Does, AccountingDoes, At, Seen
    <3> QED
      BY <2>1, <3>3, <3>4, <3>5
  <2>5. Settled => Settled' \/ svc \in HearsDown
    BY <1>1, <1>2, <2>1 DEF Settled, Matches, Runs, Redirects, HearsDown
  <2>6. Bypassed'
    BY <1>2 DEF Bypassed
  <2>7. Rested => Rested'
    BY <1>1, <1>3, <1>4, <2>1, <2>2, <2>5, <2>6, CallsStay DEF Rested, Due, HearsDown
  <2> QED
    BY <1>1, <1>3, <2>3, <2>4, <2>7, CallsStay DEF RestInv
<1> QED
  BY <1>5, <1>6

LEMMA CrashRest ==
  ASSUME Inv, RestInv, Crash
  PROVE  RestInv'
<1>1. /\ UNCHANGED <<svc, saved, red, owed, pid, rules, failed, files, job, last>>
      /\ proc # {} /\ proc' = {} /\ crashed'
  BY DEF Crash
<1>2. \A H : Awaited(H) <=> Awaited(H)'
  BY <1>1 DEF Awaited
<1>3. Kept'
  BY <1>1 DEF RestInv, Kept, files
<1>4. ASSUME NEW v \in Callers
      PROVE  Does(v)'
  <2>1. Fresh(v) => Fresh(v)'
    BY <1>1, <1>2, CallsStay DEF Fresh
  <2> QED
    BY <1>1, <1>2, <2>1 DEF RestInv, Does, NtpdDoes, SquidDoes, OpenvpnDoes, WireguardDoes,
       SuricataDoes, ConfiguredDoes, AliasesDoes, ShapingDoes, AccountingDoes, IpsecDoes, At,
       Seen, files
<1>5. Rested'
  BY <1>1 DEF Rested
<1> QED
  BY <1>1, <1>2, <1>3, <1>4, <1>5, CallsStay DEF RestInv

\* Where nothing has been called yet.
LEMMA BootRests ==
  ASSUME \A w \in Callers : job[w] = Idle, owed = Boot, last.rc = 1,
         svc \in {"ntpd", "squid", "openvpn"} => proc = {} /\ ~pid,
         svc \in {"ntpd", "squid"} => rules = {},
         svc = "squid" => conf = saved /\ ~red.up
  PROVE  RestInv
<1>1. \A w \in Callers : At(w, "idle")
  BY DEF At, Idle
<1>2. svc \in {"ntpd", "squid"} => Awaited(Full) /\ Awaited(How)
  <2> SUFFICES ASSUME svc \in {"ntpd", "squid"} PROVE Awaited(Full) /\ Awaited(How)
    OBVIOUS
  <2>1. "other" \in Callers /\ 1 \in DOMAIN Boot["other"] /\ Boot["other"][1] = "start"
    BY DEF Callers, Boot, AtBoot
  <2> QED
    BY <2>1 DEF Awaited, Full, How
<1>3. Rested
  BY <1>2 DEF Rested, Due
<1>4. \A w \in Callers : Does(w)
  BY <1>1, IdleDoes DEF At
<1>5. Kept
  BY DEF Kept
<1> QED
  BY <1>1, <1>3, <1>4, <1>5 DEF RestInv, OneCall

LEMMA RebootRest ==
  ASSUME Inv, RestInv, Reboot
  PROVE  RestInv'
<1>1. \A w \in Callers : job'[w] = Idle
  BY DEF Reboot
<1>2. /\ UNCHANGED <<svc, saved, conf>> /\ owed' = Boot /\ last'.rc = 1 /\ rules' = {}
      /\ red' = NoLink(red.ppp)
  BY DEF Reboot
<1>3. svc \in {"ntpd", "squid", "openvpn"} => proc' = {} /\ ~pid'
  BY DEF Reboot
<1>4. \A w \in Callers : At(w, "idle")'
  BY <1>1 DEF At, Idle
<1>5. svc \in {"ntpd", "squid"} => Awaited(Full)' /\ Awaited(How)'
  <2> SUFFICES ASSUME svc \in {"ntpd", "squid"} PROVE Awaited(Full)' /\ Awaited(How)'
    OBVIOUS
  <2>1. "other" \in Callers /\ 1 \in DOMAIN Boot["other"] /\ Boot["other"][1] = "start"
    BY DEF Callers, Boot, AtBoot
  <2> QED
    BY <1>2, <2>1 DEF Awaited, Full, How
<1>6. Rested'
  BY <1>2, <1>5 DEF Rested, Due
<1>7. \A w \in Callers : Does(w)'
  BY <1>4 DEF Does, NtpdDoes, SquidDoes, OpenvpnDoes, WireguardDoes, SuricataDoes,
     ConfiguredDoes, AliasesDoes, ShapingDoes, AccountingDoes, IpsecDoes, At
<1>8. Kept'
  BY <1>2, <1>3 DEF RestInv, Kept, NoLink
<1> QED
  BY <1>4, <1>6, <1>7, <1>8 DEF RestInv, OneCall

LEMMA RestNext ==
  ASSUME Inv, svc \in Alone => RestInv, [Next]_vars
  PROVE  (svc \in Alone => RestInv)'
<1>1. svc' = svc
  <2>1. Reboot => svc' = svc
    BY DEF Reboot
  <2>2. UNCHANGED vars => svc' = svc
    BY DEF vars, world
  <2>3. RedUp \/ RedDown \/ Crash => svc' = svc
    BY DEF RedUp, RedDown, Crash
  <2>4. \A w \in Callers :
          Begin(w) \/ Step(w) \/ Stop(w) \/ (\E s \in Settings : Save(w, s)) => svc' = svc
    BY DEF Begin, Step, Stop, Save, world
  <2> QED
    BY <2>1, <2>2, <2>3, <2>4 DEF Next
<1> SUFFICES ASSUME svc \in Alone PROVE RestInv'
  BY <1>1
<1>2. CASE UNCHANGED vars
  <2>1. UNCHANGED world /\ UNCHANGED kernel /\ UNCHANGED files /\ job' = job /\ last' = last
    BY <1>2 DEF vars
  <2>2. \A H : Awaited(H)' <=> Awaited(H)
    BY <2>1 DEF world, Awaited
  <2>3. Kept'
    BY <2>1 DEF RestInv, Kept, world, kernel, files
  <2>4. ASSUME NEW v \in Callers
        PROVE  Does(v)'
    <3>1. Fresh(v)' <=> Fresh(v)
      BY <2>1, <2>2, SameCalls DEF Fresh
    <3> QED
      BY <2>1, <2>2, <3>1, SameCalls DEF RestInv, Does, NtpdDoes, SquidDoes, OpenvpnDoes,
         WireguardDoes, SuricataDoes, ConfiguredDoes, AliasesDoes, ShapingDoes, AccountingDoes,
         IpsecDoes, At, Seen, kernel, files
  <2>5. (Settled' <=> Settled) /\ (Bypassed' <=> Bypassed)
    BY <2>1 DEF world, kernel, Settled, Matches, Runs, Redirects, Serves, Bypassed
  <2>6. Rested => Rested'
    BY <2>1, <2>2, <2>5, CallsStay DEF Rested, world, kernel
  <2> QED
    BY <2>1, <2>2, <2>3, <2>4, <2>6, CallsStay DEF RestInv, world
<1>3. CASE Next
  BY <1>3, BeginRest, StepRest, StopRest, SaveRest, RedUpRest, RedDownRest, CrashRest, RebootRest
     DEF Next
<1> QED
  BY <1>2, <1>3

\* Whatever is saved and whatever RED does while restarters run, each service
\* called one at a time, daemon, rules and settings agree once the last call
\* that was owed has returned success, the daemon did not die, and apart from
\* one that could not be started: it is missing, which the restarters return as
\* success, and what its chain holds is left over (restartntpd.c,
\* restartsquid.c, restartopenvpn.c, restartwireguard.c, restartsuricata.c,
\* restartssh.c, restartsyslogd.c, setaliases.c, restartshaping.c,
\* accountingctrl.c, ipsecctrl.c, and who calls them).
THEOREM ServicesMatch == Spec => []AtRest
<1>1. Init => RestInv
  <2> SUFFICES ASSUME Init PROVE RestInv
    OBVIOUS
  <2>1. \A w \in Callers : job[w] = Idle
    BY DEF Init
  <2>2. owed = Boot /\ last.rc = 1 /\ proc = {} /\ ~pid /\ rules = {} /\ conf = saved /\ ~red.up
    BY DEF Init, NoLink
  <2> QED
    BY <2>1, <2>2, BootRests
<1>2. Inv /\ (svc \in Alone => RestInv) /\ [Next]_vars => (svc \in Alone => RestInv)'
  BY RestNext
<1>3. (svc \in Alone => RestInv) => AtRest
  <2> SUFFICES ASSUME RestInv, Quiet, last.rc = 0, ~crashed PROVE Matches
    BY DEF AtRest
  <2>1. Resting /\ \A H : ~Due(H)
    BY DEF Quiet, Resting, Due, Awaited, At
  <2>2. Settled /\ (svc = "squid" => Bypassed)
    BY <2>1 DEF RestInv, Rested
  <2> QED
    BY <2>2 DEF Settled, Bypassed, Matches
<1> QED
  BY <1>1, <1>2, <1>3, Invariance, PTL DEF Spec

=============================================================================
