--------------------------- MODULE ServiceControl ---------------------------
(***************************************************************************)
(* The restarters: the setuid helpers that stop, configure and start one   *)
(* service each, called by the service's page, by rc.sysinit at boot and   *)
(* by rc.updatered when RED comes up or goes down.                         *)
(*                                                                         *)
(* A behaviour follows one service.  A restarter goes through its own      *)
(* steps, in its own order: it reads the settings, it reads the state of   *)
(* RED, it empties the rules, it stops and it starts the daemon.  Settings *)
(* are saved, RED changes and the machine goes down between any two steps. *)
(* The rules are those of the helper itself: a chain of netfilter, the     *)
(* queues of tc, the alias addresses of RED.                               *)
(***************************************************************************)
EXTENDS Integers, Sequences, FiniteSets

CONSTANTS
  Service,    \* the services considered
  Alone,      \* those whose restarters are called one at a time
  Crashes,    \* those whose daemon may die, leaving its pid file behind
  MaxSaves,   \* bound: settings saved
  MaxLinks,   \* bound: times RED comes up, each with an address of its own
  MaxFaults,  \* bound: daemons that die and restarts of the machine
  Torn        \* a configuration file of which only a part is written

Settings == [on: BOOLEAN, extra: BOOLEAN]
\* extra: the redirect of ntpd, the transparent mode of squid, the high
\* detail of accounting, the VALID mark of shaping; for the others it only
\* tells one configuration from another.

Callers == {"page", "other"}   \* one session of the page; boot, rc.updatered
                               \* or another session
How == {"restart", "start", "stop", "red", "none"}

ASSUME ServiceAssumption ==
  /\ Service \subseteq {"ntpd", "squid", "openvpn", "wireguard", "suricata", "sshd",
                        "rsyslogd", "aliases", "shaping", "accounting", "ipsec"}
  /\ Alone \subseteq Service /\ Crashes \subseteq Service
  /\ MaxSaves \in Nat /\ MaxLinks \in Nat /\ MaxFaults \in Nat
  /\ Torn \notin Settings

VARIABLES
  svc,      \* the service of this behaviour
  saved,    \* its settings file
  red,      \* RED: up (red/active), its address, is it a ppp device?
  proc,     \* the daemon: {} or {the configuration it runs with}
  pid,      \* the pid file; wireguard, suricata: in the default runlevel;
            \* ipsec: vpn-watch runs
  rules,    \* the rules in the kernel
  conf,     \* the daemon's configuration file
  new,      \* sshd_config.new, rsyslog.conf.new
  once,     \* /var/run/ntpdate-red
  owed,     \* the calls each caller still makes, oldest first
  job,      \* the restarter of each caller
  last,     \* the last call that ended and its exit code
  crashed,  \* the daemon died and was not started since
  failed,   \* a start failed, and the chain was not emptied since (ntpd, squid)
            \* or no other start succeeded since (the others)
  bounds    \* saves, links and faults so far

world == <<svc, saved, red, owed, bounds>>
kernel == <<proc, pid, rules, crashed, failed>>
files == <<conf, new, once>>
vars == <<world, kernel, files, job, last>>

Rule(what, to) == [what |-> what, to |-> to]
Rules == [what: {"redirect", "bypass", "alias", "classes", "GREEN", "RED"}, to: 0..MaxLinks]
Link == [up: BOOLEAN, addr: 0..MaxLinks, ppp: BOOLEAN]
Off == [on |-> FALSE, extra |-> FALSE]
NoLink(ppp) == [up |-> FALSE, addr |-> 0, ppp |-> ppp]
Idle == [at |-> "idle", how |-> "none", read |-> Off, saw |-> NoLink(FALSE)]

\* red/iface names a device: one of ethernet always, one of ppp while up.
Device(r) == r.up \/ ~r.ppp

\* Started by rc.sysinit and rc.net, and told by rc.updatered.
AtBoot == {"rsyslogd", "ntpd", "sshd", "squid", "openvpn", "accounting"}
HearsUp == {"ntpd", "squid", "ipsec", "shaping", "accounting", "aliases"}
HearsDown == {"aliases", "ipsec"}
Boot ==
  [w \in Callers |-> IF w = "other" /\ svc \in AtBoot THEN <<"start">> ELSE <<>>]

Init ==
  /\ svc \in Service
  /\ saved = Off /\ conf = Off
  /\ \E p \in BOOLEAN : red = NoLink(p)
  /\ proc = {} /\ pid = FALSE /\ rules = {} /\ crashed = FALSE /\ failed = FALSE
  /\ new = {} /\ once = TRUE
  /\ owed = Boot
  /\ job = [w \in Callers |-> Idle]
  /\ last = [how |-> "none", rc |-> 1]
  /\ bounds = [saves |-> 0, links |-> 0, faults |-> 0]

-----------------------------------------------------------------------------
(* What a restarter does with its own state.                               *)

At(w, s) == job[w].at = s
Go(w, s) == job' = [job EXCEPT ![w].at = s] /\ UNCHANGED last
Read(w, s) == job' = [job EXCEPT ![w].at = s, ![w].read = saved] /\ UNCHANGED last

\* read_ethernet_settings: red/active, red/local-ipaddress and red/iface.
See(w, s) == job' = [job EXCEPT ![w].at = s, ![w].saw = red] /\ UNCHANGED last

ExitNotIdle(w, rc) ==
  job' = [job EXCEPT ![w].at = "idle"] /\ last' = [how |-> job[w].how, rc |-> rc]
Exit(w, rc) == job' = [job EXCEPT ![w] = Idle] /\ last' = [how |-> job[w].how, rc |-> rc]

Stopped == proc' = {} /\ pid' = FALSE

\* A daemon is started, which may fail: only restartsyslogd looks at the result.
Chained == {"ntpd", "squid"}
Launched(C) ==
  \/ proc' = C /\ failed' = (failed /\ svc \in Chained)
  \/ proc' = {} /\ failed' = TRUE
Started(c) == Launched({c}) /\ pid' = (pid \/ proc' # {}) /\ crashed' = FALSE

(* restartntpd: with --red only once after boot.  A pid file whose process *)
(* is gone ends the call, with success, after the chain was emptied.       *)
(* Without a pid file the chain is not emptied.  The exit code is the wait *)
(* status of ntpd, of which exit() keeps the low byte: 0.                  *)
Ntpd(w) ==
  /\ svc = "ntpd"
  /\ UNCHANGED <<conf, new>>
  /\ \/ /\ At(w, "begin") /\ (job[w].how = "red" => once)
        /\ Read(w, "flush")
        /\ once' = (once /\ job[w].how # "red")
        /\ UNCHANGED kernel
     \/ /\ At(w, "begin") /\ job[w].how = "red" /\ ~once
        /\ Exit(w, 0)
        /\ UNCHANGED <<kernel, once>>
     \/ /\ At(w, "flush") /\ pid
        /\ rules' = {} /\ failed' = FALSE /\ Go(w, "kill")
        /\ UNCHANGED <<proc, pid, crashed, once>>
     \/ /\ At(w, "flush") /\ ~pid
        /\ Go(w, "up")
        /\ UNCHANGED <<kernel, once>>
     \/ /\ At(w, "kill") /\ proc = {}
        /\ Exit(w, 0)
        /\ UNCHANGED <<kernel, once>>
     \/ /\ At(w, "kill") /\ proc # {}
        /\ Stopped /\ Go(w, "up")
        /\ UNCHANGED <<rules, crashed, failed, once>>
     \/ /\ At(w, "up") /\ job[w].read.on
        /\ Started(job[w].read) /\ Go(w, "rules")
        /\ UNCHANGED <<rules, once>>
     \/ /\ At(w, "up") /\ ~job[w].read.on
        /\ Exit(w, 0)
        /\ UNCHANGED <<kernel, once>>
     \/ /\ At(w, "rules")
        /\ rules' = rules \cup {r \in {Rule("redirect", 0)} : job[w].read.extra}
        /\ Exit(w, 0)
        /\ UNCHANGED <<proc, pid, crashed, failed, once>>

(* restartsquid, with --test from rc.updatered.  A dead squid is dealt with *)
(* like one that does not stop within 15 seconds: killed, pid file removed. *)
(* Whether squid came up is not looked at before the chain is filled, and   *)
(* without a pid file the chain is not emptied.                             *)
SquidRules(w) ==
  IF job[w].read.extra
    THEN {Rule("redirect", 0)}
           \cup {r \in {Rule("bypass", job[w].saw.addr)} : job[w].saw.addr > 0}
    ELSE {}
SquidStopKeepsRules(w) ==
  /\ At(w, "begin") /\ pid
  /\ Stopped /\ Go(w, "read")
  /\ UNCHANGED <<rules, crashed, failed>>
SquidStop(w) ==
  \/ /\ At(w, "begin") /\ pid
     /\ Go(w, "flush")
     /\ UNCHANGED kernel
  \/ /\ At(w, "flush")
     /\ rules' = {} /\ failed' = FALSE /\ Go(w, "down")
     /\ UNCHANGED <<proc, pid, crashed>>
  \/ /\ At(w, "down")
     /\ Stopped /\ Go(w, "read")
     /\ UNCHANGED <<rules, crashed, failed>>

SquidRead(w) ==
  \/ /\ At(w, "read") /\ saved.on
     /\ Read(w, "net")
     /\ UNCHANGED kernel
  \/ /\ At(w, "read") /\ ~saved.on
     /\ Exit(w, 0) /\ crashed' = FALSE
     /\ UNCHANGED <<proc, pid, rules, failed>>
  \/ /\ At(w, "net")
     /\ See(w, "up")
     /\ UNCHANGED kernel

Squid(w) ==
  /\ svc = "squid"
  /\ UNCHANGED files
  /\ \/ /\ At(w, "begin") /\ ~pid
        /\ IF job[w].how = "red" THEN Exit(w, 0) ELSE Go(w, "read")
        /\ UNCHANGED kernel
     \/ SquidStop(w)
     \/ SquidRead(w)
     \/ /\ At(w, "up")
        /\ Started(conf) /\ Go(w, "rules")
        /\ UNCHANGED rules
     \/ /\ At(w, "rules")
        /\ rules' = rules \cup SquidRules(w)
        /\ Exit(w, 0)
        /\ UNCHANGED <<proc, pid, crashed, failed>>

(* restartopenvpn: every call stops the server, --stop does no more.       *)
Openvpn(w) ==
  /\ svc = "openvpn"
  /\ UNCHANGED <<files, rules>>
  /\ \/ /\ At(w, "begin") /\ pid /\ proc = {}
        /\ Exit(w, 0)
        /\ UNCHANGED <<proc, pid, crashed, failed>>
     \/ /\ At(w, "begin") /\ pid /\ proc # {}
        /\ Stopped /\ Go(w, "read")
        /\ UNCHANGED <<crashed, failed>>
     \/ /\ At(w, "begin") /\ ~pid
        /\ Go(w, "read")
        /\ UNCHANGED <<proc, pid, crashed, failed>>
     \/ /\ At(w, "read")
        /\ Read(w, "up")
        /\ UNCHANGED <<proc, pid, crashed, failed>>
     \/ /\ At(w, "up") /\ job[w].read.on /\ job[w].how # "stop"
        /\ Started(job[w].read) /\ Exit(w, 0)
     \/ /\ At(w, "up") /\ (~job[w].read.on \/ job[w].how = "stop")
        /\ Exit(w, 0)
        /\ UNCHANGED <<proc, pid, crashed, failed>>

(* restartwireguard: the settings decide about the runlevel, the option    *)
(* about the daemon.                                                       *)
Wireguard(w) ==
  /\ svc = "wireguard"
  /\ UNCHANGED <<files, rules, crashed>>
  /\ \/ /\ At(w, "begin")
        /\ Read(w, "act")
        /\ UNCHANGED <<proc, pid, failed>>
     \/ /\ At(w, "act") /\ ~job[w].read.on
        /\ Stopped /\ Exit(w, 0)
        /\ UNCHANGED failed
     \/ /\ At(w, "act") /\ job[w].read.on /\ job[w].how = "stop"
        /\ pid' = TRUE /\ proc' = {} /\ Exit(w, 0)
        /\ UNCHANGED failed
     \/ /\ At(w, "act") /\ job[w].read.on /\ job[w].how # "stop"
        /\ pid' = TRUE /\ Launched({job[w].read}) /\ Exit(w, 0)

(* restartsuricata: suricata.yaml is emptied when it is opened and written  *)
(* in place, before the restart.  Suricata refuses a part of it.  The rules *)
(* of the SURICATA chain are left out: no code creates that chain.          *)
Accepted(c) == {c} \ {Torn}
SuricataConf(w) ==
  \/ /\ At(w, "conf")
     /\ conf' = Torn /\ Go(w, "write")
  \/ /\ At(w, "write")
     /\ conf' = job[w].read /\ Go(w, "restart")

Suricata(w) ==
  /\ svc = "suricata"
  /\ UNCHANGED <<new, once, rules, crashed>>
  /\ \/ /\ At(w, "begin") /\ saved.on
        /\ Read(w, "conf")
        /\ UNCHANGED <<proc, pid, conf, failed>>
     \/ /\ At(w, "begin") /\ ~saved.on
        /\ Stopped /\ Exit(w, 0)
        /\ UNCHANGED <<conf, failed>>
     \/ SuricataConf(w) /\ UNCHANGED <<proc, pid, failed>>
     \/ /\ At(w, "restart")
        /\ pid' = TRUE /\ Launched(Accepted(conf)) /\ Exit(w, 0)
        /\ UNCHANGED conf

(* restartssh and restartsyslogd: sed writes the new configuration beside  *)
(* the old one, created with O_EXCL, and rename puts it in place.          *)
CreateOver(w) == new' = {Torn} /\ Go(w, "sed")
Create(w) ==
  \/ /\ new = {}
     /\ new' = {Torn} /\ Go(w, "sed")
  \/ /\ new # {}
     /\ Exit(w, 1) /\ UNCHANGED new

Configured(w) ==
  \/ /\ At(w, "begin")
     /\ Read(w, "create")
     /\ UNCHANGED <<conf, new>>
  \/ /\ At(w, "create")
     /\ Create(w)
     /\ UNCHANGED conf
  \/ /\ At(w, "sed")
     /\ new' = {job[w].read} /\ Go(w, "rename")
     /\ UNCHANGED conf
  \/ /\ At(w, "rename") /\ new # {}
     /\ conf' \in new /\ new' = {} /\ Go(w, "down")

\* A process that cannot be signalled keeps its pid file in restartssh; the
\* new daemon overwrites it.
Sshd(w) ==
  /\ svc = "sshd"
  /\ UNCHANGED <<rules, once>>
  /\ \/ Configured(w) /\ UNCHANGED <<proc, pid, crashed, failed>>
     \/ /\ At(w, "down")
        /\ proc' = {} /\ pid' = (pid /\ proc = {}) /\ Go(w, "up")
        /\ UNCHANGED <<conf, new, crashed, failed>>
     \/ /\ At(w, "up") /\ job[w].read.on
        /\ Started(conf) /\ Exit(w, 0)
        /\ UNCHANGED <<conf, new>>
     \/ /\ At(w, "up") /\ ~job[w].read.on
        /\ Exit(w, 0) /\ crashed' = FALSE
        /\ UNCHANGED <<conf, new, proc, pid, failed>>

Rsyslogd(w) ==
  /\ svc = "rsyslogd"
  /\ UNCHANGED <<rules, once>>
  /\ \/ Configured(w) /\ UNCHANGED <<proc, pid, crashed, failed>>
     \/ /\ At(w, "down")
        /\ Stopped /\ Go(w, "up")
        /\ UNCHANGED <<conf, new, crashed, failed>>
     \/ /\ At(w, "up")
        /\ Started(conf) /\ Exit(w, IF proc' = {} THEN 1 ELSE 0)
        /\ UNCHANGED <<conf, new>>

(* setaliases: empties first, so that RED down leaves none.                *)
FlushIfUp(w) ==
  IF job[w].saw.up THEN rules' = {} /\ Go(w, "add") ELSE Exit(w, 0) /\ UNCHANGED rules
Flush(w) == rules' = {} /\ IF job[w].saw.up THEN Go(w, "add") ELSE Exit(w, 0)

Aliases(w) ==
  /\ svc = "aliases"
  /\ UNCHANGED <<files, proc, pid, crashed, failed>>
  /\ \/ /\ At(w, "begin")
        /\ See(w, "flush")
        /\ UNCHANGED rules
     \/ At(w, "flush") /\ Flush(w)
     \/ /\ At(w, "add")
        /\ rules' = {r \in {Rule("alias", 0)} : saved.on /\ Device(red)}
        /\ Exit(w, 0)

(* restartshaping: nothing is touched as long as the settings are not VALID *)
(* or RED has no device.                                                   *)
Shaping(w) ==
  /\ svc = "shaping"
  /\ UNCHANGED <<files, proc, pid, crashed, failed>>
  /\ \/ /\ At(w, "begin")
        /\ IF saved.extra THEN Read(w, "net") ELSE Exit(w, 0)
        /\ UNCHANGED rules
     \/ /\ At(w, "net")
        /\ IF Device(red) THEN See(w, "del") ELSE Exit(w, 1)
        /\ UNCHANGED rules
     \/ /\ At(w, "del")
        /\ rules' = {}
        /\ IF job[w].read.on THEN Go(w, "add") ELSE Exit(w, 0)
     \/ /\ At(w, "add")
        /\ rules' = {r \in {Rule("classes", 0)} : Device(red)}
        /\ Exit(w, 0)

(* accountingctrl: ulogd for the high detail, vnstatd for the low one.     *)
Accounting(w) ==
  /\ svc = "accounting"
  /\ UNCHANGED <<files, pid, crashed>>
  /\ \/ /\ At(w, "begin")
        /\ Read(w, "flush")
        /\ UNCHANGED <<proc, failed, rules>>
     \/ /\ At(w, "flush")
        /\ rules' = {} /\ Go(w, IF job[w].read.on THEN "net" ELSE "daemons")
        /\ UNCHANGED <<proc, failed>>
     \/ /\ At(w, "net")
        /\ See(w, "add")
        /\ UNCHANGED <<proc, failed, rules>>
     \/ /\ At(w, "add")
        /\ rules' = {Rule(c, 0) : c \in {d \in {"GREEN", "RED"} :
             job[w].read.extra /\ (d = "RED" => job[w].saw.up)}}
        /\ Go(w, "daemons")
        /\ UNCHANGED <<proc, failed>>
     \/ /\ At(w, "daemons")
        /\ IF job[w].read.on /\ proc # {job[w].read}
           THEN Launched({job[w].read})
           ELSE proc' = {s \in {job[w].read} : s.on} /\ UNCHANGED failed
        /\ Exit(w, 0)
        /\ UNCHANGED rules

(* ipsecctrl without a key: "red" is --start --wait, which sleeps for      *)
(* VPN_DELAYED_START before it restarts pluto.                             *)
Ipsec(w) ==
  /\ svc = "ipsec"
  /\ UNCHANGED <<files, rules, crashed>>
  /\ \/ /\ At(w, "begin") /\ job[w].how = "stop"
        /\ Stopped /\ Exit(w, 0)
        /\ UNCHANGED failed
     \/ /\ At(w, "begin") /\ job[w].how # "stop"
        /\ pid' = FALSE /\ See(w, "read")
        /\ UNCHANGED <<proc, failed>>
     \/ /\ At(w, "read") /\ saved.on /\ Device(job[w].saw)
        /\ Read(w, "up")
        /\ UNCHANGED <<proc, pid, failed>>
     \/ /\ At(w, "read") /\ saved.on /\ ~Device(job[w].saw)
        /\ Exit(w, 0)
        /\ UNCHANGED <<proc, pid, failed>>
     \/ /\ At(w, "read") /\ ~saved.on
        /\ Stopped /\ Exit(w, 0)
        /\ UNCHANGED failed
     \/ /\ At(w, "up")
        /\ Launched({job[w].read}) /\ pid' = TRUE /\ Exit(w, 0)

Step(w) ==
  /\ UNCHANGED world
  /\ \/ Ntpd(w) \/ Squid(w) \/ Openvpn(w) \/ Wireguard(w) \/ Suricata(w)
     \/ Sshd(w) \/ Rsyslogd(w) \/ Aliases(w) \/ Shaping(w) \/ Accounting(w)
     \/ Ipsec(w)

-----------------------------------------------------------------------------
(* What happens around the restarters.                                     *)

Count(b) == bounds' = [bounds EXCEPT ![b] = @ + 1]
Owe(w, h) == owed' = [owed EXCEPT ![w] = Append(@, h)]

\* The oldest call of a caller is made.
Begin(w) ==
  /\ At(w, "idle") /\ owed[w] # <<>>
  /\ svc \in Alone => \A v \in Callers : At(v, "idle")
  /\ owed' = [owed EXCEPT ![w] = Tail(@)]
  /\ job' = [job EXCEPT ![w] = [Idle EXCEPT !.at = "begin", !.how = Head(owed[w])]]
  /\ UNCHANGED <<svc, saved, red, bounds, kernel, files, last>>

\* A page saves the settings, then calls the restarter with the option that
\* fits them.  proxy.cgi has squid.conf written in between, shaping.cgi
\* calls nothing for settings that are not valid.
Called(s) ==
  CASE svc = "wireguard" -> <<IF s.on THEN "restart" ELSE "stop">>
    [] svc = "ipsec" -> <<IF s.on THEN "start" ELSE "stop">>
    [] svc = "shaping" /\ ~s.extra -> <<>>
    [] OTHER -> <<"restart">>
Save(w, s) ==
  /\ bounds.saves < MaxSaves /\ Count("saves")
  /\ saved' = s
  /\ owed' = [owed EXCEPT ![w] = @ \o Called(s)]
  /\ conf' = IF svc = "squid" THEN s ELSE conf
  /\ UNCHANGED <<svc, red, kernel, new, once, job, last>>

\* openvpn.cgi and the scheduler stop the server without a change of the
\* settings.
Stop(w) ==
  /\ svc = "openvpn"
  /\ bounds.saves < MaxSaves /\ Count("saves")
  /\ Owe(w, "stop")
  /\ UNCHANGED <<svc, saved, red, kernel, files, job, last>>

RedUp ==
  /\ ~red.up
  /\ bounds.links < MaxLinks /\ Count("links")
  /\ red' = [red EXCEPT !.up = TRUE, !.addr = bounds.links + 1]
  /\ IF svc \in HearsUp THEN Owe("other", "red") ELSE UNCHANGED owed
  /\ UNCHANGED <<svc, saved, kernel, files, job, last>>

\* What hangs on a ppp device goes with it.
RedDown ==
  /\ red.up
  /\ red' = [red EXCEPT !.up = FALSE]
  /\ IF svc \in HearsDown THEN Owe("other", "stop") ELSE UNCHANGED owed
  /\ rules' = IF red.ppp /\ svc \in {"aliases", "shaping"} THEN {} ELSE rules
  /\ UNCHANGED <<svc, saved, proc, pid, crashed, failed, files, job, last, bounds>>

Crash ==
  /\ svc \in Crashes /\ proc # {}
  /\ bounds.faults < MaxFaults /\ Count("faults")
  /\ proc' = {} /\ crashed' = TRUE
  /\ UNCHANGED <<svc, saved, red, owed, pid, rules, failed, files, job, last>>

\* The machine goes down and comes up: what is on disk stays, the services
\* in the runlevel start.
Reboot ==
  /\ bounds.faults < MaxFaults /\ Count("faults")
  /\ red' = NoLink(red.ppp)
  /\ rules' = {} /\ crashed' = FALSE
  /\ pid' = (pid /\ svc \in {"wireguard", "suricata"})
  /\ CASE pid /\ svc = "wireguard" -> Launched({saved})
       [] pid /\ svc = "suricata" -> Launched(Accepted(conf))
       [] OTHER -> proc' = {} /\ failed' = FALSE
  /\ once' = TRUE
  /\ owed' = Boot /\ job' = [w \in Callers |-> Idle]
  /\ last' = [how |-> "none", rc |-> 1]
  /\ UNCHANGED <<svc, saved, conf, new>>

Next ==
  \/ \E w \in Callers : Begin(w) \/ Step(w) \/ Stop(w) \/ \E s \in Settings : Save(w, s)
  \/ RedUp \/ RedDown \/ Crash \/ Reboot

Spec == Init /\ [][Next]_vars

-----------------------------------------------------------------------------
Steps == {"begin", "flush", "kill", "up", "rules", "down", "read", "net", "act", "conf",
          "write", "restart", "create", "sed", "rename", "add", "del", "daemons"}
Job == [at: Steps \cup {"idle"}, how: How, read: Settings, saw: Link]

TypeOK ==
  /\ svc \in Service /\ saved \in Settings /\ red \in Link
  /\ proc \subseteq Settings /\ Cardinality(proc) <= 1
  /\ pid \in BOOLEAN /\ once \in BOOLEAN /\ crashed \in BOOLEAN /\ failed \in BOOLEAN
  /\ rules \subseteq Rules
  /\ conf \in Settings \cup {Torn}
  /\ new \subseteq Settings \cup {Torn} /\ Cardinality(new) <= 1
  /\ owed \in [Callers -> Seq(How)]
  /\ job \in [Callers -> Job]
  /\ \A w \in Callers : At(w, "idle") => job[w] = Idle
  /\ last \in [how: How, rc: {0, 1}]
  /\ bounds \in [saves: 0..MaxSaves, links: 0..MaxLinks, faults: 0..MaxFaults]

Quiet == \A w \in Callers : At(w, "idle") /\ owed[w] = <<>>

\* The daemon runs with the settings, or does not as they say; a start that
\* failed excuses its absence only.
Runs(b) == proc = {s \in {saved} : b} \/ (failed /\ proc = {})
Serves(what, b) == rules = {r \in {Rule(what, 0)} : b}
Redirects == IF saved.on /\ saved.extra THEN Rule("redirect", 0) \in rules
             ELSE failed \/ Rule("redirect", 0) \notin rules
Matches ==
  /\ svc = "ntpd" => ((failed /\ proc = {}) \/ (proc # {} <=> saved.on)) /\ Redirects
  /\ svc = "squid" =>
       /\ Runs(saved.on) /\ Redirects
       /\ red.up /\ saved.on /\ saved.extra /\ ~failed =>
            {r \in rules : r.what = "bypass"} = {Rule("bypass", red.addr)}
  /\ svc \in {"openvpn", "wireguard"} => Runs(saved.on /\ last.how # "stop")
  /\ svc = "suricata" => Runs(saved.on)
  /\ svc \in {"wireguard", "suricata"} => pid = saved.on
  /\ svc = "sshd" => Runs(saved.on)
  /\ svc = "rsyslogd" => Runs(TRUE)
  /\ svc = "aliases" => Serves("alias", saved.on /\ red.up)
  /\ svc = "shaping" /\ saved.extra /\ red.up => Serves("classes", saved.on)
  /\ svc = "accounting" =>
       /\ Runs(saved.on)
       /\ Rule("GREEN", 0) \in rules <=> saved.on /\ saved.extra
       /\ red.up => (Rule("RED", 0) \in rules <=> saved.on /\ saved.extra)
  /\ svc = "ipsec" /\ last.how # "stop" /\ red.up => Runs(saved.on) /\ pid = saved.on

\* Whatever is saved and whatever RED does while the restarters run, once
\* the last call that was owed has returned success the daemon runs with the
\* settings on disk, or not at all if they say so or if it could not be
\* started, which the restarters report as success; and the rules are those of
\* these settings and of the RED of now.  Only what a failed start of ntpd or
\* squid has left in their chains may stay there (restartsquid.c:273-410,
\* restartntpd.c:118-209).
AtRest == svc \in Alone /\ Quiet /\ last.rc = 0 /\ ~crashed => Matches

\* Clients are never redirected to a daemon that the restarter has stopped or
\* not started yet: the chain is emptied before the stop and filled after
\* the start.  Excepted are a daemon that died and one that could not be
\* started: the chain is filled for it all the same.
RedirectServed ==
  Rule("redirect", 0) \in rules /\ ~crashed /\ ~failed => proc # {}

\* sshd_config and rsyslog.conf are whole at all times, whoever else runs
\* the restarter and wherever the machine goes down in it.
ConfWhole == svc \in {"sshd", "rsyslogd"} => conf # Torn
=============================================================================
