------------------------------ MODULE RedDial ------------------------------
(***************************************************************************)
(* The dialled RED link (PPPoE, or PPPoA over a USB/PCI modem, with an     *)
(* automatic RECONNECTION mode): the one-shot scripts that share the flag  *)
(* files of /var/ipcop/red and nothing else.                               *)
(*                                                                         *)
(*   rc.red start | stop | clear   run by rc-service ipcop-red (process    *)
(*                                 svc), by rc.net --startred at boot      *)
(*                                 (net) and by every connection checker   *)
(*   rc.connectioncheck start      one process per successful rc.red start *)
(*   pppd, its ip-up / ip-down scripts and the rc.updatered they run       *)
(*                                 outside the repository: external        *)
(*                                                                         *)
(* Each action is one stretch of a script between two points where another *)
(* process can see or change a file.  Several instances of each script may *)
(* run at once: nothing in the code takes a lock.                          *)
(***************************************************************************)
EXTENDS Integers

CONSTANTS
    Svc, Net,       \* the rc-service process; the boot time rc.net process
    Checkers,       \* instances of rc.connectioncheck (bound: those alive at once)
    Pppds,          \* instances of pppd (bound: those alive at once)
    NoPid,          \* /var/run/ppp-ipcop.pid does not exist
    Profiles,       \* the dial profiles /var/ipcop/ppp/settings-N
    NoProfile,      \* BACKUPPROFILE is 0 or unset
    Backup,         \* the BACKUPPROFILE setting of each profile
    MaxRetries,     \* the MAXRETRIES setting
    AutoConnect,    \* the AUTOCONNECT setting
    Faults,         \* what the environment may do, see FaultKinds
    MaxRequests     \* bound: connect and disconnect requests of one behaviour

FaultKinds ==
    { "power",      \* a power loss and a boot from the files left on disk
      "sync",       \* rc.red start fails before it starts pppd
      "brief",      \* pppd ends before the connection checker has seen it
      "deaf",       \* the provider never answers
      "hangup",     \* an established link is lost
      "slow",       \* rc.updatered outlasts the HOLDOFF seconds
      "hasty" }     \* a connect request before the last connection has wound up

Procs == {Svc, Net} \cup Checkers

ASSUME Parameters ==
    /\ MaxRetries \in Nat \ {0}
    /\ MaxRequests \in Nat
    /\ AutoConnect \in BOOLEAN
    /\ Backup \in [Profiles -> Profiles \cup {NoProfile}]
    /\ NoProfile \notin Profiles
    /\ Faults \subseteq FaultKinds
    /\ Svc # Net /\ Svc \notin Checkers /\ Net \notin Checkers
    /\ NoPid \notin Pppds

VARIABLES
    files,          \* the flag files of /var/ipcop/red that exist
    attempts,       \* the number in keepconnected, when that file exists
    profile,        \* the profile /var/ipcop/ppp/settings is a link to
    pc,             \* where each script is
    cc,             \* the variables of each connection checker
    ppp,            \* the state of each pppd
    script,         \* the ip-up / ip-down script of each pppd, if one runs
    pidfile,        \* the pppd named in /var/run/ppp-ipcop.pid
    started,        \* OpenRC's view of the service ipcop-red
    wanted,         \* history: the last request was a connect
    final,          \* history: it was a Disconnect that no script was committed to undo
    requests        \* history: the requests so far

vars == <<files, attempts, profile, pc, cc, ppp, script, pidfile,
          started, wanted, final, requests>>

Flags == {"active", "connecting", "disconnecting", "keepconnected", "redial"}

Starting == {"check", "mark", "dial"}           \* inside rc.red start
Stopping == {"drop", "keep", "kill"}            \* inside rc.red stop
Checking == {"begin", "sync", "watch", "ok", "abort", "redial", "wait",
             "count", "backup", "holdoff"}      \* rc.connectioncheck itself
Labels   == {"off", "boot", "service", "clear"} \cup Starting \cup Stopping \cup Checking

Local == [att: 0 .. MaxRetries,     \* $attempts
          prof: Profiles \cup {NoProfile},     \* where %pppsettings was read
          late: BOOLEAN,            \* $timetostart
          nosync: BOOLEAN]          \* in the branch of lines 61-67

Blank == [att |-> 0, prof |-> NoProfile, late |-> FALSE, nosync |-> FALSE]

TypeOK ==
    /\ files \subseteq Flags
    /\ attempts \in 0 .. MaxRetries - 1
    /\ profile \in Profiles
    /\ pc \in [Procs -> Labels]
    /\ cc \in [Checkers -> Local]
    /\ ppp \in [Pppds -> {"off", "dial", "up", "closing", "ending"}]
    /\ script \in [Pppds -> {"none", "up", "down"}]
    /\ pidfile \in Pppds \cup {NoPid}
    /\ started \in BOOLEAN
    /\ wanted \in BOOLEAN
    /\ final \in BOOLEAN
    /\ requests \in 0 .. MaxRequests

Keep     == "keepconnected" \in files
PppdRuns == \E q \in Pppds : ppp[q] # "off"
Updating == \E q \in Pppds : script[q] # "none"

Idle(p)     == pc[p] = "off"

\* Nothing of an earlier connection runs any more.
WoundUp == ~PppdRuns /\ ~Updating /\ \A c \in Checkers : Idle(c)

Goto(p, l)  == pc' = [pc EXCEPT ![p] = l]

\* Script p goes on at l; a checker that goes off takes its variables along.
GoOrEnd(p, l) ==
    /\ Goto(p, l)
    /\ cc' = [c \in Checkers |-> IF c = p /\ l = "off" THEN Blank ELSE cc[c]]

\* An unconfigured machine that has just been switched on.
Init ==
    /\ files = {}
    /\ attempts = 0
    /\ profile \in Profiles
    /\ pc = [p \in Procs |-> IF p = Net THEN "boot" ELSE "off"]
    /\ cc = [c \in Checkers |-> Blank]
    /\ ppp = [q \in Pppds |-> "off"]
    /\ script = [q \in Pppds |-> "none"]
    /\ pidfile = NoPid
    /\ started = FALSE
    /\ wanted = TRUE
    /\ final = FALSE
    /\ requests = 0

-----------------------------------------------------------------------------
(* rc.red start *)

\* rc.red start returns to its caller: rc-service notes how it went, a
\* checker and rc.net have nothing more to do.
StartReturns(p, ok) ==
    /\ GoOrEnd(p, "off")
    /\ started' = IF p = Svc THEN ok ELSE started

\* The guards: the link is up, pppd is there, or an rc.updatered still runs.
StartCheck(p) ==
    /\ pc[p] = "check"
    /\ IF "active" \in files \/ pidfile # NoPid \/ Updating
       THEN StartReturns(p, FALSE)
       ELSE Goto(p, "mark") /\ UNCHANGED <<cc, started>>
    /\ UNCHANGED <<files, attempts, profile, ppp, script, pidfile, wanted, final, requests>>

\* Mark the link connecting and put a connection checker in the background.
StartMark(p) ==
    /\ pc[p] = "mark"
    /\ files' = (files \cup {"connecting"}) \ {"disconnecting"}
    /\ \E c \in Checkers :
          /\ Idle(c)
          /\ pc' = [pc EXCEPT ![p] = "dial", ![c] = "begin"]
    /\ UNCHANGED <<attempts, profile, cc, ppp, script, pidfile, started, wanted, final, requests>>

\* myexit(1): the profile is not valid, or the modem driver or the
\* synchronisation fails.
StartFails(p) ==
    /\ pc[p] = "dial"
    /\ "sync" \in Faults
    /\ files' = files \ {"connecting", "disconnecting"}
    /\ StartReturns(p, FALSE)
    /\ UNCHANGED <<attempts, profile, ppp, script, pidfile, wanted, final, requests>>

\* pppd is started and detaches itself; it writes the pid file.
StartDials(p) ==
    /\ pc[p] = "dial"
    /\ \E q \in Pppds :
          /\ ppp[q] = "off" /\ script[q] = "none"
          /\ ppp' = [ppp EXCEPT ![q] = "dial"]
          /\ pidfile' = q
    /\ StartReturns(p, TRUE)
    /\ UNCHANGED <<files, attempts, profile, script, wanted, final, requests>>

-----------------------------------------------------------------------------
(* rc.red stop and rc.red clear *)

\* The files that say what the link is doing go first.
StopDrop(p) ==
    /\ pc[p] = "drop"
    /\ files' = (files \ {"active", "connecting"})
                   \cup (IF "active" \in files THEN {"disconnecting"} ELSE {})
    /\ Goto(p, "keep")
    /\ UNCHANGED <<attempts, profile, cc, ppp, script, pidfile, started, wanted, final, requests>>

\* A script at one of these places creates keepconnected, has the user's stop
\* keep it, or dials without looking at keepconnected again: a start, the
\* boot, a checker that is about to write keepconnected, and a checker in its own
\* stop, with the redial file there or, without it, about to start again.
Committed(p) ==
    \/ pc[p] \in Starting \cup {"begin", "ok", "count", "boot", "service"}
    \/ p \in Checkers /\ pc[p] \in Stopping
    \/ p \in Checkers /\ cc[p].nosync /\ pc[p] = "clear"

\* keepconnected goes, unless the redial file announces a transitional stop.
\* In the stop of a Disconnect, note whether a script is committed to undo it.
StopKeep(p) ==
    /\ pc[p] = "keep"
    /\ files' = IF "redial" \in files THEN files ELSE files \ {"keepconnected"}
    /\ Goto(p, "kill")
    /\ final' = IF p = Svc THEN \A r \in Procs : ~Committed(r) ELSE final
    /\ UNCHANGED <<attempts, profile, cc, ppp, script, pidfile, started, wanted, requests>>

StopReturns(p) ==
    /\ Goto(p, IF p = Svc THEN "off" ELSE IF cc[p].nosync THEN "clear" ELSE "wait")
    /\ started' = (started /\ p # Svc)

\* Mutant: the redial file is left behind.
StopKillLeavesRedial(p) ==
    /\ pc[p] = "kill"
    /\ ppp' = [q \in Pppds |->
                 CASE q = pidfile /\ ppp[q] = "dial" -> "ending"
                   [] q = pidfile /\ ppp[q] = "up" -> "closing"
                   [] OTHER -> ppp[q]]
    /\ StopReturns(p)
    /\ UNCHANGED <<files, attempts, profile, cc, script, pidfile, wanted, final, requests>>

\* The redial file goes and SIGTERM is sent to the pppd of the pid file.
StopKill(p) ==
    /\ pc[p] = "kill"
    /\ files' = files \ {"redial"}
    /\ ppp' = [q \in Pppds |->
                 CASE q = pidfile /\ ppp[q] = "dial" -> "ending"
                   [] q = pidfile /\ ppp[q] = "up" -> "closing"
                   [] OTHER -> ppp[q]]
    /\ StopReturns(p)
    /\ UNCHANGED <<attempts, profile, cc, script, pidfile, wanted, final, requests>>

\* rc.red clear, run by a checker.
Clear(c) ==
    /\ pc[c] = "clear"
    /\ files' = files \ {"active", "connecting", "disconnecting"}
    /\ Goto(c, IF cc[c].nosync THEN "check" ELSE "backup")
    /\ UNCHANGED <<attempts, profile, cc, ppp, script, pidfile, started, wanted, final, requests>>

-----------------------------------------------------------------------------
(* rc.connectioncheck start *)

\* The checker reads the settings and the attempts made so far, or creates
\* keepconnected.
CheckerBegins(c) ==
    /\ pc[c] = "begin"
    /\ files' = files \cup {"keepconnected"}
    /\ attempts' = IF Keep THEN attempts ELSE 0
    /\ cc' = [cc EXCEPT ![c] = [att |-> attempts', prof |-> profile,
                                late |-> FALSE, nosync |-> FALSE]]
    /\ Goto(c, "sync")
    /\ UNCHANGED <<profile, ppp, script, pidfile, started, wanted, final, requests>>

\* Mutant: the checker does not wait for the end of rc.red start.
SyncTurnImpatient(c) ==
    /\ pc[c] = "sync"
    /\ \/ PppdRuns /\ GoOrEnd(c, "watch")
       \/ ~PppdRuns /\ ~Keep /\ GoOrEnd(c, "off")
       \/ /\ ~PppdRuns /\ Keep
          /\ Goto(c, "drop")
          /\ cc' = [cc EXCEPT ![c].nosync = TRUE]
    /\ UNCHANGED <<files, attempts, profile, ppp, script, pidfile,
                   started, wanted, final, requests>>

\* Mutant: the checker waits for pppd for ever.
SyncTurnPatient(c) ==
    /\ pc[c] = "sync"
    /\ \/ PppdRuns /\ GoOrEnd(c, "watch")
       \/ ~PppdRuns /\ ~Keep /\ GoOrEnd(c, "off")
    /\ UNCHANGED <<files, attempts, profile, ppp, script, pidfile,
                   started, wanted, final, requests>>

\* One turn of the loop that waits for pppd: stop when the user has pressed
\* disconnect, start over once rc.red start was seen to have ended a turn ago.
SyncTurn(c) ==
    /\ pc[c] = "sync"
    /\ \/ PppdRuns /\ GoOrEnd(c, "watch")
       \/ ~PppdRuns /\ ~Keep /\ GoOrEnd(c, "off")
       \/ /\ ~PppdRuns /\ Keep
          /\ IF cc[c].late
             THEN Goto(c, "drop") /\ cc' = [cc EXCEPT ![c].nosync = TRUE]
             ELSE /\ \A p \in Procs : pc[p] \notin Starting
                  /\ cc' = [cc EXCEPT ![c].late = TRUE]
                  /\ UNCHANGED pc
    /\ UNCHANGED <<files, attempts, profile, ppp, script, pidfile,
                   started, wanted, final, requests>>

\* The loop that waits MAXCONFIGURE seconds for an address: the user has
\* pressed disconnect, the link is active, or the time is up (at once when
\* pppd is gone).
WatchTurn(c) ==
    /\ pc[c] = "watch"
    /\ GoOrEnd(c, IF ~Keep THEN "off" ELSE IF "active" \in files THEN "ok" ELSE "abort")
    /\ UNCHANGED <<files, attempts, profile, ppp, script, pidfile,
                   started, wanted, final, requests>>

\* Connected in time: the attempts are written back to 0.
CheckerSucceeds(c) ==
    /\ pc[c] = "ok"
    /\ files' = files \cup {"keepconnected"}
    /\ attempts' = 0
    /\ GoOrEnd(c, "off")
    /\ UNCHANGED <<profile, ppp, script, pidfile, started, wanted, final, requests>>

\* An rc.red start that still runs is killed; ps pads its column of process
\* ids, so the kill may also be given none.
CheckerAborts(c) ==
    /\ pc[c] = "abort"
    /\ \/ /\ Goto(c, "redial")
          /\ UNCHANGED <<cc, started>>
       \/ \E p \in Procs :
             /\ pc[p] \in Starting
             /\ pc' = [pc EXCEPT ![c] = "redial", ![p] = "off"]
             /\ started' = (started /\ p # Svc)
             /\ cc' = [d \in Checkers |-> IF d = p THEN Blank ELSE cc[d]]
    /\ UNCHANGED <<files, attempts, profile, ppp, script, pidfile, wanted, final, requests>>

\* Announce a transitional stop, which keeps keepconnected, and begin it.
CheckerRedials(c) ==
    /\ pc[c] = "redial"
    /\ files' = files \cup {"redial"}
    /\ Goto(c, "drop")
    /\ UNCHANGED <<attempts, profile, cc, ppp, script, pidfile, started, wanted, final, requests>>

\* Wait until no pppd runs; then see whether the user has pressed disconnect.
CheckerWaits(c) ==
    /\ pc[c] = "wait"
    /\ ~PppdRuns
    /\ GoOrEnd(c, IF Keep THEN "count" ELSE "off")
    /\ UNCHANGED <<files, attempts, profile, ppp, script, pidfile,
                   started, wanted, final, requests>>

\* Mutant: the attempts are not written back to 0.
CheckerCountsOn(c) ==
    /\ pc[c] = "count"
    /\ LET n == cc[c].att + 1 IN
          /\ cc' = [cc EXCEPT ![c].att = n]
          /\ attempts' = n
          /\ Goto(c, IF n >= MaxRetries THEN "clear" ELSE "holdoff")
    /\ files' = files \cup {"keepconnected"}
    /\ UNCHANGED <<profile, ppp, script, pidfile, started, wanted, final, requests>>

\* Count the failed attempt in keepconnected; after MAXRETRIES of them start
\* again from 0 and clear the interface.
CheckerCounts(c) ==
    /\ pc[c] = "count"
    /\ LET n == cc[c].att + 1 IN
          /\ cc' = [cc EXCEPT ![c].att = n]
          /\ attempts' = IF n >= MaxRetries THEN 0 ELSE n
          /\ Goto(c, IF n >= MaxRetries THEN "clear" ELSE "holdoff")
    /\ files' = files \cup {"keepconnected"}
    /\ UNCHANGED <<profile, ppp, script, pidfile, started, wanted, final, requests>>

\* Mutant: without a backup profile the same profile is tried again.
CheckerBackupInsists(c) ==
    /\ pc[c] = "backup"
    /\ LET next == Backup[cc[c].prof] IN
          profile' = IF next = NoProfile THEN profile ELSE next
    /\ Goto(c, "holdoff")
    /\ UNCHANGED <<files, attempts, cc, ppp, script, pidfile, started, wanted, final, requests>>

\* Select the backup profile of the profile that was tried, or give up.
CheckerBackup(c) ==
    /\ pc[c] = "backup"
    /\ LET next == Backup[cc[c].prof] IN
          /\ profile' = IF next = NoProfile THEN profile ELSE next
          /\ GoOrEnd(c, IF next = NoProfile THEN "off" ELSE "holdoff")
    /\ UNCHANGED <<files, attempts, ppp, script, pidfile, started, wanted, final, requests>>

\* Mutant: keepconnected is not looked at after the holdoff.
CheckerHoldoffBlind(c) ==
    /\ pc[c] = "holdoff"
    /\ Goto(c, "check")
    /\ UNCHANGED <<files, attempts, profile, cc, ppp, script, pidfile,
                   started, wanted, final, requests>>

\* After HOLDOFF seconds dial again, unless the user has pressed disconnect.
CheckerHoldoff(c) ==
    /\ pc[c] = "holdoff"
    /\ Keep /\ "slow" \notin Faults => ~Updating
    /\ GoOrEnd(c, IF Keep THEN "check" ELSE "off")
    /\ UNCHANGED <<files, attempts, profile, ppp, script, pidfile,
                   started, wanted, final, requests>>

-----------------------------------------------------------------------------
(* pppd and its scripts (external) *)

\* The link comes up: ip-up touches the active file and runs rc.updatered up.
PppUp(q) ==
    /\ ppp[q] = "dial" /\ script[q] = "none"
    /\ "deaf" \notin Faults
    /\ ppp' = [ppp EXCEPT ![q] = "up"]
    /\ script' = [script EXCEPT ![q] = "up"]
    /\ files' = files \cup {"active"}
    /\ UNCHANGED <<attempts, profile, pc, cc, pidfile, started, wanted, final, requests>>

\* No answer, no authentication: pppd gives up.
PppFails(q) ==
    /\ ppp[q] = "dial"
    /\ "brief" \in Faults \/ \A c \in Checkers : pc[c] \notin {"begin", "sync"}
    /\ ppp' = [ppp EXCEPT ![q] = "ending"]
    /\ UNCHANGED <<files, attempts, profile, pc, cc, script, pidfile,
                   started, wanted, final, requests>>

PppHangup(q) ==
    /\ ppp[q] = "up"
    /\ "hangup" \in Faults
    /\ ppp' = [ppp EXCEPT ![q] = "closing"]
    /\ UNCHANGED <<files, attempts, profile, pc, cc, script, pidfile,
                   started, wanted, final, requests>>

\* ip-down follows ip-up: it removes the active file and runs rc.updatered down.
PppDown(q) ==
    /\ ppp[q] = "closing" /\ script[q] = "none"
    /\ ppp' = [ppp EXCEPT ![q] = "ending"]
    /\ script' = [script EXCEPT ![q] = "down"]
    /\ files' = files \ {"active"}
    /\ UNCHANGED <<attempts, profile, pc, cc, pidfile, started, wanted, final, requests>>

PppExits(q) ==
    /\ ppp[q] = "ending"
    /\ ppp' = [ppp EXCEPT ![q] = "off"]
    /\ pidfile' = NoPid
    /\ UNCHANGED <<files, attempts, profile, pc, cc, script, started, wanted, final, requests>>

\* The last lines of rc.updatered.
UpdateredEnds(q) ==
    /\ script[q] # "none"
    /\ script' = [script EXCEPT ![q] = "none"]
    /\ files' = files \ {"connecting", "disconnecting"}
    /\ UNCHANGED <<attempts, profile, pc, cc, ppp, pidfile, started, wanted, final, requests>>

-----------------------------------------------------------------------------
(* The service, the user and the machine *)

\* Connect in the GUI or a scheduled dial: rc-service ipcop-red start, which
\* does nothing for a service that is already started.
UserConnects ==
    /\ requests < MaxRequests
    /\ Idle(Svc) /\ pc[Net] # "boot" /\ ~started
    /\ "hasty" \in Faults \/ WoundUp
    /\ Goto(Svc, "service")
    /\ wanted' = TRUE
    /\ final' = FALSE
    /\ requests' = requests + 1
    /\ UNCHANGED <<files, attempts, profile, cc, ppp, script, pidfile, started>>

\* Disconnect in the GUI or a scheduled hangup: rc-service ipcop-red stop.
UserDisconnects ==
    /\ requests < MaxRequests
    /\ Idle(Svc) /\ pc[Net] # "boot" /\ started
    /\ Goto(Svc, "drop")
    /\ wanted' = FALSE
    /\ final' = FALSE
    /\ requests' = requests + 1
    /\ UNCHANGED <<files, attempts, profile, cc, ppp, script, pidfile, started>>

\* start() of the service: nothing to do for a link that is up or connecting.
ServiceStart ==
    /\ pc[Svc] = "service"
    /\ IF files \cap {"active", "connecting"} # {}
       THEN StartReturns(Svc, TRUE)
       ELSE Goto(Svc, "check") /\ UNCHANGED <<cc, started>>
    /\ UNCHANGED <<files, attempts, profile, ppp, script, pidfile, wanted, final, requests>>

\* Mutant: the boot leaves the files of the last session alone.
BootKeepsFiles ==
    /\ pc[Net] = "boot"
    /\ pc' = [pc EXCEPT ![Net] = IF Keep /\ AutoConnect THEN "check" ELSE "off",
                        ![Svc] = "service"]
    /\ UNCHANGED <<files, attempts, profile, cc, ppp, script, pidfile,
                   started, wanted, final, requests>>

\* The boot: rc.net --init clears the files, start_post runs rc.net --startred
\* in the background when keepconnected was left behind, and the default
\* runlevel starts the service.
Boot ==
    /\ pc[Net] = "boot"
    /\ files' = files \ {"active", "connecting", "disconnecting"}
    /\ pc' = [pc EXCEPT ![Net] = IF Keep /\ AutoConnect THEN "check" ELSE "off",
                        ![Svc] = "service"]
    /\ UNCHANGED <<attempts, profile, cc, ppp, script, pidfile, started, wanted, final, requests>>

\* A power loss: every process is gone, /var/ipcop/red is on the disk,
\* /var/run is not.
PowerLoss ==
    /\ "power" \in Faults
    /\ requests < MaxRequests
    /\ requests' = requests + 1
    /\ pc' = [p \in Procs |-> IF p = Net THEN "boot" ELSE "off"]
    /\ ppp' = [q \in Pppds |-> "off"]
    /\ script' = [q \in Pppds |-> "none"]
    /\ pidfile' = NoPid
    /\ started' = FALSE
    /\ wanted' = TRUE
    /\ final' = FALSE
    /\ cc' = [c \in Checkers |-> Blank]
    /\ UNCHANGED <<files, attempts, profile>>

-----------------------------------------------------------------------------

RcRed(p) ==
    \/ StartCheck(p) \/ StartMark(p) \/ StartFails(p) \/ StartDials(p)
    \/ StopDrop(p) \/ StopKeep(p) \/ StopKill(p)

Checker(c) ==
    \/ Clear(c) \/ CheckerBegins(c) \/ SyncTurn(c) \/ WatchTurn(c)
    \/ CheckerSucceeds(c) \/ CheckerAborts(c) \/ CheckerRedials(c)
    \/ CheckerWaits(c) \/ CheckerCounts(c) \/ CheckerBackup(c) \/ CheckerHoldoff(c)

Pppd(q) ==
    \/ PppUp(q) \/ PppFails(q) \/ PppDown(q) \/ PppExits(q) \/ UpdateredEnds(q)

Next ==
    \/ \E p \in Procs : RcRed(p)
    \/ \E c \in Checkers : Checker(c)
    \/ \E q \in Pppds : Pppd(q) \/ PppHangup(q)
    \/ ServiceStart \/ Boot
    \/ UserConnects \/ UserDisconnects \/ PowerLoss

Spec == Init /\ [][Next]_vars

\* Scripts that are running go on running, and pppd gets an answer or gives
\* up.  Users, hangups and power losses are under no obligation.
Fairness ==
    /\ \A p \in Procs : WF_vars(RcRed(p))
    /\ \A c \in Checkers : WF_vars(Checker(c))
    /\ \A q \in Pppds : WF_vars(Pppd(q))
    /\ WF_vars(ServiceStart) /\ WF_vars(Boot)

FairSpec == Spec /\ Fairness

-----------------------------------------------------------------------------
(* Safety *)

\* The redial file only exists while the checker that announced a transitional
\* stop is in that stop.  A redial file left behind would make the next
\* Disconnect keep keepconnected, and the link would be dialled again.
NoStaleRedial ==
    "redial" \in files =>
        \E c \in Checkers : pc[c] \in Stopping /\ ~cc[c].nosync

\* The three promises of the start guards, in the absence of any lock, as long
\* as the user does not connect before the last connection has wound up:
\* one rc.red start at a time,
OneStart ==
    \A p1, p2 \in Procs : pc[p1] \in Starting /\ pc[p2] \in Starting => p1 = p2

\* one pppd at a time (rc.red stop only kills the one in the pid file),
OnePppd ==
    \A q1, q2 \in Pppds : ppp[q1] # "off" /\ ppp[q2] # "off" => q1 = q2

\* and one connection checker at a time, except that a checker that dials
\* again overlaps with the one its rc.red start has put in the background.
HandOver ==
    \A c1, c2 \in Checkers :
        ~Idle(c1) /\ ~Idle(c2) /\ c1 # c2 =>
            \/ pc[c1] = "dial" /\ pc[c2] \in {"begin", "sync"}
            \/ pc[c2] = "dial" /\ pc[c1] \in {"begin", "sync"}

Quiet ==
    /\ \A p \in Procs : Idle(p)
    /\ \A q \in Pppds : ppp[q] \in {"off", "up"} /\ script[q] = "none"

\* Once every script has ended the active file tells whether the link is up.
ActiveIsTrue == Quiet => ("active" \in files <=> PppdRuns)

\* A Disconnect is final when no script is committed to undo it at the moment it
\* would remove keepconnected: until the user connects no script creates
\* keepconnected again and none starts a pppd, whatever the checkers still alive
\* are waiting for.  The places of Committed are the moments at which the
\* code does undo a Disconnect.
HangupHolds ==
    [][final /\ final' =>
          /\ ~Keep /\ ~Keep'
          /\ \A q \in Pppds : ppp[q] = "off" => ppp'[q] = "off"]_vars

-----------------------------------------------------------------------------
(* Liveness *)

\* Every connection checker comes to an end, whatever files it has found and
\* whichever start or pppd it waits for has come to its end.
CheckerEnds == \A c \in Checkers : pc[c] = "begin" ~> Idle(c)

\* A provider that never answers is given up in the end, after the retries with
\* every profile of the chain of backup profiles; no redial file is left, and
\* no connecting file unless a Disconnect came in between.
GivesUp ==
    <>[](/\ Quiet /\ ~PppdRuns
         /\ "redial" \notin files
         /\ "connecting" \in files => ~wanted)

\* Every boot dials, whatever files a power loss has left on the disk.
BootDials == pc[Net] = "boot" ~> PppdRuns

=============================================================================
