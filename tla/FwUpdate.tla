------------------------------ MODULE FwUpdate ------------------------------
(***************************************************************************)
(* The user's firewall rules on their way into the kernel: runs of         *)
(* puzzleFwRules.pl, which the web pages start in the background after     *)
(* every edit and cron starts every five minutes for the time frames. *)
(*                                                                         *)
(* A run looks at the clock, reads the time frame log, decides which types *)
(* of rules it creates anew, reads the configuration, prepares all calls   *)
(* of iptables, makes them under the lock /var/lock/puzzleFwRules, one     *)
(* process per call, and writes the time frame log back, the types it did  *)
(* not create included.  Only the calls of iptables are under the lock.    *)
(*                                                                         *)
(* Config files are read and written as a whole here.  The chains of the   *)
(* services and of the address filter are left out; a run for them alone   *)
(* is one without types.                                                   *)
(***************************************************************************)
EXTENDS FwTimes

CONSTANTS
  Types,      \* allRuleTypes: INPUT, OUTGOING, EXTERNAL, PINHOLES, PORTFW
  RuleLists,  \* the lists of enabled rules a user may have for a type
  Runs,       \* bound: so many runs of puzzleFwRules.pl at the same time
  NoRun,
  Overlap     \* runs may overlap and may take more than a minute

ASSUME UpdateAssumption ==
  /\ NoRun \notin Runs
  /\ Overlap \in BOOLEAN
  /\ \A rules \in RuleLists :
       /\ Len(rules) \in Nat /\ DOMAIN rules = 1 .. Len(rules)
       /\ \A i \in DOMAIN rules : rules[i].start \in DayTime /\ rules[i].end \in DayTime

VARIABLES
  config,     \* /var/ipcop/firewall/config: the list of rules of each type
  adv,        \* ADV_MODE_ENABLE of /var/ipcop/firewall/settings
  kernel,     \* the chain of each type: its rules with their places
  log,        \* /var/log/fw_timeframe_log: has and next of each type
  now,        \* the clock
  cronDue,    \* crond is about to start setfwrules --cron
  lock,       \* who holds the lock
  run,        \* the runs
  installed   \* history: what the last run to take the lock prepared

vars == <<config, adv, kernel, log, now, cronDue, lock, run, installed>>

Idle ==
  [pc |-> "idle", cron |-> FALSE, types |-> {}, adv |-> FALSE,
   time |-> [day |-> 0, h |-> 0, m |-> 0], log |-> [t \in Types |-> NoTimes],
   flush |-> {}, chain |-> [t \in Types |-> {}]]

AllIdle == \A r \in Runs : run[r] = Idle
Quiet == AllIdle /\ ~cronDue

-----------------------------------------------------------------------------
\* The end of a boot: setfwrules --all of rc.firewall start has run.
Init ==
  /\ config \in [Types -> RuleLists]
  /\ adv \in BOOLEAN
  /\ now \in Clock
  /\ kernel = [t \in Types |-> InForce(config[t], adv, now)]
  /\ log = [t \in Types |-> Times(config[t], adv, now)]
  /\ cronDue = FALSE
  /\ lock = NoRun
  /\ run = [r \in Runs |-> Idle]
  /\ installed = kernel

\* A run is started in the background, for cron or to create these types.
Spawn(r, cron, types) ==
  /\ Overlap \/ AllIdle
  /\ run[r] = Idle
  /\ run' = [run EXCEPT ![r] = [Idle EXCEPT !.pc = "spawned", !.cron = cron,
                                            !.types = types]]
  /\ UNCHANGED <<kernel, log, now, lock, installed>>

\* fwrules.cgi: a rule is added, changed, removed, moved, switched on or off.
SaveRule(t) ==
  /\ config' \in {[config EXCEPT ![t] = rules] : rules \in RuleLists \ {config[t]}}
  /\ \E r \in Runs : Spawn(r, FALSE, {t})
  /\ UNCHANGED <<adv, cronDue>>

\* fwrulesadm.cgi: the settings are saved.
SaveSettings ==
  /\ adv' = ~adv
  /\ \E r \in Runs : Spawn(r, FALSE, Types)
  /\ UNCHANGED <<config, cronDue>>

\* setfwrules --ipcop or --wireless, of many pages and helpers.
Services ==
  /\ \E r \in Runs : Spawn(r, FALSE, {})
  /\ UNCHANGED <<config, adv, cronDue>>

Cron ==
  /\ cronDue
  /\ cronDue' = FALSE
  /\ \E r \in Runs : Spawn(r, TRUE, {})
  /\ UNCHANGED <<config, adv>>

\* readValidSettings and localtime.
Start(r) ==
  /\ run[r].pc = "spawned"
  /\ run' = [run EXCEPT ![r] = [@ EXCEPT !.pc = "started", !.adv = adv, !.time = now]]
  /\ UNCHANGED <<config, adv, kernel, log, now, cronDue, lock, installed>>

ChosenTypes(r) ==
  IF run[r].cron
  THEN {t \in Types : NeedsUpdate(log[t], run[r].time)}
  ELSE run[r].types

\* Mutation: the times of all types are reset, not of those that are run.
ReadLogForgets(r) ==
  /\ run[r].pc = "started"
  /\ LET types == ChosenTypes(r)
     IN  run' = [run EXCEPT ![r] =
           IF run[r].cron /\ types = {} THEN Idle
           ELSE [@ EXCEPT !.pc = "read", !.types = types, !.flush = types,
                   !.log = [t \in Types |-> NoTimes]]]
  /\ UNCHANGED <<config, adv, kernel, log, now, cronDue, lock, installed>>

\* The time frame log is read, the types are chosen, their times are reset.
ReadLog(r) ==
  /\ run[r].pc = "started"
  /\ LET types == ChosenTypes(r)
     IN  run' = [run EXCEPT ![r] =
           IF run[r].cron /\ types = {} THEN Idle
           ELSE [@ EXCEPT !.pc = "read", !.types = types, !.flush = types,
                   !.log = [t \in Types |-> IF t \in types THEN NoTimes ELSE log[t]]]]
  /\ UNCHANGED <<config, adv, kernel, log, now, cronDue, lock, installed>>

\* The rules are read and the calls of iptables prepared.
Prepare(r) ==
  /\ run[r].pc = "read"
  /\ run' = [run EXCEPT ![r] = [@ EXCEPT
       !.pc = "prepared",
       !.chain = [t \in Types |->
          IF t \in run[r].types THEN InForce(config[t], run[r].adv, run[r].time)
          ELSE {}],
       !.log = [t \in Types |->
          IF t \in run[r].types THEN Times(config[t], run[r].adv, run[r].time)
          ELSE run[r].log[t]]]]
  /\ UNCHANGED <<config, adv, kernel, log, now, cronDue, lock, installed>>

\* Mutation: submitAllRules without flock.
TakeLockShared(r) ==
  /\ run[r].pc = "prepared"
  /\ lock' = r
  /\ run' = [run EXCEPT ![r].pc = "submit"]
  /\ installed' = [t \in Types |->
       IF t \in run[r].types THEN run[r].chain[t] ELSE installed[t]]
  /\ UNCHANGED <<config, adv, kernel, log, now, cronDue>>

TakeLock(r) ==
  /\ run[r].pc = "prepared"
  /\ lock = NoRun
  /\ lock' = r
  /\ run' = [run EXCEPT ![r].pc = "submit"]
  /\ installed' = [t \in Types |->
       IF t \in run[r].types THEN run[r].chain[t] ELSE installed[t]]
  /\ UNCHANGED <<config, adv, kernel, log, now, cronDue>>

\* iptables -F for one type.
Flush(r) ==
  /\ run[r].pc = "submit"
  /\ \E t \in run[r].flush :
       /\ kernel' = [kernel EXCEPT ![t] = {}]
       /\ run' = [run EXCEPT ![r].flush = @ \ {t}]
  /\ UNCHANGED <<config, adv, log, now, cronDue, lock, installed>>

\* iptables -A for the next rule of a type; all chains are flushed before.
Add(r) ==
  /\ run[r].pc = "submit"
  /\ run[r].flush = {}
  /\ \E t \in run[r].types : \E rule \in run[r].chain[t] :
       /\ \A other \in run[r].chain[t] : rule[1] <= other[1]
       /\ kernel' = [kernel EXCEPT ![t] = @ \cup {rule}]
       /\ run' = [run EXCEPT ![r].chain[t] = @ \ {rule}]
  /\ UNCHANGED <<config, adv, log, now, cronDue, lock, installed>>

Unlock(r) ==
  /\ run[r].pc = "submit"
  /\ run[r].flush = {}
  /\ \A t \in run[r].types : run[r].chain[t] = {}
  /\ lock' = NoRun
  /\ run' = [run EXCEPT ![r].pc = "unlocked"]
  /\ UNCHANGED <<config, adv, kernel, log, now, cronDue, installed>>

\* writehash: open truncates the file ...
OpenLog(r) ==
  /\ run[r].pc = "unlocked"
  /\ log' = [t \in Types |-> NoTimes]
  /\ run' = [run EXCEPT ![r].pc = "write"]
  /\ UNCHANGED <<config, adv, kernel, now, cronDue, lock, installed>>

\* ... and close writes it, with all types.
WriteLog(r) ==
  /\ run[r].pc = "write"
  /\ log' = run[r].log
  /\ run' = [run EXCEPT ![r] = Idle]
  /\ UNCHANGED <<config, adv, kernel, now, cronDue, lock, installed>>

\* The next minute.
NextMinute(c) ==
  CASE c.m < MinutesPerHour - 1 -> [c EXCEPT !.m = @ + 1]
    [] c.m = MinutesPerHour - 1 /\ c.h < HoursPerDay - 1 ->
         [day |-> c.day, h |-> c.h + 1, m |-> 0]
    [] OTHER -> [day |-> (c.day + 1) % Days, h |-> 0, m |-> 0]

Tick ==
  /\ ~cronDue
  /\ Overlap \/ AllIdle
  /\ now' = NextMinute(now)
  /\ cronDue' = (now'.m \in CronMinutes)
  /\ UNCHANGED <<config, adv, kernel, log, lock, run, installed>>

Step(r) ==
  \/ Start(r) \/ ReadLog(r) \/ Prepare(r)
  \/ TakeLock(r) \/ Flush(r) \/ Add(r) \/ Unlock(r)
  \/ OpenLog(r) \/ WriteLog(r)

Next ==
  \/ \E t \in Types : SaveRule(t)
  \/ SaveSettings
  \/ Services
  \/ Cron
  \/ Tick
  \/ \E r \in Runs : Step(r)

Spec == Init /\ [][Next]_vars

-----------------------------------------------------------------------------
TimesType == [has : BOOLEAN, next : DayTime \cup {Never}]
Placed == UNION {{<<i, rules[i]>> : i \in DOMAIN rules} : rules \in RuleLists}
Chains == [Types -> SUBSET Placed]

RunType ==
  [pc : {"idle", "spawned", "started", "read", "prepared", "submit", "unlocked",
         "write"},
   cron : BOOLEAN, types : SUBSET Types, adv : BOOLEAN, time : Clock,
   log : [Types -> TimesType], flush : SUBSET Types, chain : Chains]

\* Every variable has its type; the times in the log are times of the day; who
\* makes calls of iptables holds the lock.
TypeOK ==
  /\ config \in [Types -> RuleLists] /\ adv \in BOOLEAN
  /\ kernel \in Chains /\ installed \in Chains
  /\ log \in [Types -> TimesType]
  /\ now \in Clock /\ cronDue \in BOOLEAN
  /\ run \in [Runs -> RunType]
  /\ lock \in Runs \cup {NoRun}
  /\ \A r \in Runs : run[r].pc = "submit" <=> lock = r

\* The chain of a type that no run is working on holds exactly the rules that
\* the last run for this type prepared: however the runs overlap, a chain is
\* never a mixture of two of them (flock of submitAllRules).
Whole ==
  \A t \in Types :
    (lock # NoRun => t \notin run[lock].types) => kernel[t] = installed[t]

\* From the last check by cron until c.
Since(c) ==
  {[c EXCEPT !.m = k] : k \in {m \in 0 .. c.m : \A x \in m + 1 .. c.m : x \notin CronMinutes}}

\* At rest the chain of each type holds the rules of the configuration that
\* are in force at the time of the last check by cron or of an edit since: a
\* rule begins and ends by the next check at the latest, over the ends of hours
\* and days and whatever the other rules of its type are (the times left in
\* the log, the check of -c and midnight together).
SwitchedInTime ==
  Quiet =>
    \A t \in Types : \E c \in Since(now) : kernel[t] = InForce(config[t], adv, c)

\* At rest the log says of a type whether it has rules with a time frame
\* ("if there are no timeframe rules we don't need an update").
LogAgrees ==
  Quiet => \A t \in Types : log[t].has = HasTimed(config[t], adv)


\* The loop over the rules of a type finds the nearest of all times at which one
\* of them begins or ends, whatever their order (puzzleFwRules.pl:354-441).
SearchFindsNearest ==
  \A rules \in RuleLists :
    SearchSwitch(rules, adv, now) = NextSwitch(rules, adv, now)
=============================================================================
