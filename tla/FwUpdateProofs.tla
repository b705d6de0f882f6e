--------------------------- MODULE FwUpdateProofs ---------------------------
(***************************************************************************)
(* Proofs about FwTimes and FwUpdate: what the time frame of a day is, that *)
(* the next switch kept in the log is enough to know that nothing changes  *)
(* before it, that chains are never mixed, that rules switch in time, and   *)
(* that the loop over the rules finds the next switch.                     *)
(***************************************************************************)
EXTENDS FwUpdate, WellFoundedInduction, TLAPS

-----------------------------------------------------------------------------
(* The times of a day. *)

\* inDayTime is the time from start (included) to end (excluded), around
\* midnight when end comes first, and the whole day when they are the same.
THEOREM DayTimeIsInterval ==
  ASSUME NEW start \in DayTime, NEW end \in DayTime, NEW c \in Clock
  PROVE  InDayTime(start, end, c) <=>
           IF Before(start, end) THEN ~Before(c, start) /\ Before(c, end)
           ELSE Before(end, start) => Before(c, end) \/ ~Before(c, start)
BY SMTT(30), ClockAssumption DEF InDayTime, Before, DayTime, Clock

\* Whether a rule is in its time of the day only changes at its start or end.
LEMMA HoldsBetween ==
  ASSUME NEW start \in DayTime, NEW end \in DayTime, NEW c \in Clock, NEW d \in Clock,
         ~Before(d, c),
         ~(Before(c, start) /\ ~Before(d, start)),
         ~(Before(c, end) /\ ~Before(d, end))
  PROVE  InDayTime(start, end, c) <=> InDayTime(start, end, d)
BY SMTT(30), ClockAssumption DEF InDayTime, Before, DayTime, Clock

\* A set of natural numbers has a least one.
LEMMA Least ==
  ASSUME NEW S, S \subseteq Nat, S # {}
  PROVE  \E x \in S : \A y \in S : x <= y
<1>1. PICK x \in S : \A y \in S : <<y, x>> \notin OpToRel(<, Nat)
  BY NatLessThanWellFounded, WFMin, Zenon
<1>2. \A y \in S : ~(y < x)
  BY <1>1 DEF OpToRel
<1>. QED  BY <1>2

LEMMA Earliest ==
  ASSUME NEW S, S \subseteq DayTime, S # {}
  PROVE  \E c \in S : \A d \in S : ~Before(d, c)
<1>. DEFINE Hours == {c.h : c \in S}
<1>1. Hours \subseteq Nat /\ Hours # {}
  BY ClockAssumption DEF DayTime
<1>2. PICK h \in Hours : \A k \in Hours : h <= k
  BY <1>1, Least
<1>. DEFINE Minutes == {c.m : c \in {d \in S : d.h = h}}
<1>3. Minutes \subseteq Nat /\ Minutes # {}
  BY <1>2, ClockAssumption DEF DayTime
<1>4. PICK m \in Minutes : \A k \in Minutes : m <= k
  <2>. HIDE DEF Minutes
  <2>. QED  BY <1>3, Least
<1>5. PICK c \in S : c.h = h /\ c.m = m
  BY <1>4
<1>6. ASSUME NEW d \in S PROVE ~Before(d, c)
  <2>1. h <= d.h
    BY <1>2, <1>6
  <2>2. d.h = h => m <= d.m
    BY <1>4, <1>6
  <2>3. d.h \in Nat /\ d.m \in Nat /\ h \in Nat /\ m \in Nat
    BY <1>5, ClockAssumption DEF DayTime
  <2>. QED  BY <1>5, <2>1, <2>2, <2>3 DEF Before
<1>. QED  BY <1>5, <1>6

LEMMA NextSwitchProperties ==
  ASSUME NEW rules, NEW a, NEW c
  PROVE  /\ NextSwitch(rules, a, c) \in DayTime \cup {Never}
         /\ Coming(rules, a, c) = {} => NextSwitch(rules, a, c) = Never
         /\ Coming(rules, a, c) # {} =>
              /\ NextSwitch(rules, a, c) \in Coming(rules, a, c)
              /\ \A d \in Coming(rules, a, c) : ~Before(d, NextSwitch(rules, a, c))
<1>1. Coming(rules, a, c) \subseteq DayTime
  BY DEF Coming
<1>. QED
  BY <1>1, Earliest DEF NextSwitch

LEMMA TimesTyped ==
  ASSUME NEW rules, NEW a, NEW c
  PROVE  Times(rules, a, c) \in TimesType
<1>1. HasTimed(rules, a) \in BOOLEAN
  BY DEF HasTimed
<1>. QED  BY <1>1, NextSwitchProperties DEF Times, TimesType

LEMMA InForceTyped ==
  ASSUME NEW rules \in RuleLists, NEW a, NEW c
  PROVE  InForce(rules, a, c) \in SUBSET Placed
BY DEF InForce, Placed

-----------------------------------------------------------------------------
(* Types. *)

LEMMA IdleTyped == Idle \in RunType
<1>1. NoTimes \in TimesType
  BY DEF NoTimes, TimesType
<1>2. [day |-> 0, h |-> 0, m |-> 0] \in Clock
  BY ClockAssumption DEF Clock
<1>. QED  BY <1>1, <1>2 DEF Idle, RunType, Chains

LEMMA NextMinuteTyped ==
  ASSUME NEW c \in Clock
  PROVE  NextMinute(c) \in Clock
<1>1. CASE c.m < MinutesPerHour - 1
  BY <1>1, ClockAssumption DEF NextMinute, Clock
<1>2. CASE c.m = MinutesPerHour - 1 /\ c.h < HoursPerDay - 1
  BY <1>2, ClockAssumption DEF NextMinute, Clock
<1>3. CASE c.m = MinutesPerHour - 1 /\ c.h = HoursPerDay - 1
  <2>1. (c.day + 1) % Days \in 0 .. Days - 1
    BY ClockAssumption DEF Clock
  <2>. QED  BY <1>3, <2>1, ClockAssumption DEF NextMinute, Clock
<1>. QED  BY <1>1, <1>2, <1>3, ClockAssumption DEF Clock

\* What a step of one run must show: its own new record has the type, and it is
\* submitting if and only if it has the lock.
LEMMA OneRun ==
  ASSUME TypeOK, NEW r \in Runs, NEW v \in RunType, run' = [run EXCEPT ![r] = v],
         \/ lock' = lock /\ (v.pc = "submit" <=> lock = r)
         \/ lock = NoRun /\ lock' = r /\ v.pc = "submit"
         \/ lock = r /\ lock' = NoRun /\ v.pc # "submit"
  PROVE  /\ run' \in [Runs -> RunType]
         /\ lock' \in Runs \cup {NoRun}
         /\ \A s \in Runs : run'[s].pc = "submit" <=> lock' = s
<1>1. run'[r] = v /\ \A s \in Runs \ {r} : run'[s] = run[s]
  BY DEF TypeOK
<1>2. run' \in [Runs -> RunType]
  BY DEF TypeOK
<1>3. ASSUME NEW s \in Runs PROVE run'[s].pc = "submit" <=> lock' = s
  <2>1. (run[s].pc = "submit" <=> lock = s) /\ s # NoRun /\ r # NoRun
    BY UpdateAssumption DEF TypeOK
  <2>2. CASE s = r
    BY <1>1, <2>1, <2>2
  <2>3. CASE s # r
    BY <1>1, <2>1, <2>3
  <2>. QED  BY <2>2, <2>3
<1>4. lock' \in Runs \cup {NoRun}
  BY DEF TypeOK
<1>. QED  BY <1>2, <1>3, <1>4

LEMMA SpawnTyped ==
  ASSUME TypeOK, NEW r \in Runs, NEW cron \in BOOLEAN, NEW types \in SUBSET Types,
         Spawn(r, cron, types)
  PROVE  /\ run' \in [Runs -> RunType]
         /\ lock' \in Runs \cup {NoRun}
         /\ \A s \in Runs : run'[s].pc = "submit" <=> lock' = s
<1>. DEFINE v == [Idle EXCEPT !.pc = "spawned", !.cron = cron, !.types = types]
<1>1. v \in RunType /\ v.pc = "spawned"
  BY IdleTyped DEF RunType
<1>2. run' = [run EXCEPT ![r] = v] /\ lock' = lock
  BY DEF Spawn
<1>3. run[r].pc = "idle"
  BY DEF Spawn, Idle
<1>4. lock # r
  BY <1>3 DEF TypeOK
<1>. HIDE DEF v
<1>. QED  BY <1>1, <1>2, <1>4, OneRun

\* Every variable has its type, and the holder of the lock is the run that
\* makes its calls of iptables, for any number of runs, types and lists of rules.
THEOREM TypeCorrect == Spec => []TypeOK
<1>1. Init => TypeOK
  <2>. SUFFICES ASSUME Init PROVE TypeOK
    OBVIOUS
  <2>1. kernel \in Chains /\ installed \in Chains
    BY InForceTyped DEF Init, Chains
  <2>2. log \in [Types -> TimesType]
    BY TimesTyped DEF Init
  <2>3. \A r \in Runs : run[r].pc # "submit" /\ lock # r
    BY UpdateAssumption DEF Init, Idle
  <2>. QED  BY <2>1, <2>2, <2>3, IdleTyped DEF Init, TypeOK
<1>2. TypeOK /\ [Next]_vars => TypeOK'
  <2>. SUFFICES ASSUME TypeOK, [Next]_vars PROVE TypeOK'
    OBVIOUS
  <2>1. ASSUME NEW t \in Types, SaveRule(t) PROVE TypeOK'
    <3>1. config' \in [Types -> RuleLists]
      BY <2>1 DEF SaveRule, TypeOK
    <3>2. PICK r \in Runs : Spawn(r, FALSE, {t})
      BY <2>1 DEF SaveRule
    <3>3. run' \in [Runs -> RunType] /\ lock' \in Runs \cup {NoRun}
          /\ \A s \in Runs : run'[s].pc = "submit" <=> lock' = s
      BY <3>2, SpawnTyped
    <3>. QED  BY <2>1, <3>1, <3>2, <3>3 DEF SaveRule, Spawn, TypeOK
  <2>2. CASE SaveSettings
    <3>1. PICK r \in Runs : Spawn(r, FALSE, Types)
      BY <2>2 DEF SaveSettings
    <3>2. run' \in [Runs -> RunType] /\ lock' \in Runs \cup {NoRun}
          /\ \A s \in Runs : run'[s].pc = "submit" <=> lock' = s
      BY <3>1, SpawnTyped
    <3>. QED  BY <2>2, <3>1, <3>2 DEF SaveSettings, Spawn, TypeOK
  <2>3. CASE Services
    <3>1. PICK r \in Runs : Spawn(r, FALSE, {})
      BY <2>3 DEF Services
    <3>2. run' \in [Runs -> RunType] /\ lock' \in Runs \cup {NoRun}
          /\ \A s \in Runs : run'[s].pc = "submit" <=> lock' = s
      BY <3>1, SpawnTyped
    <3>. QED  BY <2>3, <3>1, <3>2 DEF Services, Spawn, TypeOK
  <2>4. CASE Cron
    <3>1. PICK r \in Runs : Spawn(r, TRUE, {})
      BY <2>4 DEF Cron
    <3>2. run' \in [Runs -> RunType] /\ lock' \in Runs \cup {NoRun}
          /\ \A s \in Runs : run'[s].pc = "submit" <=> lock' = s
      BY <3>1, SpawnTyped
    <3>. QED  BY <2>4, <3>1, <3>2 DEF Cron, Spawn, TypeOK
  <2>5. CASE Tick
    BY <2>5, NextMinuteTyped DEF Tick, TypeOK
  <2>6. ASSUME NEW r \in Runs, Start(r) PROVE TypeOK'
    <3>. DEFINE v == [run[r] EXCEPT !.pc = "started", !.adv = adv, !.time = now]
    <3>1. v \in RunType /\ v.pc = "started"
      BY DEF TypeOK, RunType, Chains
    <3>2. run' = [run EXCEPT ![r] = v]
      BY <2>6 DEF Start
    <3>3. lock' = lock /\ lock # r
      BY <2>6 DEF Start, TypeOK
    <3>. HIDE DEF v
    <3>4. run' \in [Runs -> RunType] /\ lock' \in Runs \cup {NoRun}
          /\ \A s \in Runs : run'[s].pc = "submit" <=> lock' = s
      BY <3>1, <3>2, <3>3, OneRun
    <3>. QED  BY <2>6, <3>4 DEF Start, TypeOK
  <2>7. ASSUME NEW r \in Runs, ReadLog(r) PROVE TypeOK'
    <3>1. ChosenTypes(r) \in SUBSET Types
      BY DEF ChosenTypes, TypeOK, RunType
    <3>2. NoTimes \in TimesType
      BY DEF NoTimes, TimesType
    <3>. DEFINE v == IF run[r].cron /\ ChosenTypes(r) = {} THEN Idle
                    ELSE [run[r] EXCEPT !.pc = "read", !.types = ChosenTypes(r),
                            !.flush = ChosenTypes(r),
                            !.log = [t \in Types |->
                               IF t \in ChosenTypes(r) THEN NoTimes ELSE log[t]]]
    <3>3. v \in RunType /\ v.pc # "submit"
      <4>1. CASE run[r].cron /\ ChosenTypes(r) = {}
        BY <4>1, IdleTyped DEF Idle
      <4>2. CASE ~(run[r].cron /\ ChosenTypes(r) = {})
        BY <3>1, <3>2, <4>2 DEF TypeOK, RunType
      <4>. QED  BY <4>1, <4>2
    <3>4. run' = [run EXCEPT ![r] = v]
      BY <2>7 DEF ReadLog
    <3>5. lock' = lock /\ lock # r
      BY <2>7 DEF ReadLog, TypeOK
    <3>. HIDE DEF v
    <3>6. run' \in [Runs -> RunType] /\ lock' \in Runs \cup {NoRun}
          /\ \A s \in Runs : run'[s].pc = "submit" <=> lock' = s
      BY <3>3, <3>4, <3>5, OneRun
    <3>. QED  BY <2>7, <3>6 DEF ReadLog, TypeOK
  <2>8. ASSUME NEW r \in Runs, Prepare(r) PROVE TypeOK'
    <3>. DEFINE chain == [t \in Types |->
                  IF t \in run[r].types THEN InForce(config[t], run[r].adv, run[r].time)
                  ELSE {}]
                times == [t \in Types |->
                  IF t \in run[r].types THEN Times(config[t], run[r].adv, run[r].time)
                  ELSE run[r].log[t]]
                v == [run[r] EXCEPT !.pc = "prepared", !.chain = chain, !.log = times]
    <3>1. run[r] \in RunType
      BY DEF TypeOK
    <3>2. chain \in Chains
      BY InForceTyped DEF TypeOK, Chains
    <3>3. times \in [Types -> TimesType]
      BY <3>1, TimesTyped DEF RunType
    <3>4. run' = [run EXCEPT ![r] = v]
      BY <2>8 DEF Prepare
    <3>. HIDE DEF chain, times
    <3>5. v \in RunType /\ v.pc = "prepared"
      BY <3>1, <3>2, <3>3 DEF RunType
    <3>6. lock' = lock /\ lock # r
      BY <2>8 DEF Prepare, TypeOK
    <3>. HIDE DEF v
    <3>7. run' \in [Runs -> RunType] /\ lock' \in Runs \cup {NoRun}
          /\ \A s \in Runs : run'[s].pc = "submit" <=> lock' = s
      BY <3>4, <3>5, <3>6, OneRun
    <3>. QED  BY <2>8, <3>7 DEF Prepare, TypeOK
  <2>9. ASSUME NEW r \in Runs, TakeLock(r) PROVE TypeOK'
    <3>1. run[r] \in RunType
      BY DEF TypeOK
    <3>. DEFINE v == [run[r] EXCEPT !.pc = "submit"]
    <3>2. v \in RunType /\ v.pc = "submit"
      BY <3>1 DEF RunType, Chains
    <3>3. run' = [run EXCEPT ![r] = v]
      BY <2>9 DEF TakeLock
    <3>4. lock = NoRun /\ lock' = r
      BY <2>9 DEF TakeLock, TypeOK
    <3>. HIDE DEF v
    <3>5. run' \in [Runs -> RunType] /\ lock' \in Runs \cup {NoRun}
          /\ \A s \in Runs : run'[s].pc = "submit" <=> lock' = s
      BY <3>2, <3>3, <3>4, OneRun
    <3>6. installed' \in Chains
      BY <2>9, <3>1 DEF TakeLock, TypeOK, RunType, Chains
    <3>. QED  BY <2>9, <3>5, <3>6 DEF TakeLock, TypeOK
  <2>10. ASSUME NEW r \in Runs, Flush(r) PROVE TypeOK'
    <3>0. PICK t \in run[r].flush :
            /\ kernel' = [kernel EXCEPT ![t] = {}]
            /\ run' = [run EXCEPT ![r].flush = @ \ {t}]
      BY <2>10 DEF Flush
    <3>1. run[r] \in RunType
      BY DEF TypeOK
    <3>. DEFINE v == [run[r] EXCEPT !.flush = @ \ {t}]
    <3>2. v \in RunType /\ v.pc = run[r].pc
      BY <3>1 DEF RunType, Chains
    <3>3. run' = [run EXCEPT ![r] = v]
      BY <2>10, <3>0 DEF Flush
    <3>4. lock' = lock /\ lock = r /\ run[r].pc = "submit"
      BY <2>10 DEF Flush, TypeOK
    <3>. HIDE DEF v
    <3>5. run' \in [Runs -> RunType] /\ lock' \in Runs \cup {NoRun}
          /\ \A s \in Runs : run'[s].pc = "submit" <=> lock' = s
      BY <3>2, <3>3, <3>4, OneRun
    <3>6. kernel' \in Chains
      BY <3>0 DEF TypeOK, Chains
    <3>. QED  BY <2>10, <3>5, <3>6 DEF Flush, TypeOK
  <2>11. ASSUME NEW r \in Runs, Add(r) PROVE TypeOK'
    <3>0. PICK t \in run[r].types : \E rule \in run[r].chain[t] :
            /\ kernel' = [kernel EXCEPT ![t] = @ \cup {rule}]
            /\ run' = [run EXCEPT ![r].chain[t] = @ \ {rule}]
      BY <2>11 DEF Add
    <3>a. PICK rule \in run[r].chain[t] :
            /\ kernel' = [kernel EXCEPT ![t] = @ \cup {rule}]
            /\ run' = [run EXCEPT ![r].chain[t] = @ \ {rule}]
      BY <3>0
    <3>1. run[r] \in RunType /\ t \in Types
      BY DEF TypeOK, RunType
    <3>. DEFINE chain == [run[r].chain EXCEPT ![t] = @ \ {rule}]
                v == [run[r] EXCEPT !.chain = chain]
    <3>b. chain \in Chains
      BY <3>1 DEF RunType, Chains
    <3>3. run' = [run EXCEPT ![r] = v]
      BY <3>a, Zenon
    <3>. HIDE DEF chain
    <3>2. v \in RunType /\ v.pc = run[r].pc
      BY <3>1, <3>b DEF RunType
    <3>4. lock' = lock /\ lock = r /\ run[r].pc = "submit"
      BY <2>11 DEF Add, TypeOK
    <3>. HIDE DEF v
    <3>5. run' \in [Runs -> RunType] /\ lock' \in Runs \cup {NoRun}
          /\ \A s \in Runs : run'[s].pc = "submit" <=> lock' = s
      BY <3>2, <3>3, <3>4, OneRun
    <3>6. kernel' \in Chains
      <4>1. t \in Types /\ rule \in Placed
        BY <3>1, <3>0, <3>a DEF RunType, Chains
      <4>. QED  BY <3>a, <4>1 DEF TypeOK, Chains
    <3>. QED  BY <2>11, <3>5, <3>6 DEF Add, TypeOK
  <2>12. ASSUME NEW r \in Runs, Unlock(r) PROVE TypeOK'
    <3>1. run[r] \in RunType
      BY DEF TypeOK
    <3>. DEFINE v == [run[r] EXCEPT !.pc = "unlocked"]
    <3>2. v \in RunType /\ v.pc = "unlocked"
      BY <3>1 DEF RunType, Chains
    <3>3. run' = [run EXCEPT ![r] = v]
      BY <2>12 DEF Unlock
    <3>4. lock = r /\ lock' = NoRun
      BY <2>12 DEF Unlock, TypeOK
    <3>. HIDE DEF v
    <3>5. run' \in [Runs -> RunType] /\ lock' \in Runs \cup {NoRun}
          /\ \A s \in Runs : run'[s].pc = "submit" <=> lock' = s
      BY <3>2, <3>3, <3>4, OneRun
    <3>. QED  BY <2>12, <3>5 DEF Unlock, TypeOK
  <2>13. ASSUME NEW r \in Runs, OpenLog(r) PROVE TypeOK'
    <3>1. run[r] \in RunType
      BY DEF TypeOK
    <3>. DEFINE v == [run[r] EXCEPT !.pc = "write"]
    <3>2. v \in RunType /\ v.pc = "write"
      BY <3>1 DEF RunType, Chains
    <3>3. run' = [run EXCEPT ![r] = v]
      BY <2>13 DEF OpenLog
    <3>4. lock' = lock /\ lock # r
      BY <2>13 DEF OpenLog, TypeOK
    <3>. HIDE DEF v
    <3>5. run' \in [Runs -> RunType] /\ lock' \in Runs \cup {NoRun}
          /\ \A s \in Runs : run'[s].pc = "submit" <=> lock' = s
      BY <3>2, <3>3, <3>4, OneRun
    <3>6. log' \in [Types -> TimesType]
      <4>1. NoTimes \in TimesType
        BY DEF NoTimes, TimesType
      <4>. QED  BY <2>13, <4>1 DEF OpenLog
    <3>. QED  BY <2>13, <3>5, <3>6 DEF OpenLog, TypeOK
  <2>14. ASSUME NEW r \in Runs, WriteLog(r) PROVE TypeOK'
    <3>1. run' = [run EXCEPT ![r] = Idle] /\ lock' = lock /\ lock # r
      BY <2>14 DEF WriteLog, TypeOK
    <3>2. Idle.pc = "idle"
      BY DEF Idle
    <3>3. run' \in [Runs -> RunType] /\ lock' \in Runs \cup {NoRun}
          /\ \A s \in Runs : run'[s].pc = "submit" <=> lock' = s
      BY <3>1, <3>2, IdleTyped, OneRun
    <3>4. log' \in [Types -> TimesType]
      BY <2>14 DEF WriteLog, TypeOK, RunType
    <3>. QED  BY <2>14, <3>3, <3>4 DEF WriteLog, TypeOK
  <2>15. CASE UNCHANGED vars
    BY <2>15 DEF vars, TypeOK
  <2>. QED
    BY <2>1, <2>2, <2>3, <2>4, <2>5, <2>6, <2>7, <2>8, <2>9, <2>10, <2>11, <2>12,
       <2>13, <2>14, <2>15 DEF Next, Step
<1>. QED  BY <1>1, <1>2, PTL DEF Spec

-----------------------------------------------------------------------------
(* Chains are never mixed. *)

\* Between the choice of the types and the lock nothing has been flushed.  Under
\* the lock, a chain still to be flushed has all its rules to come; of the
\* others, what is in the kernel and what is to come are all the rules.
Submission ==
  /\ \A r \in Runs : run[r].pc \in {"read", "prepared"} => run[r].flush = run[r].types
  /\ lock # NoRun =>
       /\ run[lock].flush \subseteq run[lock].types
       /\ \A t \in run[lock].types :
            IF t \in run[lock].flush
            THEN run[lock].chain[t] = installed[t]
            ELSE kernel[t] \cup run[lock].chain[t] = installed[t]

WholeInv == Submission /\ Whole

\* A step of one run that neither touches the chains nor the lock.
LEMMA Aside ==
  ASSUME TypeOK, WholeInv, NEW r \in Runs, lock # r,
         UNCHANGED <<kernel, lock, installed>>,
         run' \in [Runs -> RunType], \A s \in Runs \ {r} : run'[s] = run[s],
         run'[r].pc \in {"read", "prepared"} => run'[r].flush = run'[r].types
  PROVE  WholeInv'
<1>1. lock # NoRun => lock \in Runs \ {r} /\ run'[lock] = run[lock]
  BY DEF TypeOK
<1>2. Whole'
  BY <1>1 DEF WholeInv, Whole
<1>3. Submission'
  <2>1. lock' # NoRun =>
       /\ run'[lock'].flush \subseteq run'[lock'].types
       /\ \A t \in run'[lock'].types :
            IF t \in run'[lock'].flush
            THEN run'[lock'].chain[t] = installed'[t]
            ELSE kernel'[t] \cup run'[lock'].chain[t] = installed'[t]
    BY <1>1 DEF WholeInv, Submission
  <2>2. ASSUME NEW s \in Runs, run'[s].pc \in {"read", "prepared"}
        PROVE  run'[s].flush = run'[s].types
    <3>1. CASE s = r
      BY <2>2, <3>1
    <3>2. CASE s # r
      BY <2>2, <3>2 DEF WholeInv, Submission
    <3>. QED  BY <3>1, <3>2
  <2>. QED  BY <2>1, <2>2 DEF Submission
<1>. QED  BY <1>2, <1>3 DEF WholeInv

LEMMA WholeInductive == Spec => []WholeInv
<1>1. Init => WholeInv
  BY UpdateAssumption DEF Init, WholeInv, Submission, Whole, Idle
<1>2. TypeOK /\ TypeOK' /\ WholeInv /\ [Next]_vars => WholeInv'
  <2>. SUFFICES ASSUME TypeOK, TypeOK', WholeInv, [Next]_vars PROVE WholeInv'
    OBVIOUS
  <2>0. ASSUME NEW r \in Runs, NEW cron \in BOOLEAN, NEW types \in SUBSET Types,
               Spawn(r, cron, types)
        PROVE  WholeInv'
    <3>1. run[r].pc = "idle" /\ run'[r].pc = "spawned"
      BY <2>0 DEF Spawn, Idle, TypeOK
    <3>2. lock # r
      BY <3>1 DEF TypeOK
    <3>3. run' \in [Runs -> RunType] /\ \A s \in Runs \ {r} : run'[s] = run[s]
      BY <2>0 DEF Spawn, TypeOK
    <3>4. UNCHANGED <<kernel, lock, installed>>
      BY <2>0 DEF Spawn
    <3>. QED  BY <3>1, <3>2, <3>3, <3>4, Aside
  <2>1. ASSUME NEW t \in Types, SaveRule(t) PROVE WholeInv'
    <3>1. PICK r \in Runs : Spawn(r, FALSE, {t})
      BY <2>1 DEF SaveRule
    <3>. QED  BY <3>1, <2>0
  <2>2. CASE SaveSettings
    <3>1. PICK r \in Runs : Spawn(r, FALSE, Types)
      BY <2>2 DEF SaveSettings
    <3>. QED  BY <3>1, <2>0
  <2>3. CASE Services
    <3>1. PICK r \in Runs : Spawn(r, FALSE, {})
      BY <2>3 DEF Services
    <3>. QED  BY <3>1, <2>0
  <2>4. CASE Cron
    <3>1. PICK r \in Runs : Spawn(r, TRUE, {})
      BY <2>4 DEF Cron
    <3>. QED  BY <3>1, <2>0
  <2>5. CASE Tick
    BY <2>5 DEF Tick, WholeInv, Submission, Whole
  <2>6. ASSUME NEW r \in Runs, Start(r) PROVE WholeInv'
    <3>1. lock # r /\ UNCHANGED <<kernel, lock, installed>>
      BY <2>6 DEF Start, TypeOK
    <3>2. run' \in [Runs -> RunType] /\ \A s \in Runs \ {r} : run'[s] = run[s]
      BY <2>6 DEF Start, TypeOK
    <3>3. run'[r].pc = "started"
      BY <2>6 DEF Start, TypeOK, RunType
    <3>. QED  BY <3>1, <3>2, <3>3, Aside
  <2>7. ASSUME NEW r \in Runs, ReadLog(r) PROVE WholeInv'
    <3>1. lock # r /\ UNCHANGED <<kernel, lock, installed>>
      BY <2>7 DEF ReadLog, TypeOK
    <3>2. run' \in [Runs -> RunType] /\ \A s \in Runs \ {r} : run'[s] = run[s]
      BY <2>7 DEF ReadLog, TypeOK
    <3>3. run'[r].pc = "idle" \/ run'[r].flush = run'[r].types
      <4>1. CASE run[r].cron /\ ChosenTypes(r) = {}
        BY <2>7, <4>1 DEF ReadLog, TypeOK, Idle
      <4>2. CASE ~(run[r].cron /\ ChosenTypes(r) = {})
        <5>1. \E types, times :
                run'[r] = [run[r] EXCEPT !.pc = "read", !.types = types,
                             !.flush = types, !.log = times]
          BY <2>7, <4>2 DEF ReadLog, TypeOK
        <5>2. run[r] \in RunType
          BY DEF TypeOK
        <5>. QED  BY <5>1, <5>2 DEF RunType
      <4>. QED  BY <4>1, <4>2
    <3>. QED  BY <3>1, <3>2, <3>3, Aside
  <2>8. ASSUME NEW r \in Runs, Prepare(r) PROVE WholeInv'
    <3>1. lock # r /\ UNCHANGED <<kernel, lock, installed>>
      BY <2>8 DEF Prepare, TypeOK
    <3>2. run' \in [Runs -> RunType] /\ \A s \in Runs \ {r} : run'[s] = run[s]
      BY <2>8 DEF Prepare, TypeOK
    <3>3. run'[r].flush = run'[r].types
      <4>1. run[r].flush = run[r].types
        BY <2>8 DEF Prepare, WholeInv, Submission
      <4>2. \E chain, times :
              run'[r] = [run[r] EXCEPT !.pc = "prepared", !.chain = chain, !.log = times]
        BY <2>8 DEF Prepare, TypeOK
      <4>3. run[r] \in RunType
        BY DEF TypeOK
      <4>4. run'[r].flush = run[r].flush /\ run'[r].types = run[r].types
        BY <4>2, <4>3 DEF RunType
      <4>. QED  BY <4>1, <4>4
    <3>. QED  BY <3>1, <3>2, <3>3, Aside
  <2>9. ASSUME NEW r \in Runs, TakeLock(r) PROVE WholeInv'
    <3>1. /\ lock = NoRun /\ lock' = r /\ r # NoRun
          /\ run[r].pc = "prepared" /\ kernel' = kernel
          /\ \A t \in Types : installed'[t] = IF t \in run[r].types THEN run[r].chain[t]
                                             ELSE installed[t]
      BY <2>9, UpdateAssumption DEF TakeLock
    <3>2. /\ run'[r].pc = "submit" /\ run'[r].flush = run[r].flush
          /\ run'[r].types = run[r].types /\ run'[r].chain = run[r].chain
          /\ \A s \in Runs \ {r} : run'[s] = run[s]
      BY <2>9 DEF TakeLock, TypeOK, RunType
    <3>3. run[r].flush = run[r].types /\ run[r].types \subseteq Types
      BY <3>1 DEF WholeInv, Submission, TypeOK, RunType
    <3>4. Whole'
      BY <3>1, <3>2 DEF WholeInv, Whole
    <3>5. \A s \in Runs : run'[s].pc \in {"read", "prepared"} => run'[s].flush = run'[s].types
      BY <3>2 DEF WholeInv, Submission
    <3>6. \A t \in run'[r].types : t \in run'[r].flush /\ run'[r].chain[t] = installed'[t]
      BY <3>1, <3>2, <3>3
    <3>7. Submission'
      BY <3>1, <3>2, <3>3, <3>5, <3>6 DEF Submission
    <3>. QED  BY <3>4, <3>7 DEF WholeInv
  <2>10. ASSUME NEW r \in Runs, Flush(r) PROVE WholeInv'
    <3>1. PICK t \in run[r].flush :
            /\ kernel' = [kernel EXCEPT ![t] = {}]
            /\ run' = [run EXCEPT ![r].flush = @ \ {t}]
      BY <2>10 DEF Flush
    <3>2. lock = r /\ lock' = r /\ r # NoRun /\ run[r].pc = "submit" /\ installed' = installed
      BY <2>10, UpdateAssumption DEF Flush, TypeOK
    <3>3. run[r].flush \subseteq run[r].types /\ run[r].types \subseteq Types
      BY <3>2 DEF WholeInv, Submission, TypeOK, RunType
    <3>4. /\ run'[r].pc = "submit" /\ run'[r].types = run[r].types
          /\ run'[r].chain = run[r].chain /\ run'[r].flush = run[r].flush \ {t}
          /\ \A s \in Runs \ {r} : run'[s] = run[s]
      BY <3>1, <3>2 DEF TypeOK, RunType
    <3>5. kernel'[t] = {} /\ \A u \in Types \ {t} : kernel'[u] = kernel[u]
      BY <3>1, <3>3 DEF TypeOK, Chains
    <3>6. Whole'
      BY <3>1, <3>2, <3>3, <3>4, <3>5 DEF WholeInv, Whole
    <3>7. \A s \in Runs : run'[s].pc \in {"read", "prepared"} => run'[s].flush = run'[s].types
      BY <3>4 DEF WholeInv, Submission
    <3>8. ASSUME NEW u \in run[r].types
          PROVE  IF u \in run'[r].flush THEN run'[r].chain[u] = installed'[u]
                 ELSE kernel'[u] \cup run'[r].chain[u] = installed'[u]
      <4>1. IF u \in run[r].flush THEN run[r].chain[u] = installed[u]
            ELSE kernel[u] \cup run[r].chain[u] = installed[u]
        BY <3>2 DEF WholeInv, Submission
      <4>2. CASE u = t
        BY <3>1, <3>2, <3>4, <3>5, <4>1, <4>2
      <4>3. CASE u # t
        BY <3>2, <3>3, <3>4, <3>5, <4>1, <4>3
      <4>. QED  BY <4>2, <4>3
    <3>9. Submission'
      BY <3>2, <3>3, <3>4, <3>7, <3>8 DEF Submission
    <3>. QED  BY <3>6, <3>9 DEF WholeInv
  <2>11. ASSUME NEW r \in Runs, Add(r) PROVE WholeInv'
    <3>0. PICK t \in run[r].types : \E rule \in run[r].chain[t] :
            /\ kernel' = [kernel EXCEPT ![t] = @ \cup {rule}]
            /\ run' = [run EXCEPT ![r].chain[t] = @ \ {rule}]
      BY <2>11 DEF Add
    <3>1. PICK rule \in run[r].chain[t] :
            /\ kernel' = [kernel EXCEPT ![t] = @ \cup {rule}]
            /\ run' = [run EXCEPT ![r].chain[t] = @ \ {rule}]
      BY <3>0
    <3>2. /\ lock = r /\ lock' = r /\ r # NoRun /\ run[r].pc = "submit"
          /\ installed' = installed /\ run[r].flush = {}
      BY <2>11, UpdateAssumption DEF Add, TypeOK
    <3>3. run[r].types \subseteq Types
      BY DEF TypeOK, RunType
    <3>4. /\ run'[r].pc = "submit" /\ run'[r].types = run[r].types
          /\ run'[r].flush = {}
          /\ \A s \in Runs \ {r} : run'[s] = run[s]
      BY <3>1, <3>2 DEF TypeOK, RunType
    <3>5. /\ run'[r].chain[t] = run[r].chain[t] \ {rule}
          /\ \A u \in Types \ {t} : run'[r].chain[u] = run[r].chain[u]
      BY <3>1, <3>3 DEF TypeOK, RunType, Chains
    <3>6. /\ kernel'[t] = kernel[t] \cup {rule}
          /\ \A u \in Types \ {t} : kernel'[u] = kernel[u]
      BY <3>1, <3>3 DEF TypeOK, Chains
    <3>7. Whole'
      BY <3>1, <3>2, <3>3, <3>4, <3>6 DEF WholeInv, Whole
    <3>8. \A s \in Runs : run'[s].pc \in {"read", "prepared"} => run'[s].flush = run'[s].types
      BY <3>4 DEF WholeInv, Submission
    <3>9. ASSUME NEW u \in run[r].types
          PROVE  kernel'[u] \cup run'[r].chain[u] = installed'[u]
      <4>1. kernel[u] \cup run[r].chain[u] = installed[u]
        BY <3>2 DEF WholeInv, Submission
      <4>2. CASE u = t
        BY <3>1, <3>2, <3>5, <3>6, <4>1, <4>2
      <4>3. CASE u # t
        BY <3>2, <3>3, <3>5, <3>6, <4>1, <4>3
      <4>. QED  BY <4>2, <4>3
    <3>10. Submission'
      BY <3>2, <3>4, <3>8, <3>9 DEF Submission
    <3>. QED  BY <3>7, <3>10 DEF WholeInv
  <2>12. ASSUME NEW r \in Runs, Unlock(r) PROVE WholeInv'
    <3>1. /\ lock = r /\ r # NoRun /\ lock' = NoRun /\ UNCHANGED <<kernel, installed>>
          /\ run[r].flush = {} /\ \A t \in run[r].types : run[r].chain[t] = {}
      BY <2>12, UpdateAssumption DEF Unlock, TypeOK
    <3>2. run'[r].pc = "unlocked" /\ \A s \in Runs \ {r} : run'[s] = run[s]
      BY <2>12 DEF Unlock, TypeOK, RunType
    <3>3. \A s \in Runs : run'[s].pc \in {"read", "prepared"} => run'[s].flush = run'[s].types
      BY <3>2 DEF WholeInv, Submission
    <3>4. ASSUME NEW t \in Types PROVE kernel[t] = installed[t]
      <4>1. CASE t \in run[r].types
        <5>1. kernel[t] \cup run[r].chain[t] = installed[t]
          BY <3>1, <4>1 DEF WholeInv, Submission
        <5>. QED  BY <3>1, <4>1, <5>1
      <4>2. CASE t \notin run[r].types
        BY <3>1, <4>2 DEF WholeInv, Whole
      <4>. QED  BY <4>1, <4>2
    <3>. QED  BY <3>1, <3>3, <3>4 DEF WholeInv, Submission, Whole
  <2>13. ASSUME NEW r \in Runs, OpenLog(r) PROVE WholeInv'
    <3>1. lock # r /\ UNCHANGED <<kernel, lock, installed>>
      BY <2>13 DEF OpenLog, TypeOK
    <3>2. run' \in [Runs -> RunType] /\ \A s \in Runs \ {r} : run'[s] = run[s]
      BY <2>13 DEF OpenLog, TypeOK
    <3>3. run'[r].pc = "write"
      BY <2>13 DEF OpenLog, TypeOK, RunType
    <3>. QED  BY <3>1, <3>2, <3>3, Aside
  <2>14. ASSUME NEW r \in Runs, WriteLog(r) PROVE WholeInv'
    <3>1. lock # r /\ UNCHANGED <<kernel, lock, installed>>
      BY <2>14 DEF WriteLog, TypeOK
    <3>2. run' \in [Runs -> RunType] /\ \A s \in Runs \ {r} : run'[s] = run[s]
      BY <2>14 DEF WriteLog, TypeOK
    <3>3. run'[r].pc = "idle"
      BY <2>14 DEF WriteLog, TypeOK, RunType, Idle
    <3>. QED  BY <3>1, <3>2, <3>3, Aside
  <2>15. CASE UNCHANGED vars
    BY <2>15 DEF vars, WholeInv, Submission, Whole
  <2>. QED
    BY <2>1, <2>2, <2>3, <2>4, <2>5, <2>6, <2>7, <2>8, <2>9, <2>10, <2>11, <2>12,
       <2>13, <2>14, <2>15 DEF Next, Step
<1>. QED  BY <1>1, <1>2, TypeCorrect, PTL DEF Spec

\* However many runs overlap, a chain no run is working on holds exactly the
\* rules one run prepared for it.
THEOREM ChainsAreWhole == Spec => []Whole
<1>1. WholeInv => Whole
  BY DEF WholeInv
<1>. QED  BY <1>1, WholeInductive, PTL

-----------------------------------------------------------------------------
(* The next switch in the log is enough. *)

\* Without time frames nothing depends on the time.
LEMMA Untimed ==
  ASSUME NEW rules, NEW a, NEW c, NEW d, ~HasTimed(rules, a)
  PROVE  /\ InForce(rules, a, c) = InForce(rules, a, d)
         /\ Times(rules, a, c) = Times(rules, a, d)
<1>1. \A i \in DOMAIN rules : Visible(rules[i], a) => ~Timed(rules[i], a)
  BY DEF HasTimed
<1>2. InForce(rules, a, c) = InForce(rules, a, d)
  BY <1>1 DEF InForce
<1>3. Coming(rules, a, c) = {} /\ Coming(rules, a, d) = {}
  BY <1>1 DEF Coming
<1>. QED  BY <1>2, <1>3, NextSwitchProperties DEF Times

\* When the check finds no need for an update later on the same day, the rules
\* in force and the next switch are still those of the earlier time.
LEMMA NothingSwitches ==
  ASSUME NEW rules \in RuleLists, NEW a, NEW c \in Clock, NEW d \in Clock,
         c.day = d.day, ~Before(d, c), Before(d, NextSwitch(rules, a, c))
  PROVE  /\ InForce(rules, a, c) = InForce(rules, a, d)
         /\ Times(rules, a, c) = Times(rules, a, d)
<1>. DEFINE next == NextSwitch(rules, a, c)
<1>1. \A e \in DayTime \cup {Never} : e.h \in Nat /\ e.m \in Nat
  BY ClockAssumption DEF DayTime, Never
<1>2. c.h \in Nat /\ c.m \in Nat /\ d.h \in Nat /\ d.m \in Nat
  BY ClockAssumption DEF Clock
<1>3. next \in DayTime \cup {Never}
  BY NextSwitchProperties
<1>4. ASSUME NEW e \in Coming(rules, a, c) PROVE Before(d, e)
  <2>1. ~Before(e, next) /\ e \in DayTime
    BY NextSwitchProperties DEF Coming
  <2>2. next.h \in Nat /\ next.m \in Nat /\ e.h \in Nat /\ e.m \in Nat
    BY <1>1, <1>3, <2>1
  <2>3. Before(d, next)
    OBVIOUS
  <2>. HIDE DEF next
  <2>. QED  BY <1>2, <2>1, <2>2, <2>3 DEF Before
<1>5. \A r : InDays(r, c) <=> InDays(r, d)
  BY DEF InDays
<1>6. \A e \in DayTime : Before(d, e) => Before(c, e)
  BY <1>1, <1>2 DEF Before
<1>7. Coming(rules, a, c) = Coming(rules, a, d)
  BY <1>4, <1>5, <1>6 DEF Coming
<1>8. ASSUME NEW i \in DOMAIN rules, Visible(rules[i], a), Timed(rules[i], a),
             InDays(rules[i], c)
      PROVE  InDayTime(rules[i].start, rules[i].end, c)
               <=> InDayTime(rules[i].start, rules[i].end, d)
  <2>1. rules[i].start \in DayTime /\ rules[i].end \in DayTime
    BY UpdateAssumption
  <2>2. \A e \in {rules[i].start, rules[i].end} : Before(c, e) => Before(d, e)
    BY <1>4, <1>8, <2>1 DEF Coming
  <2>. QED  BY <2>1, <2>2, HoldsBetween
<1>9. InForce(rules, a, c) = InForce(rules, a, d)
  BY <1>5, <1>8 DEF InForce
<1>. QED  BY <1>7, <1>9 DEF Times, NextSwitch

-----------------------------------------------------------------------------
(* Rules switch in time. *)

LEMMA SinceProperties ==
  ASSUME NEW n \in Clock
  PROVE  /\ n \in Since(n)
         /\ \A c \in Since(n) : /\ c \in Clock /\ c.day = n.day /\ ~Before(n, c)
<1>1. n.m \in 0 .. n.m /\ n = [n EXCEPT !.m = n.m]
  BY ClockAssumption DEF Clock
<1>2. n \in Since(n)
  BY <1>1, ClockAssumption DEF Since, Clock
<1>3. ASSUME NEW m \in 0 .. n.m
      PROVE  /\ [n EXCEPT !.m = m] \in Clock /\ [n EXCEPT !.m = m].day = n.day
             /\ ~Before(n, [n EXCEPT !.m = m])
  <2>1. /\ [n EXCEPT !.m = m].day = n.day /\ [n EXCEPT !.m = m].h = n.h
        /\ [n EXCEPT !.m = m].m = m
    BY DEF Clock
  <2>2. m \in 0 .. MinutesPerHour - 1
    BY ClockAssumption DEF Clock
  <2>3. [n EXCEPT !.m = m] \in Clock
    BY <2>2 DEF Clock
  <2>4. n.h \in Nat /\ n.m \in Nat /\ m <= n.m
    BY ClockAssumption DEF Clock
  <2>. QED  BY <2>1, <2>3, <2>4 DEF Before
<1>4. ASSUME NEW c \in Since(n)
      PROVE  c \in Clock /\ c.day = n.day /\ ~Before(n, c)
  <2>1. PICK m \in 0 .. n.m : c = [n EXCEPT !.m = m]
    BY DEF Since
  <2>. QED  BY <1>3, <2>1
<1>. QED  BY <1>2, <1>4

LEMMA NextMinuteProperties ==
  ASSUME NEW p \in Clock, NEW n, n = NextMinute(p)
  PROVE  /\ n \in Clock
         /\ \/ n.h = 0 /\ n.m = 0
            \/ /\ n.day = p.day
               /\ \A c \in Clock : ~Before(p, c) => ~Before(n, c)
         /\ n.m \notin CronMinutes => Since(p) \subseteq Since(n)
<1>1. n \in Clock
  BY NextMinuteTyped
<1>2. CASE p.m < MinutesPerHour - 1
  <2>1. n = [p EXCEPT !.m = p.m + 1]
    BY <1>2, ClockAssumption DEF NextMinute, Clock
  <2>2. n.day = p.day /\ n.h = p.h /\ n.m = p.m + 1
    BY <2>1 DEF Clock
  <2>3. p.h \in Nat /\ p.m \in Nat
    BY ClockAssumption DEF Clock
  <2>4. \A c \in Clock : ~Before(p, c) => ~Before(n, c)
    BY <2>2, <2>3, ClockAssumption DEF Before, Clock
  <2>5. ASSUME n.m \notin CronMinutes, NEW m \in 0 .. p.m,
               \A x \in m + 1 .. p.m : x \notin CronMinutes
        PROVE  [p EXCEPT !.m = m] \in Since(n)
    <3>1. m \in 0 .. n.m /\ \A x \in m + 1 .. n.m : x \notin CronMinutes
      BY <2>2, <2>3, <2>5
    <3>2. [p EXCEPT !.m = m] = [n EXCEPT !.m = m]
      BY <2>1 DEF Clock
    <3>. QED  BY <3>1, <3>2 DEF Since
  <2>6. n.m \notin CronMinutes => Since(p) \subseteq Since(n)
    BY <2>5 DEF Since
  <2>. QED  BY <1>1, <2>2, <2>4, <2>6
<1>3. CASE p.m = MinutesPerHour - 1 /\ p.h < HoursPerDay - 1
  <2>1. n = [day |-> p.day, h |-> p.h + 1, m |-> 0]
    BY <1>3, ClockAssumption DEF NextMinute, Clock
  <2>2. \A c \in Clock : ~Before(p, c) => ~Before(n, c)
    BY <2>1, ClockAssumption DEF Before, Clock
  <2>. QED  BY <1>1, <2>1, <2>2, ClockAssumption
<1>4. CASE p.m = MinutesPerHour - 1 /\ p.h = HoursPerDay - 1
  <2>1. n = [day |-> (p.day + 1) % Days, h |-> 0, m |-> 0]
    BY <1>4, ClockAssumption DEF NextMinute, Clock
  <2>. QED  BY <1>1, <2>1, ClockAssumption
<1>. QED  BY <1>2, <1>3, <1>4, ClockAssumption DEF Clock

\* A chain and its times are those of a moment since the last check; while the
\* next check is pending, since the one before.
Seen(c, n, pending) ==
  \/ c \in Since(n)
  \/ /\ pending /\ n.m \in CronMinutes
     /\ \E p \in Clock : NextMinute(p) = n /\ c \in Since(p)

Followed(chain, times, rules, a, n, pending) ==
  \E c : /\ Seen(c, n, pending)
         /\ chain = InForce(rules, a, c) /\ times = Times(rules, a, c)

LEMMA FollowedNow ==
  ASSUME NEW n \in Clock, NEW rules, NEW a, NEW pending
  PROVE  Followed(InForce(rules, a, n), Times(rules, a, n), rules, a, n, pending)
BY SinceProperties DEF Followed, Seen

LEMMA FollowedPending ==
  ASSUME NEW n \in Clock, NEW rules, NEW a, NEW chain, NEW times,
         NEW pending, NEW still, pending => still,
         Followed(chain, times, rules, a, n, pending)
  PROVE  Followed(chain, times, rules, a, n, still)
BY DEF Followed, Seen

\* The next minute, with a check when it is due.
LEMMA FollowedTick ==
  ASSUME NEW p \in Clock, NEW rules, NEW a, NEW chain, NEW times,
         Followed(chain, times, rules, a, p, FALSE)
  PROVE  Followed(chain, times, rules, a, NextMinute(p), NextMinute(p).m \in CronMinutes)
<1>1. PICK c \in Since(p) : chain = InForce(rules, a, c) /\ times = Times(rules, a, c)
  BY DEF Followed, Seen
<1>2. Seen(c, NextMinute(p), NextMinute(p).m \in CronMinutes)
  BY <1>1, NextMinuteProperties DEF Seen
<1>. QED  BY <1>1, <1>2 DEF Followed

\* A check that finds no need for an update of a type is right.
LEMMA CheckIsRight ==
  ASSUME NEW n \in Clock, NEW rules \in RuleLists, NEW a, NEW chain, NEW times,
         NEW pending, Followed(chain, times, rules, a, n, pending),
         ~NeedsUpdate(times, n)
  PROVE  Followed(chain, times, rules, a, n, FALSE)
<1>1. PICK c : /\ Seen(c, n, pending)
               /\ chain = InForce(rules, a, c) /\ times = Times(rules, a, c)
  BY DEF Followed
<1>2. times.has = HasTimed(rules, a) /\ times.next = NextSwitch(rules, a, c)
  BY <1>1 DEF Times
<1>3. CASE ~HasTimed(rules, a)
  <2>1. /\ InForce(rules, a, c) = InForce(rules, a, n)
        /\ Times(rules, a, c) = Times(rules, a, n)
    BY <1>3, Untimed
  <2>. QED  BY <1>1, <2>1, FollowedNow
<1>4. CASE HasTimed(rules, a)
  <2>1. Before(n, NextSwitch(rules, a, c)) /\ ~(n.h = 0 /\ n.m = 0)
    BY <1>2, <1>4, ClockAssumption DEF NeedsUpdate
  <2>2. c \in Clock /\ c.day = n.day /\ ~Before(n, c)
    <3>1. CASE c \in Since(n)
      BY <3>1, SinceProperties
    <3>2. CASE c \notin Since(n)
      <4>1. PICK p \in Clock : NextMinute(p) = n /\ c \in Since(p)
        BY <1>1, <3>2 DEF Seen
      <4>2. c \in Clock /\ c.day = p.day /\ ~Before(p, c)
        BY <4>1, SinceProperties
      <4>. QED  BY <2>1, <4>1, <4>2, NextMinuteProperties
    <3>. QED  BY <3>1, <3>2
  <2>3. /\ InForce(rules, a, c) = InForce(rules, a, n)
        /\ Times(rules, a, c) = Times(rules, a, n)
    BY <2>1, <2>2, NothingSwitches
  <2>. QED  BY <1>1, <2>3, FollowedNow
<1>. QED  BY <1>3, <1>4


Pending ==
  cronDue \/ \E r \in Runs : run[r].cron /\ run[r].pc \in {"spawned", "started"}

FollowedType(t, times) == Followed(kernel[t], times, config[t], adv, now, Pending)

\* A run that has prepared the rules of a type: what it still has to submit, has
\* under way, or has installed.
Created(r, t) ==
  /\ run[r].log[t] = Times(config[t], adv, now)
  /\ run[r].pc = "prepared" => run[r].chain[t] = InForce(config[t], adv, now)
  /\ run[r].pc = "submit" => installed[t] = InForce(config[t], adv, now)
  /\ run[r].pc \in {"unlocked", "write"} => kernel[t] = InForce(config[t], adv, now)

\* The only run there is.
Active(r) ==
  /\ \A s \in Runs \ {r} : run[s] = Idle
  /\ run[r].pc # "idle"
  /\ run[r].pc # "spawned" => run[r].time = now /\ run[r].adv = adv
  /\ run[r].pc \in {"spawned", "started"} =>
       /\ run[r].cron => run[r].types = {}
       /\ \A t \in Types \ run[r].types : FollowedType(t, log[t])
  /\ run[r].pc \notin {"spawned", "started"} =>
       /\ \A t \in Types \ run[r].types : FollowedType(t, run[r].log[t])
       /\ run[r].pc # "read" => \A t \in run[r].types : Created(r, t)

PoliteInv ==
  \/ AllIdle /\ \A t \in Types : FollowedType(t, log[t])
  \/ \E r \in Runs : Active(r)

LEMMA PendingOfActive ==
  ASSUME NEW r \in Runs, \A s \in Runs \ {r} : run[s] = Idle
  PROVE  Pending <=> \/ cronDue
                     \/ run[r].cron /\ run[r].pc \in {"spawned", "started"}
<1>1. ~Idle.cron
  BY DEF Idle
<1>. QED  BY <1>1 DEF Pending

LEMMA PendingOfNone ==
  ASSUME AllIdle
  PROVE  Pending <=> cronDue
<1>1. ~Idle.cron
  BY DEF Idle
<1>. QED  BY <1>1 DEF Pending, AllIdle

\* A new run finds all types followed, but for those it is to create.
LEMMA SpawnPolite ==
  ASSUME TypeOK, PoliteInv, ~Overlap,
         NEW r \in Runs, NEW cron \in BOOLEAN, NEW types \in SUBSET Types,
         Spawn(r, cron, types), cron => types = {}, cronDue => cronDue' \/ cron,
         \A t \in Types \ types : config'[t] = config[t] /\ adv' = adv
  PROVE  PoliteInv'
<1>1. AllIdle /\ \A t \in Types : Followed(kernel[t], log[t], config[t], adv, now, Pending)
  <2>1. AllIdle
    BY DEF Spawn
  <2>2. \A s \in Runs : run[s].pc = "idle"
    BY <2>1 DEF AllIdle, Idle
  <2>. QED  BY <2>1, <2>2 DEF PoliteInv, Active, FollowedType
<1>2. /\ run'[r].pc = "spawned" /\ run'[r].cron = cron /\ run'[r].types = types
      /\ \A s \in Runs \ {r} : run'[s] = Idle
  BY <1>1 DEF Spawn, Idle, TypeOK, AllIdle
<1>3. UNCHANGED <<kernel, log, now>>
  BY DEF Spawn
<1>4. Pending => Pending'
  <2>1. Pending => cronDue
    BY <1>1, PendingOfNone
  <2>2. cronDue' \/ cron => Pending'
    BY <1>2 DEF Pending
  <2>. QED  BY <2>1, <2>2
<1>5. ASSUME NEW t \in Types \ types PROVE FollowedType(t, log[t])'
  <2>1. Followed(kernel[t], log[t], config[t], adv, now, Pending')
    BY <1>1, <1>4, FollowedPending DEF TypeOK
  <2>. QED  BY <1>3, <2>1 DEF FollowedType
<1>6. Active(r)'
  BY <1>2, <1>5 DEF Active
<1>. QED  BY <1>6 DEF PoliteInv

\* A step of a run leaves the types alone that it does not create.
LEMMA StepPolite ==
  ASSUME TypeOK, NEW r \in Runs, \A s \in Runs \ {r} : run[s] = Idle /\ run'[s] = Idle,
         UNCHANGED <<config, adv, now, cronDue>>,
         run[r].cron /\ run[r].pc \in {"spawned", "started"} =>
           run'[r].cron /\ run'[r].pc \in {"spawned", "started"},
         NEW t \in Types, kernel'[t] = kernel[t], NEW times,
         Followed(kernel[t], times, config[t], adv, now, Pending)
  PROVE  Followed(kernel[t], times, config[t], adv, now, Pending)'
<1>1. Pending => Pending'
  <2>1. Pending <=> cronDue \/ (run[r].cron /\ run[r].pc \in {"spawned", "started"})
    BY PendingOfActive
  <2>2. (cronDue \/ (run[r].cron /\ run[r].pc \in {"spawned", "started"}))' => Pending'
    BY DEF Pending
  <2>. QED  BY <2>1, <2>2
<1>2. Followed(kernel[t], times, config[t], adv, now, Pending')
  BY <1>1, FollowedPending DEF TypeOK
<1>. QED  BY <1>2

\* A step of the active run after it has read the log, to a later point.
LEMMA LaterPolite ==
  ASSUME TypeOK, NEW r \in Runs, Active(r),
         run[r].pc \notin {"spawned", "started"},
         \A s \in Runs \ {r} : run'[s] = run[s],
         UNCHANGED <<config, adv, now, cronDue>>,
         \A t \in Types \ run[r].types : kernel'[t] = kernel[t],
         run'[r].pc \notin {"idle", "spawned", "started", "read"},
         run'[r].types = run[r].types, run'[r].time = run[r].time,
         run'[r].adv = run[r].adv,
         \A t \in Types \ run[r].types : run'[r].log[t] = run[r].log[t],
         \A t \in run[r].types : Created(r, t)'
  PROVE  PoliteInv'
<1>1. \A s \in Runs \ {r} : run[s] = Idle /\ run'[s] = Idle
  BY DEF Active
<1>2. run'[r].time = now' /\ run'[r].adv = adv'
  BY DEF Active
<1>3. ASSUME NEW t \in Types \ run[r].types PROVE FollowedType(t, run[r].log[t])'
  <2>1. Followed(kernel[t], run[r].log[t], config[t], adv, now, Pending)
    BY DEF Active, FollowedType
  <2>2. Followed(kernel'[t], run[r].log[t], config'[t], adv', now', Pending')
    BY <1>1, <2>1, StepPolite
  <2>. QED  BY <2>2 DEF FollowedType
<1>4. Active(r)'
  BY <1>1, <1>2, <1>3 DEF Active
<1>. QED  BY <1>4 DEF PoliteInv

\* Without overlapping runs, the log and the chains always follow the clock.
THEOREM PoliteRuns == ASSUME ~Overlap PROVE Spec => []PoliteInv
<1>1. Init => PoliteInv
  <2>. SUFFICES ASSUME Init, NEW t \in Types PROVE FollowedType(t, log[t])
    BY DEF Init, PoliteInv, AllIdle
  <2>. QED  BY FollowedNow DEF Init, FollowedType
<1>2. TypeOK /\ TypeOK' /\ WholeInv /\ WholeInv' /\ PoliteInv /\ [Next]_vars
        => PoliteInv'
  <2>. SUFFICES ASSUME TypeOK, TypeOK', WholeInv, WholeInv', PoliteInv, [Next]_vars PROVE PoliteInv'
    OBVIOUS
  <2>0. ASSUME NEW r \in Runs, run[r].pc # "idle" PROVE Active(r)
    <3>1. Idle.pc = "idle"
      BY DEF Idle
    <3>. QED  BY <2>0, <3>1 DEF PoliteInv, AllIdle, Active
  <2>1. ASSUME NEW t \in Types, SaveRule(t) PROVE PoliteInv'
    <3>1. PICK r \in Runs : Spawn(r, FALSE, {t})
      BY <2>1 DEF SaveRule
    <3>2. /\ adv' = adv /\ cronDue' = cronDue
          /\ \A u \in Types \ {t} : config'[u] = config[u]
      BY <2>1 DEF SaveRule, TypeOK
    <3>. QED  BY <3>1, <3>2, SpawnPolite
  <2>2. CASE SaveSettings
    <3>1. PICK r \in Runs : Spawn(r, FALSE, Types)
      BY <2>2 DEF SaveSettings
    <3>2. cronDue' = cronDue
      BY <2>2 DEF SaveSettings
    <3>. QED  BY <3>1, <3>2, SpawnPolite
  <2>3. CASE Services
    <3>1. PICK r \in Runs : Spawn(r, FALSE, {})
      BY <2>3 DEF Services
    <3>2. UNCHANGED <<config, adv, cronDue>>
      BY <2>3 DEF Services
    <3>. QED  BY <3>1, <3>2, SpawnPolite
  <2>4. CASE Cron
    <3>1. PICK r \in Runs : Spawn(r, TRUE, {})
      BY <2>4 DEF Cron
    <3>2. UNCHANGED <<config, adv>>
      BY <2>4 DEF Cron
    <3>. QED  BY <3>1, <3>2, SpawnPolite
  <2>5. CASE Tick
    <3>1. /\ AllIdle /\ ~cronDue /\ UNCHANGED <<config, adv, kernel, log, run>>
          /\ now' = NextMinute(now) /\ cronDue' = (NextMinute(now).m \in CronMinutes)
      BY <2>5 DEF Tick
    <3>2. \A t \in Types : FollowedType(t, log[t])
      BY <3>1 DEF PoliteInv, AllIdle, Active, Idle
    <3>3. AllIdle'
      BY <3>1 DEF AllIdle
    <3>4. ~Pending /\ (Pending' <=> NextMinute(now).m \in CronMinutes)
      <4>1. ~Idle.cron
        BY DEF Idle
      <4>. QED  BY <3>1, <3>3, <4>1 DEF Pending, AllIdle
    <3>5. ASSUME NEW t \in Types PROVE FollowedType(t, log[t])'
      <4>1. Followed(kernel[t], log[t], config[t], adv, now, FALSE)
        BY <3>2, <3>4 DEF FollowedType, Followed, Seen
      <4>2. Followed(kernel[t], log[t], config[t], adv, NextMinute(now),
                     NextMinute(now).m \in CronMinutes)
        BY <4>1, FollowedTick DEF TypeOK
      <4>3. Followed(kernel[t], log[t], config[t], adv, NextMinute(now), Pending')
        BY <3>4, <4>2 DEF Followed, Seen
      <4>. QED  BY <3>1, <4>3 DEF FollowedType
    <3>. QED  BY <3>3, <3>5 DEF PoliteInv
  <2>6. ASSUME NEW r \in Runs, Start(r) PROVE PoliteInv'
    <3>1. /\ run[r].pc = "spawned" /\ UNCHANGED <<config, adv, kernel, log, now, cronDue>>
          /\ \A s \in Runs \ {r} : run'[s] = run[s]
      BY <2>6 DEF Start, TypeOK
    <3>2. Active(r)
      BY <2>0, <3>1
    <3>3. /\ run'[r].pc = "started" /\ run'[r].cron = run[r].cron
          /\ run'[r].types = run[r].types /\ run'[r].time = now /\ run'[r].adv = adv
      BY <2>6 DEF Start, TypeOK, RunType
    <3>4. \A s \in Runs \ {r} : run[s] = Idle /\ run'[s] = Idle
      BY <3>1, <3>2 DEF Active
    <3>5. ASSUME NEW t \in Types \ run[r].types PROVE FollowedType(t, log[t])'
      <4>1. Followed(kernel[t], log[t], config[t], adv, now, Pending)
        BY <3>1, <3>2 DEF Active, FollowedType
      <4>2. Followed(kernel'[t], log[t], config'[t], adv', now', Pending')
        BY <3>1, <3>3, <3>4, <4>1, StepPolite
      <4>. QED  BY <3>1, <4>2 DEF FollowedType
    <3>6. Active(r)'
      BY <3>1, <3>2, <3>3, <3>4, <3>5 DEF Active
    <3>. QED  BY <3>6 DEF PoliteInv
  <2>7. ASSUME NEW r \in Runs, ReadLog(r) PROVE PoliteInv'
    <3>1. /\ run[r].pc = "started" /\ UNCHANGED <<config, adv, kernel, log, now, cronDue>>
          /\ \A s \in Runs \ {r} : run'[s] = run[s]
      BY <2>7 DEF ReadLog, TypeOK
    <3>2. Active(r)
      BY <2>0, <3>1
    <3>3. \A s \in Runs \ {r} : run[s] = Idle /\ run'[s] = Idle
      BY <3>1, <3>2 DEF Active
    <3>4. ASSUME NEW t \in Types \ ChosenTypes(r)
          PROVE  Followed(kernel[t], log[t], config[t], adv, now, Pending')
      <4>1. CASE run[r].cron
        <5>1. run[r].types = {} /\ run[r].time = now
          BY <3>1, <3>2, <4>1 DEF Active
        <5>2. Followed(kernel[t], log[t], config[t], adv, now, Pending)
          BY <3>1, <3>2, <5>1 DEF Active, FollowedType
        <5>3. ~NeedsUpdate(log[t], now)
          BY <3>4, <4>1, <5>1 DEF ChosenTypes
        <5>4. Followed(kernel[t], log[t], config[t], adv, now, FALSE)
          BY <5>2, <5>3, CheckIsRight DEF TypeOK
        <5>. QED  BY <5>4, FollowedPending DEF TypeOK
      <4>2. CASE ~run[r].cron
        <5>1. Followed(kernel[t], log[t], config[t], adv, now, Pending)
          BY <3>1, <3>2, <3>4, <4>2 DEF Active, FollowedType, ChosenTypes
        <5>2. Followed(kernel'[t], log[t], config'[t], adv', now', Pending')
          BY <3>1, <3>3, <4>2, <5>1, StepPolite
        <5>. QED  BY <3>1, <5>2
      <4>. QED  BY <4>1, <4>2
    <3>5. CASE run[r].cron /\ ChosenTypes(r) = {}
      <4>1. AllIdle'
        BY <2>7, <3>3, <3>5 DEF ReadLog, AllIdle, TypeOK
      <4>2. \A t \in Types : FollowedType(t, log[t])'
        BY <3>1, <3>4, <3>5 DEF FollowedType
      <4>. QED  BY <4>1, <4>2 DEF PoliteInv
    <3>6. CASE ~(run[r].cron /\ ChosenTypes(r) = {})
      <4>. DEFINE times == [t \in Types |-> IF t \in ChosenTypes(r) THEN NoTimes ELSE log[t]]
      <4>1. run'[r] = [run[r] EXCEPT !.pc = "read", !.types = ChosenTypes(r),
                         !.flush = ChosenTypes(r), !.log = times]
        BY <2>7, <3>6 DEF ReadLog, TypeOK
      <4>2. \A t \in Types \ ChosenTypes(r) : times[t] = log[t]
        OBVIOUS
      <4>3. run[r] \in RunType /\ run[r].time = now /\ run[r].adv = adv
        BY <3>1, <3>2 DEF TypeOK, Active
      <4>. HIDE DEF times
      <4>4. /\ run'[r].pc = "read" /\ run'[r].types = ChosenTypes(r) /\ run'[r].log = times
            /\ run'[r].time = now /\ run'[r].adv = adv
        BY <4>1, <4>3 DEF RunType
      <4>5. \A t \in Types \ run'[r].types : FollowedType(t, run[r].log[t])'
        BY <3>1, <3>4, <4>2, <4>4 DEF FollowedType
      <4>6. Active(r)'
        BY <3>1, <3>3, <4>4, <4>5 DEF Active
      <4>. QED  BY <4>6 DEF PoliteInv
    <3>. QED  BY <3>5, <3>6
  <2>8. ASSUME NEW r \in Runs, Prepare(r) PROVE PoliteInv'
    <3>1. /\ run[r].pc = "read" /\ UNCHANGED <<config, adv, kernel, now, cronDue>>
          /\ \A s \in Runs \ {r} : run'[s] = run[s]
      BY <2>8 DEF Prepare, TypeOK
    <3>2. Active(r) /\ run[r] \in RunType
      BY <2>0, <3>1 DEF TypeOK
    <3>. DEFINE chain == [t \in Types |->
                  IF t \in run[r].types THEN InForce(config[t], run[r].adv, run[r].time)
                  ELSE {}]
                times == [t \in Types |->
                  IF t \in run[r].types THEN Times(config[t], run[r].adv, run[r].time)
                  ELSE run[r].log[t]]
    <3>3. run'[r] = [run[r] EXCEPT !.pc = "prepared", !.chain = chain, !.log = times]
      BY <2>8 DEF Prepare, TypeOK
    <3>4. run[r].time = now /\ run[r].adv = adv /\ run[r].types \subseteq Types
      BY <3>1, <3>2 DEF Active, RunType
    <3>5. \A t \in run[r].types : /\ chain[t] = InForce(config[t], adv, now)
                                 /\ times[t] = Times(config[t], adv, now)
      BY <3>4
    <3>6. \A t \in Types \ run[r].types : times[t] = run[r].log[t]
      OBVIOUS
    <3>. HIDE DEF chain, times
    <3>7. /\ run'[r].pc = "prepared" /\ run'[r].types = run[r].types
          /\ run'[r].time = run[r].time /\ run'[r].adv = run[r].adv
          /\ run'[r].chain = chain /\ run'[r].log = times
      BY <3>2, <3>3 DEF RunType
    <3>8. \A t \in run[r].types : Created(r, t)'
      BY <3>1, <3>5, <3>7 DEF Created
    <3>. QED  BY <3>1, <3>2, <3>6, <3>7, <3>8, LaterPolite
  <2>9. ASSUME NEW r \in Runs, TakeLock(r) PROVE PoliteInv'
    <3>1. /\ run[r].pc = "prepared" /\ UNCHANGED <<config, adv, kernel, now, cronDue>>
          /\ \A s \in Runs \ {r} : run'[s] = run[s]
      BY <2>9 DEF TakeLock, TypeOK
    <3>2. Active(r) /\ run[r].types \subseteq Types
      BY <2>0, <3>1 DEF TypeOK, RunType
    <3>3. /\ run'[r].pc = "submit" /\ run'[r].types = run[r].types
          /\ run'[r].time = run[r].time /\ run'[r].adv = run[r].adv
          /\ run'[r].log = run[r].log
      BY <2>9 DEF TakeLock, TypeOK, RunType
    <3>4. \A t \in run[r].types : installed'[t] = run[r].chain[t]
      BY <2>9, <3>2 DEF TakeLock
    <3>5. \A t \in run[r].types : Created(r, t)
      BY <3>1, <3>2 DEF Active
    <3>6. \A t \in run[r].types : Created(r, t)'
      BY <3>1, <3>3, <3>4, <3>5 DEF Created
    <3>. QED  BY <3>1, <3>2, <3>3, <3>6, LaterPolite
  <2>10. ASSUME NEW r \in Runs, Flush(r) PROVE PoliteInv'
    <3>1. /\ run[r].pc = "submit" /\ UNCHANGED <<config, adv, now, cronDue, installed>>
          /\ \A s \in Runs \ {r} : run'[s] = run[s]
      BY <2>10 DEF Flush, TypeOK
    <3>2. Active(r) /\ run[r] \in RunType
      BY <2>0, <3>1 DEF TypeOK
    <3>3. PICK t \in run[r].flush :
            /\ kernel' = [kernel EXCEPT ![t] = {}]
            /\ run' = [run EXCEPT ![r].flush = @ \ {t}]
      BY <2>10 DEF Flush
    <3>4. /\ run'[r].pc = "submit" /\ run'[r].types = run[r].types
          /\ run'[r].time = run[r].time /\ run'[r].adv = run[r].adv
          /\ run'[r].log = run[r].log
      BY <3>1, <3>2, <3>3 DEF TypeOK, RunType
    <3>5. \A u \in Types \ run[r].types : kernel'[u] = kernel[u]
      <4>1. t \in run[r].types
        <5>1. lock = r /\ lock # NoRun
          BY <3>1, UpdateAssumption DEF TypeOK
        <5>. QED  BY <3>3, <5>1 DEF WholeInv, Submission
      <4>. QED  BY <3>3, <4>1 DEF TypeOK, Chains
    <3>6. \A u \in run[r].types : Created(r, u)
      BY <3>1, <3>2 DEF Active
    <3>7. \A u \in run[r].types : Created(r, u)'
      BY <3>1, <3>4, <3>6 DEF Created
    <3>. QED  BY <3>1, <3>2, <3>4, <3>5, <3>7, LaterPolite
  <2>11. ASSUME NEW r \in Runs, Add(r) PROVE PoliteInv'
    <3>1. /\ run[r].pc = "submit" /\ UNCHANGED <<config, adv, now, cronDue, installed>>
          /\ \A s \in Runs \ {r} : run'[s] = run[s]
      BY <2>11 DEF Add, TypeOK
    <3>2. Active(r) /\ run[r] \in RunType
      BY <2>0, <3>1 DEF TypeOK
    <3>3. PICK t \in run[r].types : \E rule \in run[r].chain[t] :
            /\ kernel' = [kernel EXCEPT ![t] = @ \cup {rule}]
            /\ run' = [run EXCEPT ![r].chain[t] = @ \ {rule}]
      BY <2>11 DEF Add
    <3>4. /\ run'[r].pc = "submit" /\ run'[r].types = run[r].types
          /\ run'[r].time = run[r].time /\ run'[r].adv = run[r].adv
          /\ run'[r].log = run[r].log
      BY <3>1, <3>2, <3>3 DEF TypeOK, RunType
    <3>5. \A u \in Types \ run[r].types : kernel'[u] = kernel[u]
      BY <3>3 DEF TypeOK, Chains
    <3>6. \A u \in run[r].types : Created(r, u)
      BY <3>1, <3>2 DEF Active
    <3>7. \A u \in run[r].types : Created(r, u)'
      BY <3>1, <3>4, <3>6 DEF Created
    <3>. QED  BY <3>1, <3>2, <3>4, <3>5, <3>7, LaterPolite
  <2>12. ASSUME NEW r \in Runs, Unlock(r) PROVE PoliteInv'
    <3>1. /\ run[r].pc = "submit" /\ UNCHANGED <<config, adv, kernel, now, cronDue, installed>>
          /\ \A s \in Runs \ {r} : run'[s] = run[s]
      BY <2>12 DEF Unlock, TypeOK
    <3>2. Active(r) /\ run[r].types \subseteq Types
      BY <2>0, <3>1 DEF TypeOK, RunType
    <3>3. /\ run'[r].pc = "unlocked" /\ run'[r].types = run[r].types
          /\ run'[r].time = run[r].time /\ run'[r].adv = run[r].adv
          /\ run'[r].log = run[r].log
      BY <2>12 DEF Unlock, TypeOK, RunType
    <3>4. \A t \in run[r].types : Created(r, t)
      BY <3>1, <3>2 DEF Active
    <3>5. \A t \in run[r].types : kernel'[t] = installed'[t]
      BY <2>12, <3>2 DEF Unlock, WholeInv, Whole
    <3>6. \A t \in run[r].types : Created(r, t)'
      BY <3>1, <3>3, <3>4, <3>5 DEF Created
    <3>. QED  BY <3>1, <3>2, <3>3, <3>6, LaterPolite
  <2>13. ASSUME NEW r \in Runs, OpenLog(r) PROVE PoliteInv'
    <3>1. /\ run[r].pc = "unlocked" /\ UNCHANGED <<config, adv, kernel, now, cronDue, installed>>
          /\ \A s \in Runs \ {r} : run'[s] = run[s]
      BY <2>13 DEF OpenLog, TypeOK
    <3>2. Active(r) /\ run[r].types \subseteq Types
      BY <2>0, <3>1 DEF TypeOK, RunType
    <3>3. /\ run'[r].pc = "write" /\ run'[r].types = run[r].types
          /\ run'[r].time = run[r].time /\ run'[r].adv = run[r].adv
          /\ run'[r].log = run[r].log
      BY <2>13 DEF OpenLog, TypeOK, RunType
    <3>4. \A t \in run[r].types : Created(r, t)
      BY <3>1, <3>2 DEF Active
    <3>6. \A t \in run[r].types : Created(r, t)'
      BY <3>1, <3>3, <3>4 DEF Created
    <3>. QED  BY <3>1, <3>2, <3>3, <3>6, LaterPolite
  <2>14. ASSUME NEW r \in Runs, WriteLog(r) PROVE PoliteInv'
    <3>1. /\ run[r].pc = "write" /\ UNCHANGED <<config, adv, kernel, now, cronDue>>
          /\ run'[r] = Idle /\ log' = run[r].log
          /\ \A s \in Runs \ {r} : run'[s] = run[s]
      BY <2>14 DEF WriteLog, TypeOK
    <3>2. Active(r)
      BY <2>0, <3>1
    <3>3. \A s \in Runs \ {r} : run[s] = Idle /\ run'[s] = Idle
      BY <3>1, <3>2 DEF Active
    <3>4. ASSUME NEW t \in Types PROVE FollowedType(t, log[t])'
      <4>1. CASE t \in run[r].types
        <5>1. Created(r, t)
          BY <3>1, <3>2, <4>1 DEF Active
        <5>2. Followed(kernel[t], run[r].log[t], config[t], adv, now, Pending')
          BY <3>1, <5>1, FollowedNow DEF Created, TypeOK
        <5>. QED  BY <3>1, <5>2 DEF FollowedType
      <4>2. CASE t \notin run[r].types
        <5>1. Followed(kernel[t], run[r].log[t], config[t], adv, now, Pending)
          BY <3>1, <3>2, <4>2 DEF Active, FollowedType
        <5>2. Followed(kernel'[t], run[r].log[t], config'[t], adv', now', Pending')
          BY <3>1, <3>3, <5>1, StepPolite
        <5>. QED  BY <3>1, <5>2 DEF FollowedType
      <4>. QED  BY <4>1, <4>2
    <3>5. AllIdle'
      BY <3>1, <3>3 DEF AllIdle
    <3>. QED  BY <3>4, <3>5 DEF PoliteInv
  <2>15. CASE UNCHANGED vars
    BY <2>15 DEF vars, PoliteInv, Active, AllIdle, FollowedType, Pending, Created
  <2>. QED
    BY <2>1, <2>2, <2>3, <2>4, <2>5, <2>6, <2>7, <2>8, <2>9, <2>10, <2>11, <2>12,
       <2>13, <2>14, <2>15 DEF Next, Step
<1>. QED  BY <1>1, <1>2, TypeCorrect, WholeInductive, PTL DEF Spec

\* When runs do not overlap, every rule begins and ends by the next check of
\* cron, for any rules, any number of types, and any length of hours and days.
THEOREM RulesSwitchInTime == ASSUME ~Overlap PROVE Spec => []SwitchedInTime
<1>1. PoliteInv => SwitchedInTime
  <2>. SUFFICES ASSUME PoliteInv, AllIdle, ~cronDue, NEW t \in Types
                PROVE  \E c \in Since(now) : kernel[t] = InForce(config[t], adv, c)
    BY DEF SwitchedInTime, Quiet
  <2>1. FollowedType(t, log[t])
    BY DEF PoliteInv, AllIdle, Active, Idle
  <2>2. ~Pending
    BY PendingOfNone
  <2>. QED  BY <2>1, <2>2 DEF FollowedType, Followed, Seen
<1>. QED  BY <1>1, PoliteRuns, PTL

\* When runs do not overlap, the log knows of each type whether it has rules with
\* a time frame, which is all that the check of cron goes by.
THEOREM LogIsRight == ASSUME ~Overlap PROVE Spec => []LogAgrees
<1>1. PoliteInv => LogAgrees
  <2>. SUFFICES ASSUME PoliteInv, AllIdle, NEW t \in Types
                PROVE  log[t].has = HasTimed(config[t], adv)
    BY DEF LogAgrees, Quiet
  <2>1. FollowedType(t, log[t])
    BY DEF PoliteInv, AllIdle, Active, Idle
  <2>. QED  BY <2>1 DEF FollowedType, Followed, Times
<1>. QED  BY <1>1, PoliteRuns, PTL

-----------------------------------------------------------------------------
(* The search for the next switch.  The loop is a recursive function; what  *)
(* is shown of it for every length goes by the first length it is false of. *)

\* x is the earliest of the times S of today, or there is none.
IsEarliest(x, S) == x \in S \cup {Never} /\ \A d \in S : ~Before(d, x)

\* One comparison of the loop.
LEMMA NearestEarliest ==
  ASSUME NEW c \in Clock, NEW S, S \subseteq DayTime, \A d \in S : Before(c, d),
         NEW x, IsEarliest(x, S), NEW e \in DayTime
  PROVE  IsEarliest(Nearest(e, c, x), S \cup {d \in {e} : Before(c, d)})
<1>. DEFINE S2 == S \cup {d \in {e} : Before(c, d)}
<1>1. x \in DayTime \cup {Never} /\ (x # Never => Before(c, x))
  BY DEF IsEarliest
<1>2. Before(c, x)
  BY <1>1, ClockAssumption DEF Before, Never, Clock
<1>3. Nearer(e, c, x) <=> Before(c, e) /\ Before(e, x)
  BY <1>1, <1>2, ClockAssumption DEF Nearer, Before, Never, DayTime, Clock
<1>4. Nearest(e, c, x) = IF Before(c, e) /\ Before(e, x) THEN e ELSE x
  BY <1>3 DEF Nearest, DayTime
<1>5. CASE Before(c, e) /\ Before(e, x)
  <2>1. ASSUME NEW d \in S2 PROVE ~Before(d, e)
    <3>1. d \in DayTime /\ (d = e \/ ~Before(d, x))
      BY <2>1 DEF IsEarliest
    <3>. QED
      BY <1>1, <1>5, <3>1, ClockAssumption DEF Before, Never, DayTime
  <2>. QED  BY <1>4, <1>5, <2>1 DEF IsEarliest
<1>6. CASE ~(Before(c, e) /\ Before(e, x))
  BY <1>4, <1>6 DEF IsEarliest
<1>. QED  BY <1>5, <1>6

Loop(rules, a, c, k, g) ==
  g = [i \in 0 .. k |-> IF i = 0 THEN Never ELSE Consider(g[i - 1], rules[i], a, c)]

LEMMA LoopRuns ==
  ASSUME NEW rules, Len(rules) \in Nat, NEW a, NEW c
  PROVE  Loop(rules, a, c, Len(rules), Searched(rules, a, c))
<1>. DEFINE Fails == {k \in 0 .. Len(rules) : ~\E g : Loop(rules, a, c, k, g)}
<1>1. Fails = {}
  <2>. SUFFICES ASSUME Fails # {} PROVE FALSE
    OBVIOUS
  <2>1. Fails \subseteq Nat
    OBVIOUS
  <2>2. PICK k \in Fails : \A j \in Fails : k <= j
    <3>. HIDE DEF Fails
    <3>. QED  BY <2>1, Least
  <2>3. k \in Nat /\ k \in 0 .. Len(rules)
    OBVIOUS
  <2>4. k # 0
    <3>1. Loop(rules, a, c, 0, [i \in 0 .. 0 |-> Never])
      BY DEF Loop
    <3>. QED  BY <3>1
  <2>5. k - 1 \in 0 .. Len(rules) /\ k - 1 \notin Fails
    BY <2>2, <2>3, <2>4
  <2>6. PICK h : Loop(rules, a, c, k - 1, h)
    BY <2>5
  <2>. DEFINE g == [i \in 0 .. k |->
                      IF i = k THEN Consider(h[k - 1], rules[k], a, c) ELSE h[i]]
  <2>7. ASSUME NEW i \in 0 .. k
        PROVE  g[i] = IF i = 0 THEN Never ELSE Consider(g[i - 1], rules[i], a, c)
    <3>1. CASE i = k
      BY <2>3, <2>4, <3>1
    <3>2. CASE i # k
      <4>1. i \in 0 .. k - 1 /\ (i # 0 => i - 1 \in 0 .. k /\ i - 1 # k)
        BY <2>3, <3>2
      <4>2. h[i] = IF i = 0 THEN Never ELSE Consider(h[i - 1], rules[i], a, c)
        BY <2>6, <4>1 DEF Loop
      <4>. QED  BY <3>2, <4>1, <4>2
    <3>. QED  BY <3>1, <3>2
  <2>8. Loop(rules, a, c, k, g)
    BY <2>7 DEF Loop
  <2>. QED  BY <2>8
<1>2. \E g : Loop(rules, a, c, Len(rules), g)
  BY <1>1
<1>. QED  BY <1>2 DEF Searched, Loop

\* The times the first k rules have to come.
ComingOf(rules, a, c, k) ==
  {d \in DayTime : /\ Before(c, d)
                   /\ \E i \in 1 .. k : /\ Visible(rules[i], a) /\ Timed(rules[i], a)
                                        /\ InDays(rules[i], c)
                                        /\ d \in {rules[i].start, rules[i].end}}

LEMMA LoopFinds ==
  ASSUME NEW rules \in RuleLists, NEW a, NEW c \in Clock, NEW k \in 0 .. Len(rules)
  PROVE  IsEarliest(Searched(rules, a, c)[k], ComingOf(rules, a, c, k))
<1>. DEFINE Found(i) == IsEarliest(Searched(rules, a, c)[i], ComingOf(rules, a, c, i))
            Fails == {i \in 0 .. Len(rules) : ~Found(i)}
<1>1. Len(rules) \in Nat /\ DOMAIN rules = 1 .. Len(rules)
  BY UpdateAssumption
<1>2. /\ Searched(rules, a, c)[0] = Never
      /\ \A i \in 1 .. Len(rules) :
           Searched(rules, a, c)[i] = Consider(Searched(rules, a, c)[i - 1], rules[i], a, c)
  BY <1>1, LoopRuns DEF Loop
<1>3. Found(0)
  BY <1>2 DEF IsEarliest, ComingOf
<1>4. ASSUME NEW i \in 1 .. Len(rules), Found(i - 1)
      PROVE  Found(i)
  <2>. DEFINE r == rules[i]  x == Searched(rules, a, c)[i - 1]
              S == ComingOf(rules, a, c, i - 1)
              S1 == S \cup {d \in {r.start} : Before(c, d)}
              S2 == S1 \cup {d \in {r.end} : Before(c, d)}
  <2>1. r.start \in DayTime /\ r.end \in DayTime
    BY <1>1, UpdateAssumption
  <2>2. \A j : j \in 1 .. i <=> j \in 1 .. i - 1 \/ j = i
    BY <1>1
  <2>3. CASE Visible(r, a) /\ Timed(r, a) /\ InDays(r, c)
    <3>1. ComingOf(rules, a, c, i) = S2
      BY <2>1, <2>2, <2>3 DEF ComingOf
    <3>2. S \subseteq DayTime /\ \A d \in S : Before(c, d)
      BY DEF ComingOf
    <3>3. S1 \subseteq DayTime /\ \A d \in S1 : Before(c, d)
      BY <2>1, <3>2
    <3>4. IsEarliest(x, S)
      BY <1>4
    <3>5. IsEarliest(Nearest(r.start, c, x), S1)
      <4>. HIDE DEF r, x, S
      <4>. QED  BY <2>1, <3>2, <3>4, NearestEarliest
    <3>6. IsEarliest(Nearest(r.end, c, Nearest(r.start, c, x)), S2)
      <4>. HIDE DEF r, x, S, S1
      <4>. QED  BY <2>1, <3>3, <3>5, NearestEarliest
    <3>7. Searched(rules, a, c)[i] = Nearest(r.end, c, Nearest(r.start, c, x))
      BY <1>2, <2>3 DEF Consider
    <3>. QED  BY <3>1, <3>6, <3>7
  <2>4. CASE ~(Visible(r, a) /\ Timed(r, a) /\ InDays(r, c))
    <3>1. ComingOf(rules, a, c, i) = S
      BY <2>2, <2>4 DEF ComingOf
    <3>2. Searched(rules, a, c)[i] = x
      BY <1>2, <2>4 DEF Consider
    <3>. QED  BY <1>4, <3>1, <3>2
  <2>. QED  BY <2>3, <2>4
<1>5. Fails = {}
  <2>. SUFFICES ASSUME Fails # {} PROVE FALSE
    OBVIOUS
  <2>1. Fails \subseteq Nat
    BY <1>1
  <2>2. PICK i \in Fails : \A j \in Fails : i <= j
    <3>. HIDE DEF Fails
    <3>. QED  BY <2>1, Least
  <2>3. i \in 1 .. Len(rules) /\ i - 1 \in 0 .. Len(rules) /\ ~(i <= i - 1)
    BY <1>1, <1>3
  <2>4. Found(i - 1)
    BY <2>2, <2>3
  <2>. QED  BY <1>4, <2>3, <2>4
<1>. QED  BY <1>5

\* Whatever rules and whatever their order, the loop over the rules of a type
\* ends with the earliest time at which one of them still begins or ends today
\* (puzzleFwRules.pl:346-445).
THEOREM SearchIsRight == Spec => []SearchFindsNearest
<1>1. ASSUME NEW rules \in RuleLists, NEW a, NEW c \in Clock
      PROVE  SearchSwitch(rules, a, c) = NextSwitch(rules, a, c)
  <2>. DEFINE x == SearchSwitch(rules, a, c)
              S == Coming(rules, a, c)
  <2>1. Len(rules) \in Nat /\ DOMAIN rules = 1 .. Len(rules)
    BY UpdateAssumption
  <2>2. S = ComingOf(rules, a, c, Len(rules))
    BY <2>1 DEF Coming, ComingOf
  <2>3. IsEarliest(x, S)
    BY <2>1, <2>2, LoopFinds DEF SearchSwitch
  <2>4. S \subseteq DayTime
    BY DEF Coming
  <2>5. ASSUME S # {}
        PROVE  x = NextSwitch(rules, a, c)
    <3>1. PICK d \in S : d = NextSwitch(rules, a, c) /\ \A e \in S : ~Before(e, d)
      BY <2>5, NextSwitchProperties
    <3>2. Before(d, Never)
      BY <2>4, <3>1, ClockAssumption DEF Before, Never, DayTime
    <3>3. x \in S /\ ~Before(d, x) /\ ~Before(x, d)
      BY <2>3, <3>1, <3>2 DEF IsEarliest
    <3>4. x \in DayTime /\ d \in DayTime
      BY <2>4, <3>1, <3>3
    <3>5. x.h = d.h /\ x.m = d.m
      BY <3>3, <3>4, ClockAssumption DEF Before, DayTime
    <3>6. x = d
      BY <3>4, <3>5 DEF DayTime
    <3>. QED  BY <3>1, <3>6
  <2>. QED  BY <2>3, <2>5, NextSwitchProperties DEF IsEarliest
<1>2. TypeOK => SearchFindsNearest
  BY <1>1 DEF TypeOK, SearchFindsNearest
<1>. QED  BY <1>2, TypeCorrect, PTL
=============================================================================
