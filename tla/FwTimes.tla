------------------------------- MODULE FwTimes -------------------------------
(***************************************************************************)
(* The time frames of the firewall rules, as puzzleFwRules.pl computes     *)
(* them: is a rule in its time frame, when is the next time that one of    *)
(* the rules of a type begins or ends, and do the rules of a type need an  *)
(* update.                                                                 *)
(*                                                                         *)
(* A time is the record of $hour and $minute; a clock has the day as well. *)
(* The day counts in a cycle and stands for both the day of the week and   *)
(* the day of the month.  A rule is                                        *)
(*   custom     it is hidden outside of the advanced mode (hideAdvRule),   *)
(*   timeframe  TIMEFRAME_ENABLED,                                         *)
(*   week       DAY_TYPE is weekDays, then days is the set of its days,    *)
(*              else the rule holds from first to last of the month,       *)
(*   start, end START_ and END_ of HOUR and MINUTE.                        *)
(* Rules that are not ENABLED are left out of the lists of rules.          *)
(***************************************************************************)
EXTENDS Naturals, Sequences

CONSTANTS
  HoursPerDay,     \* 24
  MinutesPerHour,  \* 60
  Days,            \* the cycle of days is 0 .. Days - 1
  CronMinutes,     \* the minutes of the hour that are meant by */5
  MidnightWindow   \* 5: so many minutes from 0:00 on are taken for midnight

ASSUME ClockAssumption ==
  /\ HoursPerDay \in Nat \ {0}
  /\ MinutesPerHour \in Nat \ {0}
  /\ Days \in Nat \ {0}
  /\ 0 \in CronMinutes
  /\ MidnightWindow \in Nat \ {0}

DayTime == [h : 0 .. HoursPerDay - 1, m : 0 .. MinutesPerHour - 1]
Clock == [day : 0 .. Days - 1, h : 0 .. HoursPerDay - 1, m : 0 .. MinutesPerHour - 1]

\* '99' for hour and minute: no switch any more today.
Never == [h |-> HoursPerDay, m |-> MinutesPerHour]

\* Time a is before time b.
Before(a, b) == a.h < b.h \/ (a.h = b.h /\ a.m < b.m)

InDayTime(start, end, now) ==
  IF start.h = end.h
  THEN /\ start.m < end.m =>
            now.h = start.h /\ start.m <= now.m /\ now.m < end.m
       /\ start.m > end.m =>
            ~(now.h = start.h /\ end.m <= now.m /\ now.m < start.m)
  ELSE /\ IF start.h < end.h
          THEN start.h <= now.h /\ now.h <= end.h
          ELSE ~(end.h < now.h /\ now.h < start.h)
       /\ now.h = start.h => now.m >= start.m
       /\ now.h = end.h => now.m < end.m

InDays(r, now) ==
  IF r.week
  THEN now.day \in r.days
  ELSE CASE r.first < r.last -> r.first <= now.day /\ now.day <= r.last
         [] r.first > r.last -> now.day <= r.last \/ r.first <= now.day
         [] r.first = r.last -> now.day = r.first

Visible(r, adv) == adv \/ ~r.custom
Timed(r, adv) == adv /\ r.timeframe

\* The times of today at which a rule of a list is still to begin or to end.
Coming(rules, adv, now) ==
  {c \in DayTime : /\ Before(now, c)
                   /\ \E i \in DOMAIN rules :
                        /\ Visible(rules[i], adv) /\ Timed(rules[i], adv)
                        /\ InDays(rules[i], now)
                        /\ c \in {rules[i].start, rules[i].end}}

\* "search nearest time in the future": what the loop over the rules finds.
NextSwitch(rules, adv, now) ==
  LET coming == Coming(rules, adv, now)
  IN  IF coming = {} THEN Never
      ELSE CHOOSE c \in coming : \A d \in coming : ~Before(d, c)

HasTimed(rules, adv) ==
  \E i \in DOMAIN rules : Visible(rules[i], adv) /\ Timed(rules[i], adv)

\* The rules of a list that are in force at time now, each with its place in
\* the list: iptables -A appends them in the order of their places.
InForce(rules, adv, now) ==
  {<<i, rules[i]>> : i \in {j \in DOMAIN rules :
     /\ Visible(rules[j], adv)
     /\ Timed(rules[j], adv) =>
          /\ InDays(rules[j], now)
          /\ InDayTime(rules[j].start, rules[j].end, now)}}

\* What the run that created the rules of a type leaves in the time frame log.
Times(rules, adv, now) ==
  [has |-> HasTimed(rules, adv), next |-> NextSwitch(rules, adv, now)]

NoTimes == [has |-> FALSE, next |-> Never]

\* Mutation: no check at midnight.
NeedsUpdateToday(times, now) ==
  /\ times.has
  /\ ~Before(now, times.next)

\* The check of cron: the rules of this type need an update.
NeedsUpdate(times, now) ==
  /\ times.has
  /\ \/ ~Before(now, times.next)
     \/ now.h = 0 /\ now.m < MidnightWindow

-----------------------------------------------------------------------------
(* The loop that searches the next switch, rule by rule as in the code. *)

\* c is still to come today and nearer than next.
Nearer(c, now, next) ==
  \/ now.h < c.h /\ (c.h < next.h \/ (c.h = next.h /\ c.m < next.m))
  \/ now.h = c.h /\ now.m < c.m /\ (c.h < next.h \/ c.m < next.m)

\* Mutation: the minute of the switch is not taken over.
NearestHour(c, now, next) ==
  IF Nearer(c, now, next) THEN [next EXCEPT !.h = c.h] ELSE next

Nearest(c, now, next) ==
  IF Nearer(c, now, next) THEN [h |-> c.h, m |-> c.m] ELSE next

Consider(next, r, adv, now) ==
  IF Visible(r, adv) /\ Timed(r, adv) /\ InDays(r, now)
  THEN Nearest(r.end, now, Nearest(r.start, now, next))
  ELSE next

\* What the loop has found after the first i rules.
Searched(rules, adv, now) ==
  LET found[i \in 0 .. Len(rules)] ==
        IF i = 0 THEN Never ELSE Consider(found[i - 1], rules[i], adv, now)
  IN  found

SearchSwitch(rules, adv, now) == Searched(rules, adv, now)[Len(rules)]
=============================================================================
