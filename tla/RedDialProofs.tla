--------------------------- MODULE RedDialProofs ---------------------------
(***************************************************************************)
(* What RedDial promises for any number of checkers, pppds and profiles.   *)
(***************************************************************************)
EXTENDS RedDial, TLAPS

\* A checker that has not counted its attempt yet is below MAXRETRIES.
Counting == {"sync", "watch", "ok", "abort", "redial", "wait", "count"} \cup Stopping

BelowMax == \A c \in Checkers : pc[c] \in Counting => cc[c].att < MaxRetries

\* A checker past its first step has read the settings of a profile.
HasRead == \A c \in Checkers : pc[c] \notin {"off", "begin"} => cc[c].prof \in Profiles

\* The branch of a checker whose dial failed before pppd started.
NoSyncBranch ==
    \A c \in Checkers : cc[c].nosync => pc[c] \in Stopping \cup {"clear"} \cup Starting

TypeInv == TypeOK /\ BelowMax /\ HasRead /\ NoSyncBranch


\* Blank is a state of the variables of a checker.
LEMMA BlankLocal == Blank \in Local /\ Blank.nosync = FALSE /\ Blank.late = FALSE
  BY Parameters DEF Blank, Local

\* Setting a flag leaves the rest of the variables of a checker alone.
LEMMA FlagUpdate ==
  ASSUME NEW r \in Local, NEW b \in BOOLEAN
  PROVE  /\ [r EXCEPT !.late = b] \in Local
         /\ [r EXCEPT !.late = b].att = r.att
         /\ [r EXCEPT !.late = b].prof = r.prof
         /\ [r EXCEPT !.late = b].nosync = r.nosync
         /\ [r EXCEPT !.late = b].late = b
         /\ [r EXCEPT !.nosync = b] \in Local
         /\ [r EXCEPT !.nosync = b].att = r.att
         /\ [r EXCEPT !.nosync = b].prof = r.prof
         /\ [r EXCEPT !.nosync = b].late = r.late
         /\ [r EXCEPT !.nosync = b].nosync = b
  BY DEF Local

\* The parts of the type invariant a change of place can disturb.
LEMMA GoOrEndType ==
  ASSUME TypeInv, NEW p \in Procs, NEW l \in Labels, GoOrEnd(p, l)
  PROVE  /\ pc' \in [Procs -> Labels]
         /\ cc' \in [Checkers -> Local]
         /\ \A c \in Checkers : pc'[c] = (IF c = p THEN l ELSE pc[c])
         /\ \A c \in Checkers : pc'[c] # "off" => cc'[c] = cc[c]
  BY BlankLocal DEF TypeInv, TypeOK, GoOrEnd, Goto, Procs

LEMMA TypeInit == Init => TypeInv
  <1> SUFFICES ASSUME Init PROVE TypeInv
    OBVIOUS
  <1>1. pc \in [Procs -> Labels] /\ cc \in [Checkers -> Local]
    BY BlankLocal DEF Init, Labels
  <1>2. TypeOK
    <2>1. files \subseteq Flags /\ profile \in Profiles /\ pidfile \in Pppds \cup {NoPid}
      BY DEF Init
    <2>2. attempts \in 0 .. MaxRetries - 1 /\ requests \in 0 .. MaxRequests
      BY Parameters DEF Init
    <2>3. /\ ppp \in [Pppds -> {"off", "dial", "up", "closing", "ending"}]
          /\ script \in [Pppds -> {"none", "up", "down"}]
      BY DEF Init
    <2>4. started \in BOOLEAN /\ wanted \in BOOLEAN /\ final \in BOOLEAN
      BY DEF Init
    <2> QED BY <1>1, <2>1, <2>2, <2>3, <2>4 DEF TypeOK
  <1>3. BelowMax /\ HasRead /\ NoSyncBranch
    BY Parameters, BlankLocal DEF Init, BelowMax, HasRead, NoSyncBranch, Counting, Procs, Stopping
  <1> QED
    BY <1>2, <1>3 DEF TypeInv

LEMMA TypeNext == TypeInv /\ [Next]_vars => TypeInv'
  <1> SUFFICES ASSUME TypeInv, [Next]_vars PROVE TypeInv'
    OBVIOUS
  <1> USE Parameters DEF TypeInv, TypeOK, BelowMax, HasRead, NoSyncBranch, Counting, Labels, Flags,
        Procs, Starting, Stopping, Checking
  <1>1. ASSUME NEW p \in Procs, StartCheck(p) PROVE TypeInv'
    <2>1. CASE StartReturns(p, FALSE)
      BY <1>1, <2>1, BlankLocal DEF StartCheck, StartReturns, GoOrEnd, Goto
    <2>2. CASE Goto(p, "mark") /\ UNCHANGED <<cc, started>>
      BY <1>1, <2>2 DEF StartCheck, Goto
    <2> QED BY <1>1, <2>1, <2>2 DEF StartCheck
  <1>2. ASSUME NEW p \in Procs, StartMark(p) PROVE TypeInv'
    <2>1. PICK c \in Checkers :
             pc[c] = "off" /\ pc' = [pc EXCEPT ![p] = "dial", ![c] = "begin"]
      BY <1>2 DEF StartMark, Idle
    <2>2. cc[c].nosync = FALSE /\ cc' = cc
      BY <1>2, <2>1 DEF StartMark, Local
    <2>3. BelowMax'
      BY <2>1, <2>2
    <2>4. HasRead'
      BY <1>2, <2>1, <2>2 DEF StartMark
    <2>5. NoSyncBranch'
      BY <2>1, <2>2
    <2> QED BY <1>2, <2>1, <2>3, <2>4, <2>5 DEF StartMark
  <1>3. ASSUME NEW p \in Procs, StartFails(p) PROVE TypeInv'
    BY <1>3, BlankLocal DEF StartFails, Goto, GoOrEnd, StartReturns, StopReturns
  <1>4. ASSUME NEW p \in Procs, StartDials(p) PROVE TypeInv'
    BY <1>4, BlankLocal DEF StartDials, Goto, GoOrEnd, StartReturns, StopReturns
  <1>5. ASSUME NEW p \in Procs, StopDrop(p) PROVE TypeInv'
    BY <1>5 DEF StopDrop, Goto, GoOrEnd, StartReturns, StopReturns
  <1>6. ASSUME NEW p \in Procs, StopKeep(p) PROVE TypeInv'
    BY <1>6 DEF StopKeep, Goto, GoOrEnd, StartReturns, StopReturns
  <1>7. ASSUME NEW p \in Procs, StopKill(p) PROVE TypeInv'
    BY <1>7 DEF StopKill, Goto, GoOrEnd, StartReturns, StopReturns
  <1>8. ASSUME NEW c \in Checkers, Clear(c) PROVE TypeInv'
    BY <1>8 DEF Clear, Goto, GoOrEnd, StartReturns, StopReturns
  <1>9. ASSUME NEW c \in Checkers, CheckerBegins(c) PROVE TypeInv'
    BY <1>9, BlankLocal DEF Local, CheckerBegins, Goto, GoOrEnd, StartReturns, StopReturns
  <1>10. ASSUME NEW c \in Checkers, SyncTurn(c) PROVE TypeInv'
    <2>1. CASE GoOrEnd(c, "watch") \/ GoOrEnd(c, "off")
      BY <1>10, <2>1, BlankLocal DEF SyncTurn, GoOrEnd, Goto
    <2>2. CASE Goto(c, "drop") /\ cc' = [cc EXCEPT ![c].nosync = TRUE]
      <3>1. /\ cc' \in [Checkers -> Local]
            /\ \A d \in Checkers : /\ cc'[d].att = cc[d].att
                                   /\ cc'[d].prof = cc[d].prof
                                   /\ d # c => cc'[d] = cc[d]
        <4> DEFINE r == [cc[c] EXCEPT !.nosync = TRUE]
        <4>1. r \in Local /\ r.att = cc[c].att /\ r.prof = cc[c].prof
          BY FlagUpdate
        <4>2. cc' = [cc EXCEPT ![c] = r]
          BY <2>2
        <4> HIDE DEF r
        <4> QED BY <4>1, <4>2
      <3> QED BY <1>10, <2>2, <3>1 DEF SyncTurn, Goto
    <2>3. CASE UNCHANGED pc /\ cc' = [cc EXCEPT ![c].late = TRUE]
      <3>1. /\ cc' \in [Checkers -> Local]
            /\ \A d \in Checkers : /\ cc'[d].att = cc[d].att
                                   /\ cc'[d].prof = cc[d].prof
                                   /\ cc'[d].nosync = cc[d].nosync
        <4> DEFINE r == [cc[c] EXCEPT !.late = TRUE]
        <4>1. /\ r \in Local /\ r.att = cc[c].att
              /\ r.prof = cc[c].prof /\ r.nosync = cc[c].nosync
          BY FlagUpdate
        <4>2. cc' = [cc EXCEPT ![c] = r]
          BY <2>3
        <4> HIDE DEF r
        <4> QED BY <4>1, <4>2
      <3> QED BY <1>10, <2>3, <3>1 DEF SyncTurn
    <2> QED BY <1>10, <2>1, <2>2, <2>3 DEF SyncTurn
  <1>11. ASSUME NEW c \in Checkers, WatchTurn(c) PROVE TypeInv'
    BY <1>11, BlankLocal DEF WatchTurn, Goto, GoOrEnd, StartReturns, StopReturns
  <1>12. ASSUME NEW c \in Checkers, CheckerSucceeds(c) PROVE TypeInv'
    BY <1>12, BlankLocal DEF CheckerSucceeds, Goto, GoOrEnd, StartReturns, StopReturns
  <1>13. ASSUME NEW c \in Checkers, CheckerAborts(c) PROVE TypeInv'
    <2>1. CASE Goto(c, "redial") /\ UNCHANGED <<cc, started>>
      BY <1>13, <2>1 DEF CheckerAborts, Goto
    <2>2. ASSUME NEW p \in Procs, pc[p] \in Starting,
                 pc' = [pc EXCEPT ![c] = "redial", ![p] = "off"],
                 started' = (started /\ p # Svc),
                 cc' = [d \in Checkers |-> IF d = p THEN Blank ELSE cc[d]]
          PROVE  TypeInv'
      BY <1>13, <2>2, BlankLocal DEF CheckerAborts
    <2> QED BY <1>13, <2>1, <2>2 DEF CheckerAborts
  <1>14. ASSUME NEW c \in Checkers, CheckerRedials(c) PROVE TypeInv'
    BY <1>14 DEF CheckerRedials, Goto, GoOrEnd, StartReturns, StopReturns
  <1>15. ASSUME NEW c \in Checkers, CheckerWaits(c) PROVE TypeInv'
    BY <1>15, BlankLocal DEF CheckerWaits, Goto, GoOrEnd, StartReturns, StopReturns
  <1>16. ASSUME NEW c \in Checkers, CheckerCounts(c) PROVE TypeInv'
    BY <1>16, BlankLocal DEF Local, CheckerCounts, Goto, GoOrEnd, StartReturns, StopReturns
  <1>17. ASSUME NEW c \in Checkers, CheckerBackup(c) PROVE TypeInv'
    <2>1. profile' \in Profiles
      BY <1>17 DEF CheckerBackup
    <2>2. GoOrEnd(c, "off") \/ GoOrEnd(c, "holdoff")
      BY <1>17 DEF CheckerBackup
    <2> QED BY <1>17, <2>1, <2>2, BlankLocal DEF CheckerBackup, GoOrEnd, Goto
  <1>18. ASSUME NEW c \in Checkers, CheckerHoldoff(c) PROVE TypeInv'
    BY <1>18, BlankLocal DEF CheckerHoldoff, Goto, GoOrEnd, StartReturns, StopReturns
  <1>19. ASSUME NEW q \in Pppds, PppUp(q) PROVE TypeInv'
    BY <1>19 DEF PppUp, Goto, GoOrEnd, StartReturns, StopReturns
  <1>20. ASSUME NEW q \in Pppds, PppFails(q) PROVE TypeInv'
    BY <1>20 DEF PppFails, Goto, GoOrEnd, StartReturns, StopReturns
  <1>21. ASSUME NEW q \in Pppds, PppDown(q) PROVE TypeInv'
    BY <1>21 DEF PppDown, Goto, GoOrEnd, StartReturns, StopReturns
  <1>22. ASSUME NEW q \in Pppds, PppExits(q) PROVE TypeInv'
    BY <1>22 DEF PppExits, Goto, GoOrEnd, StartReturns, StopReturns
  <1>23. ASSUME NEW q \in Pppds, UpdateredEnds(q) PROVE TypeInv'
    BY <1>23 DEF UpdateredEnds, Goto, GoOrEnd, StartReturns, StopReturns
  <1>24. ASSUME NEW q \in Pppds, PppHangup(q) PROVE TypeInv'
    BY <1>24 DEF PppHangup, Goto, GoOrEnd, StartReturns, StopReturns
  <1>25. CASE ServiceStart
    <2>1. CASE StartReturns(Svc, TRUE)
      BY <1>25, <2>1, BlankLocal DEF ServiceStart, StartReturns, GoOrEnd, Goto
    <2>2. CASE Goto(Svc, "check") /\ UNCHANGED <<cc, started>>
      BY <1>25, <2>2 DEF ServiceStart, Goto
    <2> QED BY <1>25, <2>1, <2>2 DEF ServiceStart
  <1>26. CASE Boot
    BY <1>26 DEF Boot, Goto, GoOrEnd, StartReturns, StopReturns
  <1>27. CASE UserConnects
    <2>1. pc' = [pc EXCEPT ![Svc] = "service"] /\ cc' = cc
      BY <1>27 DEF UserConnects, Goto
    <2>2. requests' \in 0 .. MaxRequests
      BY <1>27 DEF UserConnects
    <2>3. BelowMax' /\ HasRead' /\ NoSyncBranch'
      BY <1>27, <2>1
    <2> QED BY <1>27, <2>1, <2>2, <2>3 DEF UserConnects
  <1>28. CASE UserDisconnects
    <2>1. pc' = [pc EXCEPT ![Svc] = "drop"]
      BY <1>28 DEF UserDisconnects, Goto
    <2>2. requests' \in 0 .. MaxRequests
      BY <1>28 DEF UserDisconnects
    <2>3. BelowMax' /\ HasRead' /\ NoSyncBranch'
      BY <1>28, <2>1 DEF UserDisconnects
    <2> QED BY <1>28, <2>1, <2>2, <2>3 DEF UserDisconnects
  <1>29. CASE PowerLoss
    <2>1. pc' \in [Procs -> Labels] /\ cc' \in [Checkers -> Local]
      BY <1>29, BlankLocal DEF PowerLoss
    <2>2. requests' \in 0 .. MaxRequests
      BY <1>29 DEF PowerLoss
    <2>3. BelowMax' /\ HasRead' /\ NoSyncBranch'
      BY <1>29, BlankLocal DEF PowerLoss
    <2> QED BY <1>29, <2>1, <2>2, <2>3 DEF PowerLoss
  <1>30. CASE UNCHANGED vars
    BY <1>30 DEF vars
  <1>31. QED
    BY <1>1, <1>2, <1>3, <1>4, <1>5, <1>6, <1>7, <1>8, <1>9, <1>10, <1>11, <1>12, <1>13, <1>14, <1>15, <1>16, <1>17, <1>18, <1>19, <1>20, <1>21, <1>22, <1>23, <1>24, <1>25, <1>26, <1>27, <1>28, <1>29, <1>30 DEF Next, RcRed, Checker, Pppd

\* The type invariant holds of every behaviour; in particular the attempts
\* noted in keepconnected stay below MAXRETRIES.
THEOREM TypeCorrect == Spec => []TypeOK
  <1>1. TypeInv => TypeOK
    BY DEF TypeInv
  <1> QED
    BY TypeInit, TypeNext, <1>1, PTL DEF Spec

-----------------------------------------------------------------------------
(* No redial file is left behind *)

LEMMA RedialNext ==
  ASSUME "power" \notin Faults, TypeInv, NoStaleRedial, [Next]_vars
  PROVE  NoStaleRedial'
  <1> USE Parameters DEF TypeInv, TypeOK, NoStaleRedial, NoSyncBranch, Stopping, Starting,
        Procs, Idle
  <1>1. ASSUME NEW p \in Procs, StartCheck(p) PROVE NoStaleRedial'
    BY <1>1 DEF StartCheck, Goto, GoOrEnd, StartReturns, StopReturns
  <1>2. ASSUME NEW p \in Procs, StartMark(p) PROVE NoStaleRedial'
    BY <1>2 DEF StartMark, Goto, GoOrEnd, StartReturns, StopReturns
  <1>3. ASSUME NEW p \in Procs, StartFails(p) PROVE NoStaleRedial'
    BY <1>3 DEF StartFails, Goto, GoOrEnd, StartReturns, StopReturns
  <1>4. ASSUME NEW p \in Procs, StartDials(p) PROVE NoStaleRedial'
    BY <1>4 DEF StartDials, Goto, GoOrEnd, StartReturns, StopReturns
  <1>5. ASSUME NEW p \in Procs, StopDrop(p) PROVE NoStaleRedial'
    BY <1>5 DEF StopDrop, Goto, GoOrEnd, StartReturns, StopReturns
  <1>6. ASSUME NEW p \in Procs, StopKeep(p) PROVE NoStaleRedial'
    BY <1>6 DEF StopKeep, Goto, GoOrEnd, StartReturns, StopReturns
  <1>7. ASSUME NEW p \in Procs, StopKill(p) PROVE NoStaleRedial'
    BY <1>7 DEF StopKill, Goto, GoOrEnd, StartReturns, StopReturns
  <1>8. ASSUME NEW c \in Checkers, Clear(c) PROVE NoStaleRedial'
    BY <1>8 DEF Clear, Goto, GoOrEnd, StartReturns, StopReturns
  <1>9. ASSUME NEW c \in Checkers, CheckerBegins(c) PROVE NoStaleRedial'
    BY <1>9 DEF CheckerBegins, Goto, GoOrEnd, StartReturns, StopReturns
  <1>10. ASSUME NEW c \in Checkers, SyncTurn(c) PROVE NoStaleRedial'
    BY <1>10 DEF SyncTurn, Goto, GoOrEnd, StartReturns, StopReturns
  <1>11. ASSUME NEW c \in Checkers, WatchTurn(c) PROVE NoStaleRedial'
    BY <1>11 DEF WatchTurn, Goto, GoOrEnd, StartReturns, StopReturns
  <1>12. ASSUME NEW c \in Checkers, CheckerSucceeds(c) PROVE NoStaleRedial'
    BY <1>12 DEF CheckerSucceeds, Goto, GoOrEnd, StartReturns, StopReturns
  <1>13. ASSUME NEW c \in Checkers, CheckerAborts(c) PROVE NoStaleRedial'
    BY <1>13 DEF CheckerAborts, Goto, GoOrEnd, StartReturns, StopReturns
  <1>14. ASSUME NEW c \in Checkers, CheckerRedials(c) PROVE NoStaleRedial'
    BY <1>14 DEF CheckerRedials, Goto, GoOrEnd, StartReturns, StopReturns
  <1>15. ASSUME NEW c \in Checkers, CheckerWaits(c) PROVE NoStaleRedial'
    BY <1>15 DEF CheckerWaits, Goto, GoOrEnd, StartReturns, StopReturns
  <1>16. ASSUME NEW c \in Checkers, CheckerCounts(c) PROVE NoStaleRedial'
    BY <1>16 DEF CheckerCounts, Goto, GoOrEnd, StartReturns, StopReturns
  <1>17. ASSUME NEW c \in Checkers, CheckerBackup(c) PROVE NoStaleRedial'
    BY <1>17 DEF CheckerBackup, Goto, GoOrEnd, StartReturns, StopReturns
  <1>18. ASSUME NEW c \in Checkers, CheckerHoldoff(c) PROVE NoStaleRedial'
    BY <1>18 DEF CheckerHoldoff, Goto, GoOrEnd, StartReturns, StopReturns
  <1>19. ASSUME NEW q \in Pppds, PppUp(q) PROVE NoStaleRedial'
    BY <1>19 DEF PppUp, Goto, GoOrEnd, StartReturns, StopReturns
  <1>20. ASSUME NEW q \in Pppds, PppFails(q) PROVE NoStaleRedial'
    BY <1>20 DEF PppFails, Goto, GoOrEnd, StartReturns, StopReturns
  <1>21. ASSUME NEW q \in Pppds, PppDown(q) PROVE NoStaleRedial'
    BY <1>21 DEF PppDown, Goto, GoOrEnd, StartReturns, StopReturns
  <1>22. ASSUME NEW q \in Pppds, PppExits(q) PROVE NoStaleRedial'
    BY <1>22 DEF PppExits, Goto, GoOrEnd, StartReturns, StopReturns
  <1>23. ASSUME NEW q \in Pppds, UpdateredEnds(q) PROVE NoStaleRedial'
    BY <1>23 DEF UpdateredEnds, Goto, GoOrEnd, StartReturns, StopReturns
  <1>24. ASSUME NEW q \in Pppds, PppHangup(q) PROVE NoStaleRedial'
    BY <1>24 DEF PppHangup, Goto, GoOrEnd, StartReturns, StopReturns
  <1>25. CASE ServiceStart
    BY <1>25 DEF ServiceStart, Goto, GoOrEnd, StartReturns, StopReturns
  <1>26. CASE Boot
    BY <1>26 DEF Boot, Goto, GoOrEnd, StartReturns, StopReturns
  <1>27. CASE UserConnects
    BY <1>27 DEF UserConnects, Goto, GoOrEnd, StartReturns, StopReturns
  <1>28. CASE UserDisconnects
    BY <1>28 DEF UserDisconnects, Goto, GoOrEnd, StartReturns, StopReturns
  <1>29. CASE PowerLoss
    BY <1>29 DEF PowerLoss, Goto, GoOrEnd, StartReturns, StopReturns
  <1>30. CASE UNCHANGED vars
    BY <1>30 DEF vars
  <1>31. QED
    BY <1>1, <1>2, <1>3, <1>4, <1>5, <1>6, <1>7, <1>8, <1>9, <1>10, <1>11, <1>12, <1>13, <1>14, <1>15, <1>16, <1>17, <1>18, <1>19, <1>20, <1>21, <1>22, <1>23, <1>24, <1>25, <1>26, <1>27, <1>28, <1>29, <1>30 DEF Next, RcRed, Checker, Pppd

\* Without a power loss the redial file never outlives the stop it announces.
THEOREM RedialNeverStale ==
  ASSUME "power" \notin Faults
  PROVE  Spec => []NoStaleRedial
  <1>1. Init => TypeInv /\ NoStaleRedial
    BY TypeInit DEF Init, NoStaleRedial
  <1>2. TypeInv /\ NoStaleRedial /\ [Next]_vars => (TypeInv /\ NoStaleRedial)'
    BY TypeNext, RedialNext
  <1> QED
    BY <1>1, <1>2, PTL DEF Spec

-----------------------------------------------------------------------------
(* One start, one pppd, one checker, without a lock *)

\* A script that has passed, or is about to make, the checks before a dial.
Driver(p) == pc[p] \in Starting \cup {"service"}

AllOff == \A q \in Pppds : ppp[q] = "off"

\* A checker at one of these places has seen that no pppd runs.
Seen(c) == \/ pc[c] \in {"count", "backup", "holdoff", "clear"}
           \/ pc[c] \in Stopping /\ cc[c].nosync

OneDriver == \A p1, p2 \in Procs : Driver(p1) /\ Driver(p2) => p1 = p2

\* Until a start has put its own checker in the background there is no other,
AloneAtFirst ==
    \A p \in Procs, c \in Checkers :
        pc[p] \in {"service", "check", "mark"} /\ c # p => Idle(c)

\* and that one does not leave its first loop before the start has ended.
AtDial ==
    \A p \in Procs, c \in Checkers :
        pc[p] = "dial" /\ c # p => pc[c] \in {"off", "begin", "sync"} /\ ~cc[c].late

\* No pppd runs while a script drives to a dial, or is bound to come to one.
DialsFree == \A p \in Procs : Driver(p) => AllOff
SeesFree  == \A c \in Checkers : Seen(c) => AllOff

Fresh == \A c \in Checkers : pc[c] \in {"off", "begin"} => ~cc[c].late /\ ~cc[c].nosync

\* Before the boot, and without a power loss, there is nothing.
BootFirst ==
    /\ pc[Net] \in {"boot", "off"}
    /\ pc[Net] = "boot" =>
          files = {} /\ AllOff /\ \A p \in Procs : p # Net => Idle(p)

Exclusive ==
    /\ OneDriver /\ AloneAtFirst /\ AtDial /\ DialsFree /\ SeesFree
    /\ Fresh /\ BootFirst /\ OnePppd /\ HandOver

LEMMA ExclusiveNext ==
  ASSUME "power" \notin Faults, "hasty" \notin Faults,
         TypeInv, Exclusive, [Next]_vars
  PROVE  Exclusive'
  <1> USE Parameters DEF TypeInv, TypeOK, NoSyncBranch, Exclusive, OneDriver, AloneAtFirst,
        AtDial, DialsFree, SeesFree, Seen, AllOff, Fresh, BootFirst, OnePppd, HandOver,
        Driver, Idle, Starting, Stopping, Procs
  <1>1. ASSUME NEW p \in Procs, StartCheck(p) PROVE Exclusive'
    <2>1. CASE StartReturns(p, FALSE)
      BY <1>1, <2>1 DEF StartCheck, StartReturns, GoOrEnd, Goto, Blank
    <2>2. CASE Goto(p, "mark") /\ UNCHANGED <<cc, started>>
      BY <1>1, <2>2 DEF StartCheck, Goto
    <2> QED BY <1>1, <2>1, <2>2 DEF StartCheck
  <1>2. ASSUME NEW p \in Procs, StartMark(p) PROVE Exclusive'
    BY <1>2 DEF StartMark, Goto, GoOrEnd, StartReturns, StopReturns, Blank, Keep, PppdRuns, WoundUp
  <1>3. ASSUME NEW p \in Procs, StartFails(p) PROVE Exclusive'
    BY <1>3 DEF StartFails, Goto, GoOrEnd, StartReturns, StopReturns, Blank, Keep, PppdRuns, WoundUp
  <1>4. ASSUME NEW p \in Procs, StartDials(p) PROVE Exclusive'
    BY <1>4 DEF StartDials, Goto, GoOrEnd, StartReturns, StopReturns, Blank, Keep, PppdRuns, WoundUp
  <1>5. ASSUME NEW p \in Procs, StopDrop(p) PROVE Exclusive'
    BY <1>5 DEF StopDrop, Goto, GoOrEnd, StartReturns, StopReturns, Blank, Keep, PppdRuns, WoundUp
  <1>6. ASSUME NEW p \in Procs, StopKeep(p) PROVE Exclusive'
    BY <1>6 DEF StopKeep, Goto, GoOrEnd, StartReturns, StopReturns, Blank, Keep, PppdRuns, WoundUp
  <1>7. ASSUME NEW p \in Procs, StopKill(p) PROVE Exclusive'
    BY <1>7 DEF StopKill, Goto, GoOrEnd, StartReturns, StopReturns, Blank, Keep, PppdRuns, WoundUp
  <1>8. ASSUME NEW c \in Checkers, Clear(c) PROVE Exclusive'
    BY <1>8 DEF Clear, Goto, GoOrEnd, StartReturns, StopReturns, Blank, Keep, PppdRuns, WoundUp
  <1>9. ASSUME NEW c \in Checkers, CheckerBegins(c) PROVE Exclusive'
    BY <1>9 DEF CheckerBegins, Goto, GoOrEnd, StartReturns, StopReturns, Blank, Keep, PppdRuns, WoundUp
  <1>10. ASSUME NEW c \in Checkers, SyncTurn(c) PROVE Exclusive'
    BY <1>10 DEF SyncTurn, Goto, GoOrEnd, StartReturns, StopReturns, Blank, Keep, PppdRuns, WoundUp
  <1>11. ASSUME NEW c \in Checkers, WatchTurn(c) PROVE Exclusive'
    BY <1>11 DEF WatchTurn, Goto, GoOrEnd, StartReturns, StopReturns, Blank, Keep, PppdRuns, WoundUp
  <1>12. ASSUME NEW c \in Checkers, CheckerSucceeds(c) PROVE Exclusive'
    BY <1>12 DEF CheckerSucceeds, Goto, GoOrEnd, StartReturns, StopReturns, Blank, Keep, PppdRuns, WoundUp
  <1>13. ASSUME NEW c \in Checkers, CheckerAborts(c) PROVE Exclusive'
    BY <1>13 DEF CheckerAborts, Goto, GoOrEnd, StartReturns, StopReturns, Blank, Keep, PppdRuns, WoundUp
  <1>14. ASSUME NEW c \in Checkers, CheckerRedials(c) PROVE Exclusive'
    BY <1>14 DEF CheckerRedials, Goto, GoOrEnd, StartReturns, StopReturns, Blank, Keep, PppdRuns, WoundUp
  <1>15. ASSUME NEW c \in Checkers, CheckerWaits(c) PROVE Exclusive'
    BY <1>15 DEF CheckerWaits, Goto, GoOrEnd, StartReturns, StopReturns, Blank, Keep, PppdRuns, WoundUp
  <1>16. ASSUME NEW c \in Checkers, CheckerCounts(c) PROVE Exclusive'
    BY <1>16 DEF CheckerCounts, Goto, GoOrEnd, StartReturns, StopReturns, Blank, Keep, PppdRuns, WoundUp
  <1>17. ASSUME NEW c \in Checkers, CheckerBackup(c) PROVE Exclusive'
    BY <1>17 DEF CheckerBackup, Goto, GoOrEnd, StartReturns, StopReturns, Blank, Keep, PppdRuns, WoundUp
  <1>18. ASSUME NEW c \in Checkers, CheckerHoldoff(c) PROVE Exclusive'
    BY <1>18 DEF CheckerHoldoff, Goto, GoOrEnd, StartReturns, StopReturns, Blank, Keep, PppdRuns, WoundUp
  <1>19. ASSUME NEW q \in Pppds, PppUp(q) PROVE Exclusive'
    BY <1>19 DEF PppUp, Goto, GoOrEnd, StartReturns, StopReturns, Blank, Keep, PppdRuns, WoundUp
  <1>20. ASSUME NEW q \in Pppds, PppFails(q) PROVE Exclusive'
    BY <1>20 DEF PppFails, Goto, GoOrEnd, StartReturns, StopReturns, Blank, Keep, PppdRuns, WoundUp
  <1>21. ASSUME NEW q \in Pppds, PppDown(q) PROVE Exclusive'
    BY <1>21 DEF PppDown, Goto, GoOrEnd, StartReturns, StopReturns, Blank, Keep, PppdRuns, WoundUp
  <1>22. ASSUME NEW q \in Pppds, PppExits(q) PROVE Exclusive'
    BY <1>22 DEF PppExits, Goto, GoOrEnd, StartReturns, StopReturns, Blank, Keep, PppdRuns, WoundUp
  <1>23. ASSUME NEW q \in Pppds, UpdateredEnds(q) PROVE Exclusive'
    BY <1>23 DEF UpdateredEnds, Goto, GoOrEnd, StartReturns, StopReturns, Blank, Keep, PppdRuns, WoundUp
  <1>24. ASSUME NEW q \in Pppds, PppHangup(q) PROVE Exclusive'
    BY <1>24 DEF PppHangup, Goto, GoOrEnd, StartReturns, StopReturns, Blank, Keep, PppdRuns, WoundUp
  <1>25. CASE ServiceStart
    <2>1. CASE StartReturns(Svc, TRUE)
      BY <1>25, <2>1 DEF ServiceStart, StartReturns, GoOrEnd, Goto, Blank
    <2>2. CASE Goto(Svc, "check") /\ UNCHANGED <<cc, started>>
      BY <1>25, <2>2 DEF ServiceStart, Goto
    <2> QED BY <1>25, <2>1, <2>2 DEF ServiceStart
  <1>26. CASE Boot
    BY <1>26 DEF Boot, Goto, GoOrEnd, StartReturns, StopReturns, Blank, Keep, PppdRuns, WoundUp
  <1>27. CASE UserConnects
    BY <1>27 DEF UserConnects, Goto, GoOrEnd, StartReturns, StopReturns, Blank, Keep, PppdRuns, WoundUp
  <1>28. CASE UserDisconnects
    BY <1>28 DEF UserDisconnects, Goto, GoOrEnd, StartReturns, StopReturns, Blank, Keep, PppdRuns, WoundUp
  <1>29. CASE PowerLoss
    BY <1>29 DEF PowerLoss, Goto, GoOrEnd, StartReturns, StopReturns, Blank, Keep, PppdRuns, WoundUp
  <1>30. CASE UNCHANGED vars
    BY <1>30 DEF vars
  <1> QED
    BY <1>1, <1>2, <1>3, <1>4, <1>5, <1>6, <1>7, <1>8, <1>9, <1>10, <1>11, <1>12, <1>13, <1>14, <1>15, <1>16, <1>17, <1>18, <1>19, <1>20, <1>21, <1>22, <1>23, <1>24, <1>25, <1>26, <1>27, <1>28, <1>29, <1>30
       DEF Next, RcRed, Checker, Pppd

LEMMA ExclusiveInit == Init => Exclusive
  <1> SUFFICES ASSUME Init PROVE Exclusive
    OBVIOUS
  <1>1. /\ \A p \in Procs : ~Driver(p) /\ (p # Net => Idle(p))
        /\ \A c \in Checkers : Idle(c) /\ ~Seen(c)
        /\ pc[Net] = "boot"
    BY Parameters DEF Init, Driver, Idle, Seen, Starting, Stopping, Procs
  <1>2. AllOff /\ files = {}
    BY DEF Init, AllOff
  <1>3. Fresh
    BY BlankLocal DEF Init, Fresh
  <1>4. AloneAtFirst /\ AtDial
    BY <1>1 DEF AloneAtFirst, AtDial, Driver, Starting
  <1>5. BootFirst /\ OnePppd /\ HandOver
    BY <1>1, <1>2 DEF BootFirst, OnePppd, HandOver, AllOff
  <1> QED
    BY <1>1, <1>2, <1>3, <1>4, <1>5 DEF Exclusive, OneDriver, DialsFree, SeesFree

LEMMA ExclusiveAlways ==
  ASSUME "power" \notin Faults, "hasty" \notin Faults
  PROVE  Spec => [](TypeInv /\ Exclusive)
  <1>1. Init => TypeInv /\ Exclusive
    BY TypeInit, ExclusiveInit
  <1>2. TypeInv /\ Exclusive /\ [Next]_vars => (TypeInv /\ Exclusive)'
    BY TypeNext, ExclusiveNext
  <1> QED
    BY <1>1, <1>2, PTL DEF Spec

\* As long as there is no power loss and no connect request comes before the last
\* connection has wound up, the guards of rc.red start (rc.red lines 131-141) are
\* as good as a lock: no two scripts are ever inside rc.red start together.
THEOREM StartsExclude ==
  ASSUME "power" \notin Faults, "hasty" \notin Faults
  PROVE  Spec => []OneStart
  <1>1. Exclusive => OneStart
    BY DEF Exclusive, OneDriver, Driver, OneStart
  <1> QED
    BY ExclusiveAlways, <1>1, PTL

\* Under the same conditions there is one pppd at a time: none is started while
\* another, which rc.red stop would not find in the pid file, still runs.
THEOREM PppdsExclude ==
  ASSUME "power" \notin Faults, "hasty" \notin Faults
  PROVE  Spec => []OnePppd
  <1>1. Exclusive => OnePppd
    BY DEF Exclusive
  <1> QED
    BY ExclusiveAlways, <1>1, PTL

\* And one connection checker at a time: a second one is alive only while the
\* first, dialling again, has put it in the background and has not returned.
THEOREM CheckersHandOver ==
  ASSUME "power" \notin Faults, "hasty" \notin Faults
  PROVE  Spec => []HandOver
  <1>1. Exclusive => HandOver
    BY DEF Exclusive
  <1> QED
    BY ExclusiveAlways, <1>1, PTL

-----------------------------------------------------------------------------
(* The active file tells whether the link is up *)

\* The pid file names the pppd that runs, so rc.red stop reaches it;
PidIsTrue == \A q \in Pppds : ppp[q] # "off" => pidfile = q

\* the active file goes with the link at the latest,
ActiveMeansUp ==
    "active" \in files => \E q \in Pppds : ppp[q] \in {"up", "closing"}

\* and who removes it before that is about to end the link.
UpIsActive ==
    \A q \in Pppds : ppp[q] = "up" =>
        "active" \in files \/ \E p \in Procs : pc[p] \in {"keep", "kill"}

LinkInv == PidIsTrue /\ ActiveMeansUp /\ UpIsActive

LEMMA LinkNext ==
  ASSUME "power" \notin Faults, TypeInv, Exclusive, LinkInv, [Next]_vars
  PROVE  LinkInv'
  <1> USE Parameters DEF TypeInv, TypeOK, Exclusive, OnePppd, DialsFree, SeesFree, Driver, Seen,
        AllOff, BootFirst, LinkInv, PidIsTrue, ActiveMeansUp, UpIsActive, Starting, Stopping, Procs
  <1>1. ASSUME NEW p \in Procs, StartCheck(p) PROVE LinkInv'
    BY <1>1 DEF StartCheck, Goto, GoOrEnd, StartReturns, StopReturns
  <1>2. ASSUME NEW p \in Procs, StartMark(p) PROVE LinkInv'
    BY <1>2 DEF StartMark, Goto, GoOrEnd, StartReturns, StopReturns
  <1>3. ASSUME NEW p \in Procs, StartFails(p) PROVE LinkInv'
    BY <1>3 DEF StartFails, Goto, GoOrEnd, StartReturns, StopReturns
  <1>4. ASSUME NEW p \in Procs, StartDials(p) PROVE LinkInv'
    BY <1>4 DEF StartDials, Goto, GoOrEnd, StartReturns, StopReturns
  <1>5. ASSUME NEW p \in Procs, StopDrop(p) PROVE LinkInv'
    BY <1>5 DEF StopDrop, Goto, GoOrEnd, StartReturns, StopReturns
  <1>6. ASSUME NEW p \in Procs, StopKeep(p) PROVE LinkInv'
    BY <1>6 DEF StopKeep, Goto, GoOrEnd, StartReturns, StopReturns
  <1>7. ASSUME NEW p \in Procs, StopKill(p) PROVE LinkInv'
    BY <1>7 DEF StopKill, Goto, GoOrEnd, StartReturns, StopReturns
  <1>8. ASSUME NEW c \in Checkers, Clear(c) PROVE LinkInv'
    BY <1>8 DEF Clear, Goto, GoOrEnd, StartReturns, StopReturns
  <1>9. ASSUME NEW c \in Checkers, CheckerBegins(c) PROVE LinkInv'
    BY <1>9 DEF CheckerBegins, Goto, GoOrEnd, StartReturns, StopReturns
  <1>10. ASSUME NEW c \in Checkers, SyncTurn(c) PROVE LinkInv'
    BY <1>10 DEF SyncTurn, Goto, GoOrEnd, StartReturns, StopReturns
  <1>11. ASSUME NEW c \in Checkers, WatchTurn(c) PROVE LinkInv'
    BY <1>11 DEF WatchTurn, Goto, GoOrEnd, StartReturns, StopReturns
  <1>12. ASSUME NEW c \in Checkers, CheckerSucceeds(c) PROVE LinkInv'
    BY <1>12 DEF CheckerSucceeds, Goto, GoOrEnd, StartReturns, StopReturns
  <1>13. ASSUME NEW c \in Checkers, CheckerAborts(c) PROVE LinkInv'
    BY <1>13 DEF CheckerAborts, Goto, GoOrEnd, StartReturns, StopReturns
  <1>14. ASSUME NEW c \in Checkers, CheckerRedials(c) PROVE LinkInv'
    BY <1>14 DEF CheckerRedials, Goto, GoOrEnd, StartReturns, StopReturns
  <1>15. ASSUME NEW c \in Checkers, CheckerWaits(c) PROVE LinkInv'
    BY <1>15 DEF CheckerWaits, Goto, GoOrEnd, StartReturns, StopReturns
  <1>16. ASSUME NEW c \in Checkers, CheckerCounts(c) PROVE LinkInv'
    BY <1>16 DEF CheckerCounts, Goto, GoOrEnd, StartReturns, StopReturns
  <1>17. ASSUME NEW c \in Checkers, CheckerBackup(c) PROVE LinkInv'
    BY <1>17 DEF CheckerBackup, Goto, GoOrEnd, StartReturns, StopReturns
  <1>18. ASSUME NEW c \in Checkers, CheckerHoldoff(c) PROVE LinkInv'
    BY <1>18 DEF CheckerHoldoff, Goto, GoOrEnd, StartReturns, StopReturns
  <1>19. ASSUME NEW q \in Pppds, PppUp(q) PROVE LinkInv'
    BY <1>19 DEF PppUp, Goto, GoOrEnd, StartReturns, StopReturns
  <1>20. ASSUME NEW q \in Pppds, PppFails(q) PROVE LinkInv'
    BY <1>20 DEF PppFails, Goto, GoOrEnd, StartReturns, StopReturns
  <1>21. ASSUME NEW q \in Pppds, PppDown(q) PROVE LinkInv'
    BY <1>21 DEF PppDown, Goto, GoOrEnd, StartReturns, StopReturns
  <1>22. ASSUME NEW q \in Pppds, PppExits(q) PROVE LinkInv'
    BY <1>22 DEF PppExits, Goto, GoOrEnd, StartReturns, StopReturns
  <1>23. ASSUME NEW q \in Pppds, UpdateredEnds(q) PROVE LinkInv'
    BY <1>23 DEF UpdateredEnds, Goto, GoOrEnd, StartReturns, StopReturns
  <1>24. ASSUME NEW q \in Pppds, PppHangup(q) PROVE LinkInv'
    BY <1>24 DEF PppHangup, Goto, GoOrEnd, StartReturns, StopReturns
  <1>25. CASE ServiceStart
    BY <1>25 DEF ServiceStart, Goto, GoOrEnd, StartReturns, StopReturns
  <1>26. CASE Boot
    BY <1>26 DEF Boot, Goto, GoOrEnd, StartReturns, StopReturns
  <1>27. CASE UserConnects
    <2>1. /\ pc[Svc] = "off" /\ pc' = [pc EXCEPT ![Svc] = "service"]
          /\ UNCHANGED <<files, ppp, pidfile>>
      BY <1>27 DEF UserConnects, Goto, Idle
    <2>2. \A p \in Procs : pc[p] \in {"keep", "kill"} => pc'[p] = pc[p]
      BY <2>1
    <2> QED BY <2>1, <2>2
  <1>28. CASE UserDisconnects
    <2>1. /\ pc[Svc] = "off" /\ pc' = [pc EXCEPT ![Svc] = "drop"]
          /\ UNCHANGED <<files, ppp, pidfile>>
      BY <1>28 DEF UserDisconnects, Goto, Idle
    <2>2. \A p \in Procs : pc[p] \in {"keep", "kill"} => pc'[p] = pc[p]
      BY <2>1
    <2> QED BY <2>1, <2>2
  <1>29. CASE PowerLoss
    BY <1>29 DEF PowerLoss, Goto, GoOrEnd, StartReturns, StopReturns
  <1>30. CASE UNCHANGED vars
    BY <1>30 DEF vars
  <1> QED
    BY <1>1, <1>2, <1>3, <1>4, <1>5, <1>6, <1>7, <1>8, <1>9, <1>10, <1>11, <1>12, <1>13, <1>14, <1>15, <1>16, <1>17, <1>18, <1>19, <1>20, <1>21, <1>22, <1>23, <1>24, <1>25, <1>26, <1>27, <1>28, <1>29, <1>30
       DEF Next, RcRed, Checker, Pppd

\* Once every script has ended the active file is there exactly when a pppd holds
\* the link, whatever stops, hangups and redials have gone before: what the GUI
\* and rc.updatered read from /var/ipcop/red is true at rest.
THEOREM ActiveTellsTruth ==
  ASSUME "power" \notin Faults, "hasty" \notin Faults
  PROVE  Spec => []ActiveIsTrue
  <1>1. Init => LinkInv
    BY DEF Init, LinkInv, PidIsTrue, ActiveMeansUp, UpIsActive
  <1>2. TypeInv /\ Exclusive /\ LinkInv /\ [Next]_vars => LinkInv'
    BY LinkNext
  <1>3. TypeInv /\ LinkInv => ActiveIsTrue
    BY DEF TypeInv, LinkInv, ActiveMeansUp, UpIsActive, ActiveIsTrue, Quiet, PppdRuns, Idle
  <1> QED
    BY ExclusiveAlways, <1>1, <1>2, <1>3, PTL DEF Spec

-----------------------------------------------------------------------------
(* Nobody waits for ever *)

\* The guards of the actions of a script, of a checker and of pppd.
CheckerGoes(c) ==
    \/ pc[c] \in {"clear", "begin", "watch", "ok", "abort", "redial", "count", "backup"}
    \/ pc[c] = "sync" /\ (\/ PppdRuns \/ ~Keep \/ cc[c].late
                          \/ \A p \in Procs : pc[p] \notin Starting)
    \/ pc[c] = "wait" /\ ~PppdRuns
    \/ pc[c] = "holdoff" /\ (Keep /\ "slow" \notin Faults => ~Updating)

ScriptGoes(p) ==
    \/ pc[p] \in {"check"} \cup Stopping
    \/ pc[p] = "mark" /\ \E c \in Checkers : Idle(c)
    \/ pc[p] = "dial" /\ \E q \in Pppds : ppp[q] = "off" /\ script[q] = "none"
    \/ p = Svc /\ pc[p] = "service"
    \/ p = Net /\ pc[p] = "boot"
    \/ p \in Checkers /\ CheckerGoes(p)

PppdGoes(q) ==
    \/ ppp[q] = "dial" /\ script[q] = "none" /\ "deaf" \notin Faults
    \/ ppp[q] = "dial" /\ ("brief" \in Faults \/ \A c \in Checkers : pc[c] \notin {"begin", "sync"})
    \/ ppp[q] = "closing" /\ script[q] = "none"
    \/ ppp[q] = "ending" \/ script[q] # "none"

\* Who is where.
Places ==
    /\ pc[Svc] \in {"off", "service"} \cup Starting \cup Stopping
    /\ \A c \in Checkers : pc[c] \notin {"service", "boot"}

\* No rc.updatered runs beside a start that has passed its guards,
Prepared ==
    \A p \in Procs, q \in Pppds : pc[p] \in {"mark", "dial"} => script[q] = "none"

\* and the pppd a checker waits for has had its signal.
Signalled ==
    \A c \in Checkers, q \in Pppds :
        pc[c] = "wait" => ppp[q] \in {"off", "closing", "ending"}

Moving == Places /\ Prepared /\ Signalled

LEMMA MovingNext ==
  ASSUME "power" \notin Faults, "hasty" \notin Faults,
         TypeInv, Exclusive, LinkInv, Moving, [Next]_vars
  PROVE  Moving'
  <1> USE Parameters DEF TypeInv, TypeOK, Exclusive, AtDial, DialsFree, Driver, AllOff,
        BootFirst, LinkInv, PidIsTrue, Moving, Places, Prepared, Signalled, Starting,
        Stopping, Procs
  <1>1. ASSUME NEW p \in Procs, StartCheck(p) PROVE Moving'
    <2>1. CASE StartReturns(p, FALSE)
      BY <1>1, <2>1 DEF StartCheck, StartReturns, GoOrEnd, Goto
    <2>2. CASE Goto(p, "mark") /\ ~Updating
      BY <1>1, <2>2 DEF StartCheck, Goto, Updating
    <2> QED BY <1>1, <2>1, <2>2 DEF StartCheck
  <1>2. ASSUME NEW p \in Procs, StartMark(p) PROVE Moving'
    BY <1>2 DEF StartMark, Goto, GoOrEnd, StartReturns
  <1>3. ASSUME NEW p \in Procs, StartFails(p) PROVE Moving'
    BY <1>3 DEF StartFails, Goto, GoOrEnd, StartReturns
  <1>4. ASSUME NEW p \in Procs, StartDials(p) PROVE Moving'
    BY <1>4 DEF StartDials, Goto, GoOrEnd, StartReturns
  <1>5. ASSUME NEW p \in Procs, StopDrop(p) PROVE Moving'
    BY <1>5 DEF StopDrop, Goto, GoOrEnd, StartReturns
  <1>6. ASSUME NEW p \in Procs, StopKeep(p) PROVE Moving'
    BY <1>6 DEF StopKeep, Goto, GoOrEnd, StartReturns
  <1>7. ASSUME NEW p \in Procs, StopKill(p) PROVE Moving'
    BY <1>7 DEF StopKill, Goto, GoOrEnd, StartReturns, StopReturns
  <1>8. ASSUME NEW c \in Checkers, Clear(c) PROVE Moving'
    BY <1>8 DEF Clear, Goto, GoOrEnd, StartReturns
  <1>9. ASSUME NEW c \in Checkers, CheckerBegins(c) PROVE Moving'
    BY <1>9 DEF CheckerBegins, Goto, GoOrEnd, StartReturns
  <1>10. ASSUME NEW c \in Checkers, SyncTurn(c) PROVE Moving'
    BY <1>10 DEF SyncTurn, Goto, GoOrEnd, StartReturns
  <1>11. ASSUME NEW c \in Checkers, WatchTurn(c) PROVE Moving'
    BY <1>11 DEF WatchTurn, Goto, GoOrEnd, StartReturns
  <1>12. ASSUME NEW c \in Checkers, CheckerSucceeds(c) PROVE Moving'
    BY <1>12 DEF CheckerSucceeds, Goto, GoOrEnd, StartReturns
  <1>13. ASSUME NEW c \in Checkers, CheckerAborts(c) PROVE Moving'
    BY <1>13 DEF CheckerAborts, Goto, GoOrEnd, StartReturns
  <1>14. ASSUME NEW c \in Checkers, CheckerRedials(c) PROVE Moving'
    BY <1>14 DEF CheckerRedials, Goto, GoOrEnd, StartReturns
  <1>15. ASSUME NEW c \in Checkers, CheckerWaits(c) PROVE Moving'
    BY <1>15 DEF CheckerWaits, Goto, GoOrEnd, StartReturns, PppdRuns
  <1>16. ASSUME NEW c \in Checkers, CheckerCounts(c) PROVE Moving'
    BY <1>16 DEF CheckerCounts, Goto, GoOrEnd, StartReturns
  <1>17. ASSUME NEW c \in Checkers, CheckerBackup(c) PROVE Moving'
    BY <1>17 DEF CheckerBackup, Goto, GoOrEnd, StartReturns
  <1>18. ASSUME NEW c \in Checkers, CheckerHoldoff(c) PROVE Moving'
    BY <1>18 DEF CheckerHoldoff, Goto, GoOrEnd, StartReturns
  <1>19. ASSUME NEW q \in Pppds, PppUp(q) PROVE Moving'
    BY <1>19 DEF PppUp
  <1>20. ASSUME NEW q \in Pppds, PppFails(q) PROVE Moving'
    BY <1>20 DEF PppFails
  <1>21. ASSUME NEW q \in Pppds, PppDown(q) PROVE Moving'
    BY <1>21 DEF PppDown
  <1>22. ASSUME NEW q \in Pppds, PppExits(q) PROVE Moving'
    BY <1>22 DEF PppExits
  <1>23. ASSUME NEW q \in Pppds, UpdateredEnds(q) PROVE Moving'
    BY <1>23 DEF UpdateredEnds
  <1>24. ASSUME NEW q \in Pppds, PppHangup(q) PROVE Moving'
    BY <1>24 DEF PppHangup
  <1>25. CASE ServiceStart
    <2>1. /\ pc' = [pc EXCEPT ![Svc] = "off"] \/ pc' = [pc EXCEPT ![Svc] = "check"]
          /\ UNCHANGED <<ppp, script>>
      BY <1>25 DEF ServiceStart, Goto, GoOrEnd, StartReturns
    <2>2. Places'
      BY <2>1
    <2>3. Prepared' /\ Signalled'
      BY <2>1
    <2> QED BY <2>2, <2>3
  <1>26. CASE Boot
    BY <1>26 DEF Boot, Keep
  <1>27. CASE UserConnects
    <2>1. pc' = [pc EXCEPT ![Svc] = "service"] /\ UNCHANGED <<cc, ppp, script>>
      BY <1>27 DEF UserConnects, Goto
    <2>2. Places'
      BY <2>1
    <2>3. Prepared' /\ Signalled'
      BY <2>1
    <2> QED BY <2>2, <2>3
  <1>28. CASE UserDisconnects
    BY <1>28 DEF UserDisconnects, Goto, Idle, WoundUp, Updating
  <1>29. CASE PowerLoss
    BY <1>29 DEF PowerLoss, Goto, GoOrEnd, StartReturns
  <1>30. CASE UNCHANGED vars
    BY <1>30 DEF vars
  <1> QED
    BY <1>1, <1>2, <1>3, <1>4, <1>5, <1>6, <1>7, <1>8, <1>9, <1>10, <1>11, <1>12,
       <1>13, <1>14, <1>15, <1>16, <1>17, <1>18, <1>19, <1>20, <1>21, <1>22, <1>23, <1>24,
       <1>25, <1>26, <1>27, <1>28, <1>29, <1>30
       DEF Next, RcRed, Checker, Pppd

\* While anything is left to do, a script or a pppd can do it: scripts without a
\* lock never all wait for each other, as long as there is no power loss and no
\* connect request before the last connection has wound up.  Two checkers and
\* one pppd are then enough for every dial: the bounds of the runs block nothing
\* (rc.red lines 131-141, rc.connectioncheck lines 46-73, 117-126, 152-165).
THEOREM NeverStuck ==
  ASSUME "power" \notin Faults, "hasty" \notin Faults,
         Pppds # {}, NEW c1 \in Checkers, NEW c2 \in Checkers, c1 # c2
  PROVE  Spec => [](\/ Quiet
                    \/ \E p \in Procs : ScriptGoes(p)
                    \/ \E q \in Pppds : PppdGoes(q))
  <1>1. Init => LinkInv /\ Moving
    <2> SUFFICES ASSUME Init PROVE LinkInv /\ Moving
      OBVIOUS
    <2>1. LinkInv
      BY DEF Init, LinkInv, PidIsTrue, ActiveMeansUp, UpIsActive
    <2>2. Moving
      BY Parameters DEF Init, Moving, Places, Prepared, Signalled, Procs
    <2> QED
      BY <2>1, <2>2
  <1>2. TypeInv /\ Exclusive /\ LinkInv /\ Moving /\ [Next]_vars => (LinkInv /\ Moving)'
    BY LinkNext, MovingNext
  <1>3. ASSUME TypeInv, Exclusive, Moving, ~Quiet,
               \A p \in Procs : ~ScriptGoes(p), \A q \in Pppds : ~PppdGoes(q)
        PROVE  FALSE
    <2>1. ~Updating
      BY <1>3 DEF Updating, PppdGoes
    <2>2. \A p \in Procs : pc[p] \notin Starting
      <3>1. ASSUME NEW p \in Procs, pc[p] = "mark" PROVE ScriptGoes(p)
        <4>1. Idle(c1) \/ Idle(c2)
          BY <1>3, <3>1 DEF Exclusive, AloneAtFirst
        <4> QED
          BY <3>1, <4>1 DEF ScriptGoes
      <3>2. ASSUME NEW p \in Procs, pc[p] = "dial" PROVE ScriptGoes(p)
        BY <1>3, <3>2 DEF Exclusive, DialsFree, Driver, AllOff, Starting, Moving, Prepared,
           ScriptGoes
      <3> QED
        BY <1>3, <3>1, <3>2 DEF Starting, ScriptGoes
    <2>3. \A q \in Pppds : ppp[q] \notin {"closing", "ending"}
      BY <1>3, <2>1 DEF PppdGoes, Updating
    <2>4. \A c \in Checkers : Idle(c)
      <3>1. ASSUME NEW c \in Checkers, pc[c] = "wait" PROVE FALSE
        <4>1. ~PppdRuns
          BY <2>3, <3>1, <1>3 DEF Moving, Signalled, PppdRuns
        <4> QED
          BY <1>3, <3>1, <4>1 DEF ScriptGoes, CheckerGoes, Procs
      <3>2. ASSUME NEW c \in Checkers PROVE Idle(c)
        <4>1. ~ScriptGoes(c) /\ pc[c] \in Labels
          BY <1>3 DEF TypeInv, TypeOK, Procs
        <4>2. pc[c] \notin Starting \cup {"service", "boot", "wait"}
          BY <1>3, <2>2, <3>1 DEF Moving, Places, Procs
        <4> QED
          BY <2>1, <2>2, <4>1, <4>2 DEF ScriptGoes, CheckerGoes, Labels, Checking, Starting,
             Stopping, Idle
      <3> QED
        BY <3>2
    <2>5. Idle(Svc) /\ Idle(Net)
      <3>1. ~ScriptGoes(Svc) /\ ~ScriptGoes(Net)
        BY <1>3 DEF Procs
      <3>2. pc[Svc] \notin Starting
        BY <2>2 DEF Procs
      <3> QED
        BY <1>3, <3>1, <3>2 DEF Moving, Places, Exclusive, BootFirst, ScriptGoes, Idle
    <2>6. ASSUME NEW q \in Pppds PROVE ppp[q] \in {"off", "up"} /\ script[q] = "none"
      <3>1. script[q] = "none"
        BY <2>1 DEF Updating
      <3>2. ppp[q] # "dial"
        BY <1>3, <2>4 DEF PppdGoes, Idle
      <3> QED
        BY <1>3, <2>3, <3>1, <3>2 DEF TypeInv, TypeOK
    <2> QED
      BY <1>3, <2>4, <2>5, <2>6 DEF Quiet, Procs
  <1>4. TypeInv /\ Exclusive /\ Moving =>
           \/ Quiet
           \/ \E p \in Procs : ScriptGoes(p)
           \/ \E q \in Pppds : PppdGoes(q)
    BY <1>3
  <1> QED
    BY ExclusiveAlways, <1>1, <1>2, <1>4, PTL DEF Spec

-----------------------------------------------------------------------------
(* A disconnect that finds no script committed to undo it is final *)

\* After such a Disconnect keepconnected is gone, and no script gets to a place
\* where it would create it or dial.
StaysGone ==
    final =>
        /\ ~Keep
        /\ \A p \in Procs : pc[p] \notin Starting \cup {"begin", "ok", "count", "boot", "service"}
        /\ \A c \in Checkers : ~cc[c].nosync

NoNewPppd == \A q \in Pppds : ppp[q] = "off" => ppp'[q] = "off"

\* What one step does.  That the Disconnect has removed keepconnected is
\* NoStaleRedial: no checker is in a stop of its own, so there is no redial file.
LEMMA GoneNext ==
  ASSUME TypeInv, NoStaleRedial, StaysGone, [Next]_vars
  PROVE  StaysGone' /\ (final /\ final' => NoNewPppd)
  <1> DEFINE Goal == StaysGone' /\ (final /\ final' => NoNewPppd)
  <1> USE Parameters DEF TypeInv, TypeOK, NoSyncBranch, NoStaleRedial, StaysGone, NoNewPppd,
        Committed, Keep, Idle, Starting, Stopping, Procs
  <1>1. ASSUME NEW p \in Procs, StartCheck(p) PROVE Goal
    BY <1>1 DEF StartCheck, StartReturns, GoOrEnd, Goto, Blank
  <1>2. ASSUME NEW p \in Procs, StartMark(p) PROVE Goal
    BY <1>2 DEF StartMark
  <1>3. ASSUME NEW p \in Procs, StartFails(p) PROVE Goal
    BY <1>3 DEF StartFails, StartReturns, GoOrEnd, Goto, Blank
  <1>4. ASSUME NEW p \in Procs, StartDials(p) PROVE Goal
    BY <1>4 DEF StartDials, StartReturns, GoOrEnd, Goto, Blank
  <1>5. ASSUME NEW p \in Procs, StopDrop(p) PROVE Goal
    BY <1>5 DEF StopDrop, Goto
  <1>6. ASSUME NEW p \in Procs, StopKeep(p) PROVE Goal
    BY <1>6 DEF StopKeep, Goto
  <1>7. ASSUME NEW p \in Procs, StopKill(p) PROVE Goal
    BY <1>7 DEF StopKill, StopReturns, Goto
  <1>8. ASSUME NEW c \in Checkers, Clear(c) PROVE Goal
    BY <1>8 DEF Clear, Goto
  <1>9. ASSUME NEW c \in Checkers, CheckerBegins(c) PROVE Goal
    BY <1>9 DEF CheckerBegins, Goto
  <1>10. ASSUME NEW c \in Checkers, SyncTurn(c) PROVE Goal
    BY <1>10 DEF SyncTurn, GoOrEnd, Goto, Blank
  <1>11. ASSUME NEW c \in Checkers, WatchTurn(c) PROVE Goal
    BY <1>11 DEF WatchTurn, GoOrEnd, Goto, Blank
  <1>12. ASSUME NEW c \in Checkers, CheckerSucceeds(c) PROVE Goal
    BY <1>12 DEF CheckerSucceeds, GoOrEnd, Goto, Blank
  <1>13. ASSUME NEW c \in Checkers, CheckerAborts(c) PROVE Goal
    BY <1>13 DEF CheckerAborts, Goto, Blank
  <1>14. ASSUME NEW c \in Checkers, CheckerRedials(c) PROVE Goal
    BY <1>14 DEF CheckerRedials, Goto
  <1>15. ASSUME NEW c \in Checkers, CheckerWaits(c) PROVE Goal
    BY <1>15 DEF CheckerWaits, GoOrEnd, Goto, Blank
  <1>16. ASSUME NEW c \in Checkers, CheckerCounts(c) PROVE Goal
    BY <1>16 DEF CheckerCounts, Goto
  <1>17. ASSUME NEW c \in Checkers, CheckerBackup(c) PROVE Goal
    BY <1>17 DEF CheckerBackup, GoOrEnd, Goto, Blank
  <1>18. ASSUME NEW c \in Checkers, CheckerHoldoff(c) PROVE Goal
    BY <1>18 DEF CheckerHoldoff, GoOrEnd, Goto, Blank
  <1>19. ASSUME NEW q \in Pppds, PppUp(q) PROVE Goal
    BY <1>19 DEF PppUp
  <1>20. ASSUME NEW q \in Pppds, PppFails(q) PROVE Goal
    BY <1>20 DEF PppFails
  <1>21. ASSUME NEW q \in Pppds, PppDown(q) PROVE Goal
    BY <1>21 DEF PppDown
  <1>22. ASSUME NEW q \in Pppds, PppExits(q) PROVE Goal
    BY <1>22 DEF PppExits
  <1>23. ASSUME NEW q \in Pppds, UpdateredEnds(q) PROVE Goal
    BY <1>23 DEF UpdateredEnds
  <1>24. ASSUME NEW q \in Pppds, PppHangup(q) PROVE Goal
    BY <1>24 DEF PppHangup
  <1>25. CASE ServiceStart
    BY <1>25 DEF ServiceStart, StartReturns, GoOrEnd, Goto, Blank
  <1>26. CASE Boot
    BY <1>26 DEF Boot
  <1>27. CASE UserConnects
    BY <1>27 DEF UserConnects, Goto
  <1>28. CASE UserDisconnects
    BY <1>28 DEF UserDisconnects, Goto
  <1>29. CASE PowerLoss
    BY <1>29 DEF PowerLoss
  <1>30. CASE UNCHANGED vars
    BY <1>30 DEF vars
  <1> QED
    BY <1>1, <1>2, <1>3, <1>4, <1>5, <1>6, <1>7, <1>8, <1>9, <1>10, <1>11, <1>12,
       <1>13, <1>14, <1>15, <1>16, <1>17, <1>18, <1>19, <1>20, <1>21, <1>22, <1>23, <1>24,
       <1>25, <1>26, <1>27, <1>28, <1>29, <1>30
       DEF Next, RcRed, Checker, Pppd

\* Without power losses, whatever else goes wrong: a Disconnect that no script is
\* committed to undo when it removes keepconnected is final.  Until the next connect
\* request keepconnected stays gone and no pppd is started.
THEOREM HangupIsFinal ==
  ASSUME "power" \notin Faults
  PROVE  Spec => HangupHolds
  <1> DEFINE Inv == TypeInv /\ NoStaleRedial /\ StaysGone
  <1>1. Init => Inv
    BY TypeInit DEF Init, NoStaleRedial, StaysGone
  <1>2. Inv /\ [Next]_vars => Inv'
    BY TypeNext, RedialNext, GoneNext
  <1>3. Inv /\ Inv' /\ [Next]_vars
          => [final /\ final' =>
                /\ ~Keep /\ ~Keep'
                /\ \A q \in Pppds : ppp[q] = "off" => ppp'[q] = "off"]_vars
    BY GoneNext DEF NoNewPppd, StaysGone
  <1> QED
    BY <1>1, <1>2, <1>3, PTL DEF Spec, HangupHolds

=============================================================================
