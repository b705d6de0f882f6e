-------------------------- MODULE SystemCoreProofs --------------------------
(***************************************************************************)
(* What system_core promises for any size of the buffers and the pipes.    *)
(***************************************************************************)
EXTENDS SystemCore, TLAPS

LEMMA LeastOf ==
  ASSUME NEW m \in Nat, NEW n \in Nat
  PROVE  Least(m, n) \in Nat /\ Least(m, n) <= m /\ Least(m, n) <= n
  BY DEF Least

\* The byte on its way is counted once, and only while there is a command.
WantsCount ==
    /\ \A s \in Streams : written[s] + budget + (IF wants = s THEN 1 ELSE 0) <= MaxWrites
    /\ wants # NoStream => child = "running" /\ debug
    /\ pc \in {"call", "fork"} => child = "none"

TypeInv == TypeOK /\ WantsCount

LEMMA TypeInit == Init => TypeInv
  <1> SUFFICES ASSUME Init PROVE TypeInv
    OBVIOUS
  <1>1. /\ pos \in [Streams -> 0 .. BufSize - 1]
        /\ fill \in [Streams -> 0 .. PipeSize]
        /\ written \in [Streams -> 0 .. MaxWrites]
    BY Sizes DEF Init, Nothing
  <1>2. \A s \in Streams : written[s] = 0 /\ wants # s
    BY Sizes DEF Init, Nothing
  <1>3. TypeOK
    <2>1. budget \in 0 .. MaxWrites
      BY Sizes DEF Init
    <2>2. /\ open \subseteq Streams /\ ready \subseteq Streams /\ readers \subseteq Streams
          /\ log \subseteq [Streams -> 0 .. BufSize - 1]
          /\ wants \in Streams \cup {NoStream}
      BY DEF Init
    <2>3. /\ setting \in BOOLEAN /\ debug \in BOOLEAN
          /\ keeper \in BOOLEAN /\ refused \in BOOLEAN
      BY DEF Init
    <2> QED
      BY <1>1, <2>1, <2>2, <2>3 DEF Init, TypeOK
  <1>4. WantsCount
    BY <1>2, Sizes DEF Init, WantsCount
  <1> QED
    BY <1>3, <1>4 DEF TypeInv

LEMMA ReadType ==
  ASSUME TypeInv, NEW s \in Streams, Read(s)
  PROVE  /\ pos' \in [Streams -> 0 .. BufSize - 1]
         /\ fill' \in [Streams -> 0 .. PipeSize]
         /\ open' \subseteq Streams
  <1> DEFINE n == Least(fill[s], Room(s))
  <1>1. Room(s) \in Nat /\ fill[s] \in Nat
    BY Sizes DEF TypeInv, TypeOK, Room
  <1>2. n \in Nat /\ n <= fill[s] /\ n <= Room(s)
    BY <1>1, LeastOf
  <1>3. /\ pos' = [pos EXCEPT ![s] = pos[s] + n]
        /\ fill' = [fill EXCEPT ![s] = fill[s] - n]
        /\ open' \in {open, open \ {s}}
    BY DEF Read
  <1> HIDE DEF n
  <1> QED
    BY <1>1, <1>2, <1>3, Sizes DEF TypeInv, TypeOK, Room

LEMMA TypeNext == TypeInv /\ [Next]_vars => TypeInv'
  <1> SUFFICES ASSUME TypeInv, [Next]_vars PROVE TypeInv'
    OBVIOUS
  <1> USE Sizes DEF TypeInv, TypeOK, WantsCount, Streams, command
  <1>1. CASE Call
    BY <1>1 DEF Call
  <1>2. CASE ForkFails
    BY <1>2 DEF ForkFails
  <1>3. CASE Fork
    BY <1>3 DEF Fork
  <1>4. CASE Select
    BY <1>4 DEF Select, Readable
  <1>5. CASE Timeout
    BY <1>5 DEF Timeout
  <1>6. ASSUME NEW s \in Streams, Read(s) PROVE TypeInv'
    BY <1>6, ReadType DEF Read
  <1>7. CASE Close
    BY <1>7 DEF Close, Nothing
  <1>8. CASE Reap
    BY <1>8 DEF Reap
  <1>9. ASSUME NEW s \in Streams, Wants(s) PROVE TypeInv'
    BY <1>9 DEF Wants
  <1>10. ASSUME NEW s \in Streams, Written(s) PROVE TypeInv'
    BY <1>10 DEF Written
  <1>11. ASSUME NEW s \in Streams, Refused(s) PROVE TypeInv'
    BY <1>11 DEF Refused
  <1>12. CASE Exit
    BY <1>12 DEF Exit
  <1>13. CASE KeeperEnds
    BY <1>13 DEF KeeperEnds
  <1>14. CASE SwitchOff
    BY <1>14 DEF SwitchOff
  <1>15. CASE UNCHANGED vars
    BY <1>15 DEF vars
  <1> QED
    BY <1>1, <1>2, <1>3, <1>4, <1>5, <1>6, <1>7, <1>8, <1>9, <1>10, <1>11, <1>12,
       <1>13, <1>14, <1>15 DEF Next, Parent, Child

\* The type invariant; in particular pos never reaches the last byte of the
\* buffer, where the terminating zero goes.
THEOREM TypeCorrect == Spec => []TypeOK
  <1>1. TypeInv => TypeOK
    BY DEF TypeInv
  <1> QED
    BY TypeInit, TypeNext, <1>1, PTL DEF Spec

-----------------------------------------------------------------------------
(* What capturing costs a command that is never quiet *)

Blocked == wants \in readers /\ fill[wants] = PipeSize

Looping == pc \in {"select", "read"}

\* While the loop runs, every byte is in a buffer or in a pipe, and a stream is
\* closed only at the end of the file or with a full buffer.
Loop ==
    Looping =>
        /\ debug /\ readers = Streams
        /\ \A s \in Streams :
              /\ written[s] = pos[s] + fill[s]
              /\ s \notin open => Room(s) = 0 \/ (child # "running" /\ fill[s] = 0)
              /\ s \in ready /\ fill[s] = 0 => child # "running"

\* When the loop has ended, nothing that comes is wanted any more.
Ending ==
    pc = "close" =>
        /\ debug /\ readers = Streams
        /\ \A s \in Streams : /\ written[s] = pos[s] + fill[s]
                              /\ fill[s] = 0 \/ Room(s) = 0
        /\ \/ child # "running"
           \/ \A s \in Streams : Room(s) = 0
           \/ Blocked /\ \E s \in Streams : Room(s) = 0

\* Afterwards no byte is taken, and a write only fails with a full buffer.
Ended ==
    pc \in {"wait", "done"} =>
        /\ readers = {}
        /\ \A s \in Streams : pos[s] = Least(written[s], BufSize - 1)
        /\ debug /\ child = "running" => \E s \in Streams : Room(s) = 0

Before ==
    pc \in {"call", "fork"} =>
        /\ readers = {} /\ ready = {}
        /\ \A s \in Streams : written[s] = 0 /\ pos[s] = 0 /\ fill[s] = 0

Captured ==
    /\ Before /\ Loop /\ Ending /\ Ended
    /\ refused => \E s \in Streams : Room(s) = 0
    /\ log \subseteq {pos} /\ (log # {} => pc = "done")

LEMMA CapturedNext ==
  ASSUME ~quiet, TypeInv, Captured, [Next]_vars
  PROVE  Captured'
  <1> USE Sizes DEF TypeInv, TypeOK, WantsCount, Streams, command, Captured, Before, Loop,
        Looping, Ending, Ended, Blocked, Room
  <1>1. CASE Call
    BY <1>1 DEF Call, Readable, Writers, Silent, Nothing, Least
  <1>2. CASE ForkFails
    BY <1>2 DEF ForkFails, Readable, Writers, Silent, Nothing, Least
  <1>3. CASE Fork
    <2>1. CASE debug
      BY <1>3, <2>1 DEF Fork
    <2>2. CASE ~debug
      <3>1. \A s \in Streams : pos[s] = Least(written[s], BufSize - 1)
        BY <1>3 DEF Fork, Least
      <3> QED
        BY <1>3, <2>2, <3>1 DEF Fork, Least
    <2> QED
      BY <2>1, <2>2
  <1>4. CASE Select
    BY <1>4 DEF Select, Readable, Writers, Silent, Nothing, Least
  <1>5. CASE Timeout
    BY <1>5 DEF Timeout, Readable, Writers, Silent, Nothing, Least
  <1>6. ASSUME NEW s \in Streams, Read(s) PROVE Captured'
    <2> DEFINE n == Least(fill[s], Room(s))
    <2>1. Room(s) \in Nat /\ fill[s] \in Nat
      OBVIOUS
    <2>2. /\ n \in Nat /\ n <= fill[s] /\ n <= Room(s)
          /\ n = 0 => fill[s] = 0 \/ Room(s) = 0
      BY <2>1 DEF Least
    <2>3. /\ pos' = [pos EXCEPT ![s] = pos[s] + n]
          /\ fill' = [fill EXCEPT ![s] = fill[s] - n]
          /\ open' = IF n > 0 THEN open ELSE open \ {s}
          /\ ready' = ready \ {s}
          /\ pc' \in {"select", "read"}
      BY <1>6 DEF Read
    <2>4. pc = "read" /\ UNCHANGED <<debug, readers, written, child, refused, log>>
      BY <1>6 DEF Read
    <2> HIDE DEF n
    <2>5. \A t \in Streams : /\ pos'[t] + fill'[t] = pos[t] + fill[t]
                             /\ pos'[t] \in Nat
                             /\ Room(t)' <= Room(t) /\ Room(t)' >= 0
                             /\ t # s => pos'[t] = pos[t] /\ fill'[t] = fill[t]
      BY <2>1, <2>2, <2>3
    <2>6. Room(s) = 0 => Room(s)' = 0
      BY <2>1, <2>5
    <2>7. Loop'
      <3>1. debug' /\ readers' = Streams
        BY <2>4
      <3>2. \A t \in Streams : written'[t] = pos'[t] + fill'[t]
        BY <2>4, <2>5
      <3>3. s \notin open' => Room(s)' = 0 \/ (child' # "running" /\ fill'[s] = 0)
        <4>1. CASE s \in open
          <5>1. s \notin open' => n = 0
            BY <2>2, <2>3, <4>1
          <5> QED
            BY <1>6, <2>1, <2>2, <2>3, <2>4, <2>6, <5>1 DEF Read
        <4>2. CASE s \notin open
          BY <2>1, <2>2, <2>3, <2>4, <2>6, <4>2
        <4> QED
          BY <4>1, <4>2
      <3>4. \A t \in Streams \ {s} :
              t \notin open' => Room(t)' = 0 \/ (child' # "running" /\ fill'[t] = 0)
        BY <2>3, <2>4, <2>5
      <3>5. \A t \in Streams : t \in ready' /\ fill'[t] = 0 => child' # "running"
        BY <2>3, <2>4, <2>5
      <3> QED
        BY <3>1, <3>2, <3>3, <3>4, <3>5
    <2>8. refused' => \E t \in Streams : Room(t)' = 0
      BY <2>1, <2>4, <2>5
    <2> QED
      BY <2>3, <2>4, <2>7, <2>8
  <1>7. CASE Close
    BY <1>7 DEF Close, Readable, Writers, Silent, Nothing, Least
  <1>8. CASE Reap
    BY <1>8 DEF Reap, Readable, Writers, Silent, Nothing, Least
  <1>9. ASSUME NEW s \in Streams, Wants(s) PROVE Captured'
    BY <1>9 DEF Wants
  <1>10. ASSUME NEW s \in Streams, Written(s) PROVE Captured'
    BY <1>10 DEF Written
  <1>11. ASSUME NEW s \in Streams, Refused(s) PROVE Captured'
    BY <1>11 DEF Refused
  <1>12. CASE Exit
    BY <1>12 DEF Exit, Readable, Writers, Silent, Nothing, Least
  <1>13. CASE KeeperEnds
    BY <1>13 DEF KeeperEnds, Readable, Writers, Silent, Nothing, Least
  <1>14. CASE SwitchOff
    BY <1>14 DEF SwitchOff, Readable, Writers, Silent, Nothing, Least
  <1>15. CASE UNCHANGED vars
    BY <1>15 DEF vars
  <1> QED
    BY <1>1, <1>2, <1>3, <1>4, <1>5, <1>6, <1>7, <1>8, <1>9, <1>10, <1>11, <1>12, <1>13, <1>14, <1>15 DEF Next, Parent, Child

LEMMA CapturedInit == Init => Captured
  <1> SUFFICES ASSUME Init PROVE Captured
    OBVIOUS
  <1>1. \A s \in Streams : written[s] = 0 /\ pos[s] = 0 /\ fill[s] = 0
    BY DEF Init, Nothing
  <1> QED
    BY <1>1 DEF Init, Captured, Before, Loop, Looping, Ending, Ended

LEMMA QuietStays == [Next]_vars => quiet' = quiet
  BY DEF Next, vars, command, Parent, Child, Call, Fork, ForkFails, Select, Timeout, Close,
         Reap, Read, Exit, Written, Refused, Wants, KeeperEnds, SwitchOff

LEMMA CaptureInvariant == Spec => [](quiet \/ Captured)
  <1>1. TypeInv /\ (quiet \/ Captured) /\ [Next]_vars => (quiet \/ Captured)'
    BY CapturedNext, QuietStays
  <1> QED
    BY TypeInit, TypeNext, CapturedInit, <1>1, PTL DEF Spec

\* For any size of the buffers: a command that is never quiet for a second loses
\* no write before a buffer is full,
THEOREM CaptureIsHarmless == Spec => []OnlyFullBuffersRefuse
  <1>1. quiet \/ Captured => OnlyFullBuffersRefuse
    BY DEF Captured, OnlyFullBuffersRefuse
  <1> QED
    BY CaptureInvariant, <1>1, PTL

\* and its log entry is complete.
THEOREM LogsAreComplete == Spec => []LogIsComplete
  <1>1. quiet \/ Captured => LogIsComplete
    BY DEF Captured, Ended, LogIsComplete
  <1> QED
    BY CaptureInvariant, <1>1, PTL

-----------------------------------------------------------------------------
(* The call ends: every step leaves less to do, and until it has returned   *)
(* the parent or the command has a step to take.                           *)

\* How far the parent is; while it reads, how many streams it has still to read.
ParentLeft ==
    CASE pc = "call" -> 11
      [] pc = "fork" -> 10
      [] pc = "select" -> 3
      [] pc = "read" -> (IF Out \in ready THEN 1 ELSE 0) + (IF Err \in ready THEN 1 ELSE 0)
      [] pc = "close" -> 2
      [] pc = "wait" -> 1
      [] pc = "done" -> 0

CommandLeft ==
    CASE child = "none" -> 4
      [] child = "running" -> 3
      [] child = "zombie" -> 1
      [] child = "reaped" -> 0

BytesLeft ==
    5 * budget + (IF wants # NoStream THEN 4 ELSE 0) + 3 * (fill[Out] + fill[Err])

StreamsLeft == (IF Out \in open THEN 3 ELSE 0) + (IF Err \in open THEN 3 ELSE 0)

OthersLeft == (IF keeper THEN 1 ELSE 0) + (IF setting THEN 1 ELSE 0)

\* What is left to do: a round of the loop takes at least a byte out of a pipe or
\* closes a stream, and a byte comes into a pipe only from the command.
Left == BytesLeft + StreamsLeft + ParentLeft + CommandLeft + OthersLeft

\* The guards of the actions of the parent and of the command.
ParentGoes ==
    \/ pc \in {"call", "fork", "close"}
    \/ pc = "select" /\ (open = {} \/ Readable # {} \/ Silent)
    \/ pc = "read" /\ \E s \in ready : s = Err => Out \notin ready
    \/ pc = "wait" /\ child = "zombie"

ChildGoes ==
    \/ child = "running" /\ wants = NoStream
    \/ wants \in Streams /\ (wants \in readers => fill[wants] < PipeSize)

\* The command lives until it is reaped, and who reads has something to read.
Living ==
    /\ pc \in {"select", "read", "close", "wait"} => child \in {"running", "zombie"}
    /\ pc = "wait" => readers = {}
    /\ pc \in {"call", "fork"} => readers = {}
    /\ pc = "read" => ready # {} /\ ready \subseteq open

LEMMA LivingInit == Init => Living
  BY DEF Init, Living

LEMMA LivingNext == TypeInv /\ Living /\ [Next]_vars => Living'
  <1> SUFFICES ASSUME TypeInv, Living, [Next]_vars PROVE Living'
    OBVIOUS
  <1> USE DEF Living, command
  <1>1. CASE Call \/ ForkFails
    BY <1>1 DEF Call, ForkFails
  <1>2. CASE Fork
    BY <1>2 DEF Fork
  <1>3. CASE Select \/ Timeout
    BY <1>3 DEF Select, Timeout, Readable
  <1>4. ASSUME NEW s \in Streams, Read(s) PROVE Living'
    <2>1. pc = "read" /\ s \in ready /\ open' \in {open, open \ {s}} /\ ready' = ready \ {s}
      BY <1>4 DEF Read
    <2>2. pc' = (IF ready' = {} THEN "select" ELSE "read") /\ child' = child
      BY <1>4 DEF Read
    <2> QED
      BY <2>1, <2>2
  <1>5. CASE Close \/ Reap
    BY <1>5 DEF Close, Reap
  <1>6. ASSUME NEW s \in Streams, Wants(s) \/ Written(s) \/ Refused(s) PROVE Living'
    BY <1>6 DEF Wants, Written, Refused
  <1>7. CASE Exit \/ KeeperEnds \/ SwitchOff
    BY <1>7 DEF Exit, KeeperEnds, SwitchOff
  <1>8. CASE UNCHANGED vars
    BY <1>8 DEF vars
  <1> QED
    BY <1>1, <1>2, <1>3, <1>4, <1>5, <1>6, <1>7, <1>8 DEF Next, Parent, Child

LEMMA LivingInvariant == Spec => [](TypeInv /\ Living)
  BY TypeInit, TypeNext, LivingInit, LivingNext, PTL DEF Spec

Sized ==
    /\ BytesLeft \in Nat /\ StreamsLeft \in 0 .. 6 /\ ParentLeft \in Nat
    /\ CommandLeft \in Nat /\ OthersLeft \in Nat

LEMMA LeftTerms == TypeInv => Sized /\ Left \in Nat
  <1> SUFFICES ASSUME TypeInv PROVE Sized /\ Left \in Nat
    OBVIOUS
  <1>1. BytesLeft \in Nat
    BY Sizes DEF TypeInv, TypeOK, Streams, BytesLeft
  <1>2. StreamsLeft \in 0 .. 6
    BY DEF StreamsLeft
  <1>3. ParentLeft \in Nat
    BY DEF TypeInv, TypeOK, ParentLeft
  <1>4. CommandLeft \in Nat
    BY DEF TypeInv, TypeOK, CommandLeft
  <1>5. OthersLeft \in Nat
    BY DEF OthersLeft
  <1> QED
    BY <1>1, <1>2, <1>3, <1>4, <1>5 DEF Left, Sized

LEMMA ReadLeavesLess ==
  ASSUME TypeInv, Living, NEW s \in Streams, Read(s)
  PROVE  BytesLeft' + StreamsLeft' + ParentLeft' < BytesLeft + StreamsLeft + ParentLeft
  <1> DEFINE n == Least(fill[s], Room(s))
  <1>1. Room(s) \in Nat /\ fill[s] \in Nat /\ fill \in [Streams -> Nat] /\ budget \in Nat
    BY Sizes DEF TypeInv, TypeOK, Room
  <1>2. n \in Nat /\ n <= fill[s]
    BY <1>1, LeastOf
  <1>3. /\ fill' = [fill EXCEPT ![s] = fill[s] - n]
        /\ open' = IF n > 0 THEN open ELSE open \ {s}
        /\ ready' = ready \ {s} /\ s \in ready /\ pc = "read"
        /\ pc' = IF ready' = {} THEN "select" ELSE "read"
        /\ budget' = budget /\ wants' = wants
    BY DEF Read, command
  <1> HIDE DEF n
  <1>4. s \in open /\ ready \subseteq Streams
    BY <1>3 DEF Living, TypeInv, TypeOK
  <1>5. BytesLeft' = BytesLeft - 3 * n
    BY <1>1, <1>2, <1>3, Sizes DEF Streams, BytesLeft
  <1>6. StreamsLeft' = IF n > 0 THEN StreamsLeft ELSE StreamsLeft - 3
    BY <1>3, <1>4, Sizes DEF Streams, StreamsLeft
  <1>7. ParentLeft \in 1 .. 2 /\ ParentLeft' \in 1 .. 3
    <2>1. ParentLeft \in 1 .. 2
      BY <1>3, <1>4, Sizes DEF ParentLeft, Streams
    <2>2. ParentLeft' \in 1 .. 3
      <3>1. CASE ready' = {}
        BY <1>3, <3>1 DEF ParentLeft
      <3>2. CASE ready' # {}
        <4>1. pc' = "read" /\ (Out \in ready' \/ Err \in ready')
          BY <1>3, <1>4, <3>2 DEF Streams
        <4> QED
          BY <4>1 DEF ParentLeft
      <3> QED
        BY <3>1, <3>2
    <2> QED
      BY <2>1, <2>2
  <1> QED
    BY <1>2, <1>5, <1>6, <1>7, LeftTerms DEF Sized

\* No step but one that changes nothing leaves as much to do as there was: there
\* are never more steps than what was left at the call, 5 for each byte and 16
\* (setuid.c:149-283).
THEOREM CaptureEnds == Spec => [](Left \in Nat) /\ [][Left' < Left]_vars
  <1>1. TypeInv => Sized /\ Left \in Nat
    BY LeftTerms
  <1>2. TypeInv /\ Sized /\ Sized' /\ Living /\ [Next]_vars => [Left' < Left]_vars
    <2> SUFFICES ASSUME TypeInv, Sized, Sized', Living, Next PROVE Left' < Left
      OBVIOUS
    <2>1. PICK b \in Nat, t \in 0 .. 6, p \in Nat, c \in Nat, o \in Nat :
            /\ BytesLeft = b /\ StreamsLeft = t /\ ParentLeft = p
            /\ CommandLeft = c /\ OthersLeft = o
      BY DEF Sized
    <2>2. PICK b1 \in Nat, t1 \in 0 .. 6, p1 \in Nat, c1 \in Nat, o1 \in Nat :
            /\ BytesLeft' = b1 /\ StreamsLeft' = t1 /\ ParentLeft' = p1
            /\ CommandLeft' = c1 /\ OthersLeft' = o1
      BY DEF Sized
    <2>3. SUFFICES b1 + t1 + p1 + c1 + o1 < b + t + p + c + o
      BY <2>1, <2>2 DEF Left
    <2> USE <2>1, <2>2 DEF command
    <2>4. CASE Call
      <3>1. p = 11 /\ p1 = 10
        BY <2>4 DEF Call, ParentLeft
      <3>2. b1 = b /\ t1 = t /\ c1 = c /\ o1 = o
        BY <2>4 DEF Call, BytesLeft, StreamsLeft, CommandLeft, OthersLeft
      <3> QED
        BY <3>1, <3>2
    <2>5. CASE ForkFails
      <3>1. p = 10 /\ p1 = 0
        BY <2>5 DEF ForkFails, ParentLeft
      <3>2. b1 = b /\ t1 = t /\ c1 = c /\ o1 = o
        BY <2>5 DEF ForkFails, BytesLeft, StreamsLeft, CommandLeft, OthersLeft
      <3> QED
        BY <3>1, <3>2
    <2>6. CASE Fork
      <3>1. p = 10 /\ p1 <= 3
        BY <2>6 DEF Fork, ParentLeft
      <3>2. c = 4 /\ c1 = 3
        BY <2>6 DEF Fork, CommandLeft, TypeInv, WantsCount
      <3>3. b1 = b /\ o1 = o
        BY <2>6 DEF Fork, BytesLeft, OthersLeft
      <3> QED
        BY <3>1, <3>2, <3>3
    <2>7. CASE Select
      <3>1. p = 3 /\ p1 <= 2
        BY <2>7 DEF Select, ParentLeft
      <3>2. b1 = b /\ t1 = t /\ c1 = c /\ o1 = o
        BY <2>7 DEF Select, BytesLeft, StreamsLeft, CommandLeft, OthersLeft
      <3> QED
        BY <3>1, <3>2
    <2>8. CASE Timeout
      <3>1. p = 3 /\ p1 = 2
        BY <2>8 DEF Timeout, ParentLeft
      <3>2. b1 = b /\ t1 = t /\ c1 = c /\ o1 = o
        BY <2>8 DEF Timeout, BytesLeft, StreamsLeft, CommandLeft, OthersLeft
      <3> QED
        BY <3>1, <3>2
    <2>9. ASSUME NEW s \in Streams, Read(s)
          PROVE  b1 + t1 + p1 + c1 + o1 < b + t + p + c + o
      <3>1. b1 + t1 + p1 < b + t + p
        BY <2>9, ReadLeavesLess
      <3>2. c1 = c /\ o1 = o
        BY <2>9 DEF Read, CommandLeft, OthersLeft
      <3> QED
        BY <3>1, <3>2
    <2>10. CASE Close
      <3>1. p = 2 /\ p1 = 1
        BY <2>10 DEF Close, ParentLeft
      <3>2. b1 <= b
        BY <2>10, Sizes DEF Close, BytesLeft, Nothing, Streams, TypeInv, TypeOK
      <3>3. t1 = t /\ c1 = c /\ o1 = o
        BY <2>10 DEF Close, StreamsLeft, CommandLeft, OthersLeft
      <3> QED
        BY <3>1, <3>2, <3>3
    <2>11. CASE Reap
      <3>1. p = 1 /\ p1 = 0
        BY <2>11 DEF Reap, ParentLeft
      <3>2. c = 1 /\ c1 = 0
        BY <2>11 DEF Reap, CommandLeft
      <3>3. b1 = b /\ t1 = t /\ o1 = o
        BY <2>11 DEF Reap, BytesLeft, StreamsLeft, OthersLeft
      <3> QED
        BY <3>1, <3>2, <3>3
    <2>12. ASSUME NEW s \in Streams, Wants(s)
          PROVE  b1 + t1 + p1 + c1 + o1 < b + t + p + c + o
      <3>1. b1 < b
        BY <2>12, Sizes DEF Wants, BytesLeft, Streams, TypeInv, TypeOK
      <3>2. t1 = t /\ p1 = p /\ c1 = c /\ o1 = o
        BY <2>12 DEF Wants, StreamsLeft, ParentLeft, CommandLeft, OthersLeft
      <3> QED
        BY <3>1, <3>2
    <2>13. ASSUME NEW s \in Streams, Written(s)
          PROVE  b1 + t1 + p1 + c1 + o1 < b + t + p + c + o
      <3>1. b1 < b
        <4>1. fill'[Out] + fill'[Err] = fill[Out] + fill[Err] + 1
          BY <2>13, Sizes DEF Written, Streams, TypeInv, TypeOK
        <4> QED
          BY <2>13, <4>1, Sizes DEF Written, BytesLeft, Streams, TypeInv, TypeOK
      <3>2. t1 = t /\ p1 = p /\ c1 = c /\ o1 = o
        BY <2>13 DEF Written, StreamsLeft, ParentLeft, CommandLeft, OthersLeft
      <3> QED
        BY <3>1, <3>2
    <2>14. ASSUME NEW s \in Streams, Refused(s)
          PROVE  b1 + t1 + p1 + c1 + o1 < b + t + p + c + o
      <3>1. b1 < b
        BY <2>14, Sizes DEF Refused, BytesLeft, Streams, TypeInv, TypeOK
      <3>2. t1 = t /\ p1 = p /\ c1 = c /\ o1 = o
        BY <2>14 DEF Refused, StreamsLeft, ParentLeft, CommandLeft, OthersLeft
      <3> QED
        BY <3>1, <3>2
    <2>15. CASE Exit
      <3>1. c = 3 /\ c1 = 1
        BY <2>15 DEF Exit, CommandLeft
      <3>2. o1 <= o + 1
        BY <2>15 DEF Exit, OthersLeft
      <3>3. b1 = b /\ t1 = t /\ p1 = p
        BY <2>15 DEF Exit, BytesLeft, StreamsLeft, ParentLeft
      <3> QED
        BY <3>1, <3>2, <3>3
    <2>16. CASE KeeperEnds
      <3>1. o1 = o - 1
        BY <2>16 DEF KeeperEnds, OthersLeft
      <3>2. b1 = b /\ t1 = t /\ p1 = p /\ c1 = c
        BY <2>16 DEF KeeperEnds, BytesLeft, StreamsLeft, ParentLeft, CommandLeft
      <3> QED
        BY <3>1, <3>2
    <2>17. CASE SwitchOff
      <3>1. o1 = o - 1
        BY <2>17 DEF SwitchOff, OthersLeft
      <3>2. b1 = b /\ t1 = t /\ p1 = p /\ c1 = c
        BY <2>17 DEF SwitchOff, BytesLeft, StreamsLeft, ParentLeft, CommandLeft
      <3> QED
        BY <3>1, <3>2
    <2> QED
      BY <2>4, <2>5, <2>6, <2>7, <2>8, <2>9, <2>10, <2>11, <2>12,
         <2>13, <2>14, <2>15, <2>16, <2>17 DEF Next, Parent, Child
  <1> QED
    BY <1>1, <1>2, LivingInvariant, PTL DEF Spec

\* Until system_core has returned, the parent or the command can go on: they never
\* wait for each other, whatever fills the pipes and whoever holds them open.
THEOREM NeverStuck == Spec => [](pc = "done" \/ ParentGoes \/ ChildGoes)
  <1>1. ASSUME TypeInv, Living, pc # "done", ~ParentGoes PROVE ChildGoes
    <2>1. CASE pc = "read"
      <3>1. Out \in ready \/ (Err \in ready /\ Out \notin ready)
        BY <1>1, <2>1 DEF Living, TypeInv, TypeOK, Streams
      <3>2. \E s \in ready : s = Err => Out \notin ready
        BY <3>1, Sizes
      <3> QED
        BY <1>1, <2>1, <3>2 DEF ParentGoes
    <2>2. CASE pc = "select"
      <3>1. child = "running" /\ ~(wants \in readers /\ fill[wants] = PipeSize)
        BY <1>1, <2>2 DEF ParentGoes, Silent
      <3>2. wants \in readers => fill[wants] < PipeSize
        BY <1>1, <3>1, Sizes DEF TypeInv, TypeOK
      <3> QED
        BY <1>1, <3>1, <3>2 DEF ChildGoes, TypeInv, TypeOK
    <2>3. CASE pc = "wait"
      <3>1. child = "running" /\ readers = {}
        BY <1>1, <2>3 DEF ParentGoes, Living
      <3> QED
        BY <1>1, <3>1 DEF ChildGoes, TypeInv, TypeOK
    <2> QED
      BY <1>1, <2>1, <2>2, <2>3 DEF ParentGoes, TypeInv, TypeOK
  <1>2. TypeInv /\ Living => pc = "done" \/ ParentGoes \/ ChildGoes
    BY <1>1
  <1> QED
    BY <1>2, LivingInvariant, PTL

=============================================================================
