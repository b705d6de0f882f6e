----------------------------- MODULE SystemCore -----------------------------
(***************************************************************************)
(* system_core of setuid.c, through which every privileged helper runs its *)
(* shell commands.  With DEBUG_SYSTEM_CALLS=on the parent captures what    *)
(* the command writes: two pipes, two buffers of BufSize bytes and a       *)
(* select loop that gives up when nothing is written for a second.         *)
(*                                                                         *)
(* The command is any program that writes, exits and may leave a process   *)
(* in the background that holds the write ends of the pipes (rc-service    *)
(* starts daemons).  Signals are ignored (initsetuid), so that a write     *)
(* to a pipe without a reader fails instead of killing the writer.         *)
(***************************************************************************)
EXTENDS Integers

CONSTANTS
    Out, Err,       \* the two streams
    BufSize,        \* sizeof(stdout_buf), 4096 in the code
    PipeSize,       \* what a pipe holds
    MaxWrites,      \* bound: the bytes the command writes
    Faults          \* what may happen, see FaultKinds

FaultKinds ==
    { "fork",       \* fork fails
      "pipe",       \* pipe fails
      "quiet",      \* some commands write nothing for a second
      "keeper" }    \* the command may leave a process in the background

Streams == {Out, Err}
NoStream == "none"

ASSUME Sizes ==
    /\ BufSize \in Nat \ {0}
    /\ PipeSize \in Nat \ {0}
    /\ MaxWrites \in Nat
    /\ Faults \subseteq FaultKinds
    /\ Out # Err /\ NoStream \notin Streams

VARIABLES
    setting,        \* DEBUG_SYSTEM_CALLS=on in main/settings
    pc,             \* where the parent is
    debug,          \* debug_enabled
    open,           \* the streams with stdout_open / stderr_open
    pos,            \* stdout_pos, stderr_pos
    ready,          \* the streams in read_fds after select, not read yet
    readers,        \* the streams whose read end exists
    fill,           \* the bytes in each pipe
    child,          \* the state of the child
    quiet,          \* the command may write nothing for a second
    wants,          \* the stream the child is writing a byte to
    keeper,         \* a background process holds the write ends
    budget,         \* the bytes the command has not written yet
    written,        \* history: the bytes each pipe has taken
    refused,        \* history: a write of the command has failed
    returned,       \* what system_core returned
    log             \* the entries written to the log: how much of each stream

vars == <<setting, pc, debug, open, pos, ready, readers, fill, child, quiet, wants,
          keeper, budget, written, refused, returned, log>>

command == <<child, quiet, wants, keeper, budget, written, refused>>

Nothing == [s \in Streams |-> 0]

TypeOK ==
    /\ setting \in BOOLEAN
    /\ pc \in {"call", "fork", "select", "read", "close", "wait", "done"}
    /\ debug \in BOOLEAN
    /\ open \subseteq Streams
    /\ pos \in [Streams -> 0 .. BufSize - 1]
    /\ ready \subseteq Streams
    /\ readers \subseteq Streams
    /\ fill \in [Streams -> 0 .. PipeSize]
    /\ child \in {"none", "running", "zombie", "reaped"}
    /\ quiet \in BOOLEAN
    /\ wants \in Streams \cup {NoStream}
    /\ keeper \in BOOLEAN
    /\ budget \in 0 .. MaxWrites
    /\ written \in [Streams -> 0 .. MaxWrites]
    /\ refused \in BOOLEAN
    /\ returned \in {"nothing", "error", "status"}
    /\ log \subseteq [Streams -> 0 .. BufSize - 1]

Init ==
    /\ setting \in BOOLEAN
    /\ pc = "call"
    /\ debug = FALSE
    /\ open = {} /\ ready = {} /\ readers = {}
    /\ pos = Nothing /\ fill = Nothing /\ written = Nothing
    /\ child = "none" /\ wants = NoStream
    /\ quiet \in BOOLEAN /\ (quiet => "quiet" \in Faults)
    /\ keeper = FALSE
    /\ budget = MaxWrites
    /\ refused = FALSE
    /\ returned = "nothing"
    /\ log = {}

Writers == child = "running" \/ keeper

\* What select finds readable: bytes, or the end of the file.
Readable == {s \in open : fill[s] > 0 \/ ~Writers}

\* Nothing more comes for a second: the command has ended (a process in the
\* background is silent), it is blocked on a full pipe, or it just takes long.
Silent ==
    \/ child # "running"
    \/ wants \in readers /\ fill[wants] = PipeSize
    \/ quiet /\ wants = NoStream

Room(s) == BufSize - pos[s] - 1

Least(m, n) == IF m < n THEN m ELSE n

-----------------------------------------------------------------------------
(* The parent *)

\* Look up the setting and make the pipes.
Call ==
    /\ pc = "call"
    /\ \E piped \in BOOLEAN :
          /\ ~piped => "pipe" \in Faults
          /\ debug' = (setting /\ piped)
    /\ pc' = "fork"
    /\ UNCHANGED <<setting, open, pos, ready, readers, fill, command, returned, log>>

ForkFails ==
    /\ pc = "fork"
    /\ "fork" \in Faults
    /\ returned' = "error"
    /\ pc' = "done"
    /\ UNCHANGED <<setting, debug, open, pos, ready, readers, fill, command, log>>

Fork ==
    /\ pc = "fork"
    /\ child' = "running"
    /\ open' = IF debug THEN Streams ELSE {}
    /\ readers' = open'
    /\ pc' = IF debug THEN "select" ELSE "wait"
    /\ UNCHANGED <<setting, debug, pos, ready, fill, quiet, wants, keeper, budget,
                   written, refused, returned, log>>

\* Mutant: the loop ends with the first stream that is closed.
SelectBoth ==
    /\ pc = "select"
    /\ IF open # Streams
       THEN pc' = "close" /\ UNCHANGED ready
       ELSE Readable # {} /\ ready' = Readable /\ pc' = "read"
    /\ UNCHANGED <<setting, debug, open, pos, readers, fill, command, returned, log>>

\* select returns with something to read; the loop ends when both are closed.
Select ==
    /\ pc = "select"
    /\ IF open = {}
       THEN pc' = "close" /\ UNCHANGED ready
       ELSE Readable # {} /\ ready' = Readable /\ pc' = "read"
    /\ UNCHANGED <<setting, debug, open, pos, readers, fill, command, returned, log>>

\* Mutant: a timeout goes on with the loop.
TimeoutGoesOn ==
    /\ pc = "select"
    /\ open # {} /\ Readable = {} /\ Silent
    /\ UNCHANGED vars

\* A second without anything to read: the loop ends.
Timeout ==
    /\ pc = "select"
    /\ open # {} /\ Readable = {} /\ Silent
    /\ pc' = "close"
    /\ UNCHANGED <<setting, debug, open, pos, ready, readers, fill, command, returned, log>>

\* Mutant: no byte of the buffer is kept for the terminating zero.
ReadToTheBrim(s) ==
    /\ pc = "read"
    /\ s \in ready /\ (s = Err => Out \notin ready)
    /\ LET n == Least(fill[s], Room(s) + 1) IN
          /\ pos' = [pos EXCEPT ![s] = @ + n]
          /\ fill' = [fill EXCEPT ![s] = @ - n]
          /\ open' = IF n > 0 THEN open ELSE open \ {s}
    /\ ready' = ready \ {s}
    /\ pc' = IF ready' = {} THEN "select" ELSE "read"
    /\ UNCHANGED <<setting, debug, readers, command, returned, log>>

\* Mutant: a short read is taken for the end of the file.
ReadShort(s) ==
    /\ pc = "read"
    /\ s \in ready /\ (s = Err => Out \notin ready)
    /\ LET n == Least(fill[s], Room(s)) IN
          /\ pos' = [pos EXCEPT ![s] = @ + n]
          /\ fill' = [fill EXCEPT ![s] = @ - n]
          /\ open' = IF n = Room(s) THEN open ELSE open \ {s}
    /\ ready' = ready \ {s}
    /\ pc' = IF ready' = {} THEN "select" ELSE "read"
    /\ UNCHANGED <<setting, debug, readers, command, returned, log>>

\* Read a stream, stdout first; a read of nothing, at the end of the file or
\* because the buffer is full, closes the stream for the loop.
Read(s) ==
    /\ pc = "read"
    /\ s \in ready /\ (s = Err => Out \notin ready)
    /\ LET n == Least(fill[s], Room(s)) IN
          /\ pos' = [pos EXCEPT ![s] = @ + n]
          /\ fill' = [fill EXCEPT ![s] = @ - n]
          /\ open' = IF n > 0 THEN open ELSE open \ {s}
    /\ ready' = ready \ {s}
    /\ pc' = IF ready' = {} THEN "select" ELSE "read"
    /\ UNCHANGED <<setting, debug, readers, command, returned, log>>

\* The read ends are closed; what the pipes still hold is lost.
Close ==
    /\ pc = "close"
    /\ readers' = {}
    /\ fill' = Nothing
    /\ pc' = "wait"
    /\ UNCHANGED <<setting, debug, open, pos, ready, command, returned, log>>

\* waitpid returns; log_command_execution looks up the setting once more.
Reap ==
    /\ pc = "wait"
    /\ child = "zombie"
    /\ child' = "reaped"
    /\ returned' = "status"
    /\ log' = IF debug /\ setting THEN {pos} ELSE {}
    /\ pc' = "done"
    /\ UNCHANGED <<setting, debug, open, pos, ready, readers, fill, quiet, wants, keeper,
                   budget, written, refused>>

-----------------------------------------------------------------------------
(* The command, and the administrator (external) *)

\* The command writes its next byte to s.
Wants(s) ==
    /\ child = "running" /\ wants = NoStream
    /\ debug /\ budget > 0
    /\ wants' = s
    /\ budget' = budget - 1
    /\ UNCHANGED <<setting, pc, debug, open, pos, ready, readers, fill, child,
                   quiet, keeper, written, refused, returned, log>>

\* The pipe takes the byte as soon as there is room;
Written(s) ==
    /\ wants = s
    /\ s \in readers /\ fill[s] < PipeSize
    /\ fill' = [fill EXCEPT ![s] = @ + 1]
    /\ written' = [written EXCEPT ![s] = @ + 1]
    /\ wants' = NoStream
    /\ UNCHANGED <<setting, pc, debug, open, pos, ready, readers, child, quiet,
                   keeper, budget, refused, returned, log>>

\* without a reader the write fails.
Refused(s) ==
    /\ wants = s
    /\ s \notin readers
    /\ refused' = TRUE
    /\ wants' = NoStream
    /\ UNCHANGED <<setting, pc, debug, open, pos, ready, readers, fill, child,
                   quiet, keeper, budget, written, returned, log>>

Exit ==
    /\ child = "running" /\ wants = NoStream
    /\ child' = "zombie"
    /\ keeper' \in IF "keeper" \in Faults THEN BOOLEAN ELSE {FALSE}
    /\ UNCHANGED <<setting, pc, debug, open, pos, ready, readers, fill, quiet, wants,
                   budget, written, refused, returned, log>>

KeeperEnds ==
    /\ keeper
    /\ keeper' = FALSE
    /\ UNCHANGED <<setting, pc, debug, open, pos, ready, readers, fill, child,
                   quiet, wants, budget, written, refused, returned, log>>

\* The administrator switches the setting off while the command runs.
SwitchOff ==
    /\ setting /\ pc # "done"
    /\ setting' = FALSE
    /\ UNCHANGED <<pc, debug, open, pos, ready, readers, fill, command, returned, log>>

-----------------------------------------------------------------------------

Parent ==
    \/ Call \/ Fork \/ ForkFails \/ Select \/ Timeout \/ Close \/ Reap
    \/ \E s \in Streams : Read(s)

Child == Exit \/ \E s \in Streams : Written(s) \/ Refused(s)

Next ==
    \/ Parent \/ Child \/ KeeperEnds \/ SwitchOff
    \/ \E s \in Streams : Wants(s)

Spec == Init /\ [][Next]_vars

\* The helper is scheduled, and a command whose writes do not block exits.
\* A process left in the background may stay for ever.
FairSpec == Spec /\ WF_vars(Parent) /\ WF_vars(Child)

-----------------------------------------------------------------------------

\* Capturing the output costs a command nothing unless it outgrows a buffer: as
\* long as it is not quiet for a second, none of its writes fails before one of
\* the buffers is full.
OnlyFullBuffersRefuse ==
    refused /\ ~quiet => \E s \in Streams : Room(s) = 0

\* A log entry of such a command has all that the pipes have taken, up to the size of the buffers.
LogIsComplete ==
    ~quiet =>
        \A l \in log, s \in Streams : l[s] = Least(written[s], BufSize - 1)

\* A helper gets its answer: neither a command that blocks on a full pipe nor a
\* process in the background that holds the pipes keeps it waiting.
Returns == pc = "fork" ~> pc = "done"

=============================================================================
