---------------------------- MODULE SettingsFile ----------------------------
(***************************************************************************)
(* A settings file, key=value in every line, and the programs that read    *)
(* and write it: those in C with read_kv_from_file and write_kv_to_file,   *)
(* the web pages in Perl with readhash and writehash.  Writing empties the *)
(* file when it is opened, before the lock is taken; output is buffered,   *)
(* so that a part that may end within a line is written whenever the       *)
(* buffer is full and the rest when the file is closed.                    *)
(*                                                                         *)
(* One write is under way at a time: nothing in the code sees to that, and *)
(* nothing is claimed for two.  Lines are counted as of equal length.      *)
(***************************************************************************)
EXTENDS Integers, Sequences, FiniteSets

CONSTANTS Keys, Values, Versions, Cut, Readers, Locking   \* see SettingsRegister

ASSUME SettingsAssumption ==
  /\ IsFiniteSet(Keys)
  /\ Versions \subseteq [Keys -> Values]
  /\ Cut \notin Values
  /\ Locking \subseteq Readers

\* The lines of a version in some order: a list in C has been turned round by
\* every read, a hash in Perl has no order.
Order == {s \in [1 .. Cardinality(Keys) -> Keys] :
            \A i, j \in DOMAIN s : s[i] = s[j] => i = j}
Lines(version, order) == [i \in DOMAIN order |-> <<order[i], version[order[i]]>>]

\* What a reader makes of lines: add_kv puts each in front and find_kv takes
\* the first, a hash keeps the last.
KeysOf(lines) == {lines[i][1] : i \in DOMAIN lines}
LastOf(lines, k) ==
  CHOOSE i \in DOMAIN lines :
    lines[i][1] = k /\ \A j \in DOMAIN lines : lines[j][1] = k => j <= i
Loaded(lines) == [k \in KeysOf(lines) |-> lines[LastOf(lines, k)][2]]

VARIABLES
  file,       \* the lines, the last one may be cut
  writer,     \* program of the write under way: its step, language and lines
  reader,     \* step and lines read of each reader
  shared,     \* the readers that hold the lock
  result,     \* what each reader has read, until it reads again
  value,      \* the version written last, or what was left of it
  seen, torn  \* the versions since a reader began, whether a write overlapped

fileVars == <<file, writer, reader, shared>>
history == <<value, seen, torn>>
vars == <<fileVars, result, history>>

Idle == [at |-> "idle", lang |-> "C", lines |-> <<>>]
Writing == writer.at # "idle"
Reading == {r \in Readers : reader[r].at # "idle"}

Init ==
  /\ value \in Versions
  /\ \E order \in Order : file = Lines(value, order)
  /\ writer = Idle
  /\ reader = [r \in Readers |-> [at |-> "idle", lines |-> <<>>]]
  /\ shared = {}
  /\ result = [r \in Readers |-> <<>>]
  /\ seen = [r \in Readers |-> {}]
  /\ torn = [r \in Readers |-> FALSE]

-----------------------------------------------------------------------------
(* Writing *)

\* fopen with "w", open with ">": the file is empty now.
OpenToWrite(lang, version, order) ==
  /\ ~Writing
  /\ writer' = [at |-> "opened", lang |-> lang, lines |-> Lines(version, order)]
  /\ file' = <<>>
  /\ value' = version
  /\ seen' = [r \in Readers |-> IF r \in Reading THEN seen[r] \cup {version} ELSE {}]
  /\ torn' = [r \in Readers |-> torn[r] \/ r \in Reading]
  /\ UNCHANGED <<reader, shared, result>>

\* Mutant: the file is written without the lock.
LockUnlocked ==
  /\ writer.at = "opened"
  /\ writer' = [writer EXCEPT !.at = "locked"]
  /\ UNCHANGED <<file, reader, shared, result, history>>

\* flock with LOCK_EX waits for the readers.
Lock ==
  /\ writer.at = "opened" /\ shared = {}
  /\ writer' = [writer EXCEPT !.at = "locked"]
  /\ UNCHANGED <<file, reader, shared, result, history>>

\* The first n lines, and the beginning of the next if cut.
Begun(lines, n, cut) ==
  SubSeq(lines, 1, n) \o IF cut THEN <<<<lines[n + 1][1], Cut>>>> ELSE <<>>

Longer(lines) == Len(lines) > Len(file) \/ (Len(lines) = Len(file) /\ lines # file)

\* The buffer is full.
Flush ==
  /\ writer.at = "locked"
  /\ \E n \in 0 .. Len(writer.lines) - 1, cut \in BOOLEAN :
       /\ file' = Begun(writer.lines, n, cut)
       /\ Longer(file')
  /\ UNCHANGED <<writer, reader, shared, result, history>>

\* In C the lock is given back first and the rest written by fclose, in Perl
\* close does both.
Unlock ==
  /\ writer.at = "locked" /\ writer.lang = "C"
  /\ writer' = [writer EXCEPT !.at = "unlocked"]
  /\ UNCHANGED <<file, reader, shared, result, history>>

\* Mutant: the program ends without closing the file.
CloseUnflushed ==
  /\ writer.at = IF writer.lang = "C" THEN "unlocked" ELSE "locked"
  /\ writer' = Idle
  /\ UNCHANGED <<file, reader, shared, result, history>>

Close ==
  /\ writer.at = IF writer.lang = "C" THEN "unlocked" ELSE "locked"
  /\ file' = writer.lines
  /\ writer' = Idle
  /\ UNCHANGED <<reader, shared, result, history>>

\* The program is killed, or the power fails: what was in the buffer is lost.
Die ==
  /\ Writing
  /\ writer' = Idle
  /\ value' = Loaded(file)
  /\ UNCHANGED <<file, reader, shared, result, seen, torn>>

-----------------------------------------------------------------------------
(* Reading *)

OpenToRead(r) ==
  /\ reader[r].at = "idle"
  /\ reader' = [reader EXCEPT ![r].at = IF r \in Locking THEN "opened" ELSE "reading"]
  /\ seen' = [seen EXCEPT ![r] = {value}]
  /\ torn' = [torn EXCEPT ![r] = Writing]
  /\ result' = [result EXCEPT ![r] = <<>>]
  /\ UNCHANGED <<file, writer, shared, value>>

\* flock with LOCK_SH waits for the writer.
LockShared(r) ==
  /\ reader[r].at = "opened" /\ writer.at # "locked"
  /\ reader' = [reader EXCEPT ![r].at = "reading"]
  /\ shared' = shared \cup {r}
  /\ UNCHANGED <<file, writer, result, history>>

Position(r) == Len(reader[r].lines)

\* A line that is complete.
ReadLine(r) ==
  /\ reader[r].at = "reading"
  /\ Position(r) < Len(file)
  /\ file[Position(r) + 1][2] # Cut
  /\ reader' = [reader EXCEPT ![r].lines = Append(@, file[Position(r) + 1])]
  /\ UNCHANGED <<file, writer, shared, result, history>>

\* The end of the file, before which a line that was cut is taken as it is, or
\* is an error if it has no = sign.  The callers get what was read before it.
AtEnd(r) ==
  \/ Position(r) >= Len(file)
  \/ Position(r) + 1 = Len(file) /\ file[Len(file)][2] = Cut

EndOfFile(r) ==
  /\ reader[r].at = "reading" /\ AtEnd(r)
  /\ \/ result' = [result EXCEPT ![r] = Loaded(reader[r].lines)]
     \/ /\ Position(r) < Len(file)
        /\ result' = [result EXCEPT ![r] = Loaded(Append(reader[r].lines, file[Len(file)]))]
  /\ reader' = [reader EXCEPT ![r] = [at |-> "idle", lines |-> <<>>]]
  /\ shared' = shared \ {r}
  /\ seen' = [seen EXCEPT ![r] = {}]
  /\ torn' = [torn EXCEPT ![r] = FALSE]
  /\ UNCHANGED <<file, writer, value>>

-----------------------------------------------------------------------------
WriteSteps ==
  \/ \E lang \in {"C", "Perl"}, version \in Versions, order \in Order :
       OpenToWrite(lang, version, order)
  \/ Lock \/ Flush \/ Unlock \/ Close \/ Die

ReadSteps(r) == OpenToRead(r) \/ LockShared(r) \/ ReadLine(r) \/ EndOfFile(r)

Next == WriteSteps \/ \E r \in Readers : ReadSteps(r)

Spec == Init /\ [][Next]_vars

-----------------------------------------------------------------------------
Line == Keys \X (Values \cup {Cut})

TypeOK ==
  /\ file \in Seq(Line)
  /\ writer \in [at: {"idle", "opened", "locked", "unlocked"}, lang: {"C", "Perl"},
                 lines: Seq(Line)]
  /\ reader \in [Readers -> [at: {"idle", "opened", "reading"}, lines: Seq(Line)]]
  /\ shared \subseteq Locking
  /\ writer.at = "locked" => shared = {}

\* The file and its locks implement the register: a read that no write
\* overlaps gets what was written, and one in C never gets values of two
\* versions, although the file is emptied before the lock is taken and its
\* last part written after the lock was given back.
Register == INSTANCE SettingsRegister WITH writing <- Writing
IsARegister == Register!Spec
=============================================================================
