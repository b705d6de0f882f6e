------------------------- MODULE SettingsFileProofs -------------------------
(***************************************************************************)
(* The settings file implements the register, for any set of keys, any     *)
(* versions and any number of readers.                                     *)
(***************************************************************************)
EXTENDS SettingsFile, FiniteSetTheorems, FunctionTheorems, SequenceTheorems,
        WellFoundedInduction, TLAPS

(***************************************************************************)
(* Lines and what a reader makes of them.                                  *)
(***************************************************************************)
Found == Values \cup {Cut}

Once(lines) == \A i, j \in 1 .. Len(lines) : lines[i][1] = lines[j][1] => i = j

\* The lines are those of a version, but for values that were cut.
Of(lines, c) ==
  \A i \in 1 .. Len(lines) :
    lines[i][1] \in DOMAIN c /\ lines[i][2] \in {c[lines[i][1]], Cut}

\* Only the last line is cut.
CutLast(lines) == \A i \in 1 .. Len(lines) : lines[i][2] = Cut => i = Len(lines)

Uncut(lines) == \A i \in 1 .. Len(lines) : lines[i][2] # Cut

LEMMA LineTypes ==
  ASSUME NEW lines \in Seq(Line)
  PROVE  /\ Len(lines) \in Nat /\ DOMAIN lines = 1 .. Len(lines)
         /\ \A i \in 1 .. Len(lines) : lines[i][1] \in Keys /\ lines[i][2] \in Found
<1>1. Len(lines) \in Nat /\ DOMAIN lines = 1 .. Len(lines)
  BY LenProperties
<1>2. ASSUME NEW i \in 1 .. Len(lines)
      PROVE  lines[i][1] \in Keys /\ lines[i][2] \in Found
  <2>1. lines[i] \in Line
    BY ElementOfSeq
  <2> QED
    BY <2>1 DEF Line, Found
<1> QED
  BY <1>1, <1>2

LEMMA Least ==
  ASSUME NEW S, S \subseteq Nat, S # {}
  PROVE  \E x \in S : \A y \in S : x <= y
<1>1. PICK x \in S : \A y \in S : <<y, x>> \notin OpToRel(<, Nat)
  BY NatLessThanWellFounded, WFMin, Zenon
<1>2. \A y \in S : ~(y < x)
  BY <1>1 DEF OpToRel
<1> QED
  BY <1>2

\* The last line of a key exists.
LEMMA LastExists ==
  ASSUME NEW lines \in Seq(Line), NEW k \in KeysOf(lines)
  PROVE  /\ LastOf(lines, k) \in 1 .. Len(lines)
         /\ lines[LastOf(lines, k)][1] = k
<1> DEFINE P(i) == /\ lines[i][1] = k
                   /\ \A j \in DOMAIN lines : lines[j][1] = k => j <= i
<1> DEFINE D == {Len(lines) - i : i \in {i \in 1 .. Len(lines) : lines[i][1] = k}}
<1>1. Len(lines) \in Nat /\ DOMAIN lines = 1 .. Len(lines)
  BY LineTypes
<1>2. D \subseteq Nat
  BY <1>1
<1>3. PICK n \in 1 .. Len(lines) : lines[n][1] = k
  BY <1>1 DEF KeysOf
<1>4. Len(lines) - n \in D
  BY <1>3
<1>5. PICK x \in D : \A y \in D : x <= y
  <2> HIDE DEF D
  <2> QED
    BY <1>2, <1>4, Least
<1>6. PICK m \in 1 .. Len(lines) : lines[m][1] = k /\ x = Len(lines) - m
  BY <1>5
<1>7. ASSUME NEW j \in 1 .. Len(lines), lines[j][1] = k
      PROVE  j <= m
  <2>1. Len(lines) - j \in D
    BY <1>7
  <2>2. Len(lines) - m <= Len(lines) - j
    BY <1>5, <1>6, <2>1
  <2> QED
    BY <1>1, <2>2
<1>8. P(m) /\ m \in DOMAIN lines
  BY <1>1, <1>6, <1>7
<1>9. LastOf(lines, k) = CHOOSE i \in DOMAIN lines : P(i)
  BY DEF LastOf
<1>10. P(LastOf(lines, k)) /\ LastOf(lines, k) \in DOMAIN lines
  <2> HIDE DEF P
  <2> QED
    BY <1>8, <1>9
<1> QED
  BY <1>1, <1>10

LEMMA LoadedTypes ==
  ASSUME NEW lines \in Seq(Line)
  PROVE  /\ KeysOf(lines) = {lines[i][1] : i \in 1 .. Len(lines)}
         /\ KeysOf(lines) \subseteq Keys
         /\ DOMAIN Loaded(lines) = KeysOf(lines)
         /\ Loaded(lines) \in [KeysOf(lines) -> Found]
         /\ \A k \in KeysOf(lines) :
              \E i \in 1 .. Len(lines) : lines[i][1] = k /\ Loaded(lines)[k] = lines[i][2]
<1>1. KeysOf(lines) = {lines[i][1] : i \in 1 .. Len(lines)} /\ KeysOf(lines) \subseteq Keys
  BY LineTypes DEF KeysOf
<1>2. \A k \in KeysOf(lines) : Loaded(lines)[k] = lines[LastOf(lines, k)][2]
  BY DEF Loaded
<1>3. \A k \in KeysOf(lines) :
        \E i \in 1 .. Len(lines) : lines[i][1] = k /\ Loaded(lines)[k] = lines[i][2]
  BY <1>2, LastExists
<1>4. \A k \in KeysOf(lines) : Loaded(lines)[k] \in Found
  BY <1>3, LineTypes
<1>5. Loaded(lines) = [k \in KeysOf(lines) |-> lines[LastOf(lines, k)][2]]
  BY DEF Loaded
<1>6. Loaded(lines) \in [KeysOf(lines) -> Found]
  BY <1>2, <1>4, <1>5
<1> QED
  BY <1>1, <1>3, <1>5, <1>6

\* With every key once, each line counts.
LEMMA LoadedOnce ==
  ASSUME NEW lines \in Seq(Line), Once(lines), NEW i \in 1 .. Len(lines)
  PROVE  lines[i][1] \in KeysOf(lines) /\ Loaded(lines)[lines[i][1]] = lines[i][2]
BY LoadedTypes DEF Once

LEMMA LoadedContents ==
  ASSUME NEW lines \in Seq(Line)
  PROVE  Loaded(lines) \in Register!Contents
BY LoadedTypes DEF Register!Contents, Found

\* Lines of one version make it shorter at most.
LEMMA LoadedShort ==
  ASSUME NEW lines \in Seq(Line), NEW c, Of(lines, c)
  PROVE  Loaded(lines) \in Register!Shortened(c)
<1>1. ASSUME NEW k \in DOMAIN Loaded(lines)
      PROVE  k \in DOMAIN c /\ Loaded(lines)[k] \in {c[k], Cut}
  <2>1. PICK i \in 1 .. Len(lines) : lines[i][1] = k /\ Loaded(lines)[k] = lines[i][2]
    BY LoadedTypes
  <2> QED
    BY <2>1 DEF Of
<1> QED
  BY <1>1, LoadedContents DEF Register!Shortened

\* Lines of several versions make a mixture of them.
LEMMA LoadedMixed ==
  ASSUME NEW lines \in Seq(Line), NEW C,
         \A i \in 1 .. Len(lines) :
           \E c \in C : lines[i][1] \in DOMAIN c /\ lines[i][2] \in {c[lines[i][1]], Cut}
  PROVE  Loaded(lines) \in Register!Mixed(C)
<1>1. ASSUME NEW k \in DOMAIN Loaded(lines)
      PROVE  \E c \in C : k \in DOMAIN c /\ Loaded(lines)[k] \in {c[k], Cut}
  <2>1. PICK i \in 1 .. Len(lines) : lines[i][1] = k /\ Loaded(lines)[k] = lines[i][2]
    BY LoadedTypes
  <2> QED
    BY <2>1
<1> QED
  BY <1>1, LoadedContents DEF Register!Mixed

\* What is left when the last line, which is cut, is taken for an error.
LEMMA LoadedWhole ==
  ASSUME NEW all \in Seq(Line), NEW lines \in Seq(Line), Once(all), Uncut(lines),
         Len(all) = Len(lines) + 1, all[Len(all)][2] = Cut,
         \A i \in 1 .. Len(lines) : lines[i] = all[i]
  PROVE  Loaded(lines) = Register!Whole(Loaded(all))
<1> DEFINE W == Register!Whole(Loaded(all))
<1> DEFINE WD == {k \in DOMAIN Loaded(all) : Loaded(all)[k] # Cut}
<1>1. Len(lines) \in Nat /\ Len(all) \in Nat
  BY LineTypes
<1>2. Once(lines)
  BY <1>1 DEF Once
<1>3. \A i \in 1 .. Len(lines) : i \in 1 .. Len(all)
  BY <1>1
<1>4. ASSUME NEW k \in KeysOf(lines)
      PROVE  k \in WD /\ Loaded(lines)[k] = Loaded(all)[k]
  <2>1. PICK i \in 1 .. Len(lines) : lines[i][1] = k
    BY LoadedTypes
  <2>2. Loaded(lines)[k] = lines[i][2] /\ Loaded(all)[k] = all[i][2] /\ k \in KeysOf(all)
    BY <1>2, <1>3, <2>1, LoadedOnce
  <2> QED
    BY <2>1, <2>2, LoadedTypes DEF Uncut
<1>5. ASSUME NEW k \in WD
      PROVE  k \in KeysOf(lines)
  <2>1. PICK i \in 1 .. Len(all) : all[i][1] = k /\ Loaded(all)[k] = all[i][2]
    BY LoadedTypes
  <2>2. i # Len(all)
    BY <2>1
  <2>3. i \in 1 .. Len(lines)
    BY <1>1, <2>2
  <2> QED
    BY <2>1, <2>3, LoadedTypes
<1>6. DOMAIN Loaded(lines) = WD
  <2> HIDE DEF WD
  <2> QED
    BY <1>4, <1>5, LoadedTypes
<1>7. W = [k \in WD |-> Loaded(all)[k]]
  BY DEF Register!Whole
<1>8. Loaded(lines) = [k \in DOMAIN Loaded(lines) |-> Loaded(lines)[k]]
  BY DEF Loaded
<1>9. \A k \in WD : Loaded(lines)[k] = Loaded(all)[k]
  <2> HIDE DEF WD
  <2> QED
    BY <1>4, <1>6, LoadedTypes
<1>10. Loaded(lines) = [k \in WD |-> Loaded(all)[k]]
  <2> HIDE DEF WD
  <2> QED
    BY <1>6, <1>8, <1>9
<1> QED
  BY <1>7, <1>10

\* The lines of a version that is written.
LEMMA LinesOfVersion ==
  ASSUME NEW version \in Versions, NEW order \in Order
  PROVE  LET lines == Lines(version, order)
         IN  /\ lines \in Seq(Line)
             /\ Once(lines) /\ Uncut(lines) /\ Of(lines, version)
             /\ Loaded(lines) = version
<1> DEFINE lines == Lines(version, order)
<1> DEFINE n == Cardinality(Keys)
<1>1. version \in [Keys -> Values] /\ IsFiniteSet(Keys) /\ n \in Nat /\ Cut \notin Values
  BY SettingsAssumption, FS_CardinalityType
<1>2. order \in [1 .. n -> Keys] /\ \A i, j \in 1 .. n : order[i] = order[j] => i = j
  BY DEF Order
<1>3. order \in Injection(1 .. n, Keys)
  BY <1>2 DEF Injection, IsInjective
<1>4. Cardinality(1 .. n) = n
  BY <1>1, FS_Interval
<1>5. order \in Surjection(1 .. n, Keys)
  BY <1>1, <1>3, <1>4, FS_Injection
<1>6. \A k \in Keys : \E i \in 1 .. n : order[i] = k
  BY <1>5 DEF Surjection
<1>7. lines = [i \in 1 .. n |-> <<order[i], version[order[i]]>>]
  BY <1>2 DEF Lines
<1>8. \A i \in 1 .. n : <<order[i], version[order[i]]>> \in Line
  BY <1>1, <1>2 DEF Line
<1>9. lines \in Seq(Line) /\ Len(lines) = n
  <2> HIDE DEF n
  <2> QED
    BY <1>1, <1>7, <1>8
<1>10. \A i \in 1 .. n : lines[i][1] = order[i] /\ lines[i][2] = version[order[i]]
  BY <1>7
<1> HIDE DEF lines, n
<1>11. Once(lines)
  BY <1>2, <1>9, <1>10 DEF Once
<1>12. Uncut(lines)
  BY <1>1, <1>2, <1>9, <1>10 DEF Uncut
<1>13. Of(lines, version)
  BY <1>1, <1>2, <1>9, <1>10 DEF Of
<1>14. KeysOf(lines) = Keys
  <2>1. KeysOf(lines) = {lines[i][1] : i \in 1 .. n} /\ KeysOf(lines) \subseteq Keys
    BY <1>9, LoadedTypes
  <2>2. \A k \in Keys : \E i \in 1 .. n : lines[i][1] = k
    BY <1>6, <1>10
  <2> QED
    BY <2>1, <2>2
<1>15. \A k \in Keys : Loaded(lines)[k] = version[k]
  BY <1>2, <1>6, <1>9, <1>10, <1>11, LoadedOnce
<1>16. Loaded(lines) \in [Keys -> Found]
  BY <1>9, <1>14, LoadedTypes
<1>17. Loaded(lines) = version
  BY <1>1, <1>15, <1>16
<1> QED
  BY <1>9, <1>11, <1>12, <1>13, <1>17 DEF lines

\* What a buffer that was full has left of them.
LEMMA BegunLines ==
  ASSUME NEW lines \in Seq(Line), NEW n \in 0 .. Len(lines) - 1, NEW cut \in BOOLEAN,
         Once(lines), Uncut(lines)
  PROVE  LET begun == Begun(lines, n, cut)
         IN  /\ begun \in Seq(Line) /\ Once(begun) /\ CutLast(begun)
             /\ \A c : Of(lines, c) => Of(begun, c)
             /\ \A i \in 1 .. Len(begun) :
                  /\ i \in 1 .. Len(lines) /\ begun[i][1] = lines[i][1]
                  /\ begun[i][2] \in {lines[i][2], Cut}
<1> DEFINE first == SubSeq(lines, 1, n)
<1> DEFINE rest == IF cut THEN <<<<lines[n + 1][1], Cut>>>> ELSE <<>>
<1> DEFINE begun == Begun(lines, n, cut)
<1>1. Len(lines) \in Nat /\ n \in Nat /\ n + 1 \in 1 .. Len(lines)
  BY LineTypes
<1>2. first \in Seq(Line) /\ Len(first) = n /\ \A i \in 1 .. n : first[i] = lines[i]
  <2>1. \A i \in 1 .. n : lines[i] \in Line
    BY <1>1, ElementOfSeq
  <2> QED
    BY <1>1, <2>1, SubSeqProperties
<1>3. <<lines[n + 1][1], Cut>> \in Line
  BY <1>1, LineTypes DEF Line
<1>4. rest \in Seq(Line) /\ Len(rest) = IF cut THEN 1 ELSE 0
  BY <1>3
<1>5. cut => rest[1][1] = lines[n + 1][1] /\ rest[1][2] = Cut
  OBVIOUS
<1>6. begun = first \o rest
  BY DEF Begun
<1> HIDE DEF first, rest, begun
<1>7. /\ begun \in Seq(Line) /\ Len(begun) = n + Len(rest)
      /\ \A i \in 1 .. Len(begun) : begun[i] = IF i <= n THEN first[i] ELSE rest[i - n]
  <2>1. /\ first \o rest \in Seq(Line)
        /\ Len(first \o rest) = Len(first) + Len(rest)
        /\ \A i \in 1 .. Len(first) + Len(rest) :
             (first \o rest)[i] = IF i <= Len(first) THEN first[i] ELSE rest[i - Len(first)]
    BY <1>2, <1>4, ConcatProperties, Zenon
  <2> QED
    BY <1>2, <1>6, <2>1
<1>8. ASSUME NEW i \in 1 .. Len(begun)
      PROVE  /\ i \in 1 .. Len(lines) /\ begun[i][1] = lines[i][1]
             /\ begun[i][2] = lines[i][2] \/ (begun[i][2] = Cut /\ i = Len(begun))
  <2>1. CASE i <= n
    <3>1. i \in 1 .. n /\ i \in 1 .. Len(lines)
      BY <1>1, <2>1
    <3>2. begun[i] = lines[i]
      BY <1>2, <1>7, <2>1, <3>1
    <3>3. begun[i][1] = lines[i][1] /\ begun[i][2] = lines[i][2]
      BY <3>2
    <3> QED
      BY <3>1, <3>3
  <2>2. CASE i > n
    <3>1. cut /\ i = n + 1 /\ Len(begun) = n + 1 /\ i - n = 1
      BY <1>1, <1>4, <1>7, <2>2
    <3>2. begun[i] = rest[1]
      BY <1>1, <1>7, <3>1
    <3> QED
      BY <1>1, <1>5, <3>1, <3>2
  <2> QED
    BY <1>1, <2>1, <2>2
<1>9. Once(begun) /\ CutLast(begun)
  BY <1>8 DEF Once, CutLast, Uncut
<1>10. \A c : Of(lines, c) => Of(begun, c)
  BY <1>8 DEF Of
<1> QED
  BY <1>7, <1>8, <1>9, <1>10 DEF begun

-----------------------------------------------------------------------------
(* The invariant.                                                          *)

\* Every line is of one of the versions in C.
OfAny(lines, C) ==
  \A i \in 1 .. Len(lines) :
    \E c \in C : lines[i][1] \in DOMAIN c /\ lines[i][2] \in {c[lines[i][1]], Cut}

\* The file has the lines of the version stored, and so has the writer.
FileInv ==
  /\ file \in Seq(Line) /\ Once(file) /\ CutLast(file) /\ Of(file, value)
  /\ ~Writing => Loaded(file) = value
  /\ writer \in [at: {"idle", "opened", "locked", "unlocked"}, lang: {"C", "Perl"},
                 lines: Seq(Line)]
  /\ Writing => /\ Once(writer.lines) /\ Uncut(writer.lines) /\ Of(writer.lines, value)
                /\ Loaded(writer.lines) = value

ReaderTypes ==
  /\ reader \in [Readers -> [at: {"idle", "opened", "reading"}, lines: Seq(Line)]]
  /\ DOMAIN seen = Readers /\ torn \in [Readers -> BOOLEAN]
  /\ shared = {r \in Locking : reader[r].at = "reading"}
  /\ writer.at = "locked" => shared = {}

AtRest(r) ==
  /\ reader[r].at = "idle" <=> seen[r] = {}
  /\ reader[r].at # "reading" => reader[r].lines = <<>>
  /\ reader[r].at = "opened" => r \in Locking
  /\ Uncut(reader[r].lines)

\* A read that no write overlaps has read the first lines of the file.
Untorn(r) ==
  ~torn[r] => /\ ~Writing
              /\ Len(reader[r].lines) <= Len(file)
              /\ \A i \in 1 .. Len(reader[r].lines) : reader[r].lines[i] = file[i]

\* A reader that takes the lock sees one version: another writer may empty
\* the file under it, but not fill it again.
OneVersion(r) ==
  r \in Locking =>
    \E c \in seen[r] :
      /\ Of(reader[r].lines, c) /\ Of(file, c)
      /\ writer.at \in {"locked", "unlocked"} => Of(writer.lines, c)
      /\ writer.at = "opened" /\ reader[r].at = "opened" => Of(writer.lines, c)

SomeVersions(r) ==
  /\ OfAny(reader[r].lines, seen[r]) /\ OfAny(file, seen[r])
  /\ Writing => OfAny(writer.lines, seen[r])

ReadInv(r) ==
  /\ AtRest(r)
  /\ reader[r].at # "idle" => Untorn(r) /\ OneVersion(r) /\ SomeVersions(r)

Inv == FileInv /\ ReaderTypes /\ \A r \in Readers : ReadInv(r)

LEMMA NoLines ==
  ASSUME NEW C, NEW c
  PROVE  /\ <<>> \in Seq(Line) /\ Of(<<>>, c) /\ OfAny(<<>>, C)
         /\ Once(<<>>) /\ CutLast(<<>>) /\ Uncut(<<>>)
<1>1. Len(<<>>) = 0 /\ <<>> \in Seq(Line)
  BY EmptySeq
<1> QED
  BY <1>1 DEF Of, OfAny, Once, CutLast, Uncut

LEMMA OfOne ==
  ASSUME NEW lines, NEW C, NEW c \in C, Of(lines, c)
  PROVE  OfAny(lines, C)
BY DEF Of, OfAny

\* With every key once, the lines are those of what they load.
LEMMA OfLoaded ==
  ASSUME NEW lines \in Seq(Line), Once(lines)
  PROVE  Of(lines, Loaded(lines))
BY LoadedOnce, LoadedTypes DEF Of

LEMMA InitInv == Init => Inv
<1> SUFFICES ASSUME Init PROVE Inv
  OBVIOUS
<1>1. PICK order \in Order : file = Lines(value, order)
  BY DEF Init
<1>2. /\ file \in Seq(Line) /\ Once(file) /\ Uncut(file) /\ Of(file, value)
      /\ Loaded(file) = value
  BY <1>1, LinesOfVersion DEF Init
<1>3. <<>> \in Seq(Line) /\ Uncut(<<>>)
  BY NoLines
<1>4. FileInv
  BY <1>2, <1>3 DEF Init, FileInv, Idle, Writing, CutLast, Uncut
<1>5. ReaderTypes
  BY <1>3, SettingsAssumption DEF Init, ReaderTypes, Idle
<1>6. ASSUME NEW r \in Readers
      PROVE  ReadInv(r)
  BY <1>3 DEF Init, ReadInv, AtRest
<1> QED
  BY <1>4, <1>5, <1>6 DEF Inv

(***************************************************************************)
(* Writing.                                                                *)
(***************************************************************************)
LEMMA OpenToWriteInv ==
  ASSUME Inv, NEW lang \in {"C", "Perl"}, NEW version \in Versions, NEW order \in Order,
         OpenToWrite(lang, version, order)
  PROVE  Inv'
<1> DEFINE lines == Lines(version, order)
<1>1. /\ lines \in Seq(Line)
      /\ Once(lines) /\ Uncut(lines) /\ Of(lines, version)
      /\ Loaded(lines) = version
  BY LinesOfVersion
<1> HIDE DEF lines
<1>2. writer' = [at |-> "opened", lang |-> lang, lines |-> lines] /\ file' = <<>> /\ value' = version
  BY DEF OpenToWrite, lines
<1>3. FileInv'
  BY <1>1, <1>2, NoLines DEF FileInv, Writing
<1>4. reader' = reader /\ shared' = shared
      /\ seen' = [r \in Readers |-> IF r \in Reading THEN seen[r] \cup {version} ELSE {}]
      /\ torn' = [r \in Readers |-> torn[r] \/ r \in Reading]
  BY DEF OpenToWrite
<1>5. ReaderTypes'
  BY <1>2, <1>4 DEF Inv, ReaderTypes
<1>6. ASSUME NEW r \in Readers
      PROVE  ReadInv(r)'
  <2>1. AtRest(r)'
    BY <1>4 DEF Inv, ReadInv, AtRest, Reading
  <2>2. CASE reader[r].at # "idle"
    <3>1. seen'[r] = seen[r] \cup {version} /\ torn'[r]
      BY <1>4, <2>2 DEF Reading
    <3>2. Untorn(r)'
      BY <3>1 DEF Untorn
    <3>3. SomeVersions(r)'
      <4>1. OfAny(reader[r].lines, seen[r])
        BY <2>2 DEF Inv, ReadInv, SomeVersions
      <4>2. OfAny(reader[r].lines, seen'[r])
        BY <3>1, <4>1 DEF OfAny
      <4>3. OfAny(lines, seen'[r])
        BY <1>1, <3>1, OfOne
      <4> QED
        BY <1>2, <1>4, <4>2, <4>3, NoLines DEF SomeVersions
    <3>4. OneVersion(r)'
      <4>1. CASE reader[r].at = "opened"
        <5>1. reader[r].lines = <<>>
          BY <4>1 DEF Inv, ReadInv, AtRest
        <5>2. Of(<<>>, version)
          BY NoLines
        <5> QED
          BY <1>1, <1>2, <1>4, <3>1, <5>1, <5>2 DEF OneVersion
      <4>2. CASE reader[r].at # "opened"
        <5>1. r \in Locking => \E c \in seen[r] : Of(reader[r].lines, c)
          BY <2>2 DEF Inv, ReadInv, OneVersion
        <5>2. \A c \in seen[r] : Of(<<>>, c)
          BY NoLines
        <5> QED
          BY <1>2, <1>4, <3>1, <4>2, <5>1, <5>2 DEF OneVersion
      <4> QED
        BY <4>1, <4>2
    <3> QED
      BY <2>1, <3>2, <3>3, <3>4 DEF ReadInv
  <2> QED
    BY <1>4, <2>1, <2>2 DEF ReadInv
<1> QED
  BY <1>3, <1>5, <1>6 DEF Inv

\* What Lock, Flush, Unlock, Close and Die leave the readers: the file keeps
\* its lines or gets some of the writer's.
LEMMA WriterInv ==
  ASSUME Inv, FileInv', UNCHANGED <<reader, shared, seen, torn>>, Writing,
         \/ file' = file
         \/ /\ writer.at \in {"locked", "unlocked"}
            /\ \A c : Of(file, c) /\ Of(writer.lines, c) => Of(file', c)
            /\ \A C : OfAny(file, C) /\ OfAny(writer.lines, C) => OfAny(file', C),
         Writing' => writer'.lines = writer.lines /\ writer'.at # "opened",
         writer'.at = "locked" => shared = {},
         writer'.at = "unlocked" => writer.at \in {"locked", "unlocked"}
  PROVE  Inv'
<1>1. ReaderTypes'
  BY DEF Inv, ReaderTypes
<1>2. ASSUME NEW r \in Readers
      PROVE  ReadInv(r)'
  <2>1. AtRest(r)'
    BY DEF Inv, ReadInv, AtRest
  <2>2. CASE reader[r].at # "idle"
    <3>1. torn[r]
      BY <2>2 DEF Inv, ReadInv, Untorn
    <3>2. Untorn(r)'
      BY <3>1 DEF Untorn
    <3>3. SomeVersions(r)'
      <4>1. SomeVersions(r)
        BY <2>2 DEF Inv, ReadInv
      <4> QED
        BY <4>1 DEF SomeVersions
    <3>4. ASSUME r \in Locking
          PROVE  OneVersion(r)'
      <4>1. PICK c \in seen[r] :
              /\ Of(reader[r].lines, c) /\ Of(file, c)
              /\ writer.at \in {"locked", "unlocked"} => Of(writer.lines, c)
              /\ writer.at = "opened" /\ reader[r].at = "opened" => Of(writer.lines, c)
        BY <2>2, <3>4 DEF Inv, ReadInv, OneVersion
      <4>2. Of(file', c)
        BY <4>1
      <4>3. writer.at \in {"opened", "locked", "unlocked"}
        BY DEF Inv, FileInv, Writing
      <4>4. shared = {} => reader[r].at = "opened"
        BY <2>2, <3>4, SettingsAssumption DEF Inv, ReaderTypes
      <4>5. writer'.at \in {"locked", "unlocked"} => Of(writer'.lines, c)
        BY <4>1, <4>3, <4>4 DEF Writing
      <4>6. writer'.at # "opened"
        BY DEF Writing
      <4> QED
        BY <4>1, <4>2, <4>5, <4>6 DEF OneVersion
    <3>5. OneVersion(r)'
      BY <3>4 DEF OneVersion
    <3> QED
      BY <2>1, <3>2, <3>3, <3>5 DEF ReadInv
  <2> QED
    BY <2>1, <2>2 DEF ReadInv
<1> QED
  BY <1>1, <1>2 DEF Inv

LEMMA LockInv ==
  ASSUME Inv, Lock
  PROVE  Inv'
<1>1. Writing /\ Writing' /\ writer' = [writer EXCEPT !.at = "locked"] /\ file' = file
  BY DEF Lock, Inv, FileInv, Writing
<1>2. FileInv'
  BY <1>1 DEF Lock, history, Inv, FileInv
<1> QED
  BY <1>1, <1>2, WriterInv DEF Lock, history, Inv, FileInv

LEMMA UnlockInv ==
  ASSUME Inv, Unlock
  PROVE  Inv'
<1>1. Writing /\ Writing' /\ writer' = [writer EXCEPT !.at = "unlocked"] /\ file' = file
  BY DEF Unlock, Inv, FileInv, Writing
<1>2. FileInv'
  BY <1>1 DEF Unlock, history, Inv, FileInv
<1> QED
  BY <1>1, <1>2, WriterInv DEF Unlock, history, Inv, FileInv

LEMMA FlushInv ==
  ASSUME Inv, Flush
  PROVE  Inv'
<1>1. PICK n \in 0 .. Len(writer.lines) - 1, cut \in BOOLEAN :
        file' = Begun(writer.lines, n, cut)
  BY DEF Flush
<1>2. /\ writer.lines \in Seq(Line) /\ Once(writer.lines) /\ Uncut(writer.lines)
      /\ Of(writer.lines, value) /\ Writing /\ writer' = writer
  BY DEF Flush, Inv, FileInv, Writing
<1>3. /\ file' \in Seq(Line) /\ Once(file') /\ CutLast(file')
      /\ \A c : Of(writer.lines, c) => Of(file', c)
      /\ \A i \in 1 .. Len(file') :
           /\ i \in 1 .. Len(writer.lines) /\ file'[i][1] = writer.lines[i][1]
           /\ file'[i][2] \in {writer.lines[i][2], Cut}
  BY <1>1, <1>2, BegunLines
<1>4. FileInv'
  BY <1>2, <1>3 DEF Flush, history, Inv, FileInv, Writing
<1>5. \A C : OfAny(writer.lines, C) => OfAny(file', C)
  BY <1>3 DEF OfAny
<1> QED
  BY <1>2, <1>3, <1>4, <1>5, WriterInv DEF Flush, history, Inv, ReaderTypes

LEMMA CloseInv ==
  ASSUME Inv, Close
  PROVE  Inv'
<1>1. writer.at \in {"locked", "unlocked"} /\ Writing /\ writer' = Idle /\ file' = writer.lines
  BY DEF Close, Writing
<1>2. Idle.at = "idle" /\ Idle.lang = "C" /\ Idle.lines = <<>> /\ <<>> \in Seq(Line)
  BY NoLines DEF Idle
<1>3. ~Writing' /\ writer' \in [at: {"idle", "opened", "locked", "unlocked"},
                               lang: {"C", "Perl"}, lines: Seq(Line)]
  BY <1>1, <1>2 DEF Writing, Idle
<1>4. CutLast(writer.lines)
  BY <1>1 DEF Inv, FileInv, Uncut, CutLast
<1>5. FileInv'
  BY <1>1, <1>3, <1>4 DEF Close, history, Inv, FileInv
<1> QED
  BY <1>1, <1>2, <1>3, <1>5, WriterInv DEF Close, history

LEMMA DieInv ==
  ASSUME Inv, Die
  PROVE  Inv'
<1>1. Writing /\ writer' = Idle /\ file' = file /\ value' = Loaded(file)
  BY DEF Die
<1>2. Idle.at = "idle" /\ Idle.lang = "C" /\ Idle.lines = <<>> /\ <<>> \in Seq(Line)
  BY NoLines DEF Idle
<1>3. ~Writing' /\ writer' \in [at: {"idle", "opened", "locked", "unlocked"},
                               lang: {"C", "Perl"}, lines: Seq(Line)]
  BY <1>1, <1>2 DEF Writing, Idle
<1>4. Of(file, Loaded(file))
  BY OfLoaded DEF Inv, FileInv
<1>5. FileInv'
  BY <1>1, <1>3, <1>4 DEF Inv, FileInv
<1> QED
  BY <1>1, <1>2, <1>3, <1>5, WriterInv DEF Die

(***************************************************************************)
(* Reading.                                                                *)
(***************************************************************************)
LEMMA FileStays ==
  ASSUME FileInv, UNCHANGED <<file, writer, value>>
  PROVE  FileInv'
BY DEF FileInv, Writing

\* A step of one reader leaves the others where they are.
LEMMA OtherReaders ==
  ASSUME Inv, UNCHANGED <<file, writer, value>>, NEW q \in Readers,
         reader'[q] = reader[q], seen'[q] = seen[q], torn'[q] = torn[q]
  PROVE  ReadInv(q)'
<1>1. ReadInv(q)
  BY DEF Inv
<1> QED
  BY <1>1 DEF ReadInv, AtRest, Untorn, OneVersion, SomeVersions, Writing

LEMMA OpenToReadInv ==
  ASSUME Inv, NEW r \in Readers, OpenToRead(r)
  PROVE  Inv'
<1>1. FileInv'
  BY FileStays DEF Inv, OpenToRead
<1>2. /\ reader' = [reader EXCEPT ![r].at = IF r \in Locking THEN "opened" ELSE "reading"]
      /\ seen' = [seen EXCEPT ![r] = {value}] /\ torn' = [torn EXCEPT ![r] = Writing]
      /\ reader[r].at = "idle" /\ UNCHANGED <<file, writer, shared, value>>
  BY DEF OpenToRead
<1>3. /\ reader'[r].at = IF r \in Locking THEN "opened" ELSE "reading"
      /\ reader'[r].lines = <<>> /\ seen'[r] = {value} /\ torn'[r] = Writing
      /\ \A q \in Readers : q # r => reader'[q] = reader[q] /\ seen'[q] = seen[q] /\ torn'[q] = torn[q]
  BY <1>2 DEF Inv, ReadInv, AtRest, ReaderTypes
<1>4. ReaderTypes'
  <2>1. reader' \in [Readers -> [at: {"idle", "opened", "reading"}, lines: Seq(Line)]]
    BY <1>2 DEF Inv, ReaderTypes
  <2>2. shared' = {q \in Locking : reader'[q].at = "reading"}
    BY <1>2, <1>3, SettingsAssumption DEF Inv, ReaderTypes
  <2>3. DOMAIN seen' = Readers /\ torn' \in [Readers -> BOOLEAN]
    BY <1>2 DEF Inv, ReaderTypes, Writing
  <2> QED
    BY <1>2, <2>1, <2>2, <2>3 DEF Inv, ReaderTypes
<1>5. ReadInv(r)'
  <2>1. Len(<<>>) = 0 /\ Len(file) \in Nat
    BY LenProperties DEF Inv, FileInv
  <2>2. AtRest(r)'
    BY <1>3, NoLines DEF AtRest
  <2>8. Writing => torn'[r]
    BY <1>3, Zenon
  <2>3. Untorn(r)'
    BY <1>2, <1>3, <2>1, <2>8 DEF Untorn, Writing
  <2>4. Of(file, value) /\ (Writing => Of(writer.lines, value)) /\ Of(<<>>, value)
    BY NoLines DEF Inv, FileInv
  <2>5. writer.at \in {"opened", "locked", "unlocked"} => Writing
    BY DEF Writing
  <2>6. OneVersion(r)'
    BY <1>2, <1>3, <2>4, <2>5 DEF OneVersion
  <2>7. SomeVersions(r)'
    BY <1>2, <1>3, <2>4, OfOne DEF SomeVersions, Writing
  <2> QED
    BY <2>2, <2>3, <2>6, <2>7 DEF ReadInv
<1>6. ASSUME NEW q \in Readers
      PROVE  ReadInv(q)'
  BY <1>2, <1>3, <1>5, OtherReaders
<1> QED
  BY <1>1, <1>4, <1>6 DEF Inv

LEMMA LockSharedInv ==
  ASSUME Inv, NEW r \in Readers, LockShared(r)
  PROVE  Inv'
<1>1. FileInv'
  BY FileStays DEF Inv, LockShared, history
<1>2. /\ reader' = [reader EXCEPT ![r].at = "reading"] /\ shared' = shared \cup {r}
      /\ reader[r].at = "opened" /\ writer.at # "locked"
      /\ UNCHANGED <<file, writer, value, seen, torn>>
  BY DEF LockShared, history
<1>3. /\ reader'[r].at = "reading" /\ reader'[r].lines = reader[r].lines /\ reader[r].lines = <<>>
      /\ r \in Locking
      /\ \A q \in Readers : q # r => reader'[q] = reader[q]
  BY <1>2 DEF Inv, ReadInv, AtRest, ReaderTypes
<1>4. ReaderTypes'
  <2>1. reader' \in [Readers -> [at: {"idle", "opened", "reading"}, lines: Seq(Line)]]
    BY <1>2 DEF Inv, ReaderTypes
  <2>2. shared' = {q \in Locking : reader'[q].at = "reading"}
    BY <1>2, <1>3, SettingsAssumption DEF Inv, ReaderTypes
  <2> QED
    BY <1>2, <2>1, <2>2 DEF Inv, ReaderTypes
<1>5. ReadInv(r)'
  <2>1. ReadInv(r)
    BY DEF Inv
  <2>2. AtRest(r)'
    BY <1>2, <1>3, <2>1 DEF ReadInv, AtRest
  <2>3. Untorn(r)' /\ SomeVersions(r)'
    BY <1>2, <1>3, <2>1 DEF ReadInv, Untorn, SomeVersions, Writing
  <2>4. OneVersion(r)'
    BY <1>2, <1>3, <2>1 DEF ReadInv, OneVersion
  <2> QED
    BY <2>2, <2>3, <2>4 DEF ReadInv
<1>6. ASSUME NEW q \in Readers
      PROVE  ReadInv(q)'
  BY <1>2, <1>3, <1>5, OtherReaders
<1> QED
  BY <1>1, <1>4, <1>6 DEF Inv

LEMMA ReadLineInv ==
  ASSUME Inv, NEW r \in Readers, ReadLine(r)
  PROVE  Inv'
<1> DEFINE read == reader[r].lines
<1> DEFINE n == Len(read)
<1>1. FileInv'
  BY FileStays DEF Inv, ReadLine, history
<1>2. /\ reader' = [reader EXCEPT ![r].lines = Append(@, file[n + 1])]
      /\ reader[r].at = "reading" /\ n < Len(file) /\ file[n + 1][2] # Cut
      /\ UNCHANGED <<file, writer, shared, value, seen, torn>>
  BY DEF ReadLine, Position, history
<1>3. read \in Seq(Line) /\ file \in Seq(Line) /\ n \in Nat /\ Len(file) \in Nat
  BY LenProperties DEF Inv, FileInv, ReaderTypes
<1>4. n + 1 \in 1 .. Len(file) /\ file[n + 1] \in Line
  BY <1>2, <1>3, ElementOfSeq
<1> HIDE DEF read
<1> DEFINE more == Append(read, file[n + 1])
<1>5. /\ more \in Seq(Line) /\ Len(more) = n + 1
      /\ \A i \in 1 .. n : more[i] = read[i]
      /\ more[n + 1] = file[n + 1]
  BY <1>3, <1>4
<1> HIDE DEF more, n
<1>6. /\ reader'[r].at = "reading" /\ reader'[r].lines = more
      /\ \A q \in Readers : q # r => reader'[q] = reader[q]
  BY <1>2 DEF Inv, ReaderTypes, more, read
<1>7. ReaderTypes'
  <2>1. reader' \in [Readers -> [at: {"idle", "opened", "reading"}, lines: Seq(Line)]]
    BY <1>2, <1>5 DEF Inv, ReaderTypes, more, read
  <2>2. shared' = {q \in Locking : reader'[q].at = "reading"}
    BY <1>2, <1>6, SettingsAssumption DEF Inv, ReaderTypes
  <2> QED
    BY <1>2, <2>1, <2>2 DEF Inv, ReaderTypes
<1>8. ReadInv(r)'
  <2>1. ReadInv(r)
    BY DEF Inv
  <2>2. \A i \in 1 .. Len(more) : i \in 1 .. n \/ i = n + 1
    BY <1>3, <1>5
  <2>3. AtRest(r)'
    BY <1>2, <1>5, <1>6, <2>1, <2>2 DEF ReadInv, AtRest, Uncut, read, n
  <2>4. Untorn(r)'
    BY <1>2, <1>3, <1>5, <1>6, <2>1, <2>2 DEF ReadInv, Untorn, Writing, read, n
  <2>5. \A c : Of(read, c) /\ Of(file, c) => Of(more, c)
    BY <1>4, <1>5, <2>2 DEF Of, n
  <2>6. \A C : OfAny(read, C) /\ OfAny(file, C) => OfAny(more, C)
    BY <1>4, <1>5, <2>2 DEF OfAny, n
  <2>7. OneVersion(r)'
    BY <1>2, <1>6, <2>1, <2>5 DEF ReadInv, OneVersion, read
  <2>8. SomeVersions(r)'
    BY <1>2, <1>6, <2>1, <2>6 DEF ReadInv, SomeVersions, Writing, read
  <2> QED
    BY <2>3, <2>4, <2>7, <2>8 DEF ReadInv
<1>9. ASSUME NEW q \in Readers
      PROVE  ReadInv(q)'
  BY <1>2, <1>6, <1>8, OtherReaders
<1> QED
  BY <1>1, <1>7, <1>9 DEF Inv

LEMMA EndOfFileInv ==
  ASSUME Inv, NEW r \in Readers, EndOfFile(r)
  PROVE  Inv'
<1>1. FileInv'
  BY FileStays DEF Inv, EndOfFile
<1>2. /\ reader' = [reader EXCEPT ![r] = [at |-> "idle", lines |-> <<>>]]
      /\ seen' = [seen EXCEPT ![r] = {}] /\ torn' = [torn EXCEPT ![r] = FALSE]
      /\ shared' = shared \ {r} /\ UNCHANGED <<file, writer, value>>
  BY DEF EndOfFile
<1>3. /\ reader'[r].at = "idle" /\ reader'[r].lines = <<>> /\ seen'[r] = {}
      /\ \A q \in Readers : q # r => reader'[q] = reader[q] /\ seen'[q] = seen[q] /\ torn'[q] = torn[q]
  BY <1>2 DEF Inv, ReaderTypes
<1>4. ReaderTypes'
  <2>1. reader' \in [Readers -> [at: {"idle", "opened", "reading"}, lines: Seq(Line)]]
    BY <1>2, NoLines DEF Inv, ReaderTypes
  <2>2. shared' = {q \in Locking : reader'[q].at = "reading"}
    BY <1>2, <1>3, SettingsAssumption DEF Inv, ReaderTypes
  <2> QED
    BY <1>2, <2>1, <2>2 DEF Inv, ReaderTypes
<1>5. ReadInv(r)'
  BY <1>3, NoLines DEF ReadInv, AtRest
<1>6. ASSUME NEW q \in Readers
      PROVE  ReadInv(q)'
  BY <1>2, <1>3, <1>5, OtherReaders
<1> QED
  BY <1>1, <1>4, <1>6 DEF Inv

LEMMA NextInv == Inv /\ [Next]_vars => Inv'
<1> SUFFICES ASSUME Inv, [Next]_vars PROVE Inv'
  OBVIOUS
<1>1. CASE UNCHANGED vars
  BY <1>1 DEF vars, fileVars, history, Inv, FileInv, ReaderTypes, ReadInv, AtRest, Untorn,
              OneVersion, SomeVersions, Writing
<1>2. CASE Next
  BY <1>2, OpenToWriteInv, LockInv, FlushInv, UnlockInv, CloseInv, DieInv, OpenToReadInv,
     LockSharedInv, ReadLineInv, EndOfFileInv DEF Next, WriteSteps, ReadSteps
<1> QED
  BY <1>1, <1>2

LEMMA Invariance == Spec => []Inv
BY InitInv, NextInv, PTL DEF Spec

\* The file and all that is read of it are lines of key and value, and flock
\* (helper.c lines 301 and 353) excludes: no reader holds the lock shared while a
\* writer has it, and only readers that take the lock ever hold it.
THEOREM TypeCorrect == Spec => []TypeOK
<1>1. Inv => TypeOK
  <2> SUFFICES ASSUME Inv PROVE TypeOK
    OBVIOUS
  <2>1. shared \subseteq Locking
    BY DEF Inv, ReaderTypes
  <2> QED
    BY <2>1 DEF Inv, FileInv, ReaderTypes, TypeOK
<1> QED
  BY Invariance, <1>1, PTL

-----------------------------------------------------------------------------
(* The register.                                                           *)

\* What a reader has at the end of the file is an answer of the register.
LEMMA AnswerOfRegister ==
  ASSUME Inv, NEW r \in Readers, EndOfFile(r)
  PROVE  \E d \in Register!Answers(r) : result' = [result EXCEPT ![r] = d]
<1> DEFINE read == reader[r].lines
<1> DEFINE n == Len(read)
<1> DEFINE m == Len(file)
<1> DEFINE more == Append(read, file[m])
<1>1. /\ reader[r].at = "reading"
      /\ n >= m \/ (n + 1 = m /\ file[m][2] = Cut)
      /\ \/ result' = [result EXCEPT ![r] = Loaded(read)]
         \/ n < m /\ result' = [result EXCEPT ![r] = Loaded(more)]
  BY DEF EndOfFile, AtEnd, Position
<1>2. /\ read \in Seq(Line) /\ file \in Seq(Line) /\ n \in Nat /\ m \in Nat
      /\ Once(file) /\ Of(file, value) /\ (~Writing => Loaded(file) = value) /\ Uncut(read)
  BY LenProperties DEF Inv, FileInv, ReaderTypes, ReadInv, AtRest
<1>3. Untorn(r) /\ OneVersion(r) /\ SomeVersions(r)
  BY <1>1 DEF Inv, ReadInv
<1>4. ASSUME n < m
      PROVE  /\ n + 1 = m /\ file[m][2] = Cut /\ m \in 1 .. m
             /\ more \in Seq(Line) /\ Len(more) = m
             /\ \A i \in 1 .. n : more[i] = read[i]
             /\ more[m] = file[m]
             /\ \A i \in 1 .. m : i \in 1 .. n \/ i = m
  <2>1. n + 1 = m /\ file[m][2] = Cut /\ m \in 1 .. m
    BY <1>1, <1>2, <1>4
  <2>2. file[m] \in Line
    BY <1>2, <2>1, ElementOfSeq
  <2> HIDE DEF read
  <2>3. /\ more \in Seq(Line) /\ Len(more) = n + 1
        /\ \A i \in 1 .. n : more[i] = read[i]
        /\ more[n + 1] = file[m]
    BY <1>2, <2>2
  <2>4. n + 1 = m /\ n \in Nat
    BY <1>2, <2>1
  <2> HIDE DEF more, n, m
  <2>5. \A i \in 1 .. m : i \in 1 .. n \/ i = m
    BY <2>4
  <2>6. more[m] = file[m] /\ Len(more) = m
    BY <2>3, <2>4
  <2> QED
    BY <2>1, <2>3, <2>5, <2>6
<1>5. CASE ~torn[r]
  <2>1. ~Writing /\ n <= m /\ (\A i \in 1 .. n : read[i] = file[i]) /\ Loaded(file) = value
    BY <1>2, <1>3, <1>5 DEF Untorn
  <2>2. value \in Register!Answers(r) /\ Register!Whole(value) \in Register!Answers(r)
    BY <1>5 DEF Register!Answers
  <2>3. CASE n >= m
    <3>1. read = file
      <4> HIDE DEF read
      <4>1. Len(read) = Len(file) /\ \A i \in 1 .. Len(read) : read[i] = file[i]
        BY <1>2, <2>1, <2>3
      <4> QED
        BY <1>2, <4>1, SeqEqual
    <3> QED
      BY <1>1, <1>2, <2>1, <2>2, <2>3, <3>1
  <2>4. CASE n < m
    <3>1. more = file
      <4>1. \A i \in 1 .. Len(more) : more[i] = file[i]
        BY <1>4, <2>1, <2>4
      <4> HIDE DEF more
      <4> QED
        BY <1>2, <1>4, <2>4, <4>1, SeqEqual
    <3>2. Loaded(read) = Register!Whole(Loaded(file))
      <4> HIDE DEF read
      <4> QED
        BY <1>2, <1>4, <2>1, <2>4, LoadedWhole
    <3> QED
      BY <1>1, <2>1, <2>2, <3>1, <3>2
  <2> QED
    BY <1>2, <2>3, <2>4
<1>6. CASE torn[r] /\ r \in Locking
  <2>1. PICK c \in seen[r] : Of(read, c) /\ Of(file, c)
    BY <1>3, <1>6 DEF OneVersion
  <2>2. Loaded(read) \in Register!Shortened(c)
    BY <1>2, <2>1, LoadedShort
  <2>3. ASSUME n < m
        PROVE  Loaded(more) \in Register!Shortened(c)
    <3>1. Of(more, c)
      <4> HIDE DEF more, read
      <4> QED
        BY <1>4, <2>1, <2>3 DEF Of
    <3> HIDE DEF more
    <3> QED
      BY <1>4, <2>3, <3>1, LoadedShort
  <2>4. Register!Answers(r) = UNION {Register!Shortened(e) : e \in seen[r]}
    BY <1>6 DEF Register!Answers
  <2> HIDE DEF more, read
  <2>5. /\ Loaded(read) \in Register!Answers(r)
        /\ n < m => Loaded(more) \in Register!Answers(r)
    BY <2>1, <2>2, <2>3, <2>4
  <2> QED
    BY <1>1, <2>5
<1>7. CASE torn[r] /\ r \notin Locking
  <2>1. OfAny(read, seen[r]) /\ OfAny(file, seen[r])
    BY <1>3 DEF SomeVersions
  <2>2. Loaded(read) \in Register!Mixed(seen[r])
    BY <1>2, <2>1, LoadedMixed DEF OfAny
  <2>3. ASSUME n < m
        PROVE  Loaded(more) \in Register!Mixed(seen[r])
    <3>1. OfAny(more, seen[r])
      <4> HIDE DEF more, read
      <4> QED
        BY <1>4, <2>1, <2>3 DEF OfAny
    <3> HIDE DEF more
    <3> QED
      BY <1>4, <2>3, <3>1, LoadedMixed DEF OfAny
  <2>4. Register!Answers(r) = Register!Mixed(seen[r])
    BY <1>7 DEF Register!Answers
  <2> QED
    BY <1>1, <2>2, <2>3, <2>4
<1> QED
  BY <1>5, <1>6, <1>7 DEF Inv, ReaderTypes

LEMMA InitIsRegister == Init => Register!Init
BY DEF Init, Register!Init, Writing, Idle

LEMMA StepIsRegister ==
  ASSUME Inv, [Next]_vars
  PROVE  [Register!Next]_(Register!regVars)
<1>1. CASE UNCHANGED vars
  BY <1>1 DEF vars, fileVars, history, Register!regVars, Writing
<1>2. ASSUME NEW lang \in {"C", "Perl"}, NEW version \in Versions, NEW order \in Order,
             OpenToWrite(lang, version, order)
      PROVE  Register!BeginWrite
  <2>1. Reading = Register!Reading
    BY DEF Inv, ReadInv, AtRest, Reading, Register!Reading
  <2>2. Writing'
    BY <1>2 DEF OpenToWrite, Writing
  <2> QED
    BY <1>2, <2>1, <2>2 DEF OpenToWrite, Register!BeginWrite
<1>3. ASSUME Lock \/ Flush \/ Unlock
      PROVE  UNCHANGED Register!regVars
  <2>1. Writing /\ Writing'
    BY <1>3 DEF Lock, Flush, Unlock, Writing, Inv, FileInv
  <2> QED
    BY <1>3, <2>1 DEF Lock, Flush, Unlock, history, Register!regVars
<1>4. ASSUME Close
      PROVE  Register!EndWrite
  <2>1. Writing /\ ~Writing'
    BY <1>4 DEF Close, Writing, Idle
  <2> QED
    BY <1>4, <2>1 DEF Close, history, Register!EndWrite
<1>5. ASSUME Die
      PROVE  Register!BreakWrite
  <2>1. Writing /\ ~Writing'
    BY <1>5 DEF Die, Writing, Idle
  <2>2. value' \in Register!Shortened(value)
    BY <1>5, LoadedShort DEF Die, Inv, FileInv
  <2> QED
    BY <1>5, <2>1, <2>2 DEF Die, Register!BreakWrite
<1>6. ASSUME NEW r \in Readers, OpenToRead(r)
      PROVE  Register!BeginRead(r)
  BY <1>6 DEF OpenToRead, Register!BeginRead, Inv, ReadInv, AtRest, Writing
<1>7. ASSUME NEW r \in Readers, LockShared(r) \/ ReadLine(r)
      PROVE  UNCHANGED Register!regVars
  BY <1>7 DEF LockShared, ReadLine, history, Register!regVars, Writing
<1>8. ASSUME NEW r \in Readers, EndOfFile(r)
      PROVE  Register!EndRead(r)
  <2>1. seen[r] # {}
    BY <1>8 DEF EndOfFile, Inv, ReadInv, AtRest
  <2>2. result' \in {[result EXCEPT ![r] = d] : d \in Register!Answers(r)}
    BY <1>8, AnswerOfRegister
  <2> QED
    BY <1>8, <2>1, <2>2 DEF EndOfFile, Register!EndRead, Writing
<1> QED
  BY <1>1, <1>2, <1>3, <1>4, <1>5, <1>6, <1>7, <1>8
     DEF Next, WriteSteps, ReadSteps, Register!Next

\* The settings file implements the register: helper.c (lines 172-219 and
\* 341-391) and readhash and writehash (general-functions.pl:124-180) together,
\* for any keys, values, orders of lines, and readers with and without the
\* lock.
THEOREM FileImplementsRegister == Spec => IsARegister
<1>1. Spec => Register!Init
  BY InitIsRegister DEF Spec
<1>2. Spec => [][Register!Next]_(Register!regVars)
  BY Invariance, StepIsRegister, PTL DEF Spec
<1> QED
  BY <1>1, <1>2 DEF IsARegister, Register!Spec

=============================================================================
