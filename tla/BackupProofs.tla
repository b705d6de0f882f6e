---------------------------- MODULE BackupProofs ----------------------------
(***************************************************************************)
(* When calls do not overlap, for any backups written, commands that fail, *)
(* calls that are killed and archives from elsewhere: a labelled set is    *)
(* complete, a complete set stays, and no data of a wrong version gets in; *)
(* a backup or an import that reports success left its set, a restore      *)
(* brought its set back if not more than one thing went wrong.             *)
(***************************************************************************)
EXTENDS Backup, TLAPS

Steps == {"idle", "done", "tar", "encrypt", "encrypting", "label", "decrypt", "test", "tag",
          "move", "gunzip", "untar", "untarring", "upgrade"}
Codes == {"none", "ok", "key", "tar", "encrypt", "decrypt", "untartst", "version", "any", "untar"}
JobType ==
  [pc: Steps, kind: {"none", "write", "restore", "import"}, stamp: Dates, hw: BOOLEAN,
   copy: Files, rc: Codes]

TypeInv == TypeOK /\ job \in [Jobs -> JobType]

Alone == \A j, k \in Jobs : job[j].pc # "idle" /\ job[k].pc # "idle" => j = k

\* The data in an archive fit this system if its version does.
Sound(a) == VersionFits(a.marker) => VersionFits(a.format)

Data ==
  /\ VersionFits(config.format)
  /\ tar \in Archive => VersionFits(tar.format)
  /\ gz \in Archive => Sound(gz)

\* What can be found on the disk of the backups or be uploaded.
Around == Archive \cap (Foreign \cup {exported, upload} \cup {store[d].dat : d \in Dates})

\* An archive is sound and known by its date.
Dated ==
  /\ \A a \in Around : DateOf(a) <= clock /\ Sound(a)
  /\ \A a, b \in Around : DateOf(a) = DateOf(b) => a = b

\* A set cut short has no tag file and is the only one of its date.
Sets ==
  \A d \in Dates :
    /\ store[d].dat \in Archive => DateOf(store[d].dat) = d
    /\ store[d].dat = Torn => ~store[d].tag /\ \A a \in Around : DateOf(a) # d
    /\ store[d].tag => d <= clock

\* A backup on its way has a date of its own.
Writing(j) ==
  job[j].pc \in {"tar", "encrypt", "encrypting", "label"} =>
    /\ job[j].stamp = clock /\ ~store[clock].tag
    /\ job[j].pc = "tar" => tagfile = clock
    /\ job[j].pc # "label" => \A a \in Around : DateOf(a) # clock
    /\ job[j].pc # "tar" => job[j].copy \in Archive /\ job[j].copy.tag = clock /\ Sound(job[j].copy)
    /\ job[j].pc = "label" => store[clock].dat # Torn

\* An import works on the file that was uploaded, a restore on one that passed.
Reading(j) ==
  /\ job[j].pc = "test" /\ job[j].kind = "import" => gz = upload
  /\ job[j].pc \in {"tag", "move"} => upload \in Archive /\ job[j].copy = upload
  /\ job[j].pc = "move" => job[j].stamp = DateOf(upload)
  /\ job[j].pc = "gunzip" /\ gz \in Archive => VersionFits(gz.format)

Working == \A j \in Jobs : Writing(j) /\ Reading(j)

Inv == TypeInv /\ Alone /\ Data /\ Dated /\ Sets /\ Working

-----------------------------------------------------------------------------
LEMMA Constants ==
  /\ MaxStamp \in Nat /\ Past \in Nat /\ MaxFaults \in Nat
  /\ 0 \in Dates /\ 1 \in Dates /\ Dates \subseteq Int
  /\ NoDate \notin Dates /\ None \notin Archive /\ Torn \notin Archive /\ None # Torn
  /\ Own \in Versions /\ VersionFits(Own) /\ Foreign \subseteq Archive
BY BackupAssumption, ForeignAssumption DEF Dates

LEMMA DateTypes ==
  ASSUME NEW a \in Archive
  PROVE  DateOf(a) \in Dates /\ (a.tag \in Dates => DateOf(a) = a.tag)
BY Constants DEF DateOf, Archive

LEMMA IdleType == Idle \in JobType
<1>1. 0 \in Dates /\ None \in Files
  BY Constants DEF Files
<1> QED
  BY <1>1 DEF Idle, JobType, Steps, Codes

\* A step of one call, the others being idle: only its own work matters.
Turn(j) ==
  /\ job[j].pc # "idle" \/ Quiet
  /\ job' \in [Jobs -> JobType]
  /\ \A k \in Jobs : k # j => job'[k] = job[k]

LEMMA TurnOfOne ==
  ASSUME ~Overlap, Inv, NEW j \in Jobs, Turn(j), (Writing(j) /\ Reading(j))',
         TypeOK', Data', Dated', Sets'
  PROVE  Inv'
<1>1. \A k \in Jobs : k # j => job[k].pc = "idle" /\ job'[k].pc = "idle"
  BY DEF Turn, Quiet, Inv, Alone
<1>2. Alone'
  BY <1>1 DEF Alone
<1>3. Working'
  <2> SUFFICES ASSUME NEW k \in Jobs PROVE (Writing(k) /\ Reading(k))'
    BY DEF Working
  <2>1. CASE k = j
    BY <2>1
  <2>2. CASE k # j
    BY <1>1, <2>2 DEF Writing, Reading
  <2> QED
    BY <2>1, <2>2
<1> QED
  BY <1>2, <1>3 DEF Inv, TypeInv, Turn

LEMMA NobodysTurn ==
  ASSUME ~Overlap, Inv, Quiet, UNCHANGED job, TypeOK', Data', Dated', Sets'
  PROVE  Inv'
<1>1. \A k \in Jobs : job[k].pc = "idle" /\ job'[k] = job[k]
  BY DEF Quiet
<1>2. Alone' /\ Working'
  BY <1>1 DEF Alone, Working, Writing, Reading
<1>3. (job \in [Jobs -> JobType])'
  BY DEF Inv, TypeInv
<1> QED
  BY <1>2, <1>3 DEF Inv, TypeInv

\* Nothing new is on the disk.
LEMMA SetsStay ==
  ASSUME Dated, Sets, UNCHANGED <<clock, store, exported>>,
         upload' \in Foreign \cup {upload, exported, Torn, None}
  PROVE  Dated' /\ Sets' /\ Around' \subseteq Around
<1>1. Around' \subseteq Around
  BY Constants DEF Around
<1>2. Dated'
  BY <1>1 DEF Dated
<1>3. Sets'
  BY <1>1 DEF Sets
<1> QED
  BY <1>1, <1>2, <1>3

-----------------------------------------------------------------------------
(* The steps that leave the sets alone.                                    *)

LEMMA PlainTurn ==
  ASSUME ~Overlap, Inv, NEW j \in Jobs, Turn(j), TypeOK', Data',
         UNCHANGED <<clock, store, exported>>,
         upload' \in Foreign \cup {upload, exported, Torn, None},
         Around' \subseteq Around => (Writing(j) /\ Reading(j))'
  PROVE  Inv'
BY SetsStay, TurnOfOne DEF Inv

LEMMA ReapInv ==
  ASSUME ~Overlap, Inv, NEW j \in Jobs, Reap(j) \/ Kill(j)
  PROVE  Inv'
<1> USE DEF Reap, Kill, Fault, setVars, tmpVars
<1>1. job'[j] = Idle /\ Turn(j)
  BY IdleType DEF Inv, TypeInv, Turn
<1>2. (Writing(j) /\ Reading(j))'
  BY <1>1 DEF Writing, Reading, Idle
<1>3. TypeOK'
  BY Constants DEF Inv, TypeInv, TypeOK
<1>4. Data'
  BY DEF Inv, Data
<1> QED
  BY <1>1, <1>2, <1>3, <1>4, PlainTurn

\* A call that ends: what it leaves behind may be removed.
Leaves(j) ==
  /\ Turn(j) /\ job'[j].pc = "done"
  /\ gz' \in {gz, None} /\ tar' \in {tar, None} /\ upload' \in {upload, None}
  /\ tagfile' \in {tagfile, NoDate} /\ faults' \in 0..MaxFaults
  /\ UNCHANGED <<clock, store, exported, key>>

LEMMA LeavesInv ==
  ASSUME ~Overlap, Inv, NEW j \in Jobs, Leaves(j), config' \in Configuration,
         VersionFits(config'.format)
  PROVE  Inv'
<1> USE DEF Leaves
<1>1. None \in Files
  BY DEF Files
<1>2. TypeOK'
  BY <1>1 DEF Inv, TypeInv, TypeOK
<1>3. Data'
  BY Constants DEF Inv, Data
<1>4. (Writing(j) /\ Reading(j))'
  BY DEF Writing, Reading
<1> QED
  BY <1>2, <1>3, <1>4, PlainTurn

LEMMA WriteInv ==
  ASSUME ~Overlap, Inv, NEW j \in Jobs, Write(j)
  PROVE  Inv'
<1> USE DEF Write
<1>1. job[j] \in JobType /\ job \in [Jobs -> JobType]
  BY DEF Inv, TypeInv
<1>2. CASE key = "none"
  <2>1. Turn(j) /\ job'[j].pc = "done"
    BY <1>1, <1>2 DEF Turn, JobType, Steps, Codes
  <2>2. Leaves(j)
    BY <1>2, <2>1 DEF WriteCleans, Leaves, Inv, TypeInv, TypeOK
  <2> QED
    BY <2>2, LeavesInv DEF Inv, TypeInv, TypeOK, Data
<1>3. CASE key # "none"
  <2>1. clock' = clock + 1 /\ clock' \in 1..(1 + MaxStamp) /\ clock' \in Dates
    BY <1>3, Constants DEF Inv, TypeInv, TypeOK, Dates
  <2>2. Turn(j) /\ job'[j].pc = "tar" /\ job'[j].stamp = clock'
    BY <1>1, <1>3, <2>1 DEF Turn, JobType, Steps, Codes
  <2>3. TypeOK'
    BY <1>3, <2>1 DEF Inv, TypeInv, TypeOK
  <2>4. Data'
    BY <1>3 DEF Inv, Data
  <2>5. Around' = Around /\ UNCHANGED store
    BY <1>3 DEF Around
  <2>6. \A a \in Around : DateOf(a) \in Int /\ DateOf(a) <= clock
    BY DateTypes, Constants DEF Inv, Dated, Around
  <2>7. Dated'
    BY <2>1, <2>5, <2>6 DEF Inv, Dated, TypeInv, TypeOK
  <2>8. Sets'
    BY <2>1, <2>5, Constants DEF Inv, Sets, TypeInv, TypeOK
  <2>9. (Writing(j) /\ Reading(j))'
    <3>1. \A a \in Around' : DateOf(a) # clock'
      BY <2>1, <2>5, <2>6 DEF Inv, TypeInv, TypeOK
    <3>2. ~store'[clock'].tag
      BY <2>1, <2>5, Constants DEF Inv, Sets, TypeInv, TypeOK
    <3>3. tagfile' = clock'
      BY <1>3, <2>1
    <3> QED
      BY <2>2, <3>1, <3>2, <3>3 DEF Writing, Reading
  <2> QED
    BY <2>2, <2>3, <2>4, <2>7, <2>8, <2>9, TurnOfOne
<1> QED
  BY <1>2, <1>3

LEMMA TarInv ==
  ASSUME ~Overlap, Inv, NEW j \in Jobs, Tar(j)
  PROVE  Inv'
<1> USE DEF Tar
<1>1. job[j] \in JobType /\ job \in [Jobs -> JobType]
  BY DEF Inv, TypeInv
<1> DEFINE a == [tag |-> tagfile, marker |-> Own, port |-> config.port, hw |-> config.hw,
                 format |-> config.format]
<1>2. CASE /\ job' = [job EXCEPT ![j].copy = a, ![j].pc = "encrypt"]
           /\ UNCHANGED <<tmpVars, upload, faults>>
  <2>2. a \in Archive /\ Sound(a)
    BY Constants DEF Inv, TypeInv, TypeOK, Configuration, Archive, Data, Sound
  <2>3. a.tag = tagfile
    OBVIOUS
  <2> HIDE DEF a
  <2>4. Turn(j) /\ job'[j].copy = a /\ job'[j].stamp = job[j].stamp /\ job'[j].pc = "encrypt"
    BY <1>1, <1>2, <2>2 DEF Turn, JobType, Steps, Files
  <2>5. TypeOK' /\ Data'
    BY <1>2 DEF tmpVars, Inv, TypeInv, TypeOK, Data
  <2>6. Writing(j)
    BY DEF Inv, Working
  <2>7. Around' \subseteq Around => (Writing(j) /\ Reading(j))'
    BY <1>2, <2>2, <2>3, <2>4, <2>6 DEF Writing, Reading
  <2> QED
    BY <1>2, <2>4, <2>5, <2>7, PlainTurn
<1>3. CASE Fault /\ Exit(j, "tar") /\ WriteCleans
  <2>1. Turn(j) /\ job'[j].pc = "done"
    BY <1>1, <1>3 DEF Turn, JobType, Steps, Codes, Exit
  <2>2. Leaves(j)
    BY <1>3, <2>1, Constants DEF WriteCleans, Leaves, Inv, TypeInv, TypeOK, Fault
  <2> QED
    BY <2>2, LeavesInv DEF Inv, TypeInv, TypeOK, Data
<1> QED
  BY <1>2, <1>3

-----------------------------------------------------------------------------
(* The steps that change a set.                                            *)

\* A set d is changed, the others are not; what is new around is a.
SetChanges(d, a) ==
  /\ store' \in [Dates -> [dat: Files, tag: BOOLEAN]]
  /\ \A e \in Dates : e # d => store'[e] = store[e]
  /\ Around' \subseteq Around \cup {a}
  /\ clock' = clock

LEMMA SetChangesInv ==
  ASSUME Inv, NEW d \in Dates, NEW a, SetChanges(d, a),
         a \in Archive =>
           /\ Sound(a) /\ DateOf(a) = d /\ d <= clock
           /\ (a \in Around \/ \A b \in Around : DateOf(b) # d),
         store'[d].dat \in Archive => DateOf(store'[d].dat) = d,
         store'[d].dat = Torn => ~store'[d].tag /\ \A b \in Around' : DateOf(b) # d,
         store'[d].tag => d <= clock
  PROVE  Dated' /\ Sets'
<1> USE DEF SetChanges
<1>1. ASSUME NEW b \in Around'
      PROVE  b \in Around \/ (b = a /\ Sound(b) /\ DateOf(b) = d)
  <2>1. b \in Archive
    BY DEF Around
  <2>2. b \in Around \/ b = a
    OBVIOUS
  <2> QED
    BY <2>1, <2>2
<1>2. Dated'
  <2>1. ASSUME NEW b \in Around'
        PROVE  DateOf(b) <= clock /\ Sound(b)
    <3>1. b \in Archive
      BY DEF Around
    <3> QED
      BY <1>1, <3>1 DEF Inv, Dated
  <2>2. ASSUME NEW b \in Around', NEW c \in Around', DateOf(b) = DateOf(c)
        PROVE  b = c
    <3>1. a \in Archive \/ (b \in Around /\ c \in Around)
      BY <1>1 DEF Around
    <3> QED
      BY <1>1, <2>2, <3>1 DEF Inv, Dated
  <2> QED
    BY <2>1, <2>2 DEF Dated
<1>3. Sets'
  <2> SUFFICES ASSUME NEW e \in Dates
               PROVE  /\ store'[e].dat \in Archive => DateOf(store'[e].dat) = e
                      /\ store'[e].dat = Torn =>
                           ~store'[e].tag /\ \A b \in Around' : DateOf(b) # e
                      /\ store'[e].tag => e <= clock
    BY DEF Sets
  <2>1. CASE e = d
    BY <2>1
  <2>2. CASE e # d
    <3>1. \A b \in Around' : b \in Around \/ DateOf(b) = d
      BY <1>1
    <3>2. store'[e] = store[e]
      BY <2>2
    <3> QED
      BY <2>2, <3>1, <3>2 DEF Inv, Sets
  <2> QED
    BY <2>1, <2>2
<1> QED
  BY <1>2, <1>3

LEMMA EncryptInv ==
  ASSUME ~Overlap, Inv, NEW j \in Jobs, Encrypt(j)
  PROVE  Inv'
<1> USE DEF Encrypt
<1>1. job[j] \in JobType /\ job \in [Jobs -> JobType] /\ Writing(j)
  BY DEF Inv, TypeInv, Working
<1>2. CASE key = "good"
  <2>1. /\ clock \in Dates /\ job[j].stamp = clock /\ ~store[clock].tag
        /\ \A a \in Around : DateOf(a) # clock
        /\ job[j].copy \in Archive /\ job[j].copy.tag = clock /\ Sound(job[j].copy)
    BY <1>1, Constants DEF Writing, JobType
  <2>2. /\ store' = [store EXCEPT ![clock].dat = Torn]
        /\ UNCHANGED <<tmpVars, upload, config, key, clock, exported, faults>>
    BY <1>2, <2>1
  <2>3. store \in [Dates -> [dat: Files, tag: BOOLEAN]] /\ Torn \in Files
    BY DEF Inv, TypeInv, TypeOK, Files
  <2>4. /\ store' \in [Dates -> [dat: Files, tag: BOOLEAN]]
        /\ \A e \in Dates : e # clock => store'[e] = store[e]
        /\ store'[clock].dat = Torn /\ ~store'[clock].tag
    BY <2>1, <2>2, <2>3
  <2>5. Around' \subseteq Around
    BY <2>2, <2>4, Constants DEF Around
  <2>6. SetChanges(clock, Torn)
    BY <2>2, <2>4, <2>5 DEF SetChanges
  <2>7. Dated' /\ Sets'
    BY <2>1, <2>4, <2>5, <2>6, Constants, SetChangesInv
  <2>8. Turn(j) /\ job'[j] = [job[j] EXCEPT !.pc = "encrypting"]
    BY <1>1, <1>2 DEF Turn, JobType, Steps, Goto
  <2>9. TypeOK' /\ Data'
    BY <2>2, <2>4 DEF tmpVars, Inv, TypeInv, TypeOK, Data
  <2>10. (Writing(j) /\ Reading(j))'
    BY <1>1, <2>1, <2>2, <2>4, <2>5, <2>8 DEF Writing, Reading, JobType
  <2> QED
    BY <2>7, <2>8, <2>9, <2>10, TurnOfOne
<1>3. CASE key # "good"
  <2>1. Turn(j) /\ job'[j].pc = "done"
    BY <1>1, <1>3 DEF Turn, JobType, Steps, Codes, Exit
  <2>2. Leaves(j)
    BY <1>3, <2>1 DEF WriteCleans, Leaves, Inv, TypeInv, TypeOK
  <2> QED
    BY <2>2, LeavesInv DEF Inv, TypeInv, TypeOK, Data
<1> QED
  BY <1>2, <1>3

LEMMA EncryptedInv ==
  ASSUME ~Overlap, Inv, NEW j \in Jobs, Encrypted(j)
  PROVE  Inv'
<1> USE DEF Encrypted
<1>1. job[j] \in JobType /\ job \in [Jobs -> JobType] /\ Writing(j)
  BY DEF Inv, TypeInv, Working
<1> DEFINE a == job[j].copy
<1>2. CASE /\ store' = [store EXCEPT ![job[j].stamp].dat = a]
           /\ Goto(j, "label")
           /\ UNCHANGED <<tmpVars, upload, faults>>
  <2>1. /\ clock \in Dates /\ job[j].stamp = clock /\ ~store[clock].tag
        /\ \A b \in Around : DateOf(b) # clock
        /\ a \in Archive /\ a.tag = clock /\ Sound(a)
    BY <1>1, Constants DEF Writing, JobType
  <2>2. DateOf(a) = clock /\ a # Torn /\ a \in Files
    BY <2>1, DateTypes, Constants DEF Files
  <2>3. store \in [Dates -> [dat: Files, tag: BOOLEAN]] /\ clock <= clock
    BY <2>1, Constants DEF Inv, TypeInv, TypeOK
  <2>4. /\ store' \in [Dates -> [dat: Files, tag: BOOLEAN]]
        /\ \A e \in Dates : e # clock => store'[e] = store[e]
        /\ store'[clock].dat = a /\ ~store'[clock].tag
    BY <1>2, <2>1, <2>2, <2>3
  <2>5. Around' \subseteq Around \cup {a}
    BY <1>2, <2>4 DEF Around
  <2>6. SetChanges(clock, a)
    BY <2>4, <2>5 DEF SetChanges
  <2>7. Dated' /\ Sets'
    <3> HIDE DEF a
    <3> QED
      BY <2>1, <2>2, <2>3, <2>4, <2>6, SetChangesInv
  <2>8. Turn(j) /\ job'[j] = [job[j] EXCEPT !.pc = "label"]
    BY <1>1, <1>2 DEF Turn, JobType, Steps, Goto
  <2>9. TypeOK' /\ Data'
    BY <1>2, <2>4 DEF tmpVars, Inv, TypeInv, TypeOK, Data
  <2>10. (Writing(j) /\ Reading(j))'
    BY <1>1, <2>1, <2>2, <2>4, <2>8 DEF Writing, Reading, JobType
  <2> QED
    BY <2>7, <2>8, <2>9, <2>10, TurnOfOne
<1>3. CASE Fault /\ Exit(j, "encrypt") /\ WriteCleans /\ UNCHANGED store
  <2>1. Turn(j) /\ job'[j].pc = "done"
    BY <1>1, <1>3 DEF Turn, JobType, Steps, Codes, Exit
  <2>2. Leaves(j)
    BY <1>3, <2>1, Constants DEF WriteCleans, Leaves, Inv, TypeInv, TypeOK, Fault
  <2> QED
    BY <2>2, LeavesInv DEF Inv, TypeInv, TypeOK, Data
<1> QED
  BY <1>2, <1>3

\* A step that ends a call and changes one set.
LEMMA EndsInv ==
  ASSUME ~Overlap, Inv, NEW j \in Jobs, Turn(j), job'[j].pc = "done",
         Dated', Sets', Data', TypeOK'
  PROVE  Inv'
BY TurnOfOne DEF Writing, Reading

LEMMA LabelInv ==
  ASSUME ~Overlap, Inv, NEW j \in Jobs, Label(j)
  PROVE  Inv'
<1> USE DEF Label
<1>1. job[j] \in JobType /\ job \in [Jobs -> JobType] /\ Writing(j)
  BY DEF Inv, TypeInv, Working
<1>2. /\ clock \in Dates /\ job[j].stamp = clock /\ store[clock].dat # Torn
  BY <1>1, Constants DEF Writing, JobType
<1>3. /\ store \in [Dates -> [dat: Files, tag: BOOLEAN]] /\ clock <= clock
  BY <1>2, Constants DEF Inv, TypeInv, TypeOK
<1>4. /\ store' \in [Dates -> [dat: Files, tag: BOOLEAN]]
      /\ \A e \in Dates : e # clock => store'[e] = store[e]
      /\ store'[clock].dat = store[clock].dat
  BY <1>2, <1>3
<1>5. Around' \subseteq Around \cup {Torn}
  BY <1>4 DEF Around, WriteCleans
<1>6. SetChanges(clock, Torn)
  BY <1>4, <1>5 DEF SetChanges
<1>7. store[clock].dat \in Archive => DateOf(store[clock].dat) = clock
  BY <1>2 DEF Inv, Sets
<1>8. Dated' /\ Sets'
  BY <1>2, <1>3, <1>4, <1>6, <1>7, Constants, SetChangesInv
<1>9. Turn(j) /\ job'[j].pc = "done"
  BY <1>1 DEF Turn, JobType, Steps, Codes, Exit
<1>10. TypeOK' /\ Data'
  BY <1>4 DEF WriteCleans, Inv, TypeInv, TypeOK, Data
<1> QED
  BY <1>8, <1>9, <1>10, EndsInv

LEMMA TagInv ==
  ASSUME ~Overlap, Inv, NEW j \in Jobs, Tag(j)
  PROVE  Inv'
<1> USE DEF Tag
<1>1. job[j] \in JobType /\ job \in [Jobs -> JobType] /\ Reading(j)
  BY DEF Inv, TypeInv, Working
<1> DEFINE d == DateOf(job[j].copy)
<1>2. upload \in Around /\ job[j].copy = upload /\ d \in Dates /\ d <= clock
  BY <1>1, DateTypes DEF Reading, Around, Inv, Dated
<1> HIDE DEF d
<1>3. CASE /\ store' = [store EXCEPT ![d].tag = TRUE]
           /\ job' = [job EXCEPT ![j].stamp = d, ![j].pc = "move"]
           /\ UNCHANGED <<tmpVars, upload, faults>>
  <2>1. store[d].dat # Torn /\ (store[d].dat \in Archive => DateOf(store[d].dat) = d)
    BY <1>2 DEF Inv, Sets, d
  <2>2. store \in [Dates -> [dat: Files, tag: BOOLEAN]]
    BY DEF Inv, TypeInv, TypeOK
  <2>3. /\ store' \in [Dates -> [dat: Files, tag: BOOLEAN]]
        /\ \A e \in Dates : e # d => store'[e] = store[e]
        /\ store'[d].dat = store[d].dat
    <3>1. store' = [store EXCEPT ![d] = [store[d] EXCEPT !.tag = TRUE]]
      BY <1>2, <1>3, <2>2
    <3>2. d \in Dates
      BY <1>2
    <3>3. store[d] \in [dat: Files, tag: BOOLEAN]
      BY <2>2, <3>2
    <3>4. [store[d] EXCEPT !.tag = TRUE] \in [dat: Files, tag: BOOLEAN]
      BY <3>3
    <3> QED
      BY <2>2, <3>1, <3>2, <3>3, <3>4
  <2>4. Around' \subseteq Around \cup {Torn}
    BY <1>3, <2>3 DEF Around
  <2>5. SetChanges(d, Torn)
    BY <2>3, <2>4 DEF SetChanges
  <2>6. Dated' /\ Sets'
    BY <1>2, <2>1, <2>3, <2>5, Constants, SetChangesInv
  <2>7. Turn(j) /\ job'[j] = [job[j] EXCEPT !.stamp = d, !.pc = "move"]
    BY <1>1, <1>2, <1>3 DEF Turn, JobType, Steps
  <2>8. TypeOK' /\ Data'
    BY <1>3, <2>3 DEF tmpVars, Inv, TypeInv, TypeOK, Data
  <2>9. (Writing(j) /\ Reading(j))'
    BY <1>1, <1>2, <1>3, <2>7 DEF Writing, Reading, JobType, d
  <2> QED
    BY <2>6, <2>7, <2>8, <2>9, TurnOfOne
<1>4. CASE Fault /\ Exit(j, "any") /\ RestoreCleans /\ UNCHANGED store
  <2>1. Turn(j) /\ job'[j].pc = "done"
    BY <1>1, <1>4 DEF Turn, JobType, Steps, Codes, Exit
  <2>2. Leaves(j)
    BY <1>4, <2>1, Constants DEF RestoreCleans, Leaves, Inv, TypeInv, TypeOK, Fault
  <2> QED
    BY <2>2, LeavesInv DEF Inv, TypeInv, TypeOK, Data
<1> QED
  BY <1>3, <1>4 DEF d

LEMMA MoveInv ==
  ASSUME ~Overlap, Inv, NEW j \in Jobs, Move(j)
  PROVE  Inv'
<1> USE DEF Move
<1>1. job[j] \in JobType /\ job \in [Jobs -> JobType] /\ Reading(j)
  BY DEF Inv, TypeInv, Working
<1> DEFINE d == job[j].stamp
<1>2. upload \in Around /\ d = DateOf(upload) /\ d \in Dates /\ d <= clock
  BY <1>1, DateTypes DEF Reading, Around, Inv, Dated
<1> HIDE DEF d
<1>3. Turn(j) /\ job'[j].pc = "done"
  BY <1>1 DEF Turn, JobType, Steps, Codes, Exit
<1>4. CASE store' = [store EXCEPT ![d].dat = upload] /\ UNCHANGED faults
  <2>1. store[d].dat # Torn /\ upload \in Archive /\ upload # Torn /\ upload \in Files
    BY <1>2, Constants DEF Inv, Sets, Around, Files
  <2>2. store \in [Dates -> [dat: Files, tag: BOOLEAN]]
    BY DEF Inv, TypeInv, TypeOK
  <2>3. /\ store' \in [Dates -> [dat: Files, tag: BOOLEAN]]
        /\ \A e \in Dates : e # d => store'[e] = store[e]
        /\ store'[d].dat = upload
    BY <1>2, <1>4, <2>1, <2>2
  <2>4. Around' \subseteq Around \cup {upload}
    BY <1>4, <2>3, Constants DEF Around, RestoreCleans
  <2>5. SetChanges(d, upload)
    BY <2>3, <2>4 DEF SetChanges
  <2>6. Sound(upload)
    BY <1>2 DEF Inv, Dated
  <2>7. Dated' /\ Sets'
    BY <1>2, <2>1, <2>3, <2>5, <2>6, Constants, SetChangesInv
  <2>8. TypeOK' /\ Data'
    BY <1>4, <2>3, Constants DEF RestoreCleans, Inv, TypeInv, TypeOK, Data, Files
  <2> QED
    BY <1>3, <2>7, <2>8, EndsInv
<1>5. CASE UNCHANGED store /\ (UNCHANGED faults \/ Fault)
  <2>1. Leaves(j)
    BY <1>3, <1>5, Constants DEF RestoreCleans, Leaves, Inv, TypeInv, TypeOK, Fault
  <2> QED
    BY <2>1, LeavesInv DEF Inv, TypeInv, TypeOK, Data
<1> QED
  BY <1>4, <1>5 DEF d

-----------------------------------------------------------------------------
(* The commands of a restore.                                              *)

LEMMA BeginInv ==
  ASSUME ~Overlap, Inv, NEW j \in Jobs,
         Import(j) \/ \E s \in Dates, hw \in BOOLEAN : Restore(j, s, hw)
  PROVE  Inv'
<1> USE DEF Import, Restore, setVars, tmpVars
<1>1. job[j] \in JobType /\ job \in [Jobs -> JobType]
  BY DEF Inv, TypeInv
<1>2. Turn(j) /\ job'[j].pc \in {"done", "decrypt"}
  <2> DEFINE pc == IF key = "none" THEN "done" ELSE "decrypt"
             rc == IF key = "none" THEN "decrypt" ELSE "none"
  <2>1. pc \in {"done", "decrypt"} /\ pc \in Steps /\ rc \in Codes
    BY DEF Steps, Codes
  <2>2. CASE Import(j)
    <3>1. job' = [job EXCEPT ![j].kind = "import", ![j].pc = pc, ![j].rc = rc]
      BY <2>2
    <3> HIDE DEF pc, rc, Import, Restore
    <3> QED
      BY <1>1, <2>1, <2>2, <3>1 DEF Turn, JobType, Import
  <2>3. ASSUME NEW s \in Dates, NEW hw \in BOOLEAN, Restore(j, s, hw)
        PROVE  Turn(j) /\ job'[j].pc \in {"done", "decrypt"}
    <3>1. job' = [job EXCEPT ![j].kind = "restore", ![j].stamp = s, ![j].hw = hw,
                             ![j].pc = pc, ![j].rc = rc]
      BY <2>3
    <3>2. job[j].pc = "idle" /\ Quiet
      BY <2>3
    <3> HIDE DEF pc, rc, Import, Restore
    <3> QED
      BY <1>1, <2>1, <3>1, <3>2 DEF Turn, JobType
  <2> HIDE DEF pc, rc, Import, Restore
  <2> QED
    BY <2>2, <2>3
<1>3. upload' \in Files /\ upload' \in Foreign \cup {upload, exported, Torn, None}
  BY Constants DEF Inv, TypeInv, TypeOK, Files
<1>4. TypeOK' /\ Data'
  BY <1>3 DEF Inv, TypeInv, TypeOK, Data
<1>5. (Writing(j) /\ Reading(j))'
  BY <1>2 DEF Writing, Reading
<1> QED
  BY <1>2, <1>3, <1>4, <1>5, PlainTurn

LEMMA DecryptInv ==
  ASSUME ~Overlap, Inv, NEW j \in Jobs, Decrypt(j)
  PROVE  Inv'
<1> USE DEF Decrypt
<1>1. job[j] \in JobType /\ job \in [Jobs -> JobType]
  BY DEF Inv, TypeInv
<1>2. CASE /\ Source(j) \in Archive /\ gz' = Source(j) /\ Goto(j, "test")
           /\ UNCHANGED <<tar, tagfile, upload>>
  <2>1. Source(j) \in Around
    BY <1>1, <1>2 DEF Source, Around, JobType
  <2>2. Sound(gz') /\ gz' \in Files
    BY <1>2, <2>1 DEF Inv, Dated, Files
  <2>3. Turn(j) /\ job'[j] = [job[j] EXCEPT !.pc = "test"]
    BY <1>1, <1>2 DEF Turn, JobType, Steps, Goto
  <2>4. TypeOK' /\ Data'
    BY <1>2, <2>2 DEF Inv, TypeInv, TypeOK, Data
  <2>5. (Writing(j) /\ Reading(j))'
    BY <1>1, <1>2, <2>3 DEF Writing, Reading, JobType, Source
  <2> QED
    BY <1>2, <2>3, <2>4, <2>5, PlainTurn
<1>3. CASE Exit(j, "decrypt") /\ RestoreCleans
  <2>1. Turn(j) /\ job'[j].pc = "done"
    BY <1>1, <1>3 DEF Turn, JobType, Steps, Codes, Exit
  <2>2. Leaves(j)
    BY <1>3, <2>1 DEF RestoreCleans, Leaves, Inv, TypeInv, TypeOK
  <2> QED
    BY <2>2, LeavesInv DEF Inv, TypeInv, TypeOK, Data
<1> QED
  BY <1>2, <1>3

LEMMA TestInv ==
  ASSUME ~Overlap, Inv, NEW j \in Jobs, Test(j)
  PROVE  Inv'
<1> USE DEF Test
<1>1. job[j] \in JobType /\ job \in [Jobs -> JobType] /\ Reading(j)
  BY DEF Inv, TypeInv, Working
<1>2. CASE \E rc \in {"untartst", "version"} : Exit(j, rc) /\ RestoreCleans
  <2>1. Turn(j) /\ job'[j].pc = "done"
    BY <1>1, <1>2 DEF Turn, JobType, Steps, Codes, Exit
  <2>2. Leaves(j)
    BY <1>2, <2>1 DEF RestoreCleans, Leaves, Inv, TypeInv, TypeOK
  <2> QED
    BY <2>2, LeavesInv DEF Inv, TypeInv, TypeOK, Data
<1> DEFINE pc == IF job[j].kind = "import" THEN "tag" ELSE "gunzip"
<1>3. CASE /\ gz \in Archive /\ VersionFits(gz.marker)
           /\ job' = [job EXCEPT ![j].copy = gz, ![j].pc = pc]
           /\ UNCHANGED <<tmpVars, upload>>
  <2>1. VersionFits(gz.format) /\ gz \in Files
    BY <1>3 DEF Inv, Data, Sound, Files
  <2>2. pc \in Steps /\ pc \in {"tag", "gunzip"}
    BY DEF Steps
  <2>3. pc = "tag" => gz = upload
    BY <1>1 DEF Reading
  <2> HIDE DEF pc
  <2>4. Turn(j) /\ job'[j] = [job[j] EXCEPT !.copy = gz, !.pc = pc]
    BY <1>1, <1>3, <2>1, <2>2 DEF Turn, JobType
  <2>5. TypeOK' /\ Data'
    BY <1>3 DEF tmpVars, Inv, TypeInv, TypeOK, Data
  <2>6. (Writing(j) /\ Reading(j))'
    BY <1>1, <1>3, <2>1, <2>2, <2>3, <2>4 DEF tmpVars, Writing, Reading, JobType
  <2> QED
    BY <1>3, <2>4, <2>5, <2>6, PlainTurn
<1> QED
  BY <1>2, <1>3

LEMMA GunzipInv ==
  ASSUME ~Overlap, Inv, NEW j \in Jobs, Gunzip(j)
  PROVE  Inv'
<1> USE DEF Gunzip, setVars
<1>1. job[j] \in JobType /\ job \in [Jobs -> JobType] /\ Reading(j)
  BY DEF Inv, TypeInv, Working
<1>2. Turn(j) /\ job'[j].pc = "untar"
  BY <1>1 DEF Turn, JobType, Steps, Goto
<1>3. /\ gz' \in {gz, None} /\ (tar' = tar \/ tar' = gz)
      /\ faults' \in 0..MaxFaults
  BY Constants DEF Fault, Inv, TypeInv, TypeOK
<1>4. TypeOK'
  BY <1>3, Constants DEF Inv, TypeInv, TypeOK, Files
<1>5. Data'
  BY <1>1, <1>3, Constants DEF Inv, Data, Reading
<1>6. (Writing(j) /\ Reading(j))'
  BY <1>2 DEF Writing, Reading
<1> QED
  BY <1>2, <1>4, <1>5, <1>6, PlainTurn

LEMMA OverFits ==
  ASSUME NEW c \in Configuration, NEW a \in Archive, NEW parts,
         VersionFits(c.format), VersionFits(a.format)
  PROVE  Over(c, parts, a) \in Configuration /\ VersionFits(Over(c, parts, a).format)
<1>1. DOMAIN c = {"port", "hw", "format"}
  BY DEF Configuration
<1>2. Over(c, parts, a) = [p \in {"port", "hw", "format"} |-> IF p \in parts THEN a[p] ELSE c[p]]
  BY <1>1 DEF Over
<1>3. /\ c.port \in Ports /\ c.hw \in Hardware /\ c.format \in Versions
      /\ a.port \in Ports /\ a.hw \in Hardware /\ a.format \in Versions
  BY DEF Configuration, Archive
<1> DEFINE o == Over(c, parts, a)
<1>4. /\ o.port \in Ports /\ o.hw \in Hardware
      /\ o.format \in {a.format, c.format}
  BY <1>2, <1>3
<1>5. o = [port |-> o.port, hw |-> o.hw, format |-> o.format]
  BY <1>2
<1> HIDE DEF o
<1>6. o \in Configuration
  BY <1>3, <1>4, <1>5 DEF Configuration
<1> QED
  BY <1>4, <1>6 DEF o

LEMMA UntarInv ==
  ASSUME ~Overlap, Inv, NEW j \in Jobs, Untar(j)
  PROVE  Inv'
<1> USE DEF Untar
<1>1. job[j] \in JobType /\ job \in [Jobs -> JobType]
  BY DEF Inv, TypeInv
<1>2. CASE tar \in Archive
  <2>1. PICK parts : config' = Over(config, parts, tar)
    BY <1>2
  <2>2. config' \in Configuration /\ VersionFits(config'.format)
    BY <1>2, <2>1, OverFits DEF Inv, TypeInv, TypeOK, Data
  <2>3. tagfile' \in Dates \cup {NoDate}
    BY <1>2 DEF Archive
  <2>4. CASE Goto(j, "untarring") /\ UNCHANGED <<gz, tar, upload, faults>>
    <3>1. Turn(j) /\ job'[j].pc = "untarring"
      BY <1>1, <1>2, <2>4 DEF Turn, JobType, Steps, Goto
    <3>2. TypeOK' /\ Data'
      BY <1>2, <2>2, <2>3, <2>4 DEF Inv, TypeInv, TypeOK, Data
    <3>3. (Writing(j) /\ Reading(j))'
      BY <3>1 DEF Writing, Reading
    <3> QED
      BY <2>4, <3>1, <3>2, <3>3, PlainTurn
  <2>5. CASE Fault /\ Exit(j, "untar") /\ gz' = None /\ tar' = None /\ upload' = None
    <3>1. Turn(j) /\ job'[j].pc = "done"
      BY <1>1, <2>5 DEF Turn, JobType, Steps, Codes, Exit
    <3>2. TypeOK' /\ Data'
      BY <1>2, <2>2, <2>3, <2>5, Constants DEF Inv, TypeInv, TypeOK, Data, Fault, Files
    <3>3. (Writing(j) /\ Reading(j))'
      BY <3>1 DEF Writing, Reading
    <3> QED
      BY <2>5, <3>1, <3>2, <3>3, PlainTurn
  <2> QED
    BY <1>2, <2>4, <2>5
<1>3. CASE tar \notin Archive
  <2>1. Turn(j) /\ job'[j].pc = "done"
    BY <1>1, <1>3 DEF Turn, JobType, Steps, Codes, Exit
  <2>2. Leaves(j)
    BY <1>3, <2>1 DEF RestoreCleans, Leaves, Inv, TypeInv, TypeOK
  <2> QED
    BY <1>3, <2>2, LeavesInv DEF Inv, TypeInv, TypeOK, Data
<1> QED
  BY <1>2, <1>3

LEMMA UntarredInv ==
  ASSUME ~Overlap, Inv, NEW j \in Jobs, Untarred(j)
  PROVE  Inv'
<1> USE DEF Untarred
<1>1. job[j] \in JobType /\ job \in [Jobs -> JobType]
  BY DEF Inv, TypeInv
<1>2. CASE tar \in Archive
  <2>1. config' \in Configuration /\ VersionFits(config'.format)
    BY <1>2, OverFits DEF Inv, TypeInv, TypeOK, Data
  <2>2. Turn(j) /\ job'[j].pc = "upgrade"
    BY <1>1, <1>2 DEF Turn, JobType, Steps, Goto
  <2>3. TypeOK' /\ Data'
    BY <1>2, <2>1 DEF tmpVars, Inv, TypeInv, TypeOK, Data
  <2>4. (Writing(j) /\ Reading(j))'
    BY <2>2 DEF Writing, Reading
  <2> QED
    BY <1>2, <2>2, <2>3, <2>4, PlainTurn
<1>3. CASE tar \notin Archive
  <2>1. Turn(j) /\ job'[j].pc = "done"
    BY <1>1, <1>3 DEF Turn, JobType, Steps, Codes, Exit
  <2>2. Leaves(j)
    BY <1>3, <2>1 DEF RestoreCleans, Leaves, Inv, TypeInv, TypeOK
  <2> QED
    BY <1>3, <2>2, LeavesInv DEF Inv, TypeInv, TypeOK, Data
<1> QED
  BY <1>2, <1>3

LEMMA UpgradeInv ==
  ASSUME ~Overlap, Inv, NEW j \in Jobs, Upgrade(j)
  PROVE  Inv'
<1> USE DEF Upgrade
<1>1. job[j] \in JobType /\ job \in [Jobs -> JobType]
  BY DEF Inv, TypeInv
<1>2. Turn(j) /\ job'[j].pc = "done"
  BY <1>1 DEF Turn, JobType, Steps, Codes, Exit
<1>3. config' \in Configuration /\ VersionFits(config'.format)
  BY Constants DEF Inv, TypeInv, TypeOK, Configuration, Data, Upgraded
<1>4. Leaves(j)
  BY <1>2, Constants DEF RestoreCleans, Leaves, Inv, TypeInv, TypeOK, Fault
<1> QED
  BY <1>3, <1>4, LeavesInv

-----------------------------------------------------------------------------
(* The user.                                                               *)

LEMMA KeyGenInv ==
  ASSUME ~Overlap, Inv, NEW j \in Jobs, KeyGen(j)
  PROVE  Inv'
<1> USE DEF KeyGen, tmpVars
<1>1. faults' \in 0..MaxFaults /\ key' \in {"empty", "good"}
  BY Constants DEF Inv, TypeInv, TypeOK, Fault
<1>2. TypeOK' /\ Data'
  BY <1>1 DEF Inv, TypeInv, TypeOK, Data
<1>3. Dated' /\ Sets'
  BY SetsStay DEF Inv
<1> QED
  BY <1>2, <1>3, NobodysTurn

LEMMA EditInv ==
  ASSUME ~Overlap, Inv, Edit
  PROVE  Inv'
<1> USE DEF Edit, setVars, tmpVars
<1>1. config \in Configuration /\ VersionFits(config.format)
  BY DEF Inv, TypeInv, TypeOK, Data
<1>2. config' \in Configuration /\ config'.format = config.format
  BY <1>1 DEF Configuration
<1>3. TypeOK' /\ Data'
  BY <1>1, <1>2 DEF Inv, TypeInv, TypeOK, Data
<1>4. Dated' /\ Sets'
  BY SetsStay DEF Inv
<1> QED
  BY <1>3, <1>4, NobodysTurn

LEMMA ExportInv ==
  ASSUME ~Overlap, Inv, NEW d \in Dates, Export(d)
  PROVE  Inv'
<1> USE DEF Export, tmpVars
<1>1. exported' \in Files
  BY DEF Inv, TypeInv, TypeOK
<1>2. TypeOK' /\ Data'
  BY <1>1 DEF Inv, TypeInv, TypeOK, Data
<1>3. Around' \subseteq Around
  BY DEF Around
<1>4. Dated' /\ Sets'
  BY <1>3 DEF Inv, Dated, Sets
<1> QED
  BY <1>2, <1>4, NobodysTurn

LEMMA RemoveInv ==
  ASSUME ~Overlap, Inv, NEW d \in Dates, Remove(d)
  PROVE  Inv'
<1> USE DEF Remove, tmpVars
<1>1. /\ store \in [Dates -> [dat: Files, tag: BOOLEAN]]
      /\ NoSet \in [dat: Files, tag: BOOLEAN] /\ NoSet.dat = None /\ ~NoSet.tag
  BY DEF Inv, TypeInv, TypeOK, NoSet, Files
<1>2. /\ store' \in [Dates -> [dat: Files, tag: BOOLEAN]]
      /\ \A e \in Dates : e # d => store'[e] = store[e]
      /\ store'[d].dat = None /\ ~store'[d].tag
  BY <1>1
<1>3. Around' \subseteq Around \cup {Torn}
  BY <1>2, Constants DEF Around
<1>4. SetChanges(d, Torn)
  BY <1>2, <1>3 DEF SetChanges
<1>5. Dated' /\ Sets'
  BY <1>2, <1>4, Constants, SetChangesInv
<1>6. TypeOK' /\ Data'
  BY <1>2 DEF Inv, TypeInv, TypeOK, Data
<1> QED
  BY <1>5, <1>6, NobodysTurn

LEMMA InitInv ==
  ASSUME Init
  PROVE  Inv
<1> USE DEF Init
<1>1. /\ 0 \in Dates /\ None \in Files /\ NoSet \in [dat: Files, tag: BOOLEAN]
      /\ NoSet.dat = None /\ ~NoSet.tag
  BY Constants DEF Files, NoSet
<1>2. config \in Configuration /\ config.format = Own
  BY Constants DEF Configuration
<1>3. TypeInv
  BY <1>1, <1>2, IdleType, Constants DEF TypeInv, TypeOK
<1>4. Alone
  BY DEF Alone, Idle
<1>5. Data
  BY <1>2, Constants DEF Data
<1>6. Around = Foreign
  BY <1>1, Constants DEF Around
<1>7. Dated
  BY <1>6, ForeignAssumption DEF Dated, Sound
<1>8. Sets
  BY <1>1, Constants DEF Sets
<1>9. Working
  BY DEF Working, Writing, Reading, Idle
<1> QED
  BY <1>3, <1>4, <1>5, <1>7, <1>8, <1>9 DEF Inv

LEMMA NextInv ==
  ASSUME ~Overlap, Inv, [Next]_vars
  PROVE  Inv'
<1>1. ASSUME NEW j \in Jobs, Call(j)
      PROVE  Inv'
  BY <1>1, ReapInv, WriteInv, TarInv, EncryptInv, EncryptedInv, LabelInv, KeyGenInv, BeginInv,
     DecryptInv, TestInv, TagInv, MoveInv, GunzipInv, UntarInv, UntarredInv,
     UpgradeInv DEF Call
<1>2. CASE UNCHANGED vars
  BY <1>2 DEF vars, Inv, TypeInv, TypeOK, Alone, Data, Around, Dated, Sets, Working, Writing, Reading
<1> QED
  BY <1>1, <1>2, EditInv, ExportInv, RemoveInv DEF Next

-----------------------------------------------------------------------------
LEMMA Invariance == ASSUME ~Overlap PROVE Spec => []Inv
<1>1. Init => Inv
  BY InitInv
<1>2. Inv /\ [Next]_vars => Inv'
  BY NextInv
<1> QED
  BY <1>1, <1>2, PTL DEF Spec

\* The variables keep their types (Backup's VARIABLES: the configuration, the
\* key, the sets of backup.cgi and the files of ipcoprestore.c).
THEOREM TypeCorrect == ASSUME ~Overlap PROVE Spec => []TypeOK
<1>1. Inv => TypeOK
  BY DEF Inv, TypeInv
<1> QED
  BY <1>1, Invariance, PTL

\* A set that has its tag file is complete and holds the date of its name,
\* however many backups are cut short and imports fail (ipcopbkcfg.c:499-513,
\* ipcoprestore.c:221-291).
THEOREM CompleteSets == ASSUME ~Overlap PROVE Spec => []SetsComplete
<1>1. Inv => SetsComplete
  <2> SUFFICES ASSUME Inv, NEW d \in Dates, store[d].tag, store[d].dat # None
               PROVE  store[d].dat \in Archive /\ (store[d].dat.tag = d \/ store[d].dat.tag = NoDate)
    BY DEF SetsComplete
  <2>1. store[d].dat \in Archive
    BY DEF Inv, TypeInv, TypeOK, Files, Sets
  <2>2. DateOf(store[d].dat) = d
    BY <2>1 DEF Inv, Sets
  <2> QED
    BY <2>1, <2>2 DEF DateOf
<1> QED
  BY <1>1, Invariance, PTL

\* The data the system runs on are at least of 1.9.9 and of no later minor
\* version, whatever is uploaded and wherever a restore stops: the test of
\* helper_backup.c:35-71 on packed versions is one on their numbers.
THEOREM DataFit == ASSUME ~Overlap PROVE Spec => []FormatFits
<1>1. ASSUME NEW v \in Versions, VersionFits(v)
      PROVE  /\ ~Before(v, <<1, 9, 9>>)
             /\ ~Before(<<Own[1], Own[2]>>, <<v[1], v[2]>>)
  <2>1. PICK a \in Nat, b \in 0..255, c \in 0..255 : v = <<a, b, c>>
    <3>1. v \in Nat \X (0..255) \X (0..255)
      BY BackupAssumption
    <3>2. v = <<v[1], v[2], v[3]>> /\ v[1] \in Nat /\ v[2] \in 0..255 /\ v[3] \in 0..255
      BY <3>1
    <3> QED
      BY <3>2
  <2>2. PICK d \in Nat, e \in 0..255, f \in 0..255 : Own = <<d, e, f>>
    <3>1. Own \in Nat \X (0..255) \X (0..255)
      BY BackupAssumption
    <3>2. Own = <<Own[1], Own[2], Own[3]>> /\ Own[1] \in Nat /\ Own[2] \in 0..255 /\ Own[3] \in 0..255
      BY <3>1
    <3> QED
      BY <3>2
  <2> DEFINE x == a * 65536 + b * 256 + c
             y == d * 65536 + e * 256 + f
  <2>3. x >= 1 * 65536 + 9 * 256 + 9 /\ (y >= x \/ y \div 256 = x \div 256)
    BY <1>1, <2>1, <2>2 DEF VersionFits, Code
  <2>4. x \div 256 = a * 256 + b
    <3>1. x = 256 * (a * 256 + b) + c
      OBVIOUS
    <3>2. \A m \in Nat : (256 * m + c) \div 256 = m
      OBVIOUS
    <3> QED
      BY <3>1, <3>2
  <2>5. y \div 256 = d * 256 + e
    <3>1. y = 256 * (d * 256 + e) + f
      OBVIOUS
    <3>2. \A m \in Nat : (256 * m + f) \div 256 = m
      OBVIOUS
    <3> QED
      BY <3>1, <3>2
  <2>6. ~(a < 1) /\ ~(a = 1 /\ b < 9) /\ ~(a = 1 /\ b = 9 /\ c < 9)
    BY <2>3
  <2>7. ~(d < a) /\ ~(d = a /\ e < b)
    <3>1. y >= x => ~(d < a) /\ ~(d = a /\ e < b)
      OBVIOUS
    <3>2. d * 256 + e = a * 256 + b => ~(d < a) /\ ~(d = a /\ e < b)
      OBVIOUS
    <3> QED
      BY <2>3, <2>4, <2>5, <3>1, <3>2
  <2> HIDE DEF x, y
  <2>8. ~Before(v, <<1, 9, 9>>)
    <3>1. SUFFICES ASSUME NEW i \in 1..3, v[i] < <<1, 9, 9>>[i],
                          \A k \in 1..(i - 1) : v[k] = <<1, 9, 9>>[k]
                   PROVE  FALSE
      BY <2>1 DEF Before
    <3>2. v[1] = a /\ v[2] = b /\ v[3] = c
      BY <2>1
    <3>3. i = 1 \/ i = 2 \/ i = 3
      OBVIOUS
    <3> QED
      BY <2>6, <3>1, <3>2, <3>3
  <2>9. ~Before(<<d, e>>, <<a, b>>)
    <3>1. SUFFICES ASSUME NEW i \in 1..2, <<d, e>>[i] < <<a, b>>[i],
                          \A k \in 1..(i - 1) : <<d, e>>[k] = <<a, b>>[k]
                   PROVE  FALSE
      BY DEF Before
    <3>2. i = 1 \/ i = 2
      OBVIOUS
    <3> QED
      BY <2>7, <3>1, <3>2
  <2> QED
    BY <2>1, <2>2, <2>8, <2>9
<1>2. Inv => FormatFits
  BY <1>1 DEF Inv, TypeInv, TypeOK, Configuration, Data, FormatFits
<1> QED
  BY <1>2, Invariance, PTL

\* No backup and no import puts another file in the place of a complete set;
\* two archives of one date are the same (ipcopbkcfg.c:385-430,
\* ipcoprestore.c:283-292).
THEOREM SetsKept == ASSUME ~Overlap PROVE Spec => GoodSetsStay
<1> DEFINE Kept == \A d \in Dates : store[d].dat \in Archive =>
                     store'[d].dat = store[d].dat \/ store'[d] = NoSet
<1>1. ASSUME Inv, Next
      PROVE  Kept
  <2>1. store \in [Dates -> [dat: Files, tag: BOOLEAN]] /\ clock \in Dates
    BY <1>1, Constants DEF Inv, TypeInv, TypeOK, Dates
  <2>2. ASSUME NEW d \in Dates, Remove(d)
        PROVE  Kept
    BY <2>1, <2>2 DEF Remove
  <2>3. ASSUME NEW j \in Jobs, Call(j)
        PROVE  Kept
    <3>1. Writing(j) /\ Reading(j) /\ job[j] \in JobType
      BY <1>1 DEF Inv, TypeInv, Working
    <3>2. CASE Encrypt(j) \/ Encrypted(j)
      <4>1. job[j].pc \in {"encrypt", "encrypting"}
        BY <3>2 DEF Encrypt, Encrypted
      <4>2. job[j].stamp = clock /\ \A a \in Around : DateOf(a) # clock
        BY <3>1, <4>1 DEF Writing
      <4>3. store[clock].dat \notin Archive
        BY <1>1, <2>1, <4>2 DEF Inv, Sets, Around
      <4>4. \A d \in Dates : d # clock => store'[d] = store[d]
        BY <2>1, <3>2, <4>2 DEF Encrypt, Encrypted
      <4> QED
        BY <4>3, <4>4
    <3>3. CASE Label(j) \/ Tag(j)
      <4>1. \A d \in Dates : store'[d].dat = store[d].dat
        <5>1. store' = store \/ \E e : store' = [store EXCEPT ![e].tag = TRUE]
          BY <3>3 DEF Label, Tag
        <5> QED
          BY <2>1, <5>1
      <4> QED
        BY <4>1
    <3>4. CASE Move(j)
      <4>1. upload \in Around /\ job[j].stamp = DateOf(upload)
        BY <3>1, <3>4 DEF Reading, Around, Move
      <4>2. \A d \in Dates : store[d].dat \in Archive /\ d = DateOf(upload) => store[d].dat = upload
        BY <1>1, <4>1 DEF Inv, Dated, Sets, Around
      <4>3. store' = store \/ store' = [store EXCEPT ![DateOf(upload)].dat = upload]
        BY <3>4, <4>1 DEF Move
      <4> QED
        BY <2>1, <4>2, <4>3
    <3>5. CASE UNCHANGED store
      BY <3>5
    <3>6. UNCHANGED store \/ Encrypt(j) \/ Encrypted(j) \/ Label(j) \/ Tag(j) \/ Move(j)
      BY <2>3 DEF Call, Reap, Kill, Write, Tar, KeyGen, Restore, Import, Decrypt, Test, Gunzip,
           Untar, Untarred, Upgrade, setVars
    <3> QED
      BY <3>2, <3>3, <3>4, <3>5, <3>6
  <2>4. Edit \/ (\E d \in Dates : Export(d)) => Kept
    BY DEF Edit, Export, setVars
  <2> QED
    BY <1>1, <2>2, <2>3, <2>4 DEF Next
<1>2. Inv /\ [Next]_vars => [Kept]_vars
  BY <1>1
<1> QED
  BY <1>2, Invariance, PTL DEF Spec, GoodSetsStay

-----------------------------------------------------------------------------
(* What a call has done when it reports success.                           *)

Restoring == {"gunzip", "untar", "untarring", "upgrade"}
Unpacking == {"untar", "untarring", "upgrade"}

\* Which call has which steps.
Kinds(j) ==
  /\ job[j].pc \in {"tar", "encrypt", "encrypting", "label"} => job[j].kind = "write"
  /\ job[j].pc \in {"decrypt", "test"} => job[j].kind \in {"restore", "import"}
  /\ job[j].pc \in {"tag", "move"} => job[j].kind = "import"
  /\ job[j].pc \in Restoring => job[j].kind = "restore"

Set(j) == store[job[j].stamp]

\* A backup is in its place before it is labelled, an import is labelled before
\* it is in its place.
Stored(j) ==
  /\ job[j].pc = "label" => Set(j).dat = job[j].copy
  /\ job[j].pc = "move" => Set(j).tag
  /\ job[j].pc = "done" /\ job[j].rc = "ok" /\ job[j].kind # "restore" =>
       Set(j).tag /\ Set(j).dat = job[j].copy

\* The archive a restore works on is its set, through all its forms; an
\* archive left by a call that was killed cannot be taken for it as long as
\* nothing else goes wrong.
Restored(j) ==
  faults <= 1 =>
    /\ job[j].pc = "test" /\ job[j].kind = "restore" => gz = Set(j).dat
    /\ job[j].pc = "gunzip" => gz = Set(j).dat /\ gz \in Archive
    /\ job[j].pc = "untar" => tar \in {Set(j).dat, None}
    /\ job[j].pc \in {"untarring", "upgrade"} => tar = Set(j).dat
    /\ job[j].pc = "upgrade" =>
         /\ config.port = Set(j).dat.port /\ config.format = Set(j).dat.format
         /\ job[j].hw => config.hw = Set(j).dat.hw
    /\ job[j].pc = "done" /\ job[j].rc = "ok" /\ job[j].kind = "restore" =>
         /\ config.port = Set(j).dat.port
         /\ config.format \in {Set(j).dat.format, Upgraded(Set(j).dat.format)}
         /\ faults = 0 => config.format = Upgraded(Set(j).dat.format)
         /\ job[j].hw => config.hw = Set(j).dat.hw

\* Files are only unpacked from an archive.
Opened(j) == job[j].pc = "untarring" => tar \in Archive

Keeps(j) == Kinds(j) /\ Stored(j) /\ Restored(j) /\ Opened(j)

\* Without a fault nothing is left behind.
NothingLeft == faults = 0 /\ (\A j \in Jobs : job[j].pc \notin Unpacking) => tar = None
Results == (\A j \in Jobs : Keeps(j)) /\ NothingLeft

-----------------------------------------------------------------------------
(* A step of one call, the others being idle.                              *)
Moves(j) ==
  /\ job[j].pc # "idle" \/ Quiet
  /\ \A k \in Jobs : k # j => job'[k] = job[k]

\* What is left to show of such a step.
Shown(j) ==
  /\ Keeps(j)'
  /\ faults' = 0 /\ job'[j].pc \notin Unpacking => tar' = None

LEMMA MovesKeep ==
  ASSUME ~Overlap, Inv, NEW j \in Jobs, Moves(j), Shown(j)
  PROVE  Results'
<1>1. \A k \in Jobs : k # j => job'[k].pc = "idle"
  BY DEF Moves, Quiet, Inv, Alone
<1>2. ASSUME NEW k \in Jobs
      PROVE  Keeps(k)'
  <2>1. CASE k = j
    BY <2>1 DEF Shown
  <2>2. CASE k # j
    BY <1>1, <2>2 DEF Keeps, Kinds, Stored, Restored, Opened, Restoring
  <2> QED
    BY <2>1, <2>2
<1>3. NothingLeft'
  BY DEF Shown, NothingLeft
<1> QED
  BY <1>2, <1>3 DEF Results

\* What the call that moves may count on.
Known(j) ==
  /\ TypeOK /\ job \in [Jobs -> JobType] /\ job[j] \in JobType /\ faults \in 0..MaxFaults
  /\ job[j].pc # "idle" \/ Quiet
  /\ Reading(j) /\ Keeps(j)
  /\ faults = 0 /\ job[j].pc \notin Unpacking => tar = None

LEMMA KnownBefore ==
  ASSUME ~Overlap, Inv, Results, NEW j \in Jobs, job[j].pc # "idle" \/ Quiet
  PROVE  Known(j)
<1>1. \A k \in Jobs : k # j => job[k].pc = "idle"
  BY DEF Quiet, Inv, Alone
<1>2. \A k \in Jobs : k # j => job[k].pc \notin Unpacking
  BY <1>1 DEF Unpacking
<1> QED
  BY <1>2 DEF Results, NothingLeft, Known, Inv, TypeInv, TypeOK, Working

\* A call that ends without success.
Fails(j) ==
  /\ job'[j].pc = "done" /\ job'[j].rc # "ok"
  /\ tar' \in {tar, None} /\ UNCHANGED config
  /\ faults' \in {faults, faults + 1}
  /\ job[j].pc \in Restoring => tar' = None

LEMMA FailsShown ==
  ASSUME NEW j \in Jobs, Known(j), Fails(j)
  PROVE  Shown(j)
<1>1. Keeps(j)'
  BY DEF Fails, Keeps, Kinds, Stored, Restored, Opened, Restoring
<1>2. faults' = 0 => faults = 0
  BY Constants DEF Fails, Known
<1>3. job[j].pc \notin Restoring => job[j].pc \notin Unpacking
  BY DEF Restoring, Unpacking
<1> QED
  BY <1>1, <1>2, <1>3 DEF Fails, Known, Shown, Restoring

\* A step before anything is unpacked.
Early(j) ==
  /\ job[j].pc \notin Unpacking /\ job'[j].pc \notin Unpacking
  /\ UNCHANGED <<config, tar>> /\ faults' \in {faults, faults + 1}

LEMMA EarlyShown ==
  ASSUME NEW j \in Jobs, Known(j), Early(j), Keeps(j)'
  PROVE  Shown(j)
<1>1. faults' = 0 => faults = 0
  BY Constants DEF Early, Known
<1> QED
  BY <1>1 DEF Early, Known, Shown, Unpacking

-----------------------------------------------------------------------------
(* What each step of a call leaves.                                        *)

LEMMA ReapShown ==
  ASSUME NEW j \in Jobs, Known(j), Reap(j) \/ Kill(j)
  PROVE  Moves(j) /\ Shown(j)
<1> USE DEF Reap, Kill, Fault, setVars, tmpVars
<1>1. job'[j] = Idle /\ Moves(j)
  BY DEF Known, Moves
<1>2. Keeps(j)'
  BY <1>1 DEF Keeps, Kinds, Stored, Restored, Opened, Restoring, Idle
<1>3. CASE Reap(j)
  BY <1>1, <1>2, <1>3, EarlyShown DEF Early, Idle, Unpacking
<1>4. CASE Kill(j)
  <2>1. faults' # 0
    BY <1>4, Constants DEF Known
  <2> QED
    BY <1>1, <1>2, <2>1 DEF Shown
<1> QED
  BY <1>1, <1>3, <1>4

LEMMA WriteShown ==
  ASSUME NEW j \in Jobs, Known(j), Write(j)
  PROVE  Moves(j) /\ Shown(j)
<1> USE DEF Write, WriteCleans
<1>1. CASE key = "none"
  <2>1. Moves(j) /\ job'[j].pc = "done" /\ job'[j].rc = "key"
    BY <1>1 DEF Known, Moves, JobType
  <2>2. Fails(j)
    BY <1>1, <2>1 DEF Fails, Restoring
  <2> QED
    BY <2>1, <2>2, FailsShown
<1>2. CASE key # "none"
  <2>1. Moves(j) /\ job'[j].pc = "tar" /\ job'[j].kind = "write"
    BY <1>2 DEF Known, Moves, JobType
  <2>2. Keeps(j)'
    BY <2>1 DEF Keeps, Kinds, Stored, Restored, Opened, Restoring
  <2> QED
    BY <1>2, <2>1, <2>2, EarlyShown DEF Early, Unpacking
<1> QED
  BY <1>1, <1>2

LEMMA TarShown ==
  ASSUME NEW j \in Jobs, Known(j), Tar(j)
  PROVE  Moves(j) /\ Shown(j)
<1> USE DEF Tar, WriteCleans, tmpVars
<1>1. CASE Fault /\ Exit(j, "tar") /\ WriteCleans
  <2>1. Moves(j) /\ job'[j].pc = "done" /\ job'[j].rc = "tar"
    BY <1>1 DEF Known, Moves, JobType, Exit
  <2>2. Fails(j)
    BY <1>1, <2>1 DEF Fails, Restoring, Fault
  <2> QED
    BY <2>1, <2>2, FailsShown
<1> DEFINE a == [tag |-> tagfile, marker |-> Own, port |-> config.port, hw |-> config.hw,
                 format |-> config.format]
<1>2. CASE job' = [job EXCEPT ![j].copy = a, ![j].pc = "encrypt"] /\ UNCHANGED <<tmpVars, upload, faults>>
  <2> HIDE DEF a
  <2>1. Moves(j) /\ job'[j].pc = "encrypt" /\ job'[j].kind = "write"
    BY <1>2 DEF Known, Moves, JobType
  <2>2. Keeps(j)'
    BY <2>1 DEF Keeps, Kinds, Stored, Restored, Opened, Restoring
  <2> QED
    BY <1>2, <2>1, <2>2, EarlyShown DEF Early, Unpacking
<1> QED
  BY <1>1, <1>2

LEMMA EncryptShown ==
  ASSUME NEW j \in Jobs, Known(j), Encrypt(j)
  PROVE  Moves(j) /\ Shown(j)
<1> USE DEF Encrypt, WriteCleans, tmpVars
<1>1. CASE key # "good"
  <2>1. Moves(j) /\ job'[j].pc = "done" /\ job'[j].rc = "encrypt"
    BY <1>1 DEF Known, Moves, JobType, Exit
  <2>2. Fails(j)
    BY <1>1, <2>1 DEF Fails, Restoring
  <2> QED
    BY <2>1, <2>2, FailsShown
<1>2. CASE key = "good"
  <2>1. Moves(j) /\ job'[j].pc = "encrypting"
    BY <1>2 DEF Known, Moves, JobType, Goto
  <2>2. job'[j].kind = "write"
    BY <1>2 DEF Known, JobType, Goto
  <2>3. Keeps(j)'
    BY <2>1, <2>2 DEF Keeps, Kinds, Stored, Restored, Opened, Restoring
  <2> QED
    BY <1>2, <2>1, <2>3, EarlyShown DEF Early, Unpacking
<1> QED
  BY <1>1, <1>2

LEMMA EncryptedShown ==
  ASSUME NEW j \in Jobs, Known(j), Encrypted(j)
  PROVE  Moves(j) /\ Shown(j)
<1> USE DEF Encrypted, WriteCleans, tmpVars
<1>1. CASE Fault /\ Exit(j, "encrypt") /\ WriteCleans
  <2>1. Moves(j) /\ job'[j].pc = "done" /\ job'[j].rc = "encrypt"
    BY <1>1 DEF Known, Moves, JobType, Exit
  <2>2. Fails(j)
    BY <1>1, <2>1 DEF Fails, Restoring, Fault
  <2> QED
    BY <2>1, <2>2, FailsShown
<1>2. CASE /\ store' = [store EXCEPT ![job[j].stamp].dat = job[j].copy]
           /\ Goto(j, "label") /\ UNCHANGED <<tmpVars, upload, faults>>
  <2>1. Moves(j) /\ job'[j] = [job[j] EXCEPT !.pc = "label"]
    BY <1>2 DEF Known, Moves, JobType, Goto
  <2>2. job[j].stamp \in Dates /\ store \in [Dates -> [dat: Files, tag: BOOLEAN]]
    BY DEF Known, JobType, TypeOK
  <2>3. store'[job[j].stamp].dat = job[j].copy
    BY <1>2, <2>2
  <2>4. /\ job'[j].pc = "label" /\ job'[j].kind = "write"
        /\ job'[j].stamp = job[j].stamp /\ job'[j].copy = job[j].copy
    BY <2>1 DEF Known, Keeps, Kinds, JobType
  <2>5. Keeps(j)'
    BY <2>3, <2>4 DEF Keeps, Kinds, Stored, Set, Restored, Opened, Restoring
  <2> QED
    BY <1>2, <2>1, <2>4, <2>5, EarlyShown DEF Early, Unpacking
<1> QED
  BY <1>1, <1>2

LEMMA LabelShown ==
  ASSUME NEW j \in Jobs, Known(j), Label(j)
  PROVE  Moves(j) /\ Shown(j)
<1> USE DEF Label, WriteCleans
<1>1. Moves(j) /\ job'[j] = [job[j] EXCEPT !.pc = "done", !.rc = "ok"]
  BY DEF Known, Moves, JobType, Exit
<1>2. job[j].stamp \in Dates /\ store \in [Dates -> [dat: Files, tag: BOOLEAN]]
  BY DEF Known, JobType, TypeOK
<1>3. store'[job[j].stamp].dat = store[job[j].stamp].dat /\ store'[job[j].stamp].tag
  BY <1>2
<1>4. /\ job'[j].pc = "done" /\ job'[j].kind = "write"
      /\ job'[j].stamp = job[j].stamp /\ job'[j].copy = job[j].copy
  BY <1>1 DEF Known, Keeps, Kinds, JobType
<1>5. store[job[j].stamp].dat = job[j].copy
  BY DEF Known, Keeps, Stored, Set
<1>6. Keeps(j)'
  BY <1>3, <1>4, <1>5 DEF Keeps, Kinds, Stored, Set, Restored, Opened, Restoring
<1> QED
  BY <1>1, <1>4, <1>6, EarlyShown DEF Early, Unpacking

LEMMA BeginShown ==
  ASSUME NEW j \in Jobs, Known(j), Import(j) \/ \E s \in Dates, hw \in BOOLEAN : Restore(j, s, hw)
  PROVE  Moves(j) /\ Shown(j)
<1> DEFINE pc == IF key = "none" THEN "done" ELSE "decrypt"
           rc == IF key = "none" THEN "decrypt" ELSE "none"
<1>1. pc \in {"done", "decrypt"} /\ rc # "ok"
  OBVIOUS
<1>2. /\ job[j].pc = "idle" /\ Quiet /\ UNCHANGED <<config, tar, faults>>
      /\ \/ job' = [job EXCEPT ![j].kind = "import", ![j].pc = pc, ![j].rc = rc]
         \/ \E s \in Dates, hw \in BOOLEAN :
              job' = [job EXCEPT ![j].kind = "restore", ![j].stamp = s, ![j].hw = hw,
                                 ![j].pc = pc, ![j].rc = rc]
  BY DEF Import, Restore, tmpVars
<1> HIDE DEF pc, rc
<1>3. Moves(j) /\ job'[j].pc = pc /\ job'[j].rc = rc /\ job'[j].kind \in {"import", "restore"}
  <2>1. CASE job' = [job EXCEPT ![j].kind = "import", ![j].pc = pc, ![j].rc = rc]
    BY <1>2, <2>1 DEF Known, Moves, JobType
  <2>2. ASSUME NEW s \in Dates, NEW hw \in BOOLEAN,
               job' = [job EXCEPT ![j].kind = "restore", ![j].stamp = s, ![j].hw = hw,
                                  ![j].pc = pc, ![j].rc = rc]
        PROVE  Moves(j) /\ job'[j].pc = pc /\ job'[j].rc = rc /\ job'[j].kind \in {"import", "restore"}
    BY <1>2, <2>2 DEF Known, Moves, JobType
  <2> QED
    BY <1>2, <2>1, <2>2
<1>4. Keeps(j)'
  BY <1>1, <1>3 DEF Keeps, Kinds, Stored, Restored, Opened, Restoring
<1> QED
  BY <1>1, <1>2, <1>3, <1>4, EarlyShown DEF Early, Unpacking

\* A call of ipcoprestore that ends without success, config as it was.
LEMMA EndShown ==
  ASSUME NEW j \in Jobs, Known(j), NEW rc \in Codes, rc # "ok", Exit(j, rc), RestoreCleans,
         job[j].pc # "idle",
         UNCHANGED config, UNCHANGED faults \/ Fault
  PROVE  Moves(j) /\ Shown(j)
<1>1. Moves(j) /\ job'[j].pc = "done" /\ job'[j].rc = rc
  BY DEF Known, Moves, JobType, Exit
<1>2. Fails(j)
  BY <1>1 DEF Fails, RestoreCleans, Fault
<1> QED
  BY <1>1, <1>2, FailsShown

LEMMA DecryptShown ==
  ASSUME NEW j \in Jobs, Known(j), Decrypt(j)
  PROVE  Moves(j) /\ Shown(j)
<1> USE DEF Decrypt
<1>1. CASE Exit(j, "decrypt") /\ RestoreCleans
  BY <1>1, EndShown DEF Codes
<1>2. CASE gz' = Source(j) /\ Goto(j, "test") /\ UNCHANGED <<tar, tagfile, upload>>
  <2>1. Moves(j) /\ job'[j] = [job[j] EXCEPT !.pc = "test"]
    BY <1>2 DEF Known, Moves, JobType, Goto
  <2>2. /\ job'[j].pc = "test" /\ job'[j].kind = job[j].kind /\ job'[j].stamp = job[j].stamp
        /\ job[j].kind \in {"restore", "import"}
    BY <2>1 DEF Known, Keeps, Kinds, JobType
  <2>3. Keeps(j)'
    BY <1>2, <2>2 DEF Keeps, Kinds, Stored, Set, Restored, Opened, Restoring, Source
  <2> QED
    BY <1>2, <2>1, <2>2, <2>3, EarlyShown DEF Early, Unpacking
<1> QED
  BY <1>1, <1>2

LEMMA TestShown ==
  ASSUME NEW j \in Jobs, Known(j), Test(j)
  PROVE  Moves(j) /\ Shown(j)
<1> USE DEF Test
<1>1. CASE gz \notin Archive
  BY <1>1, EndShown DEF Codes
<1>2. CASE gz \in Archive /\ ~VersionFits(gz.marker)
  BY <1>2, EndShown DEF Codes
<1>3. CASE gz \in Archive /\ VersionFits(gz.marker)
  <2> DEFINE pc == IF job[j].kind = "import" THEN "tag" ELSE "gunzip"
  <2>1. UNCHANGED <<tmpVars, upload>> /\ job' = [job EXCEPT ![j].copy = gz, ![j].pc = pc]
    BY <1>3
  <2>2. job[j].kind \in {"restore", "import"}
    BY DEF Known, Keeps, Kinds
  <2>3. pc \in {"tag", "gunzip"} /\ (pc = "tag" <=> job[j].kind = "import")
    OBVIOUS
  <2> HIDE DEF pc
  <2>4. Moves(j) /\ job'[j] = [job[j] EXCEPT !.copy = gz, !.pc = pc]
    BY <2>1 DEF Known, Moves, JobType
  <2>5. job'[j].pc = pc /\ job'[j].kind = job[j].kind /\ job'[j].stamp = job[j].stamp
    BY <2>4 DEF Known, JobType
  <2>6. Keeps(j)'
    BY <1>3, <2>1, <2>2, <2>3, <2>5
    DEF Known, Keeps, Kinds, Stored, Set, Restored, Opened, Restoring, tmpVars
  <2> QED
    BY <2>1, <2>3, <2>4, <2>5, <2>6, EarlyShown DEF Early, Unpacking, tmpVars
<1> QED
  BY <1>1, <1>2, <1>3

LEMMA TagShown ==
  ASSUME NEW j \in Jobs, Known(j), Tag(j)
  PROVE  Moves(j) /\ Shown(j)
<1> USE DEF Tag
<1> DEFINE d == DateOf(job[j].copy)
<1> HIDE DEF d
<1>1. CASE Fault /\ Exit(j, "any") /\ RestoreCleans
  BY <1>1, EndShown DEF Codes
<1>2. CASE /\ store' = [store EXCEPT ![d].tag = TRUE]
           /\ job' = [job EXCEPT ![j].stamp = d, ![j].pc = "move"]
           /\ UNCHANGED <<tmpVars, upload, faults>>
  <2>1. job[j].copy \in Archive
    BY DEF Known, Reading
  <2>2. d \in Dates
    BY <2>1, DateTypes DEF d
  <2>3. store'[d].tag
    BY <1>2, <2>2 DEF Known, TypeOK
  <2>4. Moves(j) /\ job'[j] = [job[j] EXCEPT !.stamp = d, !.pc = "move"]
    BY <1>2 DEF Known, Moves, JobType
  <2>5. job'[j].pc = "move" /\ job'[j].kind = "import" /\ job'[j].stamp = d
    BY <2>4 DEF Known, JobType, Keeps, Kinds
  <2>6. Keeps(j)'
    BY <2>3, <2>5 DEF Keeps, Kinds, Stored, Set, Restored, Opened, Restoring
  <2> QED
    BY <1>2, <2>4, <2>5, <2>6, EarlyShown DEF Early, Unpacking, tmpVars
<1> QED
  BY <1>1, <1>2 DEF d

LEMMA MoveShown ==
  ASSUME NEW j \in Jobs, Known(j), Move(j)
  PROVE  Moves(j) /\ Shown(j)
<1> USE DEF Move
<1>1. CASE Exit(j, "any") /\ (UNCHANGED faults \/ Fault)
  BY <1>1, EndShown DEF Codes
<1>2. CASE /\ store' = [store EXCEPT ![job[j].stamp].dat = upload]
           /\ Exit(j, "ok") /\ UNCHANGED faults
  <2>1. job[j].copy = upload /\ store[job[j].stamp].tag
    BY DEF Known, Reading, Keeps, Stored, Set
  <2>2. job[j].stamp \in Dates /\ store \in [Dates -> [dat: Files, tag: BOOLEAN]]
    BY DEF Known, JobType, TypeOK
  <2>3. store'[job[j].stamp].dat = upload /\ store'[job[j].stamp].tag
    BY <1>2, <2>1, <2>2
  <2>4. Moves(j) /\ job'[j] = [job[j] EXCEPT !.pc = "done", !.rc = "ok"]
    BY <1>2 DEF Known, Moves, JobType, Exit
  <2>5. /\ job'[j].pc = "done" /\ job'[j].kind = "import"
        /\ job'[j].stamp = job[j].stamp /\ job'[j].copy = job[j].copy
    BY <2>4 DEF Known, Keeps, Kinds, JobType
  <2>6. Keeps(j)'
    BY <2>1, <2>3, <2>5 DEF Keeps, Kinds, Stored, Set, Restored, Opened, Restoring
  <2>7. faults' = 0 => tar' = None
    BY <1>2 DEF Known, Unpacking, RestoreCleans
  <2> QED
    BY <2>4, <2>6, <2>7 DEF Shown
<1> QED
  BY <1>1, <1>2

LEMMA GunzipShown ==
  ASSUME NEW j \in Jobs, Known(j), Gunzip(j)
  PROVE  Moves(j) /\ Shown(j)
<1> USE DEF Gunzip, setVars
<1>1. Moves(j) /\ job'[j] = [job[j] EXCEPT !.pc = "untar"]
  BY DEF Known, Moves, JobType, Goto
<1>2. /\ job'[j].pc = "untar" /\ job'[j].kind = "restore"
      /\ job'[j].stamp = job[j].stamp
  BY <1>1 DEF Known, Keeps, Kinds, JobType, Restoring
<1>4. faults' <= 1 => tar' \in {Set(j).dat, None}
  <2>1. CASE gz # None /\ tar' = gz /\ UNCHANGED faults
    BY <2>1 DEF Known, Keeps, Restored
  <2>2. CASE gz = None /\ UNCHANGED faults
    BY <2>2, Constants DEF Known, Keeps, Restored
  <2>3. CASE Fault /\ tar' = tar
    BY <2>3, Constants DEF Known, Fault, Unpacking
  <2> QED
    BY <2>1, <2>2, <2>3
<1>5. Set(j)' = Set(j)
  BY <1>2 DEF Set
<1>6. Keeps(j)'
  BY <1>2, <1>4, <1>5 DEF Keeps, Kinds, Stored, Restored, Opened, Restoring
<1> QED
  BY <1>1, <1>2, <1>6 DEF Shown, Unpacking

LEMMA UntarShown ==
  ASSUME NEW j \in Jobs, Known(j), Untar(j)
  PROVE  Moves(j) /\ Shown(j)
<1> USE DEF Untar
<1>1. CASE tar \notin Archive
  BY <1>1, EndShown DEF Codes
<1>2. CASE tar \in Archive /\ Goto(j, "untarring") /\ UNCHANGED <<gz, tar, upload, faults>>
  <2>1. Moves(j) /\ job'[j] = [job[j] EXCEPT !.pc = "untarring"]
    BY <1>2 DEF Known, Moves, JobType, Goto
  <2>2. /\ job'[j].pc = "untarring" /\ job'[j].kind = "restore"
        /\ job'[j].stamp = job[j].stamp
    BY <2>1 DEF Known, Keeps, Kinds, JobType, Restoring
  <2>3. Set(j)' = Set(j)
    BY <2>2 DEF Set
  <2>4. faults <= 1 => tar = Set(j).dat
    BY <1>2, Constants DEF Known, Keeps, Restored
  <2>6. Keeps(j)'
    BY <1>2, <2>2, <2>3, <2>4 DEF Keeps, Kinds, Stored, Restored, Opened, Restoring
  <2> QED
    BY <2>1, <2>2, <2>6 DEF Shown, Unpacking
<1>3. CASE tar \in Archive /\ Fault /\ Exit(j, "untar")
  <2>1. Moves(j) /\ job'[j].pc = "done" /\ job'[j].rc = "untar"
    BY <1>3 DEF Known, Moves, JobType, Exit
  <2>2. faults' # 0
    BY <1>3, Constants DEF Known, Fault
  <2>3. Keeps(j)'
    BY <2>1 DEF Keeps, Kinds, Stored, Restored, Opened, Restoring
  <2> QED
    BY <2>1, <2>2, <2>3 DEF Shown
<1> QED
  BY <1>1, <1>2, <1>3

LEMMA OverParts ==
  ASSUME NEW c \in Configuration, NEW a, NEW hw
  PROVE  /\ Over(c, Parts(hw), a).port = a.port
         /\ Over(c, Parts(hw), a).format = a.format
         /\ hw => Over(c, Parts(hw), a).hw = a.hw
BY DEF Over, Parts, Configuration

LEMMA UntarredShown ==
  ASSUME NEW j \in Jobs, Known(j), Untarred(j)
  PROVE  Moves(j) /\ Shown(j)
<1> USE DEF Untarred
<1>1. tar \in Archive
  BY DEF Known, Keeps, Opened
<1>2. config' = Over(config, Parts(job[j].hw), tar) /\ Goto(j, "upgrade") /\ UNCHANGED <<tmpVars, upload>>
  BY <1>1
<1>3. Moves(j) /\ job'[j] = [job[j] EXCEPT !.pc = "upgrade"]
  BY <1>2 DEF Known, Moves, JobType, Goto
<1>4. /\ job'[j].pc = "upgrade" /\ job'[j].kind = "restore" /\ job'[j].hw = job[j].hw
      /\ job'[j].stamp = job[j].stamp
  BY <1>3 DEF Known, Keeps, Kinds, JobType, Restoring
<1>5. Set(j)' = Set(j)
  BY <1>4 DEF Set
<1>6. faults <= 1 => tar = Set(j).dat
  BY DEF Known, Keeps, Restored
<1>7. /\ config'.port = tar.port /\ config'.format = tar.format
      /\ job[j].hw => config'.hw = tar.hw
  BY <1>2, OverParts DEF Known, TypeOK
<1>8. Keeps(j)'
  BY <1>2, <1>4, <1>5, <1>6, <1>7
  DEF tmpVars, Keeps, Kinds, Stored, Restored, Opened, Restoring
<1> QED
  BY <1>3, <1>4, <1>8 DEF Shown, Unpacking

LEMMA UpgradeShown ==
  ASSUME NEW j \in Jobs, Known(j), Upgrade(j)
  PROVE  Moves(j) /\ Shown(j)
<1> USE DEF Upgrade
<1>1. CASE Fault /\ Exit(j, "any") /\ UNCHANGED config
  BY <1>1, EndShown DEF Codes
<1>2. CASE \/ config' = [config EXCEPT !.format = Upgraded(@)] /\ Exit(j, "ok") /\ UNCHANGED faults
           \/ Fault /\ Exit(j, "ok") /\ UNCHANGED config
  <2>1. Moves(j) /\ job'[j] = [job[j] EXCEPT !.pc = "done", !.rc = "ok"]
    BY <1>2 DEF Known, Moves, JobType, Exit
  <2>2. /\ job'[j].pc = "done" /\ job'[j].kind = "restore" /\ job'[j].hw = job[j].hw
        /\ job'[j].stamp = job[j].stamp
    BY <2>1 DEF Known, Keeps, Kinds, JobType, Restoring
  <2>3. Set(j)' = Set(j)
    BY <2>2 DEF Set
  <2>4. /\ config'.port = config.port /\ config'.hw = config.hw
        /\ config'.format \in {config.format, Upgraded(config.format)}
        /\ faults' = 0 => config'.format = Upgraded(config.format)
        /\ faults' <= 1 => faults <= 1
    BY <1>2, Constants DEF Known, TypeOK, Configuration, Fault
  <2>5. faults <= 1 =>
          /\ config.port = Set(j).dat.port /\ config.format = Set(j).dat.format
          /\ job[j].hw => config.hw = Set(j).dat.hw
    BY DEF Known, Keeps, Restored
  <2>6. Keeps(j)'
    BY <2>2, <2>3, <2>4, <2>5 DEF Keeps, Kinds, Stored, Restored, Opened, Restoring
  <2>7. tar' = None
    BY DEF RestoreCleans
  <2> QED
    BY <2>1, <2>6, <2>7 DEF Shown
<1> QED
  BY <1>1, <1>2

-----------------------------------------------------------------------------
LEMMA CallResults ==
  ASSUME ~Overlap, Inv, Results, NEW j \in Jobs, Call(j)
  PROVE  Results'
<1>1. CASE KeyGen(j)
  <2>1. \A k \in Jobs : job[k].pc = "idle" /\ job'[k] = job[k]
    BY <1>1 DEF KeyGen, Quiet
  <2>2. faults' = 0 => faults = 0
    BY <1>1, Constants DEF KeyGen, Fault, Inv, TypeInv, TypeOK
  <2>3. UNCHANGED <<tar, config>>
    BY <1>1 DEF KeyGen, tmpVars
  <2> QED
    BY <2>1, <2>2, <2>3 DEF Results, NothingLeft, Keeps, Kinds, Stored, Restored,
      Opened, Restoring, Unpacking
<1>2. CASE ~KeyGen(j)
  <2>1. Call(j) /\ ~KeyGen(j) => job[j].pc # "idle" \/ Quiet
    BY DEF Call, Reap, Kill, Write, Tar, Encrypt, Encrypted, Label, Restore, Import, Decrypt, Test,
         Tag, Move, Gunzip, Untar, Untarred, Upgrade
  <2>2. Known(j)
    BY <1>2, <2>1, KnownBefore
  <2>3. Moves(j) /\ Shown(j)
    BY <1>2, <2>2, ReapShown, WriteShown, TarShown, EncryptShown, EncryptedShown, LabelShown,
       BeginShown, DecryptShown, TestShown, TagShown, MoveShown, GunzipShown, UntarShown,
       UntarredShown, UpgradeShown DEF Call
  <2> QED
    BY <2>3, MovesKeep
<1> QED
  BY <1>1, <1>2

LEMMA NextResults ==
  ASSUME ~Overlap, Inv, Results, [Next]_vars
  PROVE  Results'
<1>1. CASE Edit \/ \E d \in Dates : Export(d) \/ Remove(d)
  <2>1. \A k \in Jobs : job[k].pc = "idle" /\ job'[k] = job[k]
    BY <1>1 DEF Edit, Export, Remove, Quiet
  <2>2. UNCHANGED <<tar, faults>>
    BY <1>1 DEF Edit, Export, Remove, tmpVars
  <2> QED
    BY <2>1, <2>2 DEF Results, NothingLeft, Keeps, Kinds, Stored, Restored,
      Opened, Restoring, Unpacking
<1>2. CASE UNCHANGED vars
  BY <1>2 DEF vars, Results, NothingLeft, Keeps, Kinds, Stored, Set, Restored,
     Opened, Restoring, Unpacking
<1> QED
  BY <1>1, <1>2, CallResults DEF Next

LEMMA ResultsInvariance == ASSUME ~Overlap PROVE Spec => []Results
<1>1. Init => Results
  BY DEF Init, Results, NothingLeft, Keeps, Kinds, Stored, Restored, Opened,
     Restoring, Idle
<1>2. Inv /\ Results /\ [Next]_vars => Results'
  BY NextResults
<1> QED
  BY <1>1, <1>2, Invariance, PTL DEF Spec

\* A call that reports success has done what it was asked: a backup or an import
\* however many commands failed and calls were killed before it, a restore as
\* long as that happened once at most, and then its data may be left as old as
\* they were (ipcopbkcfg.c:499-513, ipcoprestore.c:221-359).  After a second time
\* a restore need not have brought back its set: one that is killed leaves its
\* uncompressed archive, and the next one unpacks that when its own gunzip
\* fails, which it does not look at.
THEOREM SuccessIsTold == ASSUME ~Overlap PROVE Spec => []SuccessIsTrue
<1>1. Results => SuccessIsTrue
  BY DEF SuccessIsTrue, Set, Results, Keeps, Stored, Restored
<1> QED
  BY <1>1, ResultsInvariance, PTL

\* A backup or an import that reports success has left its set in the list,
\* complete and with its tag file, however many calls failed or were killed
\* before it (ipcopbkcfg.c:499-513, ipcoprestore.c:283-292).
THEOREM SetsAreStored ==
  ASSUME ~Overlap
  PROVE  Spec => [](\A j \in Jobs :
           job[j].pc = "done" /\ job[j].rc = "ok" /\ job[j].kind # "restore" =>
             store[job[j].stamp] = [dat |-> job[j].copy, tag |-> TRUE])
<1>1. Inv /\ Results =>
        \A j \in Jobs : job[j].pc = "done" /\ job[j].rc = "ok" /\ job[j].kind # "restore" =>
          store[job[j].stamp] = [dat |-> job[j].copy, tag |-> TRUE]
  BY DEF Inv, TypeInv, TypeOK, JobType, Results, Keeps, Stored, Set
<1> QED
  BY <1>1, Invariance, ResultsInvariance, PTL

=============================================================================
