------------------------------- MODULE Backup -------------------------------
(***************************************************************************)
(* Backup and restore of the configuration: ipcopbkcfg --write and         *)
(* --keygen, ipcoprestore --restore and --import, called by backup.cgi and *)
(* backupapi.cgi, with the upload, the download and the removal of a set.  *)
(*                                                                         *)
(* A job is one call of a helper.  It goes through its commands one by     *)
(* one, any of which may fail, and it may be killed between two of them:   *)
(* then its exit handler does not run.  The decrypted archive, its         *)
(* uncompressed form, the uploaded file and the tag file have fixed names, *)
(* so that all jobs share them.                                            *)
(***************************************************************************)
EXTENDS Integers, FiniteSets

CONSTANTS
  Jobs,       \* the calls that may run
  Overlap,    \* may a request come while a job runs?
  MaxStamp,   \* bound: backups written
  MaxFaults,  \* bound: commands that fail and jobs that are killed
  Ports,      \* values of GUIPORT in main/settings
  Hardware,   \* values of the files listed in exclude.hardware
  Own,        \* the version of this system
  Versions,   \* the versions considered, each <<major, minor, revision>>
  Foreign,    \* archives of other times that were encrypted with our key
  Past,       \* the dates 1, 0, ..., -Past are before this history
  None,       \* no file
  NoDate,     \* an archive without a tag file
  Torn        \* a file that openssl or tar refuses: cut short, other key

\* Dates of backups.
Dates == (0 - Past)..(1 + MaxStamp)

\* A backup of the configuration: the date and the version marker it holds,
\* the port in main/settings, the hardware files and the other files, of
\* which only the version of their format counts.
Archive ==
  [tag: Dates \cup {NoDate}, marker: Versions, port: Ports, hw: Hardware, format: Versions]
Files == Archive \cup {None, Torn}

ASSUME BackupAssumption ==
  /\ Own \in Versions
  /\ \A v \in Versions : v \in Nat \X (0..255) \X (0..255)
  /\ MaxStamp \in Nat /\ MaxFaults \in Nat /\ Past \in Nat
  /\ Overlap \in BOOLEAN
  /\ Foreign \subseteq Archive
  /\ None \notin Archive /\ Torn \notin Archive /\ None # Torn
  /\ NoDate \notin Dates

VARIABLES
  config,     \* the configuration under /etc and /var/ipcop
  key,        \* backup.key: "none", "empty" or "good"
  clock,      \* the date of the last backup
  store,      \* the sets: <host>-<date>.dat and its .dat.time
  upload,     \* <host>.dat, the file just uploaded
  exported,   \* the last set the user downloaded
  tagfile,    \* /var/ipcop/backup.dat.time
  gz, tar,    \* /tmp/<host>.tar.gz and /tmp/<host>.tar
  job,        \* the calls
  faults      \* commands failed and jobs killed so far

vars == <<config, key, clock, store, upload, exported, tagfile, gz, tar, job, faults>>
setVars == <<key, clock, store, upload, exported>>
tmpVars == <<tagfile, gz, tar>>

NoSet == [dat |-> None, tag |-> FALSE]

\* A call that is over, and what a call knows: its set, --hardware, its private
\* copy of the archive.
Idle == [pc |-> "idle", kind |-> "none", stamp |-> 0, hw |-> FALSE, copy |-> None,
         rc |-> "none"]

Init ==
  /\ config \in [port: Ports, hw: Hardware, format: {Own}]
  /\ key \in {"none", "good"}
  /\ clock = 1
  /\ store = [d \in Dates |-> NoSet]
  /\ upload = None /\ exported = None
  /\ tagfile = NoDate /\ gz = None /\ tar = None
  /\ job = [j \in Jobs |-> Idle]
  /\ faults = 0

----------------------------------------------------------------------------
\* Versions

Code(v) == v[1] * 65536 + v[2] * 256 + v[3]

\* Mutant: any newer version is taken.
VersionFitsNewer(v) == Code(v) >= Code(<<1, 9, 9>>)

\* testbackupversion: not older than 1.9.9, and not newer than this system
\* but for the revision.
VersionFits(v) ==
  /\ Code(v) >= Code(<<1, 9, 9>>)
  /\ Code(Own) >= Code(v) \/ Code(Own) \div 256 = Code(v) \div 256

\* Without a tag file the date is made from that of the newest file.
DateOf(a) == IF a.tag = NoDate THEN 0 ELSE a.tag

\* This system passes its own test.  The archives of other times were written
\* before this history, are known by their dates, which go to the second, and
\* come from systems that ran on data as good as their versions.
ASSUME ForeignAssumption ==
  /\ VersionFits(Own)
  /\ \A a \in Foreign : DateOf(a) <= 1
  /\ \A a, b \in Foreign : DateOf(a) = DateOf(b) => a = b
  /\ \A a \in Foreign : VersionFits(a.marker) => VersionFits(a.format)

\* The data of upgrade.sh: older formats become ours, newer ones stay.
Upgraded(v) == IF Code(v) < Code(Own) THEN Own ELSE v

----------------------------------------------------------------------------
\* The life of a call

Quiet == Overlap \/ \A j \in Jobs : job[j].pc = "idle"

Goto(j, pc) == job' = [job EXCEPT ![j].pc = pc]
Exit(j, rc) == job' = [job EXCEPT ![j].pc = "done", ![j].rc = rc]

\* exithandler of ipcopbkcfg: its other files have names of their own.
WriteCleans == tagfile' = NoDate /\ UNCHANGED <<gz, tar, upload>>

\* Mutant: the uncompressed archive is left behind.
RestoreCleansKeepsTar == gz' = None /\ upload' = None /\ UNCHANGED <<tagfile, tar>>

\* exithandler of ipcoprestore: it always removes the uploaded file.
RestoreCleans == gz' = None /\ tar' = None /\ upload' = None /\ UNCHANGED tagfile

\* A command fails: one fault more.
Fault == faults < MaxFaults /\ faults' = faults + 1

\* The page shows the result of a call.
Reap(j) ==
  /\ job[j].pc = "done"
  /\ job' = [job EXCEPT ![j] = Idle]
  /\ UNCHANGED <<config, setVars, tmpVars, faults>>

\* A call is killed.
Kill(j) ==
  /\ job[j].pc \notin {"idle", "done"}
  /\ Fault
  /\ job' = [job EXCEPT ![j] = Idle]
  /\ UNCHANGED <<config, setVars, tmpVars>>

----------------------------------------------------------------------------
\* ipcopbkcfg --write

\* Mutant: the date has no time of day, so that the next backup has it too.
WriteSameDay(j) ==
  /\ job[j].pc = "idle" /\ Quiet /\ key # "none"
  /\ job' = [job EXCEPT ![j].kind = "write", ![j].pc = "tar", ![j].stamp = clock]
  /\ tagfile' = clock
  /\ UNCHANGED <<gz, tar, config, setVars, faults>>

\* The date is taken, the tag file is written.
Write(j) ==
  /\ job[j].pc = "idle" /\ Quiet /\ clock <= MaxStamp
  /\ IF key = "none"
     THEN /\ job' = [job EXCEPT ![j].kind = "write", ![j].pc = "done", ![j].rc = "key"]
          /\ WriteCleans
          /\ UNCHANGED clock
     ELSE /\ clock' = clock + 1
          /\ job' = [job EXCEPT ![j].kind = "write", ![j].pc = "tar", ![j].stamp = clock + 1]
          /\ tagfile' = clock + 1
          /\ UNCHANGED <<upload, gz, tar>>
  /\ UNCHANGED <<config, key, store, exported, faults>>

\* The version marker is written, then tar and gzip read the configuration.
Tar(j) ==
  /\ job[j].kind = "write" /\ job[j].pc = "tar"
  /\ \/ /\ job' = [job EXCEPT
             ![j].copy = [tag |-> tagfile, marker |-> Own,
                          port |-> config.port, hw |-> config.hw, format |-> config.format],
             ![j].pc = "encrypt"]
        /\ UNCHANGED <<tmpVars, upload, faults>>
     \/ /\ Fault
        /\ Exit(j, "tar")
        /\ WriteCleans
  /\ UNCHANGED <<config, key, clock, store, exported>>

\* Mutant: the tag file is written before the set is complete.
EncryptLabelled(j) ==
  /\ job[j].kind = "write" /\ job[j].pc = "encrypt" /\ key = "good"
  /\ store' = [store EXCEPT ![job[j].stamp] = [dat |-> Torn, tag |-> TRUE]]
  /\ Goto(j, "encrypting")
  /\ UNCHANGED <<tmpVars, upload, config, key, clock, exported, faults>>

\* openssl creates the output file; an empty key stops it before that.
Encrypt(j) ==
  /\ job[j].kind = "write" /\ job[j].pc = "encrypt"
  /\ IF key = "good"
     THEN /\ store' = [store EXCEPT ![job[j].stamp].dat = Torn]
          /\ Goto(j, "encrypting")
          /\ UNCHANGED <<tmpVars, upload>>
     ELSE /\ Exit(j, "encrypt")
          /\ WriteCleans
          /\ UNCHANGED store
  /\ UNCHANGED <<config, key, clock, exported, faults>>

\* The output is complete, or it stays cut short under its final name.
Encrypted(j) ==
  /\ job[j].pc = "encrypting"
  /\ \/ /\ store' = [store EXCEPT ![job[j].stamp].dat = job[j].copy]
        /\ Goto(j, "label")
        /\ UNCHANGED <<tmpVars, upload, faults>>
     \/ /\ Fault
        /\ Exit(j, "encrypt")
        /\ WriteCleans
        /\ UNCHANGED store
  /\ UNCHANGED <<config, key, clock, exported>>

\* The tag file for the list of sets, then the end.
Label(j) ==
  /\ job[j].kind = "write" /\ job[j].pc = "label"
  /\ store' = [store EXCEPT ![job[j].stamp].tag = TRUE]
  /\ Exit(j, "ok")
  /\ WriteCleans
  /\ UNCHANGED <<config, key, clock, exported, faults>>

\* --keygen: a failing openssl leaves the file its shell created.
KeyGen(j) ==
  /\ job[j].pc = "idle" /\ Quiet /\ key = "none"
  /\ \/ key' = "good" /\ UNCHANGED faults
     \/ key' = "empty" /\ Fault
  /\ UNCHANGED <<config, clock, store, upload, exported, tmpVars, job>>

----------------------------------------------------------------------------
\* ipcoprestore

\* The file to decrypt.
Source(j) == IF job[j].kind = "import" THEN upload ELSE store[job[j].stamp].dat

\* --restore: the set must exist, and the key; the exit handler is set after.
Restore(j, s, hw) ==
  /\ job[j].pc = "idle" /\ Quiet /\ store[s].dat # None
  /\ job' = [job EXCEPT ![j].kind = "restore", ![j].stamp = s, ![j].hw = hw,
                        ![j].pc = IF key = "none" THEN "done" ELSE "decrypt",
                        ![j].rc = IF key = "none" THEN "decrypt" ELSE "none"]
  /\ UNCHANGED <<config, setVars, tmpVars, faults>>

\* The page copies the upload, then calls --import.
Import(j) ==
  /\ job[j].pc = "idle" /\ Quiet
  /\ upload' \in (Foreign \cup {exported, Torn}) \ {None}
  /\ job' = [job EXCEPT ![j].kind = "import",
                        ![j].pc = IF key = "none" THEN "done" ELSE "decrypt",
                        ![j].rc = IF key = "none" THEN "decrypt" ELSE "none"]
  /\ UNCHANGED <<config, key, clock, store, exported, tmpVars, faults>>

Decrypt(j) ==
  /\ job[j].pc = "decrypt"
  /\ IF key = "good" /\ Source(j) \in Archive
     THEN gz' = Source(j) /\ Goto(j, "test") /\ UNCHANGED <<tar, tagfile, upload>>
     ELSE Exit(j, "decrypt") /\ RestoreCleans
  /\ UNCHANGED <<config, key, clock, store, exported, faults>>

\* The archive is unpacked into a directory of our own, its version tested.
Test(j) ==
  /\ job[j].pc = "test"
  /\ IF gz \notin Archive THEN Exit(j, "untartst") /\ RestoreCleans
     ELSE IF ~VersionFits(gz.marker) THEN Exit(j, "version") /\ RestoreCleans
     ELSE /\ job' = [job EXCEPT ![j].copy = gz,
                                ![j].pc = IF job[j].kind = "import" THEN "tag" ELSE "gunzip"]
          /\ UNCHANGED <<tmpVars, upload>>
  /\ UNCHANGED <<config, key, clock, store, exported, faults>>

\* --import: the tag file comes from the archive or is made.
Tag(j) ==
  /\ job[j].pc = "tag"
  /\ LET d == DateOf(job[j].copy)
     IN \/ /\ store' = [store EXCEPT ![d].tag = TRUE]
           /\ job' = [job EXCEPT ![j].stamp = d, ![j].pc = "move"]
           /\ UNCHANGED <<tmpVars, upload, faults>>
        \/ Fault /\ Exit(j, "any") /\ RestoreCleans /\ UNCHANGED store
  /\ UNCHANGED <<config, key, clock, exported>>

\* "backup is valid, move to a name with date"
Move(j) ==
  /\ job[j].pc = "move"
  /\ \/ /\ upload # None
        /\ store' = [store EXCEPT ![job[j].stamp].dat = upload]
        /\ Exit(j, "ok")
        /\ UNCHANGED faults
     \/ /\ IF upload = None THEN UNCHANGED faults ELSE Fault
        /\ Exit(j, "any")
        /\ UNCHANGED store
  /\ RestoreCleans
  /\ UNCHANGED <<config, key, clock, exported>>

\* --restore: the archive is uncompressed, whatever gunzip says.
Gunzip(j) ==
  /\ job[j].pc = "gunzip"
  /\ \/ /\ gz # None /\ tar' = gz /\ gz' = None
        /\ UNCHANGED faults
     \/ /\ IF gz = None THEN UNCHANGED faults ELSE Fault
        /\ UNCHANGED <<gz, tar>>
  /\ Goto(j, "untar")
  /\ UNCHANGED <<config, setVars, tagfile>>

\* The parts of the configuration that tar replaces.
Parts(hw) == {"port", "format"} \cup (IF hw THEN {"hw"} ELSE {})

\* Mutant: nothing is excluded.
OverExcludesNothing(c, parts, a) == a

\* The configuration with some parts from an archive.
Over(c, parts, a) == [p \in DOMAIN c |-> IF p \in parts THEN a[p] ELSE c[p]]

\* Some parts are unpacked, then the others; a failure leaves it at that.
Untar(j) ==
  /\ job[j].pc = "untar"
  /\ IF tar \in Archive
     THEN \E parts \in SUBSET Parts(job[j].hw) :
            /\ config' = Over(config, parts, tar)
            /\ tagfile' = tar.tag
            /\ \/ Goto(j, "untarring") /\ UNCHANGED <<gz, tar, upload, faults>>
               \/ Fault /\ Exit(j, "untar") /\ gz' = None /\ tar' = None /\ upload' = None
     ELSE /\ Exit(j, "untar") /\ RestoreCleans
          /\ UNCHANGED <<config, faults>>
  /\ UNCHANGED <<key, clock, store, exported>>

\* setreservedports.pl, called for another port than before, writes the port
\* that main/settings already has; of the files it edits besides, the web
\* server of this system has none.
Untarred(j) ==
  /\ job[j].pc = "untarring"
  /\ IF tar \in Archive
     THEN config' = Over(config, Parts(job[j].hw), tar) /\ Goto(j, "upgrade")
          /\ UNCHANGED <<tmpVars, upload>>
     ELSE Exit(j, "untar") /\ RestoreCleans /\ UNCHANGED config
  /\ UNCHANGED <<key, clock, store, exported, faults>>

\* upgrade.sh, the end of a restore.  It goes on after a command that failed and
\* returns the status of its last one: data that were not upgraded are reported
\* or not.
Upgrade(j) ==
  /\ job[j].pc = "upgrade"
  /\ \/ config' = [config EXCEPT !.format = Upgraded(@)] /\ Exit(j, "ok") /\ UNCHANGED faults
     \/ \E rc \in {"ok", "any"} : Fault /\ Exit(j, rc) /\ UNCHANGED config
  /\ RestoreCleans
  /\ UNCHANGED <<key, clock, store, exported>>

----------------------------------------------------------------------------
\* The user

\* GUIPORT is changed with setreservedports.pl --gui, the cards with setup.
Edit ==
  /\ Quiet
  /\ \/ \E p \in Ports : config' = [config EXCEPT !.port = p]
     \/ \E h \in Hardware : config' = [config EXCEPT !.hw = h]
  /\ UNCHANGED <<setVars, tmpVars, job, faults>>

Export(d) ==
  /\ Quiet /\ store[d].dat # None
  /\ exported' = store[d].dat
  /\ UNCHANGED <<config, key, clock, store, upload, tmpVars, job, faults>>

Remove(d) ==
  /\ Quiet /\ store[d] # NoSet
  /\ store' = [store EXCEPT ![d] = NoSet]
  /\ UNCHANGED <<config, key, clock, upload, exported, tmpVars, job, faults>>

Call(j) ==
  \/ Reap(j) \/ Kill(j)
  \/ Write(j) \/ Tar(j) \/ Encrypt(j) \/ Encrypted(j) \/ Label(j) \/ KeyGen(j)
  \/ \E d \in Dates, hw \in BOOLEAN : Restore(j, d, hw)
  \/ Import(j) \/ Decrypt(j) \/ Test(j) \/ Tag(j) \/ Move(j)
  \/ Gunzip(j) \/ Untar(j) \/ Untarred(j) \/ Upgrade(j)

Next ==
  \/ \E j \in Jobs : Call(j)
  \/ Edit
  \/ \E d \in Dates : Export(d) \/ Remove(d)

Spec == Init /\ [][Next]_vars

----------------------------------------------------------------------------
\* Properties

Configuration == [port: Ports, hw: Hardware, format: Versions]

TypeOK ==
  /\ config \in Configuration
  /\ key \in {"none", "empty", "good"}
  /\ clock \in 1..(1 + MaxStamp)
  /\ store \in [Dates -> [dat: Files, tag: BOOLEAN]]
  /\ upload \in Files /\ exported \in Files /\ gz \in Files /\ tar \in Files
  /\ tagfile \in Dates \cup {NoDate}
  /\ faults \in 0..MaxFaults

\* A set in the list that has its tag file is complete, and holds the date of
\* its name: a backup that was cut short never gets one (ipcopbkcfg.c:499-513,
\* ipcoprestore.c:221-291).
SetsComplete ==
  \A d \in Dates :
    store[d].tag /\ store[d].dat # None =>
      store[d].dat \in Archive /\ (store[d].dat.tag = d \/ store[d].dat.tag = NoDate)

\* The order of versions.
Before(v, w) == \E i \in DOMAIN v : v[i] < w[i] /\ \A k \in 1..(i - 1) : v[k] = w[k]

\* The system never runs on data older than 1.9.9, for which upgrade.sh has no
\* steps, nor on data of a later minor version, whatever is uploaded and
\* wherever a restore stops (helper_backup.c:35-71).
FormatFits ==
  /\ ~Before(config.format, <<1, 9, 9>>)
  /\ ~Before(<<Own[1], Own[2]>>, <<config.format[1], config.format[2]>>)

\* A call that reports success has done what it was asked.  A backup or an
\* import left a complete set with its tag file, whatever failed before
\* (ipcopbkcfg.c:499-513, ipcoprestore.c:283-292).  A restore, while no more than
\* one command failed or one call was killed, brought back the set that was
\* chosen, the cards if asked; without a fault its data are upgraded, with one
\* that may be missing, as upgrade.sh does not tell (ipcoprestore.c:294-359).
SuccessIsTrue ==
  \A j \in Jobs : job[j].pc = "done" /\ job[j].rc = "ok" =>
    LET set == store[job[j].stamp]
    IN IF job[j].kind = "restore"
       THEN faults <= 1 =>
              /\ config.port = set.dat.port
              /\ job[j].hw => config.hw = set.dat.hw
              /\ config.format \in {set.dat.format, Upgraded(set.dat.format)}
              /\ faults = 0 => config.format = Upgraded(set.dat.format)
       ELSE set.tag /\ set.dat = job[j].copy

\* A complete set stays as it is until the user removes it: no backup and no
\* import, failing or not, puts another file in its place.
GoodSetsStay ==
  [][\A d \in Dates : store[d].dat \in Archive =>
       store'[d].dat = store[d].dat \/ store'[d] = NoSet]_vars
=============================================================================
