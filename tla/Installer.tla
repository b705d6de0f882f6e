----------------------------- MODULE Installer -----------------------------
(***************************************************************************)
(* The installer, from the choice of a language to the halt: hardware      *)
(* scan, choice of the source and of the target disk, partitions,          *)
(* packages, boot loader, restore of a backup or setup.  The user may      *)
(* press any button of every window, and every command the installer runs  *)
(* may fail.                                                               *)
(*                                                                         *)
(* Windows and messages are left out, the final one excepted.  Setup is    *)
(* one step here; module NetSetup has its windows.                         *)
(***************************************************************************)
EXTENDS Preferences, HardwareScan, FiniteSets

CONSTANTS
  Ide,        \* the names of the IDE drives, in the order of their scan
  Disks,      \* the drives sda, sdb, ...: disks and USB keys
  Cds,        \* the drives sr0, sr1, ...
  Media,      \* what an IDE drive says it is: "disk", "cdrom" or other
  Size,       \* the size of each drive in MiB
  Machines,   \* the machines considered, see MachineType
  Options,    \* the kernel command lines considered, see Preferences
  LangList,   \* the lines of language.lst
  Keymaps, Zones,   \* keyboard maps and time zones the user may choose
  NoDrive

IdeDrives == {Ide[i] : i \in DOMAIN Ide}
Drives == IdeDrives \cup Disks \cup Cds

\* late: drives that have not settled.  needs: the modules without which the
\* kernel does not see a drive, kernel: those it has loaded before the scan.
\* medium: the drives that hold our packages, backup: those that hold a backup
\* with its key.
MachineType ==
  [drives: SUBSET Drives, late: SUBSET Drives, medium: SUBSET Drives, backup: SUBSET Drives,
   needs: [Drives -> SUBSET STRING], kernel: SUBSET STRING, devices: SUBSET DeviceType,
   online: BOOLEAN, mdadm: BOOLEAN, arch: {"i386", "x86_64"}, memory: Nat, maps: BOOLEAN]

ASSUME InstallerAssumption ==
  /\ Media \in [IdeDrives -> {"disk", "cdrom", "other"}]
  /\ Size \in [Drives -> Nat]
  /\ \A m \in Machines : m \in MachineType
  /\ \A o \in Options : o \in OptionType
  /\ \A i \in DOMAIN LangList : LangList[i] \in Line
  /\ "default" \in Keymaps /\ "default" \in Zones
  /\ NoDrive \notin Drives

VARIABLES
  machine,    \* the computer: what is plugged in, what holds our packages
  opts,       \* the kernel command line
  pref,       \* selected_lang, keymap_setting and timezone_setting
  late,       \* the drives that have not settled yet
  kernel,     \* the modules loaded in the running kernel
  pc,         \* the window or the stage
  list,       \* the hardware list: the drives found with their type
  modules,    \* the special modules in the hardware list
  source,     \* medium_sources and the drive mounted at /cdrom
  net,        \* itf_name and local_IP of the network install
  choice,     \* the state of selectdestination
  agreed,     \* history: the disks the user agreed to have erased
  erased,     \* history: the disks written to
  plan,       \* sizes of the partitions, DiskPlan
  done,       \* history: the stages completed
  boots,      \* the disks with boot code
  repos,      \* etc/apk/repositories of the target
  initramfs,  \* the modules in the initial RAM disk of the target
  settings,   \* main/settings of the target: where it is from, what it says
  key,        \* backup.key of the target: none, bad or good
  restored,   \* restore_success
  told        \* the last message before the halt

boxVars == <<machine, opts>>
scanVars == <<late, kernel, list, modules>>
fromVars == <<source, net>>
toVars == <<choice, agreed>>
diskVars == <<erased, plan, done, boots, repos, initramfs>>
endVars == <<settings, key, restored, told>>
vars == <<boxVars, pref, scanVars, pc, fromVars, toVars, diskVars, endVars>>

How == [installing |-> TRUE, nopcmcia |-> opts.nopcmcia, nousb |-> opts.nousb]

NoSource == [medium |-> "none", drive |-> NoDrive]
NoChoice == [raid |-> 0, d1 |-> NoDrive, d2 |-> NoDrive, size |-> 0, target |-> "harddisk"]

Targets == {d \in DOMAIN list : list[d] = "harddisk"}
Chosen == {choice.d1, choice.d2} \ {NoDrive}
Raid == choice.d2 # NoDrive

Init ==
  /\ machine \in Machines
  /\ opts \in Options
  /\ pref = [lang |-> NoLanguage, keymap |-> "unset", zone |-> "unset"]
  /\ late = machine.late /\ kernel = machine.kernel
  /\ pc = "language"
  /\ list = <<>> /\ modules = {}
  /\ source = NoSource
  /\ net = [itf |-> "none", ip |-> opts.ip]
  /\ choice = NoChoice
  /\ agreed = {} /\ erased = {} /\ done = {} /\ boots = {}
  /\ plan = Plan(FALSE, DISK_MINIMUM, FALSE, -1)
  /\ repos = {} /\ initramfs = {}
  /\ settings = [from |-> "package", lang |-> NoLanguage, keymap |-> "unset", zone |-> "unset"]
  /\ key = "none"
  /\ restored = TRUE          \* int restore_success = SUCCESS
  /\ told = "nothing"

-----------------------------------------------------------------------------
(* language.c, keymap.c, timezone.c *)

HandleLanguage ==
  /\ pc = "language"
  /\ \E lang \in Languages(LangList, opts.lang) : pref' = [pref EXCEPT !.lang = lang]
  /\ pc' = "welcome"
  /\ UNCHANGED <<boxVars, scanVars, fromVars, toVars, diskVars, endVars>>

Welcome ==
  /\ pc = "welcome"
  /\ pc' \in {"keymap", "exit"}
  /\ UNCHANGED <<boxVars, pref, scanVars, fromVars, toVars, diskVars, endVars>>

\* Skip stores the choice that is highlighted, like OK; on a serial console
\* there is no question.
HandleKeymap ==
  /\ pc = "keymap"
  /\ \E map \in IF opts.serial THEN {"default"} ELSE Keymaps :
       pref' = IF machine.maps THEN [pref EXCEPT !.keymap = map] ELSE pref
  /\ pc' = "timezone"
  /\ UNCHANGED <<boxVars, scanVars, fromVars, toVars, diskVars, endVars>>

HandleTimezone ==
  /\ pc = "timezone"
  /\ \E zone \in Zones :
       pref' = IF machine.maps THEN [pref EXCEPT !.zone = zone] ELSE pref
  /\ pc' = "scan"
  /\ UNCHANGED <<boxVars, scanVars, fromVars, toVars, diskVars, endVars>>

-----------------------------------------------------------------------------
(* hardware.c *)

\* The drives the kernel can see.
Seen == {d \in machine.drives \ late : machine.needs[d] \subseteq kernel}

\* The type of an IDE drive.  The variable keeps its value from drive to drive,
\* so that a tape or a floppy drive is what the last drive before it is.
IdeType(d, there) ==
  LET known == {i \in DOMAIN Ide : /\ Ide[i] \in there /\ Media[Ide[i]] # "other"
                                   /\ \E j \in DOMAIN Ide : Ide[j] = d /\ i <= j}
      last == CHOOSE i \in known : \A j \in known : j <= i
  IN  IF known = {} THEN "none"
      ELSE IF Media[Ide[last]] = "disk" THEN "harddisk" ELSE "cdrom"

DriveType(d, there) ==
  IF d \in Cds THEN "cdrom"
  ELSE IF d \in IdeDrives THEN IdeType(d, there)
  ELSE IF Size[d] < 32 THEN "none"
  ELSE IF Size[d] < DISK_MINIMUM THEN "cdrom" ELSE "harddisk"

\* Mutant: IDE drives of an unknown kind are listed as well.
FoundUnknown ==
  [d \in DOMAIN list \cup Seen |->
     IF d \in DOMAIN list THEN list[d] ELSE DriveType(d, Seen)]

\* What scanprocdrives adds; a drive that is in the list stays as it is.
Found ==
  LET new == {d \in Seen : DriveType(d, Seen) # "none"}
  IN  [d \in DOMAIN list \cup new |->
         IF d \in DOMAIN list THEN list[d] ELSE DriveType(d, Seen)]

\* modprobe by hand, of a module some drive needs: one that loads is listed.
Load ==
  /\ \E d \in machine.drives : \E module \in machine.needs[d] :
       kernel' = kernel \cup {module} /\ modules' = modules \cup {module}
  /\ UNCHANGED late

\* The busses, once.  The modules found are listed and left to the kernel to
\* load, but for two of those that go with a kind of controller; the command to
\* load the third, ide-gd_mod, is made and not run.
ScanBusses ==
  /\ pc = "scan"
  /\ modules' = SpecialModules(machine.devices, How)
  /\ kernel' = kernel \cup (KindModules(machine.devices, How) \ {"ide-gd_mod"})
  /\ pc' = IF opts.modules THEN "modules" ELSE "drives"
  /\ UNCHANGED <<boxVars, pref, late, list, fromVars, toVars, diskVars, endVars>>

\* The window of the option modules, until it is done.
ManualModule ==
  /\ pc = "modules"
  /\ \/ UNCHANGED pc /\ Load
     \/ pc' = "drives" /\ UNCHANGED <<late, kernel, modules>>
  /\ UNCHANGED <<boxVars, pref, list, fromVars, toVars, diskVars, endVars>>

ScanDrives ==
  /\ pc = "drives"
  /\ list' = Found
  /\ pc' = IF \E d \in DOMAIN list' : list'[d] = "harddisk" THEN "source" ELSE "nodisk"
  /\ UNCHANGED <<boxVars, pref, late, kernel, modules, fromVars, toVars, diskVars, endVars>>

\* No disk was found: drives settle and are looked for again, after a module
\* was loaded by hand or not, or the user gives up.
Rescan ==
  /\ pc = "nodisk"
  /\ \/ pc' = "drives" /\ late' \in SUBSET late /\ UNCHANGED <<kernel, modules>>
     \/ pc' = "drives" /\ Load
     \/ pc' = "exit" /\ UNCHANGED <<late, kernel, modules>>
  /\ UNCHANGED <<boxVars, pref, list, fromVars, toVars, diskVars, endVars>>

-----------------------------------------------------------------------------
(* The source of the packages *)

\* The drives source_cdrom looks at, and that hold our packages.
Carriers ==
  {d \in DOMAIN list :
     /\ list[d] = "cdrom" \/ (list[d] = "harddisk" /\ d \in Disks)
     /\ d \in machine.medium}

\* Mutant: the key the packages come from stays a possible target.
MountCdromKeepsType(from) ==
  \E d \in Carriers :
    /\ source' = [medium |-> "cdrom", drive |-> d]
    /\ pc' = "target"
    /\ pc = from
    /\ UNCHANGED list

\* The medium is found and mounted; a USB key is no target any more.
MountCdrom(from) ==
  \E d \in Carriers :
    /\ pc = from
    /\ source' = [medium |-> "cdrom", drive |-> d]
    /\ list' = [list EXCEPT ![d] = "cdrom"]
    /\ pc' = "target"

SourceBoot ==
  /\ pc = "source"
  /\ \/ BootMedium(opts) \in {"cdrom", "usb"} /\ MountCdrom("source")
     \/ pc' = "menu" /\ UNCHANGED <<source, list>>
  /\ UNCHANGED <<boxVars, pref, late, kernel, modules, net, toVars, diskVars, endVars>>

SourceCdrom ==
  /\ MountCdrom("menu")
  /\ UNCHANGED <<boxVars, pref, late, kernel, modules, net, toVars, diskVars, endVars>>

\* find_boot_itf, when an address is known: without BOOTIF the empty address
\* it looks for is that of the interface after the last one.
BootItf(n) ==
  IF ~n.ip THEN n
  ELSE CASE opts.bootif = "a card" -> [n EXCEPT !.itf = "card"]
         [] opts.bootif = "absent" -> [n EXCEPT !.itf = "missing"]
         [] OTHER -> n

\* Every card in turn; a lease may lack the address.
ByDhcp(n) ==
  {n} \cup IF ~n.ip \/ CodePath(opts) = 1
           THEN {[n EXCEPT !.itf = "card"], [itf |-> "card", ip |-> TRUE]} ELSE {}

\* The user may pick a card.  The address typed in after that only gets as far
\* as the settings.
ByHand(n) ==
  {n} \cup IF ~n.ip \/ CodePath(opts) = 2 THEN {[n EXCEPT !.itf = "card"]} ELSE {}

\* source_network: ifconfig needs an interface and an address; after that the
\* address may be taken, and the server asked for may not answer.
SourceNetwork ==
  /\ pc = "menu"
  /\ NetworkCards(machine.devices, How) # {}
  /\ net' \in UNION {ByHand(n) : n \in ByDhcp(BootItf(net))}
  /\ \/ /\ net' = [itf |-> "card", ip |-> TRUE]
        /\ source' = [medium |-> "network", drive |-> NoDrive]
        /\ pc' = "target"
     \/ UNCHANGED <<pc, source>>
  /\ UNCHANGED <<boxVars, pref, scanVars, toVars, diskVars, endVars>>

SourceCancel ==
  /\ pc = "menu"
  /\ pc' = "exit"
  /\ UNCHANGED <<boxVars, pref, scanVars, fromVars, toVars, diskVars, endVars>>

-----------------------------------------------------------------------------
(* selectdestination *)

\* OK in an empty menu: the name chosen is a null pointer.
PickNothing ==
  /\ pc = "target"
  /\ Targets = {}
  /\ pc' = "crashed"
  /\ UNCHANGED <<boxVars, pref, scanVars, fromVars, toVars, diskVars, endVars>>

PickRaid ==
  /\ pc = "target" /\ choice.raid = 0
  /\ Cardinality(Targets) >= 2 /\ machine.mdadm
  /\ choice' = [NoChoice EXCEPT !.raid = 1]
  /\ UNCHANGED <<boxVars, pref, scanVars, fromVars, agreed, pc, diskVars, endVars>>

\* Mutant: the size of the second disk counts, not that of the smaller one.
PickDiskLastSize(d) ==
  /\ pc = "target" /\ d \in Targets \ {choice.d1}
  /\ choice' = IF Size[d] < DISK_MINIMUM THEN NoChoice
               ELSE IF choice.raid = 2 THEN [choice EXCEPT !.d2 = d, !.size = Size[d]]
               ELSE [choice EXCEPT !.d1 = d, !.size = Size[d],
                                   !.raid = IF @ = 1 THEN 2 ELSE 0]
  /\ pc' = IF choice.raid # 1 /\ choice'.d1 # NoDrive THEN "confirm" ELSE "target"
  /\ UNCHANGED <<boxVars, pref, scanVars, fromVars, agreed, diskVars, endVars>>

\* A disk is chosen: the only one, or the first or second of a RAID.  One that
\* is too small starts the choice again.
PickDisk(d) ==
  /\ pc = "target" /\ d \in Targets \ {choice.d1}
  /\ LET size == IF choice.raid = 2 /\ choice.size < Size[d] THEN choice.size ELSE Size[d]
     IN  choice' = IF Size[d] < DISK_MINIMUM THEN NoChoice
                   ELSE IF choice.raid = 2 THEN [choice EXCEPT !.d2 = d, !.size = size]
                   ELSE [choice EXCEPT !.d1 = d, !.size = size,
                                       !.raid = IF @ = 1 THEN 2 ELSE 0]
  /\ pc' = IF choice.raid # 1 /\ choice'.d1 # NoDrive THEN "confirm" ELSE "target"
  /\ UNCHANGED <<boxVars, pref, scanVars, fromVars, agreed, diskVars, endVars>>

\* Cancel ends the installation, Go back in a RAID starts the choice again.
PickCancel ==
  /\ pc = "target"
  /\ pc' = IF choice.raid = 0 THEN "exit" ELSE "target"
  /\ choice' = NoChoice
  /\ UNCHANGED <<boxVars, pref, scanVars, fromVars, agreed, diskVars, endVars>>

Confirm ==
  /\ pc = "confirm"
  /\ \/ pc' = "kind" /\ agreed' = Chosen /\ UNCHANGED choice
     \/ pc' = "target" /\ choice' = NoChoice /\ UNCHANGED agreed
  /\ UNCHANGED <<boxVars, pref, scanVars, fromVars, diskVars, endVars>>

\* Harddisk or flash, or back to the choice of a disk; flash takes 96 MiB of
\* memory, and the size asked for its RAM disk is not followed further.  The
\* size given with disk= is applied to the result.
Kind ==
  /\ pc = "kind"
  /\ \/ pc' = "target" /\ choice' = NoChoice /\ UNCHANGED plan
     \/ \E target \in {"harddisk"} \cup IF machine.memory >= 90 THEN {"flash"} ELSE {} :
          LET user == DiskLimit(opts) < choice.size
              size == AtMost(DiskLimit(opts), choice.size)
          IN  /\ choice' = [choice EXCEPT !.target = target]
              /\ plan' = Plan(target = "flash", size, user, SwapWish(opts))
              /\ pc' = "partition"
  /\ UNCHANGED <<boxVars, pref, scanVars, fromVars, agreed, erased, done, boots, repos,
                 initramfs, endVars>>

-----------------------------------------------------------------------------
(* partition.c: every failure ends the installation, nothing is undone *)

Stage(from, to) ==
  /\ pc = from
  /\ \/ pc' = to /\ done' = done \cup {from}
     \/ pc' = "exit" /\ UNCHANGED done
  /\ UNCHANGED <<boxVars, pref, scanVars, fromVars, toVars, plan, key, restored, told>>

\* make_partitions.  Manual partitioning is left to the user, the RAID too.
Partition ==
  /\ Stage("partition", IF Raid /\ ~opts.manual THEN "raid" ELSE "format")
  /\ erased' \in {erased \cup part : part \in
                    IF opts.manual THEN {{}}
                    ELSE IF pc' = "exit" THEN SUBSET Chosen ELSE {Chosen}}
  /\ UNCHANGED <<boots, repos, initramfs, settings>>

CreateRaid ==
  /\ Stage("raid", "format")
  /\ UNCHANGED <<erased, boots, repos, initramfs, settings>>

\* Filesystems made and mounted, and the package database created.
Format ==
  /\ Stage("format", "repos")
  /\ erased' = erased \cup Chosen
  /\ UNCHANGED <<boots, repos, initramfs, settings>>

\* The bundled repository is bind mounted for CDROM installs.
Bundled == source.medium = "cdrom"

\* The repository written to the file when the Alpine server answers, and when
\* it does not: apk_configure_repos takes the result of apk_check_network for
\* a Boolean, but SUCCESS is 0.
ConfigureRepos ==
  /\ Stage("repos", "indexes")
  /\ repos' = {"bundled"} \cup (IF machine.online THEN {} ELSE {"alpine"})
  /\ UNCHANGED <<erased, boots, initramfs, settings>>

Reachable ==
  (IF Bundled THEN {"bundled"} ELSE {}) \cup (IF machine.online THEN {"alpine"} ELSE {})

\* apk update, an error when one of the repositories cannot be read.
UpdateIndexes ==
  /\ Stage("indexes", "packages")
  /\ pc' = "packages" => repos \subseteq Reachable
  /\ UNCHANGED <<erased, boots, repos, initramfs, settings>>

\* The Alpine packages, where failures only give a warning, then ours.
InstallPackages ==
  /\ Stage("packages", IF plan.swap # 0 THEN "swap" ELSE "initramfs")
  /\ pc' # "exit" => Bundled
  /\ UNCHANGED <<erased, boots, repos, initramfs, settings>>

Swapfile ==
  /\ Stage("swap", "initramfs")
  /\ UNCHANGED <<erased, boots, repos, initramfs, settings>>

\* fstab and mdadm.conf, and the initial RAM disk.
Initramfs ==
  /\ Stage("initramfs", "boot")
  /\ initramfs' = IF pc' = "exit" THEN {} ELSE InitramfsModules(modules, Raid)
  /\ UNCHANGED <<erased, boots, repos, settings>>

\* extlinux and the boot code; only the i386 build of the installer has them.
MakeBootable ==
  /\ Stage("boot", "settings")
  /\ boots' \in IF machine.arch # "i386" \/ opts.nombr THEN {{}}
                ELSE IF pc' = "exit" THEN {{}, {choice.d1}} ELSE {Chosen}
  /\ UNCHANGED <<erased, repos, initramfs, settings>>

-----------------------------------------------------------------------------
(* The end of main, and restore.c *)

\* write_lang_configs, write_keymap and write_timezone: a keyboard map that
\* was not chosen is not written.
WriteSettings ==
  /\ pc = "settings"
  /\ settings' = [from |-> "installer", lang |-> pref.lang, zone |-> pref.zone,
                  keymap |-> IF pref.keymap = "unset" THEN settings.keymap ELSE pref.keymap]
  /\ pc' = "restore"
  /\ UNCHANGED <<boxVars, pref, scanVars, fromVars, toVars, diskVars, key, restored, told>>

\* The drives with the key and the data of a backup.
KeyDrives == (Seen \cap machine.backup \cap Disks) \ erased

\* How far an attempt gets.  A floppy needs no key: its files are unpacked aside
\* and looked at; when they are found good they are copied and upgraded, and
\* neither cp nor upgrade.sh is asked how far it got.
FloppySteps == {"nothing", "checked", "part", "all"}

\* The key is decrypted straight to its place, the wrong password leaves a bad
\* one; then the data may not be there or not fit, or be unpacked in part.
KeySteps == {"nothing", "password", "key", "part", "all"}

Steps(from) ==
  CASE from = "floppy" -> FloppySteps
    [] from = "usb" /\ KeyDrives = {} -> {"nothing"}
    [] from = "usb" /\ KeyDrives # {} -> KeySteps
    [] from = "network" -> IF source.medium = "network" THEN KeySteps ELSE {}

KeyAfter(from, step) ==
  IF from = "floppy" \/ step = "nothing" THEN key
  ELSE IF step = "password" THEN "bad" ELSE "good"

Succeeds(from, step) ==
  IF from = "floppy" THEN step # "nothing" ELSE step = "all"

\* handlerestore: the window comes again until an attempt succeeds.  From the
\* network only if the packages came from there.
Attempt(from) ==
  /\ pc = "restore"
  /\ \E step \in Steps(from) :
       /\ restored' = Succeeds(from, step)
       /\ pc' = IF Succeeds(from, step) THEN "congratulate" ELSE "restore"
       /\ done' = done \cup (IF ~Succeeds(from, step) THEN {}
                           ELSE {IF from = "floppy" THEN "copied" ELSE "restored"})
       /\ key' = KeyAfter(from, step)
       /\ settings' = [settings EXCEPT !.from = IF step = "all" THEN "backup"
                                               ELSE IF step = "part" THEN "part" ELSE @]
  /\ UNCHANGED <<boxVars, pref, scanVars, fromVars, toVars, erased, plan, boots, repos,
                 initramfs, told>>

\* Mutant: Skip keeps the result from before, as if nothing had been tried.
SkipRestoreKeeps ==
  /\ pc = "restore"
  /\ pc' = "congratulate"
  /\ UNCHANGED <<boxVars, pref, scanVars, fromVars, toVars, diskVars, settings, key, restored, told>>

SkipRestore ==
  /\ pc = "restore"
  /\ pc' = "congratulate"
  /\ restored' = FALSE
  /\ UNCHANGED <<boxVars, pref, scanVars, fromVars, toVars, diskVars, settings, key, told>>

\* Without a restore setup runs in the new system.
Congratulate ==
  /\ pc = "congratulate"
  /\ pc' = IF restored THEN "unmount" ELSE "setup"
  /\ UNCHANGED <<boxVars, pref, scanVars, fromVars, toVars, diskVars, endVars>>

\* When setup cannot be run, that is printed and the installer goes on.
Setup ==
  /\ pc = "setup"
  /\ done' \in {done, done \cup {"setup"}}
  /\ pc' = "unmount"
  /\ UNCHANGED <<boxVars, pref, scanVars, fromVars, toVars, erased, plan, boots, repos, initramfs,
                 endVars>>

\* The label EXIT: the last message is shown if restore_success is FAILURE.
Exit ==
  /\ pc \in {"unmount", "exit"}
  /\ told' = IF restored THEN "nothing"
             ELSE IF pc = "unmount" THEN "congratulations" ELSE "cancelled"
  /\ pc' = "halt"
  /\ UNCHANGED <<boxVars, pref, scanVars, fromVars, toVars, diskVars, settings, key, restored>>

\* while (1); after /etc/halt, and the end of a crashed installer.
Stopped == pc \in {"halt", "crashed"} /\ UNCHANGED vars

-----------------------------------------------------------------------------
Dialogs ==
  \/ HandleLanguage \/ Welcome \/ HandleKeymap \/ HandleTimezone
  \/ ScanBusses \/ ManualModule \/ ScanDrives \/ Rescan
  \/ SourceBoot \/ SourceCdrom \/ SourceNetwork \/ SourceCancel
  \/ PickNothing \/ PickRaid \/ (\E d \in Drives : PickDisk(d)) \/ PickCancel
  \/ Confirm \/ Kind

MakeDisk ==
  \/ Partition \/ CreateRaid \/ Format \/ ConfigureRepos \/ UpdateIndexes
  \/ InstallPackages \/ Swapfile \/ Initramfs \/ MakeBootable

Finish ==
  \/ WriteSettings
  \/ \E from \in {"floppy", "usb", "network"} : Attempt(from)
  \/ SkipRestore \/ Congratulate \/ Setup \/ Exit

Next == Dialogs \/ MakeDisk \/ Finish \/ Stopped

Spec == Init /\ [][Next]_vars

-----------------------------------------------------------------------------
Stages == {"partition", "raid", "format", "repos", "indexes", "packages", "swap",
           "initramfs", "boot", "restored", "copied", "setup"}

TypeOK ==
  /\ pc \in Stages \cup {"language", "welcome", "keymap", "timezone", "scan", "modules",
                         "drives", "nodisk", "source", "menu", "target", "confirm",
                         "kind", "settings", "restore", "congratulate", "unmount",
                         "exit", "halt", "crashed"}
  /\ DOMAIN list \subseteq machine.drives
  /\ \A d \in DOMAIN list : list[d] \in {"harddisk", "cdrom"}
  /\ choice.d1 \in Drives \cup {NoDrive} /\ choice.d2 \in Drives \cup {NoDrive}
  /\ choice.raid \in 0 .. 2 /\ choice.size \in Nat
  /\ erased \subseteq Drives /\ boots \subseteq Drives /\ agreed \subseteq Drives
  /\ done \subseteq Stages
  /\ repos \subseteq {"bundled", "alpine"}
  /\ net.itf \in {"none", "card", "missing"} /\ net.ip \in BOOLEAN

\* Whatever way the user takes through the windows, back and forth: only disks
\* the user has agreed to lose are written to, and never the medium the
\* packages come from.
OnlyAgreedErased == erased \subseteq agreed \ {source.drive}

\* The partitions fit on every disk that is written to, the smaller one of a
\* RAID included, and on the part of it the user has set aside.
PlanFitsChosen ==
  pc \in {"partition", "raid", "format"} \cup Stages =>
    /\ Chosen # {}
    /\ Raid <=> choice.raid = 2
    /\ \A d \in Chosen : Fits(plan, Size[d])
    /\ plan.disk <= DiskLimit(opts)

\* The initial RAM disk has every module a disk of the system needs to be seen,
\* whether the scan has found it or the user has loaded it, before or after the
\* drives were first looked for.  Left out are modules the kernel had loaded by
\* itself for a device the scan does not list: nothing tells the installer of
\* them.
DisksSeenAtBoot ==
  LET unlisted == machine.kernel \ SpecialModules(machine.devices, How)
  IN  \A d \in Chosen : machine.needs[d] \ unlisted \subseteq initramfs

\* A machine that is congratulated has every stage behind it: both disks of a
\* RAID made and bootable, their drivers in the initial RAM disk, the swap file
\* that was planned.  Setup is left out exactly when an attempt to restore was
\* reported as a success, however many have failed, and never follows one; a
\* backup restored with its key is there in full.  Of a floppy only the report
\* is known, and setup may not run for its part (the installer does not mind),
\* but what the installer wrote itself is in the language chosen.
Complete ==
  /\ pc \in {"congratulate", "setup", "unmount"} =>
       /\ {"partition", "format", "packages", "initramfs", "boot"} \subseteq done
       /\ plan.swap # 0 => "swap" \in done
       /\ Raid /\ ~opts.manual => "raid" \in done
       /\ machine.arch = "i386" /\ ~opts.nombr => boots = Chosen
       /\ DisksSeenAtBoot
       /\ restored <=> {"restored", "copied"} \cap done # {}
       /\ "restored" \in done => settings.from = "backup"
       /\ settings.from = "installer" => settings.lang = pref.lang
  /\ {"restored", "copied", "setup"} \cap done # {} => told # "cancelled"
  /\ "setup" \in done => {"restored", "copied"} \cap done = {}

=============================================================================
