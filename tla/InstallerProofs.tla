--------------------------- MODULE InstallerProofs ---------------------------
(***************************************************************************)
(* For every machine, kernel command line, set of drives and their sizes:  *)
(* only disks agreed to are written to, and the partitions fit on them.    *)
(***************************************************************************)
EXTENDS Installer, TLAPS

-----------------------------------------------------------------------------
\* The sizes of the partitions.

\* The rounding of C loses at most what a quarter has over a whole number.
LEMMA QuarterBounds ==
  ASSUME NEW n \in Int
  PROVE  /\ Quarter(n) \in Int
         /\ n >= 0 => Quarter(n) >= 0 /\ 4 * Quarter(n) <= n
         /\ n >= -7 => Quarter(n) >= -1
  BY DEF Quarter

\* The swap file is never larger than SWAP_MAXIMUM.
LEMMA SwapBounds ==
  ASSUME NEW disk \in Int, disk >= DISK_MINIMUM - 5, NEW wish \in SwapWishes
  PROVE  /\ SwapSize(disk, wish) \in Int
         /\ SwapSize(disk, wish) \in 0 .. SWAP_MAXIMUM
  <1>1. /\ Free(disk) \in Int /\ Free(disk) >= -5
    BY DEF Free, DISK_MINIMUM
  <1>2. Quarter(Free(disk)) \in Int /\ Quarter(Free(disk)) >= -1
    BY <1>1, QuarterBounds
  <1>3. wish \in Int /\ (wish = -1 \/ wish \in 0 .. 64)
    BY DEF SwapWishes, SWAP_MINIMUM, SWAP_MAXIMUM
  <1>4. CASE Wished(disk, wish) = -1
    BY <1>2, <1>4 DEF SwapSize, AtMost, SWAP_MINIMUM, SWAP_MAXIMUM
  <1>5. CASE Wished(disk, wish) # -1
    <2>1. wish # -1
      BY <1>5 DEF Wished
    <2>. QED  BY <1>3, <1>5, <2>1 DEF SwapSize, SWAP_MAXIMUM
  <1>. QED  BY <1>4, <1>5

\* The root partition keeps its least size and the logs get their share.
LEMMA RootBounds ==
  ASSUME NEW disk \in Int, disk >= DISK_MINIMUM - 5, NEW wish \in SwapWishes
  PROVE  /\ RootSize(disk, wish) \in Int
         /\ RootSize(disk, wish) - SwapSize(disk, wish) >= ROOT_MINIMUM - 1
         /\ disk - RootSize(disk, wish) >= LOGCOMPRESSED
  <1> DEFINE free == Free(disk)
  <1>1. free \in Int /\ free = disk - 480 /\ free >= -5
    BY DEF Free, DISK_MINIMUM
  <1>2. /\ Quarter(free) \in Int /\ Quarter(free) >= -1
        /\ free >= 0 => 4 * Quarter(free) <= free
        /\ free < 0 => Quarter(free) <= 0
    <2>1. free < 0 => Quarter(free) <= 0
      BY <1>1 DEF Quarter
    <2>. QED  BY <1>1, <2>1, QuarterBounds
  <1>3. SwapSize(disk, wish) \in Int /\ SwapSize(disk, wish) \in 0 .. 64
    BY SwapBounds DEF SWAP_MAXIMUM
  <1>4. RootSize(disk, wish) =
          AtMost(512, 256 + Quarter(free)) + SwapSize(disk, wish)
    BY DEF RootSize, ROOT_MAXIMUM, ROOT_MINIMUM
  <1> HIDE DEF free
  <1>5. /\ AtMost(512, 256 + Quarter(free)) \in Int
        /\ AtMost(512, 256 + Quarter(free)) >= 255
        /\ AtMost(512, 256 + Quarter(free)) <= 256 + Quarter(free)
    BY <1>2 DEF AtMost
  <1>6. disk - RootSize(disk, wish) >= 64
    BY <1>1, <1>2, <1>3, <1>4, <1>5
  <1>. QED  BY <1>3, <1>4, <1>5, <1>6 DEF ROOT_MINIMUM, LOGCOMPRESSED

\* Whatever the target, the size of a disk the installer accepts, the size the
\* user may have set and the swap space asked for: the plan fits on the disk.
THEOREM PlanFitsDisk ==
  ASSUME NEW flash \in BOOLEAN, NEW userSize \in BOOLEAN,
         NEW size \in Int, size >= DISK_MINIMUM, NEW wish \in SwapWishes
  PROVE  Fits(Plan(flash, size, userSize, wish), size)
  <1> DEFINE disk == UsableSize(size, userSize)
             made == Plan(flash, size, userSize, wish)
  <1>1. disk \in Int /\ disk <= size /\ disk >= DISK_MINIMUM - 5
    BY DEF UsableSize, DISK_MINIMUM
  <1>2. CASE flash
    <2>1. /\ made.disk = disk /\ made.root = disk - LOGCOMPRESSED
          /\ made.log = disk - (disk - LOGCOMPRESSED) /\ made.swap = 0
      BY <1>2 DEF Plan
    <2>. QED  BY <1>1, <2>1 DEF Fits, LOGCOMPRESSED, ROOT_MINIMUM, DISK_MINIMUM
  <1>3. CASE ~flash
    <2>1. /\ made.disk = disk /\ made.root = RootSize(disk, wish)
          /\ made.log = disk - RootSize(disk, wish)
          /\ made.swap = SwapSize(disk, wish)
      BY <1>3 DEF Plan
    <2>2. SwapSize(disk, wish) \in Int /\ SwapSize(disk, wish) >= 0
      BY <1>1, SwapBounds DEF SWAP_MAXIMUM
    <2>3. /\ RootSize(disk, wish) \in Int
          /\ RootSize(disk, wish) - SwapSize(disk, wish) >= ROOT_MINIMUM - 1
          /\ disk - RootSize(disk, wish) >= LOGCOMPRESSED
      BY <1>1, RootBounds
    <2> HIDE DEF disk, made
    <2>4. made.root + made.log = made.disk
      BY <1>1, <2>1, <2>3
    <2>5. Fits(made, size)
      BY <1>1, <2>1, <2>2, <2>3, <2>4 DEF Fits
    <2>. QED  BY <2>5 DEF made
  <1>. QED  BY <1>2, <1>3
-----------------------------------------------------------------------------
\* The invariant.

\* The windows before a source is chosen, while a target is, and those after
\* the target and its plan are settled.
Before == {"language", "welcome", "keymap", "timezone", "scan", "modules", "drives",
           "nodisk", "source", "menu"}
Choosing == {"target", "confirm", "kind"}
Settled == Stages \cup {"settings", "restore", "congratulate"}

\* The medium is not a target, because its type has been changed.
SourceInv ==
  /\ pc \in Before => source.drive = NoDrive /\ choice = NoChoice
  /\ source.drive # NoDrive => source.drive \notin Targets

\* The disks chosen are targets, all of them as large as the size noted.
ChoiceInv ==
  /\ choice \in [raid: 0 .. 2, d1: Drives \cup {NoDrive}, d2: Drives \cup {NoDrive},
                 size: Nat, target: {"harddisk", "flash"}]
  /\ Chosen \subseteq Targets
  /\ choice.d1 = NoDrive => choice.d2 = NoDrive /\ choice.raid # 2
  /\ choice.d1 # NoDrive => choice.raid # 1 /\ choice.size >= DISK_MINIMUM
  /\ choice.raid # 2 => choice.d2 = NoDrive
  /\ \A d \in Chosen : choice.size <= Size[d]

\* Between two windows for a disk: none has been picked, or the first of a RAID.
PickInv ==
  /\ pc = "target" => choice.d2 = NoDrive /\ (choice.d1 = NoDrive \/ choice.raid = 2)
  /\ pc \in {"confirm", "kind"} \cup Settled =>
       choice.d1 # NoDrive /\ (Raid <=> choice.raid = 2)

\* Until the plan is settled nothing is written, and from the consent on the
\* disks chosen are those agreed to.
ErasedInv ==
  /\ pc \in Before \cup Choosing => erased = {}
  /\ pc \in {"kind"} \cup Settled => agreed = Chosen
  /\ erased \subseteq agreed \ {source.drive}

PlanInv ==
  pc \in Settled =>
    /\ \A d \in Chosen : Fits(plan, Size[d])
    /\ plan.disk <= DiskLimit(opts)

TypeInv ==
  /\ opts \in OptionType
  /\ machine.drives \subseteq Drives /\ DOMAIN list \subseteq Drives

Inv == TypeInv /\ SourceInv /\ ChoiceInv /\ PickInv /\ ErasedInv /\ PlanInv

\* The stages of an installation and the windows are told apart by their names.
LEMMA Names ==
  /\ Before \cap Choosing = {} /\ Before \cap Settled = {} /\ Choosing \cap Settled = {}
  /\ {"exit", "crashed", "halt", "unmount"} \cap (Before \cup Choosing \cup Settled) = {}
  BY DEF Before, Choosing, Settled, Stages

\* A plan made for a size fits on every disk of at least that size.
LEMMA PlanFitsLarger ==
  ASSUME NEW flash \in BOOLEAN, NEW user \in BOOLEAN, NEW size \in Nat, NEW larger \in Nat,
         size >= DISK_MINIMUM, size <= larger, NEW wish \in SwapWishes
  PROVE  /\ Fits(Plan(flash, size, user, wish), larger)
         /\ Plan(flash, size, user, wish).disk <= size
<1>1. Fits(Plan(flash, size, user, wish), size)
  BY PlanFitsDisk
<1>2. /\ Plan(flash, size, user, wish).disk = UsableSize(size, user)
      /\ UsableSize(size, user) \in Int /\ UsableSize(size, user) <= size
  BY DEF Plan, UsableSize
<1> QED
  BY <1>1, <1>2 DEF Fits

LEMMA InitInv ==
  ASSUME Init
  PROVE  Inv
<1> USE DEF Init, NoChoice, NoSource, Before, Choosing, Settled, Stages
<1>1. TypeInv
  <2>1. machine \in MachineType /\ opts \in OptionType
    BY InstallerAssumption
  <2> QED
    BY <2>1 DEF TypeInv, MachineType
<1>2. SourceInv /\ ErasedInv
  BY DEF SourceInv, ErasedInv
<1>3. ChoiceInv /\ PickInv /\ PlanInv
  BY DEF ChoiceInv, PickInv, PlanInv, Chosen, Targets
<1> QED
  BY <1>1, <1>2, <1>3 DEF Inv

-----------------------------------------------------------------------------
\* Most steps only go from one window to the next.
Kept == <<boxVars, list, source, choice, agreed, erased, plan>>
Ends == {"exit", "crashed", "halt", "unmount"}
Onward ==
  \/ pc \in Before /\ pc' \in Before
  \/ pc \in Settled /\ pc' \in Settled
  \/ pc' \in Ends
  \/ pc' = pc

LEMMA OnwardInv ==
  ASSUME Inv, UNCHANGED Kept, Onward
  PROVE  Inv'
<1>1. /\ pc' \in Before => pc \in Before
      /\ pc' \in Settled => pc \in Settled
      /\ pc' \in Choosing => pc' = pc
  BY Names DEF Onward, Ends
<1>2. /\ "target" \in Choosing /\ "confirm" \in Choosing /\ "kind" \in Choosing
  BY DEF Choosing
<1>3. TypeInv' /\ SourceInv' /\ ChoiceInv'
  BY <1>1 DEF Inv, TypeInv, SourceInv, ChoiceInv, Kept, boxVars, Targets, Chosen
<1>4. PickInv'
  BY <1>1, <1>2 DEF Inv, PickInv, Kept, Raid
<1>5. ErasedInv' /\ PlanInv'
  BY <1>1, <1>2 DEF Inv, ErasedInv, PlanInv, Kept, boxVars, Chosen
<1> QED
  BY <1>3, <1>4, <1>5 DEF Inv

\* The steps of the windows before a source is chosen.
LEMMA EarlyInv ==
  ASSUME Inv,
         \/ HandleLanguage \/ Welcome \/ HandleKeymap \/ HandleTimezone
         \/ ScanBusses \/ ManualModule \/ Rescan \/ SourceCancel
  PROVE  Inv'
<1>1. UNCHANGED Kept
  BY DEF HandleLanguage, Welcome, HandleKeymap, HandleTimezone, ScanBusses, ManualModule,
         Rescan, SourceCancel, Kept, boxVars, scanVars, fromVars, toVars, diskVars, endVars
<1>2. Onward
  BY DEF HandleLanguage, Welcome, HandleKeymap, HandleTimezone, ScanBusses, ManualModule,
         Rescan, SourceCancel, Onward, Before, Ends
<1> QED
  BY <1>1, <1>2, OnwardInv

\* New drives come into the list before there is a source or a target.
LEMMA ScanDrivesInv ==
  ASSUME Inv, ScanDrives
  PROVE  Inv'
<1>1. /\ pc = "drives" /\ pc' \in {"source", "nodisk"} /\ list' = Found
      /\ UNCHANGED <<machine, opts, source, choice, agreed, erased, plan>>
  BY DEF ScanDrives, boxVars, fromVars, toVars, diskVars, endVars
<1>2. pc \in Before /\ pc' \in Before /\ choice = NoChoice /\ source.drive = NoDrive
  BY <1>1 DEF Inv, SourceInv, Before
<1>3. DOMAIN Found \subseteq DOMAIN list \cup machine.drives
  BY DEF Found, Seen
<1>4. TypeInv' /\ SourceInv'
  BY <1>1, <1>2, <1>3 DEF Inv, TypeInv, SourceInv
<1>5. ChoiceInv'
  BY <1>1, <1>2 DEF Inv, ChoiceInv, NoChoice, Chosen, Targets
<1>6. PickInv' /\ ErasedInv' /\ PlanInv'
  BY <1>1, <1>2, Names DEF Inv, PickInv, ErasedInv, PlanInv, Before, Choosing
<1> QED
  BY <1>4, <1>5, <1>6 DEF Inv

\* A medium that is mounted is no target any more; there is no choice yet.
LEMMA MountInv ==
  ASSUME Inv, NEW from \in {"source", "menu"}, MountCdrom(from),
         UNCHANGED <<machine, opts, choice, agreed, erased, plan>>
  PROVE  Inv'
<1>1. PICK d \in Carriers : /\ pc = from
                            /\ source' = [medium |-> "cdrom", drive |-> d]
                            /\ list' = [list EXCEPT ![d] = "cdrom"]
                            /\ pc' = "target"
  BY Zenon DEF MountCdrom
<1>2. pc \in Before /\ choice = NoChoice
  BY <1>1 DEF Inv, SourceInv, Before
<1>3. d \in DOMAIN list /\ DOMAIN list' = DOMAIN list /\ list'[d] = "cdrom"
  BY <1>1 DEF Carriers
<1>4. pc' \notin Before /\ pc' \notin Settled /\ pc' \in Choosing
  BY <1>1 DEF Before, Settled, Choosing, Stages
<1>5. TypeInv' /\ SourceInv'
  BY <1>1, <1>3, <1>4 DEF Inv, TypeInv, SourceInv, Targets
<1>6. ChoiceInv'
  BY <1>2 DEF Inv, ChoiceInv, NoChoice, Chosen
<1>7. PickInv' /\ PlanInv'
  BY <1>1, <1>2, <1>4 DEF PickInv, PlanInv, NoChoice
<1>8. ErasedInv'
  BY <1>1, <1>2, <1>4 DEF Inv, ErasedInv
<1> QED
  BY <1>5, <1>6, <1>7, <1>8 DEF Inv

\* The network is no drive.
LEMMA SourceNetworkInv ==
  ASSUME Inv, SourceNetwork
  PROVE  Inv'
<1>1. UNCHANGED <<machine, opts, list, choice, agreed, erased, plan>>
  BY DEF SourceNetwork, boxVars, scanVars, toVars, diskVars
<1>2. CASE UNCHANGED <<pc, source>>
  <2>1. UNCHANGED Kept /\ Onward
    BY <1>1, <1>2 DEF Kept, boxVars, Onward
  <2> QED
    BY <2>1, OnwardInv
<1>3. CASE source' = [medium |-> "network", drive |-> NoDrive] /\ pc' = "target"
  <2>1. pc \in Before /\ choice = NoChoice
    BY DEF SourceNetwork, Inv, SourceInv, Before
  <2>2. pc' \notin Before /\ pc' \notin Settled /\ pc' \in Choosing
    BY <1>3 DEF Before, Settled, Choosing, Stages
  <2>3. TypeInv' /\ SourceInv'
    BY <1>1, <1>3, <2>2 DEF Inv, TypeInv, SourceInv, Targets
  <2>4. ChoiceInv'
    BY <1>1 DEF Inv, ChoiceInv, Chosen, Targets
  <2>5. PickInv' /\ PlanInv'
    BY <1>1, <1>3, <2>1, <2>2 DEF PickInv, PlanInv, NoChoice
  <2>6. ErasedInv'
    BY <1>1, <1>3, <2>1, <2>2 DEF Inv, ErasedInv
  <2> QED
    BY <2>3, <2>4, <2>5, <2>6 DEF Inv
<1> QED
  BY <1>2, <1>3 DEF SourceNetwork

LEMMA SourceBootInv ==
  ASSUME Inv, SourceBoot \/ SourceCdrom
  PROVE  Inv'
<1>1. UNCHANGED <<machine, opts, choice, agreed, erased, plan>>
  BY DEF SourceBoot, SourceCdrom, boxVars, toVars, diskVars
<1>2. CASE MountCdrom("source") \/ MountCdrom("menu")
  BY <1>1, <1>2, MountInv
<1>3. CASE pc = "source" /\ pc' = "menu" /\ UNCHANGED <<source, list>>
  <2>1. UNCHANGED Kept /\ Onward
    BY <1>1, <1>3 DEF Kept, boxVars, Onward, Before
  <2> QED
    BY <2>1, OnwardInv
<1> QED
  BY <1>2, <1>3 DEF SourceBoot, SourceCdrom

-----------------------------------------------------------------------------
\* The choice of the target.

\* A step between the windows of the choice that writes nothing.
LEMMA ChoosingInv ==
  ASSUME Inv, ChoiceInv', PickInv', pc \in Choosing, pc' \in Choosing \ {"kind"},
         UNCHANGED <<machine, opts, list, source, agreed, erased, plan>>
  PROVE  Inv'
<1>1. pc' \notin Before /\ pc' \notin Settled
  BY Names
<1>2. TypeInv' /\ SourceInv'
  BY <1>1 DEF Inv, TypeInv, SourceInv, Targets
<1>3. ErasedInv' /\ PlanInv'
  BY <1>1 DEF Inv, ErasedInv, PlanInv
<1> QED
  BY <1>2, <1>3 DEF Inv

\* With nothing chosen there is nothing to agree with.
LEMMA NothingChosen ==
  ASSUME Inv, choice' \in {NoChoice, [NoChoice EXCEPT !.raid = 1]}, pc' = "target"
  PROVE  ChoiceInv' /\ PickInv'
<1>1. pc' \notin Settled
  BY DEF Settled, Stages
<1> QED
  BY <1>1 DEF ChoiceInv, PickInv, NoChoice, Chosen, Raid

LEMMA PickRaidInv ==
  ASSUME Inv, PickRaid \/ PickCancel
  PROVE  Inv'
<1>1. /\ pc = "target" /\ choice' \in {NoChoice, [NoChoice EXCEPT !.raid = 1]}
      /\ UNCHANGED <<machine, opts, list, source, agreed, erased, plan>>
  BY DEF PickRaid, PickCancel, boxVars, scanVars, fromVars, diskVars
<1>2. CASE pc' = "target"
  BY <1>1, <1>2, NothingChosen, ChoosingInv DEF Choosing
<1>3. CASE pc' = "exit" /\ choice' = NoChoice
  <2>1. pc' \notin Before /\ pc' \notin Settled /\ pc' \notin Choosing
    BY <1>3 DEF Before, Settled, Choosing, Stages
  <2>2. TypeInv' /\ SourceInv' /\ ErasedInv'
    BY <1>1, <1>3, <2>1 DEF Inv, TypeInv, SourceInv, ErasedInv, Targets, Choosing
  <2>3. ChoiceInv' /\ PickInv' /\ PlanInv'
    BY <1>3, <2>1 DEF ChoiceInv, PickInv, PlanInv, NoChoice, Chosen, Choosing
  <2> QED
    BY <2>2, <2>3 DEF Inv
<1> QED
  BY <1>2, <1>3 DEF PickRaid, PickCancel

\* The first disk of a RAID, its second, or the only one; the size noted is
\* that of the smaller.
LEMMA PickDiskInv ==
  ASSUME Inv, NEW d \in Drives, PickDisk(d)
  PROVE  Inv'
<1> DEFINE size == IF choice.raid = 2 /\ choice.size < Size[d] THEN choice.size ELSE Size[d]
<1>1. /\ pc = "target" /\ d \in Targets /\ d # choice.d1
      /\ choice' = IF Size[d] < DISK_MINIMUM THEN NoChoice
                   ELSE IF choice.raid = 2 THEN [choice EXCEPT !.d2 = d, !.size = size]
                   ELSE [choice EXCEPT !.d1 = d, !.size = size,
                                       !.raid = IF @ = 1 THEN 2 ELSE 0]
      /\ pc' = IF choice.raid # 1 /\ choice'.d1 # NoDrive THEN "confirm" ELSE "target"
      /\ UNCHANGED <<machine, opts, list, source, agreed, erased, plan>>
  BY DEF PickDisk, boxVars, scanVars, fromVars, diskVars
<1>2. /\ choice \in [raid: 0 .. 2, d1: Drives \cup {NoDrive}, d2: Drives \cup {NoDrive},
                     size: Nat, target: {"harddisk", "flash"}]
      /\ {choice.d1, choice.d2} \ {NoDrive} \subseteq Targets
      /\ choice.d1 = NoDrive => choice.d2 = NoDrive /\ choice.raid # 2
      /\ choice.d1 # NoDrive => choice.raid # 1 /\ choice.size >= DISK_MINIMUM
      /\ choice.raid # 2 => choice.d2 = NoDrive
      /\ choice.d2 = NoDrive /\ (choice.d1 = NoDrive \/ choice.raid = 2)
      /\ choice.d1 # NoDrive => choice.size <= Size[choice.d1]
  BY <1>1 DEF Inv, ChoiceInv, PickInv, Chosen
<1>3. Size[d] \in Nat /\ d # NoDrive /\ (choice.d1 # NoDrive => Size[choice.d1] \in Nat)
  BY <1>2, InstallerAssumption
<1>4. pc \in Choosing /\ pc' \in Choosing \ {"kind"} /\ pc' \notin Settled
  BY <1>1 DEF Choosing, Settled, Stages
<1>5. CASE Size[d] < DISK_MINIMUM
  <2>1. choice' = NoChoice /\ pc' = "target"
    BY <1>1, <1>5 DEF NoChoice
  <2> QED
    BY <2>1, <1>1, <1>4, NothingChosen, ChoosingInv
<1>6. CASE Size[d] >= DISK_MINIMUM /\ choice.raid = 2
  <2>0. ~(Size[d] < DISK_MINIMUM)
    BY <1>3, <1>6 DEF DISK_MINIMUM
  <2>1. choice' = [choice EXCEPT !.d2 = d, !.size = size]
    BY <1>1, <1>6, <2>0
  <2>2. size \in Nat /\ size <= Size[d] /\ size <= Size[choice.d1] /\ size >= DISK_MINIMUM
    BY <1>2, <1>3, <1>6 DEF DISK_MINIMUM
  <2> HIDE DEF size
  <2>3. /\ choice'.d1 = choice.d1 /\ choice'.d2 = d /\ choice'.size = size
        /\ choice'.raid = 2 /\ choice.d1 # NoDrive
        /\ choice' \in [raid: 0 .. 2, d1: Drives \cup {NoDrive}, d2: Drives \cup {NoDrive},
                        size: Nat, target: {"harddisk", "flash"}]
    BY <1>2, <1>3, <1>6, <2>1, <2>2
  <2>4. pc' = "confirm"
    BY <1>1, <1>6, <2>3
  <2>5. Targets' = Targets /\ Chosen' = {choice.d1, d}
    BY <1>1, <1>3, <2>3 DEF Targets, Chosen
  <2>6. ChoiceInv'
    BY <1>1, <1>2, <2>2, <2>3, <2>5 DEF ChoiceInv
  <2>7. PickInv'
    BY <1>3, <1>4, <2>3, <2>4 DEF PickInv, Raid
  <2> QED
    BY <1>1, <1>4, <2>6, <2>7, ChoosingInv
<1>7. CASE Size[d] >= DISK_MINIMUM /\ choice.raid # 2
  <2>0. ~(Size[d] < DISK_MINIMUM) /\ size = Size[d]
    BY <1>3, <1>7 DEF DISK_MINIMUM
  <2> DEFINE raid == IF choice.raid = 1 THEN 2 ELSE 0
  <2>1. choice' = [choice EXCEPT !.d1 = d, !.size = Size[d], !.raid = raid]
    BY <1>1, <1>7, <2>0
  <2>6. raid \in 0 .. 2 /\ raid = IF choice.raid = 1 THEN 2 ELSE 0
    OBVIOUS
  <2> HIDE DEF raid
  <2>2. /\ choice'.d1 = d /\ choice'.d2 = NoDrive /\ choice'.size = Size[d]
        /\ choice'.raid = raid
        /\ choice' \in [raid: 0 .. 2, d1: Drives \cup {NoDrive}, d2: Drives \cup {NoDrive},
                        size: Nat, target: {"harddisk", "flash"}]
    BY <1>2, <1>3, <2>1, <2>6
  <2>7. pc' = IF choice.raid # 1 THEN "confirm" ELSE "target"
    BY <1>1, <1>3, <2>2
  <2>3. Targets' = Targets /\ Chosen' = {d}
    BY <1>1, <1>3, <2>2 DEF Targets, Chosen
  <2>4. ChoiceInv'
    BY <1>1, <1>3, <1>7, <2>2, <2>6, <2>3 DEF ChoiceInv
  <2>5. PickInv'
    BY <1>2, <1>3, <1>4, <2>7, <2>2, <2>6 DEF PickInv, Raid
  <2> QED
    BY <1>1, <1>4, <2>4, <2>5, ChoosingInv
<1>8. Size[d] < DISK_MINIMUM \/ Size[d] >= DISK_MINIMUM
  BY <1>3 DEF DISK_MINIMUM
<1> QED
  BY <1>5, <1>6, <1>7, <1>8

\* With the consent the disks agreed to are those chosen.
LEMMA ConfirmInv ==
  ASSUME Inv, Confirm
  PROVE  Inv'
<1>1. pc = "confirm" /\ UNCHANGED <<machine, opts, list, source, erased, plan>>
  BY DEF Confirm, boxVars, scanVars, fromVars, diskVars
<1>2. CASE pc' = "target" /\ choice' = NoChoice /\ UNCHANGED agreed
  BY <1>1, <1>2, NothingChosen, ChoosingInv DEF Choosing
<1>3. CASE pc' = "kind" /\ agreed' = Chosen /\ UNCHANGED choice
  <2>1. pc' \notin Before /\ pc' \notin Settled /\ pc \in Choosing
    BY <1>1, <1>3 DEF Before, Settled, Stages, Choosing
  <2>2. TypeInv' /\ SourceInv' /\ ChoiceInv'
    BY <1>1, <1>3, <2>1 DEF Inv, TypeInv, SourceInv, ChoiceInv, Targets, Chosen
  <2>3. PickInv' /\ PlanInv'
    BY <1>1, <1>3, <2>1 DEF Inv, PickInv, PlanInv, Raid
  <2>4. ErasedInv'
    BY <1>1, <1>3, <2>1 DEF Inv, ErasedInv, Chosen
  <2> QED
    BY <2>2, <2>3, <2>4 DEF Inv
<1> QED
  BY <1>2, <1>3 DEF Confirm

\* The plan is made for the size noted, or for less if the user has set disk=.
LEMMA KindInv ==
  ASSUME Inv, Kind
  PROVE  Inv'
<1>1. pc = "kind" /\ UNCHANGED <<machine, opts, list, source, agreed, erased>>
  BY DEF Kind, boxVars, scanVars, fromVars
<1>2. CASE pc' = "target" /\ choice' = NoChoice /\ UNCHANGED plan
  BY <1>1, <1>2, NothingChosen, ChoosingInv DEF Choosing
<1>3. ASSUME NEW target \in {"harddisk", "flash"},
             choice' = [choice EXCEPT !.target = target],
             plan' = Plan(target = "flash", AtMost(DiskLimit(opts), choice.size),
                          DiskLimit(opts) < choice.size, SwapWish(opts)),
             pc' = "partition"
      PROVE  Inv'
  <2> DEFINE size == AtMost(DiskLimit(opts), choice.size)
  <2>1. /\ choice \in [raid: 0 .. 2, d1: Drives \cup {NoDrive}, d2: Drives \cup {NoDrive},
                       size: Nat, target: {"harddisk", "flash"}]
        /\ choice.d1 # NoDrive /\ choice.size >= DISK_MINIMUM
    BY <1>1 DEF Inv, ChoiceInv, PickInv
  <2>2. opts.disk \in Nat /\ SwapWish(opts) \in SwapWishes
    BY DEF Inv, TypeInv, OptionType, SwapWish, SwapWishes
  <2>3. DiskLimit(opts) \in Nat /\ DiskLimit(opts) >= DISK_MINIMUM
    BY <2>2 DEF DiskLimit, DISK_MINIMUM, NoLimit
  <2>4. /\ size \in Nat /\ size >= DISK_MINIMUM
        /\ size <= choice.size /\ size <= DiskLimit(opts)
    BY <2>1, <2>3 DEF AtMost, DISK_MINIMUM
  <2> HIDE DEF size
  <2>5. /\ choice' \in [raid: 0 .. 2, d1: Drives \cup {NoDrive}, d2: Drives \cup {NoDrive},
                        size: Nat, target: {"harddisk", "flash"}]
        /\ choice'.d1 = choice.d1 /\ choice'.d2 = choice.d2
        /\ choice'.raid = choice.raid /\ choice'.size = choice.size
    BY <1>3, <2>1
  <2>6. Chosen' = Chosen /\ Targets' = Targets /\ Raid' = Raid
    BY <1>1, <2>5 DEF Chosen, Targets, Raid
  <2>7. pc' \in Settled /\ pc' \notin Before /\ pc' \notin Choosing /\ pc \in Choosing
    BY <1>1, <1>3 DEF Settled, Stages, Before, Choosing
  <2>8. PlanInv'
    <3>1. ASSUME NEW d \in Chosen
          PROVE  Fits(plan', Size[d]) /\ plan'.disk <= size
      <4>1. Size[d] \in Nat /\ choice.size <= Size[d]
        <5>1. d \in Drives
          BY <2>1, <3>1 DEF Chosen
        <5> QED
          BY <5>1, InstallerAssumption DEF Inv, ChoiceInv
      <4>2. size <= Size[d]
        BY <2>1, <2>4, <4>1
      <4>3. plan' = Plan(target = "flash", size, DiskLimit(opts) < choice.size, SwapWish(opts))
        BY <1>3 DEF size
      <4>4. /\ (target = "flash") \in BOOLEAN
            /\ (DiskLimit(opts) < choice.size) \in BOOLEAN
        OBVIOUS
      <4> QED
        BY <2>2, <2>4, <4>1, <4>2, <4>3, <4>4, PlanFitsLarger
    <3>2. choice.d1 \in Chosen
      BY <2>1 DEF Chosen
    <3>3. /\ plan'.disk <= DiskLimit(opts)
      <4>1. plan'.disk <= size
        BY <3>1, <3>2
      <4>2. plan'.disk \in Int
        <5>1. plan'.disk = UsableSize(size, DiskLimit(opts) < choice.size)
          BY <1>3 DEF Plan, size
        <5> QED
          BY <2>4, <5>1 DEF UsableSize
      <4> QED
        BY <2>3, <2>4, <4>1, <4>2
    <3> QED
      BY <1>1, <2>6, <3>1, <3>3 DEF PlanInv, DiskLimit
  <2>9. TypeInv' /\ SourceInv' /\ PickInv'
    BY <1>1, <1>3, <2>1, <2>5, <2>6, <2>7 DEF Inv, TypeInv, SourceInv, PickInv
  <2>10. ChoiceInv'
    BY <1>1, <2>5, <2>6 DEF Inv, ChoiceInv
  <2>11. ErasedInv'
    BY <1>1, <1>3, <2>6, <2>7 DEF Inv, ErasedInv
  <2> QED
    BY <2>8, <2>9, <2>10, <2>11 DEF Inv
<1>4. \/ pc' = "target" /\ choice' = NoChoice /\ UNCHANGED plan
      \/ \E target \in {"harddisk", "flash"} :
           /\ choice' = [choice EXCEPT !.target = target]
           /\ plan' = Plan(target = "flash", AtMost(DiskLimit(opts), choice.size),
                           DiskLimit(opts) < choice.size, SwapWish(opts))
           /\ pc' = "partition"
  BY DEF Kind
<1> QED
  BY <1>2, <1>3, <1>4

-----------------------------------------------------------------------------
\* The stages of make_ipcop_disk write to the disks chosen, which are those
\* agreed to; those after them write to no disk at all.
LEMMA MakeDiskInv ==
  ASSUME Inv, MakeDisk
  PROVE  Inv'
<1>1. /\ pc \in Settled /\ pc' \in Settled \cup {"exit"}
      /\ UNCHANGED <<machine, opts, list, source, choice, agreed, plan>>
      /\ erased' \subseteq erased \cup Chosen
  BY DEF MakeDisk, Partition, CreateRaid, Format, ConfigureRepos, UpdateIndexes,
         InstallPackages, Swapfile, Initramfs, MakeBootable, Stage, Settled, Stages,
         boxVars, scanVars, fromVars, toVars
<1>2. pc' \notin Before /\ pc' \notin Choosing /\ Chosen' = Chosen /\ Targets' = Targets
  BY <1>1 DEF Settled, Stages, Before, Choosing, Chosen, Targets
<1>3. TypeInv' /\ SourceInv' /\ ChoiceInv' /\ PlanInv'
  BY <1>1, <1>2 DEF Inv, TypeInv, SourceInv, ChoiceInv, PlanInv
<1>4. PickInv'
  BY <1>1, <1>2 DEF Inv, PickInv, Raid, Choosing
<1>5. ErasedInv'
  <2>1. agreed = Chosen /\ source.drive \notin Chosen
    BY <1>1 DEF Inv, ErasedInv, SourceInv, ChoiceInv, Chosen
  <2> QED
    BY <1>1, <1>2, <2>1 DEF Inv, ErasedInv, Choosing
<1> QED
  BY <1>3, <1>4, <1>5 DEF Inv

LEMMA FinishInv ==
  ASSUME Inv, Finish \/ PickNothing \/ Stopped
  PROVE  Inv'
<1>1. UNCHANGED Kept
  BY DEF Finish, PickNothing, Stopped, WriteSettings, Attempt, SkipRestore, Congratulate,
         Setup, Exit, Kept, vars, boxVars, scanVars, fromVars, toVars, diskVars
<1>2. Onward
  BY DEF Finish, PickNothing, Stopped, WriteSettings, Attempt, SkipRestore, Congratulate,
         Setup, Exit, vars, Onward, Settled, Stages, Ends
<1> QED
  BY <1>1, <1>2, OnwardInv

LEMMA NextInv ==
  ASSUME Inv, [Next]_vars
  PROVE  Inv'
<1>1. CASE UNCHANGED vars
  <2>1. UNCHANGED Kept /\ Onward
    BY <1>1 DEF vars, boxVars, scanVars, fromVars, toVars, diskVars, Kept, Onward
  <2> QED
    BY <2>1, OnwardInv
<1>2. CASE Dialogs
  BY <1>2, EarlyInv, ScanDrivesInv, SourceBootInv, SourceNetworkInv, FinishInv, PickRaidInv,
     PickDiskInv, ConfirmInv, KindInv DEF Dialogs
<1> QED
  BY <1>1, <1>2, MakeDiskInv, FinishInv DEF Next

-----------------------------------------------------------------------------
LEMMA Invariance == Spec => []Inv
<1>1. Init => Inv
  BY InitInv
<1>2. Inv /\ [Next]_vars => Inv'
  BY NextInv
<1> QED
  BY <1>1, <1>2, PTL DEF Spec

\* The user has agreed to lose every disk the installer writes to, and none of
\* them is the medium the packages come from (installer.c, partition.c).
THEOREM ErasesOnlyAgreed == Spec => []OnlyAgreedErased
<1>1. Inv => OnlyAgreedErased
  BY DEF Inv, ErasedInv, OnlyAgreedErased
<1> QED
  BY <1>1, Invariance, PTL

\* From the plan on the partitions fit on every disk chosen, both disks of a
\* RAID included, and on what disk= leaves of it (installer.c, partition.c).
THEOREM PlansFit == Spec => []PlanFitsChosen
<1>1. Inv => PlanFitsChosen
  BY DEF Inv, PickInv, PlanInv, PlanFitsChosen, Settled, Stages, Chosen
<1> QED
  BY <1>1, Invariance, PTL
-----------------------------------------------------------------------------
\* The places after each stage.
PastBoot == {"settings", "restore", "congratulate", "setup", "unmount"}
PastInitramfs == {"boot"} \cup PastBoot
PastSwap == {"initramfs"} \cup PastInitramfs
PastPackages == {"swap"} \cup PastSwap
PastFormat == {"repos", "indexes", "packages"} \cup PastPackages
PastPartition == {"raid", "format"} \cup PastFormat
Scanned == {"modules", "drives", "nodisk", "source", "menu"} \cup Choosing \cup {"partition"}
             \cup PastPartition

\* The type of every variable but those Inv has the types of.
PlaceInv ==
  /\ pc \in Stages \cup Before \cup Choosing \cup PastBoot \cup {"exit", "halt", "crashed"}
  /\ \A d \in DOMAIN list : d \in machine.drives /\ list[d] \in {"harddisk", "cdrom"}
  /\ agreed \subseteq Drives /\ boots \subseteq Drives
  /\ done \subseteq Stages
  /\ repos \subseteq {"bundled", "alpine"}
  /\ net \in [itf: {"none", "card", "missing"}, ip: BOOLEAN]

\* Drives are listed when the kernel has all they need, and what has been loaded
\* since the installer runs is in the list of modules, with all that was found.
ScanInv ==
  /\ pc \notin Scanned \cup {"exit", "halt", "crashed"} =>
       DOMAIN list = {} /\ kernel = machine.kernel
  /\ pc \in Scanned =>
       /\ \A d \in DOMAIN list : machine.needs[d] \subseteq kernel
       /\ kernel \subseteq machine.kernel \cup modules
       /\ SpecialModules(machine.devices, How) \subseteq modules

\* The stages made so far.
StageInv ==
  /\ pc \in PastPartition => "partition" \in done
  /\ pc \in {"format"} \cup PastFormat /\ Raid /\ ~opts.manual => "raid" \in done
  /\ pc \in PastFormat => "format" \in done
  /\ pc \in PastPackages => "packages" \in done
  /\ pc \in PastSwap /\ plan.swap # 0 => "swap" \in done
  /\ pc \in PastInitramfs =>
       "initramfs" \in done /\ initramfs = InitramfsModules(modules, Raid)
  /\ pc \in PastBoot =>
       "boot" \in done /\ (machine.arch = "i386" /\ ~opts.nombr => boots = Chosen)

\* The configuration, and what the user is told.
EndInv ==
  /\ pc = "language" => settings.from = "package"
  /\ settings.from = "installer" => settings.lang = pref.lang
  /\ "from" \in DOMAIN settings /\ "lang" \in DOMAIN pref
  /\ pc \notin {"congratulate", "setup", "unmount", "halt"} =>
       {"restored", "copied", "setup"} \cap done = {}
  /\ pc \in {"congratulate", "setup"} => "setup" \notin done
  /\ pc = "setup" => ~restored
  /\ pc \in {"congratulate", "setup", "unmount"} =>
       /\ restored <=> {"restored", "copied"} \cap done # {}
       /\ "restored" \in done => settings.from = "backup"
  /\ told # "nothing" => pc = "halt"
  /\ {"restored", "copied", "setup"} \cap done # {} => told # "cancelled"
  /\ "setup" \in done => {"restored", "copied"} \cap done = {}

Parts == PlaceInv /\ ScanInv /\ StageInv /\ EndInv

LEMMA PartsInit ==
  ASSUME Init
  PROVE  Parts
<1>1. machine \in MachineType /\ opts \in OptionType /\ DOMAIN list = {}
  BY InstallerAssumption DEF Init
<1>2. PlaceInv
  BY <1>1 DEF Init, PlaceInv, Stages, Before, OptionType
<1>3. ScanInv
  BY <1>1 DEF Init, ScanInv, Scanned, Choosing, PastPartition, PastFormat, PastPackages, PastSwap,
              PastInitramfs, PastBoot
<1>4. StageInv
  BY DEF Init, StageInv, PastPartition, PastFormat, PastPackages, PastSwap, PastInitramfs, PastBoot
<1>5. EndInv
  BY DEF Init, EndInv
<1> QED
  BY <1>2, <1>3, <1>4, <1>5 DEF Parts

\* What a drive is taken for, if it is listed at all.
LEMMA TypesOfDrives ==
  ASSUME NEW d \in Drives, NEW there
  PROVE  DriveType(d, there) \in {"none", "harddisk", "cdrom"}
BY DEF DriveType, IdeType

LEMMA FoundTypes ==
  ASSUME Inv, PlaceInv
  PROVE  /\ DOMAIN Found \subseteq DOMAIN list \cup Seen
         /\ \A d \in DOMAIN Found : d \in machine.drives /\ Found[d] \in {"harddisk", "cdrom"}
<1> DEFINE new == {d \in Seen : DriveType(d, Seen) # "none"}
<1>1. Found = [d \in DOMAIN list \cup new |->
                 IF d \in DOMAIN list THEN list[d] ELSE DriveType(d, Seen)]
  BY DEF Found
<1>2. Seen \subseteq machine.drives
  BY DEF Seen
<1>3. ASSUME NEW d \in new
      PROVE  DriveType(d, Seen) \in {"harddisk", "cdrom"}
  <2>1. d \in Drives
    BY <1>2, <1>3 DEF Inv, TypeInv
  <2> QED
    BY <1>3, <2>1, TypesOfDrives
<1> QED
  BY <1>1, <1>2, <1>3 DEF PlaceInv

-----------------------------------------------------------------------------
\* The dialogs change neither a stage nor the configuration.
LEMMA DialogsPlace ==
  ASSUME Inv, PlaceInv, Dialogs
  PROVE  PlaceInv'
<1> USE DEF PlaceInv, Before, Choosing, boxVars, scanVars, fromVars, toVars, diskVars, endVars
<1>1. CASE HandleLanguage \/ Welcome \/ HandleKeymap \/ HandleTimezone
  BY <1>1 DEF HandleLanguage, Welcome, HandleKeymap, HandleTimezone
<1>2. CASE ScanBusses \/ ManualModule \/ Rescan
  BY <1>2 DEF ScanBusses, ManualModule, Rescan, Load
<1>3. CASE ScanDrives
  BY <1>3, FoundTypes DEF ScanDrives
<1>4. CASE SourceBoot \/ SourceCdrom
  <2>1. CASE MountCdrom("source") \/ MountCdrom("menu")
    <3>1. PICK d \in Carriers : list' = [list EXCEPT ![d] = "cdrom"] /\ pc' = "target"
      BY <2>1, Zenon DEF MountCdrom
    <3> QED
      BY <1>4, <3>1 DEF SourceBoot, SourceCdrom
  <2>2. CASE pc' = "menu" /\ UNCHANGED list
    BY <1>4, <2>2 DEF SourceBoot, SourceCdrom
  <2> QED
    BY <1>4, <2>1, <2>2 DEF SourceBoot, SourceCdrom
<1>5. CASE SourceNetwork
  <2> DEFINE Nets == [itf: {"none", "card", "missing"}, ip: BOOLEAN]
  <2>1. net' \in Nets
    <3>1. PICK n \in ByDhcp(BootItf(net)) : net' \in ByHand(n)
      BY <1>5 DEF SourceNetwork
    <3>2. \A m \in Nets : [m EXCEPT !.itf = "card"] \in Nets /\ [m EXCEPT !.itf = "missing"] \in Nets
      OBVIOUS
    <3>3. BootItf(net) \in Nets
      BY <3>2 DEF BootItf
    <3>4. [itf |-> "card", ip |-> TRUE] \in Nets
      OBVIOUS
    <3>5. n \in Nets
      <4> DEFINE b == BootItf(net)
      <4>1. n \in {b, [b EXCEPT !.itf = "card"], [itf |-> "card", ip |-> TRUE]}
        BY <3>1 DEF ByDhcp
      <4> HIDE DEF b, Nets
      <4> QED
        BY <3>2, <3>3, <3>4, <4>1 DEF b
    <3> QED
      BY <3>1, <3>2, <3>5 DEF ByHand
  <2> QED
    BY <1>5, <2>1 DEF SourceNetwork
<1>6. CASE SourceCancel \/ PickNothing \/ PickRaid \/ PickCancel \/ \E d \in Drives : PickDisk(d)
  BY <1>6 DEF SourceCancel, PickNothing, PickRaid, PickCancel, PickDisk
<1>7. CASE Confirm
  <2>1. agreed' \in {Chosen, agreed} /\ Chosen \subseteq Drives
    BY <1>7 DEF Confirm, Inv, ChoiceInv, Chosen
  <2> QED
    BY <1>7, <2>1 DEF Confirm
<1>8. CASE Kind
  BY <1>8 DEF Kind, Stages
<1> QED
  BY <1>1, <1>2, <1>3, <1>4, <1>5, <1>6, <1>7, <1>8 DEF Dialogs

LEMMA MakeDiskPlace ==
  ASSUME Inv, PlaceInv, MakeDisk
  PROVE  PlaceInv'
<1>1. /\ pc \in Settled /\ pc' \in Stages \cup {"settings", "exit"}
      /\ done' \in {done, done \cup {pc}} /\ pc \in Stages
      /\ repos' \in {repos, {"bundled"}, {"bundled", "alpine"}}
      /\ boots' \in {boots, {}, {choice.d1}, Chosen}
      /\ UNCHANGED <<machine, list, agreed, net, choice>>
  <2> USE DEF Stage, Settled, Stages, boxVars, scanVars, fromVars, toVars
  <2>1. CASE Partition \/ CreateRaid \/ Format
    BY <2>1 DEF Partition, CreateRaid, Format
  <2>2. CASE ConfigureRepos \/ UpdateIndexes \/ InstallPackages
    BY <2>2 DEF ConfigureRepos, UpdateIndexes, InstallPackages
  <2>3. CASE Swapfile \/ Initramfs \/ MakeBootable
    BY <2>3 DEF Swapfile, Initramfs, MakeBootable
  <2> QED
    BY <2>1, <2>2, <2>3 DEF MakeDisk
<1>2. boots' \subseteq Drives
  BY <1>1 DEF Inv, PlaceInv, ChoiceInv, PickInv, Chosen
<1> QED
  BY <1>1, <1>2 DEF PlaceInv, PastBoot

LEMMA FinishPlace ==
  ASSUME PlaceInv, Finish \/ Stopped
  PROVE  PlaceInv'
<1>1. /\ UNCHANGED <<machine, list, agreed, net, boots, repos>>
      /\ done' \in {done, done \cup {"restored"}, done \cup {"copied"}, done \cup {"setup"}}
      /\ pc' \in PastBoot \cup {"halt", "crashed"}
  BY DEF Finish, Stopped, WriteSettings, Attempt, SkipRestore, Congratulate, Setup, Exit, PastBoot,
         vars, boxVars, scanVars, fromVars, toVars, diskVars
<1> QED
  BY <1>1 DEF PlaceInv, Stages

-----------------------------------------------------------------------------
\* Drives come into the list only after the modules they need.
LEMMA DialogsScan ==
  ASSUME Inv, ScanInv, Dialogs
  PROVE  ScanInv'
<1> USE DEF ScanInv, Scanned, Choosing, PastPartition, PastFormat, PastPackages, PastSwap,
            PastInitramfs, PastBoot, boxVars, scanVars, fromVars, toVars, diskVars, endVars
<1>1. CASE HandleLanguage \/ Welcome \/ HandleKeymap \/ HandleTimezone
  BY <1>1 DEF HandleLanguage, Welcome, HandleKeymap, HandleTimezone
<1>2. CASE ScanBusses
  <2>1. /\ modules' = SpecialModules(machine.devices, How) /\ DOMAIN list = {}
        /\ kernel' = machine.kernel \cup (KindModules(machine.devices, How) \ {"ide-gd_mod"})
        /\ UNCHANGED <<machine, opts, list>> /\ pc' \in {"modules", "drives"}
    BY <1>2 DEF ScanBusses
  <2>2. How' = How
    BY <2>1 DEF How
  <2>3. KindModules(machine.devices, How) \subseteq SpecialModules(machine.devices, How)
    BY DEF SpecialModules
  <2>4. SpecialModules(machine.devices, How)' = modules'
    BY <2>1, <2>2
  <2> HIDE DEF ScanInv
  <2> QED
    BY <2>1, <2>3, <2>4 DEF ScanInv
<1>3. CASE ManualModule \/ Rescan
  <2>1. /\ pc \in {"modules", "nodisk"} /\ pc' \in {"modules", "drives", "exit"}
        /\ UNCHANGED <<machine, opts, list>> /\ UNCHANGED How
    BY <1>3 DEF ManualModule, Rescan, How
  <2>2. \/ UNCHANGED <<kernel, modules>>
        \/ \E module : kernel' = kernel \cup {module} /\ modules' = modules \cup {module}
    BY <1>3 DEF ManualModule, Rescan, Load
  <2> QED
    BY <2>1, <2>2
<1>4. CASE ScanDrives
  <2>1. /\ pc = "drives" /\ pc' \in {"source", "nodisk"} /\ list' = Found
        /\ UNCHANGED <<machine, opts, kernel, modules>> /\ UNCHANGED How
    BY <1>4 DEF ScanDrives, How
  <2>2. \A d \in DOMAIN Found : machine.needs[d] \subseteq kernel
    BY <2>1 DEF Found, Seen
  <2> QED
    BY <2>1, <2>2
<1>5. CASE SourceBoot \/ SourceCdrom
  <2>1. /\ pc \in {"source", "menu"} /\ pc' \in {"menu", "target"}
        /\ UNCHANGED <<machine, opts, kernel, modules>> /\ UNCHANGED How
    BY <1>5 DEF SourceBoot, SourceCdrom, MountCdrom, How
  <2>2. DOMAIN list' = DOMAIN list
    BY <1>5 DEF SourceBoot, SourceCdrom, MountCdrom
  <2> QED
    BY <2>1, <2>2
<1>6. CASE SourceNetwork \/ SourceCancel \/ PickNothing \/ PickRaid \/ PickCancel
           \/ \E d \in Drives : PickDisk(d)
  BY <1>6 DEF SourceNetwork, SourceCancel, PickNothing, PickRaid, PickCancel, PickDisk, How
<1>7. CASE Confirm \/ Kind
  BY <1>7 DEF Confirm, Kind, How
<1> QED
  BY <1>1, <1>2, <1>3, <1>4, <1>5, <1>6, <1>7 DEF Dialogs

LEMMA LaterScan ==
  ASSUME ScanInv, MakeDisk \/ Finish \/ Stopped
  PROVE  ScanInv'
<1>1. /\ UNCHANGED <<machine, opts, list, kernel, modules>>
      /\ \/ pc \in Scanned /\ pc' \in Scanned
         \/ pc' \in {"exit", "halt", "crashed"}
  <2> USE DEF Stage, Scanned, PastPartition, PastFormat, PastPackages, PastSwap,
            PastInitramfs, PastBoot, boxVars, scanVars
  <2>1. CASE MakeDisk
    BY <2>1 DEF MakeDisk, Partition, CreateRaid, Format, ConfigureRepos, UpdateIndexes,
         InstallPackages, Swapfile, Initramfs, MakeBootable
  <2>2. CASE Finish \/ Stopped
    BY <2>2 DEF Finish, Stopped, WriteSettings, Attempt, SkipRestore, Congratulate, Setup, Exit, vars
  <2> QED
    BY <2>1, <2>2
<1>2. {"exit", "halt", "crashed"} \cap Scanned = {}
  BY DEF Scanned, Choosing, PastPartition, PastFormat, PastPackages, PastSwap, PastInitramfs, PastBoot
<1> QED
  BY <1>1, <1>2 DEF ScanInv, How

-----------------------------------------------------------------------------
\* No stage is passed over.
LEMMA DialogsStage ==
  ASSUME Dialogs
  PROVE  StageInv' /\ pc' \notin PastPartition
<1>1. pc' \in Before \cup Choosing \cup {"partition", "exit", "crashed"}
  BY DEF Dialogs, HandleLanguage, Welcome, HandleKeymap, HandleTimezone, ScanBusses, ManualModule,
         ScanDrives, Rescan, SourceBoot, SourceCdrom, SourceNetwork, SourceCancel, MountCdrom,
         PickNothing, PickRaid, PickDisk, PickCancel, Confirm, Kind, Before, Choosing,
         scanVars, fromVars
<1> QED
  BY <1>1 DEF Before, Choosing, StageInv, PastPartition, PastFormat, PastPackages, PastSwap,
              PastInitramfs, PastBoot

LEMMA MakeDiskStage ==
  ASSUME StageInv, MakeDisk
  PROVE  StageInv'
<1> USE DEF StageInv, PastPartition, PastFormat, PastPackages, PastSwap, PastInitramfs, PastBoot,
            Stage, boxVars, scanVars, toVars, Raid, Chosen
<1>1. CASE Partition
  BY <1>1 DEF Partition
<1>2. CASE CreateRaid
  BY <1>2 DEF CreateRaid
<1>3. CASE Format
  BY <1>3 DEF Format
<1>4. CASE ConfigureRepos
  BY <1>4 DEF ConfigureRepos
<1>5. CASE UpdateIndexes
  BY <1>5 DEF UpdateIndexes
<1>6. CASE InstallPackages
  BY <1>6 DEF InstallPackages
<1>7. CASE Swapfile
  BY <1>7 DEF Swapfile
<1>8. CASE Initramfs
  BY <1>8 DEF Initramfs
<1>9. CASE MakeBootable
  BY <1>9 DEF MakeBootable
<1> QED
  BY <1>1, <1>2, <1>3, <1>4, <1>5, <1>6, <1>7, <1>8, <1>9 DEF MakeDisk

LEMMA FinishStage ==
  ASSUME StageInv, Finish \/ Stopped
  PROVE  StageInv'
<1>1. /\ UNCHANGED <<machine, opts, choice, plan, modules, initramfs, boots>> /\ done \subseteq done'
      /\ (pc \in PastBoot /\ pc' \in PastBoot) \/ pc' \in {"halt", "crashed"}
  BY DEF Finish, Stopped, WriteSettings, Attempt, SkipRestore, Congratulate, Setup, Exit, PastBoot,
         vars, boxVars, scanVars, fromVars, toVars, diskVars
<1> QED
  BY <1>1 DEF StageInv, PastPartition, PastFormat, PastPackages, PastSwap, PastInitramfs, PastBoot,
              Raid, Chosen

-----------------------------------------------------------------------------
\* A configuration comes from a backup or from setup.
LEMMA DialogsEnd ==
  ASSUME EndInv, Dialogs
  PROVE  EndInv'
<1>1. /\ UNCHANGED <<settings, restored, told, done>>
      /\ pc \in Before \cup Choosing /\ pc' \in Before \cup Choosing \cup {"partition", "exit", "crashed"}
      /\ pc' # "language"
  BY DEF Dialogs, HandleLanguage, Welcome, HandleKeymap, HandleTimezone, ScanBusses, ManualModule,
         ScanDrives, Rescan, SourceBoot, SourceCdrom, SourceNetwork, SourceCancel, MountCdrom,
         PickNothing, PickRaid, PickDisk, PickCancel, Confirm, Kind, Before, Choosing,
         scanVars, fromVars, diskVars, endVars
<1>2. "lang" \in DOMAIN pref' /\ (pc # "language" => pref'.lang = pref.lang)
  <2>1. CASE HandleLanguage \/ HandleKeymap \/ HandleTimezone
    BY <2>1 DEF EndInv, HandleLanguage, HandleKeymap, HandleTimezone
  <2>2. CASE UNCHANGED pref
    BY <2>2 DEF EndInv
  <2>3. \/ HandleLanguage \/ HandleKeymap \/ HandleTimezone
        \/ UNCHANGED pref
    BY DEF Dialogs, Welcome, ScanBusses, ManualModule, ScanDrives, Rescan, SourceBoot, SourceCdrom,
           SourceNetwork, SourceCancel, PickNothing, PickRaid, PickDisk, PickCancel, Confirm, Kind
  <2> QED
    BY <2>1, <2>2, <2>3
<1> QED
  BY <1>1, <1>2 DEF EndInv, Before, Choosing

LEMMA MakeDiskEnd ==
  ASSUME EndInv, MakeDisk
  PROVE  EndInv'
<1>1. /\ UNCHANGED <<pref, settings, restored, told>> /\ done' \in {done, done \cup {pc}}
      /\ pc \in {"partition", "raid", "format", "repos", "indexes", "packages", "swap",
                 "initramfs", "boot"}
      /\ pc' \in {"raid", "format", "repos", "indexes", "packages", "swap",
                 "initramfs", "boot", "settings", "exit"}
  BY DEF MakeDisk, Partition, CreateRaid, Format, ConfigureRepos, UpdateIndexes,
         InstallPackages, Swapfile, Initramfs, MakeBootable, Stage
<1> QED
  BY <1>1 DEF EndInv

LEMMA FinishEnd ==
  ASSUME EndInv, Finish \/ Stopped
  PROVE  EndInv'
<1> USE DEF EndInv
<1>1. CASE WriteSettings
  BY <1>1 DEF WriteSettings, diskVars
<1>2. ASSUME NEW from \in {"floppy", "usb", "network"}, Attempt(from) PROVE EndInv'
  <2>1. PICK step \in Steps(from) :
         /\ restored' = Succeeds(from, step)
         /\ pc' = IF Succeeds(from, step) THEN "congratulate" ELSE "restore"
         /\ done' = done \cup (IF ~Succeeds(from, step) THEN {}
                             ELSE {IF from = "floppy" THEN "copied" ELSE "restored"})
         /\ settings' = [settings EXCEPT !.from = IF step = "all" THEN "backup"
                                                 ELSE IF step = "part" THEN "part" ELSE @]
    BY <1>2 DEF Attempt
  <2>2. /\ pc = "restore" /\ UNCHANGED <<pref, told>>
        /\ {"restored", "copied", "setup"} \cap done = {}
    BY <1>2 DEF Attempt
  <2>3. CASE ~Succeeds(from, step)
    BY <2>1, <2>2, <2>3
  <2>4. CASE Succeeds(from, step) /\ from = "floppy"
    BY <2>1, <2>2, <2>4
  <2>5. CASE Succeeds(from, step) /\ from # "floppy"
    <3>1. step = "all"
      BY <2>5 DEF Succeeds
    <3> QED
      BY <2>1, <2>2, <2>5, <3>1
  <2> QED
    BY <2>3, <2>4, <2>5
<1>3. CASE SkipRestore
  BY <1>3 DEF SkipRestore, diskVars
<1>4. CASE Congratulate
  BY <1>4 DEF Congratulate, diskVars, endVars
<1>5. CASE Setup
  BY <1>5 DEF Setup, endVars
<1>6. CASE Exit
  BY <1>6 DEF Exit, diskVars
<1>7. CASE Stopped
  BY <1>7 DEF Stopped, vars, diskVars, endVars
<1> QED
  BY <1>1, <1>2, <1>3, <1>4, <1>5, <1>6, <1>7 DEF Finish

LEMMA PartsNext ==
  ASSUME Inv, Parts, [Next]_vars
  PROVE  Parts'
<1>1. CASE UNCHANGED vars
  <2> USE <1>1 DEF vars, boxVars, scanVars, fromVars, toVars, diskVars, endVars, Parts
  <2>1. PlaceInv'
    BY DEF PlaceInv
  <2>2. ScanInv'
    BY DEF ScanInv, How
  <2>3. StageInv'
    BY DEF StageInv, Raid, Chosen
  <2>4. EndInv'
    BY DEF EndInv
  <2> QED
    BY <2>1, <2>2, <2>3, <2>4
<1>2. CASE Dialogs
  BY <1>2, DialogsPlace, DialogsScan, DialogsStage, DialogsEnd DEF Parts
<1>3. CASE MakeDisk
  BY <1>3, MakeDiskPlace, LaterScan, MakeDiskStage, MakeDiskEnd DEF Parts
<1>4. CASE Finish \/ Stopped
  BY <1>4, FinishPlace, LaterScan, FinishStage, FinishEnd DEF Parts
<1> QED
  BY <1>1, <1>2, <1>3, <1>4 DEF Next

LEMMA PartsInvariance == Spec => [](Inv /\ Parts)
<1>1. Init => Inv /\ Parts
  BY InitInv, PartsInit
<1>2. Inv /\ Parts /\ [Next]_vars => (Inv /\ Parts)'
  BY NextInv, PartsNext
<1> QED
  BY <1>1, <1>2, PTL DEF Spec

\* The installer is always at a window or a stage it knows, its list names drives
\* that are there, and what is written or made bootable is a drive.
THEOREM TypeCorrect == Spec => []TypeOK
<1>1. Inv /\ Parts => TypeOK
  <2> SUFFICES ASSUME Inv, Parts PROVE TypeOK
    OBVIOUS
  <2>1. pc \in Stages \cup {"language", "welcome", "keymap", "timezone", "scan", "modules",
                            "drives", "nodisk", "source", "menu", "target", "confirm",
                            "kind", "settings", "restore", "congratulate", "unmount",
                            "exit", "halt", "crashed"}
    BY DEF Parts, PlaceInv, Before, Choosing, PastBoot, Stages
  <2>2. erased \subseteq Drives
    BY DEF Inv, ErasedInv, Parts, PlaceInv
  <2>3. /\ choice.d1 \in Drives \cup {NoDrive} /\ choice.d2 \in Drives \cup {NoDrive}
        /\ choice.raid \in 0 .. 2 /\ choice.size \in Nat
    BY DEF Inv, ChoiceInv
  <2> QED
    BY <2>1, <2>2, <2>3 DEF Parts, PlaceInv, TypeOK
<1> QED
  BY PartsInvariance, <1>1, PTL

\* A machine that is congratulated has every stage of make_ipcop_disk behind it
\* and the modules its disks need in the initial RAM disk, unless the kernel had
\* loaded one that no bus scan lists.  Setup is left out exactly when a restore
\* was reported as a success, and never follows one (installer.c, restore.c).
THEOREM InstallsCompletely == Spec => []Complete
<1>1. Inv /\ Parts => Complete
  <2> SUFFICES ASSUME Inv, Parts PROVE Complete
    OBVIOUS
  <2>1. ASSUME pc \in {"congratulate", "setup", "unmount"}
        PROVE  DisksSeenAtBoot
    <3>1. /\ \A d \in Chosen : machine.needs[d] \subseteq kernel
          /\ kernel \subseteq machine.kernel \cup modules
          /\ SpecialModules(machine.devices, How) \subseteq modules
      BY <2>1 DEF Inv, ChoiceInv, Targets, Parts, ScanInv, Scanned, PastPartition, PastFormat,
                  PastPackages, PastSwap, PastInitramfs, PastBoot
    <3>2. initramfs = InitramfsModules(modules, Raid)
      BY <2>1 DEF Parts, StageInv, PastInitramfs, PastBoot
    <3>3. modules \subseteq initramfs
      BY <3>2 DEF InitramfsModules
    <3> QED
      BY <3>1, <3>3 DEF DisksSeenAtBoot
  <2> QED
    BY <2>1 DEF Parts, StageInv, EndInv, Complete, PastPartition, PastFormat,
                PastPackages, PastSwap, PastInitramfs, PastBoot
<1> QED
  BY PartsInvariance, <1>1, PTL

=============================================================================
