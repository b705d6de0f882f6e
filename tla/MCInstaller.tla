---------------------------- MODULE MCInstaller ----------------------------
EXTENDS Installer, TLC

CONSTANTS hda, hdb, sda, sdb, sdc, sr0

IdeInOrder == <<hda, hdb>>
MediaOf == hda :> "disk" @@ hdb :> "other"
\* hda is too small, hdb (a tape) and sda just large enough; sdb is a large USB
\* key that may also be a target, sdc a small one.
SizeOf == hda :> 479 @@ hdb :> 480 @@ sda :> 480 @@ sdb :> 3000 @@ sdc :> 250 @@ sr0 :> 0

Pci(class, aliases) == [bus |-> "pci", class |-> class, nvidia |-> FALSE, aliases |-> aliases]
Forced(module) == [bus |-> "pci", class |-> "bridge_other", nvidia |-> TRUE, aliases |-> <<module>>]
Usb(class) == [bus |-> "usb", class |-> class, nvidia |-> FALSE, aliases |-> <<"cdc_ether">>]
Controllers == {Pci("sata", <<"ahci", "ata_generic">>), Pci("ide", <<"piix">>),
                Pci("usb_host", <<"ehci-hcd">>), Pci("storage", <<>>)}
Bridge == {Pci("network", <<>>), Forced("i2c-nforce2")}

UsbDisk == {"ehci-hcd", "sd_mod", "usb-storage"}

Machine(drives, medium) ==
  [drives |-> drives, late |-> {}, medium |-> medium, backup |-> drives \cap {sdb},
   needs |-> [d \in Drives |-> IF d = sda THEN {"ahci", "sd_mod"}
                               ELSE IF d \in IdeDrives THEN {"piix", "ide-gd_mod"}
                               ELSE IF d \in {sdb, sdc} THEN UsbDisk ELSE {}],
   kernel |-> {"ahci", "piix", "ehci-hcd"},
   devices |-> Controllers \cup {Forced("forcedeth")}, online |-> TRUE, mdadm |-> TRUE,
   arch |-> "i386", memory |-> 512, maps |-> TRUE]

\* Installed from a CD or from a small or a large key, over the network or
\* not at all; with disks that settle late or need modules loaded by hand, and
\* keys the kernel drives though nothing lists their modules; with the key as
\* the only disk.
SomeMachines ==
  {[Machine({sda, sdb, sr0}, {sr0}) EXCEPT !.online = online, !.arch = arch, !.maps = online] :
     online \in BOOLEAN, arch \in {"i386", "x86_64"}}
  \cup {[Machine({hda, hdb, sda, sdb}, {sdb}) EXCEPT !.mdadm = mdadm, !.devices = Controllers \cup Bridge,
            !.kernel = @ \cup {"ide-gd_mod"}] : mdadm \in BOOLEAN}
  \cup {[Machine({sda, sdb, sdc}, {sdc, sdb}) EXCEPT !.late = {sdb}, !.needs[sda] = {"sata_old", "sd_mod"},
           !.kernel = UsbDisk, !.devices = {Usb("comm")}],
        [Machine({sdb}, {sdb}) EXCEPT !.online = FALSE, !.memory = 64],
        [Machine({hda, hdb, sdc}, {}) EXCEPT !.late = {hda}]}

Command ==
  [ip |-> FALSE, bootif |-> "absent", flag |-> "cdromboot", ipcopboot |-> "cdrom",
   codepath |-> 0, swap |-> -1, disk |-> 0, manual |-> FALSE, nombr |-> FALSE,
   nousb |-> FALSE, nopcmcia |-> FALSE, modules |-> FALSE, lang |-> "", serial |-> TRUE]

SomeOptions ==
  {[Command EXCEPT !.swap = swap, !.disk = disk] : swap \in {-1, 0, 64}, disk \in {0, 470, 480, 700}}
  \cup {[Command EXCEPT !.ip = ip, !.bootif = bootif, !.codepath = path, !.nombr = TRUE] :
          ip \in BOOLEAN, bootif \in BootIfs, path \in 0 .. 2}
  \cup {[Command EXCEPT !.flag = flag, !.ipcopboot = boot, !.manual = TRUE, !.swap = 100] :
          flag \in Flags, boot \in BootWords}
  \cup {[Command EXCEPT !.modules = TRUE, !.nousb = TRUE, !.lang = "de"],
        [Command EXCEPT !.nousb = TRUE, !.nopcmcia = TRUE, !.lang = "xx", !.serial = FALSE]}

SomeLanguages ==
  <<[name |-> "xx", inuse |-> FALSE], [name |-> "de", inuse |-> TRUE], [name |-> "en", inuse |-> TRUE]>>
=============================================================================
