---------------------------- MODULE HardwareScan ----------------------------
(***************************************************************************)
(* What scan_hardware of hardware.c makes of the devices on the PCI and    *)
(* USB buses: network cards, and the special modules that the initial RAM  *)
(* disk of the new system needs to reach its disk.  The installer and      *)
(* setup both call it; setup only looks for network cards.                 *)
(***************************************************************************)
EXTENDS Integers, Sequences

PciClasses == {"scsi", "sata", "ide", "storage", "network", "bridge_other", "pcmcia",
               "usb_host", "other"}
UsbClasses == {"per_interface", "comm", "wireless", "vendor_spec", "other"}

\* aliases: the modules that modules.alias names for the device, in its order.
DeviceType ==
  [bus: {"pci"}, class: PciClasses, nvidia: BOOLEAN, aliases: Seq(STRING)]
    \cup [bus: {"usb"}, class: UsbClasses, nvidia: {FALSE}, aliases: Seq(STRING)]
HowType == [installing: BOOLEAN, nopcmcia: BOOLEAN, nousb: BOOLEAN]

\* scan_hardware(0, 0, 0, 0) in setup.
BySetup == [installing |-> FALSE, nopcmcia |-> FALSE, nousb |-> FALSE]

\* find_modulename: the first line that matches.
ModuleName(d) == IF d.aliases = <<>> THEN "" ELSE Head(d.aliases)

\* The nVidia network chips that call themselves a bridge.
Forcedeth(d) == d.bus = "pci" /\ d.class = "bridge_other" /\ d.nvidia

PciType(d, how) ==
  IF d.class = "network" \/ Forcedeth(d) THEN "network"
  ELSE IF /\ how.installing
          /\ \/ d.class \in {"scsi", "sata", "ide", "storage"}
             \/ d.class = "pcmcia" /\ ~how.nopcmcia
             \/ d.class = "usb_host" /\ ~how.nousb
       THEN "specialmodule" ELSE "none"

\* USB devices are taken for network cards if they can be one.
UsbType(d, how) ==
  IF d.class # "other" /\ ~how.nousb THEN "network" ELSE "none"

Type(d, how) == IF d.bus = "pci" THEN PciType(d, how) ELSE UsbType(d, how)

\* Only a device with a module is listed, and of the bridges only those driven
\* by forcedeth.
ListedPci(d) ==
  ModuleName(d) # "" /\ (Forcedeth(d) => ModuleName(d) = "forcedeth")
Listed(d) == IF d.bus = "pci" THEN ListedPci(d) ELSE ModuleName(d) # ""

NetworkCards(devices, how) ==
  {d \in devices : Type(d, how) = "network" /\ Listed(d)}

\* The modules that go with the kinds of controllers, known by name or not.
KindModules(devices, how) ==
  LET Has(classes) ==
        \E d \in devices : d.bus = "pci" /\ d.class \in classes
                           /\ PciType(d, how) = "specialmodule"
  IN  UNION {IF Has({"scsi", "sata"}) THEN {"sd_mod"} ELSE {},
             IF Has({"ide"}) THEN {"ide-gd_mod"} ELSE {},
             IF Has({"usb_host"}) THEN {"sd_mod", "usb-storage"} ELSE {}}

SpecialModules(devices, how) ==
  KindModules(devices, how)
    \cup {ModuleName(d) : d \in {e \in devices : Type(e, how) = "specialmodule" /\ Listed(e)}}

\* create_initramfs: what is written to /etc/modules.initramfs.
InitramfsModules(special, raid) ==
  {"ext3", "jbd", "ehci-hcd", "ohci-hcd", "uhci-hcd", "hid", "usbhid", "pcspkr"}
    \cup special \cup (IF raid THEN {"md-mod", "raid1"} ELSE {})
=============================================================================
