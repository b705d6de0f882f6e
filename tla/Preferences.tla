----------------------------- MODULE Preferences -----------------------------
(***************************************************************************)
(* What the installer knows before it touches a disk: the kernel command   *)
(* line (installer.c) and the choice of a language (language.c).           *)
(***************************************************************************)
EXTENDS DiskPlan, Sequences

\* ip= and BOOTIF= come from PXE; bootif says whether a card has that address.
BootIfs == {"absent", "a card", "no card"}
Flags == {"cdromboot", "floppyboot", "none"}
BootWords == {"usb", "net", "cdrom", "other"}
OptionType ==
  [ip: BOOLEAN, bootif: BootIfs, flag: Flags, ipcopboot: BootWords, codepath: 0 .. 3,
   swap: Int, disk: Nat, manual: BOOLEAN, nombr: BOOLEAN, nousb: BOOLEAN,
   nopcmcia: BOOLEAN, modules: BOOLEAN, lang: STRING, serial: BOOLEAN]

\* read_netboot_values.
Netbooted(o) == o.ip \/ o.bootif # "absent"

BootMedium(o) ==
  IF Netbooted(o) THEN "network"
  ELSE IF o.flag = "floppyboot" THEN "floppy"
  ELSE IF o.flag = "none" \/ o.ipcopboot = "other" THEN "unknown"
  ELSE IF o.ipcopboot = "net" THEN "network" ELSE o.ipcopboot

\* swap= and disk=; a value out of bounds is ignored.
SwapWish(o) == IF o.swap \in SwapWishes THEN o.swap ELSE -1
NoLimit == 2147483647
DiskLimit(o) == IF o.disk < DISK_MINIMUM THEN NoLimit ELSE o.disk

\* codepath= makes a tester's way through the network windows.
CodePath(o) == IF o.codepath \in {1, 2} THEN o.codepath ELSE 0

-----------------------------------------------------------------------------
(* handlelanguage.  A line of language.lst has a name and says whether the *)
(* installer can use the language.                                         *)

Line == [name: STRING, inuse: BOOLEAN]
NoLanguage == "none"

Usable(list) == SelectSeq(list, LAMBDA l : l.inuse)

\* The number lang= stands for is the number of languages kept so far when its
\* line is read, whether the language itself is kept or not.
AskedFor(list, lang) ==
  LET line == CHOOSE i \in DOMAIN list : list[i].name = lang
  IN  Len(Usable(SubSeq(list, 1, line - 1)))

Named(list, lang) == \E i \in DOMAIN list : list[i].name = lang

\* The languages that may come out of it: what lang= says without a question,
\* nothing if its number is too large, or any choice of the menu.
Languages(list, lang) ==
  LET usable == Usable(list)
  IN  IF usable = <<>> THEN {"en"}
      ELSE IF Named(list, lang)
      THEN {IF AskedFor(list, lang) < Len(usable)
            THEN usable[AskedFor(list, lang) + 1].name ELSE NoLanguage}
      ELSE {usable[i].name : i \in DOMAIN usable}
=============================================================================
