---------------------------- MODULE MCNetSetup ----------------------------
EXTENDS NetSetup, TLC

CONSTANTS c1, c2, isa

KernelNames == c1 :> <<"eth", 0>> @@ c2 :> <<"eth", 1>> @@ isa :> <<"eth", 2>>
SetupNames == c1 :> Alias("GREEN") @@ c2 :> Alias("RED") @@ isa :> Alias("BLUE")

\* The settings shipped in var/ipcop/ethernet.
Shipped ==
  [type |-> "DHCP",
   dev |-> "GREEN" :> <<"eth", 0>> @@ "RED" :> <<"eth", 1>> @@ "ORANGE" :> <<"eth", 2>>
           @@ "BLUE" :> <<"eth", 3>>,
   count |-> [c \in Colours |-> 1]]

\* A system so installed, with BLUE on the card that has to be added by hand;
\* what was shipped for ORANGE is still there.
Configured ==
  [Shipped EXCEPT !.dev = [c \in Colours |-> IF c = "ORANGE" THEN @[c] ELSE Alias(c)]]

Names3 == {"timezone", "hostname", "domain"}

Start(m, visits, settings, names, cards, there) ==
  [mode |-> m, entries |-> visits, file |-> settings, rules |-> names,
   found |-> cards, up |-> there, writable |-> TRUE]

\* An installation and a visit of setup, each of the networking, of the networking
\* but for the cards, and of the other windows; a visit with rules that cannot be
\* written; a system with a card the scan does not find but sysfs knows; and one
\* whose settings were lost and whose cards the scan does not find.
CardMenu == {"net", "type", "scan"}

SomeStarts ==
  {Start("install", {"net", "addresses", "isdn"}, [Shipped EXCEPT !.type = "ISDN", !.count["RED"] = 0],
         KernelNames, <<c1, c2>>, {c1}),
   Start("install", {"net", "scan", "server"}, Shipped, KernelNames, <<c1, c2>>, {c1}),
   Start("install", Names3, Shipped, KernelNames, <<c1, c2>>, {c1}),
   Start("setup", CardMenu, Configured, SetupNames, <<c1, c2>>, {c1, c2, isa}),
   [Start("setup", CardMenu, Configured, SetupNames, <<c1, c2>>, {c1, c2, isa}) EXCEPT !.writable = FALSE],
   Start("setup", {"net", "scan"}, Configured, SetupNames, <<c1>>, {c1, c2, isa}),
   Start("setup", {"net", "addresses", "dns", "dhcphost", "isdn"}, Configured, SetupNames, <<c1, c2>>,
         {c1, c2, isa}),
   Start("setup", Names3 \cup {"passwords"}, Configured, SetupNames, <<>>, {}),
   Start("setup", {"net", "type"}, Shipped, SetupNames, <<>>, {c1, c2, isa})}

SomeGreens == {<<256, 254>>, <<8, 5>>, <<4, 1>>, <<4, 2>>}
=============================================================================
