------------------------------ MODULE NetSetup ------------------------------
(***************************************************************************)
(* setup: the program the installer runs in the new system, where its      *)
(* windows come one after the other, and that root runs later from a menu. *)
(* It assigns the network cards to the colours GREEN, RED, BLUE and        *)
(* ORANGE, and keeps three records of that in step: its table networks[],  *)
(* the file ethernet/settings, and the rules by which udev names the       *)
(* interfaces at the next boot.                                            *)
(*                                                                         *)
(* Texts are left out, and what is typed into a window before it is        *)
(* accepted, but for the name of the domain.                               *)
(***************************************************************************)
EXTENDS DhcpRange, FiniteSets, Sequences, SequencesExt

CONSTANTS
  Cards,      \* the network cards
  Kernel,     \* the names the kernel gives them
  Stubborn,   \* the cards whose driver does not load
  NoIds,      \* the cards sysfs has no vendor and device ids of, such as ISA cards
  Offered,    \* the types of RED considered
  Given,      \* the colours cards are given
  Starts,     \* the situations setup is started in, see StartType
  Greens      \* sizes of the network and addresses of GREEN considered

Colours == {"GREEN", "RED", "BLUE", "ORANGE"}
Modems == {"ANALOG", "GSM3G", "ISDN"}
RedTypes == Modems \cup {"PPPOE", "PPTP", "STATIC", "DHCP"}
Entries == {"timezone", "hostname", "domain", "net", "passwords"}
MenuEntries == {"type", "scan", "addresses", "dns", "dhcphost", "isdn"}
IsdnFields == {"PROTOCOL", "TYPE", "MODULE_PARAMS", "MSN"}

\* Names of interfaces: lan-1 and so on, spare-1, ..., and those of the kernel.
Names == (Colours \X {1}) \cup ({"spare", "eth", "none"} \X Nat)
Alias(c) == <<c, 1>>
Spare(k) == <<"spare", k>>
NoDevice == <<"none", 0>>

SettingsType ==
  [type: RedTypes, dev: [Colours -> Names], count: [Colours -> 0 .. 1]]
StartType ==
  [mode: {"install", "setup"}, entries: SUBSET (Entries \cup MenuEntries \cup {"server"}), file: SettingsType,
   rules: [Cards -> Names], found: Seq(Cards), up: SUBSET Cards, writable: BOOLEAN]

ASSUME NetSetupAssumption ==
  /\ \A s \in Starts : s \in StartType /\ (s.mode = "install" => s.rules = Kernel)
  /\ Kernel \in [Cards -> Names]
  /\ Offered \subseteq RedTypes /\ Given \subseteq Colours /\ NoIds \subseteq Cards
  /\ \A g \in Greens : g \in Nat \X Nat /\ g[2] \in 0 .. g[1] - 1

\* No two interfaces have one name, neither the kernel's nor those by the rules
\* found at the start; the scan finds a card once.  The settings, shipped or
\* written, have an interface for RED exactly when its type needs one, none for
\* two colours, and lan-1 and its like only for their colour, with a card that
\* the rules name so.  A configured system has loaded the drivers of the cards
\* that are found; an installation has no other interfaces (probecard could take
\* a stray one for that of the next driver), and its new disk can be written.
ASSUME StartsAssumption ==
  /\ IsFiniteSet(Cards)
  /\ IsInjective(Kernel) /\ \A n \in Cards : Kernel[n] \in {"eth"} \X Nat
  /\ \A s \in Starts :
       /\ IsInjective(s.found)
       /\ IsInjective(s.rules) /\ \A n \in Cards : s.rules[n] # NoDevice
       /\ s.file.count["RED"] = 0 <=> s.file.type \in Modems
       /\ \A c, d \in Colours :
            /\ s.file.dev[c] = Alias(d) => c = d
            /\ s.file.dev[c] = s.file.dev[d] /\ s.file.count[c] = 1 /\ s.file.count[d] = 1 => c = d
       /\ \A c \in Colours : s.file.count[c] = 1 /\ s.file.dev[c] = Alias(c) =>
            \E n \in Cards : s.rules[n] = Alias(c)
       /\ s.mode = "setup" => ToSet(s.found) \subseteq s.up \cup Stubborn
       /\ s.mode = "install" => s.up \subseteq ToSet(s.found) /\ s.writable

VARIABLES
  mode,       \* flag_is_state: install (setupchroot) or setup
  entries,    \* the entries of the menus this user makes changes in; "server":
              \* and whether the user wants the DHCP server
  pc,         \* the window
  todo,       \* the windows of the networking step still to come (install)
  isdn,       \* ethernet/isdn and isdn_kv: the fields that have been set
  server,     \* the interface in dnsmasq.conf, if the DHCP server is on
  found,      \* the cards the hardware scan finds, in its order
  writable,   \* 70-persistent-net.rules can be opened, all through
  name, up,   \* the names of the interfaces since the boot, and those present
  nets,       \* networks[]: card, device and colour
  scanned,    \* hardware_scanned
  lost,       \* history: the colours with an interface that a scan could not list
  eth,        \* eth_kv
  file,       \* ethernet/settings
  changed,    \* changed_config
  rules,      \* the names at the next boot, by 70-persistent-net.rules
  green,      \* size of the network and address of GREEN
  main,       \* main/settings: hostname, domain, timezone
  shown       \* hostname.conf and /etc/hostname, /etc/localtime; failed: the last
              \* write of the first two did not go through

bootVars == <<mode, entries, found, name, writable>>
listVars == <<up, nets, scanned, lost>>
ethVars == <<eth, changed>>
nameVars == <<main, shown>>
moreVars == <<isdn, server>>
vars == <<bootVars, pc, todo, listVars, ethVars, file, rules, green, nameVars, moreVars>>

Install == mode = "install"

\* The windows of an installation in their order, and where a window leads to.
Order == <<"timezone", "hostname", "domain", "net", "root", "admin", "backup", "end">>
After(w) ==
  IF Install THEN Order[1 + CHOOSE i \in DOMAIN Order : Order[i] = w] ELSE "main"

ColoursIn(list) == {list[i].colour : i \in DOMAIN list} \ {"NONE"}

Init ==
  /\ \E s \in Starts :
       /\ mode = s.mode /\ entries = s.entries /\ found = s.found /\ writable = s.writable
       /\ pc = IF s.mode = "install" THEN "timezone" ELSE "main"
       /\ name = s.rules /\ rules = s.rules /\ up = s.up
       /\ file = s.file /\ eth = s.file
  /\ todo = <<>>
  /\ nets = <<>> /\ scanned = FALSE /\ lost = {}
  /\ changed = FALSE
  /\ green = <<256, 254>>
  /\ isdn = [file |-> {}, kv |-> {}]
  /\ server = NoDevice
  /\ main = [host |-> "old", domain |-> "old", zone |-> "old"]
  /\ shown = [host |-> "old", domain |-> "old", zone |-> "old", failed |-> FALSE]

Choose(entry) ==
  /\ pc = "main" /\ entry \in entries \cap Entries
  /\ pc' = entry
  /\ UNCHANGED <<bootVars, todo, listVars, ethVars, file, rules, green, nameVars, moreVars>>

-----------------------------------------------------------------------------
(* timezone.c, host_domain.c, passwords.c *)

ToWindow(w) ==
  /\ pc' = w
  /\ UNCHANGED <<bootVars, todo, listVars, ethVars, file, rules, green, moreVars>>

\* Only setup stores the choice.  The link is removed before it is made again.
Timezone ==
  /\ pc = "timezone"
  /\ \/ UNCHANGED <<main, shown>>
     \/ /\ "timezone" \in entries
        /\ \E link \in BOOLEAN : shown' = [shown EXCEPT !.zone = IF link THEN "new" ELSE "missing"]
        /\ main' = IF Install THEN main ELSE [main EXCEPT !.zone = "new"]
  /\ ToWindow(After("timezone"))

\* writehostsfiles: without hostname.conf there is an error box and no
\* /etc/hostname; its callers do not look at the result.
WithNames(host, domain) ==
  {[shown EXCEPT !.host = host, !.domain = domain, !.failed = FALSE], [shown EXCEPT !.failed = TRUE]}

\* An installation writes the files with the window for the domain.
Hostname ==
  /\ pc = "hostname"
  /\ \/ /\ "hostname" \in entries
        /\ main' = [main EXCEPT !.host = "new"]
        /\ shown' \in IF Install THEN {shown} ELSE WithNames("new", main.domain)
     \/ UNCHANGED <<main, shown>>
  /\ ToWindow(After("hostname"))

\* Mutant: Skip writes nothing.
DomainSkipSilent ==
  /\ pc = "domain"
  /\ \/ /\ "domain" \in entries
        /\ main' = [main EXCEPT !.domain = "new"]
        /\ shown' \in WithNames(main.host, "new")
     \/ UNCHANGED <<main, shown>>
  /\ ToWindow(After("domain"))

\* An installation writes the files on Skip as well, so that they exist; with
\* what was typed in last, even if it was refused.
Domain ==
  /\ pc = "domain"
  /\ \/ /\ "domain" \in entries
        /\ main' = [main EXCEPT !.domain = "new"]
        /\ shown' \in WithNames(main.host, "new")
     \/ /\ UNCHANGED main
        /\ \E typed \in IF "domain" \in entries THEN {main.domain, "invalid"} ELSE {main.domain} :
             shown' \in IF Install THEN WithNames(main.host, typed) ELSE {shown}
  /\ ToWindow(After("domain"))

\* An installation has no Go back and goes on when a password could not be set.
Password ==
  \/ pc \in {"root", "admin", "backup"} /\ ToWindow(After(pc)) /\ UNCHANGED nameVars
  \/ pc = "passwords" /\ ToWindow("main") /\ UNCHANGED nameVars

-----------------------------------------------------------------------------
(* handlenetworking: settings that cannot be read end it at once *)

NetEnter ==
  /\ pc = "net"
  /\ \/ /\ "net" \in entries
        /\ pc' = IF Install THEN "type" ELSE "menu"
        /\ eth' = file /\ changed' = FALSE
     \/ pc' = After("net") /\ UNCHANGED ethVars
  /\ UNCHANGED <<bootVars, todo, listVars, file, rules, green, nameVars, moreVars>>

MenuChoose(entry) ==
  /\ pc = "menu" /\ entry \in entries \cap MenuEntries
  /\ pc' = entry
  /\ isdn' = IF entry = "isdn" THEN [isdn EXCEPT !.kv = isdn.file] ELSE isdn
  /\ UNCHANGED <<bootVars, todo, listVars, ethVars, file, rules, green, nameVars, server>>

\* Go back leaves the menu: what has changed is written, and rc.net called.
MenuLeave ==
  /\ pc = "menu"
  /\ pc' = "main"
  /\ file' = IF changed THEN eth ELSE file
  /\ UNCHANGED <<bootVars, todo, listVars, ethVars, rules, green, nameVars, moreVars>>

WithType(e, type) ==
  IF type \in Modems THEN [e EXCEPT !.type = type, !.dev["RED"] = NoDevice, !.count["RED"] = 0]
  ELSE [e EXCEPT !.type = type, !.count["RED"] = 1]

\* redconfigtype, and in setup the look at networks[] after it.
RedType ==
  /\ pc = "type"
  /\ \/ UNCHANGED <<eth, changed>>
     \/ \E type \in Offered \ {eth.type} : eth' = WithType(eth, type) /\ changed' = TRUE
  /\ pc' = IF Install \/ (eth'.type \notin Modems /\ "RED" \notin ColoursIn(nets))
           THEN "scan" ELSE "menu"
  /\ UNCHANGED <<bootVars, todo, listVars, file, rules, green, nameVars, moreVars>>

-----------------------------------------------------------------------------
(* The cards *)

\* The cards that can be matched with the settings: the interface is there, and
\* the hardware scan or sysfs tells what card it is.
Known == {n \in up : n \in ToSet(found) \/ n \notin NoIds}

\* The colour of a card by the settings, when setup runs on a configured system.
ColourOf(n) ==
  LET cs == {c \in Colours : eth.count[c] = 1 /\ eth.dev[c] = name[n]}
  IN  IF ~Install /\ n \in Known /\ cs # {} THEN CHOOSE c \in cs : TRUE ELSE "NONE"

Entry(n, colour, there) ==
  [card |-> n, dev |-> IF n \in there THEN name[n] ELSE NoDevice, colour |-> colour]

\* scancards, once: the cards found, those of the settings that were not but are
\* known all the same, and then the drivers are loaded.  A card of the settings
\* that is not known is dropped.  Cards of one model are told apart here; the code
\* takes them in the order of the list.
Scan ==
  /\ pc = "scan"
  /\ pc' = "cards"
  /\ IF scanned THEN UNCHANGED listVars
     ELSE LET there == up \cup (ToSet(found) \ Stubborn)
              all == found \o SetToSeq({n \in Cards \ ToSet(found) : ColourOf(n) # "NONE"})
              dropped == {c \in Colours : eth.count[c] = 1 /\ \E n \in Cards \ Known : eth.dev[c] = name[n]}
          IN  /\ nets' = [i \in DOMAIN all |-> Entry(all[i], ColourOf(all[i]), there)]
              /\ up' = there
              /\ scanned' = TRUE
              /\ lost' = IF Install THEN lost ELSE lost \cup dropped
  /\ UNCHANGED <<bootVars, todo, ethVars, file, rules, green, nameVars, moreVars>>

\* manuallist, addmanual, probecard: a driver is loaded, and every interface
\* that is not in the list is added to it, those of dropped cards as well.
AddCard(n) ==
  /\ pc = "cards"
  /\ n \in Cards \ (ToSet(found) \cup Stubborn)
  /\ up' = up \cup {n}
  /\ LET new == up' \ {nets[i].card : i \in DOMAIN nets}
     IN  /\ new # {}
         /\ nets' = nets \o SetToSeq({Entry(k, "NONE", up') : k \in new})
  /\ UNCHANGED <<bootVars, pc, todo, scanned, lost, ethVars, file, rules, green, nameVars, moreVars>>

\* updatesettings with -1, and with the index of a card.
Without(e, c) == [e EXCEPT !.dev[c] = NoDevice, !.count[c] = 0]
WithCard(e, c, dev) == [e EXCEPT !.dev[c] = dev, !.count[c] = 1]

Free == Colours \ (ColoursIn(nets) \cup IF eth.type \in Modems THEN {"RED"} ELSE {})

\* cardconfig: a card is given a colour that is free, or none.
Assign(i, c) ==
  /\ pc = "cards"
  /\ c \in (Free \cap Given) \cup {"NONE"}
  /\ nets' = [nets EXCEPT ![i].colour = c]
  /\ eth' = LET bare == IF nets[i].colour = "NONE" THEN eth ELSE Without(eth, nets[i].colour)
            IN  IF c = "NONE" THEN bare ELSE WithCard(bare, c, nets[i].dev)
  /\ changed' = TRUE
  /\ lost' = lost \ {c}
  /\ UNCHANGED <<bootVars, pc, todo, up, scanned, file, rules, green, nameVars, moreVars>>

\* Select in an empty list: cardconfig(-1) reads in front of the table.
SelectNothing ==
  /\ pc = "cards" /\ nets = <<>>
  /\ pc' = "crashed"
  /\ UNCHANGED <<bootVars, todo, listVars, ethVars, file, rules, green, nameVars, moreVars>>

\* udevconfig: every card that is present gets the name of its colour, or a
\* spare one; the settings get the names of the colours.
Present == {i \in DOMAIN nets : nets[i].dev # NoDevice}

\* Mutant: all cards without a colour get the same name.
NewNameUncounted(i) ==
  IF nets[i].colour # "NONE" THEN Alias(nets[i].colour) ELSE Spare(1)

NewName(i) ==
  IF nets[i].colour # "NONE" THEN Alias(nets[i].colour)
  ELSE Spare(Cardinality({k \in Present : k <= i /\ nets[k].colour = "NONE"}))

UdevRules ==
  [n \in Cards |->
     LET is == {i \in Present : nets[i].card = n}
     IN  IF is = {} THEN Kernel[n] ELSE NewName(CHOOSE i \in is : TRUE)]
Renamed(e) ==
  [e EXCEPT !.dev = [c \in Colours |->
     IF \E i \in Present : nets[i].colour = c THEN Alias(c) ELSE e.dev[c]]]

\* The windows an installation asks next, by the type of RED and the cards.
Steps(e) ==
  <<"GREEN">>
  \o (CASE e.type \in {"PPPOE", "PPTP"} -> <<"RED">>
        [] e.type = "STATIC" -> <<"RED", "dns">>
        [] e.type = "DHCP" -> <<"dhcphost", "dns">>
        [] e.type = "ISDN" -> <<"isdn">>
        [] OTHER -> <<>>)
  \o SelectSeq(<<"BLUE", "ORANGE">>, LAMBDA c : e.count[c] = 1)

\* Mutant: setup asks them as well.
AskedAlways(e) == Steps(e)

Asked(e) == IF Install THEN Steps(e) ELSE <<>>

\* Mutant: Done does not look for a RED card.
NeedsRedNever == FALSE

NeedsRed == eth.type \notin Modems /\ "RED" \notin ColoursIn(nets)

\* Done in cardlist: there must be a GREEN card, and a RED one unless the
\* type needs none.  When no card is left for it the type may be reset.  If the
\* rules cannot be opened udevconfig returns without a word.
CardsDone ==
  /\ pc = "cards"
  /\ "GREEN" \in ColoursIn(nets)
  /\ NeedsRed => \A i \in DOMAIN nets : nets[i].colour # "NONE"
  /\ LET e == IF NeedsRed THEN WithType(eth, "ANALOG") ELSE eth
     IN  /\ changed' = (changed \/ NeedsRed)
         /\ eth' = IF changed' /\ writable THEN Renamed(e) ELSE e
         /\ rules' = IF changed' /\ writable THEN UdevRules ELSE rules
         /\ todo' = Asked(e)
  /\ pc' = IF Install THEN "ask" ELSE "menu"
  /\ UNCHANGED <<bootVars, listVars, file, green, nameVars, moreVars>>

-----------------------------------------------------------------------------
(* Addresses, the DHCP server *)

\* changeaddress: an installation insists on a valid address.  Only its DHCP
\* window looks at GREEN's.
AskAddress ==
  /\ pc = "ask" /\ todo # <<>> /\ Head(todo) \in Colours
  /\ green' \in IF Head(todo) = "GREEN" /\ "addresses" \in entries THEN Greens ELSE {green}
  /\ changed' = TRUE
  /\ todo' = Tail(todo)
  /\ UNCHANGED <<bootVars, pc, listVars, eth, file, rules, nameVars, moreVars>>

\* A window is the next one to be asked, or chosen from the menu.
Open(w) == (pc = "ask" /\ todo # <<>> /\ Head(todo) = w) \/ pc = w

CloseWindow ==
  IF Install THEN todo' = Tail(todo) /\ UNCHANGED pc ELSE pc' = "menu" /\ UNCHANGED todo

\* With OK, valid values are stored; Skip or Go back leaves the settings alone.
Optional(w) ==
  /\ Open(w)
  /\ changed' \in {changed, TRUE}
  /\ CloseWindow
  /\ UNCHANGED <<bootVars, listVars, eth, file, rules, green, nameVars, moreVars>>

ChangeDnsGateway == Optional("dns")

\* changehostname: the name that a DHCP server of the provider is told.
ChangeHostname == Optional("dhcphost")

\* handleisdn: its windows change isdn_kv (changeprotocol, changeparameters,
\* changecard, changemsn), OK writes that to the file and Go back forgets it.
Isdn(field) ==
  /\ Open("isdn") /\ "isdn" \in entries
  /\ isdn' = [isdn EXCEPT !.kv = @ \cup {field}]
  /\ UNCHANGED <<bootVars, pc, todo, listVars, ethVars, file, rules, green, nameVars, server>>

IsdnLeave ==
  /\ Open("isdn")
  /\ \E left \in {isdn.kv, isdn.file} : isdn' = [file |-> left, kv |-> left]
  /\ CloseWindow
  /\ UNCHANGED <<bootVars, listVars, ethVars, file, rules, green, nameVars, server>>

\* selectchangeaddress: the colours with a device.
MenuAddress ==
  /\ pc = "addresses"
  /\ \/ pc' = "menu" /\ UNCHANGED changed
     \/ /\ UNCHANGED pc
        /\ \E c \in Colours :
             /\ c = "RED" => eth.type \in {"STATIC", "PPPOE", "PPTP"}
             /\ eth.dev[c] # NoDevice
        /\ changed' = TRUE
  /\ UNCHANGED <<bootVars, todo, listVars, eth, file, rules, green, nameVars, moreVars>>

\* All asked: the settings are written.
Save ==
  /\ pc = "ask" /\ todo = <<>>
  /\ file' = eth
  /\ pc' = "dhcp"
  /\ UNCHANGED <<bootVars, todo, listVars, ethVars, rules, green, nameVars, moreVars>>

\* changedhcpserver offers Pool(green), which is written to dhcp/settings however
\* the window is left; with the server switched on, dnsmasq.conf names the
\* interface of GREEN.  green is not looked at again and forgotten.
Dhcp ==
  /\ pc = "dhcp"
  /\ pc' = After("net")
  /\ server' = IF "server" \in entries THEN file.dev["GREEN"] ELSE server
  /\ green' = <<256, 254>>
  /\ UNCHANGED <<bootVars, todo, listVars, ethVars, file, rules, nameVars, isdn>>

-----------------------------------------------------------------------------
\* The machine is booted, after an installation or with setup closed.  The
\* drivers of the cards in the settings are loaded, and of those that are found.
Reboot ==
  /\ pc = "end" \/ (pc = "main" /\ name # rules)
  /\ mode' = "setup"
  /\ pc' = "main"
  /\ name' = rules
  /\ up' = (ToSet(found) \cup {n \in Cards \ ToSet(found) : \E c \in Colours : file.dev[c] = rules[n]})
             \ Stubborn
  /\ nets' = <<>> /\ scanned' = FALSE
  /\ UNCHANGED <<entries, found, writable, lost, todo, ethVars, file, rules, green, nameVars, moreVars>>

\* setup is a program with one user, who need not do anything.
Idle == pc \in {"main", "crashed"} /\ UNCHANGED vars

Windows ==
  \/ \E e \in Entries : Choose(e)
  \/ Timezone \/ Hostname \/ Domain \/ Password
  \/ NetEnter \/ (\E e \in MenuEntries : MenuChoose(e)) \/ MenuLeave \/ RedType

CardWindows ==
  \/ Scan \/ (\E n \in Cards : AddCard(n)) \/ SelectNothing \/ CardsDone
  \/ \E i \in DOMAIN nets, c \in Colours \cup {"NONE"} : Assign(i, c)

MoreWindows ==
  \/ AskAddress \/ MenuAddress \/ Save \/ Dhcp
  \/ ChangeDnsGateway \/ ChangeHostname \/ (\E f \in IsdnFields : Isdn(f)) \/ IsdnLeave

Next == Windows \/ CardWindows \/ MoreWindows \/ Reboot \/ Idle

Spec == Init /\ [][Next]_vars

-----------------------------------------------------------------------------
TypeOK ==
  /\ file \in SettingsType /\ eth \in SettingsType
  /\ \A i \in DOMAIN nets :
       nets[i] \in [card: Cards, dev: Names, colour: Colours \cup {"NONE"}]
  /\ rules \in [Cards -> Names] /\ name \in [Cards -> Names]
  /\ pc \in Entries \cup MenuEntries
              \cup {"main", "menu", "cards", "ask", "dhcp", "root", "admin", "backup",
                    "end", "crashed"}
  /\ isdn \in [file: SUBSET IsdnFields, kv: SUBSET IsdnFields]
  /\ todo # <<>> => Install

\* At rest: the windows that change the settings are closed.
Closed == pc \in {"main", "root", "admin", "backup", "end"}

\* However the cards are moved between the colours, over windows, visits of
\* the menu and reboots: once setup is closed
\*   - a card that is present and has a colour will have, at the next boot, the
\*     very name the settings have for the colour; RED may have none in them, as
\*     its type was changed to that of a modem and back;
\*   - no two cards will have one name;
\*   - lan-1 and its like are in the settings only if a card will have that name,
\*     but for the colours whose card the scan could not list.
CardsKeepColours ==
  Closed =>
    /\ \A i \in Present :
         LET c == nets[i].colour
         IN  /\ c # "NONE" => \/ file.dev[c] = rules[nets[i].card]
                              \/ c = "RED" /\ file.dev[c] = NoDevice
             /\ c \in {"GREEN", "BLUE", "ORANGE"} => file.count[c] = 1
    /\ \A m, n \in up : rules[m] = rules[n] => m = n
    /\ \A c \in Colours \ lost : file.count[c] = 1 /\ file.dev[c] = Alias(c) =>
         \E n \in Cards : rules[n] = Alias(c)

\* The settings have an interface RED exactly when its type is not a modem's,
\* and after an installation there is a card for it.
RedFollowsType ==
  Closed =>
    /\ file.count["RED"] = 0 <=> file.type \in Modems
    /\ Install /\ scanned /\ file.count["RED"] = 1 => "RED" \in ColoursIn(nets)

\* The names in the files of the system are those of the settings once the
\* window for the domain is left, but for a domain that was refused, and unless
\* they could not be written.
NamesAgree ==
  pc \notin {"timezone", "hostname", "domain"} /\ ~shown.failed =>
    shown.host = main.host /\ shown.domain \in {main.domain, "invalid"}

\* The range offered for the DHCP server can be used, except on a network of
\* four addresses with GREEN the first host; and a server that was switched on
\* in the installation serves the interface that is GREEN from then on, though
\* the file is written before the interfaces have the names in it.
RangeServes ==
  /\ pc = "dhcp" /\ green # <<4, 1>> => Serves(green[1], green[2])
  /\ Closed /\ server # NoDevice => server = file.dev["GREEN"]
=============================================================================
