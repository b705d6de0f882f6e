--------------------------- MODULE NetSetupProofs ---------------------------
(***************************************************************************)
(* setup, for any cards, settings and user: the three records of the       *)
(* assignment of the cards agree whenever it is closed, no two interfaces  *)
(* get one name, RED follows its type, the names of the system are those   *)
(* of the settings; and the range offered for the DHCP server can be used  *)
(* on every network but the smallest.                                      *)
(***************************************************************************)
EXTENDS NetSetup, FiniteSetTheorems, SequenceTheorems, TLAPS

EntryType == [card: Cards, dev: Names, colour: Colours \cup {"NONE"}]
Lan == {"GREEN", "BLUE", "ORANGE"}

\* The windows outside the networking step, those inside it but the list of
\* cards, those before the list in an installation and those after it.
Outside == {"timezone", "hostname", "domain", "passwords", "net", "main",
            "root", "admin", "backup", "end"}
Inside == {"menu", "type", "scan", "addresses", "dns", "dhcphost", "isdn", "ask"}
First == {"timezone", "hostname", "domain", "net", "type", "scan"}
Final == {"dhcp", "root", "admin", "backup", "end"}
SetupOnly == {"main", "menu", "addresses", "dns", "dhcphost", "isdn", "passwords"}

Typed ==
  /\ file \in SettingsType /\ eth \in SettingsType
  /\ nets \in Seq(EntryType)
  /\ rules \in [Cards -> Names] /\ name \in [Cards -> Names]
  /\ pc \in Outside \cup Inside \cup {"cards", "dhcp", "crashed"}
  /\ isdn \in [file: SUBSET IsdnFields, kv: SUBSET IsdnFields]
  /\ mode \in {"install", "setup"} /\ scanned \in BOOLEAN /\ changed \in BOOLEAN
  /\ found \in Seq(Cards) /\ up \in SUBSET Cards /\ writable \in BOOLEAN

\* Cards, colours and names occur once; an interface has its name since the boot.
Distinct ==
  /\ IsInjective(found) /\ IsInjective(name) /\ IsInjective(rules)
  /\ \A n \in Cards : name[n] # NoDevice /\ rules[n] # NoDevice
  /\ \A i, k \in DOMAIN nets : nets[i].card = nets[k].card => i = k
  /\ \A i, k \in DOMAIN nets :
       nets[i].colour = nets[k].colour /\ nets[i].colour # "NONE" => i = k
  /\ \A i \in DOMAIN nets : nets[i].dev \in {name[nets[i].card], NoDevice}

\* How far setup is.
Stage ==
  /\ pc \in SetupOnly => ~Install
  /\ pc \in Final \cup {"ask"} => Install
  /\ todo # <<>> => pc = "ask"
  /\ Install /\ pc \in First => ~scanned
  /\ pc = "cards" => scanned
  /\ ~scanned => nets = <<>> /\ name = rules
  /\ ~writable => name = rules
  /\ Install => name = Kernel /\ writable

\* Settings and the list: an interface that is present has the name it will
\* have, one that is not has none; RED has an interface as its type says, and
\* there is a card.
Agree(e) ==
  \A i \in DOMAIN nets : nets[i].colour # "NONE" =>
    /\ nets[i].colour \in Lan => e.count[nets[i].colour] = 1
    /\ i \in Present => \/ e.dev[nets[i].colour] = rules[nets[i].card]
                        \/ nets[i].colour = "RED" /\ e.dev["RED"] = NoDevice
    /\ i \notin Present => e.dev[nets[i].colour] = NoDevice
RedAgrees(e) == e.count["RED"] = 0 <=> e.type \in Modems
RedThere(e) == e.count["RED"] = 1 => "RED" \in ColoursIn(nets)

\* lan-1 is for its own colour, and a card has the name, by the rules or as
\* soon as they are written from the list.
Own(e) == \A c, d \in Colours : e.dev[c] = Alias(d) => c = d
Listed == {nets[i].colour : i \in Present}
Traced(e, C) ==
  \A c \in C : e.count[c] = 1 /\ e.dev[c] = Alias(c) /\ c \notin lost =>
    IF scanned /\ writable THEN c \in Listed ELSE \E n \in Cards : rules[n] = Alias(c)

\* In the list of cards the settings are on the way.
OnTheWay ==
  /\ \A i \in DOMAIN nets : nets[i].colour # "NONE" =>
       /\ nets[i].colour \in Lan => eth.count[nets[i].colour] = 1
       /\ i \in Present /\ ~(changed /\ writable) =>
            \/ eth.dev[nets[i].colour] = rules[nets[i].card]
            \/ nets[i].colour = "RED" /\ eth.dev["RED"] = NoDevice
       /\ i \notin Present => eth.dev[nets[i].colour] = NoDevice
  /\ eth.type \in Modems => eth.count["RED"] = 0
  /\ eth.type \notin Modems /\ "RED" \in ColoursIn(nets) => eth.count["RED"] = 1
  /\ Traced(eth, Lan)
  /\ writable => \A c \in Colours \ Listed, d \in Colours : eth.dev[c] = Alias(d) => c = d
  /\ writable /\ ~changed => Own(eth)

Records ==
  /\ pc \in Inside =>
       /\ Agree(eth) /\ RedAgrees(eth) /\ (writable => Own(eth))
       /\ Traced(eth, IF pc = "scan" THEN Lan ELSE Colours)
  /\ pc \in Outside \cup {"dhcp"} =>
       /\ Agree(file) /\ (writable => Own(file))
       /\ Traced(file, Colours)
  /\ RedAgrees(file)
  /\ pc = "ask" => RedThere(eth)
  /\ Install /\ scanned /\ pc \in Final => RedThere(file)
  /\ ~Install /\ pc \in Inside \cup {"cards"} /\ ~changed => file = eth
  /\ pc = "cards" => OnTheWay

\* The names are out of step only between two windows of an installation.
NameType ==
  [host: {"old", "new"}, domain: {"old", "new", "invalid"}, zone: {"old", "new", "missing"}]
ShownType == [host: {"old", "new"}, domain: {"old", "new", "invalid"}, zone: {"old", "new", "missing"},
              failed: BOOLEAN]
NamesKept ==
  /\ main \in NameType /\ shown \in ShownType
  /\ ~(Install /\ pc = "domain") /\ ~shown.failed =>
       shown.host = main.host /\ shown.domain \in {main.domain, "invalid"}

\* When all drivers load: the DHCP server serves the interface GREEN.
GreenIs(e) == e.dev["GREEN"] = Alias("GREEN")
Served ==
  /\ server \in {NoDevice, Alias("GREEN")}
  /\ server # NoDevice => GreenIs(file) /\ writable
  /\ server # NoDevice /\ ~Install /\ pc \in Inside => GreenIs(eth)
  /\ pc = "ask" => GreenIs(eth)
  /\ pc = "dhcp" => GreenIs(file)
  /\ Install /\ pc = "cards" /\ "GREEN" \in ColoursIn(nets) => changed
  /\ \A i \in DOMAIN nets : nets[i].dev # NoDevice

Base == Typed /\ Distinct /\ Stage /\ Records /\ NamesKept
Inv == Base /\ (Stubborn = {} => Served)

-----------------------------------------------------------------------------
(* Sequences made of sets, and the order of the windows.                   *)

LEMMA SeqOfSet ==
  ASSUME NEW S, IsFiniteSet(S)
  PROVE  /\ SetToSeq(S) \in Seq(S)
         /\ IsInjective(SetToSeq(S))
         /\ \A x \in S : \E i \in DOMAIN SetToSeq(S) : SetToSeq(S)[i] = x
<1>1. Cardinality(S) \in Nat /\ ExistsBijection(1 .. Cardinality(S), S)
  BY FS_CardinalityType
<1>2. \E f \in [1 .. Cardinality(S) -> S] : IsInjective(f)
  BY <1>1 DEF ExistsBijection, Bijection, Injection
<1> DEFINE q == SetToSeq(S)
<1>3. q \in [1 .. Cardinality(S) -> S] /\ IsInjective(q)
  BY <1>2 DEF SetToSeq
<1> HIDE DEF q
<1>4. q \in Seq(S)
  BY <1>1, <1>3, SeqDef
<1>5. q \in Surjection(1 .. Cardinality(S), S)
  <2>1. q \in Injection(1 .. Cardinality(S), S)
    BY <1>3 DEF Injection
  <2>2. Cardinality(1 .. Cardinality(S)) = Cardinality(S)
    BY <1>1, FS_Interval
  <2> QED
    BY <2>1, <2>2, FS_Injection
<1>6. \A x \in S : \E i \in DOMAIN q : q[i] = x
  BY <1>3, <1>5 DEF Surjection
<1> QED
  BY <1>3, <1>4, <1>6 DEF q

\* Two lists without repetitions, nothing in common.
LEMMA Joined ==
  ASSUME NEW S, NEW s \in Seq(S), NEW t \in Seq(S)
  PROVE  /\ s \o t \in Seq(S)
         /\ DOMAIN s = 1 .. Len(s) /\ Len(s) \in Nat
         /\ DOMAIN (s \o t) = 1 .. Len(s) + Len(t)
         /\ \A i \in DOMAIN (s \o t) :
              \/ i \in DOMAIN s /\ (s \o t)[i] = s[i]
              \/ i - Len(s) \in DOMAIN t /\ i > Len(s) /\ (s \o t)[i] = t[i - Len(s)]
<1>1. /\ s \o t \in Seq(S) /\ Len(s \o t) = Len(s) + Len(t)
      /\ \A i \in 1 .. Len(s) + Len(t) :
           (s \o t)[i] = IF i <= Len(s) THEN s[i] ELSE t[i - Len(s)]
  BY ConcatProperties
<1>2. /\ Len(s) \in Nat /\ Len(t) \in Nat
      /\ DOMAIN s = 1 .. Len(s) /\ DOMAIN t = 1 .. Len(t) /\ DOMAIN (s \o t) = 1 .. Len(s \o t)
  BY <1>1, LenProperties
<1> QED
  BY <1>1, <1>2

LEMMA JoinedParts ==
  ASSUME NEW S, NEW s \in Seq(S), NEW t \in Seq(S)
  PROVE  /\ \A i \in DOMAIN s : i \in DOMAIN (s \o t) /\ (s \o t)[i] = s[i]
         /\ \A k \in DOMAIN t : k + Len(s) \in DOMAIN (s \o t) /\ (s \o t)[k + Len(s)] = t[k]
<1>1. /\ s \o t \in Seq(S) /\ Len(s \o t) = Len(s) + Len(t)
      /\ \A i \in 1 .. Len(s) + Len(t) :
           (s \o t)[i] = IF i <= Len(s) THEN s[i] ELSE t[i - Len(s)]
  BY ConcatProperties
<1>2. /\ Len(s) \in Nat /\ Len(t) \in Nat
      /\ DOMAIN s = 1 .. Len(s) /\ DOMAIN t = 1 .. Len(t) /\ DOMAIN (s \o t) = 1 .. Len(s \o t)
  BY <1>1, LenProperties
<1>3. ASSUME NEW k \in DOMAIN t
      PROVE  k + Len(s) \in DOMAIN (s \o t) /\ (s \o t)[k + Len(s)] = t[k]
  <2>1. k + Len(s) \in 1 .. Len(s) + Len(t) /\ ~(k + Len(s) <= Len(s)) /\ k + Len(s) - Len(s) = k
    BY <1>2
  <2> QED
    BY <1>1, <1>2, <2>1
<1> QED
  BY <1>1, <1>2, <1>3

LEMMA JoinedInjective ==
  ASSUME NEW S, NEW s \in Seq(S), NEW t \in Seq(S), IsInjective(s), IsInjective(t),
         \A i \in DOMAIN s, k \in DOMAIN t : s[i] # t[k]
  PROVE  IsInjective(s \o t)
<1>1. SUFFICES ASSUME NEW i \in DOMAIN (s \o t), NEW k \in DOMAIN (s \o t),
                      (s \o t)[i] = (s \o t)[k]
               PROVE  i = k
  BY DEF IsInjective
<1>2. i \in Int /\ k \in Int /\ Len(s) \in Int
  BY Joined
<1>3. \/ i \in DOMAIN s /\ (s \o t)[i] = s[i]
      \/ i - Len(s) \in DOMAIN t /\ (s \o t)[i] = t[i - Len(s)]
  BY Joined
<1>4. \/ k \in DOMAIN s /\ (s \o t)[k] = s[k]
      \/ k - Len(s) \in DOMAIN t /\ (s \o t)[k] = t[k - Len(s)]
  BY Joined
<1> QED
  BY <1>1, <1>2, <1>3, <1>4 DEF IsInjective

LEMMA ListParts ==
  ASSUME Typed
  PROVE  /\ \A i \in DOMAIN nets : nets[i] \in EntryType
         /\ DOMAIN nets = 1 .. Len(nets) /\ Len(nets) \in Nat
         /\ ToSet(found) \subseteq Cards
BY ElementOfSeq, LenProperties DEF ToSet, Typed

LEMMA WindowOrder ==
  ASSUME Install
  PROVE  /\ After("timezone") = "hostname" /\ After("hostname") = "domain" /\ After("domain") = "net"
         /\ After("net") = "root" /\ After("root") = "admin" /\ After("admin") = "backup"
         /\ After("backup") = "end"
<1>1. DOMAIN Order = 1 .. 8
  BY DEF Order
<1>2. ASSUME NEW k \in 1 .. 7
      PROVE  After(Order[k]) = Order[k + 1]
  <2> DEFINE c == CHOOSE i \in DOMAIN Order : Order[i] = Order[k]
  <2>1. c = k
    BY <1>1 DEF Order
  <2>2. After(Order[k]) = Order[1 + c]
    BY DEF After
  <2> HIDE DEF c
  <2>3. 1 + c = k + 1
    BY <2>1
  <2> QED
    BY <2>2, <2>3
<1> QED
  BY <1>2 DEF Order

-----------------------------------------------------------------------------
(* Changes of the settings.                                                *)

LEMMA SettingsParts ==
  ASSUME NEW e \in SettingsType
  PROVE  /\ e.type \in RedTypes /\ e.dev \in [Colours -> Names] /\ e.count \in [Colours -> 0 .. 1]
         /\ e = [type |-> e.type, dev |-> e.dev, count |-> e.count]
         /\ "RED" \in Colours /\ Lan \subseteq Colours /\ "RED" \notin Lan
         /\ NoDevice \in Names
BY DEF SettingsType, Colours, Lan, NoDevice, Names

\* Several fields at once.
LEMMA TwoFields ==
  ASSUME NEW e \in SettingsType, NEW d, NEW k
  PROVE  [e EXCEPT !.dev = d, !.count = k] = [type |-> e.type, dev |-> d, count |-> k]
<1> DEFINE f == [e EXCEPT !.dev = d]
<1>1. e = [type |-> e.type, dev |-> e.dev, count |-> e.count]
  BY SettingsParts
<1>2. f = [type |-> e.type, dev |-> d, count |-> e.count]
  BY <1>1
<1>3. [e EXCEPT !.dev = d, !.count = k] = [f EXCEPT !.count = k]
  OBVIOUS
<1> HIDE DEF f
<1>4. [f EXCEPT !.count = k] = [type |-> f.type, dev |-> f.dev, count |-> k]
  BY <1>2
<1> QED
  BY <1>2, <1>3, <1>4

LEMMA TypeAndCount ==
  ASSUME NEW e \in SettingsType, NEW t, NEW k
  PROVE  [e EXCEPT !.type = t, !.count = k] = [type |-> t, dev |-> e.dev, count |-> k]
<1> DEFINE f == [e EXCEPT !.type = t]
<1>1. e = [type |-> e.type, dev |-> e.dev, count |-> e.count]
  BY SettingsParts
<1>2. f = [type |-> t, dev |-> e.dev, count |-> e.count]
  BY <1>1
<1>3. [e EXCEPT !.type = t, !.count = k] = [f EXCEPT !.count = k]
  OBVIOUS
<1> HIDE DEF f
<1>4. [f EXCEPT !.count = k] = [type |-> f.type, dev |-> f.dev, count |-> k]
  BY <1>2
<1> QED
  BY <1>2, <1>3, <1>4

LEMMA ThreeFields ==
  ASSUME NEW e \in SettingsType, NEW t \in RedTypes, NEW d, NEW k
  PROVE  [e EXCEPT !.type = t, !.dev = d, !.count = k] = [type |-> t, dev |-> d, count |-> k]
<1> DEFINE f == [e EXCEPT !.type = t]
<1>1. e = [type |-> e.type, dev |-> e.dev, count |-> e.count]
  BY SettingsParts
<1>2. f = [type |-> t, dev |-> e.dev, count |-> e.count]
  BY <1>1
<1>3. [e EXCEPT !.type = t, !.dev = d, !.count = k] = [f EXCEPT !.dev = d, !.count = k]
  OBVIOUS
<1> HIDE DEF f
<1>4. f \in SettingsType
  BY <1>2, SettingsParts DEF SettingsType
<1> QED
  BY <1>2, <1>3, <1>4, TwoFields

LEMMA WithTypeIs ==
  ASSUME NEW e \in SettingsType, NEW type \in RedTypes
  PROVE  /\ WithType(e, type) \in SettingsType
         /\ RedAgrees(WithType(e, type))
         /\ WithType(e, type).type = type
         /\ \A c \in Lan : /\ WithType(e, type).dev[c] = e.dev[c]
                           /\ WithType(e, type).count[c] = e.count[c]
         /\ WithType(e, type).dev["RED"] \in {e.dev["RED"], NoDevice}
<1> DEFINE d == IF type \in Modems THEN [e.dev EXCEPT !["RED"] = NoDevice] ELSE e.dev
           k == [e.count EXCEPT !["RED"] = IF type \in Modems THEN 0 ELSE 1]
<1>1. /\ d \in [Colours -> Names] /\ (\A c \in Lan : d[c] = e.dev[c])
      /\ d["RED"] \in {e.dev["RED"], NoDevice}
  BY SettingsParts
<1>2. /\ k \in [Colours -> 0 .. 1] /\ (\A c \in Lan : k[c] = e.count[c])
      /\ k["RED"] = 0 <=> type \in Modems
  BY SettingsParts
<1>3. WithType(e, type) = [type |-> type, dev |-> d, count |-> k]
  <2>1. CASE type \in Modems
    <3>1. WithType(e, type) = [e EXCEPT !.type = type, !.dev = d, !.count = k]
      BY <2>1 DEF WithType
    <3> HIDE DEF d, k
    <3> QED
      BY <3>1, ThreeFields
  <2>2. CASE type \notin Modems
    <3>1. WithType(e, type) = [e EXCEPT !.type = type, !.count = k] /\ d = e.dev
      BY <2>2 DEF WithType
    <3> HIDE DEF d, k
    <3> QED
      BY <3>1, TypeAndCount
  <2> QED
    BY <2>1, <2>2
<1> HIDE DEF d, k
<1> QED
  BY <1>1, <1>2, <1>3 DEF SettingsType, RedAgrees

LEMMA WithoutIs ==
  ASSUME NEW e \in SettingsType, NEW c \in Colours
  PROVE  /\ Without(e, c) \in SettingsType
         /\ Without(e, c).type = e.type /\ Without(e, c).count[c] = 0
         /\ Without(e, c).dev[c] = NoDevice
         /\ \A d \in Colours \ {c} : /\ Without(e, c).dev[d] = e.dev[d]
                                     /\ Without(e, c).count[d] = e.count[d]
<1> DEFINE d == [e.dev EXCEPT ![c] = NoDevice]
           k == [e.count EXCEPT ![c] = 0]
<1>1. /\ d \in [Colours -> Names] /\ k \in [Colours -> 0 .. 1] /\ k[c] = 0 /\ d[c] = NoDevice
      /\ \A x \in Colours \ {c} : d[x] = e.dev[x] /\ k[x] = e.count[x]
  BY SettingsParts
<1>2. Without(e, c) = [type |-> e.type, dev |-> d, count |-> k]
  <2>1. Without(e, c) = [e EXCEPT !.dev = d, !.count = k]
    BY DEF Without
  <2> HIDE DEF d, k
  <2> QED
    BY <2>1, TwoFields
<1> HIDE DEF d, k
<1> QED
  BY <1>1, <1>2, SettingsParts DEF SettingsType

LEMMA WithCardIs ==
  ASSUME NEW e \in SettingsType, NEW c \in Colours, NEW dev \in Names
  PROVE  /\ WithCard(e, c, dev) \in SettingsType
         /\ WithCard(e, c, dev).type = e.type /\ WithCard(e, c, dev).count[c] = 1
         /\ WithCard(e, c, dev).dev[c] = dev
         /\ \A d \in Colours \ {c} : /\ WithCard(e, c, dev).dev[d] = e.dev[d]
                                     /\ WithCard(e, c, dev).count[d] = e.count[d]
<1> DEFINE d == [e.dev EXCEPT ![c] = dev]
           k == [e.count EXCEPT ![c] = 1]
<1>1. /\ d \in [Colours -> Names] /\ k \in [Colours -> 0 .. 1] /\ k[c] = 1 /\ d[c] = dev
      /\ \A x \in Colours \ {c} : d[x] = e.dev[x] /\ k[x] = e.count[x]
  BY SettingsParts
<1>2. WithCard(e, c, dev) = [type |-> e.type, dev |-> d, count |-> k]
  <2>1. WithCard(e, c, dev) = [e EXCEPT !.dev = d, !.count = k]
    BY DEF WithCard
  <2> HIDE DEF d, k
  <2> QED
    BY <2>1, TwoFields
<1> HIDE DEF d, k
<1> QED
  BY <1>1, <1>2, SettingsParts DEF SettingsType

LEMMA RenamedIs ==
  ASSUME NEW e \in SettingsType
  PROVE  /\ Renamed(e) \in SettingsType
         /\ Renamed(e).type = e.type /\ Renamed(e).count = e.count
         /\ \A i \in Present : nets[i].colour \in Colours =>
              Renamed(e).dev[nets[i].colour] = Alias(nets[i].colour)
         /\ \A c \in Colours \ Listed : Renamed(e).dev[c] = e.dev[c]
<1> DEFINE d == [c \in Colours |-> IF \E i \in Present : nets[i].colour = c THEN Alias(c) ELSE e.dev[c]]
<1>1. Renamed(e) = [type |-> e.type, dev |-> d, count |-> e.count]
  BY SettingsParts DEF Renamed
<1>2. \A c \in Colours : Alias(c) \in Names
  BY DEF Alias, Names
<1>3. d \in [Colours -> Names]
  BY <1>2, SettingsParts
<1>4. \A i \in Present : nets[i].colour \in Colours => d[nets[i].colour] = Alias(nets[i].colour)
  OBVIOUS
<1>5. \A c \in Colours \ Listed : d[c] = e.dev[c]
  BY DEF Listed
<1> HIDE DEF d
<1> QED
  BY <1>1, <1>3, <1>4, <1>5, SettingsParts DEF SettingsType

-----------------------------------------------------------------------------
(* The windows that leave the cards and the settings alone.                *)

cardVars == <<mode, found, name, writable, up, nets, scanned, lost, eth, file, rules>>

\* From a window to one like it.
Moves ==
  /\ pc' \in Outside \cup Inside /\ pc # "scan"
  /\ pc' \in SetupOnly => ~Install
  /\ pc' \in Final \cup {"ask"} => Install
  /\ todo' # <<>> => pc' = "ask"
  /\ Install /\ pc' \in First => ~scanned
  /\ \/ pc \in Outside \cup {"dhcp"} /\ pc' \in Outside
     \/ pc \in Inside /\ pc' \in Inside
  /\ Install /\ pc' \in Final => pc \in Final \/ ~scanned
  /\ pc' = "ask" => pc = "ask"

NamesStay == UNCHANGED nameVars /\ pc # "domain"

LEMMA NamesStayKept ==
  ASSUME NamesKept, NamesStay, mode' = mode \/ pc' # "domain"
  PROVE  NamesKept'
BY DEF NamesKept, NamesStay, nameVars, Install

LEMMA PlainBase ==
  ASSUME Base, UNCHANGED cardVars, changed' \in {changed, TRUE}, Moves,
         isdn' \in [file: SUBSET IsdnFields, kv: SUBSET IsdnFields], NamesKept'
  PROVE  Base'
<1> USE DEF cardVars
<1>1. Typed'
  BY DEF Base, Typed, Moves
<1>2. Distinct'
  BY DEF Base, Distinct
<1>3. Stage'
  BY DEF Base, Stage, Moves, Install, Outside, Inside
<1>4. (Agree(eth) => Agree(eth)') /\ (Agree(file) => Agree(file)')
  BY DEF Agree, Present
<1>4a. (Own(eth) => Own(eth)') /\ (Own(file) => Own(file)')
  BY DEF Own
<1>4b. /\ Traced(eth, Colours) => Traced(eth, Colours)' /\ Traced(eth, Lan)'
       /\ Traced(file, Colours) => Traced(file, Colours)'
  BY DEF Traced, Listed, Present, Lan, Colours
<1>5. (RedThere(eth) => RedThere(eth)') /\ (RedThere(file) => RedThere(file)')
  BY DEF RedThere, ColoursIn
<1>6. (RedAgrees(eth) => RedAgrees(eth)') /\ (RedAgrees(file) => RedAgrees(file)')
  BY DEF RedAgrees
<1>7. pc' # "cards" /\ pc' # "dhcp" /\ (Inside \cap Outside = {})
  BY DEF Moves, Outside, Inside
<1>8. Records'
  BY <1>4, <1>4a, <1>4b, <1>5, <1>6, <1>7 DEF Base, Records, Moves, Install
<1> QED
  BY <1>1, <1>2, <1>3, <1>8 DEF Base

LEMMA PlainServed ==
  ASSUME Served, Stage, UNCHANGED <<cardVars, server>>, Moves
  PROVE  Served'
<1>1. pc' # "cards" /\ pc' # "dhcp" /\ (Inside \cap Outside = {})
  BY DEF Moves, Outside, Inside
<1> QED
  BY <1>1 DEF Served, Moves, GreenIs, Install, cardVars

LEMMA PlainInv ==
  ASSUME Inv, UNCHANGED cardVars, changed' \in {changed, TRUE}, Moves, server' = server,
         isdn' \in [file: SUBSET IsdnFields, kv: SUBSET IsdnFields], NamesKept'
  PROVE  Inv'
BY PlainBase, PlainServed DEF Inv, Base

LEMMA ChooseInv ==
  ASSUME Inv, NEW entry \in Entries, Choose(entry)
  PROVE  Inv'
<1> USE DEF Choose, bootVars, listVars, ethVars, nameVars, moreVars
<1>1. Moves
  BY DEF Inv, Base, Stage, Moves, Entries, Outside, Inside, SetupOnly, Final, First
<1>2. NamesKept'
  BY NamesStayKept DEF Inv, Base, NamesStay
<1> QED
  BY <1>1, <1>2, PlainInv DEF cardVars, Inv, Base, Typed

\* A window closes: the next one in an installation, else the menu.
LEMMA NextWindow ==
  ASSUME Inv, pc \in {"timezone", "hostname", "domain", "net", "root", "admin", "backup", "passwords", "dhcp"},
         pc' = IF pc = "passwords" THEN "main" ELSE IF pc = "dhcp" THEN After("net") ELSE After(pc),
         todo' = todo
  PROVE  /\ Moves
         /\ Install => pc' \in {"hostname", "domain", "net", "root", "admin", "backup", "end"}
         /\ Install /\ pc' = "domain" => pc = "hostname"
<1>1. CASE Install
  <2>1. pc # "passwords"
    BY <1>1 DEF Inv, Base, Stage, SetupOnly
  <2>2. /\ pc = "timezone" => pc' = "hostname"
        /\ pc = "hostname" => pc' = "domain"
        /\ pc = "domain" => pc' = "net"
        /\ pc = "net" => pc' = "root"
        /\ pc = "root" => pc' = "admin"
        /\ pc = "admin" => pc' = "backup"
        /\ pc = "backup" => pc' = "end"
        /\ pc = "dhcp" => pc' = "root"
    BY <1>1, <2>1, WindowOrder
  <2>3. todo' = <<>> /\ (pc \in First => ~scanned)
    BY <1>1 DEF Inv, Base, Stage
  <2> QED
    BY <1>1, <2>1, <2>2, <2>3 DEF Moves, Outside, Inside, SetupOnly, Final, First
<1>2. CASE ~Install
  <2>1. pc' = "main" /\ todo' = <<>>
    BY <1>2 DEF After, Inv, Base, Stage
  <2> QED
    BY <1>2, <2>1 DEF Moves, Outside, Inside, SetupOnly, Final, First
<1> QED
  BY <1>1, <1>2

LEMMA TimezoneInv ==
  ASSUME Inv, Timezone
  PROVE  Inv'
<1> USE DEF Timezone, ToWindow, bootVars, listVars, ethVars, moreVars
<1>1. Moves /\ (Install => pc' # "domain")
  BY NextWindow DEF Moves, SetupOnly, Inv, Base, Stage, After
<1>2. /\ main' \in NameType /\ shown' \in ShownType /\ shown'.failed = shown.failed
      /\ shown'.host = shown.host /\ shown'.domain = shown.domain
      /\ main'.host = main.host /\ main'.domain = main.domain
  BY DEF Inv, Base, NamesKept, NameType, ShownType
<1>3. NamesKept'
  BY <1>1, <1>2 DEF Inv, Base, NamesKept, Install
<1> QED
  BY <1>1, <1>3, PlainInv DEF cardVars, Inv, Base, Typed

LEMMA WithNamesIs ==
  ASSUME shown \in ShownType, NEW host \in {"old", "new"}, NEW domain \in {"old", "new", "invalid"},
         NEW s \in WithNames(host, domain)
  PROVE  /\ s \in ShownType
         /\ ~s.failed => s.host = host /\ s.domain = domain
BY DEF WithNames, ShownType

LEMMA HostnameInv ==
  ASSUME Inv, Hostname
  PROVE  Inv'
<1> USE DEF Hostname, ToWindow, bootVars, listVars, ethVars, moreVars
<1>1. Moves /\ (Install => pc' = "domain")
  BY NextWindow, WindowOrder
<1>2. main \in NameType /\ shown \in ShownType
  BY DEF Inv, Base, NamesKept
<1>3. main' \in NameType /\ shown' \in ShownType
  BY <1>2, WithNamesIs DEF NameType
<1>4. ASSUME Install
      PROVE  NamesKept'
  BY <1>1, <1>3, <1>4 DEF NamesKept, Install
<1>5. ASSUME ~Install
      PROVE  NamesKept'
  <2>1. \/ main' = [main EXCEPT !.host = "new"] /\ shown' \in WithNames("new", main.domain)
        \/ UNCHANGED <<main, shown>>
    BY <1>5
  <2>2. ~shown'.failed => shown'.host = main'.host /\ shown'.domain \in {main'.domain, "invalid"}
    BY <1>2, <1>5, <2>1, WithNamesIs DEF NameType, Inv, Base, NamesKept
  <2> QED
    BY <1>3, <2>2 DEF NamesKept
<1>6. NamesKept'
  BY <1>4, <1>5
<1> QED
  BY <1>1, <1>6, PlainInv DEF cardVars, Inv, Base, Typed

LEMMA DomainInv ==
  ASSUME Inv, Domain
  PROVE  Inv'
<1> USE DEF Domain, ToWindow, bootVars, listVars, ethVars, moreVars
<1>1. Moves
  BY NextWindow
<1>2. main \in NameType /\ shown \in ShownType
  BY DEF Inv, Base, NamesKept
<1>3. main.host \in {"old", "new"} /\ main.domain \in {"old", "new", "invalid"}
  BY <1>2 DEF NameType
<1>4. ASSUME main' = [main EXCEPT !.domain = "new"], shown' \in WithNames(main.host, "new")
      PROVE  NamesKept'
  BY <1>2, <1>3, <1>4, WithNamesIs DEF NamesKept, NameType
<1>5. ASSUME NEW typed \in {main.domain, "invalid"}, UNCHANGED main,
             shown' \in IF Install THEN WithNames(main.host, typed) ELSE {shown}
      PROVE  NamesKept'
  <2>1. CASE Install
    BY <1>2, <1>3, <1>5, <2>1, WithNamesIs DEF NamesKept
  <2>2. CASE ~Install
    BY <1>2, <1>5, <2>2 DEF NamesKept, Inv, Base
  <2> QED
    BY <2>1, <2>2
<1>6. NamesKept'
  BY <1>4, <1>5
<1> QED
  BY <1>1, <1>6, PlainInv DEF cardVars, Inv, Base, Typed

LEMMA PasswordInv ==
  ASSUME Inv, Password
  PROVE  Inv'
<1> USE DEF Password, ToWindow, bootVars, listVars, ethVars, moreVars
<1>1. Moves
  BY NextWindow
<1>2. NamesKept'
  BY NamesStayKept DEF Inv, Base, NamesStay, bootVars
<1> QED
  BY <1>1, <1>2, PlainInv DEF cardVars, Inv, Base, Typed

LEMMA MenuChooseInv ==
  ASSUME Inv, NEW entry \in MenuEntries, MenuChoose(entry)
  PROVE  Inv'
<1> USE DEF MenuChoose, bootVars, listVars, ethVars
<1>1. Moves
  BY DEF Inv, Base, Stage, Moves, MenuEntries, Outside, Inside, SetupOnly, Final, First
<1>2. NamesKept'
  BY NamesStayKept DEF Inv, Base, NamesStay
<1>3. isdn' \in [file: SUBSET IsdnFields, kv: SUBSET IsdnFields]
  BY DEF Inv, Base, Typed
<1> QED
  BY <1>1, <1>2, <1>3, PlainInv DEF cardVars

LEMMA AskAddressInv ==
  ASSUME Inv, AskAddress
  PROVE  Inv'
<1> USE DEF AskAddress, bootVars, listVars, moreVars
<1>1. Moves
  BY DEF Inv, Base, Stage, Moves, Outside, Inside, SetupOnly, Final, First
<1>2. NamesKept'
  BY NamesStayKept DEF Inv, Base, NamesStay
<1> QED
  BY <1>1, <1>2, PlainInv DEF cardVars, Inv, Base, Typed

LEMMA ClosingMoves ==
  ASSUME Inv, NEW w \in {"dns", "dhcphost", "isdn"}, Open(w), CloseWindow
  PROVE  Moves /\ pc # "domain"
<1>1. Install => pc = "ask" /\ pc' = "ask"
  BY DEF Inv, Base, Stage, SetupOnly, Open, CloseWindow
<1>2. ~Install => pc = w /\ pc' = "menu" /\ todo' = todo /\ todo = <<>>
  BY DEF Inv, Base, Stage, Open, CloseWindow
<1> QED
  BY <1>1, <1>2 DEF Moves, Outside, Inside, SetupOnly, Final, First

LEMMA OptionalInv ==
  ASSUME Inv, NEW w \in {"dns", "dhcphost"}, Optional(w)
  PROVE  Inv'
<1> USE DEF Optional, bootVars, listVars, moreVars
<1>1. Moves /\ pc # "domain"
  BY ClosingMoves
<1>2. NamesKept'
  BY <1>1, NamesStayKept DEF Inv, Base, NamesStay
<1> QED
  BY <1>1, <1>2, PlainInv DEF cardVars, Inv, Base, Typed

LEMMA IsdnInv ==
  ASSUME Inv, NEW field \in IsdnFields, Isdn(field)
  PROVE  Inv'
<1> USE DEF Isdn, bootVars, listVars, ethVars
<1>1. pc \in {"ask", "isdn"}
  BY DEF Open
<1>2. Moves
  BY <1>1 DEF Inv, Base, Stage, Moves, Outside, Inside, SetupOnly, Final, First
<1>3. NamesKept'
  BY <1>1, NamesStayKept DEF Inv, Base, NamesStay
<1>4. isdn' \in [file: SUBSET IsdnFields, kv: SUBSET IsdnFields]
  BY DEF Inv, Base, Typed
<1> QED
  BY <1>2, <1>3, <1>4, PlainInv DEF cardVars

LEMMA IsdnLeaveInv ==
  ASSUME Inv, IsdnLeave
  PROVE  Inv'
<1> USE DEF IsdnLeave, bootVars, listVars, ethVars
<1>1. Moves /\ pc # "domain"
  BY ClosingMoves
<1>2. NamesKept'
  BY <1>1, NamesStayKept DEF Inv, Base, NamesStay
<1>3. isdn' \in [file: SUBSET IsdnFields, kv: SUBSET IsdnFields]
  BY DEF Inv, Base, Typed
<1> QED
  BY <1>1, <1>2, <1>3, PlainInv DEF cardVars

LEMMA MenuAddressInv ==
  ASSUME Inv, MenuAddress
  PROVE  Inv'
<1> USE DEF MenuAddress, bootVars, listVars, moreVars
<1>1. Moves
  BY DEF Inv, Base, Stage, Moves, Outside, Inside, SetupOnly, Final, First
<1>2. NamesKept'
  BY NamesStayKept DEF Inv, Base, NamesStay
<1> QED
  BY <1>1, <1>2, PlainInv DEF cardVars, Inv, Base, Typed

-----------------------------------------------------------------------------
(* The settings are read, changed and written.                             *)

LEMMA NetEnterInv ==
  ASSUME Inv, NetEnter
  PROVE  Inv'
<1> USE DEF NetEnter, bootVars, listVars, nameVars, moreVars
<1>1. NamesKept'
  BY NamesStayKept DEF Inv, Base, NamesStay
<1>2. CASE pc' = After("net") /\ UNCHANGED ethVars
  <2>1. Moves
    BY <1>2, NextWindow
  <2> QED
    BY <1>1, <1>2, <2>1, PlainInv DEF ethVars, cardVars, Inv, Base, Typed
<1>3. CASE pc' = (IF Install THEN "type" ELSE "menu") /\ eth' = file /\ changed' = FALSE
  <2>1. pc' \in {"type", "menu"} /\ (pc' = "menu" <=> ~Install)
    BY <1>3
  <2>2. Typed' /\ Distinct'
    BY <1>3, <2>1 DEF Inv, Base, Typed, Distinct, Inside
  <2>3. Stage'
    BY <2>1 DEF Inv, Base, Stage, Install, First, SetupOnly, Final
  <2>4. Agree(eth)' /\ RedAgrees(eth)' /\ RedAgrees(file)' /\ (writable => Own(eth)')
    BY <1>3 DEF Inv, Base, Records, Outside, Agree, Present, RedAgrees, Own
  <2>4a. Traced(eth, Colours)'
    BY <1>3 DEF Inv, Base, Records, Outside, Traced, Listed, Present
  <2>5. Records'
    BY <1>3, <2>1, <2>4, <2>4a DEF Records, Outside, Inside, Final, Install
  <2>6. Stubborn = {} => Served'
    BY <1>3, <2>1 DEF Inv, Served, GreenIs
  <2> QED
    BY <1>1, <2>2, <2>3, <2>5, <2>6 DEF Inv, Base
<1> QED
  BY <1>2, <1>3

LEMMA MenuLeaveInv ==
  ASSUME Inv, MenuLeave
  PROVE  Inv'
<1> USE DEF MenuLeave, bootVars, listVars, ethVars, nameVars, moreVars
<1>1. NamesKept'
  BY NamesStayKept DEF Inv, Base, NamesStay
<1>2. ~Install /\ file' = eth
  BY DEF Inv, Base, Stage, SetupOnly, Records, Inside
<1>3. Typed' /\ Distinct'
  BY <1>2 DEF Inv, Base, Typed, Distinct, Outside
<1>4. Stage'
  BY <1>2 DEF Inv, Base, Stage, Install, SetupOnly, Final
<1>5. Agree(file)' /\ RedAgrees(file)' /\ (writable => Own(file)')
  BY <1>2 DEF Inv, Base, Records, Inside, Agree, Present, RedAgrees, Own
<1>5a. Traced(file, Colours)'
  BY <1>2 DEF Inv, Base, Records, Inside, Traced, Listed, Present
<1>6. Records'
  BY <1>2, <1>5, <1>5a DEF Records, Inside, Final, Install
<1>7. Stubborn = {} => Served'
  BY <1>2 DEF Inv, Served, GreenIs, Inside
<1> QED
  BY <1>1, <1>3, <1>4, <1>6, <1>7 DEF Inv, Base

LEMMA RedTypeInv ==
  ASSUME Inv, RedType
  PROVE  Inv'
<1> USE DEF RedType, bootVars, listVars, nameVars, moreVars
<1>1. NamesKept'
  BY NamesStayKept DEF Inv, Base, NamesStay
<1>2. pc' \in {"scan", "menu"} /\ (Install => pc' = "scan") /\ pc = "type"
  OBVIOUS
<1>3. /\ eth' \in SettingsType /\ RedAgrees(eth)'
      /\ changed' \in BOOLEAN /\ (changed' = FALSE => changed = FALSE /\ eth' = eth)
      /\ \A c \in Lan : eth'.dev[c] = eth.dev[c] /\ eth'.count[c] = eth.count[c]
      /\ eth'.dev["RED"] \in {eth.dev["RED"], NoDevice} /\ (eth'.type = eth.type => eth' = eth)
  <2>1. CASE UNCHANGED <<eth, changed>>
    BY <2>1 DEF Inv, Base, Typed, Records, Inside, RedAgrees
  <2>2. ASSUME NEW type \in Offered \ {eth.type}, eth' = WithType(eth, type), changed' = TRUE
        PROVE  /\ eth' \in SettingsType /\ RedAgrees(eth)'
               /\ \A c \in Lan : eth'.dev[c] = eth.dev[c] /\ eth'.count[c] = eth.count[c]
               /\ eth'.dev["RED"] \in {eth.dev["RED"], NoDevice} /\ eth'.type # eth.type
    <3>1. type \in RedTypes /\ eth \in SettingsType
      BY NetSetupAssumption DEF Inv, Base, Typed
    <3> QED
      BY <2>2, <3>1, WithTypeIs DEF RedAgrees
  <2> QED
    BY <2>1, <2>2
<1>4. Typed' /\ Distinct'
  BY <1>2, <1>3 DEF Inv, Base, Typed, Distinct, Inside
<1>5. Stage'
  BY <1>2 DEF Inv, Base, Stage, Install, First, SetupOnly, Final
<1>a. \A c \in Colours : c \in Lan \/ c = "RED"
  BY DEF Colours, Lan
<1>b. /\ Agree(eth) /\ (writable => Own(eth)) /\ Traced(eth, Colours)
      /\ \A i \in DOMAIN nets : nets[i] \in EntryType
  BY <1>2, ListParts DEF Inv, Base, Records, Inside
<1>c. \A d \in Colours : Alias(d) # NoDevice
  BY DEF Alias, NoDevice, Colours
<1>6. Agree(eth)' /\ RedAgrees(file)'
  <2>1. RedAgrees(file)'
    BY DEF Inv, Base, Records, RedAgrees
  <2>2. ASSUME NEW i \in DOMAIN nets, nets[i].colour # "NONE"
        PROVE  /\ nets[i].colour \in Lan => eth'.count[nets[i].colour] = 1
               /\ i \in Present => \/ eth'.dev[nets[i].colour] = rules[nets[i].card]
                                   \/ nets[i].colour = "RED" /\ eth'.dev["RED"] = NoDevice
               /\ i \notin Present => eth'.dev[nets[i].colour] = NoDevice
    <3>1. nets[i].colour \in Lan \/ nets[i].colour = "RED"
      BY <1>a, <1>b, <2>2 DEF EntryType
    <3> QED
      BY <1>3, <1>b, <2>2, <3>1 DEF Agree
  <2> QED
    BY <2>1, <2>2 DEF Agree, Present
<1>d. writable => Own(eth)'
  BY <1>3, <1>a, <1>b, <1>c DEF Own
<1>e. Traced(eth, Lan)'
  BY <1>3, <1>a, <1>b DEF Traced, Listed, Present, Lan, Colours
<1>f. ASSUME pc' = "menu"
      PROVE  Traced(eth, Colours)'
  <2> SUFFICES ASSUME eth'.count["RED"] = 1, eth'.dev["RED"] = Alias("RED"), "RED" \notin lost
               PROVE  IF scanned /\ writable THEN "RED" \in Listed ELSE \E n \in Cards : rules[n] = Alias("RED")
    BY <1>e, <1>a DEF Traced, Listed, Present
  <2>1. "RED" \in ColoursIn(nets)
    <3>1. eth'.type \notin Modems
      BY <1>3 DEF RedAgrees
    <3> QED
      BY <1>f, <3>1
  <2>2. PICK i \in DOMAIN nets : nets[i].colour = "RED"
    BY <2>1 DEF ColoursIn
  <2>3. eth.dev["RED"] = Alias("RED") /\ "RED" \in Colours
    BY <1>3, <1>c DEF Colours
  <2>4. i \in Present /\ rules[nets[i].card] = Alias("RED") /\ nets[i].card \in Cards
    BY <1>b, <1>c, <2>2, <2>3 DEF Agree, EntryType
  <2> QED
    BY <2>2, <2>4 DEF Listed
<1>7. Records'
  BY <1>2, <1>3, <1>6, <1>d, <1>e, <1>f DEF Inv, Base, Records, Outside, Inside, Final, Install
<1>8. Stubborn = {} => Served'
  BY <1>2, <1>3 DEF Inv, Served, GreenIs, Inside, Lan, Install
<1> QED
  BY <1>1, <1>4, <1>5, <1>7, <1>8 DEF Inv, Base

LEMMA SaveInv ==
  ASSUME Inv, Save
  PROVE  Inv'
<1> USE DEF Save, bootVars, listVars, ethVars, nameVars, moreVars
<1>1. NamesKept'
  BY NamesStayKept DEF Inv, Base, NamesStay
<1>2. Install
  BY DEF Inv, Base, Stage
<1>3. Typed' /\ Distinct'
  BY DEF Inv, Base, Typed, Distinct
<1>4. Stage'
  BY <1>2 DEF Inv, Base, Stage, Install, First, SetupOnly
<1>5. Agree(file)' /\ RedAgrees(file)' /\ RedThere(file)' /\ (writable => Own(file)')
  BY DEF Inv, Base, Records, Inside, Agree, Present, RedAgrees, RedThere, ColoursIn, Own
<1>5a. Traced(file, Colours)'
  BY DEF Inv, Base, Records, Inside, Traced, Listed, Present
<1>6. Records'
  BY <1>2, <1>5, <1>5a DEF Records, Inside, Install
<1>7. Stubborn = {} => Served'
  BY <1>2 DEF Inv, Served, GreenIs, Inside, Install
<1> QED
  BY <1>1, <1>3, <1>4, <1>6, <1>7 DEF Inv, Base

LEMMA DhcpInv ==
  ASSUME Inv, Dhcp
  PROVE  Inv'
<1> USE DEF Dhcp, bootVars, listVars, ethVars, nameVars
<1>1. NamesKept'
  BY NamesStayKept DEF Inv, Base, NamesStay
<1>2. Moves
  BY NextWindow
<1>3. Base'
  BY <1>1, <1>2, PlainBase DEF cardVars, Inv, Base, Typed
<1>4. Install /\ pc' = "root"
  BY WindowOrder DEF Inv, Base, Stage, Final
<1>5. Stubborn = {} => Served'
  BY <1>4 DEF Inv, Base, Stage, Served, GreenIs, Install
<1> QED
  BY <1>3, <1>5 DEF Inv

LEMMA RebootInv ==
  ASSUME Inv, Reboot
  PROVE  Inv'
<1> USE DEF Reboot, ethVars, nameVars, moreVars
<1>1. NamesKept'
  BY NamesStayKept DEF Inv, Base, NamesStay
<1>2. up' \in SUBSET Cards
  <2>1. ToSet(found) \subseteq Cards
    BY ElementOfSeq, LenProperties DEF ToSet, Inv, Base, Typed
  <2> QED
    BY <2>1
<1>3. nets' \in Seq(EntryType) /\ DOMAIN nets' = {}
  <2>1. nets' = << >> /\ << >> \in Seq(EntryType) /\ Len(<< >>) = 0
    BY EmptySeq
  <2> QED
    BY <2>1, LenProperties
<1>4. Typed' /\ Distinct'
  BY <1>2, <1>3 DEF Inv, Base, Typed, Distinct, Outside
<1>5. todo = <<>>
  BY DEF Inv, Base, Stage
<1>6. Stage'
  BY <1>5 DEF Inv, Base, Stage, Install, First, SetupOnly, Final
<1>7. Agree(file)' /\ RedAgrees(file)' /\ (writable => Own(file)')
  BY <1>3 DEF Inv, Base, Records, Agree, Present, RedAgrees, Own, Outside
<1>7a. Traced(file, Colours)'
  <2> SUFFICES ASSUME NEW c \in Colours, file.count[c] = 1, file.dev[c] = Alias(c), c \notin lost
               PROVE  \E n \in Cards : rules[n] = Alias(c)
    BY DEF Traced
  <2>1. Traced(file, Colours) /\ Agree(file)
    BY DEF Inv, Base, Records, Outside
  <2>2. CASE scanned /\ writable
    <3>1. PICK i \in Present : nets[i].colour = c
      BY <2>1, <2>2 DEF Traced, Listed
    <3>2. i \in DOMAIN nets /\ nets[i].card \in Cards /\ c # "NONE" /\ Alias(c) # NoDevice
      BY ListParts DEF Present, EntryType, Inv, Base, Colours, Alias, NoDevice
    <3>3. rules[nets[i].card] = Alias(c)
      BY <2>1, <3>1, <3>2 DEF Agree
    <3> QED
      BY <3>2, <3>3
  <2>3. CASE ~(scanned /\ writable)
    BY <2>1, <2>3 DEF Traced
  <2> QED
    BY <2>2, <2>3
<1>8. Records'
  BY <1>7, <1>7a DEF Records, Inside, Final, Install
<1>9. Stubborn = {} => Served'
  BY <1>3 DEF Inv, Served, GreenIs, Inside, Install
<1> QED
  BY <1>1, <1>4, <1>6, <1>8, <1>9 DEF Inv, Base

LEMMA SelectNothingInv ==
  ASSUME Inv, SelectNothing
  PROVE  Inv'
<1> USE DEF SelectNothing, bootVars, listVars, ethVars, nameVars, moreVars
<1>1. NamesKept'
  BY NamesStayKept DEF Inv, Base, NamesStay
<1>2. Typed' /\ Distinct'
  BY DEF Inv, Base, Typed, Distinct
<1>3. Stage'
  BY DEF Inv, Base, Stage, First, SetupOnly, Final, Install
<1>4. Records'
  BY DEF Inv, Base, Records, Inside, Outside, Final, RedAgrees, Install
<1>5. Stubborn = {} => Served'
  BY DEF Inv, Served, GreenIs, Inside, Install
<1> QED
  BY <1>1, <1>2, <1>3, <1>4, <1>5 DEF Inv, Base

-----------------------------------------------------------------------------
(* The list of cards.                                                      *)

LEMMA ColourOfIs ==
  ASSUME NEW n \in Cards
  PROVE  /\ ColourOf(n) \in Colours \cup {"NONE"}
         /\ \A c \in Colours : ~Install /\ n \in Known /\ eth.count[c] = 1 /\ eth.dev[c] = name[n] =>
              ColourOf(n) # "NONE"
         /\ ColourOf(n) # "NONE" =>
              /\ ~Install /\ n \in Known /\ n \in up
              /\ eth.count[ColourOf(n)] = 1 /\ eth.dev[ColourOf(n)] = name[n]
<1> DEFINE cs == {c \in Colours : eth.count[c] = 1 /\ eth.dev[c] = name[n]}
<1>1. cs # {} => (CHOOSE c \in cs : TRUE) \in cs
  OBVIOUS
<1>2. cs \subseteq Colours /\ "NONE" \notin Colours
  BY DEF Colours
<1> QED
  BY <1>1, <1>2 DEF ColourOf, Known

\* The list the scan makes.
there == up \cup (ToSet(found) \ Stubborn)
all == found \o SetToSeq({n \in Cards \ ToSet(found) : ColourOf(n) # "NONE"})

LEMMA AllIs ==
  ASSUME Typed, Distinct
  PROVE  /\ all \in Seq(Cards) /\ IsInjective(all)
         /\ \A i \in DOMAIN all : all[i] \in Cards /\ (all[i] \in ToSet(found) \/ all[i] \in up)
         /\ \A n \in Cards : ColourOf(n) # "NONE" => \E i \in DOMAIN all : all[i] = n
<1> DEFINE rest == {n \in Cards \ ToSet(found) : ColourOf(n) # "NONE"}
           q == SetToSeq(rest)
<1>1. rest \subseteq Cards /\ rest \cap ToSet(found) = {} /\ IsFiniteSet(rest)
  <2>1. rest \in SUBSET Cards
    OBVIOUS
  <2>2. IsFiniteSet(rest)
    BY <2>1, StartsAssumption, FS_Subset
  <2> QED
    BY <2>2
<1>2. \A n \in rest : n \in up
  BY ColourOfIs
<1> HIDE DEF rest
<1>3. /\ q \in Seq(rest) /\ IsInjective(q)
      /\ \A n \in rest : \E k \in DOMAIN q : q[k] = n
  BY <1>1, SeqOfSet
<1> HIDE DEF q
<1>4. q \in Seq(Cards)
  BY <1>1, <1>3, SeqMonotonic
<1>5. \A k \in DOMAIN q : q[k] \in rest
  BY <1>3, ElementOfSeq, LenProperties
<1>6. \A i \in DOMAIN found : found[i] \in ToSet(found)
  BY DEF ToSet
<1>7. found \in Seq(Cards) /\ IsInjective(found)
  BY DEF Typed, Distinct
<1>8. all = found \o q
  BY DEF all, q, rest
<1>9. all \in Seq(Cards) /\ IsInjective(all)
  <2>1. \A i \in DOMAIN found, k \in DOMAIN q : found[i] # q[k]
    BY <1>1, <1>5, <1>6
  <2> QED
    BY <1>3, <1>4, <1>7, <1>8, <2>1, Joined, JoinedInjective
<1>10. ASSUME NEW i \in DOMAIN all
       PROVE  all[i] \in Cards /\ (all[i] \in ToSet(found) \/ all[i] \in up)
  <2>1. (i \in DOMAIN found /\ all[i] = found[i]) \/ (i - Len(found) \in DOMAIN q /\ all[i] = q[i - Len(found)])
    BY <1>4, <1>7, <1>8, Joined
  <2>2. all[i] \in ToSet(found) \/ all[i] \in rest
    BY <1>5, <1>6, <2>1
  <2> QED
    BY <1>1, <1>2, <2>2, ListParts
<1>11. ASSUME NEW n \in Cards, ColourOf(n) # "NONE"
       PROVE  \E i \in DOMAIN all : all[i] = n
  <2> DEFINE l == found \o q
  <2>a. /\ \A i \in DOMAIN found : i \in DOMAIN l /\ l[i] = found[i]
        /\ \A k \in DOMAIN q : k + Len(found) \in DOMAIN l /\ l[k + Len(found)] = q[k]
    BY <1>4, <1>7, JoinedParts
  <2>b. all = l
    BY <1>8
  <2> HIDE DEF l
  <2>1. CASE n \in ToSet(found)
    <3>1. PICK i \in DOMAIN found : found[i] = n
      BY <2>1 DEF ToSet
    <3> QED
      BY <2>a, <2>b, <3>1
  <2>2. CASE n \notin ToSet(found)
    <3>1. n \in rest
      BY <1>11, <2>2 DEF rest
    <3>2. PICK k \in DOMAIN q : q[k] = n
      BY <1>3, <3>1
    <3> QED
      BY <2>a, <2>b, <3>2
  <2> QED
    BY <2>1, <2>2
<1> QED
  BY <1>9, <1>10, <1>11

LEMMA ScanInv ==
  ASSUME Inv, Scan
  PROVE  Inv'
<1> USE DEF Scan, bootVars, ethVars, nameVars, moreVars
<1>1. NamesKept'
  BY NamesStayKept DEF Inv, Base, NamesStay
<1>2. pc' = "cards" /\ pc = "scan" /\ pc \in Inside
  BY DEF Inside
<1>a. Agree(eth) /\ RedAgrees(eth) /\ (writable => Own(eth)) /\ Traced(eth, Lan)
  BY <1>2 DEF Inv, Base, Records
<1>3. CASE scanned
  <2>1. ~Install /\ UNCHANGED listVars
    BY <1>3 DEF Inv, Base, Stage, First
  <2>2. Typed' /\ Distinct'
    BY <2>1 DEF listVars, Inv, Base, Typed, Distinct
  <2>3. Stage'
    BY <1>3, <2>1 DEF listVars, Inv, Base, Stage, Install, SetupOnly, Final
  <2>4. OnTheWay'
    <3>1. UNCHANGED <<nets, eth, rules, scanned, lost, writable, changed>>
      BY <2>1 DEF listVars
    <3>2. eth.type \notin Modems => eth.count["RED"] = 1
      BY <1>a, SettingsParts DEF RedAgrees, Inv, Base, Typed
    <3>3. /\ eth.type \in Modems => eth.count["RED"] = 0
          /\ writable => \A c \in Colours \ Listed, d \in Colours : eth.dev[c] = Alias(d) => c = d
      BY <1>a DEF RedAgrees, Own
    <3>4. OnTheWay
      BY <1>a, <3>2, <3>3 DEF OnTheWay, Agree
    <3> QED
      BY <3>1, <3>4 DEF OnTheWay, Present, ColoursIn, Traced, Listed, Own
  <2>5. Records'
    BY <1>2, <2>1, <2>4 DEF listVars, Inv, Base, Records, Inside, Outside, Final, RedAgrees,
       Install
  <2>6. Stubborn = {} => Served'
    BY <1>2, <2>1 DEF listVars, Inv, Served, GreenIs, Inside, Install
  <2> QED
    BY <1>1, <2>2, <2>3, <2>5, <2>6 DEF Inv, Base
<1>4. CASE ~scanned
  <2>1. /\ nets' = [i \in DOMAIN all |-> Entry(all[i], ColourOf(all[i]), there)]
        /\ up' = there /\ scanned' = TRUE
        /\ lost \subseteq lost'
        /\ Install \/ \A c \in Colours, n \in Cards \ Known :
             eth.count[c] = 1 /\ eth.dev[c] = name[n] => c \in lost'
    BY <1>4 DEF all, there
  <2>2. /\ all \in Seq(Cards) /\ IsInjective(all)
        /\ \A i \in DOMAIN all : all[i] \in Cards /\ (all[i] \in ToSet(found) \/ all[i] \in up)
        /\ \A n \in Cards : ColourOf(n) # "NONE" => \E i \in DOMAIN all : all[i] = n
    BY AllIs DEF Inv, Base
  <2>3. there \in SUBSET Cards
    BY ListParts DEF there, Inv, Base, Typed
  <2>4. /\ nets' \in Seq(EntryType) /\ DOMAIN nets' = DOMAIN all
        /\ \A i \in DOMAIN all : /\ nets'[i].card = all[i] /\ nets'[i].colour = ColourOf(all[i])
                                 /\ nets'[i].dev = IF all[i] \in there THEN name[all[i]] ELSE NoDevice
    <3>1. NoDevice \in Names /\ \A n \in Cards : name[n] \in Names
      BY DEF NoDevice, Names, Inv, Base, Typed
    <3>2. \A n \in Cards : Entry(n, ColourOf(n), there) \in EntryType
      BY <3>1, ColourOfIs DEF Entry, EntryType
    <3>3. DOMAIN all = 1 .. Len(all) /\ Len(all) \in Nat
      BY <2>2, LenProperties
    <3>4. nets' \in [1 .. Len(all) -> EntryType]
      BY <2>1, <2>2, <3>2, <3>3
    <3>5. nets' \in Seq(EntryType)
      <4>1. \A S, f : \A k \in Nat : f \in [1 .. k -> S] => f \in Seq(S)
        BY SeqDef
      <4> QED
        BY <3>3, <3>4, <4>1, Zenon
    <3>6. /\ DOMAIN nets' = DOMAIN all
          /\ \A i \in DOMAIN all : nets'[i] = Entry(all[i], ColourOf(all[i]), there)
      BY <2>1, <3>3
    <3>7. \A n, c : /\ Entry(n, c, there).card = n /\ Entry(n, c, there).colour = c
                    /\ Entry(n, c, there).dev = IF n \in there THEN name[n] ELSE NoDevice
      BY DEF Entry
    <3> QED
      BY <2>2, <3>5, <3>6, <3>7
  <2> HIDE DEF Scan
  <2>5. UNCHANGED <<mode, entries, found, name, writable, eth, changed, file, rules, green, server, isdn, todo>>
    BY DEF Scan
  <2>6. Typed'
    BY <1>2, <2>1, <2>3, <2>4, <2>5 DEF Inv, Base, Typed
  <2>7. Distinct'
    <3>1. ASSUME NEW i \in DOMAIN nets', NEW k \in DOMAIN nets', nets'[i].card = nets'[k].card
          PROVE  i = k
      BY <2>2, <2>4, <3>1 DEF IsInjective
    <3>2. ASSUME NEW i \in DOMAIN nets', NEW k \in DOMAIN nets',
                 nets'[i].colour = nets'[k].colour, nets'[i].colour # "NONE"
          PROVE  i = k
      <4>1. all[i] \in Cards /\ all[k] \in Cards /\ ColourOf(all[i]) = ColourOf(all[k])
        BY <2>2, <2>4, <3>2
      <4>2. name[all[i]] = name[all[k]]
        BY <2>4, <3>2, <4>1, ColourOfIs
      <4>3. all[i] = all[k]
        BY <4>1, <4>2 DEF Inv, Base, Typed, Distinct, IsInjective
      <4> QED
        BY <2>2, <2>4, <4>3 DEF IsInjective
    <3>3. \A i \in DOMAIN nets' : nets'[i].dev \in {name[nets'[i].card], NoDevice}
      BY <2>4
    <3> QED
      BY <2>5, <3>1, <3>2, <3>3 DEF Inv, Base, Distinct
  <2>8. Stage'
    BY <1>2, <2>1, <2>5 DEF Inv, Base, Stage, Install, SetupOnly, Final, First
  <2>9. OnTheWay'
    <3>1. \A i \in DOMAIN nets' : nets'[i].colour # "NONE" =>
            /\ eth.count[nets'[i].colour] = 1 /\ nets'[i].card \in Cards
            /\ eth.dev[nets'[i].colour] = name[nets'[i].card]
      BY <2>2, <2>4, ColourOfIs
    <3>2. name = rules
      BY <1>4 DEF Inv, Base, Stage
    <3>3. RedAgrees(eth) /\ eth.count["RED"] \in 0 .. 1
      BY <1>a, SettingsParts DEF Inv, Base, Typed
    <3>4. \A i \in DOMAIN nets' : nets'[i].colour # "NONE" => i \in Present'
      <4>1. \A i \in DOMAIN nets' : nets'[i].colour # "NONE" => all[i] \in up /\ all[i] \in Cards
        BY <2>2, <2>4, ColourOfIs
      <4>2. \A i \in DOMAIN nets' : nets'[i].colour # "NONE" => nets'[i].dev # NoDevice
        BY <2>4, <4>1 DEF there, Inv, Base, Distinct
      <4> QED
        BY <4>2 DEF Present
    <3>5. Traced(eth, Lan)'
      <4> SUFFICES ASSUME NEW c \in Lan, eth.count[c] = 1, eth.dev[c] = Alias(c), c \notin lost'
                   PROVE  IF writable THEN c \in Listed' ELSE \E n \in Cards : rules[n] = Alias(c)
        BY <2>1, <2>5 DEF Traced
      <4>1. PICK n \in Cards : rules[n] = Alias(c)
        BY <1>4, <1>a, <2>1 DEF Traced
      <4>2. c \in Colours
        BY DEF Lan, Colours
      <4>3. name[n] = Alias(c)
        BY <3>2, <4>1
      <4>4. ~Install
        <5>1. Kernel[n][1] = "eth" /\ Alias(c)[1] # "eth"
          BY <4>2, StartsAssumption DEF Alias, Colours
        <5> QED
          BY <4>3, <5>1 DEF Inv, Base, Stage
      <4>5. n \in Known
        BY <2>1, <4>2, <4>3, <4>4
      <4>6. ColourOf(n) # "NONE"
        BY <4>2, <4>3, <4>4, <4>5, ColourOfIs
      <4>7. writable => ColourOf(n) = c
        BY <1>a, <4>2, <4>3, <4>6, ColourOfIs DEF Own
      <4>8. PICK i \in DOMAIN all : all[i] = n
        BY <2>2, <4>6
      <4>9. i \in Present' /\ nets'[i].colour = ColourOf(n)
        BY <2>4, <3>4, <4>6, <4>8
      <4> QED
        BY <4>1, <4>7, <4>9 DEF Listed
    <3>6. \A i \in DOMAIN nets' : nets'[i].colour # "NONE" =>
            /\ nets'[i].colour \in Lan => eth.count[nets'[i].colour] = 1
            /\ eth.dev[nets'[i].colour] = rules[nets'[i].card] /\ i \in Present'
      BY <3>1, <3>2, <3>4
    <3>7. Own(eth)' <=> Own(eth)
      BY <2>5 DEF Own
    <3>8. writable => \A c, d \in Colours : eth.dev[c] = Alias(d) => c = d
      BY <1>a DEF Own
    <3>9. eth.type \notin Modems => eth.count["RED"] = 1
      BY <3>3 DEF RedAgrees
    <3> HIDE DEF Present, Listed
    <3> QED
      BY <1>a, <2>5, <3>3, <3>5, <3>6, <3>7, <3>8, <3>9 DEF OnTheWay, RedAgrees
  <2>10. Records'
    BY <1>2, <2>5, <2>9 DEF Inv, Base, Records, Inside, Outside, Final, RedAgrees, Install
  <2>11. ASSUME Stubborn = {}
         PROVE  Served'
    <3>1. \A i \in DOMAIN nets' : nets'[i].dev # NoDevice
      BY <2>2, <2>4, <2>11 DEF there, Inv, Base, Distinct
    <3>2. Install => "GREEN" \notin ColoursIn(nets')
      BY <2>2, <2>4, ColourOfIs DEF ColoursIn
    <3> QED
      BY <1>2, <2>5, <2>11, <3>1, <3>2 DEF Inv, Served, GreenIs, Inside, Install
  <2> QED
    BY <1>1, <2>6, <2>7, <2>8, <2>10, <2>11 DEF Inv, Base
<1> QED
  BY <1>3, <1>4

\* A card added by hand comes with all that are new, without a colour.
LEMMA AddedIs ==
  ASSUME Typed, Distinct, up' \in SUBSET Cards, name' = name,
         NEW new \in SUBSET Cards, new = up' \ {nets[i].card : i \in DOMAIN nets},
         nets' = nets \o SetToSeq({Entry(k, "NONE", up') : k \in new})
  PROVE  /\ nets' \in Seq(EntryType)
         /\ \A i \in DOMAIN nets' :
              \/ i \in DOMAIN nets /\ nets'[i] = nets[i]
              \/ nets'[i].colour = "NONE" /\ nets'[i].card \in new
                 /\ nets'[i].dev = name[nets'[i].card]
         /\ \A i, k \in DOMAIN nets' : nets'[i].card = nets'[k].card => i = k
         /\ \A i \in DOMAIN nets : i \in DOMAIN nets' /\ nets'[i] = nets[i]
<1> DEFINE T == {Entry(k, "NONE", up') : k \in new}
           q == SetToSeq(T)
<1>1. IsFiniteSet(T)
  <2> DEFINE f == [k \in new |-> Entry(k, "NONE", up')]
  <2>1. f \in Surjection(new, T)
    BY DEF Surjection
  <2>2. IsFiniteSet(new)
    BY StartsAssumption, FS_Subset
  <2> HIDE DEF f, T
  <2> QED
    BY <2>1, <2>2, FS_Surjection
<1>2. \A t \in T : /\ t.card \in new /\ t.colour = "NONE" /\ t.dev = name[t.card]
                   /\ t \in EntryType /\ t = Entry(t.card, "NONE", up')
  <2>1. \A n \in Cards : name[n] \in Names
    BY DEF Typed
  <2>2. \A k \in new : k \in up'
    OBVIOUS
  <2> QED
    BY <2>1, <2>2 DEF Entry, EntryType
<1> HIDE DEF T
<1>3. q \in Seq(T) /\ IsInjective(q)
  BY <1>1, SeqOfSet
<1> HIDE DEF q
<1>4. q \in Seq(EntryType) /\ nets \in Seq(EntryType)
  <2>1. T \subseteq EntryType
    BY <1>2
  <2> QED
    BY <1>3, <2>1, SeqMonotonic DEF Typed
<1>5. \A k \in DOMAIN q : q[k] \in T
  BY <1>3, ElementOfSeq, LenProperties
<1>6. nets' = nets \o q
  BY DEF q, T
<1> DEFINE l == nets \o q
<1>6a. /\ l \in Seq(EntryType) /\ Len(nets) \in Nat /\ DOMAIN l = 1 .. Len(nets) + Len(q)
      /\ \A i \in DOMAIN l :
           \/ i \in DOMAIN nets /\ l[i] = nets[i]
           \/ i - Len(nets) \in DOMAIN q /\ i > Len(nets) /\ l[i] = q[i - Len(nets)]
  <2> HIDE DEF EntryType
  <2> QED
    BY <1>4, Joined
<1> HIDE DEF l
<1>6b. nets' = l
  BY <1>6 DEF l
<1>7. nets' \in Seq(EntryType) /\ DOMAIN nets' \subseteq Int /\ Len(nets) \in Int
  <2>1. Len(q) \in Nat
    BY <1>4, LenProperties
  <2>2. DOMAIN l \subseteq Int /\ Len(nets) \in Int
    <3>1. \A m, n \in Nat : 1 .. m + n \subseteq Int
      OBVIOUS
    <3> QED
      BY <1>6a, <2>1, <3>1
  <2> QED
    BY <1>6a, <1>6b, <2>2
<1>8. \A i \in DOMAIN nets' : \/ i \in DOMAIN nets /\ nets'[i] = nets[i]
                              \/ i - Len(nets) \in DOMAIN q /\ nets'[i] = q[i - Len(nets)]
  BY <1>6a, <1>6b
<1>9. \A i \in DOMAIN nets' :
        \/ i \in DOMAIN nets /\ nets'[i] = nets[i]
        \/ nets'[i].colour = "NONE" /\ nets'[i].card \in new /\ nets'[i].dev = name[nets'[i].card]
  BY <1>2, <1>5, <1>8
<1>10. ASSUME NEW i \in DOMAIN nets', NEW k \in DOMAIN nets', nets'[i].card = nets'[k].card
       PROVE  i = k
  <2>1. CASE nets'[i].card \in new
    <3>1. /\ i - Len(nets) \in DOMAIN q /\ nets'[i] = q[i - Len(nets)]
          /\ k - Len(nets) \in DOMAIN q /\ nets'[k] = q[k - Len(nets)]
      BY <1>8, <1>10, <2>1
    <3>2. nets'[i] = nets'[k]
      BY <1>2, <1>5, <1>10, <3>1
    <3>3. i - Len(nets) = k - Len(nets)
      BY <1>3, <3>1, <3>2 DEF IsInjective
    <3> QED
      BY <1>7, <3>3
  <2>2. CASE nets'[i].card \notin new
    <3>1. i \in DOMAIN nets /\ nets'[i] = nets[i] /\ k \in DOMAIN nets /\ nets'[k] = nets[k]
      BY <1>9, <1>10, <2>2
    <3> QED
      BY <1>10, <3>1 DEF Distinct
  <2> QED
    BY <2>1, <2>2
<1>11. \A i \in DOMAIN nets : i \in DOMAIN nets' /\ nets'[i] = nets[i]
  <2> HIDE DEF EntryType
  <2> QED
    BY <1>4, <1>6, JoinedParts
<1> QED
  BY <1>7, <1>9, <1>10, <1>11

LEMMA AddCardInv ==
  ASSUME Inv, NEW n \in Cards, AddCard(n)
  PROVE  Inv'
<1> USE DEF AddCard, bootVars, ethVars, nameVars, moreVars
<1>1. NamesKept'
  BY NamesStayKept DEF Inv, Base, NamesStay
<1> DEFINE new == up' \ {nets[i].card : i \in DOMAIN nets}
<1>2. up' \in SUBSET Cards /\ new \in SUBSET Cards
  BY DEF Inv, Base, Typed
<1>3. nets' = nets \o SetToSeq({Entry(k, "NONE", up') : k \in new})
  OBVIOUS
<1> HIDE DEF new
<1>4. /\ nets' \in Seq(EntryType)
      /\ \A i \in DOMAIN nets' :
           \/ i \in DOMAIN nets /\ nets'[i] = nets[i]
           \/ nets'[i].colour = "NONE" /\ nets'[i].card \in new /\ nets'[i].dev = name[nets'[i].card]
      /\ \A i, k \in DOMAIN nets' : nets'[i].card = nets'[k].card => i = k
      /\ \A i \in DOMAIN nets : i \in DOMAIN nets' /\ nets'[i] = nets[i]
  <2>1. new = up' \ {nets[i].card : i \in DOMAIN nets}
    BY DEF new
  <2>2. Typed /\ Distinct /\ name' = name
    BY DEF Inv, Base
  <2> QED
    BY <1>2, <1>3, <2>1, <2>2, AddedIs
<1>5. UNCHANGED <<mode, pc, entries, found, name, writable, scanned, lost, eth, changed, file, rules, server,
                  isdn, todo>>
  OBVIOUS
<1>6. pc = "cards"
  OBVIOUS
<1> HIDE DEF AddCard
<1>7. Typed'
  BY <1>2, <1>4, <1>5 DEF Inv, Base, Typed
<1>8. Distinct'
  BY <1>4, <1>5 DEF Inv, Base, Distinct
<1>9. Stage'
  BY <1>5, <1>6 DEF Inv, Base, Stage, Install, SetupOnly, Final, First
<1>10. ColoursIn(nets)' \subseteq ColoursIn(nets)
  BY <1>4 DEF ColoursIn
<1>11. OnTheWay'
  <2>1. OnTheWay
    BY <1>6 DEF Inv, Base, Records
  <2>2. /\ \A i \in DOMAIN nets' : nets'[i].colour # "NONE" => i \in DOMAIN nets /\ nets'[i] = nets[i]
        /\ \A i \in DOMAIN nets : i \in Present' <=> i \in Present
        /\ Listed \subseteq Listed'
    BY <1>4 DEF Present, Listed
  <2>3. Traced(eth, Lan)' /\ (Own(eth) => Own(eth)')
    BY <1>5, <2>1, <2>2 DEF OnTheWay, Traced, Own
  <2> HIDE DEF Present, Listed
  <2> QED
    BY <1>5, <1>10, <2>1, <2>2, <2>3 DEF OnTheWay
<1>12. Records'
  BY <1>5, <1>6, <1>11 DEF Inv, Base, Records, Inside, Outside, Final, RedAgrees, Install
<1>13. ASSUME Stubborn = {}
       PROVE  Served'
  <2>1. \A i \in DOMAIN nets' : nets'[i].dev # NoDevice
    BY <1>2, <1>4, <1>13 DEF Inv, Base, Served, Distinct
  <2> QED
    BY <1>5, <1>6, <1>10, <1>13, <2>1 DEF Inv, Served, GreenIs, Inside, Install
<1> QED
  BY <1>1, <1>7, <1>8, <1>9, <1>12, <1>13 DEF Inv, Base

LEMMA AssignInv ==
  ASSUME Inv, NEW i \in DOMAIN nets, NEW c \in Colours \cup {"NONE"}, Assign(i, c)
  PROVE  Inv'
<1> USE DEF Assign, bootVars, nameVars, moreVars
<1>1. NamesKept'
  BY NamesStayKept DEF Inv, Base, NamesStay
<1> DEFINE old == nets[i].colour
           bare == IF old = "NONE" THEN eth ELSE Without(eth, old)
<1>2. /\ old \in Colours \cup {"NONE"} /\ nets[i].dev \in Names
      /\ nets[i] \in EntryType /\ eth \in SettingsType /\ "NONE" \notin Colours
  BY ListParts DEF Inv, Base, Typed, EntryType, Colours
<1>3. /\ c # "NONE" => c \notin ColoursIn(nets)
      /\ c = "RED" => eth.type \notin Modems
  BY DEF Free
<1>4. eth' = (IF c = "NONE" THEN bare ELSE WithCard(bare, c, nets[i].dev)) /\ changed' = TRUE
  OBVIOUS
<1>5. /\ UNCHANGED <<mode, pc, entries, found, name, writable, scanned, up, file, rules, server, isdn, todo>>
      /\ lost' = lost \ {c}
  OBVIOUS
<1>6. pc = "cards"
  OBVIOUS
<1>7. /\ bare \in SettingsType /\ bare.type = eth.type
      /\ old # "NONE" => bare.count[old] = 0 /\ bare.dev[old] = NoDevice
      /\ \A d \in Colours \ {old} : bare.dev[d] = eth.dev[d] /\ bare.count[d] = eth.count[d]
  <2>1. CASE old = "NONE"
    BY <1>2, <2>1
  <2>2. CASE old # "NONE"
    <3>1. old \in Colours /\ bare = Without(eth, old)
      BY <1>2, <2>2
    <3> HIDE DEF old, bare
    <3> QED
      BY <1>2, <3>1, WithoutIs
  <2> QED
    BY <2>1, <2>2
<1>8. /\ nets' \in Seq(EntryType) /\ DOMAIN nets' = DOMAIN nets
      /\ nets'[i].card = nets[i].card /\ nets'[i].dev = nets[i].dev /\ nets'[i].colour = c
      /\ \A k \in DOMAIN nets \ {i} : nets'[k] = nets[k]
  <2> DEFINE e == [nets[i] EXCEPT !.colour = c]
  <2>1. e \in EntryType /\ e.card = nets[i].card /\ e.dev = nets[i].dev /\ e.colour = c
    BY <1>2 DEF EntryType
  <2>2. nets' = [nets EXCEPT ![i] = e]
    OBVIOUS
  <2>3. nets \in Seq(EntryType) /\ i \in 1 .. Len(nets)
    BY ListParts DEF Inv, Base, Typed
  <2> HIDE DEF e, Assign
  <2>4. nets' \in Seq(EntryType)
    BY <2>1, <2>2, <2>3, ExceptSeq
  <2> QED
    BY <2>1, <2>2, <2>4
<1> HIDE DEF bare, old, Assign
<1>9. /\ eth' \in SettingsType /\ eth'.type = eth.type
      /\ c # "NONE" => eth'.count[c] = 1 /\ eth'.dev[c] = nets[i].dev
      /\ \A d \in Colours \ {old, c} : eth'.count[d] = eth.count[d] /\ eth'.dev[d] = eth.dev[d]
      /\ old # "NONE" /\ old # c => eth'.count[old] = 0 /\ eth'.dev[old] = NoDevice
  <2>1. CASE c = "NONE"
    BY <1>4, <1>7, <2>1
  <2>2. CASE c # "NONE"
    <3>1. c \in Colours /\ eth' = WithCard(bare, c, nets[i].dev)
      BY <1>4, <2>2
    <3> QED
      BY <1>2, <1>7, <3>1, WithCardIs
  <2> QED
    BY <2>1, <2>2
<1>10. \A k \in DOMAIN nets \ {i} :
         nets[k].colour # "NONE" => nets[k].colour # old /\ nets[k].colour # c
  BY <1>3 DEF Inv, Base, Distinct, ColoursIn, old
<1>11. Typed'
  BY <1>4, <1>5, <1>8, <1>9 DEF Inv, Base, Typed
<1>12. Distinct'
  <2>1. ASSUME NEW k \in DOMAIN nets', NEW m \in DOMAIN nets', nets'[k].card = nets'[m].card
        PROVE  k = m
    <3>1. nets'[k].card = nets[k].card /\ nets'[m].card = nets[m].card
      BY <1>8
    <3> QED
      BY <1>8, <2>1, <3>1 DEF Inv, Base, Distinct
  <2>2. ASSUME NEW k \in DOMAIN nets', NEW m \in DOMAIN nets',
               nets'[k].colour = nets'[m].colour, nets'[k].colour # "NONE"
        PROVE  k = m
    BY <1>8, <1>10, <2>2 DEF Inv, Base, Distinct
  <2>3. \A k \in DOMAIN nets' : nets'[k].dev \in {name[nets'[k].card], NoDevice}
    BY <1>8 DEF Inv, Base, Distinct
  <2> QED
    BY <1>5, <2>1, <2>2, <2>3 DEF Inv, Base, Distinct
<1>13. Stage'
  BY <1>5, <1>6 DEF Inv, Base, Stage, Install, SetupOnly, Final, First
<1>14. OnTheWay'
  <2>1. OnTheWay
    BY <1>6 DEF Inv, Base, Records
  <2>a. \A k \in DOMAIN nets : k \in Present' <=> k \in Present
    BY <1>8 DEF Present
  <2>b. \A d \in Colours : Alias(d) # NoDevice /\ d # "NONE"
    BY DEF Alias, NoDevice, Colours
  <2>2. ASSUME NEW k \in DOMAIN nets, nets'[k].colour # "NONE"
        PROVE  /\ nets'[k].colour \in Lan => eth'.count[nets'[k].colour] = 1
               /\ k \in Present /\ ~writable =>
                    \/ eth'.dev[nets'[k].colour] = rules[nets'[k].card]
                    \/ nets'[k].colour = "RED" /\ eth'.dev["RED"] = NoDevice
               /\ k \notin Present => eth'.dev[nets'[k].colour] = NoDevice
    <3>1. CASE k = i
      <4>1. k \in Present => nets[i].dev = name[nets[i].card]
        BY <3>1 DEF Inv, Base, Distinct, Present
      <4>2. ~writable => name = rules
        BY DEF Inv, Base, Stage
      <4>3. k \notin Present => nets[i].dev = NoDevice
        BY <3>1 DEF Present
      <4> QED
        BY <1>8, <1>9, <2>2, <3>1, <4>1, <4>2, <4>3
    <3>2. CASE k # i
      <4>1. nets'[k] = nets[k]
        BY <1>8, <3>2
      <4>2. nets[k].colour \in Colours \ {old, c} /\ nets[k].colour # "NONE"
        <5>1. nets[k] \in EntryType
          BY ListParts DEF Inv, Base
        <5> QED
          BY <1>10, <2>2, <3>2, <4>1, <5>1 DEF EntryType
      <4> QED
        BY <1>9, <2>1, <4>1, <4>2 DEF OnTheWay
    <3> QED
      BY <3>1, <3>2
  <2>c. \A d \in Colours \ {old, c} : d \in Listed => d \in Listed'
    <3> SUFFICES ASSUME NEW d \in Colours \ {old, c}, NEW k \in Present, nets[k].colour = d
                 PROVE  d \in Listed'
      BY DEF Listed
    <3>1. k \in DOMAIN nets /\ k # i
      BY DEF Present, old
    <3>2. k \in Present' /\ nets'[k].colour = d
      BY <1>8, <2>a, <3>1
    <3> QED
      BY <3>2 DEF Listed
  <2>d. i \in Present => c \in Listed'
    BY <1>8, <2>a DEF Listed
  <2>e. Traced(eth, Lan)'
    <3> SUFFICES ASSUME NEW d \in Lan, eth'.count[d] = 1, eth'.dev[d] = Alias(d), d \notin lost'
                 PROVE  IF scanned /\ writable THEN d \in Listed' ELSE \E n \in Cards : rules[n] = Alias(d)
      BY <1>5 DEF Traced
    <3>1. d \in Colours
      BY DEF Lan, Colours
    <3>2. CASE d = c
      <4>1. nets[i].dev = Alias(d) /\ Alias(d) # NoDevice
        BY <1>9, <2>b, <3>1, <3>2
      <4>2. i \in Present /\ name[nets[i].card] = Alias(d) /\ nets[i].card \in Cards
        BY <1>2, <4>1 DEF Present, EntryType, Inv, Base, Distinct
      <4>3. ~writable \/ ~scanned => name = rules
        BY DEF Inv, Base, Stage
      <4> QED
        BY <2>d, <3>2, <4>2, <4>3
    <3>3. CASE d # c
      <4>1. d # old
        BY <1>9, <2>b, <3>1, <3>3
      <4>2. eth.count[d] = 1 /\ eth.dev[d] = Alias(d) /\ d \notin lost
        BY <1>5, <1>9, <3>1, <3>3, <4>1
      <4>3. Traced(eth, Lan)
        BY <2>1 DEF OnTheWay
      <4> QED
        BY <2>c, <3>1, <3>3, <4>1, <4>2, <4>3 DEF Traced
    <3> QED
      BY <3>2, <3>3
  <2>f. ASSUME writable, NEW x \in Colours, x \notin Listed', NEW d \in Colours, eth'.dev[x] = Alias(d)
        PROVE  x = d
    <3>1. eth'.dev[x] # NoDevice
      BY <2>b, <2>f
    <3>2. CASE x = c
      <4>1. nets[i].dev # NoDevice
        BY <1>9, <2>b, <3>1, <3>2
      <4> QED
        BY <2>d, <2>f, <3>2, <4>1 DEF Present
    <3>3. CASE x # c
      <4>1. x # old
        BY <1>9, <2>b, <3>1, <3>3
      <4>2. eth.dev[x] = Alias(d) /\ x \notin Listed
        BY <1>9, <2>c, <2>f, <3>3, <4>1
      <4> QED
        BY <2>1, <2>f, <4>2 DEF OnTheWay
    <3> QED
      BY <3>2, <3>3
  <2>3. eth'.type \in Modems => eth'.count["RED"] = 0
    BY <1>3, <1>9, <2>1 DEF OnTheWay, Colours
  <2>4. ASSUME eth'.type \notin Modems, "RED" \in ColoursIn(nets)'
        PROVE  eth'.count["RED"] = 1
    <3>1. PICK k \in DOMAIN nets : nets'[k].colour = "RED"
      BY <1>8, <2>4 DEF ColoursIn
    <3>2. CASE k = i
      BY <1>8, <1>9, <3>1, <3>2
    <3>3. CASE k # i
      <4>1. nets[k].colour = "RED" /\ "RED" \in Colours \ {old, c}
        BY <1>8, <1>10, <3>1, <3>3 DEF Colours
      <4>2. "RED" \in ColoursIn(nets)
        BY <4>1 DEF ColoursIn
      <4> QED
        BY <1>9, <2>1, <2>4, <4>1, <4>2 DEF OnTheWay
    <3> QED
      BY <3>2, <3>3
  <2>5. DOMAIN nets' = DOMAIN nets /\ changed' /\ writable' = writable /\ rules' = rules
    BY <1>4, <1>5, <1>8
  <2> HIDE DEF Present, Listed
  <2> QED
    BY <2>2, <2>3, <2>4, <2>5, <2>a, <2>e, <2>f DEF OnTheWay
<1>15. Records'
  BY <1>4, <1>5, <1>6, <1>14 DEF Inv, Base, Records, Inside, Outside, Final, RedAgrees, Install
<1>16. ASSUME Stubborn = {}
       PROVE  Served'
  <2>1. \A k \in DOMAIN nets' : nets'[k].dev # NoDevice
    BY <1>8, <1>16 DEF Inv, Served
  <2> QED
    BY <1>4, <1>5, <1>6, <1>16, <2>1 DEF Inv, Served, GreenIs, Inside, Install
<1> QED
  BY <1>1, <1>11, <1>12, <1>13, <1>15, <1>16 DEF Inv, Base

-----------------------------------------------------------------------------
(* The names for the next boot.                                            *)

LEMMA NewNames ==
  ASSUME Typed, Distinct
  PROVE  /\ \A i \in Present : NewName(i) \in Names /\ NewName(i)[1] \notin {"eth", "none"}
         /\ \A i, k \in Present : NewName(i) = NewName(k) => i = k
<1> DEFINE S(i) == {k \in Present : k <= i /\ nets[k].colour = "NONE"}
<1>1. \A i \in Present : i \in 1 .. Len(nets) /\ i \in DOMAIN nets /\ nets[i].colour \in Colours \cup {"NONE"}
  BY ListParts DEF Present, EntryType
<1>2. ASSUME NEW i \in Present
      PROVE  IsFiniteSet(S(i)) /\ Cardinality(S(i)) \in Nat
  <2>1. S(i) \in SUBSET (1 .. Len(nets)) /\ Len(nets) \in Int
    BY <1>1, ListParts
  <2>2. IsFiniteSet(1 .. Len(nets))
    BY <2>1, FS_Interval
  <2> HIDE DEF S
  <2>3. IsFiniteSet(S(i))
    BY <2>1, <2>2, FS_Subset
  <2> QED
    BY <2>3, FS_CardinalityType
<1>3. \A i, k \in Present : nets[i].colour = "NONE" /\ nets[k].colour = "NONE"
                            /\ Cardinality(S(i)) = Cardinality(S(k)) => ~(i < k)
  <2> SUFFICES ASSUME NEW i \in Present, NEW k \in Present, nets[k].colour = "NONE",
                      Cardinality(S(i)) = Cardinality(S(k)), i < k
               PROVE  FALSE
    OBVIOUS
  <2>1. i \in Int /\ k \in Int /\ Present \subseteq Int
    BY <1>1
  <2>2. S(i) \in SUBSET S(k) /\ k \in S(k) /\ k \notin S(i)
    <3>1. \A m \in S(i) : m \in Int /\ m <= k
      BY <2>1
    <3>2. S(i) \in SUBSET S(k)
      BY <3>1
    <3>3. k <= k /\ ~(k <= i)
      BY <2>1
    <3> QED
      BY <3>2, <3>3
  <2>3. IsFiniteSet(S(k))
    BY <1>2
  <2> HIDE DEF S
  <2>4. S(k) = S(i)
    BY <2>2, <2>3, FS_Subset
  <2> QED
    BY <2>2, <2>4
<1>4. \A i \in Present : NewName(i) = IF nets[i].colour # "NONE" THEN <<nets[i].colour, 1>>
                                      ELSE <<"spare", Cardinality(S(i))>>
  BY DEF NewName, Alias, Spare
<1> HIDE DEF S
<1>5. ASSUME NEW i \in Present
      PROVE  NewName(i) \in Names /\ NewName(i)[1] \notin {"eth", "none"}
  <2>1. CASE nets[i].colour # "NONE"
    BY <1>1, <1>4, <2>1 DEF Names, Colours
  <2>2. CASE nets[i].colour = "NONE"
    BY <1>2, <1>4, <2>2 DEF Names
  <2> QED
    BY <2>1, <2>2
<1>6. ASSUME NEW i \in Present, NEW k \in Present, NewName(i) = NewName(k)
      PROVE  i = k
  <2>1. CASE nets[i].colour # "NONE" /\ nets[k].colour # "NONE"
    <3>1. nets[i].colour = nets[k].colour
      BY <1>4, <1>6, <2>1
    <3> QED
      BY <1>1, <2>1, <3>1 DEF Distinct
  <2>2. CASE nets[i].colour = "NONE" /\ nets[k].colour = "NONE"
    <3>1. Cardinality(S(i)) = Cardinality(S(k))
      BY <1>4, <1>6, <2>2
    <3>2. ~(i < k) /\ ~(k < i)
      BY <1>3, <2>2, <3>1
    <3>3. i \in Int /\ k \in Int
      BY <1>1
    <3> QED
      BY <3>2, <3>3
  <2>3. CASE nets[i].colour # "NONE" /\ nets[k].colour = "NONE"
    BY <1>1, <1>4, <1>6, <2>3 DEF Colours
  <2>4. CASE nets[i].colour = "NONE" /\ nets[k].colour # "NONE"
    BY <1>1, <1>4, <1>6, <2>4 DEF Colours
  <2> QED
    BY <2>1, <2>2, <2>3, <2>4
<1> QED
  BY <1>5, <1>6

LEMMA UdevRulesIs ==
  ASSUME Typed, Distinct
  PROVE  /\ UdevRules \in [Cards -> Names] /\ IsInjective(UdevRules)
         /\ \A n \in Cards : UdevRules[n] # NoDevice
         /\ \A i \in Present : UdevRules[nets[i].card] = NewName(i)
<1> DEFINE is(n) == {i \in Present : nets[i].card = n}
           the(n) == CHOOSE i \in is(n) : TRUE
<1>1. UdevRules = [n \in Cards |-> IF is(n) = {} THEN Kernel[n] ELSE NewName(the(n))]
  BY DEF UdevRules
<1>2. \A n \in Cards : is(n) # {} => the(n) \in Present /\ nets[the(n)].card = n
  OBVIOUS
<1>3. \A i \in Present : nets[i].card \in Cards /\ is(nets[i].card) = {i}
  BY ListParts DEF Present, EntryType, Distinct
<1>4. \A i \in Present : the(nets[i].card) = i
  BY <1>3
<1> HIDE DEF is, the
<1>5. \A n \in Cards : /\ UdevRules[n] = IF is(n) = {} THEN Kernel[n] ELSE NewName(the(n))
                       /\ Kernel[n] \in Names /\ Kernel[n][1] = "eth"
  BY <1>1, NetSetupAssumption, StartsAssumption
<1>6. UdevRules \in [Cards -> Names]
  BY <1>1, <1>2, <1>5, NewNames
<1>7. ASSUME NEW m \in Cards, NEW n \in Cards, UdevRules[m] = UdevRules[n]
      PROVE  m = n
  <2>1. CASE is(m) = {} /\ is(n) = {}
    <3>1. Kernel[m] = Kernel[n]
      BY <1>5, <1>7, <2>1
    <3> QED
      BY <3>1, NetSetupAssumption, StartsAssumption DEF IsInjective
  <2>2. CASE is(m) # {} /\ is(n) # {}
    <3>1. NewName(the(m)) = NewName(the(n))
      BY <1>5, <1>7, <2>2
    <3>2. the(m) = the(n)
      BY <1>2, <2>2, <3>1, NewNames
    <3> QED
      BY <1>2, <2>2, <3>2
  <2>3. CASE is(m) # {} /\ is(n) = {}
    BY <1>2, <1>5, <1>7, <2>3, NewNames
  <2>4. CASE is(m) = {} /\ is(n) # {}
    BY <1>2, <1>5, <1>7, <2>4, NewNames
  <2> QED
    BY <2>1, <2>2, <2>3, <2>4
<1>8. ASSUME NEW n \in Cards
      PROVE  UdevRules[n] # NoDevice
  <2>1. NoDevice[1] = "none"
    BY DEF NoDevice
  <2>2. UdevRules[n][1] # "none"
    <3>1. CASE is(n) = {}
      BY <1>5, <3>1
    <3>2. CASE is(n) # {}
      BY <1>2, <1>5, <3>2, NewNames
    <3> QED
      BY <3>1, <3>2
  <2> QED
    BY <2>1, <2>2
<1>9. \A i \in Present : UdevRules[nets[i].card] = NewName(i)
  BY <1>3, <1>4, <1>5
<1> QED
  BY <1>6, <1>7, <1>8, <1>9 DEF IsInjective

LEMMA CardsDoneInv ==
  ASSUME Inv, CardsDone
  PROVE  Inv'
<1> USE DEF bootVars, listVars, nameVars, moreVars
<1>1. NamesKept'
  BY NamesStayKept DEF CardsDone, Inv, Base, NamesStay
<1> DEFINE e == IF NeedsRed THEN WithType(eth, "ANALOG") ELSE eth
           ch == changed \/ NeedsRed
           new == ch /\ writable
<1>2. /\ pc = "cards" /\ pc' = (IF Install THEN "ask" ELSE "menu")
      /\ "GREEN" \in ColoursIn(nets)
      /\ changed' = ch /\ todo' = Asked(e)
      /\ eth' = IF new THEN Renamed(e) ELSE e
      /\ rules' = IF new THEN UdevRules ELSE rules
      /\ UNCHANGED <<mode, entries, found, name, writable, up, nets, scanned, lost, file, green, isdn, server>>
  BY DEF CardsDone
<1>3. /\ Typed /\ Distinct /\ OnTheWay /\ eth \in SettingsType /\ scanned
      /\ \A i \in DOMAIN nets : nets[i] \in EntryType
  BY <1>2, ListParts DEF Inv, Base, Typed, Records, Stage
<1>4. /\ e \in SettingsType /\ RedAgrees(e) /\ RedThere(e)
      /\ \A c \in Lan : e.dev[c] = eth.dev[c] /\ e.count[c] = eth.count[c]
      /\ e.dev["RED"] \in {eth.dev["RED"], NoDevice}
      /\ "RED" \in ColoursIn(nets) => e = eth
  <2>1. CASE NeedsRed
    <3>1. /\ e = WithType(eth, "ANALOG") /\ "ANALOG" \in RedTypes /\ "ANALOG" \in Modems
          /\ "RED" \notin ColoursIn(nets)
      BY <2>1 DEF RedTypes, Modems, NeedsRed
    <3> HIDE DEF e
    <3> QED
      BY <1>3, <3>1, WithTypeIs DEF RedAgrees, RedThere
  <2>2. CASE ~NeedsRed
    <3>1. eth.count["RED"] \in 0 .. 1
      BY <1>3, SettingsParts
    <3> QED
      BY <1>3, <2>2, <3>1 DEF OnTheWay, RedAgrees, RedThere, NeedsRed
  <2> QED
    BY <2>1, <2>2
<1>5. ~ch => e = eth
  OBVIOUS
<1>a. \A c \in Colours : /\ c \in Lan \/ c = "RED"
                         /\ c # "NONE" /\ Alias(c) # NoDevice
                         /\ \A d \in Colours : Alias(c) = Alias(d) => c = d
  BY DEF Colours, Lan, Alias, NoDevice
<1>b. "RED" \in Colours /\ "RED" \notin Lan /\ Lan \subseteq Colours
  BY DEF Colours, Lan
<1> HIDE DEF e, ch
<1>6. /\ eth' \in SettingsType /\ eth'.type = e.type /\ eth'.count = e.count
      /\ new => \A i \in Present : nets[i].colour \in Colours =>
                  eth'.dev[nets[i].colour] = Alias(nets[i].colour)
      /\ new => \A c \in Colours \ Listed : eth'.dev[c] = e.dev[c]
      /\ ~new => eth' = e
  BY <1>2, <1>4, <1>5, RenamedIs
<1>7. /\ rules' \in [Cards -> Names] /\ IsInjective(rules')
      /\ \A n \in Cards : rules'[n] # NoDevice
      /\ new => \A i \in Present : rules'[nets[i].card] = NewName(i)
      /\ ~new => rules' = rules
  BY <1>2, <1>3, UdevRulesIs DEF Typed, Distinct
<1>8. pc' \in Inside /\ pc' # "scan" /\ changed' \in BOOLEAN
  BY <1>2 DEF Inside, Inv, Base, Typed, ch, NeedsRed
<1>9. Typed' /\ Distinct'
  BY <1>2, <1>3, <1>6, <1>7, <1>8 DEF Typed, Distinct
<1>10. Stage'
  BY <1>2, <1>3, <1>7 DEF Inv, Base, Stage, Install, SetupOnly, Final, First, Asked
<1>11. ASSUME NEW i \in DOMAIN nets, nets[i].colour # "NONE"
       PROVE  /\ nets[i].colour \in Lan => eth'.count[nets[i].colour] = 1
              /\ i \in Present => \/ eth'.dev[nets[i].colour] = rules'[nets[i].card]
                                  \/ nets[i].colour = "RED" /\ eth'.dev["RED"] = NoDevice
              /\ i \notin Present => eth'.dev[nets[i].colour] = NoDevice
  <2>1. nets[i].colour \in Colours /\ e.dev[nets[i].colour] = eth.dev[nets[i].colour]
    <3>1. nets[i].colour \in Colours
      BY <1>3, <1>11 DEF EntryType
    <3>2. nets[i].colour = "RED" => "RED" \in ColoursIn(nets)
      BY DEF ColoursIn
    <3> QED
      BY <1>4, <1>a, <3>1, <3>2
  <2>2. nets[i].colour \in Lan => eth'.count[nets[i].colour] = 1
    BY <1>3, <1>4, <1>6, <1>11 DEF OnTheWay
  <2>3. CASE new /\ i \in Present
    BY <1>6, <1>7, <1>11, <2>1, <2>2, <2>3 DEF NewName
  <2>4. CASE new /\ i \notin Present
    <3>1. nets[i].colour \notin Listed
      BY <1>3, <1>11, <2>4 DEF Listed, Distinct, Present
    <3>2. eth.dev[nets[i].colour] = NoDevice
      BY <1>3, <1>11, <2>4 DEF OnTheWay
    <3> QED
      BY <1>6, <2>1, <2>2, <2>4, <3>1, <3>2
  <2>5. CASE ~new
    <3>1. ~(changed /\ writable)
      BY <2>5 DEF ch
    <3>2. "RED" = nets[i].colour => e.dev["RED"] = eth.dev["RED"]
      BY <2>1
    <3> QED
      BY <1>3, <1>6, <1>7, <1>11, <2>1, <2>2, <2>5, <3>1, <3>2 DEF OnTheWay
  <2> QED
    BY <2>3, <2>4, <2>5
<1>c. Agree(eth)'
  BY <1>2, <1>11 DEF Agree, Present
<1>d. writable => Own(eth)'
  <2> SUFFICES ASSUME writable, NEW c \in Colours, NEW d \in Colours, eth'.dev[c] = Alias(d)
               PROVE  c = d
    BY DEF Own
  <2>1. e.dev[c] \in {eth.dev[c], NoDevice}
    BY <1>4, <1>a
  <2>2. CASE new /\ c \in Listed
    BY <1>6, <1>a, <2>2 DEF Listed
  <2>3. CASE new /\ c \notin Listed
    BY <1>3, <1>6, <1>a, <2>1, <2>3 DEF OnTheWay
  <2>4. CASE ~new
    <3>1. ~changed /\ eth'.dev[c] = eth.dev[c]
      BY <1>5, <1>6, <2>4 DEF ch
    <3> QED
      BY <1>3, <3>1 DEF OnTheWay, Own
  <2> QED
    BY <2>2, <2>3, <2>4
<1>e. Traced(eth, Colours)'
  <2> SUFFICES ASSUME NEW c \in Colours, eth'.count[c] = 1, eth'.dev[c] = Alias(c), c \notin lost
               PROVE  IF writable THEN c \in Listed ELSE \E n \in Cards : rules'[n] = Alias(c)
    BY <1>2, <1>3 DEF Traced, Listed, Present
  <2>1. CASE c = "RED"
    <3>1. "RED" \in ColoursIn(nets)
      BY <1>4, <1>6, <2>1 DEF RedThere
    <3>2. PICK i \in DOMAIN nets : nets[i].colour = c
      BY <2>1, <3>1 DEF ColoursIn
    <3>3. i \in Present /\ rules'[nets[i].card] = Alias(c) /\ nets[i].card \in Cards
      BY <1>3, <1>11, <1>a, <2>1, <3>2 DEF EntryType
    <3> QED
      BY <3>2, <3>3 DEF Listed
  <2>2. CASE c \in Lan
    <3>1. eth.count[c] = 1 /\ e.dev[c] = eth.dev[c]
      BY <1>4, <1>6, <2>2
    <3>2. CASE c \in Listed
      <4>1. PICK i \in Present : nets[i].colour = c
        BY <3>2 DEF Listed
      <4>2. i \in DOMAIN nets /\ nets[i].card \in Cards
        BY <1>3 DEF Present, EntryType
      <4>3. rules'[nets[i].card] = Alias(c)
        BY <1>11, <1>a, <4>1, <4>2
      <4> QED
        BY <3>2, <4>2, <4>3
    <3>3. CASE c \notin Listed
      <4>1. eth.dev[c] = Alias(c)
        BY <1>6, <3>1, <3>3
      <4>2. IF writable THEN c \in Listed ELSE \E n \in Cards : rules[n] = Alias(c)
        BY <1>3, <2>2, <3>1, <4>1 DEF OnTheWay, Traced
      <4> QED
        BY <1>7, <3>3, <4>2
    <3> QED
      BY <3>2, <3>3
  <2> QED
    BY <1>a, <2>1, <2>2
<1>12. RedAgrees(eth)' /\ RedThere(eth)' /\ RedAgrees(file)'
  BY <1>2, <1>4, <1>6 DEF RedAgrees, RedThere, Inv, Base, Records
<1>f. ~Install /\ ~ch => eth' = file
  BY <1>2, <1>5, <1>6 DEF ch, Inv, Base, Records
<1>13. Records'
  BY <1>2, <1>8, <1>12, <1>c, <1>d, <1>e, <1>f DEF Inv, Base, Records, Inside, Outside, Final,
     Install
<1>14. ASSUME Stubborn = {}
       PROVE  Served'
  <2>1. Served
    BY <1>14 DEF Inv
  <2>2. PICK i \in DOMAIN nets : nets[i].colour = "GREEN"
    BY <1>2 DEF ColoursIn
  <2>3. i \in Present
    BY <2>1, <2>2 DEF Served, Present
  <2>4. new => GreenIs(eth)'
    BY <1>6, <2>2, <2>3 DEF GreenIs, Colours
  <2>5. Install => new
    BY <1>2, <2>1 DEF Served, ch, Inv, Base, Stage
  <2>6. server # NoDevice /\ ~new => ~ch
    BY <2>1 DEF Served
  <2> QED
    BY <1>2, <1>f, <2>1, <2>4, <2>5, <2>6 DEF Served, GreenIs, Install
<1> QED
  BY <1>1, <1>9, <1>10, <1>13, <1>14 DEF Inv, Base

-----------------------------------------------------------------------------
LEMMA InitInv ==
  ASSUME Init
  PROVE  Inv
<1>1. PICK s \in Starts :
        /\ mode = s.mode /\ entries = s.entries /\ found = s.found
        /\ pc = IF s.mode = "install" THEN "timezone" ELSE "main"
        /\ name = s.rules /\ rules = s.rules /\ up = s.up /\ writable = s.writable
        /\ file = s.file /\ eth = s.file
  BY DEF Init
<1>2. s \in StartType
  BY NetSetupAssumption
<1>3. /\ s.mode \in {"install", "setup"} /\ s.file \in SettingsType /\ s.rules \in [Cards -> Names]
      /\ s.found \in Seq(Cards) /\ s.up \in SUBSET Cards /\ s.writable \in BOOLEAN
  BY <1>2 DEF StartType
<1>4. nets \in Seq(EntryType) /\ DOMAIN nets = {} /\ nets = <<>> /\ scanned = FALSE
  <2>1. nets = << >> /\ << >> \in Seq(EntryType) /\ Len(<< >>) = 0 /\ scanned = FALSE
    BY EmptySeq DEF Init
  <2> QED
    BY <2>1, LenProperties
<1>5. Typed
  BY <1>1, <1>3, <1>4 DEF Init, Typed, Outside
<1>6. Distinct
  BY <1>1, <1>4, StartsAssumption DEF Distinct
<1>7. Stage
  <2>1. s.mode = "install" => s.rules = Kernel /\ s.writable
    BY NetSetupAssumption, StartsAssumption
  <2> QED
    BY <1>1, <1>3, <1>4, <2>1 DEF Init, Stage, Install, SetupOnly, Final
<1>8. Agree(file) /\ RedAgrees(file) /\ Own(file)
  BY <1>1, <1>4, StartsAssumption DEF Agree, Present, RedAgrees, Own
<1>8a. Traced(file, Colours)
  BY <1>1, <1>4, StartsAssumption DEF Traced
<1>9. Records
  BY <1>1, <1>4, <1>8, <1>8a DEF Records, Inside, Final
<1>10. NamesKept
  BY DEF Init, NamesKept, NameType, ShownType
<1>11. Served
  BY <1>1, <1>4 DEF Init, Served, Inside
<1> QED
  BY <1>5, <1>6, <1>7, <1>9, <1>10, <1>11 DEF Inv, Base

LEMMA StutterInv ==
  ASSUME Inv, UNCHANGED vars
  PROVE  Inv'
<1> USE DEF vars, bootVars, listVars, ethVars, nameVars, moreVars
<1>1. Typed' /\ Distinct'
  BY DEF Inv, Base, Typed, Distinct
<1>2. Stage' /\ NamesKept'
  BY DEF Inv, Base, Stage, NamesKept, Install
<1>3. Records'
  BY DEF Inv, Base, Records, Agree, RedAgrees, RedThere, ColoursIn, Present, OnTheWay, Install,
     Own,
    Traced, Listed
<1>4. (Stubborn = {} => Served)'
  BY DEF Inv, Served, GreenIs, ColoursIn, Install
<1> QED
  BY <1>1, <1>2, <1>3, <1>4 DEF Inv, Base

LEMMA NextInv ==
  ASSUME Inv, [Next]_vars
  PROVE  Inv'
<1>1. CASE Windows
  BY <1>1, ChooseInv, TimezoneInv, HostnameInv, DomainInv, PasswordInv, NetEnterInv,
     MenuChooseInv, MenuLeaveInv, RedTypeInv DEF Windows
<1>2. CASE CardWindows
  BY <1>2, ScanInv, AddCardInv, SelectNothingInv, CardsDoneInv, AssignInv DEF CardWindows
<1>3. CASE MoreWindows
  BY <1>3, AskAddressInv, MenuAddressInv, SaveInv, DhcpInv, OptionalInv, IsdnInv, IsdnLeaveInv
  DEF MoreWindows, ChangeDnsGateway, ChangeHostname
<1> QED
  BY <1>1, <1>2, <1>3, RebootInv, StutterInv DEF Next, Idle

LEMMA Invariance == Spec => []Inv
<1>1. Init => Inv
  BY InitInv
<1>2. Inv /\ [Next]_vars => Inv'
  BY NextInv
<1> QED
  BY <1>1, <1>2, PTL DEF Spec

\* Variables keep their types (networks[], ethernet/settings, the udev rules and
\* the windows of source/core/installer), for any cards, settings and user.
THEOREM TypeCorrect == Spec => []TypeOK
<1>1. Inv => TypeOK
  BY ListParts DEF Inv, Base, Typed, Stage, TypeOK, EntryType, Outside, Inside, Entries,
     MenuEntries
<1> QED
  BY <1>1, Invariance, PTL

\* The cards keep their colours over windows, visits of the menu and reboots:
\* whenever setup is closed the settings name for each colour the interface its
\* card will have (RED may be without one, if its type was a modem's in between),
\* no two cards get one name, and no colour is left with a name that no card will
\* have, unless its card could not be listed by the scan
\* (networking.c: scancards, cardconfig, udevconfig, cardlist).
THEOREM ColoursKept == Spec => []CardsKeepColours
<1>1. Inv => CardsKeepColours
  <2> SUFFICES ASSUME Inv, Closed PROVE CardsKeepColours
    BY DEF CardsKeepColours
  <2>1. Agree(file) /\ Traced(file, Colours)
    BY DEF Closed, Inv, Base, Records, Outside
  <2>2. IsInjective(rules) /\ DOMAIN rules = Cards /\ up \subseteq Cards
    BY DEF Inv, Base, Typed, Distinct
  <2>3. \A i \in Present : /\ i \in DOMAIN nets /\ nets[i].card \in Cards
                           /\ nets[i].colour \in Colours \cup {"NONE"}
    BY ListParts DEF Present, EntryType, Inv, Base
  <2>4. ASSUME NEW i \in Present
        PROVE  /\ nets[i].colour # "NONE" =>
                    \/ file.dev[nets[i].colour] = rules[nets[i].card]
                    \/ nets[i].colour = "RED" /\ file.dev[nets[i].colour] = NoDevice
               /\ nets[i].colour \in {"GREEN", "BLUE", "ORANGE"} => file.count[nets[i].colour] = 1
    BY <2>1, <2>3 DEF Agree, Lan
  <2>5. ASSUME NEW c \in Colours \ lost, file.count[c] = 1, file.dev[c] = Alias(c)
        PROVE  \E n \in Cards : rules[n] = Alias(c)
    <3>1. CASE scanned /\ writable
      <4>1. PICK i \in Present : nets[i].colour = c
        BY <2>1, <2>5, <3>1 DEF Traced, Listed
      <4>2. c # "NONE" /\ Alias(c) # NoDevice
        BY DEF Colours, Alias, NoDevice
      <4> QED
        BY <2>3, <2>4, <2>5, <4>1, <4>2
    <3>2. CASE ~(scanned /\ writable)
      BY <2>1, <2>5, <3>2 DEF Traced
    <3> QED
      BY <3>1, <3>2
  <2> QED
    BY <2>2, <2>4, <2>5 DEF CardsKeepColours, IsInjective
<1> QED
  BY <1>1, Invariance, PTL

\* The settings have an interface RED exactly when its type is no modem's, and
\* an installation that went through the list of cards has a card for it
\* (networking.c: redconfigtype, cardlist).
THEOREM RedAsTyped == Spec => []RedFollowsType
<1>1. Inv => RedFollowsType
  BY DEF Inv, Base, Stage, Records, RedFollowsType, RedAgrees, RedThere, Closed, Final, SetupOnly
<1> QED
  BY <1>1, Invariance, PTL

\* The names in the files of the system are those of the settings, but for a
\* domain that was refused, and unless they could not be written (host_domain.c).
THEOREM NamesWritten == Spec => []NamesAgree
<1>1. Inv => NamesAgree
  BY DEF Inv, Base, NamesKept, NamesAgree
<1> QED
  BY <1>1, Invariance, PTL

-----------------------------------------------------------------------------
(* The range for the DHCP server.                                          *)

\* When there is room above GREEN the range runs from the next address to the
\* last host.
LEMMA RangeAbove ==
  ASSUME NEW size \in Nat, NEW at \in 0 .. size - 1, Above(size, at)
  PROVE  Serves(size, at)
<1>1. Pool(size, at) = (at + 1) .. (size - 2)
  BY DEF Pool, StartAddr, EndAddr, Broadcast
<1>2. at + 2 < size - 1
  BY DEF Above, Broadcast
<1> QED
  BY <1>1, <1>2 DEF Serves, Broadcast

\* Otherwise it runs from the first host to the address below GREEN: there is
\* one as soon as GREEN is not the first host.
LEMMA RangeBelow ==
  ASSUME NEW size \in Nat, NEW at \in 0 .. size - 1, ~Above(size, at), at >= 2
  PROVE  Serves(size, at)
<1>1. Pool(size, at) = 1 .. (at - 1)
  BY DEF Pool, StartAddr, EndAddr
<1>2. 1 \in 1 .. (at - 1) /\ at - 1 <= size - 2
  OBVIOUS
<1> QED
  BY <1>1, <1>2 DEF Serves, Broadcast

\* net_dhcp.c: the default range is not empty, has only addresses of hosts and
\* not GREEN's own, on every network larger than four addresses, and on one of
\* four for every GREEN but the first host's and that of the network.
THEOREM DefaultRangeServes ==
  ASSUME NEW size \in Nat, NEW at \in 0 .. size - 1,
         size >= 5 \/ (size = 4 /\ at >= 2)
  PROVE  Serves(size, at)
<1>1. CASE Above(size, at)
  BY <1>1, RangeAbove
<1>2. CASE ~Above(size, at)
  <2>1. at >= 2
    BY <1>2 DEF Above, Broadcast
  <2> QED
    BY <1>2, <2>1, RangeBelow
<1> QED
  BY <1>1, <1>2

LEMMA GreenIsTyped ==
  Spec => [](green \in Greens \cup {<<256, 254>>})
<1> DEFINE I == green \in Greens \cup {<<256, 254>>}
<1>1. Init => I
  BY DEF Init
<1>2. I /\ [Next]_vars => I'
  <2> SUFFICES ASSUME I, [Next]_vars PROVE I'
    OBVIOUS
  <2>1. UNCHANGED green \/ AskAddress \/ Dhcp
    BY DEF Next, Windows, CardWindows, MoreWindows, Reboot, Idle, Choose, Timezone, Hostname,
      Domain, Password, ToWindow, NetEnter, MenuChoose, MenuLeave, RedType, Scan, AddCard,
      SelectNothing, CardsDone, Assign, MenuAddress, Save, ChangeDnsGateway, ChangeHostname,
      Optional, Isdn, IsdnLeave, vars
  <2> QED
    BY <2>1 DEF AskAddress, Dhcp
<1> QED
  BY <1>1, <1>2, PTL DEF Spec

\* setup offers a range that can be used, on networks of four addresses and more
\* (of four, GREEN is not their own address), unless GREEN is the first host of
\* four; and a DHCP server that was switched on in the installation serves the interface
\* that is GREEN from then on, when the drivers of all cards load (net_dhcp.c,
\* networking.c: udevconfig).
THEOREM RangeAndServer ==
  ASSUME \A g \in Greens : g[1] >= 5 \/ (g[1] = 4 /\ g[2] >= 1), Stubborn = {}
  PROVE  Spec => []RangeServes
<1>1. ASSUME green \in Greens \cup {<<256, 254>>}, green # <<4, 1>>
      PROVE  Serves(green[1], green[2])
  <2>1. CASE green = <<256, 254>>
    <3>1. green[1] = 256 /\ green[2] = 254
      BY <2>1
    <3>2. 256 \in Nat /\ 254 \in 0 .. 256 - 1 /\ 256 >= 5
      OBVIOUS
    <3> QED
      BY <3>1, <3>2, DefaultRangeServes
  <2>2. CASE green \in Greens
    <3>1. green[1] \in Nat /\ green[2] \in 0 .. green[1] - 1 /\ green = <<green[1], green[2]>>
      BY <2>2, NetSetupAssumption
    <3>2. green[1] >= 5 \/ (green[1] = 4 /\ green[2] >= 2)
      BY <1>1, <2>2, <3>1
    <3> QED
      BY <3>1, <3>2, DefaultRangeServes
  <2> QED
    BY <1>1, <2>1, <2>2
<1>2. Inv => (Closed /\ server # NoDevice => server = file.dev["GREEN"])
  BY DEF Inv, Served, GreenIs
<1>3. Inv /\ green \in Greens \cup {<<256, 254>>} => RangeServes
  BY <1>1, <1>2 DEF RangeServes
<1> QED
  BY <1>3, Invariance, GreenIsTyped, PTL
=============================================================================
