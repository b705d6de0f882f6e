----------------------------- MODULE DhcpRange -----------------------------
(***************************************************************************)
(* The range of addresses setup offers for the DHCP server on GREEN, when  *)
(* the settings have none: changedhcpserver of net_dhcp.c.  Addresses are  *)
(* counted from the address of the network, so that the broadcast address  *)
(* is the size of the network less one; the user has typed in the address  *)
(* of GREEN and the mask, and nothing else is known about them.            *)
(***************************************************************************)
EXTENDS Integers

Broadcast(size) == size - 1

\* Mutant: there is room above GREEN up to the broadcast address.
AboveToTheBrim(size, green) == green < Broadcast(size)

\* There is room above GREEN.
Above(size, green) == green + 2 < Broadcast(size)

StartAddr(size, green) == IF Above(size, green) THEN green + 1 ELSE 1
EndAddr(size, green) == IF Above(size, green) THEN Broadcast(size) - 1 ELSE green - 1

Pool(size, green) == StartAddr(size, green) .. EndAddr(size, green)

\* A range the server can use: not empty, only addresses of hosts, not GREEN.
Serves(size, green) ==
    /\ Pool(size, green) # {}
    /\ Pool(size, green) \subseteq 1 .. Broadcast(size) - 1
    /\ green \notin Pool(size, green)

=============================================================================
