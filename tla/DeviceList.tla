----------------------------- MODULE DeviceList ------------------------------
(***************************************************************************)
(* From the network cards of the host to the one the program runs on:      *)
(* getDeviceList of JpcapCaptor.c as built for Windows, the choice of main *)
(* and the addresses DataLinkLayer takes from it.                          *)
(*                                                                         *)
(* libpcap and the IP helper list the cards by names that end in the same  *)
(* GUID, {XXXXXXXX-XXXX-...}.  A GUID is its first eight digits and the    *)
(* rest, 29 characters with the brace that closes it.  An address has a    *)
(* family.                                                                 *)
(***************************************************************************)
EXTENDS Integers, Sequences, FiniteSetsExt

AF_INET == 2
AF_INET6 == 23

None == <<>>
NoMac == <<0, 0, 0, 0, 0, 0>>

\* The bytes of an address, or none of a family that is not IP.
getAddressByteArray(addr) ==
    IF addr # None /\ addr.family \in {AF_INET, AF_INET6} THEN addr.bytes ELSE None

\* The addresses of a card, each with its mask.  Those of another family are left out.
addresses_of(d) ==
    LET usable(a) == getAddressByteArray(a.addr) # None
        both(a) == [address |-> getAddressByteArray(a.addr), subnet |-> getAddressByteArray(a.netmask)]
        from[k \in 1..(Len(d.addresses) + 1)] ==
          IF k > Len(d.addresses) THEN <<>>
          ELSE (IF usable(d.addresses[k]) THEN <<both(d.addresses[k])>> ELSE <<>>) \o from[k + 1]
    IN  from[1]

\* The link address by position in the two lists.
mac_of_ByPosition(d, j, adapters) == IF j \in DOMAIN adapters THEN adapters[j].mac ELSE NoMac

\* Names are compared from their ends, and 30 equal characters are enough, of which the
\* first is the NUL: the first eight digits of a GUID make no difference.
same_end(a, b) == a.rest = b.rest

\* The link address of the card, from the last adapter whose name has the same end.
mac_of(d, j, adapters) ==
    LET same == {k \in DOMAIN adapters : same_end(adapters[k].guid, d.guid)}
    IN  IF same = {} THEN NoMac ELSE adapters[Max(same)].mac

getDeviceList(alldevs, adapters) ==
    [j \in DOMAIN alldevs |->
       [name |-> alldevs[j].guid, mac_address |-> mac_of(alldevs[j], j, adapters),
        addresses |-> addresses_of(alldevs[j])]]

-----------------------------------------------------------------------------
\* Where the addresses of four bytes are, which are Inet4Address.
Inet4(device) == {k \in DOMAIN device.addresses : Len(device.addresses[k].address) = 4}

\* main: the last card with an IPv4 address; without one there is none, and the program ends.
chosen(devices) ==
    LET usable == {j \in DOMAIN devices : Inet4(devices[j]) # {}}
    IN  IF usable = {} THEN None ELSE devices[Max(usable)]

\* DataLinkLayer.initWithOpenDevice: its address is the first IPv4 address of the card.
initWithOpenDevice(device) ==
    [device     |-> device.name,
     ipAddress  |-> device.addresses[Min(Inet4(device))].address,
     macAddress |-> device.mac_address]
=============================================================================
