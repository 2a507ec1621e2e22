------------------------- MODULE MCDHCPApplication --------------------------
(* DHCPApplication with two servers, one of which offers the address the    *)
(* device has, and the options a home router sends.                         *)
EXTENDS DHCPApplication

CONSTANTS near, far, device, other

MCServer == {near, far}
MCIP == {device, other}
MCOffered == near :> device @@ far :> other

\* The other way round: nobody offers the address the device has.
MCOfferedOther == near :> other @@ far :> other

\* Lease time, server identifier, mask and router (192.168.1.1); nothing but
\* the end.
MCTails ==
    { <<51, 4, 0, 118, 167, 0, 54, 4, 192, 168, 1, 1, 1, 4, 255, 255, 255, 0,
        3, 4, 192, 168, 1, 1, 255, 0, 0, 0>>,
      <<255>> }

\* The NetBIOS name server, one of the options the client itself asks for.
MCTailsNetBIOS == { <<44, 4, 192, 168, 1, 1, 255>> }
=============================================================================
