------------------------------ MODULE MCJpcap -------------------------------
EXTENDS Jpcap, TLC

CONSTANTS c1, c2, s1, eth, file

MCCaptors == {c1, c2}
MCSenders == {s1}
MCDevices == {eth}
MCFiles == {file}

\* Ethernet and token ring.
MCLinkType == eth :> 1 @@ file :> 6

MCSymmetry == Permutations(MCCaptors)
=============================================================================
