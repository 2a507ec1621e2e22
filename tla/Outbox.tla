------------------------------- MODULE Outbox -------------------------------
(***************************************************************************)
(* What ProtocolManager promises to the programs that hand it packets: an  *)
(* outbox with one box per destination.  While the outbox is closed (no    *)
(* link address is known for the router) a packet waits in the box of its  *)
(* destination, where a newer packet for the same destination replaces it. *)
(* Opening the outbox transmits everything that waits, once, and from then *)
(* on packets go straight out.  Nothing closes the outbox again.           *)
(***************************************************************************)
EXTENDS Naturals, Sequences, SequencesExt

CONSTANTS
    Dest,       \* the destinations a packet may wait for
    Everyone    \* the broadcast destination, whose packets never wait

VARIABLES
    open,       \* TRUE once packets go straight out
    box,        \* box[d]: number of the packet waiting for d, 0 when none does
    out,        \* numbers of the transmitted packets, in order
    accepted    \* accepted[n]: destination of the n-th packet handed over

vars == <<open, box, out, accepted>>

Boxed == {box[d] : d \in Dest} \ {0}

Init ==
    /\ open = FALSE
    /\ box = [d \in Dest |-> 0]
    /\ out = <<>>
    /\ accepted = <<>>

\* A packet for d is handed over: it waits, or goes out if the outbox is open.
Submit(d) ==
    /\ accepted' = Append(accepted, d)
    /\ IF open
       THEN out' = Append(out, Len(accepted) + 1) /\ box' = box
       ELSE box' = [box EXCEPT ![d] = Len(accepted) + 1] /\ out' = out
    /\ UNCHANGED open

\* A broadcast packet goes out at once.
SubmitToAll ==
    /\ accepted' = Append(accepted, Everyone)
    /\ out' = Append(out, Len(accepted) + 1)
    /\ UNCHANGED <<open, box>>

\* The outbox opens: everything that waits goes out, in some order.
Open ==
    /\ ~open
    /\ open' = TRUE
    /\ \E order \in SetToSeqs(Boxed) : out' = out \o order
    /\ box' = [d \in Dest |-> 0]
    /\ UNCHANGED accepted

Next == (\E d \in Dest : Submit(d)) \/ SubmitToAll \/ Open

Spec == Init /\ [][Next]_vars
=============================================================================
