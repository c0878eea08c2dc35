---------------------------- MODULE PacketTransfer --------------------------
(***************************************************************************)
(* What a transfer of tokens with packets promises, in either direction:   *)
(* a unit leaves the source with its packet, and enters the destination    *)
(* once, when the packet is received.  Nothing is said of clients, proofs, *)
(* relayers, mempools and commands.                                        *)
(***************************************************************************)
EXTENDS Integers, FiniteSets

CONSTANT Packets

VARIABLES
    source,        \* units on the chain that sends
    destination,   \* units that the other chain has released or minted
    sent,          \* packets that were ever committed
    delivered      \* packets that were received

vars == <<source, destination, sent, delivered>>

Init ==
    /\ source \in Nat /\ destination = 0
    /\ sent = {} /\ delivered = {}

\* A block of the source commits some packets, none of which it committed before,
\* and takes a unit for each.
Send(packets) ==
    /\ packets # {}
    /\ packets \cap sent = {}
    /\ source >= Cardinality(packets)
    /\ source' = source - Cardinality(packets)
    /\ sent' = sent \cup packets
    /\ UNCHANGED <<destination, delivered>>

\* The destination receives a packet that was sent and that it has not received.
Receive(packet) ==
    /\ packet \in sent \ delivered
    /\ destination' = destination + 1
    /\ delivered' = delivered \cup {packet}
    /\ UNCHANGED <<source, sent>>

Next ==
    \/ \E packets \in SUBSET Packets : Send(packets)
    \/ \E packet \in Packets : Receive(packet)

Spec == Init /\ [][Next]_vars
=============================================================================
