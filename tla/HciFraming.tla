----------------------------- MODULE HciFraming -----------------------------
(***************************************************************************)
(* From USB chunks to HCI packets.  One IN endpoint of the transport keeps a *)
(* transfer with a large buffer posted (btstack-nusb/src/lib.rs); a transfer *)
(* ends with a chunk shorter than the endpoint's packet size or with a full*)
(* buffer, so it holds one packet only if the controller ends packets that *)
(* fill their last chunk with an empty one.  run() takes what a transfer   *)
(* held for a packet if validate_packet() agrees with its length field     *)
(* (btstack-core/src/runtime.rs), and ends with an error otherwise.        *)
(***************************************************************************)
EXTENDS Integers, Sequences

CONSTANTS
    Kinds,        \* kinds of packets: 4 (event), 2 (ACL)
    Chunk,        \* packet size of the endpoint
    Buffer,       \* bytes of a transfer for each kind: 512 and 2048 in the code
    MaxAcl,       \* longest ACL packet, 1028 in the code
    Payloads,     \* lengths of what follows the header
    MaxPackets    \* bound: packets the controller sends

Header(k) == IF k = 4 THEN 2 ELSE 4

ASSUME FramingAssumption ==
    /\ Kinds \subseteq {2, 4} /\ Payloads \subseteq Nat
    /\ {Chunk, MaxAcl, MaxPackets} \subseteq Nat \ {0}
    /\ \A k \in Kinds : Buffer[k] \in Nat \ {0} /\ Buffer[k] % Chunk = 0

VARIABLES
    kind,      \* the endpoint's kind of packet
    closes,    \* the controller closes full last chunks with an empty one
    packets,   \* lengths of the packets it sent, or is sending the last of
    sending,   \* it is not done with the last one
    offset,    \* bytes of the last one that are on their way
    begin,     \* packet and offset of the first byte in the transfer
    filled,    \* bytes in the transfer
    complete,  \* the transfer is over
    handed,    \* what rs_receive() was given: where it began, how long it was
    failed     \* run() ended with an error

wire == <<kind, closes, packets, sending, offset>>
vars == <<wire, begin, filled, complete, handed, failed>>

TypeOK ==
    /\ kind \in Kinds /\ closes \in BOOLEAN
    /\ packets \in Seq(Nat) /\ sending \in BOOLEAN /\ offset \in Nat
    /\ begin \in Nat \X Nat /\ filled \in 0 .. Buffer[kind] /\ complete \in BOOLEAN
    /\ handed \in Seq([begin : Nat \X Nat, length : Nat]) /\ failed \in BOOLEAN

Init ==
    /\ kind \in Kinds /\ closes \in BOOLEAN
    /\ packets = <<>> /\ sending = FALSE /\ offset = 0
    /\ begin = <<1, 0>> /\ filled = 0 /\ complete = FALSE
    /\ handed = <<>> /\ failed = FALSE

\* The length field says how long the packet is.
Produce(n) ==
    /\ ~sending /\ Len(packets) < MaxPackets
    /\ packets' = Append(packets, Header(kind) + n)
    /\ sending' = TRUE /\ offset' = 0
    /\ UNCHANGED <<kind, closes, begin, filled, complete, handed, failed>>

Least(a, b) == IF a < b THEN a ELSE b

Ends(c) == c < Chunk \/ filled + c = Buffer[kind]

SendChunk ==
    /\ sending /\ ~complete
    /\ LET length == packets[Len(packets)]
           c == Least(Chunk, length - offset)
       IN  /\ offset' = offset + c
           /\ filled' = filled + c
           /\ sending' = (offset + c < length \/ (closes /\ c = Chunk))
           /\ complete' = Ends(c)
    /\ UNCHANGED <<kind, closes, packets, begin, handed, failed>>

\* What the length field of the transfer's first bytes says; in the middle of
\* a packet, anything.
Declared ==
    IF begin[2] = 0 THEN {packets[begin[1]]} ELSE {Header(kind) + n : n \in 0 .. Buffer[kind]}

\* Fault: bytes behind the packet are left to BTstack.
AtLeast(declared) == filled >= declared /\ (kind = 2 => filled <= MaxAcl)

\* Fault: the limit does not count the header.
LimitsPayload(declared) == filled = declared /\ (kind = 2 => filled <= MaxAcl - Header(kind))

\* validate_packet().
Valid(declared) == filled = declared /\ (kind = 2 => filled <= MaxAcl)

\* The worker passes on what is not empty and posts the transfer again.
Fetch ==
    /\ complete
    /\ IF filled = 0 \/ failed THEN UNCHANGED <<handed, failed>>
       ELSE IF filled < Header(kind) THEN failed' = TRUE /\ UNCHANGED handed
       ELSE \E declared \in Declared :
              /\ failed' = ~Valid(declared)
              /\ handed' = IF Valid(declared)
                             THEN Append(handed, [begin |-> begin, length |-> filled]) ELSE handed
    /\ filled' = 0 /\ complete' = FALSE
    /\ begin' = IF sending THEN <<Len(packets), offset>> ELSE <<Len(packets) + 1, 0>>
    /\ UNCHANGED wire

Terminated == ~sending /\ ~complete /\ Len(packets) = MaxPackets /\ UNCHANGED vars

Next == (\E n \in Payloads : Produce(n)) \/ SendChunk \/ Fetch \/ Terminated

Spec == Init /\ [][Next]_vars

\* A packet that was begun is sent, and the two threads run.
FairSpec == Spec /\ WF_vars(SendChunk) /\ WF_vars(Fetch)

-----------------------------------------------------------------------------
(* Properties *)

\* BTstack is given whole packets, all of them, in order, until run() ends:
\* two packets that shared a transfer, or a packet cut by its buffer, end
\* run() rather than reach it, whatever the bytes in the middle look like.
OnlyWholePackets ==
    \A i \in DOMAIN handed : handed[i] = [begin |-> <<i, 0>>, length |-> packets[i]]

Limit == IF kind = 2 THEN MaxAcl ELSE Buffer[4]

\* With a controller that closes its packets and keeps to the size of BTstack's
\* buffer, every packet arrives, the longest too, and without waiting for
\* another one.
EveryPacketArrives ==
    \A i \in 1 .. MaxPackets :
        closes /\ Len(packets) >= i /\ (\A j \in 1 .. Least(i, Len(packets)) : packets[j] <= Limit)
            ~> Len(handed) >= i
=============================================================================
