-------------------------- MODULE HciFramingProofs --------------------------
(***************************************************************************)
(* Proofs about HciFraming, for any sizes of chunks, buffers and packets and  *)
(* for controllers that close their packets or not: BTstack only gets whole*)
(* packets, in order.  As long as run() goes on, a transfer begins at the  *)
(* packet after the last one handed over, or is the empty one that closed it;  *)
(* its first bytes then declare the length of that very packet, which it can  *)
(* only have if it holds nothing else.                                     *)
(***************************************************************************)
EXTENDS HciFraming, SequenceTheorems, TLAPS

-----------------------------------------------------------------------------
(* The inductive invariant                                                 *)

Types ==
    /\ kind \in Kinds /\ closes \in BOOLEAN
    /\ packets \in Seq(Nat) /\ \A i \in 1 .. Len(packets) : packets[i] >= Header(kind)
    /\ sending \in BOOLEAN /\ complete \in BOOLEAN /\ failed \in BOOLEAN
    /\ offset \in Nat /\ filled \in Nat
    /\ handed \in Seq([begin : Nat \X Nat, length : Nat])

Sent == Len(packets)
Done == Len(handed)

\* The packet on its way.
Current ==
    /\ Done <= Sent
    /\ sending => Sent > 0
    /\ Sent > 0 => offset <= packets[Sent] /\ (sending \/ offset = packets[Sent])

\* The transfer begins with the next packet: it holds nothing, a part of that
\* packet, or more than that packet, unless the one after it has only begun.
FromNext ==
    /\ begin = <<Done + 1, 0>>
    /\ Sent = Done => filled = 0 /\ ~sending /\ ~complete
    /\ Sent = Done + 1 => filled = offset /\ (complete => filled > 0)
    /\ Sent > Done + 1 =>
         \/ filled > packets[Done + 1]
         \/ filled = packets[Done + 1] /\ Sent = Done + 2 /\ sending /\ offset = 0

\* The transfer is the empty chunk behind a packet that filled the last one.
Closing ==
    /\ Done > 0 /\ begin = <<Done, packets[Done]>> /\ filled = 0
    /\ \/ ~complete /\ Sent = Done /\ sending /\ offset = packets[Done]
       \/ complete /\ Sent = Done /\ ~sending
       \/ complete /\ Sent = Done + 1 /\ sending /\ offset = 0

IInv == Types /\ Current /\ OnlyWholePackets /\ (~failed => FromNext \/ Closing)

-----------------------------------------------------------------------------
\* What the proofs need of the constants; the sizes of the buffers do not matter.
LEMMA Constants == Kinds \subseteq {2, 4} /\ Payloads \subseteq Nat /\ Chunk \in Nat /\ Chunk > 0
BY FramingAssumption

\* The two lengths of a header.
LEMMA HeaderType == \A k : Header(k) \in {2, 4}
BY DEF Header

\* The invariant holds in the initial state.
LEMMA InitIInv == Init => IInv
<1> SUFFICES ASSUME Init PROVE IInv
    OBVIOUS
<1> USE DEF Init
<1>1. Types
    <2>1. handed \in Seq([begin : Nat \X Nat, length : Nat]) /\ packets \in Seq(Nat) /\ Len(packets) = 0
        OBVIOUS
    <2>2. \A i \in 1 .. Len(packets) : packets[i] >= Header(kind)
        BY <2>1
    <2>3. sending \in BOOLEAN /\ complete \in BOOLEAN /\ failed \in BOOLEAN /\ offset \in Nat /\ filled \in Nat
        OBVIOUS
    <2> QED
        BY <2>1, <2>2, <2>3 DEF Types
<1>2. Current /\ OnlyWholePackets /\ FromNext
    BY DEF Current, Sent, Done, OnlyWholePackets, FromNext
<1> QED
    BY <1>1, <1>2 DEF IInv

\* The controller begins another packet.
LEMMA ProduceIInv == ASSUME IInv, NEW n \in Payloads, Produce(n) PROVE IInv'
<1> USE Constants DEF IInv
<1> DEFINE length == Header(kind) + n
<1>1. /\ packets' = Append(packets, length) /\ ~sending /\ sending' = TRUE /\ offset' = 0
      /\ UNCHANGED <<kind, closes, begin, filled, complete, handed, failed>>
    BY DEF Produce
<1>2. length \in Nat /\ length >= Header(kind) /\ length > 0
    <2>1. Header(kind) \in Nat /\ Header(kind) > 0 /\ n \in Nat
        BY HeaderType
    <2> QED
        BY <2>1
<1>3. /\ packets' \in Seq(Nat) /\ Len(packets') = Len(packets) + 1 /\ packets'[Len(packets) + 1] = length
      /\ \A i \in 1 .. Len(packets) : packets'[i] = packets[i]
      /\ Len(packets) \in Nat /\ Len(handed) \in Nat
    BY <1>1, <1>2 DEF Types
<1>4. Types'
    BY <1>1, <1>2, <1>3, HeaderType DEF Types
<1>5. Current'
    BY <1>1, <1>2, <1>3 DEF Current, Sent, Done
<1>6. OnlyWholePackets'
    <2>1. \A i \in DOMAIN handed : i \in 1 .. Len(packets)
        <3>1. DOMAIN handed = 1 .. Len(handed) /\ Len(handed) <= Len(packets)
            BY DEF Current, Sent, Done, Types
        <3> QED
            BY <1>3, <3>1
    <2> QED
        BY <1>1, <1>3, <2>1 DEF OnlyWholePackets
<1>7. ASSUME FromNext PROVE FromNext'
    <2>1. /\ Sent' = Sent + 1 /\ Done' = Done /\ Sent \in Nat /\ Done \in Nat /\ Done <= Sent
          /\ Sent > 0 => offset = packets[Sent]
          /\ \A i \in 1 .. Sent : packets'[i] = packets[i]
        BY <1>1, <1>3 DEF Current, Sent, Done
    <2>2. begin' = <<Done' + 1, 0>>
        BY <1>1, <1>7, <2>1 DEF FromNext
    <2> HIDE DEF IInv, length
    <2>3. CASE Sent = Done
        <3>1. filled = 0 /\ ~complete
            BY <1>7, <2>3 DEF FromNext
        <3> QED
            BY <1>1, <2>1, <2>2, <2>3, <3>1 DEF FromNext
    <2>4. CASE Sent = Done + 1
        <3>1. filled = packets'[Done + 1]
            BY <1>7, <2>1, <2>4 DEF FromNext
        <3> QED
            BY <1>1, <2>1, <2>2, <2>4, <3>1 DEF FromNext
    <2>5. CASE Sent > Done + 1
        <3>1. filled > packets[Done + 1]
            BY <1>1, <1>7, <2>5 DEF FromNext
        <3>2. Done + 1 \in 1 .. Sent /\ Sent' # Done' /\ Sent' # Done' + 1
            <4> HIDE DEF Sent, Done
            <4> QED
                BY <2>1, <2>5
        <3>3. filled' > packets'[Done' + 1]
            BY <1>1, <2>1, <3>1, <3>2
        <3> QED
            BY <2>2, <3>2, <3>3 DEF FromNext
    <2> QED
        BY <2>1, <2>3, <2>4, <2>5
<1>8. ASSUME Closing PROVE Closing'
    BY <1>1, <1>3, <1>8 DEF Closing, Sent, Done
<1> QED
    BY <1>1, <1>4, <1>5, <1>6, <1>7, <1>8

\* A chunk arrives.
LEMMA SendChunkIInv == ASSUME IInv, SendChunk PROVE IInv'
<1> USE Constants DEF IInv
<1> DEFINE length == packets[Len(packets)]
           c == Least(Chunk, length - offset)
<1>1. /\ sending /\ ~complete
      /\ offset' = offset + c /\ filled' = filled + c
      /\ sending' = (offset + c < length \/ (closes /\ c = Chunk))
      /\ complete' = Ends(c)
      /\ UNCHANGED <<kind, closes, packets, begin, handed, failed>>
    BY DEF SendChunk
<1>2. Len(packets) \in Nat /\ Len(handed) \in Nat /\ Len(packets) > 0 /\ length \in Nat /\ length >= 2
    <2>1. Len(packets) \in Nat /\ Len(handed) \in Nat /\ Len(packets) > 0
        BY <1>1 DEF Types, Current, Sent
    <2>2. length \in Nat /\ length >= Header(kind)
        BY <2>1 DEF Types
    <2> QED
        BY <2>1, <2>2, HeaderType
<1>3. /\ Chunk \in Nat /\ Chunk > 0 /\ offset \in Nat /\ offset <= length /\ filled \in Nat
      /\ c \in Nat /\ offset + c <= length /\ (offset + c < length => c = Chunk)
      /\ (c = 0 <=> offset = length)
    <2>1. offset \in Nat /\ filled \in Nat /\ offset <= length
        BY <1>2 DEF Types, Current, Sent
    <2> QED
        BY <1>2, <2>1 DEF Least
<1>4. complete' \in BOOLEAN /\ (c = 0 => complete' = TRUE)
    BY <1>1, <1>3 DEF Ends
<1>5. Types'
    <2>1. /\ kind' \in Kinds /\ closes' \in BOOLEAN /\ failed' \in BOOLEAN
          /\ packets' \in Seq(Nat) /\ \A i \in 1 .. Len(packets') : packets'[i] >= Header(kind')
          /\ handed' \in Seq([begin : Nat \X Nat, length : Nat])
        <3> HIDE DEF length, c
        <3>1. Types
            OBVIOUS
        <3> HIDE DEF IInv
        <3>2. /\ kind' = kind /\ closes' = closes /\ failed' = failed
              /\ packets' = packets /\ handed' = handed
            BY <1>1
        <3> QED
            BY <3>1, <3>2 DEF Types
    <2>2. sending' \in BOOLEAN
        <3> DEFINE more == offset + c < length \/ (closes /\ c = Chunk)
        <3>1. more \in BOOLEAN /\ sending' = more
            BY <1>1
        <3> HIDE DEF more
        <3> QED
            BY <3>1
    <2>3. offset' \in Nat /\ filled' \in Nat
        <3>1. offset' = offset + c /\ filled' = filled + c
            BY <1>1
        <3> HIDE DEF length, c, IInv
        <3> QED
            BY <1>3, <3>1
    <2> HIDE DEF length, c, IInv
    <2> QED
        BY <1>4, <2>1, <2>2, <2>3 DEF Types
<1>6. Current'
    <2>1. offset' <= length /\ (sending' \/ offset' = length)
        <3>1. offset' = offset + c /\ (offset + c < length => sending')
            BY <1>1
        <3> QED
            BY <1>2, <1>3, <3>1
    <2> QED
        BY <1>1, <1>2, <2>1 DEF Current, Sent, Done
<1>7. OnlyWholePackets'
    BY <1>1 DEF OnlyWholePackets
<1>8. ASSUME FromNext PROVE FromNext'
    <2>1. CASE Sent = Done
        BY <1>1, <1>8, <2>1 DEF FromNext
    <2>2. CASE Sent = Done + 1
        BY <1>1, <1>2, <1>3, <1>8, <2>2 DEF FromNext, Sent, Done
    <2>3. CASE Sent > Done + 1
        <3>1. packets[Done + 1] \in Nat
            BY <1>2, <2>3 DEF Types, Sent, Done
        <3>2. filled > packets[Done + 1] \/ (Sent = Done + 2 /\ c > 0 /\ filled = packets[Done + 1])
            BY <1>2, <1>3, <1>8, <2>3, <3>1 DEF FromNext, Sent, Done
        <3>3. filled' > packets[Done + 1]
            BY <1>1, <1>3, <3>1, <3>2
        <3> QED
            BY <1>1, <1>2, <1>8, <2>3, <3>3 DEF FromNext, Sent, Done
    <2> QED
        BY <1>2, <2>1, <2>2, <2>3 DEF Current, Sent, Done
<1>9. ASSUME Closing PROVE Closing'
    <2>1. Sent = Done /\ offset = length /\ filled = 0
        BY <1>1, <1>9 DEF Closing, Sent
    <2>2. c = 0
        BY <1>3, <2>1
    <2>3. offset' = offset /\ filled' = 0 /\ complete' = TRUE
        <3>1. complete' = TRUE
            BY <1>4, <2>2
        <3>2. offset' = offset + 0 /\ filled' = 0 + 0
            BY <1>1, <2>1, <2>2
        <3> QED
            BY <1>3, <3>1, <3>2
    <2>4. sending' = FALSE
        <3>1. ~(offset + c < length) /\ c # Chunk
            BY <1>2, <1>3, <2>1, <2>2
        <3> QED
            BY <1>1, <3>1
    <2> QED
        BY <1>1, <1>9, <2>1, <2>3, <2>4 DEF Closing, Sent, Done
<1> QED
    BY <1>1, <1>5, <1>6, <1>7, <1>8, <1>9

\* run() looks at what a transfer held.
LEMMA FetchIInv == ASSUME IInv, Fetch PROVE IInv'
<1> USE Constants DEF IInv
<1>1. /\ complete /\ filled' = 0 /\ complete' = FALSE /\ UNCHANGED <<kind, closes, packets, sending, offset>>
      /\ begin' = IF sending THEN <<Sent, offset>> ELSE <<Sent + 1, 0>>
    BY DEF Fetch, wire, Sent
<1>2. /\ Len(packets) \in Nat /\ Len(handed) \in Nat /\ filled \in Nat /\ offset \in Nat
      /\ \A i \in 1 .. Len(packets) : packets[i] \in Nat /\ packets[i] >= 2
    <2>1. Header(kind) \in Nat /\ Header(kind) >= 2
        BY HeaderType
    <2>2. \A i \in 1 .. Len(packets) : packets[i] \in Nat /\ packets[i] >= Header(kind)
        BY DEF Types
    <2>3. Len(packets) \in Nat /\ Len(handed) \in Nat /\ filled \in Nat /\ offset \in Nat
        BY DEF Types
    <2> QED
        <3> HIDE DEF IInv
        <3> QED BY <2>1, <2>2, <2>3
<1>3. ASSUME failed' = TRUE, UNCHANGED handed PROVE IInv'
    BY <1>1, <1>3 DEF Types, Current, Sent, Done, OnlyWholePackets
<1>4. ASSUME failed, UNCHANGED <<handed, failed>> PROVE IInv'
    BY <1>1, <1>4 DEF Types, Current, Sent, Done, OnlyWholePackets
<1>5. ASSUME ~failed, filled = 0, UNCHANGED <<handed, failed>> PROVE IInv'
    <2>1. Closing
        BY <1>1, <1>2, <1>5 DEF FromNext, Current, Sent, Done
    <2>2. (Types /\ Current /\ OnlyWholePackets)'
        BY <1>1, <1>5 DEF Types, Current, Sent, Done, OnlyWholePackets
    <2>3. FromNext'
        BY <1>1, <1>2, <1>5, <2>1 DEF FromNext, Closing, Sent, Done
    <2> QED
        BY <2>2, <2>3
<1>6. ASSUME ~failed, filled > 0, NEW declared \in Declared, Valid(declared), failed' = FALSE,
             handed' = Append(handed, [begin |-> begin, length |-> filled])
      PROVE  IInv'
    <2>1. FromNext /\ Sent > Done
        BY <1>2, <1>6 DEF Closing, FromNext, Current, Sent, Done
    <2>2. filled = packets[Done + 1] /\ begin = <<Done + 1, 0>>
        BY <1>6, <2>1 DEF FromNext, Declared, Valid
    <2>3. \/ Sent = Done + 1 /\ offset = packets[Sent]
          \/ Sent = Done + 2 /\ sending /\ offset = 0
        BY <1>2, <2>1, <2>2 DEF FromNext, Sent, Done
    <2>4. /\ handed' \in Seq([begin : Nat \X Nat, length : Nat]) /\ Len(handed') = Len(handed) + 1
          /\ handed'[Len(handed) + 1] = [begin |-> <<Len(handed) + 1, 0>>, length |-> packets[Len(handed) + 1]]
          /\ \A i \in 1 .. Len(handed) : handed'[i] = handed[i]
        BY <1>2, <1>6, <2>2 DEF Types, Done
    <2>5. Types'
        BY <1>1, <1>6, <2>4 DEF Types
    <2>6. Current'
        BY <1>1, <1>2, <2>1, <2>4 DEF Current, Sent, Done
    <2>7. OnlyWholePackets'
        <3> SUFFICES ASSUME NEW i \in 1 .. Len(handed) + 1
                     PROVE  handed'[i] = [begin |-> <<i, 0>>, length |-> packets[i]]
            BY <1>1, <1>2, <2>4 DEF OnlyWholePackets
        <3>1. CASE i = Len(handed) + 1
            BY <2>4, <3>1
        <3>2. CASE i \in 1 .. Len(handed)
            <4>1. i \in DOMAIN handed
                BY <3>2 DEF Types
            <4>2. handed[i] = [begin |-> <<i, 0>>, length |-> packets[i]]
                BY <4>1 DEF OnlyWholePackets
            <4> QED
                BY <2>4, <3>2, <4>2
        <3> QED
            BY <1>2, <3>1, <3>2
    <2>8. (FromNext \/ Closing)'
        <3>1. Sent' = Sent /\ Done' = Done + 1 /\ Sent \in Nat /\ Done \in Nat
            BY <1>1, <1>2, <2>4 DEF Sent, Done
        <3>2. CASE Sent = Done + 1 /\ sending /\ offset = packets[Sent]
            <4>1. begin' = <<Done', packets'[Done']>> /\ Done' > 0
                BY <1>1, <3>1, <3>2
            <4> QED
                BY <1>1, <3>1, <3>2, <4>1 DEF Closing
        <3>3. CASE Sent = Done + 1 /\ ~sending
            BY <1>1, <3>1, <3>3 DEF FromNext
        <3>4. CASE Sent = Done + 2 /\ sending /\ offset = 0
            BY <1>1, <3>1, <3>4 DEF FromNext
        <3> QED
            BY <2>3, <3>2, <3>3, <3>4
    <2> QED
        BY <2>5, <2>6, <2>7, <2>8
<1> QED
    <2>1. CASE failed
        BY <1>4, <2>1 DEF Fetch
    <2>2. CASE ~failed /\ filled = 0
        BY <1>5, <2>2 DEF Fetch
    <2>3. CASE ~failed /\ filled > 0
        <3>1. CASE filled < Header(kind)
            <4>1. failed' = TRUE /\ UNCHANGED handed
                BY <2>3, <3>1 DEF Fetch
            <4> QED
                BY <1>3, <4>1
        <3>2. CASE ~(filled < Header(kind))
            <4>1. PICK declared \in Declared :
                    /\ failed' = ~Valid(declared)
                    /\ handed' = IF Valid(declared)
                                   THEN Append(handed, [begin |-> begin, length |-> filled]) ELSE handed
                BY <2>3, <3>2 DEF Fetch
            <4> QED
                BY <1>3, <1>6, <2>3, <4>1
        <3> QED
            BY <3>1, <3>2
    <2> QED
        BY <1>2, <2>1, <2>2, <2>3

\* Every step keeps it.
LEMMA NextIInv == IInv /\ [Next]_vars => IInv'
<1> SUFFICES ASSUME IInv, [Next]_vars PROVE IInv'
    OBVIOUS
<1>1. CASE UNCHANGED vars
    BY <1>1 DEF vars, wire, IInv, Types, Current, Sent, Done, OnlyWholePackets, FromNext, Closing
<1> QED
    BY <1>1, ProduceIInv, SendChunkIInv, FetchIInv DEF Next, Terminated

-----------------------------------------------------------------------------
\* BTstack is given the packets the controller sent, whole and in order, until
\* run() ends with an error.
THEOREM OnlyWholePacketsHolds == Spec => []OnlyWholePackets
<1>1. IInv => OnlyWholePackets
    BY DEF IInv
<1> QED
    BY <1>1, InitIInv, NextIInv, PTL DEF Spec
=============================================================================
