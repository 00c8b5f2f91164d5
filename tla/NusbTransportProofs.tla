------------------------ MODULE NusbTransportProofs ------------------------
(***************************************************************************)
(* What the USB transport promises, proved for a channel of any capacity   *)
(* and any number of packets and sends.  The receive side rests on one     *)
(* sequence, what the caller has received followed by what waits in the    *)
(* channel: it is numbered without a gap, and its length and the one packet*)
(* under way account for all that the controller produced.  The send side  *)
(* rests on sends being one at a time, and on every transfer left behind   *)
(* being the late one of a time-out.                                       *)
(***************************************************************************)
EXTENDS NusbTransport, TLAPS, SequenceTheorems, FiniteSetTheorems

-----------------------------------------------------------------------------
(* Counting the items of a kind                                            *)

Item == Packet \cup {Failure}

\* The positions up to n that hold an item of this kind, and their number.
Kinds(s, n, kind) == {j \in 1 .. n : s[j].kind = kind}

Count(s, n, kind) == Cardinality(Kinds(s, n, kind))

\* There are finitely many.
LEMMA CountNat ==
    ASSUME NEW s, NEW n \in Nat, NEW kind
    PROVE  IsFiniteSet(Kinds(s, n, kind)) /\ Count(s, n, kind) \in Nat
<1>1. IsFiniteSet(1 .. n)
  BY FS_Interval, SMT
<1>2. Kinds(s, n, kind) \in SUBSET (1 .. n)
  BY DEF Kinds
<1>3. IsFiniteSet(Kinds(s, n, kind))
  BY <1>1, <1>2, FS_Subset
<1> QED BY <1>3, FS_CardinalityType DEF Count

\* An item appended to a sequence does not change the count before it.
LEMMA CountBefore ==
    ASSUME NEW f \in Seq(Item), NEW e \in Item, NEW n \in 0 .. Len(f), NEW kind
    PROVE  Count(Append(f, e), n, kind) = Count(f, n, kind)
<1>1. \A j \in 1 .. n : Append(f, e)[j] = f[j]
  BY AppendProperties, SMT
<1> QED BY <1>1 DEF Count, Kinds

\* It adds one to the count of its kind, and nothing to the others.
LEMMA CountAppend ==
    ASSUME NEW f \in Seq(Item), NEW e \in Item, NEW kind
    PROVE  Count(Append(f, e), Len(Append(f, e)), kind)
             = Count(f, Len(f), kind) + (IF e.kind = kind THEN 1 ELSE 0)
<1> DEFINE n == Len(f)
           K == Kinds(f, n, kind)
           L == Kinds(Append(f, e), n + 1, kind)
<1>1. n \in Nat /\ Len(Append(f, e)) = n + 1 /\ Append(f, e)[n + 1] = e
  BY AppendProperties, LenProperties
<1>2. \A j \in 1 .. n : Append(f, e)[j] = f[j]
  BY AppendProperties, SMT
<1>3. IsFiniteSet(K) /\ Cardinality(K) \in Nat
  BY <1>1, CountNat DEF Count
<1>4. n + 1 \notin K
  BY <1>1 DEF Kinds
<1>5. L = IF e.kind = kind THEN K \cup {n + 1} ELSE K
  BY <1>1, <1>2 DEF Kinds
<1>6. Cardinality(K \cup {n + 1}) = Cardinality(K) + 1
  BY <1>3, <1>4, FS_AddElement
<1> HIDE DEF K, L
<1>7. Cardinality(L) = Cardinality(K) + (IF e.kind = kind THEN 1 ELSE 0)
  BY <1>3, <1>5, <1>6
<1> QED BY <1>1, <1>7 DEF Count, K, L

\* The count in a prefix is the count in the whole.
LEMMA CountPrefix ==
    ASSUME NEW s \in Seq(Item), NEW t \in Seq(Item), NEW n \in 0 .. Len(s), NEW kind
    PROVE  Count(s \o t, n, kind) = Count(s, n, kind)
<1>1. \A j \in 1 .. n : (s \o t)[j] = s[j]
  BY ConcatProperties, SMT
<1> QED BY <1>1 DEF Count, Kinds

-----------------------------------------------------------------------------
(* A numbered sequence *)

\* Every packet follows all the earlier ones of its endpoint, it overtakes one
\* event at most, and nothing follows an error.
Numbered(f) ==
    /\ \A i \in DOMAIN f : f[i] # Failure => f[i].n = 1 + Count(f, i - 1, f[i].kind)
    /\ \A i \in DOMAIN f : f[i].earlier - 1 <= Count(f, i - 1, "event")
    /\ \A i, j \in DOMAIN f : j < i => f[j] # Failure

\* It stays numbered when an item with the next number is appended.
LEMMA NumberedAppend ==
    ASSUME NEW f \in Seq(Item), NEW e \in Item, Numbered(f),
           \A i \in DOMAIN f : f[i] # Failure,
           e # Failure => e.n = 1 + Count(f, Len(f), e.kind),
           e.earlier - 1 <= Count(f, Len(f), "event")
    PROVE  Numbered(Append(f, e))
<1> DEFINE g == Append(f, e)
<1>1. /\ g \in Seq(Item) /\ Len(f) \in Nat /\ Len(g) = Len(f) + 1
      /\ DOMAIN f = 1 .. Len(f) /\ DOMAIN g = 1 .. Len(g)
      /\ g[Len(g)] = e
  BY AppendProperties, LenProperties
<1>2. \A i \in 1 .. Len(f) : g[i] = f[i]
  BY AppendProperties, SMT
<1>3. \A i \in DOMAIN g : \A kind : Count(g, i - 1, kind) = Count(f, i - 1, kind)
  <2> SUFFICES ASSUME NEW i \in DOMAIN g, NEW kind
               PROVE  Count(g, i - 1, kind) = Count(f, i - 1, kind)
    OBVIOUS
  <2>1. i - 1 \in 0 .. Len(f)
    BY <1>1
  <2> QED BY <2>1, CountBefore
<1>4. \A i \in DOMAIN g : i \in DOMAIN f \/ (i = Len(g) /\ i - 1 = Len(f))
  BY <1>1
<1> HIDE DEF g
<1>5. ASSUME NEW i \in DOMAIN g, g[i] # Failure
      PROVE  g[i].n = 1 + Count(g, i - 1, g[i].kind)
  <2>1. CASE i \in DOMAIN f
    BY <1>1, <1>2, <1>3, <1>5, <2>1 DEF Numbered
  <2>2. CASE i = Len(g) /\ i - 1 = Len(f)
    BY <1>1, <1>3, <1>5, <2>2
  <2> QED BY <1>4, <2>1, <2>2
<1>6. ASSUME NEW i \in DOMAIN g
      PROVE  g[i].earlier - 1 <= Count(g, i - 1, "event")
  <2>1. CASE i \in DOMAIN f
    BY <1>1, <1>2, <1>3, <2>1 DEF Numbered
  <2>2. CASE i = Len(g) /\ i - 1 = Len(f)
    BY <1>1, <1>3, <2>2
  <2> QED BY <1>4, <2>1, <2>2
<1>7. \A i, j \in DOMAIN g : j < i => g[j] # Failure
  <2> SUFFICES ASSUME NEW i \in DOMAIN g, NEW j \in DOMAIN g, j < i
               PROVE  g[j] # Failure
    OBVIOUS
  <2>1. j \in DOMAIN f
    BY <1>1
  <2> QED BY <1>1, <1>2, <2>1
<1>8. Numbered(g)
  BY <1>5, <1>6, <1>7 DEF Numbered
<1> QED BY <1>8 DEF g

\* A prefix of a numbered sequence is numbered.
LEMMA NumberedPrefix ==
    ASSUME NEW s \in Seq(Item), NEW t \in Seq(Item), Numbered(s \o t)
    PROVE  Numbered(s)
<1> DEFINE f == s \o t
<1>1. /\ f \in Seq(Item) /\ Len(s) \in Nat /\ Len(t) \in Nat /\ Len(f) = Len(s) + Len(t)
      /\ DOMAIN f = 1 .. Len(f) /\ DOMAIN s = 1 .. Len(s)
  BY ConcatProperties, LenProperties
<1>2. \A i \in DOMAIN s : i \in DOMAIN f /\ f[i] = s[i]
  <2>1. \A i \in 1 .. Len(s) : f[i] = s[i]
    BY ConcatProperties, SMT
  <2> HIDE DEF f
  <2> QED BY <1>1, <2>1
<1>3. \A i \in DOMAIN s : \A kind : Count(f, i - 1, kind) = Count(s, i - 1, kind)
  <2> SUFFICES ASSUME NEW i \in DOMAIN s, NEW kind
               PROVE  Count(f, i - 1, kind) = Count(s, i - 1, kind)
    OBVIOUS
  <2>1. i - 1 \in 0 .. Len(s)
    BY <1>1
  <2> QED BY <2>1, CountPrefix
<1>4. Numbered(f)
  OBVIOUS
<1> HIDE DEF f
<1> QED BY <1>2, <1>3, <1>4 DEF Numbered

-----------------------------------------------------------------------------
(* What was received, then what waits *)

Flow == log \o incoming

\* Receiving moves the boundary only.
LEMMA ReceiveKeepsFlow ==
    ASSUME NEW s \in Seq(Item), NEW t \in Seq(Item), t # << >>
    PROVE  /\ Append(s, Head(t)) \in Seq(Item) /\ Tail(t) \in Seq(Item)
           /\ Len(Tail(t)) = Len(t) - 1
           /\ Append(s, Head(t)) \o Tail(t) = s \o t
<1>1. /\ Head(t) \in Item /\ Head(t) = t[1] /\ Tail(t) \in Seq(Item)
      /\ Len(t) \in Nat \ {0} /\ Len(s) \in Nat /\ Len(Tail(t)) = Len(t) - 1
      /\ \A i \in 1 .. Len(t) - 1 : Tail(t)[i] = t[i + 1]
  BY HeadTailProperties, LenProperties, EmptySeq
<1> DEFINE a == Append(s, Head(t))
           b == Tail(t)
<1>2. /\ a \in Seq(Item) /\ Len(a) = Len(s) + 1 /\ a[Len(s) + 1] = t[1]
      /\ \A i \in 1 .. Len(s) : a[i] = s[i]
  BY <1>1, AppendProperties
<1>3. b \in Seq(Item) /\ Len(b) = Len(t) - 1 /\ \A i \in 1 .. Len(t) - 1 : b[i] = t[i + 1]
  BY <1>1
<1> HIDE DEF a, b
<1>4. /\ a \o b \in Seq(Item) /\ Len(a \o b) = Len(a) + Len(b)
      /\ \A i \in 1 .. Len(a) + Len(b) :
            (a \o b)[i] = IF i <= Len(a) THEN a[i] ELSE b[i - Len(a)]
  BY <1>2, <1>3, ConcatProperties
<1>5. /\ s \o t \in Seq(Item) /\ Len(s \o t) = Len(s) + Len(t)
      /\ \A i \in 1 .. Len(s) + Len(t) :
            (s \o t)[i] = IF i <= Len(s) THEN s[i] ELSE t[i - Len(s)]
  BY ConcatProperties
<1>6. Len(a \o b) = Len(s \o t)
  BY <1>1, <1>2, <1>3, <1>4, <1>5
<1>7. ASSUME NEW i \in 1 .. Len(a \o b)
      PROVE  (a \o b)[i] = (s \o t)[i]
  <2>0. i \in Int
    BY <1>1, <1>2, <1>3, <1>4
  <2>1. CASE i <= Len(s)
    BY <1>1, <1>2, <1>3, <1>4, <1>5, <2>1
  <2>2. CASE i = Len(s) + 1
    BY <1>1, <1>2, <1>3, <1>4, <1>5, <2>2
  <2>3. CASE i > Len(s) + 1
    <3>1. i - (Len(s) + 1) \in 1 .. Len(t) - 1
      BY <1>1, <1>2, <1>3, <1>4, <2>3
    <3>2. (a \o b)[i] = b[i - (Len(s) + 1)]
      BY <1>1, <1>2, <1>3, <1>4, <2>3
    <3>3. b[i - (Len(s) + 1)] = t[(i - (Len(s) + 1)) + 1]
      BY <1>3, <3>1
    <3>4. (s \o t)[i] = t[i - Len(s)]
      BY <1>1, <1>2, <1>3, <1>4, <1>5, <2>3
    <3>5. (i - (Len(s) + 1)) + 1 = i - Len(s)
      BY <1>1
    <3> QED BY <3>2, <3>3, <3>4, <3>5
  <2>4. i <= Len(s) \/ i = Len(s) + 1 \/ i > Len(s) + 1
    BY <1>1, <2>0
  <2> QED BY <2>1, <2>2, <2>3, <2>4
<1>8. a \o b = s \o t
  BY <1>4, <1>5, <1>6, <1>7, SeqEqual
<1> QED BY <1>1, <1>2, <1>8 DEF a, b

\* What the worker passes on comes last.
LEMMA SendExtendsFlow ==
    ASSUME NEW s \in Seq(Item), NEW t \in Seq(Item), NEW e \in Item
    PROVE  s \o Append(t, e) = Append(s \o t, e)
<1> DEFINE u == Append(t, e)
           f == s \o t
<1>1. /\ u \in Seq(Item) /\ Len(u) = Len(t) + 1 /\ u[Len(t) + 1] = e
      /\ \A i \in 1 .. Len(t) : u[i] = t[i]
  BY AppendProperties
<1>2. /\ f \in Seq(Item) /\ Len(f) = Len(s) + Len(t)
      /\ \A i \in 1 .. Len(s) + Len(t) : f[i] = IF i <= Len(s) THEN s[i] ELSE t[i - Len(s)]
  BY ConcatProperties
<1> HIDE DEF u, f
<1>3. /\ s \o u \in Seq(Item) /\ Len(s \o u) = Len(s) + Len(u)
      /\ \A i \in 1 .. Len(s) + Len(u) :
            (s \o u)[i] = IF i <= Len(s) THEN s[i] ELSE u[i - Len(s)]
  BY <1>1, ConcatProperties
<1>4. /\ Append(f, e) \in Seq(Item) /\ Len(Append(f, e)) = Len(f) + 1
      /\ Append(f, e)[Len(f) + 1] = e
      /\ \A i \in 1 .. Len(f) : Append(f, e)[i] = f[i]
  BY <1>2, AppendProperties
<1>5. Len(s) \in Nat /\ Len(t) \in Nat
  BY LenProperties
<1>6. ASSUME NEW i \in 1 .. Len(s \o u)
      PROVE  (s \o u)[i] = Append(f, e)[i]
  <2>0. i \in Int /\ i <= Len(s) + Len(t) + 1
    BY <1>1, <1>3, <1>5
  <2>1. CASE i <= Len(s)
    BY <1>1, <1>2, <1>3, <1>4, <1>5, <2>1
  <2>2. CASE i > Len(s) /\ i <= Len(s) + Len(t)
    <3>1. i \in Int /\ i - Len(s) \in 1 .. Len(t) /\ ~ i <= Len(s)
      BY <1>5, <2>0, <2>2
    <3>2. i \in 1 .. Len(s) + Len(u) /\ i \in 1 .. Len(s) + Len(t)
      BY <1>1, <1>5, <2>0, <2>2
    <3>3. (s \o u)[i] = u[i - Len(s)]
      BY <1>3, <3>1, <3>2
    <3>4. u[i - Len(s)] = t[i - Len(s)]
      BY <1>1, <3>1
    <3>5. f[i] = t[i - Len(s)]
      BY <1>2, <3>1, <3>2
    <3>6. Append(f, e)[i] = f[i]
      BY <1>2, <1>4, <3>2
    <3> QED BY <3>3, <3>4, <3>5, <3>6
  <2>3. CASE i = Len(s) + Len(t) + 1
    BY <1>1, <1>2, <1>3, <1>4, <1>5, <2>3
  <2>4. i <= Len(s) \/ (i > Len(s) /\ i <= Len(s) + Len(t)) \/ i = Len(s) + Len(t) + 1
    BY <1>5, <2>0
  <2> QED BY <2>1, <2>2, <2>3, <2>4
<1>7. s \o u = Append(f, e)
  <2>1. Len(s \o u) = Len(Append(f, e))
    BY <1>1, <1>2, <1>3, <1>4, <1>5
  <2> QED BY <1>3, <1>4, <1>6, <2>1, SeqEqual
<1> QED BY <1>7 DEF u, f

\* An empty channel leaves what was received.
LEMMA FlowOfEmpty ==
    ASSUME NEW s \in Seq(Item)
    PROVE  s \o << >> = s
BY ConcatEmptySeq

-----------------------------------------------------------------------------
(* The inductive invariant *)

\* The packet of this endpoint that is not in the channel yet.
Pending(ep) == IF transfer[ep] = "packet" \/ fetched[ep] = "packet" THEN 1 ELSE 0

\* A completion is handled in the round that fetched it, before the transfer is
\* posted again, and a stopped worker holds none.
Rounds ==
    /\ worker \in {"top", "wait_event", "wait_acl", "stopped"} => fetched["acl"] = "none"
    /\ worker \in {"top", "wait_event", "acl", "stopped"} => fetched["event"] = "none"
    /\ worker = "stopped" => \A ep \in Endpoints : transfer[ep] = "none"
    /\ \A ep \in Endpoints : fetched[ep] # "none" => transfer[ep] = "none"
    /\ caller = "opening" => /\ worker = "stopped" /\ log = << >> /\ incoming = << >>
                             /\ \A ep \in Endpoints : produced[ep] = 0

\* While the worker runs, the packets passed on and the one under way are all
\* that the controller produced, and no error was passed on.
Counted ==
    /\ \A ep \in Endpoints : earlier[ep] <= produced["event"]
    /\ worker # "stopped" =>
          /\ \A ep \in Endpoints : Count(Flow, Len(Flow), ep) + Pending(ep) = produced[ep]
          /\ \A i \in DOMAIN Flow : Flow[i] # Failure

Returned == {"ok", "error", "timeout"}

\* A send up to this one timed out, going by these outcomes.
Late(results, n) == \E r \in Sends : r <= n /\ results[r] = "timeout"

\* Sends are made one after the other; what is still submitted is in that order,
\* and a transfer left behind follows a time-out.
OneByOne ==
    /\ \A r, s \in Sends : r < s /\ outcome[s] # "none" => outcome[r] \in Returned
    /\ \A s \in Sends : outcome[s] = "pending" => caller \in {"sending", "commanding"}
    /\ \A j, k \in DOMAIN out : j < k => out[j] < out[k]
    /\ \A k \in DOMAIN out :
          /\ outcome[out[k]] # "none"
          /\ outcome[out[k]] = "pending" => caller = "sending"
          /\ outcome[out[k]] # "pending" => Late(outcome, out[k])

NusbInvariant ==
    /\ TypeOK /\ Rounds /\ Counted /\ Numbered(Flow)
    /\ OneByOne /\ FalseSuccessIsLate

-----------------------------------------------------------------------------
(* The receive side *)

ReceiveSide == TypeOK /\ Rounds /\ Counted /\ Numbered(Flow)

\* The two sequences and their concatenation hold packets and errors.
LEMMA FlowType ==
    ASSUME TypeOK
    PROVE  /\ Flow \in Seq(Item) /\ log \in Seq(Item) /\ incoming \in Seq(Item)
           /\ Len(Flow) \in Nat
           /\ \A ep : Count(Flow, Len(Flow), ep) \in Nat
<1>1. log \in Seq(Item) /\ incoming \in Seq(Item)
  BY DEF TypeOK, Item
<1>2. Flow \in Seq(Item) /\ Len(Flow) \in Nat
  BY <1>1, ConcatProperties, LenProperties DEF Flow
<1> QED BY <1>1, <1>2, CountNat

\* A submitted transfer is one of a send.
LEMMA OutTyped ==
    ASSUME TypeOK
    PROVE  /\ DOMAIN out = 1 .. Len(out) /\ Len(out) \in Nat
           /\ \A k \in DOMAIN out : out[k] \in Sends
<1>1. out \in Seq(Sends)
  BY DEF TypeOK
<1> QED BY <1>1, ElementOfSeq, LenProperties

\* Nothing is received at first.
LEMMA FlowOfEmptyStart ==
    ASSUME Init
    PROVE  Flow = << >>
BY ConcatEmptySeq, EmptySeq DEF Init, Flow

\* The invariant holds at first.
LEMMA InvariantInit == Init => NusbInvariant
<1> SUFFICES ASSUME Init
             PROVE  NusbInvariant
  OBVIOUS
<1>1. Flow = << >> /\ DOMAIN Flow = {} /\ Len(Flow) = 0
  BY FlowOfEmptyStart, EmptySeq
<1>2. TypeOK
  <2>1. /\ incoming \in Seq(Packet \cup {Failure}) /\ Len(incoming) <= IncomingCap
        /\ log \in Seq(Packet \cup {Failure}) /\ out \in Seq(Sends)
    BY NusbAssumption, EmptySeq DEF Init
  <2>2. 0 \in 0 .. MaxPackets
    BY NusbAssumption
  <2>3. /\ produced \in [Endpoints -> 0 .. MaxPackets] /\ earlier \in [Endpoints -> 0 .. MaxPackets]
        /\ fetched \in [Endpoints -> {"none", "packet", "empty", "failed"}]
        /\ transfer \in [Endpoints -> {"none", "posted", "packet", "empty", "failed"}]
        /\ outcome \in [Sends -> {"none", "pending", "ok", "error", "timeout"}]
        /\ length \in [Sends -> Sizes \cup {0}]
    BY <2>2 DEF Init, Cancelled
  <2>4. /\ worker = "stopped" /\ caller = "opening" /\ transferred = {} /\ broken = {}
        /\ removed = FALSE /\ stop = FALSE
    BY DEF Init
  <2> QED BY <2>1, <2>3, <2>4 DEF TypeOK
<1>3. Rounds
  BY DEF Init, Rounds, Cancelled, Endpoints
<1>4. Counted
  BY DEF Init, Counted, Cancelled, Endpoints
<1>5. Numbered(Flow)
  BY <1>1 DEF Numbered
<1>6. OneByOne
  BY EmptySeq DEF Init, OneByOne, Sends
<1>7. FalseSuccessIsLate
  BY DEF Init, FalseSuccessIsLate
<1> QED BY <1>2, <1>3, <1>4, <1>5, <1>6, <1>7 DEF NusbInvariant

\* The packet a round hands over has a number the controller gave.
LEMMA FetchedPacket ==
    ASSUME ReceiveSide, NEW ep \in Endpoints, fetched[ep] = "packet", worker # "stopped"
    PROVE  LET e == [kind |-> ep, n |-> produced[ep], earlier |-> earlier[ep]]
           IN  /\ e \in Item /\ e # Failure
               /\ e.n = 1 + Count(Flow, Len(Flow), e.kind)
               /\ e.earlier - 1 <= Count(Flow, Len(Flow), "event")
<1> DEFINE e == [kind |-> ep, n |-> produced[ep], earlier |-> earlier[ep]]
           C(k) == Count(Flow, Len(Flow), k)
<1>1. \A k : C(k) \in Nat
  BY FlowType DEF ReceiveSide
<1>2. \A k \in Endpoints : C(k) + Pending(k) = produced[k] /\ Pending(k) \in {0, 1}
  BY DEF ReceiveSide, Counted, Pending
<1>3. Pending(ep) = 1
  BY DEF Pending
<1>4. /\ \A k \in Endpoints : produced[k] \in 0 .. MaxPackets /\ earlier[k] \in 0 .. MaxPackets
      /\ earlier[ep] <= produced["event"] /\ "event" \in Endpoints /\ MaxPackets \in Nat
  BY NusbAssumption DEF ReceiveSide, TypeOK, Counted, Endpoints
<1> HIDE DEF C
<1>5. produced[ep] = 1 + C(ep) /\ produced[ep] \in 1 .. MaxPackets
  BY <1>1, <1>2, <1>3, <1>4
<1>6. earlier[ep] - 1 <= C("event")
  BY <1>1, <1>2, <1>4
<1>7. e \in Packet
  BY <1>4, <1>5 DEF Packet
<1>8. e # Failure
  BY <1>5 DEF Failure
<1> QED BY <1>5, <1>6, <1>7, <1>8 DEF Item, C

\* Every step keeps the types.
LEMMA TypeStep ==
    ASSUME NusbInvariant, Next
    PROVE  TypeOK'
<1> USE NusbAssumption DEF NusbInvariant, Endpoints
<1>1. CASE Open
  BY <1>1 DEF Open, TypeOK, sendVars
<1>2. CASE OpenFails
  BY <1>2 DEF OpenFails, TypeOK, rxVars, sendVars
<1>3. ASSUME NEW ep \in Endpoints, Complete(ep)
      PROVE  TypeOK'
  <2>1. produced' \in [Endpoints -> 0 .. MaxPackets] /\ earlier' \in [Endpoints -> 0 .. MaxPackets]
    <3>1. /\ produced \in [Endpoints -> 0 .. MaxPackets] /\ earlier \in [Endpoints -> 0 .. MaxPackets]
          /\ MaxPackets \in Nat
      BY DEF TypeOK
    <3>2. CASE UNCHANGED <<produced, earlier>>
      BY <3>1, <3>2
    <3>3. CASE /\ produced[ep] < MaxPackets
               /\ produced' = [produced EXCEPT ![ep] = @ + 1]
               /\ earlier' = [earlier EXCEPT ![ep] = produced["event"]]
      BY <3>1, <3>3
    <3> QED BY <1>3, <3>2, <3>3 DEF Complete
  <2>2. /\ transfer' \in [Endpoints -> {"none", "posted", "packet", "empty", "failed"}]
        /\ UNCHANGED <<worker, fetched, removed, incoming, stop, log, caller, sendVars>>
    BY <1>3 DEF Complete, TypeOK
  <2> QED BY <2>1, <2>2 DEF TypeOK, sendVars
<1>4. CASE Remove
  BY <1>4 DEF Remove, TypeOK, sendVars
<1>5. ASSUME NEW s \in Sends, CompleteCommand(s)
      PROVE  TypeOK'
  BY <1>5 DEF CompleteCommand, TypeOK, rxVars
<1>6. CASE CompleteOut
  <2>1. PICK k \in DOMAIN out :
           /\ transferred' \in {transferred, transferred \cup {out[k]}}
           /\ broken' \in {broken, broken \cup {out[k]}}
    BY <1>6 DEF CompleteOut
  <2>2. out[k] \in Sends
    BY OutTyped
  <2> QED BY <1>6, <2>1, <2>2 DEF CompleteOut, TypeOK, rxVars
<1>7. CASE TestStop
  BY <1>7 DEF TestStop, Step, Cancelled, TypeOK, sendVars
<1>8. ASSUME NEW ep \in Endpoints, Wait(ep)
      PROVE  TypeOK'
  BY <1>8 DEF Wait, Step, TypeOK, sendVars
<1>9. ASSUME NEW ep \in Endpoints, NothingFetched(ep)
      PROVE  TypeOK'
  BY <1>9 DEF NothingFetched, Handled, Step, TypeOK, sendVars
<1>10. ASSUME NEW ep \in Endpoints, Fetched(ep)
       PROVE  TypeOK'
  <2> DEFINE e == [kind |-> ep, n |-> produced[ep], earlier |-> earlier[ep]]
  <2>1. CASE Len(incoming) < IncomingCap /\ TrySend(e) /\ Repost(ep) /\ Handled(ep)
    <3>1. worker # "stopped" /\ fetched[ep] = "packet"
      BY <1>10, <2>1 DEF Fetched, Handled, Step
    <3>2. e \in Item
      BY <3>1, FetchedPacket DEF ReceiveSide
    <3>3. incoming \in Seq(Item) /\ incoming' = Append(incoming, e)
      BY <2>1 DEF TrySend, TypeOK, Item
    <3> HIDE DEF e
    <3>4. incoming' \in Seq(Item) /\ Len(incoming') <= IncomingCap
      <4>1. incoming' \in Seq(Item) /\ Len(incoming') = Len(incoming) + 1 /\ Len(incoming) \in Nat
        BY <3>2, <3>3, AppendProperties, LenProperties
      <4> QED BY <2>1, <4>1
    <3>5. fetched' \in [Endpoints -> {"none", "packet", "empty", "failed"}]
          /\ transfer' \in [Endpoints -> {"none", "posted", "packet", "empty", "failed"}]
          /\ worker' \in {"top", "acl"}
      BY <2>1 DEF Repost, Handled, Step, TypeOK
    <3> QED BY <1>10, <3>4, <3>5 DEF Fetched, TypeOK, sendVars, Item
  <2>2. CASE Len(incoming) >= IncomingCap /\ Overflow(ep)
    BY <1>10, <2>2 DEF Fetched, Overflow, Return, Step, Cancelled, TypeOK, sendVars
  <2> QED BY <1>10, <2>1, <2>2 DEF Fetched
<1>11. ASSUME NEW ep \in Endpoints, FetchedNothing(ep)
       PROVE  TypeOK'
  BY <1>11 DEF FetchedNothing, Repost, Handled, Step, TypeOK, sendVars
<1>12. ASSUME NEW ep \in Endpoints, FetchFailed(ep)
       PROVE  TypeOK'
  <2>1. incoming \in Seq(Item) /\ Failure \in Item /\ Len(incoming) \in Nat
    BY LenProperties DEF TypeOK, Item
  <2>2. incoming' \in Seq(Item) /\ Len(incoming') <= IncomingCap
    <3>1. CASE Len(incoming) < IncomingCap
      <4>1. incoming' = Append(incoming, Failure)
        BY <1>12, <3>1 DEF FetchFailed, TrySend
      <4>2. incoming' \in Seq(Item) /\ Len(incoming') = Len(incoming) + 1
        BY <2>1, <4>1, AppendProperties
      <4> QED BY <2>1, <3>1, <4>2
    <3>2. CASE ~(Len(incoming) < IncomingCap)
      BY <1>12, <2>1, <3>2 DEF FetchFailed, TrySend, TypeOK
    <3> QED BY <3>1, <3>2
  <2> QED BY <1>12, <2>2 DEF FetchFailed, Return, Step, Cancelled, TypeOK, sendVars, Item
<1>13. CASE Receive
  <2>1. log \in Seq(Item) /\ incoming \in Seq(Item) /\ Failure \in Item
    BY DEF TypeOK, Item
  <2>2. CASE incoming # << >> /\ log' = Append(log, Head(incoming)) /\ incoming' = Tail(incoming)
    <3>1. /\ log' \in Seq(Item) /\ incoming' \in Seq(Item)
          /\ Len(incoming') = Len(incoming) - 1 /\ Len(incoming) \in Nat
      BY <2>1, <2>2, ReceiveKeepsFlow, LenProperties
    <3>2. Len(incoming') <= IncomingCap
      BY <3>1 DEF TypeOK
    <3> QED BY <1>13, <3>1, <3>2 DEF Receive, TypeOK, sendVars, Item
  <2>3. CASE log' = Append(log, Failure) /\ incoming' = incoming
    <3>1. log' \in Seq(Item)
      BY <2>1, <2>3, AppendProperties
    <3> QED BY <1>13, <2>3, <3>1 DEF Receive, TypeOK, sendVars, Item
  <2> QED BY <1>13, <2>2, <2>3 DEF Receive
<1>14. CASE DropTransport
  BY <1>14 DEF DropTransport, RaiseStop, TypeOK, rxVars, sendVars
<1>15. CASE Join
  BY <1>15 DEF Join, TypeOK, rxVars, sendVars
<1>16. ASSUME NEW s \in Sends, NEW size \in Sizes, SubmitAcl(s, size)
       PROVE  TypeOK'
  <2>1. out' \in Seq(Sends)
    BY <1>16, AppendProperties DEF SubmitAcl, TypeOK
  <2> QED BY <1>16, <2>1 DEF SubmitAcl, TypeOK, rxVars
<1>17. ASSUME NEW s \in Sends, ReapAcl(s)
       PROVE  TypeOK'
  <2>1. out # << >> /\ out' = Tail(out)
    BY <1>17 DEF ReapAcl, OldestComplete
  <2>2. out' \in Seq(Sends)
    BY <2>1, HeadTailProperties DEF TypeOK
  <2>3. outcome' \in [Sends -> {"none", "pending", "ok", "error", "timeout"}]
    BY <1>17 DEF ReapAcl, Returns, TypeOK
  <2> QED BY <1>17, <2>2, <2>3 DEF ReapAcl, Returns, TypeOK, rxVars
<1>18. ASSUME NEW s \in Sends, SendTimeout(s) \/ SubmitCommand(s) \/ CommandReturns(s) \/ SendUnsupported(s)
       PROVE  TypeOK'
  BY <1>18 DEF SendTimeout, SubmitCommand, CommandReturns, Returns, SendUnsupported, TypeOK, rxVars
<1>19. CASE Terminated
  BY <1>19 DEF Terminated, TypeOK, vars, rxVars, sendVars
<1> QED BY <1>1, <1>2, <1>3, <1>4, <1>5, <1>6, <1>7, <1>8, <1>9, <1>10, <1>11, <1>12, <1>13,
           <1>14, <1>15, <1>16, <1>17, <1>18, <1>19
        DEF Next, RxWorker, Controller, Caller

-----------------------------------------------------------------------------
(* Steps of the receive side *)

\* A completion is handled before its transfer is posted again, in every step.
LEMMA RoundsStep ==
    ASSUME NusbInvariant, Next
    PROVE  Rounds'
<1> USE DEF Endpoints
<1>0. /\ TypeOK /\ Rounds
      /\ transfer \in [Endpoints -> {"none", "posted", "packet", "empty", "failed"}]
      /\ fetched \in [Endpoints -> {"none", "packet", "empty", "failed"}]
  BY DEF NusbInvariant, TypeOK
<1>1. CASE Open
  BY <1>0, <1>1 DEF Open, Rounds
<1>2. CASE OpenFails
  BY <1>0, <1>2 DEF OpenFails, Rounds, rxVars
<1>3. ASSUME NEW ep \in Endpoints, Complete(ep)
      PROVE  Rounds'
  BY <1>0, <1>3 DEF Complete, Rounds
<1>4. CASE Remove
  BY <1>0, <1>4 DEF Remove, Rounds
<1>5. CASE TestStop
  BY <1>0, <1>5 DEF TestStop, Step, Cancelled, Rounds
<1>6. ASSUME NEW ep \in Endpoints, Wait(ep)
      PROVE  Rounds'
  BY <1>0, <1>6 DEF Wait, Step, Rounds
<1>7. ASSUME NEW ep \in Endpoints, NothingFetched(ep)
      PROVE  Rounds'
  BY <1>0, <1>7 DEF NothingFetched, Handled, Step, Rounds
<1>8. ASSUME NEW ep \in Endpoints, Fetched(ep)
      PROVE  Rounds'
  BY <1>0, <1>8 DEF Fetched, Overflow, Return, Cancelled, Repost, Handled, Step, Rounds
<1>9. ASSUME NEW ep \in Endpoints, FetchedNothing(ep)
      PROVE  Rounds'
  BY <1>0, <1>9 DEF FetchedNothing, Repost, Handled, Step, Rounds
<1>10. ASSUME NEW ep \in Endpoints, FetchFailed(ep)
       PROVE  Rounds'
  BY <1>0, <1>10 DEF FetchFailed, Return, Cancelled, Step, Rounds
<1>11. CASE Receive
  BY <1>0, <1>11 DEF Receive, Rounds
<1>12. ASSUME caller' # "opening", UNCHANGED rxVars
       PROVE  Rounds'
  BY <1>0, <1>12 DEF Rounds, rxVars
<1>13. CASE CompleteOut \/ \E s \in Sends : CompleteCommand(s)
  BY <1>0, <1>13 DEF CompleteOut, CompleteCommand, Rounds, rxVars
<1>14. CASE \/ DropTransport \/ Join \/ Terminated
            \/ \E s \in Sends, size \in Sizes : SubmitAcl(s, size)
            \/ \E s \in Sends : ReapAcl(s) \/ SendTimeout(s)
            \/ \E s \in Sends : SubmitCommand(s) \/ CommandReturns(s) \/ SendUnsupported(s)
  BY <1>12, <1>14 DEF DropTransport, Join, Terminated, SubmitAcl, ReapAcl, SendTimeout,
     Returns, SubmitCommand, CommandReturns, SendUnsupported, NextSend, vars
<1> QED BY <1>1, <1>2, <1>3, <1>4, <1>5, <1>6, <1>7, <1>8, <1>9, <1>10, <1>11, <1>13, <1>14
        DEF Next, RxWorker, Controller, Caller

\* Between two hand-overs a packet is only moved: from the controller to the
\* transfer, and from the transfer to the round that fetched it.
LEMMA PendingStep ==
    ASSUME NusbInvariant, Next, worker' # "stopped",
           ~ \E ep \in Endpoints : Fetched(ep)
    PROVE  \/ /\ worker # "stopped"
              /\ \A ep \in Endpoints : produced'[ep] - Pending(ep)' = produced[ep] - Pending(ep)
           \/ /\ caller = "opening"
              /\ \A ep \in Endpoints : produced'[ep] = 0 /\ Pending(ep)' = 0
<1> USE DEF Endpoints
<1> DEFINE Moved == \A ep \in Endpoints : produced'[ep] - Pending(ep)' = produced[ep] - Pending(ep)
<1>0. /\ TypeOK /\ Rounds
      /\ transfer \in [Endpoints -> {"none", "posted", "packet", "empty", "failed"}]
      /\ fetched \in [Endpoints -> {"none", "packet", "empty", "failed"}]
      /\ produced \in [Endpoints -> 0 .. MaxPackets]
      /\ \A ep \in Endpoints : produced[ep] \in Int
  BY NusbAssumption DEF NusbInvariant, TypeOK
<1>1. CASE Open
  BY <1>0, <1>1 DEF Open, Rounds, Pending
<1>2. ASSUME UNCHANGED <<transfer, fetched, produced>>
      PROVE  Moved
  BY <1>2 DEF Pending
<1>3. ASSUME NEW ep \in Endpoints, Complete(ep)
      PROVE  worker # "stopped" /\ Moved
  BY <1>0, <1>3 DEF Complete, Rounds, Pending
<1>4. CASE Remove
  <2>1. worker # "stopped"
    BY <1>4 DEF Remove
  <2>2. Moved
    BY <1>0, <1>4 DEF Remove, Pending
  <2> QED BY <2>1, <2>2
<1>5. ASSUME NEW ep \in Endpoints, Wait(ep)
      PROVE  worker # "stopped" /\ Moved
  BY <1>0, <1>5 DEF Wait, Step, Rounds, Pending
<1>6. ASSUME NEW ep \in Endpoints, NothingFetched(ep) \/ FetchedNothing(ep)
      PROVE  worker # "stopped" /\ Moved
  BY <1>0, <1>6 DEF NothingFetched, FetchedNothing, Repost, Handled, Step, Rounds, Pending
<1>7. ASSUME NEW ep \in Endpoints, FetchFailed(ep)
      PROVE  FALSE
  BY <1>7 DEF FetchFailed, Return, Step
<1>8. CASE TestStop
  BY <1>8, <1>2 DEF TestStop, Step
<1>9. CASE \/ OpenFails \/ CompleteOut \/ Receive \/ DropTransport \/ Join \/ Terminated
           \/ \E s \in Sends : CompleteCommand(s)
           \/ \E s \in Sends, size \in Sizes : SubmitAcl(s, size)
           \/ \E s \in Sends : ReapAcl(s) \/ SendTimeout(s)
           \/ \E s \in Sends : SubmitCommand(s) \/ CommandReturns(s) \/ SendUnsupported(s)
  <2>1. UNCHANGED <<worker, transfer, fetched, produced>>
    BY <1>9 DEF OpenFails, CompleteOut, Receive, DropTransport, Join, Terminated,
       CompleteCommand, SubmitAcl, ReapAcl, SendTimeout, Returns,
       SubmitCommand, CommandReturns, SendUnsupported, vars, rxVars
  <2> QED BY <1>2, <2>1
<1> QED BY <1>1, <1>3, <1>4, <1>5, <1>6, <1>7, <1>8, <1>9
        DEF Next, RxWorker, Controller, Caller

\* The number of events that completed earlier is never more than all of them.
LEMMA EarlierStep ==
    ASSUME NusbInvariant, Next
    PROVE  \A ep \in Endpoints : earlier'[ep] <= produced'["event"]
<1> USE DEF Endpoints
<1>0. /\ produced \in [Endpoints -> 0 .. MaxPackets] /\ earlier \in [Endpoints -> 0 .. MaxPackets]
      /\ \A ep \in Endpoints : earlier[ep] <= produced["event"]
      /\ \A ep \in Endpoints : produced[ep] \in Int /\ earlier[ep] \in Int
  BY NusbAssumption DEF NusbInvariant, TypeOK, Counted
<1>1. ASSUME NEW ep \in Endpoints, Complete(ep)
      PROVE  \A k \in Endpoints : earlier'[k] <= produced'["event"]
  <2>1. CASE UNCHANGED <<produced, earlier>>
    BY <1>0, <2>1
  <2>2. CASE /\ produced' = [produced EXCEPT ![ep] = @ + 1]
             /\ earlier' = [earlier EXCEPT ![ep] = produced["event"]]
    BY <1>0, <2>2
  <2> QED BY <1>1, <2>1, <2>2 DEF Complete
<1>2. CASE UNCHANGED <<produced, earlier>>
  BY <1>0, <1>2
<1>3. CASE \/ Open \/ OpenFails \/ Remove \/ TestStop \/ CompleteOut
           \/ Receive \/ DropTransport \/ Join \/ Terminated
           \/ \E ep \in Endpoints :
                 Wait(ep) \/ NothingFetched(ep) \/ Fetched(ep) \/ FetchedNothing(ep) \/ FetchFailed(ep)
           \/ \E s \in Sends : CompleteCommand(s)
           \/ \E s \in Sends, size \in Sizes : SubmitAcl(s, size)
           \/ \E s \in Sends : ReapAcl(s) \/ SendTimeout(s)
           \/ \E s \in Sends : SubmitCommand(s) \/ CommandReturns(s) \/ SendUnsupported(s)
  <2>1. UNCHANGED <<produced, earlier>>
    BY <1>3 DEF Open, OpenFails, Remove, TestStop, CompleteOut, Receive, DropTransport, Join,
       Terminated, Wait, NothingFetched, Fetched, FetchedNothing, FetchFailed,
       CompleteCommand, SubmitAcl, ReapAcl, SendTimeout, Returns,
       SubmitCommand, CommandReturns, SendUnsupported, vars, rxVars
  <2> QED BY <1>2, <2>1
<1> QED BY <1>1, <1>3 DEF Next, RxWorker, Controller, Caller

\* A packet handed over comes last, or ends the worker.
LEMMA FetchedFlow ==
    ASSUME NusbInvariant, NEW ep \in Endpoints, Fetched(ep)
    PROVE  /\ worker # "stopped"
           /\ \/ worker' = "stopped" /\ Flow' = Flow
              \/ /\ Repost(ep) /\ Handled(ep)
                 /\ UNCHANGED <<produced, earlier>>
                 /\ Flow' = Append(Flow, [kind |-> ep, n |-> produced[ep], earlier |-> earlier[ep]])
<1> DEFINE e == [kind |-> ep, n |-> produced[ep], earlier |-> earlier[ep]]
<1>1. CASE Len(incoming) < IncomingCap /\ TrySend(e) /\ Repost(ep) /\ Handled(ep)
  <2>1. worker # "stopped" /\ fetched[ep] = "packet" /\ UNCHANGED <<produced, earlier, log>>
    BY <1>1 DEF Fetched, Handled, Step, Endpoints
  <2>2. e \in Item /\ log \in Seq(Item) /\ incoming \in Seq(Item)
    BY <2>1, FetchedPacket, FlowType DEF NusbInvariant, ReceiveSide
  <2>3. incoming' = Append(incoming, e)
    BY <1>1 DEF TrySend
  <2>4. Flow' = Append(Flow, e)
    BY <2>1, <2>2, <2>3, SendExtendsFlow DEF Flow
  <2> QED BY <1>1, <2>1, <2>4
<1>2. CASE Overflow(ep) /\ UNCHANGED log
  BY <1>2 DEF Overflow, Return, Step, Endpoints, Flow
<1> QED BY <1>1, <1>2 DEF Fetched

\* Every other step leaves the channel and the log together as they are, or adds
\* the error that a stopped worker leaves.
LEMMA OtherFlow ==
    ASSUME NusbInvariant, Next, ~ \E ep \in Endpoints : Fetched(ep)
    PROVE  \/ Flow' = Flow
           \/ /\ worker' = "stopped" /\ Flow' = Append(Flow, Failure)
              /\ worker = "stopped" => incoming = << >> /\ (log = << >> \/ log[Len(log)] # Failure)
<1> DEFINE Goal == \/ Flow' = Flow
                   \/ /\ worker' = "stopped" /\ Flow' = Append(Flow, Failure)
                      /\ worker = "stopped" => /\ incoming = << >>
                                               /\ log = << >> \/ log[Len(log)] # Failure
<1>0. TypeOK /\ log \in Seq(Item) /\ incoming \in Seq(Item) /\ Failure \in Item
  BY FlowType DEF NusbInvariant, Item
<1>1. ASSUME UNCHANGED <<log, incoming>>
      PROVE  Goal
  BY <1>1 DEF Flow
<1>2. CASE \/ Open \/ OpenFails \/ Remove \/ TestStop \/ CompleteOut \/ DropTransport \/ Join
           \/ Terminated
           \/ \E ep \in Endpoints :
                 Complete(ep) \/ Wait(ep) \/ NothingFetched(ep) \/ FetchedNothing(ep)
           \/ \E s \in Sends : CompleteCommand(s)
           \/ \E s \in Sends, size \in Sizes : SubmitAcl(s, size)
           \/ \E s \in Sends : ReapAcl(s) \/ SendTimeout(s)
           \/ \E s \in Sends : SubmitCommand(s) \/ CommandReturns(s) \/ SendUnsupported(s)
  BY <1>1, <1>2 DEF Open, OpenFails, Remove, TestStop, CompleteOut, DropTransport, Join,
     Terminated, Complete, Wait, NothingFetched, FetchedNothing,
     CompleteCommand, SubmitAcl, ReapAcl, SendTimeout, Returns,
     SubmitCommand, CommandReturns, SendUnsupported, vars, rxVars
<1>3. ASSUME NEW ep \in Endpoints, FetchFailed(ep)
      PROVE  Goal
  <2>1. /\ worker # "stopped" /\ worker' = "stopped" /\ UNCHANGED log
        /\ TrySend(Failure)
    BY <1>3 DEF FetchFailed, Return, Step, Endpoints
  <2>2. CASE incoming' = incoming
    BY <1>1, <2>1, <2>2
  <2>3. CASE incoming' = Append(incoming, Failure)
    <3>1. Flow' = Append(Flow, Failure)
      BY <1>0, <2>1, <2>3, SendExtendsFlow DEF Flow
    <3> QED BY <2>1, <3>1
  <2> QED BY <2>1, <2>2, <2>3 DEF TrySend
<1>4. CASE Receive
  <2>1. UNCHANGED worker
    BY <1>4 DEF Receive
  <2>2. CASE incoming # << >> /\ log' = Append(log, Head(incoming)) /\ incoming' = Tail(incoming)
    BY <1>0, <2>2, ReceiveKeepsFlow DEF Flow
  <2>3. CASE /\ Closed /\ (log = << >> \/ log[Len(log)] # Failure)
             /\ log' = Append(log, Failure) /\ incoming' = incoming
    <3>1. incoming = << >> /\ worker = "stopped"
      BY <2>3 DEF Closed
    <3>2. log' \in Seq(Item)
      BY <1>0, <2>3, AppendProperties
    <3>3. Flow' = log' /\ Flow = log
      BY <1>0, <2>3, <3>1, <3>2, FlowOfEmpty DEF Flow
    <3> QED BY <2>1, <2>3, <3>1, <3>3
  <2> QED BY <1>4, <2>2, <2>3 DEF Receive
<1> QED BY <1>2, <1>3, <1>4 DEF Next, RxWorker, Controller, Caller

\* The account of the receive side is kept: what is passed on and under way is
\* what was produced, and the numbers have no gap.
LEMMA AccountStep ==
    ASSUME NusbInvariant, Next
    PROVE  Counted' /\ Numbered(Flow)'
<1> DEFINE C(k) == Count(Flow, Len(Flow), k)
<1>0. /\ TypeOK /\ Rounds /\ Counted /\ Numbered(Flow) /\ Flow \in Seq(Item)
      /\ \A k : C(k) \in Nat
      /\ \A ep \in Endpoints : produced[ep] \in Int /\ Pending(ep) \in Int
      /\ Rounds' /\ \A ep \in Endpoints : earlier'[ep] <= produced'["event"]
      /\ DOMAIN Flow = 1 .. Len(Flow) /\ Len(Flow) \in Nat
  <2>1. TypeOK /\ Rounds /\ Counted /\ Numbered(Flow)
    BY DEF NusbInvariant
  <2>2. \A ep \in Endpoints : produced[ep] \in Int /\ Pending(ep) \in Int
    BY <2>1, NusbAssumption DEF TypeOK, Pending
  <2> QED BY <2>1, <2>2, FlowType, RoundsStep, EarlierStep, LenProperties
<1>1. CASE \E ep \in Endpoints : Fetched(ep)
  <2>1. PICK ep \in Endpoints : Fetched(ep)
    BY <1>1
  <2> DEFINE e == [kind |-> ep, n |-> produced[ep], earlier |-> earlier[ep]]
  <2>2. CASE worker' = "stopped" /\ Flow' = Flow
    BY <1>0, <2>2 DEF Counted
  <2>3. CASE /\ Repost(ep) /\ Handled(ep) /\ UNCHANGED <<produced, earlier>>
             /\ Flow' = Append(Flow, e)
    <3>1. worker # "stopped" /\ fetched[ep] = "packet"
      BY <2>1, FetchedFlow DEF Fetched
    <3>2. /\ e \in Item /\ e # Failure /\ e.n = 1 + Count(Flow, Len(Flow), e.kind)
          /\ e.earlier - 1 <= Count(Flow, Len(Flow), "event")
      BY <3>1, FetchedPacket DEF NusbInvariant, ReceiveSide
    <3>3. \A i \in DOMAIN Flow : Flow[i] # Failure
      BY <1>0, <3>1 DEF Counted
    <3>4. Numbered(Append(Flow, e))
      BY <1>0, <3>2, <3>3, NumberedAppend
    <3>5. Numbered(Flow)'
      BY <2>3, <3>4
    <3>6. /\ Len(Append(Flow, e)) = Len(Flow) + 1
          /\ DOMAIN Append(Flow, e) = 1 .. Len(Flow) + 1
          /\ Append(Flow, e)[Len(Flow) + 1] = e
          /\ \A i \in 1 .. Len(Flow) : Append(Flow, e)[i] = Flow[i]
      BY <1>0, <3>2, AppendProperties, LenProperties
    <3>7. \A i \in DOMAIN Append(Flow, e) : Append(Flow, e)[i] # Failure
      BY <1>0, <3>2, <3>3, <3>6
    <3>8. ASSUME NEW k \in Endpoints
          PROVE  Count(Append(Flow, e), Len(Append(Flow, e)), k) + Pending(k)' = produced'[k]
      <4>1. e.kind = ep
        OBVIOUS
      <4>2. Count(Append(Flow, e), Len(Append(Flow, e)), k) = C(k) + (IF ep = k THEN 1 ELSE 0)
        BY <1>0, <3>2, <4>1, CountAppend
      <4>3. C(k) + Pending(k) = produced[k]
        BY <1>0, <3>1 DEF Counted
      <4>4. Pending(k)' = Pending(k) - (IF ep = k THEN 1 ELSE 0)
        <5>1. /\ transfer'[ep] # "packet" /\ fetched'[ep] # "packet"
              /\ k # ep => transfer'[k] = transfer[k] /\ fetched'[k] = fetched[k]
          BY <1>0, <2>3 DEF TypeOK, Repost, Handled
        <5> QED BY <3>1, <5>1 DEF Pending
      <4> HIDE DEF C
      <4>5. produced'[k] = produced[k] /\ C(k) \in Nat /\ Pending(k) \in Int
        BY <1>0, <2>3
      <4> QED BY <1>0, <4>2, <4>3, <4>4, <4>5
    <3> HIDE DEF e
    <3>9. Counted'
      BY <1>0, <2>3, <3>7, <3>8 DEF Counted
    <3> QED BY <3>5, <3>9
  <2> QED BY <2>1, <2>2, <2>3, FetchedFlow
<1>2. CASE ~ \E ep \in Endpoints : Fetched(ep)
  <2>1. CASE Flow' = Flow
    <3>1. Numbered(Flow)'
      BY <1>0, <2>1
    <3>2. CASE worker' = "stopped"
      BY <1>0, <2>1, <3>1, <3>2 DEF Counted
    <3>3. CASE worker' # "stopped" /\ worker # "stopped"
               /\ \A ep \in Endpoints : produced'[ep] - Pending(ep)' = produced[ep] - Pending(ep)
      <4>1. ASSUME NEW k \in Endpoints
            PROVE  C(k) + Pending(k)' = produced'[k]
        <5>1. C(k) + Pending(k) = produced[k] /\ C(k) \in Nat
          BY <1>0, <3>3 DEF Counted
        <5>2. produced'[k] \in Int /\ Pending(k)' \in Int
          BY TypeStep, NusbAssumption DEF TypeOK, Pending
        <5> HIDE DEF C
        <5> QED BY <1>0, <3>3, <5>1, <5>2
      <4> QED BY <1>0, <2>1, <3>1, <3>3, <4>1 DEF Counted
    <3>4. CASE caller = "opening" /\ \A ep \in Endpoints : produced'[ep] = 0 /\ Pending(ep)' = 0
      <4>1. Flow = << >>
        BY <1>0, <3>4, ConcatEmptySeq, EmptySeq DEF Rounds, Flow
      <4>2. \A k : C(k) = 0
        <5>1. \A k : Kinds(Flow, Len(Flow), k) = {}
          BY <4>1, EmptySeq DEF Kinds
        <5> QED BY <5>1, FS_EmptySet DEF Count
      <4>3. DOMAIN Flow = {}
        BY <4>1, EmptySeq
      <4>4. ASSUME NEW k \in Endpoints
            PROVE  C(k) + Pending(k)' = produced'[k]
        <5>1. C(k) = 0 /\ Pending(k)' = 0 /\ produced'[k] = 0
          BY <3>4, <4>2
        <5> HIDE DEF C
        <5> QED BY <5>1
      <4> QED BY <1>0, <2>1, <3>1, <4>3, <4>4 DEF Counted
    <3> QED BY <1>2, <3>2, <3>3, <3>4, PendingStep
  <2>2. CASE /\ worker' = "stopped" /\ Flow' = Append(Flow, Failure)
             /\ worker = "stopped" => incoming = << >> /\ (log = << >> \/ log[Len(log)] # Failure)
    <3>1. \A i \in DOMAIN Flow : Flow[i] # Failure
      <4>1. CASE worker # "stopped"
        BY <1>0, <4>1 DEF Counted
      <4>2. CASE worker = "stopped"
        <5>1. Flow = log
          BY <1>0, <2>2, <4>2, FlowType, FlowOfEmpty DEF Flow
        <5>2. Flow = << >> \/ Flow[Len(Flow)] # Failure
          BY <2>2, <4>2, <5>1
        <5> QED BY <1>0, <5>2, EmptySeq DEF Numbered
      <4> QED BY <4>1, <4>2
    <3>2. Failure \in Item /\ Failure.earlier = 0
      BY DEF Item, Failure
    <3>3. Failure.earlier - 1 <= C("event")
      BY <1>0, <3>2
    <3>4. Numbered(Append(Flow, Failure))
      BY <1>0, <3>1, <3>2, <3>3, NumberedAppend
    <3>5. Numbered(Flow)'
      BY <2>2, <3>4
    <3>6. Counted'
      BY <1>0, <2>2 DEF Counted
    <3> QED BY <3>5, <3>6
  <2> QED BY <1>2, <2>1, <2>2, OtherFlow
<1> QED BY <1>1, <1>2

-----------------------------------------------------------------------------
(* Steps of the send side *)

\* A step that touches no send keeps what is said of them.
LEMMA SendsKept ==
    ASSUME OneByOne, FalseSuccessIsLate, UNCHANGED <<out, length, outcome>>,
           transferred \subseteq transferred',
           caller \in {"sending", "commanding"} => caller' = caller
    PROVE  OneByOne' /\ FalseSuccessIsLate'
<1>1. FalseSuccessIsLate'
  BY DEF FalseSuccessIsLate
<1>2. /\ \A r, s \in Sends : r < s /\ outcome'[s] # "none" => outcome'[r] \in Returned
      /\ \A s \in Sends : outcome'[s] = "pending" => caller' \in {"sending", "commanding"}
      /\ \A j, k \in DOMAIN out' : j < k => out'[j] < out'[k]
  BY DEF OneByOne
<1>3. \A k \in DOMAIN out' : /\ outcome'[out'[k]] # "none"
                             /\ outcome'[out'[k]] = "pending" => caller' = "sending"
                             /\ outcome'[out'[k]] # "pending" => Late(outcome', out'[k])
  BY DEF OneByOne
<1> QED BY <1>1, <1>2, <1>3 DEF OneByOne, Late

\* A send that is next was preceded by sends that returned, and nothing later
\* was begun; nothing is under way.
LEMMA NextSendAlone ==
    ASSUME TypeOK, OneByOne, NEW s \in Sends, NextSend(s)
    PROVE  /\ \A r \in Sends : r < s => outcome[r] \in Returned
           /\ \A r \in Sends : r > s => outcome[r] = "none"
           /\ \A r \in Sends : outcome[r] # "pending"
           /\ \A k \in DOMAIN out : out[k] < s
<1>1. outcome[s] = "none" /\ caller = "ready" /\ \A r \in Sends : r < s => outcome[r] # "none"
  BY DEF NextSend
<1>2. \A r \in Sends : r > s => outcome[r] = "none"
  BY <1>1 DEF OneByOne, Sends, Returned
<1>3. \A r \in Sends : outcome[r] # "pending"
  BY <1>1 DEF OneByOne
<1>4. \A r \in Sends : r < s => outcome[r] \in Returned
  BY <1>1, <1>3 DEF TypeOK, Returned
<1>5. ASSUME NEW k \in DOMAIN out
      PROVE  out[k] < s
  <2>1. out[k] \in Sends /\ outcome[out[k]] # "none"
    BY OutTyped DEF OneByOne
  <2>2. ~ out[k] > s /\ out[k] # s
    BY <1>1, <1>2, <2>1
  <2>3. \A a, b \in Sends : ~ a > b /\ a # b => a < b
    BY NusbAssumption DEF Sends
  <2> QED BY <2>1, <2>2, <2>3
<1> QED BY <1>2, <1>3, <1>4, <1>5

\* The send under way: the earlier ones returned, nothing later was begun, and
\* no other is under way.
LEMMA PendingAlone ==
    ASSUME TypeOK, OneByOne, NEW s \in Sends, outcome[s] = "pending"
    PROVE  /\ \A r \in Sends : r < s => outcome[r] \in Returned
           /\ \A r \in Sends : r > s => outcome[r] = "none"
           /\ \A r \in Sends : outcome[r] = "pending" => r = s
<1>1. \A r \in Sends : r < s => outcome[r] \in Returned
  BY DEF OneByOne
<1>2. \A r \in Sends : r > s => outcome[r] = "none"
  BY DEF OneByOne, Sends, TypeOK, Returned
<1>3. \A r \in Sends : r < s \/ r > s \/ r = s
  BY NusbAssumption DEF Sends
<1> QED BY <1>1, <1>2, <1>3 DEF Returned

\* A send timed out before s, and an earlier packet of its length was taken.
Explained(results, lengths, s) ==
    /\ \E r \in Sends : r < s /\ results[r] = "timeout"
    /\ \E q \in Sends : q < s /\ q \in transferred /\ lengths[q] = lengths[s]

\* A false success of an earlier send stays explained when a send begins or
\* returns; what is to show is that of its own.
LEMMA FalseSuccessKept ==
    ASSUME TypeOK, OneByOne, FalseSuccessIsLate, NEW s \in Sends,
           NEW result \in Returned \cup {"pending"},
           outcome[s] \in {"none", "pending"},
           outcome' = [outcome EXCEPT ![s] = result],
           \A r \in Sends : r # s => length'[r] = length[r],
           UNCHANGED transferred,
           result # "ok" \/ s \in transferred \/ Explained(outcome, length', s)
    PROVE  FalseSuccessIsLate'
<1>1. outcome'[s] = result /\ \A r \in Sends : r # s => outcome'[r] = outcome[r]
  BY DEF TypeOK
<1>2. \A r \in Sends : outcome[r] = "timeout" => outcome'[r] = "timeout"
  BY <1>1
<1> SUFFICES ASSUME NEW t \in Sends, outcome'[t] = "ok", t \notin transferred
             PROVE  /\ \E r \in Sends : r < t /\ outcome'[r] = "timeout"
                    /\ \E q \in Sends : q < t /\ q \in transferred /\ length'[q] = length'[t]
  BY DEF FalseSuccessIsLate
<1>3. CASE t = s
  BY <1>1, <1>2, <1>3 DEF Explained
<1>4. CASE t # s
  <2>1. outcome[t] = "ok"
    BY <1>1, <1>4
  <2>2. \A q \in Sends : q < t => q # s
    BY <2>1 DEF OneByOne, Returned
  <2>3. /\ \E r \in Sends : r < t /\ outcome[r] = "timeout"
        /\ \E q \in Sends : q < t /\ q \in transferred /\ length[q] = length[t]
    BY <2>1 DEF FalseSuccessIsLate
  <2> QED BY <1>2, <1>4, <2>2, <2>3
<1> QED BY <1>3, <1>4

\* A time-out is not forgotten when a send begins or returns.
LEMMA LateKept ==
    ASSUME TypeOK, NEW s \in Sends, NEW result, outcome[s] # "timeout",
           outcome' = [outcome EXCEPT ![s] = result]
    PROVE  \A n : Late(outcome, n) => Late(outcome', n)
BY DEF TypeOK, Late

\* A send that returns without taking a completion of the ACL endpoint.
LEMMA ReturnKeeps ==
    ASSUME TypeOK, OneByOne, FalseSuccessIsLate, NEW s \in Sends, NEW result \in Returned,
           outcome[s] = "pending",
           outcome' = [outcome EXCEPT ![s] = result],
           caller' = "ready", UNCHANGED <<out, length, transferred>>,
           result = "ok" => s \in transferred,
           result # "timeout" => \A k \in DOMAIN out : out[k] # s
    PROVE  OneByOne' /\ FalseSuccessIsLate'
<1>1. /\ \A r \in Sends : r < s => outcome[r] \in Returned
      /\ \A r \in Sends : r > s => outcome[r] = "none"
      /\ \A r \in Sends : outcome[r] = "pending" => r = s
  BY PendingAlone
<1>2. outcome'[s] = result /\ \A r \in Sends : r # s => outcome'[r] = outcome[r]
  BY DEF TypeOK
<1>3. \A r \in Sends : (r < s \/ r > s \/ r = s) /\ ~ r < r /\ r <= r
  BY NusbAssumption DEF Sends
<1>4. FalseSuccessIsLate'
  <2>1. (result # "ok" \/ s \in transferred) /\ result \in Returned \cup {"pending"}
    OBVIOUS
  <2>2. /\ outcome[s] \in {"none", "pending"}
        /\ \A r \in Sends : r # s => length'[r] = length[r]
    OBVIOUS
  <2> QED BY <2>1, <2>2, FalseSuccessKept
<1>5. \A a, b \in Sends : a < b /\ outcome'[b] # "none" => outcome'[a] \in Returned
  BY <1>1, <1>2, <1>3 DEF OneByOne
<1>6. \A r \in Sends : outcome'[r] # "pending"
  BY <1>1, <1>2 DEF Returned
<1>7. ASSUME NEW k \in DOMAIN out
      PROVE  outcome'[out[k]] # "none" /\ Late(outcome', out[k])
  <2>1. out[k] \in Sends /\ outcome[out[k]] # "none"
        /\ (outcome[out[k]] # "pending" => Late(outcome, out[k]))
    BY OutTyped DEF OneByOne
  <2>2. CASE out[k] # s
    BY <1>1, <1>2, <2>1, <2>2, LateKept
  <2>3. CASE out[k] = s
    BY <1>2, <1>3, <2>3 DEF Late
  <2> QED BY <2>2, <2>3
<1>8. /\ \A j, k \in DOMAIN out' : j < k => out'[j] < out'[k]
      /\ \A k \in DOMAIN out' : /\ outcome'[out'[k]] # "none"
                                /\ outcome'[out'[k]] # "pending"
                                /\ Late(outcome', out'[k])
  BY <1>6, <1>7, OutTyped DEF OneByOne
<1>9. OneByOne'
  BY <1>5, <1>6, <1>8 DEF OneByOne, Late
<1> QED BY <1>4, <1>9

\* A send that returns with the oldest transfer of the endpoint: its own, or
\* the late one of an earlier send.
LEMMA ReapKeeps ==
    ASSUME TypeOK, OneByOne, FalseSuccessIsLate, NEW s \in Sends, NEW result \in {"ok", "error"},
           outcome[s] = "pending", out # << >>,
           outcome' = [outcome EXCEPT ![s] = result],
           caller' = "ready", out' = Tail(out), UNCHANGED <<length, transferred>>,
           result = "ok" => Head(out) \in transferred /\ length[Head(out)] = length[s]
    PROVE  OneByOne' /\ FalseSuccessIsLate'
<1>1. /\ \A r \in Sends : r < s => outcome[r] \in Returned
      /\ \A r \in Sends : r > s => outcome[r] = "none"
      /\ \A r \in Sends : outcome[r] = "pending" => r = s
  BY PendingAlone
<1>2. outcome'[s] = result /\ \A r \in Sends : r # s => outcome'[r] = outcome[r]
  BY DEF TypeOK
<1>3. \A r \in Sends : (r < s \/ r > s \/ r = s) /\ ~ r < r
  BY NusbAssumption DEF Sends
<1>4. /\ Len(out) \in Nat \ {0} /\ DOMAIN out = 1 .. Len(out) /\ Head(out) = out[1]
      /\ DOMAIN out' = 1 .. Len(out) - 1
      /\ \A k \in 1 .. Len(out) - 1 : out'[k] = out[k + 1]
  <2>1. out \in Seq(Sends)
    BY DEF TypeOK
  <2> QED BY <2>1, HeadTailProperties, LenProperties, EmptySeq
<1>5. /\ 1 \in DOMAIN out
      /\ \A k \in DOMAIN out' : k + 1 \in DOMAIN out /\ 1 < k + 1 /\ out'[k] = out[k + 1]
  BY <1>4
<1>6. PICK h \in Sends : /\ h = Head(out) /\ outcome[h] # "none"
                         /\ outcome[h] # "pending" => Late(outcome, h)
                         /\ \A k \in DOMAIN out' : h < out'[k]
  BY <1>4, <1>5, OutTyped DEF OneByOne
<1>7. h = s \/ (h < s /\ Late(outcome, h))
  BY <1>1, <1>3, <1>6
<1>8. \A r, n \in Sends : r <= n /\ n < s => r < s
  BY NusbAssumption DEF Sends
<1>9. FalseSuccessIsLate'
  <2>1. Late(outcome, h) /\ h < s => \E r \in Sends : r < s /\ outcome[r] = "timeout"
    BY <1>8 DEF Late
  <2>2. h < s /\ result = "ok" => h \in transferred /\ length'[h] = length'[s]
    BY <1>6
  <2>3. result = "ok" /\ s \notin transferred => h < s /\ Late(outcome, h)
    BY <1>6, <1>7
  <2>4. result # "ok" \/ s \in transferred \/ Explained(outcome, length', s)
    BY <2>1, <2>2, <2>3 DEF Explained
  <2>5. /\ outcome[s] \in {"none", "pending"} /\ result \in Returned \cup {"pending"}
        /\ \A r \in Sends : r # s => length'[r] = length[r]
    BY DEF Returned
  <2> QED BY <2>4, <2>5, FalseSuccessKept
<1>10. \A a, b \in Sends : a < b /\ outcome'[b] # "none" => outcome'[a] \in Returned
  BY <1>1, <1>2, <1>3 DEF OneByOne, Returned
<1>11. \A r \in Sends : outcome'[r] # "pending"
  BY <1>1, <1>2
<1>12. ASSUME NEW k \in DOMAIN out'
       PROVE  /\ out'[k] \in Sends /\ outcome'[out'[k]] # "none"
              /\ Late(outcome', out'[k])
  <2>1. PICK r \in Sends : /\ r = out'[k] /\ outcome[r] # "none" /\ h < r
                           /\ outcome[r] # "pending" => Late(outcome, r)
    BY <1>5, <1>6, OutTyped DEF OneByOne
  <2>2. Late(outcome, r)
    <3>1. CASE outcome[r] = "pending"
      <4>1. h < s /\ h < r /\ Late(outcome, h)
        BY <1>1, <1>3, <1>7, <2>1, <3>1
      <4>2. \A a, b, c \in Sends : a <= b /\ b < c => a <= c
        BY NusbAssumption DEF Sends
      <4> QED BY <4>1, <4>2 DEF Late
    <3> QED BY <2>1, <3>1
  <2>3. outcome'[r] # "none" /\ Late(outcome', r)
    BY <1>2, <2>1, <2>2, LateKept
  <2> QED BY <2>1, <2>3
<1>13. \A j, k \in DOMAIN out' : j < k => out'[j] < out'[k]
  <2> SUFFICES ASSUME NEW j \in DOMAIN out', NEW k \in DOMAIN out', j < k
               PROVE  out'[j] < out'[k]
    OBVIOUS
  <2>1. j + 1 < k + 1
    BY <1>4
  <2> QED BY <1>5, <2>1 DEF OneByOne
<1>14. OneByOne'
  BY <1>10, <1>11, <1>12, <1>13 DEF OneByOne, Late
<1> QED BY <1>9, <1>14

\* A send that begins, or is refused, before anything is submitted for it.
LEMMA BeginKeeps ==
    ASSUME TypeOK, OneByOne, FalseSuccessIsLate, NEW s \in Sends, NEW result \in {"pending", "error"},
           NextSend(s),
           outcome' = [outcome EXCEPT ![s] = result],
           result = "pending" => caller' \in {"sending", "commanding"},
           \A r \in Sends : r # s => length'[r] = length[r],
           UNCHANGED transferred
    PROVE  /\ FalseSuccessIsLate'
           /\ \A a, b \in Sends : a < b /\ outcome'[b] # "none" => outcome'[a] \in Returned
           /\ \A r \in Sends : outcome'[r] = "pending" => caller' \in {"sending", "commanding"}
           /\ \A k \in DOMAIN out : /\ out[k] \in Sends /\ out[k] < s
                                    /\ outcome'[out[k]] \notin {"none", "pending"}
                                    /\ Late(outcome', out[k])
<1>1. /\ \A r \in Sends : r < s => outcome[r] \in Returned
      /\ \A r \in Sends : r > s => outcome[r] = "none"
      /\ \A r \in Sends : outcome[r] # "pending"
      /\ \A k \in DOMAIN out : out[k] < s
  BY NextSendAlone
<1>2. outcome'[s] = result /\ \A r \in Sends : r # s => outcome'[r] = outcome[r]
  BY DEF TypeOK
<1>3. \A r \in Sends : (r < s \/ r > s \/ r = s) /\ ~ r < r
  BY NusbAssumption DEF Sends
<1>4. outcome[s] = "none"
  BY DEF NextSend
<1>5. FalseSuccessIsLate'
  <2>1. result # "ok" /\ result \in Returned \cup {"pending"}
    BY DEF Returned
  <2>2. outcome[s] \in {"none", "pending"}
    BY <1>4
  <2> QED BY <2>1, <2>2, FalseSuccessKept
<1>6. \A a, b \in Sends : a < b /\ outcome'[b] # "none" => outcome'[a] \in Returned
  BY <1>1, <1>2, <1>3 DEF OneByOne
<1>7. \A r \in Sends : outcome'[r] = "pending" => caller' \in {"sending", "commanding"}
  BY <1>1, <1>2
<1>8. ASSUME NEW k \in DOMAIN out
      PROVE  /\ out[k] \in Sends /\ out[k] < s
             /\ outcome'[out[k]] \notin {"none", "pending"}
             /\ Late(outcome', out[k])
  <2>1. out[k] \in Sends /\ out[k] < s
    BY <1>1, OutTyped
  <2>2. outcome'[out[k]] = outcome[out[k]] /\ outcome[out[k]] \in Returned
    BY <1>1, <1>2, <1>3, <2>1
  <2>3. Late(outcome, out[k])
    BY <1>1, <2>1 DEF OneByOne
  <2> QED BY <1>4, <2>1, <2>2, <2>3, LateKept DEF Returned
<1> QED BY <1>5, <1>6, <1>7, <1>8

\* Every step keeps the sends apart and their false successes explained.
LEMMA SendStep ==
    ASSUME NusbInvariant, Next
    PROVE  OneByOne' /\ FalseSuccessIsLate'
<1> USE DEF NusbInvariant
<1>1. ASSUME NEW s \in Sends, NEW size \in Sizes, SubmitAcl(s, size)
      PROVE  OneByOne' /\ FalseSuccessIsLate'
  <2>1. /\ NextSend(s) /\ out' = Append(out, s) /\ caller' = "sending"
        /\ outcome' = [outcome EXCEPT ![s] = "pending"] /\ UNCHANGED transferred
    BY <1>1 DEF SubmitAcl
  <2>2. \A r \in Sends : r # s => length'[r] = length[r]
    BY <1>1 DEF SubmitAcl, TypeOK
  <2>3. /\ FalseSuccessIsLate'
        /\ \A a, b \in Sends : a < b /\ outcome'[b] # "none" => outcome'[a] \in Returned
        /\ \A r \in Sends : outcome'[r] = "pending" => caller' \in {"sending", "commanding"}
        /\ \A k \in DOMAIN out : /\ out[k] \in Sends /\ out[k] < s
                                 /\ outcome'[out[k]] \notin {"none", "pending"}
                                 /\ Late(outcome', out[k])
    BY <2>1, <2>2, BeginKeeps
  <2>4. /\ DOMAIN out = 1 .. Len(out) /\ Len(out) \in Nat
        /\ DOMAIN out' = 1 .. Len(out) + 1
        /\ out'[Len(out) + 1] = s /\ \A k \in 1 .. Len(out) : out'[k] = out[k]
    <3>1. out \in Seq(Sends)
      BY DEF TypeOK
    <3> QED BY <2>1, <3>1, AppendProperties, LenProperties
  <2>5. outcome'[s] = "pending"
    BY <2>1 DEF TypeOK
  <2>6. \A k \in DOMAIN out' : (k \in DOMAIN out /\ out'[k] = out[k])
                                 \/ (k = Len(out) + 1 /\ out'[k] = s)
    BY <2>4
  <2>7. \A k \in DOMAIN out' : /\ outcome'[out'[k]] # "none"
                               /\ outcome'[out'[k]] # "pending" => Late(outcome', out'[k])
    BY <2>3, <2>5, <2>6
  <2>8. ASSUME NEW j \in DOMAIN out', NEW k \in DOMAIN out', j < k
        PROVE  out'[j] < out'[k]
    <3>1. j \in DOMAIN out /\ out'[j] = out[j]
      BY <2>4, <2>8
    <3>2. CASE k \in DOMAIN out /\ out'[k] = out[k]
      BY <2>8, <3>1, <3>2 DEF OneByOne
    <3>3. CASE out'[k] = s
      BY <2>3, <3>1, <3>3
    <3> QED BY <2>6, <3>2, <3>3
  <2> QED BY <2>1, <2>3, <2>7, <2>8 DEF OneByOne, Late
<1>2. ASSUME NEW s \in Sends, SubmitCommand(s) \/ SendUnsupported(s)
      PROVE  OneByOne' /\ FalseSuccessIsLate'
  <2>1. PICK result \in {"pending", "error"} :
           /\ NextSend(s) /\ UNCHANGED <<out, length, transferred>>
           /\ outcome' = [outcome EXCEPT ![s] = result]
           /\ result = "pending" => caller' = "commanding"
    BY <1>2 DEF SubmitCommand, SendUnsupported
  <2>2. /\ FalseSuccessIsLate'
        /\ \A a, b \in Sends : a < b /\ outcome'[b] # "none" => outcome'[a] \in Returned
        /\ \A r \in Sends : outcome'[r] = "pending" => caller' \in {"sending", "commanding"}
        /\ \A k \in DOMAIN out : /\ outcome'[out[k]] \notin {"none", "pending"}
                                 /\ Late(outcome', out[k])
    BY <2>1, BeginKeeps
  <2>3. /\ \A j, k \in DOMAIN out' : j < k => out'[j] < out'[k]
        /\ \A k \in DOMAIN out' : /\ outcome'[out'[k]] \notin {"none", "pending"}
                                  /\ Late(outcome', out'[k])
    BY <2>1, <2>2 DEF OneByOne
  <2> QED BY <2>2, <2>3 DEF OneByOne, Late
<1>3. ASSUME NEW s \in Sends, CommandReturns(s)
      PROVE  OneByOne' /\ FalseSuccessIsLate'
  <2>1. /\ caller = "commanding" /\ outcome[s] = "pending" /\ caller' = "ready"
        /\ UNCHANGED <<out, length, transferred>>
        /\ outcome' = [outcome EXCEPT ![s] = IF s \in transferred THEN "ok" ELSE "error"]
    BY <1>3 DEF CommandReturns, Returns
  <2>2. \A k \in DOMAIN out : out[k] # s
    BY <2>1 DEF OneByOne
  <2>3. PICK result \in Returned : /\ outcome' = [outcome EXCEPT ![s] = result]
                                   /\ result = "ok" => s \in transferred
    BY <2>1 DEF Returned
  <2> QED BY <2>1, <2>2, <2>3, ReturnKeeps
<1>4. ASSUME NEW s \in Sends, SendTimeout(s)
      PROVE  OneByOne' /\ FalseSuccessIsLate'
  <2>1. /\ outcome[s] = "pending" /\ caller' = "ready"
        /\ UNCHANGED <<out, length, transferred>>
        /\ outcome' = [outcome EXCEPT ![s] = "timeout"]
    BY <1>4 DEF SendTimeout, Returns
  <2>2. PICK result \in Returned : result = "timeout"
    BY DEF Returned
  <2> QED BY <2>1, <2>2, ReturnKeeps
<1>5. ASSUME NEW s \in Sends, ReapAcl(s)
      PROVE  OneByOne' /\ FalseSuccessIsLate'
  <2>1. /\ outcome[s] = "pending" /\ out # << >> /\ caller' = "ready" /\ out' = Tail(out)
        /\ UNCHANGED <<length, transferred>>
        /\ outcome' = [outcome EXCEPT ![s] = IF Accepted(s) THEN "ok" ELSE "error"]
    BY <1>5 DEF ReapAcl, Returns, OldestComplete
  <2>2. PICK result \in {"ok", "error"} : /\ outcome' = [outcome EXCEPT ![s] = result]
                                          /\ result = "ok" => Accepted(s)
    BY <2>1
  <2> QED BY <2>1, <2>2, ReapKeeps DEF Accepted
<1>6. CASE \/ Open \/ OpenFails \/ Remove \/ TestStop \/ Receive \/ DropTransport \/ Join
           \/ Terminated
           \/ \E ep \in Endpoints :
                 \/ Complete(ep) \/ Wait(ep) \/ NothingFetched(ep) \/ Fetched(ep)
                 \/ FetchedNothing(ep) \/ FetchFailed(ep)
  <2>1. /\ UNCHANGED <<out, length, outcome, transferred>>
        /\ caller \in {"sending", "commanding"} => caller' = caller
    BY <1>6 DEF Open, OpenFails, Remove, TestStop, Receive, DropTransport, Join, Terminated,
       Complete, Wait, NothingFetched, Fetched, FetchedNothing, FetchFailed, vars, sendVars
  <2> QED BY <2>1, SendsKept
<1>7. CASE CompleteOut \/ \E s \in Sends : CompleteCommand(s)
  <2>1. UNCHANGED <<out, length, outcome, caller>> /\ transferred \subseteq transferred'
    BY <1>7 DEF CompleteOut, CompleteCommand
  <2> QED BY <2>1, SendsKept
<1> QED BY <1>1, <1>2, <1>3, <1>4, <1>5, <1>6, <1>7
        DEF Next, RxWorker, Controller, Caller

-----------------------------------------------------------------------------
(* The theorems *)

\* The whole invariant is kept by every step.
LEMMA InvariantStep == NusbInvariant /\ [Next]_vars => NusbInvariant'
<1>1. ASSUME NusbInvariant, Next
      PROVE  NusbInvariant'
  BY <1>1, TypeStep, RoundsStep, AccountStep, SendStep DEF NusbInvariant
<1>2. ASSUME NusbInvariant, UNCHANGED vars
      PROVE  NusbInvariant'
  <2>1. Numbered(Flow)' /\ Counted'
    <3>1. Flow' = Flow
      BY <1>2 DEF vars, rxVars, Flow
    <3>2. \A ep : Pending(ep)' = Pending(ep)
      BY <1>2 DEF vars, rxVars, Pending
    <3> QED BY <1>2, <3>1, <3>2 DEF NusbInvariant, Counted, vars, rxVars
  <2>2. TypeOK' /\ Rounds'
    BY <1>2 DEF NusbInvariant, TypeOK, Rounds, vars, rxVars, sendVars
  <2>3. OneByOne' /\ FalseSuccessIsLate'
    BY <1>2, SendsKept DEF NusbInvariant, vars, sendVars
  <2> QED BY <2>1, <2>2, <2>3 DEF NusbInvariant
<1> QED BY <1>1, <1>2

\* So it holds in every state.
LEMMA InvariantHolds == Spec => []NusbInvariant
BY InvariantInit, InvariantStep, PTL DEF Spec

\* Every variable keeps its type: in particular the channel never holds more
\* than its capacity, and a packet is given a number the controller produced.
THEOREM TypeCorrect == Spec => []TypeOK
<1>1. NusbInvariant => TypeOK
  BY DEF NusbInvariant
<1> QED BY <1>1, InvariantHolds, PTL

\* What receive() returns of an endpoint is a gapless prefix of what the
\* controller produced there, and nothing follows an error.
THEOREM PacketsArriveInOrder == Spec => []GaplessUntilError
<1>1. NusbInvariant => GaplessUntilError
  <2> SUFFICES ASSUME NusbInvariant
               PROVE  GaplessUntilError
    OBVIOUS
  <2>1. Numbered(log) /\ DOMAIN log = 1 .. Len(log) /\ Len(log) \in Nat
    BY FlowType, NumberedPrefix, LenProperties DEF NusbInvariant, Flow
  <2>2. \A i \in DOMAIN log : \A j \in 1 .. i - 1 : j \in DOMAIN log /\ j < i
    BY <2>1
  <2> QED BY <2>1, <2>2 DEF GaplessUntilError, Numbered, Count, Kinds, Received
<1> QED BY <1>1, InvariantHolds, PTL

\* A packet reaches the caller before one event of the other endpoint at most
\* that completed earlier: the worker handles both transfers in every round.
THEOREM AclOvertakesOneEvent == Spec => []OvertakesOneEvent
<1>1. NusbInvariant => OvertakesOneEvent
  <2> SUFFICES ASSUME NusbInvariant
               PROVE  OvertakesOneEvent
    OBVIOUS
  <2>1. Numbered(log) /\ log \in Seq(Item) /\ DOMAIN log = 1 .. Len(log) /\ Len(log) \in Nat
    BY FlowType, NumberedPrefix, LenProperties DEF NusbInvariant, Flow
  <2>2. ASSUME NEW i \in DOMAIN log
        PROVE  Received(i - 1, "event") >= log[i].earlier - 1
    <3>1. log[i].earlier - 1 <= Count(log, i - 1, "event")
      BY <2>1 DEF Numbered
    <3>2. Count(log, i - 1, "event") = Received(i - 1, "event")
      BY DEF Count, Kinds, Received
    <3> QED BY <3>1, <3>2
  <2> QED BY <2>2 DEF OvertakesOneEvent
<1> QED BY <1>1, InvariantHolds, PTL

\* A send reports the success of a packet that is not taken only after a
\* time-out, and only on the completion of an earlier packet of its length.
THEOREM FalseSuccessOnlyLate == Spec => []FalseSuccessIsLate
<1>1. NusbInvariant => FalseSuccessIsLate
  BY DEF NusbInvariant
<1> QED BY <1>1, InvariantHolds, PTL
=============================================================================
