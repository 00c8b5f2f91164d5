------------------------- MODULE DeclarationsProofs -------------------------
(***************************************************************************)
(* Proofs about Declarations, for any characteristics, names and limits:   *)
(* the handle BTstack asks about and the UUID the application names lead to*)
(* the same characteristic; and a central that reads the advertising       *)
(* payload structure by structure finds what the application asked for.    *)
(***************************************************************************)
EXTENDS Declarations, TLAPS, SequenceTheorems, FiniteSetTheorems

-----------------------------------------------------------------------------
(* The inductive invariant                                                 *)

Row == [role : {"static", "value", "cccd"}, uuid : Uuids \cup {"none"}]

Attribute == [handle : Nat, uuid : Uuids, notify : BOOLEAN]

TablesTyped ==
    /\ services \in Seq(Seq(Characteristic))
    /\ at \in Nat \X Nat
    /\ database \in Seq(Row)
    /\ attributes \in Seq(Attribute)

\* A position the worker has passed.
Before(p) == p[1] < at[1] \/ (p[1] = at[1] /\ p[2] < at[2])

\* Nothing is registered before validate() accepted the declaration, and then
\* what was registered was declared at a position passed.
Registering ==
    /\ phase \in {"building", "refused"} => attributes = <<>> /\ database = <<>>
    /\ phase = "registering" =>
          /\ at[1] >= 1 /\ UniqueUuids
          /\ \A i \in DOMAIN attributes :
                \E p \in Positions : Before(p) /\ At(p).uuid = attributes[i].uuid

\* An attribute has its value in the database, and its CCCD behind it; every
\* value and CCCD there is that of an attribute; no UUID has two.
Linked ==
    /\ \A i \in DOMAIN attributes :
          /\ attributes[i].handle \in DOMAIN database
          /\ database[attributes[i].handle] = [role |-> "value", uuid |-> attributes[i].uuid]
          /\ attributes[i].notify =>
                /\ attributes[i].handle + 1 \in DOMAIN database
                /\ database[attributes[i].handle + 1] = [role |-> "cccd", uuid |-> attributes[i].uuid]
    /\ \A k \in DOMAIN database : database[k].role # "static" =>
          \E i \in DOMAIN attributes :
              /\ attributes[i].uuid = database[k].uuid
              /\ IF database[k].role = "value" THEN attributes[i].handle = k
                 ELSE attributes[i].notify /\ attributes[i].handle + 1 = k
    /\ \A i, j \in DOMAIN attributes : i # j => attributes[i].uuid # attributes[j].uuid

TableInvariant == TablesTyped /\ Registering /\ Linked

\* Nothing is registered at first.
LEMMA TableInit == Init => TableInvariant
<1> SUFFICES ASSUME Init
             PROVE  TableInvariant
  OBVIOUS
<1>1. TablesTyped
  BY EmptySeq DEF Init, TablesTyped
<1>2. Registering
  BY DEF Init, Registering
<1>3. Linked
  BY EmptySeq DEF Init, Linked
<1> QED BY <1>1, <1>2, <1>3 DEF TableInvariant

\* A list of declarable characteristics is one.
LEMMA ListsTyped == \A cs \in Lists(Declarable) : cs \in Seq(Characteristic)
<1> SUFFICES ASSUME NEW n \in 0 .. 2, NEW cs \in [1 .. n -> Declarable]
             PROVE  cs \in Seq(Characteristic)
  BY DEF Lists
<1>1. cs \in Seq(Declarable)
  BY SeqDef
<1> QED BY <1>1, DeclarationsAssumption, SeqMonotonic

-----------------------------------------------------------------------------
(* Steps *)

\* What follows when nothing but the phase changes, or nothing registered does.
LEMMA TablesKept ==
    ASSUME TableInvariant, UNCHANGED <<services, at, attributes, database>>,
           phase' = phase \/ (phase = "building" /\ phase' = "refused")
                          \/ phase' = "started"
    PROVE  TableInvariant'
<1>1. TablesTyped'
  BY DEF TableInvariant, TablesTyped
<1>2. Registering'
  BY DEF TableInvariant, Registering, UniqueUuids, Positions, At, Before
<1>3. Linked'
  BY DEF TableInvariant, Linked
<1> QED BY <1>1, <1>2, <1>3 DEF TableInvariant

\* The builder runs before anything is registered.
LEMMA BuilderKeeps ==
    ASSUME TableInvariant, Building, services' \in Seq(Seq(Characteristic))
    PROVE  TableInvariant'
<1>1. /\ phase = "building" /\ phase' = "building"
      /\ UNCHANGED <<at, attributes, database>>
  BY DEF Building
<1>2. TablesTyped'
  BY <1>1 DEF TableInvariant, TablesTyped
<1>3. Registering'
  BY <1>1 DEF TableInvariant, Registering
<1>4. Linked'
  BY <1>1 DEF TableInvariant, Linked
<1> QED BY <1>2, <1>3, <1>4 DEF TableInvariant

\* The rows of a characteristic.
LEMMA EntriesAre ==
    ASSUME NEW c \in Characteristic
    PROVE  /\ Entries(c) \in Seq(Row)
           /\ Len(Entries(c)) = IF "notify" \in c.properties THEN 3 ELSE 2
           /\ Entries(c)[1] = Static
           /\ Entries(c)[2] = [role |-> "value", uuid |-> c.uuid]
           /\ "notify" \in c.properties => Entries(c)[3] = [role |-> "cccd", uuid |-> c.uuid]
<1> DEFINE v == [role |-> "value", uuid |-> c.uuid]
           d == [role |-> "cccd", uuid |-> c.uuid]
<1>1. Static \in Row /\ v \in Row /\ d \in Row
  BY DEF Static, Row, Characteristic
<1> HIDE DEF v, d
<1>2. /\ <<Static, v>> \in Seq(Row) /\ Len(<<Static, v>>) = 2
      /\ <<Static, v>>[1] = Static /\ <<Static, v>>[2] = v
  BY <1>1
<1>3. <<d>> \in Seq(Row) /\ Len(<<d>>) = 1 /\ <<d>>[1] = d
  BY <1>1
<1>4. CASE "notify" \in c.properties
  <2>1. Entries(c) = <<Static, v>> \o <<d>>
    BY <1>4 DEF Entries, v, d
  <2>2. /\ <<Static, v>> \o <<d>> \in Seq(Row) /\ Len(<<Static, v>> \o <<d>>) = 3
        /\ \A i \in 1 .. 3 : (<<Static, v>> \o <<d>>)[i]
                               = IF i <= 2 THEN <<Static, v>>[i] ELSE <<d>>[i - 2]
    BY <1>2, <1>3, ConcatProperties
  <2> QED BY <1>2, <1>3, <1>4, <2>1, <2>2 DEF v, d
<1>5. CASE "notify" \notin c.properties
  <2>1. Entries(c) = <<Static, v>> \o <<>>
    BY <1>5 DEF Entries, v
  <2>2. <<Static, v>> \o <<>> = <<Static, v>>
    BY <1>2, ConcatEmptySeq
  <2> QED BY <1>2, <1>5, <2>1, <2>2 DEF v
<1> QED BY <1>4, <1>5

\* A service adds one row, which is no attribute.
LEMMA ServiceKeeps ==
    ASSUME TableInvariant, RegisterService
    PROVE  TableInvariant'
<1>1. /\ database \in Seq(Row) /\ Static \in Row /\ Static.role = "static"
      /\ database' = Append(database, Static) /\ at' = <<at[1], 1>> /\ at[2] = 0
      /\ phase = "registering" /\ phase' = "registering"
      /\ UNCHANGED <<services, attributes>>
      /\ at[1] \in Nat /\ attributes \in Seq(Attribute)
  BY DEF TableInvariant, TablesTyped, RegisterService, builder, Static, Row
<1>2. /\ database' \in Seq(Row) /\ Len(database) \in Nat
      /\ DOMAIN database = 1 .. Len(database) /\ DOMAIN database' = 1 .. Len(database) + 1
      /\ database'[Len(database) + 1] = Static
      /\ \A k \in DOMAIN database : k \in DOMAIN database' /\ database'[k] = database[k]
      /\ \A k \in DOMAIN database' : k \in DOMAIN database \/ database'[k] = Static
  <2>1. /\ database' \in Seq(Row) /\ Len(database) \in Nat /\ Len(database') = Len(database) + 1
        /\ database'[Len(database) + 1] = Static
        /\ \A k \in 1 .. Len(database) : database'[k] = database[k]
    BY <1>1, AppendProperties, LenProperties
  <2>2. DOMAIN database = 1 .. Len(database) /\ DOMAIN database' = 1 .. Len(database')
    BY <1>1, <2>1, LenProperties
  <2> QED BY <2>1, <2>2
<1>3. TablesTyped'
  BY <1>1, <1>2 DEF TableInvariant, TablesTyped
<1>4. Registering'
  <2>1. at'[1] = at[1] /\ at'[2] = 1
    BY <1>1
  <2>2. at[1] >= 1 /\ UniqueUuids
    BY <1>1 DEF TableInvariant, Registering
  <2>3. UniqueUuids' /\ Positions' = Positions /\ \A p : At(p)' = At(p)
    BY <1>1, <2>2 DEF UniqueUuids, Positions, At
  <2>4. \A p \in Positions : Before(p) => Before(p)'
    <3>1. \A p \in Positions : p[2] \in Nat
      BY <1>1, LenProperties DEF Positions, TableInvariant, TablesTyped
    <3> QED BY <1>1, <2>1, <3>1 DEF Before
  <2> QED BY <1>1, <2>1, <2>2, <2>3, <2>4 DEF TableInvariant, Registering
<1>5. Linked'
  <2>1. Linked
    BY DEF TableInvariant
  <2>2. ASSUME NEW i \in DOMAIN attributes'
        PROVE  /\ attributes'[i].handle \in DOMAIN database'
               /\ database'[attributes'[i].handle] = [role |-> "value", uuid |-> attributes'[i].uuid]
               /\ attributes'[i].notify =>
                     /\ attributes'[i].handle + 1 \in DOMAIN database'
                     /\ database'[attributes'[i].handle + 1] = [role |-> "cccd", uuid |-> attributes'[i].uuid]
    BY <1>1, <1>2, <2>1 DEF Linked
  <2>3. ASSUME NEW k \in DOMAIN database', database'[k].role # "static"
        PROVE  \E i \in DOMAIN attributes' :
                  /\ attributes'[i].uuid = database'[k].uuid
                  /\ IF database'[k].role = "value" THEN attributes'[i].handle = k
                     ELSE attributes'[i].notify /\ attributes'[i].handle + 1 = k
    BY <1>1, <1>2, <2>1, <2>3 DEF Linked
  <2>4. \A i, j \in DOMAIN attributes' : i # j => attributes'[i].uuid # attributes'[j].uuid
    BY <1>1, <2>1 DEF Linked
  <2> QED BY <2>2, <2>3, <2>4 DEF Linked
<1> QED BY <1>3, <1>4, <1>5 DEF TableInvariant

\* A characteristic adds its value, and its CCCD right behind it, under a UUID
\* that no characteristic before it has.
LEMMA CharacteristicKeeps ==
    ASSUME TableInvariant, RegisterCharacteristic
    PROVE  TableInvariant'
<1> DEFINE c == At(at)
           n == Len(database)
           m == Len(attributes)
           a == [handle |-> n + 2, uuid |-> c.uuid, notify |-> "notify" \in c.properties]
<1>1. /\ database \in Seq(Row) /\ attributes \in Seq(Attribute)
      /\ at[1] \in Nat /\ at[2] \in Nat /\ n \in Nat /\ m \in Nat
      /\ phase = "registering" /\ phase' = "registering" /\ UNCHANGED services
      /\ at[1] >= 1 /\ at[1] <= Len(services) /\ at[2] \in DOMAIN services[at[1]]
      /\ database' = database \o Entries(c) /\ attributes' = Append(attributes, a)
  BY LenProperties DEF TableInvariant, TablesTyped, Registering, RegisterCharacteristic, builder,
     ValueHandle
<1>2. at \in Positions /\ c \in Characteristic
  <2>1. services \in Seq(Seq(Characteristic)) /\ at = <<at[1], at[2]>>
    BY DEF TableInvariant, TablesTyped
  <2>2. at[1] \in DOMAIN services /\ services[at[1]] \in Seq(Characteristic)
    <3>1. at[1] \in 1 .. Len(services)
      BY <1>1, <2>1, LenProperties
    <3> QED BY <2>1, <3>1, LenProperties, ElementOfSeq
  <2>3. services[at[1]][at[2]] \in Characteristic
    BY <1>1, <2>2, LenProperties, ElementOfSeq
  <2>4. at \in Positions
    BY <1>1, <2>1, <2>2 DEF Positions
  <2> QED BY <2>3, <2>4 DEF At
<1>3. /\ a \in Attribute /\ a.handle = n + 2 /\ a.uuid = c.uuid
      /\ a.notify = ("notify" \in c.properties)
  BY <1>1, <1>2 DEF Attribute, Characteristic
<1>4. /\ database' \in Seq(Row) /\ DOMAIN database = 1 .. n
      /\ DOMAIN database' = 1 .. n + (IF a.notify THEN 3 ELSE 2)
      /\ \A k \in 1 .. n : database'[k] = database[k]
      /\ database'[n + 1] = Static
      /\ database'[n + 2] = [role |-> "value", uuid |-> c.uuid]
      /\ a.notify => database'[n + 3] = [role |-> "cccd", uuid |-> c.uuid]
  <2> DEFINE e == Entries(c)
  <2>1. /\ e \in Seq(Row) /\ Len(e) = (IF a.notify THEN 3 ELSE 2)
        /\ e[1] = Static /\ e[2] = [role |-> "value", uuid |-> c.uuid]
        /\ a.notify => e[3] = [role |-> "cccd", uuid |-> c.uuid]
    BY <1>2, <1>3, EntriesAre
  <2> HIDE DEF e, a, c
  <2>0. database \in Seq(Row) /\ e \in Seq(Row)
    BY <1>1, <2>1
  <2>2. /\ database \o e \in Seq(Row) /\ Len(database \o e) = n + Len(e)
        /\ \A k \in 1 .. n + Len(e) : (database \o e)[k] = IF k <= n THEN database[k] ELSE e[k - n]
    BY <2>0, ConcatProperties, Zenon
  <2>3. DOMAIN database = 1 .. n /\ DOMAIN (database \o e) = 1 .. n + Len(e)
    BY <1>1, <2>2, LenProperties
  <2>4. database' = database \o e
    BY <1>1 DEF e, c
  <2>5. \A k \in 1 .. n : database'[k] = database[k]
    BY <1>1, <2>1, <2>2, <2>4
  <2>6. /\ database'[n + 1] = e[1] /\ database'[n + 2] = e[2]
        /\ a.notify => database'[n + 3] = e[3]
    <3>1. n \in Nat /\ Len(e) \in Nat /\ Len(e) >= 2 /\ (a.notify => Len(e) = 3)
      BY <1>1, <2>1
    <3>2. \A k \in 1 .. n + Len(e) : ~(k <= n) => database'[k] = e[k - n]
      BY <2>2, <2>4
    <3> HIDE DEF n
    <3>3. \A j \in 1 .. Len(e) : n + j \in 1 .. n + Len(e) /\ ~(n + j <= n) /\ (n + j) - n = j
      BY <3>1
    <3>4. \A j \in 1 .. Len(e) : database'[n + j] = e[j]
      BY <3>2, <3>3, Zenon
    <3>5. 1 \in 1 .. Len(e) /\ 2 \in 1 .. Len(e) /\ (a.notify => 3 \in 1 .. Len(e))
      BY <3>1
    <3> QED BY <3>4, <3>5, Zenon
  <2> QED BY <2>1, <2>2, <2>3, <2>4, <2>5, <2>6
<1>5. /\ attributes' \in Seq(Attribute) /\ DOMAIN attributes = 1 .. m /\ DOMAIN attributes' = 1 .. m + 1
      /\ attributes'[m + 1] = a
      /\ \A i \in 1 .. m : attributes'[i] = attributes[i]
  <2> HIDE DEF a
  <2>1. /\ attributes' \in Seq(Attribute) /\ Len(attributes') = m + 1
        /\ attributes'[m + 1] = a
        /\ \A i \in 1 .. m : attributes'[i] = attributes[i]
    <3>1. attributes \in Seq(Attribute) /\ a \in Attribute
      BY <1>1, <1>3
    <3>2. /\ Append(attributes, a) \in Seq(Attribute) /\ Len(Append(attributes, a)) = m + 1
          /\ \A i \in 1 .. m : Append(attributes, a)[i] = attributes[i]
          /\ Append(attributes, a)[m + 1] = a
      BY <3>1, AppendProperties
    <3>3. attributes' = Append(attributes, a)
      BY <1>1
    <3> QED BY <3>2, <3>3, Zenon
  <2>2. m \in Nat /\ attributes \in Seq(Attribute)
    BY <1>1
  <2> HIDE DEF m
  <2>3. DOMAIN attributes = 1 .. m
    BY <2>2, LenProperties DEF m
  <2>4. DOMAIN attributes' = 1 .. m + 1
    BY <2>1, LenProperties
  <2> QED BY <2>1, <2>3, <2>4
<1>6. PICK p0 \in Nat \X Nat : p0 = at
  BY <1>1 DEF TableInvariant, TablesTyped
<1>7. /\ at' \in Nat \X Nat /\ at'[1] >= 1 /\ Before(p0)'
      /\ \A p \in Positions : Before(p) => Before(p)' /\ p # p0
  <2>1. at' = <<at[1], at[2] + 1>> \/ at' = <<at[1] + 1, 0>>
    BY DEF RegisterCharacteristic
  <2>2. \A p \in Positions : p[1] \in Nat /\ p[2] \in Nat
    <3>1. services \in Seq(Seq(Characteristic))
      BY DEF TableInvariant, TablesTyped
    <3> HIDE DEF a, c, n, m
    <3>2. \A i \in DOMAIN services : services[i] \in Seq(Characteristic) /\ i \in Nat
      BY <3>1, LenProperties, ElementOfSeq
    <3>3. ASSUME NEW i \in DOMAIN services, NEW j \in DOMAIN services[i] PROVE j \in Nat
      BY <3>2, LenProperties
    <3> QED BY <3>2, <3>3 DEF Positions
  <2>a. at[1] \in Nat /\ at[2] \in Nat /\ at[1] >= 1
    BY <1>1
  <2> HIDE DEF a, c, n, m
  <2>5. /\ at'[1] = at[1] + 1 \/ (at'[1] = at[1] /\ at'[2] = at[2] + 1)
        /\ at'[1] \in Nat /\ at'[2] \in Nat
    <3>1. CASE at' = <<at[1], at[2] + 1>>
      BY <2>a, <3>1
    <3>2. CASE at' = <<at[1] + 1, 0>>
      BY <2>a, <3>2
    <3> QED BY <2>1, <3>1, <3>2
  <2>3. Before(p0)'
    <3>1. at[1] < at'[1] \/ (at[1] = at'[1] /\ at[2] < at'[2])
      BY <2>a, <2>5
    <3> QED BY <1>6, <3>1 DEF Before
  <2>4. at' \in Nat \X Nat /\ at'[1] >= 1
    <3>1. at' = <<at'[1], at'[2]>>
      BY <2>1
    <3>2. at'[1] >= 1
      BY <2>a, <2>5
    <3> QED BY <2>5, <3>1, <3>2
  <2>6. ASSUME NEW p \in Positions, Before(p) PROVE Before(p)' /\ p # p0
    <3>1. p[1] < at[1] \/ (p[1] = at[1] /\ p[2] < at[2])
      BY <2>6 DEF Before
    <3>2. p[1] \in Nat /\ p[2] \in Nat
      BY <2>2
    <3>3. p # at
      BY <2>a, <3>1, <3>2
    <3>4. p[1] < at'[1] \/ (p[1] = at'[1] /\ p[2] < at'[2])
      BY <2>a, <2>5, <3>1, <3>2
    <3> QED BY <1>6, <3>3, <3>4 DEF Before
  <2> QED BY <2>3, <2>4, <2>6
<1>8. Positions' = Positions /\ (\A p : At(p)' = At(p)) /\ UniqueUuids /\ UniqueUuids'
  <2>1. Positions' = Positions /\ \A p : At(p)' = At(p)
    BY <1>1 DEF Positions, At
  <2>2. UniqueUuids
    BY <1>1 DEF TableInvariant, Registering
  <2> QED BY <2>1, <2>2 DEF UniqueUuids
<1>9. /\ \A i \in DOMAIN attributes : \E p \in Positions : Before(p) /\ At(p).uuid = attributes[i].uuid
      /\ p0 \in Positions /\ At(p0).uuid = a.uuid
  BY <1>1, <1>2, <1>3, <1>6 DEF TableInvariant, Registering
<1>10. \A i \in DOMAIN attributes : attributes[i].uuid # a.uuid
  <2> HIDE DEF a
  <2> QED BY <1>7, <1>8, <1>9 DEF UniqueUuids
<1>11. Static.role = "static"
  BY DEF Static
<1>12. Linked
  BY DEF TableInvariant
<1> HIDE DEF a, c, n, m
<1>13. TablesTyped'
  BY <1>1, <1>4, <1>5, <1>7 DEF TableInvariant, TablesTyped
<1>14. Registering'
  <2>1. ASSUME NEW i \in DOMAIN attributes'
        PROVE  \E p \in Positions : Before(p)' /\ At(p).uuid = attributes'[i].uuid
    <3>1. CASE i \in DOMAIN attributes
      BY <1>5, <1>7, <1>9, <3>1
    <3>2. CASE i = m + 1
      BY <1>5, <1>7, <1>9, <3>2
    <3>3. i \in DOMAIN attributes \/ i = m + 1
      BY <1>1, <1>5
    <3> QED BY <3>1, <3>2, <3>3
  <2> QED BY <1>1, <1>7, <1>8, <2>1 DEF Registering
<1>15. Linked'
  <2>1. ASSUME NEW i \in DOMAIN attributes'
        PROVE  /\ attributes'[i].handle \in DOMAIN database'
               /\ database'[attributes'[i].handle] = [role |-> "value", uuid |-> attributes'[i].uuid]
               /\ attributes'[i].notify =>
                     /\ attributes'[i].handle + 1 \in DOMAIN database'
                     /\ database'[attributes'[i].handle + 1] = [role |-> "cccd", uuid |-> attributes'[i].uuid]
    <3>1. CASE i \in DOMAIN attributes
      <4>1. attributes'[i] = attributes[i]
        BY <1>5, <3>1
      <4>2. /\ attributes[i].handle \in DOMAIN database
            /\ database[attributes[i].handle] = [role |-> "value", uuid |-> attributes[i].uuid]
            /\ attributes[i].notify =>
                  /\ attributes[i].handle + 1 \in DOMAIN database
                  /\ database[attributes[i].handle + 1] = [role |-> "cccd", uuid |-> attributes[i].uuid]
        BY <1>12, <3>1 DEF Linked
      <4>3. \A k \in DOMAIN database : k \in DOMAIN database' /\ database'[k] = database[k]
        BY <1>1, <1>4
      <4> QED BY <4>1, <4>2, <4>3
    <3>2. CASE i = m + 1
      <4>1. attributes'[i] = a
        BY <1>5, <3>2
      <4>2. n + 2 + 1 = n + 3 /\ n + 2 \in DOMAIN database' /\ (a.notify => n + 3 \in DOMAIN database')
        <5>1. n \in Nat /\ DOMAIN database' = 1 .. n + (IF a.notify THEN 3 ELSE 2)
          BY <1>1, <1>4, Zenon
        <5> HIDE DEF n, a
        <5> QED BY <5>1
      <4> QED BY <1>3, <1>4, <4>1, <4>2
    <3>3. i \in DOMAIN attributes \/ i = m + 1
      <4>1. m \in Nat /\ DOMAIN attributes = 1 .. m /\ i \in 1 .. m + 1
        BY <1>1, <1>5
      <4> HIDE DEF m, a, n
      <4> QED BY <4>1
    <3> QED BY <3>1, <3>2, <3>3
  <2>2. ASSUME NEW k \in DOMAIN database', database'[k].role # "static"
        PROVE  \E i \in DOMAIN attributes' :
                  /\ attributes'[i].uuid = database'[k].uuid
                  /\ IF database'[k].role = "value" THEN attributes'[i].handle = k
                     ELSE attributes'[i].notify /\ attributes'[i].handle + 1 = k
    <3>1. CASE k \in DOMAIN database
      <4>1. database'[k] = database[k]
        BY <1>4, <3>1
      <4>2. PICK i \in DOMAIN attributes :
               /\ attributes[i].uuid = database[k].uuid
               /\ IF database[k].role = "value" THEN attributes[i].handle = k
                  ELSE attributes[i].notify /\ attributes[i].handle + 1 = k
        BY <1>12, <2>2, <3>1, <4>1 DEF Linked
      <4>3. i \in DOMAIN attributes' /\ attributes'[i] = attributes[i]
        BY <1>1, <1>5
      <4> QED BY <4>1, <4>2, <4>3
    <3>2. CASE k \notin DOMAIN database
      <4>1. k # n + 1
        BY <1>4, <1>11, <2>2
      <4>2. k = n + 2 \/ (a.notify /\ k = n + 3)
        <5>0. n \in Nat
          BY <1>1
        <5>1. CASE a.notify
          <6>1. k \in 1 .. n + 3 /\ k \notin 1 .. n
            BY <1>4, <3>2, <5>1
          <6>2. k = n + 2 \/ k = n + 3
            BY <5>0, <4>1, <6>1
          <6> QED BY <5>1, <6>2
        <5>2. CASE ~ a.notify
          <6>1. k \in 1 .. n + 2 /\ k \notin 1 .. n
            BY <1>4, <3>2, <5>2
          <6> QED BY <5>0, <4>1, <6>1
        <5> QED BY <5>1, <5>2
      <4>3. m + 1 \in DOMAIN attributes' /\ attributes'[m + 1] = a
        BY <1>1, <1>5
      <4>4. CASE k = n + 2
        BY <1>3, <1>4, <4>3, <4>4
      <4>5. CASE a.notify /\ k = n + 3
        <5>1. n + 2 + 1 = n + 3
          BY <1>1
        <5> QED BY <1>3, <1>4, <4>3, <4>5, <5>1
      <4> QED BY <4>2, <4>4, <4>5
    <3> QED BY <3>1, <3>2
  <2>3. ASSUME NEW i \in DOMAIN attributes', NEW j \in DOMAIN attributes', i # j
        PROVE  attributes'[i].uuid # attributes'[j].uuid
    <3>1. \A x \in DOMAIN attributes' : (x \in DOMAIN attributes /\ attributes'[x] = attributes[x])
                                         \/ (x = m + 1 /\ attributes'[x] = a)
      BY <1>1, <1>5
    <3> QED BY <1>10, <1>12, <2>3, <3>1 DEF Linked
  <2> QED BY <2>1, <2>2, <2>3 DEF Linked
<1> QED BY <1>13, <1>14, <1>15 DEF TableInvariant

\* The tables are right in every state.
LEMMA TableStep == TableInvariant /\ [Next]_vars => TableInvariant'
<1> SUFFICES ASSUME TableInvariant, [Next]_vars
             PROVE  TableInvariant'
  OBVIOUS
<1>1. services \in Seq(Seq(Characteristic))
  BY DEF TableInvariant, TablesTyped
<1>2. ASSUME NEW n \in NameLengths, Name(n)
      PROVE  TableInvariant'
  BY <1>1, <1>2, BuilderKeeps DEF Name
<1>3. ASSUME NEW cs \in Lists(Declarable), Service(cs)
      PROVE  TableInvariant'
  <2>1. cs \in Seq(Characteristic) /\ services' = Append(services, cs) /\ Building
    BY <1>3, ListsTyped DEF Service
  <2>2. services' \in Seq(Seq(Characteristic))
    BY <1>1, <2>1, AppendProperties
  <2> QED BY <2>1, <2>2, BuilderKeeps
<1>4. ASSUME NEW n, NEW u, AdvertisingData(n, <<>>) \/ AdvertisingData(n, <<u>>) \/ AdvertiseServiceUuid(u)
      PROVE  TableInvariant'
  BY <1>1, <1>4, BuilderKeeps DEF AdvertisingData, AdvertiseServiceUuid, SetAdvertising
<1>5. CASE Start
  <2>1. CASE phase' = "refused" /\ UNCHANGED <<at, database>>
    BY <1>5, <2>1, TablesKept DEF Start, builder
  <2>2. CASE Valid /\ phase' = "registering" /\ at' = <<1, 0>> /\ database' = [k \in 1 .. 4 |-> Static]
    <3>1. attributes = <<>> /\ attributes' = <<>> /\ services' = services
      BY <1>5 DEF Start, builder, TableInvariant, Registering
    <3>2. /\ database' \in Seq(Row) /\ DOMAIN database' = 1 .. 4
          /\ \A k \in DOMAIN database' : database'[k].role = "static"
      <4>1. Static \in Row /\ Static.role = "static"
        BY DEF Static, Row
      <4> HIDE DEF Static
      <4>2. database' \in [1 .. 4 -> Row]
        BY <2>2, <4>1
      <4>3. database' \in Seq(Row)
        BY <4>2, SeqDef
      <4> QED BY <2>2, <4>1, <4>3
    <3>3. TablesTyped'
      BY <1>1, <2>2, <3>1, <3>2, EmptySeq DEF TablesTyped
    <3>4. UniqueUuids'
      BY <2>2, <3>1 DEF Valid, UniqueUuids, Positions, At
    <3>5. Registering'
      BY <2>2, <3>1, <3>4 DEF Registering
    <3>6. Linked'
      BY <3>1, <3>2 DEF Linked
    <3> QED BY <3>3, <3>5, <3>6 DEF TableInvariant
  <2> QED BY <1>5, <2>1, <2>2 DEF Start
<1>6. CASE Registered
  BY <1>6, TablesKept DEF Registered, builder
<1>7. CASE UNCHANGED vars
  BY <1>7, TablesKept DEF vars, builder
<1> QED BY <1>2, <1>3, <1>4, <1>5, <1>6, <1>7, ServiceKeeps, CharacteristicKeeps DEF Next

\* The handle of BTstack and the UUID of the application lead to the same, one
\* characteristic: the value handle, the CCCD behind it and the UUID agree,
\* whatever lies between the characteristics.
THEOREM LookupsAlwaysAgree == Spec => []LookupsAgree
<1>1. TableInvariant => LookupsAgree
  <2> SUFFICES ASSUME TableInvariant, NEW k \in DOMAIN database, database[k].role # "static"
               PROVE  /\ \E i \in DOMAIN attributes : attributes[i].uuid = database[k].uuid
                      /\ ByHandle(k) = ByUuid(database[k].uuid)
                      /\ (database[k].role = "value") = (attributes[ByHandle(k)].handle = k)
    BY DEF LookupsAgree
  <2>1. /\ Linked /\ k \in Nat
        /\ \A i \in DOMAIN attributes : i \in Nat /\ attributes[i].handle \in Nat
    <3>1. database \in Seq(Row) /\ attributes \in Seq(Attribute)
      BY DEF TableInvariant, TablesTyped
    <3>2. /\ DOMAIN database = 1 .. Len(database) /\ Len(database) \in Nat
          /\ DOMAIN attributes = 1 .. Len(attributes) /\ Len(attributes) \in Nat
      BY <3>1, LenProperties
    <3>3. \A i \in DOMAIN attributes : attributes[i] \in Attribute
      BY <3>1, <3>2, ElementOfSeq
    <3> QED BY <3>2, <3>3 DEF TableInvariant, Attribute
  <2>2. PICK i \in DOMAIN attributes :
           /\ attributes[i].uuid = database[k].uuid
           /\ IF database[k].role = "value" THEN attributes[i].handle = k
              ELSE attributes[i].notify /\ attributes[i].handle + 1 = k
    BY <2>1 DEF Linked
  <2>3. {j \in DOMAIN attributes : attributes[j].uuid = database[k].uuid} = {i}
    BY <2>1, <2>2 DEF Linked
  <2>4. {j \in DOMAIN attributes : \/ attributes[j].handle = k
                                   \/ attributes[j].notify /\ attributes[j].handle + 1 = k} = {i}
    <3>1. ASSUME NEW j \in DOMAIN attributes,
                 attributes[j].handle = k \/ (attributes[j].notify /\ attributes[j].handle + 1 = k)
          PROVE  j = i
      <4>1. database[k].uuid = attributes[j].uuid
        <5>1. CASE attributes[j].handle = k
          <6>1. database[k] = [role |-> "value", uuid |-> attributes[j].uuid]
            BY <2>1, <5>1 DEF Linked
          <6> QED BY <6>1
        <5>2. CASE attributes[j].notify /\ attributes[j].handle + 1 = k
          <6>1. database[k] = [role |-> "cccd", uuid |-> attributes[j].uuid]
            BY <2>1, <5>2 DEF Linked
          <6> QED BY <6>1
        <5> QED BY <3>1, <5>1, <5>2
      <4> QED BY <2>1, <2>2, <4>1 DEF Linked
    <3>2. attributes[i].handle = k \/ (attributes[i].notify /\ attributes[i].handle + 1 = k)
      BY <2>2
    <3> QED BY <3>1, <3>2
  <2>5. First({i}) = i
    BY <2>1 DEF First
  <2>6. ByHandle(k) = i /\ ByUuid(database[k].uuid) = i
    BY <2>3, <2>4, <2>5 DEF ByHandle, ByUuid
  <2>7. (database[k].role = "value") = (attributes[i].handle = k)
    <3>1. CASE database[k].role = "value"
      BY <2>2, <3>1
    <3>2. CASE database[k].role # "value"
      BY <2>1, <2>2, <3>2
    <3> QED BY <3>1, <3>2
  <2> QED BY <2>2, <2>6, <2>7
<1>2. Spec => []TableInvariant
  BY TableInit, TableStep, PTL DEF Spec
<1> QED BY <1>1, <1>2, PTL

-----------------------------------------------------------------------------
(* The payload: AD structures, each behind the byte that tells its length *)

Cell == (Uuids \cup {"byte", "name"}) \X Nat

Structure(f) == <<Byte(Len(f))>> \o f

\* The content of a structure: its type, and what it holds.
Field(t, g) == <<Byte(t)>> \o g

FlagsOf == <<Byte(1), Byte(6)>>
UuidOf(u) == Field(7, [i \in 1 .. 16 |-> <<u, 16 - i>>])
NameOf(n) == Field(9, [i \in 1 .. n |-> <<"name", i>>])

\* A number as a cell.
LEMMA ByteTyped == \A n \in Nat : Byte(n) \in Cell
BY DEF Byte, Cell

\* A structure is its length byte and its content.
LEMMA StructureIs ==
    ASSUME NEW f \in Seq(Cell)
    PROVE  /\ Structure(f) \in Seq(Cell) /\ Len(Structure(f)) = Len(f) + 1
           /\ Structure(f)[1] = Byte(Len(f))
           /\ \A i \in 1 .. Len(f) : Structure(f)[i + 1] = f[i]
<1>1. Len(f) \in Nat
  BY LenProperties
<1> DEFINE b == Byte(Len(f))
<1>2. b \in Cell
  BY <1>1, ByteTyped
<1> HIDE DEF b
<1>3. <<b>> \in Seq(Cell) /\ Len(<<b>>) = 1 /\ <<b>>[1] = b
  BY <1>2
<1>4. /\ <<b>> \o f \in Seq(Cell) /\ Len(<<b>> \o f) = 1 + Len(f)
      /\ \A i \in 1 .. 1 + Len(f) : (<<b>> \o f)[i] = IF i <= 1 THEN <<b>>[i] ELSE f[i - 1]
  BY <1>3, ConcatProperties
<1>5. (<<b>> \o f)[1] = b
  BY <1>1, <1>3, <1>4
<1>6. \A i \in 1 .. Len(f) : (<<b>> \o f)[i + 1] = f[i]
  BY <1>1, <1>4
<1> QED BY <1>1, <1>4, <1>5, <1>6 DEF Structure, b

\* A cell in front of one or two others.
LEMMA InFront ==
    ASSUME NEW x \in Cell, NEW y \in Cell, NEW z \in Cell
    PROVE  <<x>> \o <<y>> = <<x, y>> /\ <<x>> \o <<y, z>> = <<x, y, z>>
<1>1. /\ <<x>> \in Seq(Cell) /\ <<y>> \in Seq(Cell) /\ <<y, z>> \in Seq(Cell)
      /\ <<x, y>> \in Seq(Cell) /\ <<x, y, z>> \in Seq(Cell)
  OBVIOUS
<1>2. <<x>> \o <<y>> = <<x, y>>
  <2> DEFINE c == <<x>> \o <<y>>
  <2>1. c \in Seq(Cell) /\ Len(c) = 2 /\ \A i \in 1 .. 2 : c[i] = IF i <= 1 THEN <<x>>[i] ELSE <<y>>[i - 1]
    BY <1>1, ConcatProperties
  <2> HIDE DEF c
  <2>2. \A i \in 1 .. Len(c) : c[i] = <<x, y>>[i]
    BY <2>1
  <2>3. Len(c) = Len(<<x, y>>)
    BY <2>1
  <2>4. c = <<x, y>>
    BY <1>1, <2>1, <2>2, <2>3, SeqEqual
  <2> QED BY <2>4 DEF c
<1>3. <<x>> \o <<y, z>> = <<x, y, z>>
  <2> DEFINE c == <<x>> \o <<y, z>>
  <2>1. c \in Seq(Cell) /\ Len(c) = 3 /\ \A i \in 1 .. 3 : c[i] = IF i <= 1 THEN <<x>>[i] ELSE <<y, z>>[i - 1]
    BY <1>1, ConcatProperties
  <2> HIDE DEF c
  <2>2. \A i \in 1 .. Len(c) : c[i] = <<x, y, z>>[i]
    BY <2>1
  <2>3. Len(c) = Len(<<x, y, z>>)
    BY <2>1
  <2>4. c = <<x, y, z>>
    BY <1>1, <2>1, <2>2, <2>3, SeqEqual
  <2> QED BY <2>4 DEF c
<1> QED BY <1>2, <1>3

\* The contents of the three structures.
LEMMA FlagsAre == /\ FlagsOf \in Seq(Cell) /\ Len(FlagsOf) = 2 /\ FlagsOf[1] = Byte(1)
                  /\ Structure(FlagsOf) = <<Byte(2), Byte(1), Byte(6)>>
<1>1. Byte(1) \in Cell /\ Byte(2) \in Cell /\ Byte(6) \in Cell
  BY ByteTyped
<1>2. FlagsOf \in Seq(Cell) /\ Len(FlagsOf) = 2 /\ FlagsOf[1] = Byte(1)
  BY <1>1 DEF FlagsOf
<1>3. <<Byte(2)>> \o <<Byte(1), Byte(6)>> = <<Byte(2), Byte(1), Byte(6)>>
  BY <1>1, InFront
<1> QED BY <1>2, <1>3 DEF Structure, FlagsOf

\* A field of n cells behind its type.
LEMMA FieldIs ==
    ASSUME NEW n \in Nat, NEW g \in [1 .. n -> Cell], NEW t \in Nat
    PROVE  /\ Field(t, g) \in Seq(Cell) /\ Len(Field(t, g)) = n + 1 /\ Field(t, g)[1] = Byte(t)
           /\ \A i \in 1 .. n : Field(t, g)[i + 1] = g[i]
           /\ Structure(Field(t, g)) = <<Byte(n + 1), Byte(t)>> \o g
<1> DEFINE f == <<Byte(t)>> \o g
<1> DEFINE h == <<Byte(n + 1), Byte(t)>>
<1>1. g \in Seq(Cell) /\ Len(g) = n
  BY SeqDef
<1>2. Byte(t) \in Cell /\ Byte(n + 1) \in Cell
  BY ByteTyped
<1>3. /\ <<Byte(t)>> \in Seq(Cell) /\ Len(<<Byte(t)>>) = 1 /\ <<Byte(t)>>[1] = Byte(t)
      /\ <<Byte(n + 1)>> \in Seq(Cell)
      /\ <<Byte(n + 1)>> \o <<Byte(t)>> = h
  <2> DEFINE x == Byte(n + 1)
             y == Byte(t)
  <2>1. x \in Cell /\ y \in Cell
    BY <1>2
  <2> HIDE DEF x, y
  <2>2. <<x>> \o <<y>> = <<x, y>>
    BY <2>1, InFront
  <2>3. <<y>> \in Seq(Cell) /\ Len(<<y>>) = 1 /\ <<y>>[1] = y /\ <<x>> \in Seq(Cell)
    BY <2>1
  <2> QED BY <2>2, <2>3 DEF x, y
<1>4. /\ f \in Seq(Cell) /\ Len(f) = 1 + n
      /\ \A i \in 1 .. 1 + n : f[i] = IF i <= 1 THEN <<Byte(t)>>[i] ELSE g[i - 1]
  BY <1>1, <1>3, ConcatProperties
<1>5. f[1] = Byte(t) /\ \A i \in 1 .. n : f[i + 1] = g[i]
  <2> HIDE DEF f
  <2> QED BY <1>3, <1>4
<1>6. 1 + n = n + 1 /\ Len(f) = n + 1
  BY <1>4
<1>7. Structure(f) = <<Byte(n + 1)>> \o f
  BY <1>6 DEF Structure
<1>8. <<Byte(n + 1)>> \o f = h \o g
  BY <1>1, <1>3, ConcatAssociative
<1> HIDE DEF f, h
<1>9. f \in Seq(Cell) /\ Structure(f) = h \o g
  BY <1>4, <1>7, <1>8
<1>10. Field(t, g) = f
  BY DEF Field, f
<1> QED BY <1>5, <1>6, <1>9, <1>10 DEF h

\* A payload that fits.
FitsIn(payload) ==
    /\ payload.uuids \in Seq(Uuids) /\ payload.name \in Nat \cup {NoName}
    /\ Encodable(payload)

\* No more than one UUID fits.
LEMMA OneUuid ==
    ASSUME NEW p, FitsIn(p)
    PROVE  /\ p.uuids = <<>> \/ (\E u \in Uuids : p.uuids = <<u>>)
           /\ p.name = NoName \/ p.name \in Nat \ {0}
<1>1. p.uuids \in Seq(Uuids) /\ Len(p.uuids) \in Nat
  BY LenProperties DEF FitsIn
<1>2. p.name = NoName \/ p.name \in Nat \ {0}
  BY DEF FitsIn, Encodable
<1>3. NameLen(p) \in Nat
  BY <1>2 DEF NameLen
<1>4. CASE p.uuids = <<>>
  BY <1>2, <1>4
<1>5. CASE p.uuids # <<>>
  <2>1. 3 + NameLen(p) + (16 * Len(p.uuids) + 2) <= 31
    BY <1>5 DEF FitsIn, Encodable, Length, ServicesLen, Legacy
  <2>2. Len(p.uuids) = 1
    <3>1. Len(p.uuids) \in Nat \ {0}
      BY <1>1, <1>5, EmptySeq
    <3>2. \A k, n \in Nat : n # 0 /\ 3 + k + (16 * n + 2) <= 31 => n = 1
      OBVIOUS
    <3> QED BY <1>3, <2>1, <3>1, <3>2
  <2>3. p.uuids[1] \in Uuids
    BY <1>1, <2>2, ElementOfSeq
  <2>4. p.uuids = <<p.uuids[1]>>
    <3> DEFINE x == p.uuids[1]
    <3> HIDE DEF x
    <3>1. x \in Uuids
      BY <2>3 DEF x
    <3>2. <<x>> \in Seq(Uuids) /\ Len(<<x>>) = 1 /\ <<x>>[1] = x
      BY <3>1
    <3>3. \A i \in 1 .. Len(p.uuids) : p.uuids[i] = <<x>>[i]
      BY <2>2, <3>2 DEF x
    <3>4. p.uuids = <<x>>
      BY <1>1, <2>2, <3>2, <3>3, SeqEqual
    <3> QED BY <3>4 DEF x
  <2> QED BY <1>2, <2>3, <2>4
<1> QED BY <1>4, <1>5

\* The list of UUIDs, and the name, as structures.
LEMMA UuidFieldIs ==
    ASSUME NEW p, NEW u \in Uuids, p.uuids = <<u>>
    PROVE  /\ UuidField(p) = Structure(UuidOf(u))
           /\ UuidOf(u) \in Seq(Cell) /\ Len(UuidOf(u)) = 17 /\ UuidOf(u)[1] = Byte(7)
           /\ \A i \in 1 .. 16 : UuidOf(u)[i + 1] = <<u, 16 - i>>
<1> DEFINE g == [i \in 1 .. 16 |-> <<u, 16 - i>>]
<1>1. g \in [1 .. 16 -> Cell]
  BY DEF Cell
<1>2. /\ UuidOf(u) \in Seq(Cell) /\ Len(UuidOf(u)) = 16 + 1 /\ UuidOf(u)[1] = Byte(7)
      /\ \A i \in 1 .. 16 : UuidOf(u)[i + 1] = g[i]
      /\ Structure(UuidOf(u)) = <<Byte(16 + 1), Byte(7)>> \o g
  <2> HIDE DEF g
  <2>1. UuidOf(u) = Field(7, g)
    BY DEF UuidOf, g
  <2>2. PICK n \in Nat, t \in Nat : n = 16 /\ t = 7
    OBVIOUS
  <2>3. g \in [1 .. n -> Cell] /\ UuidOf(u) = Field(t, g)
    BY <1>1, <2>1, <2>2
  <2>4. /\ UuidOf(u) \in Seq(Cell) /\ Len(UuidOf(u)) = n + 1 /\ UuidOf(u)[1] = Byte(t)
        /\ \A i \in 1 .. n : UuidOf(u)[i + 1] = g[i]
        /\ Structure(UuidOf(u)) = <<Byte(n + 1), Byte(t)>> \o g
    <3>1. /\ Field(t, g) \in Seq(Cell) /\ Len(Field(t, g)) = n + 1 /\ Field(t, g)[1] = Byte(t)
          /\ \A i \in 1 .. n : Field(t, g)[i + 1] = g[i]
          /\ Structure(Field(t, g)) = <<Byte(n + 1), Byte(t)>> \o g
      BY <2>3, FieldIs, Zenon
    <3> QED BY <2>3, <3>1, Zenon
  <2> QED BY <2>2, <2>4
<1>3. p.uuids # <<>> /\ Len(p.uuids) = 1 /\ p.uuids[1] = u
  OBVIOUS
<1>4. ListLen(p) = 17
  BY <1>3 DEF ListLen, ServicesLen
<1>5. [i \in 1 .. 16 * Len(p.uuids) |-> <<p.uuids[((i - 1) \div 16) + 1], 15 - ((i - 1) % 16)>>] = g
  <2>1. 16 * Len(p.uuids) = 16
    BY <1>3
  <2>2. \A i \in 1 .. 16 : (i - 1) \div 16 = 0 /\ (i - 1) % 16 = i - 1
    OBVIOUS
  <2>3. \A i \in 1 .. 16 : <<p.uuids[((i - 1) \div 16) + 1], 15 - ((i - 1) % 16)>> = <<u, 16 - i>>
    BY <1>3, <2>2
  <2> QED BY <2>1, <2>3
<1>6. UuidField(p) = <<Byte(17), Byte(7)>> \o g
  BY <1>3, <1>4, <1>5 DEF UuidField
<1>7. \A i \in 1 .. 16 : g[i] = <<u, 16 - i>>
  OBVIOUS
<1>8. 16 + 1 = 17
  OBVIOUS
<1> HIDE DEF g
<1> QED BY <1>2, <1>6, <1>7, <1>8

\* The name, as a structure.
LEMMA NameFieldIs ==
    ASSUME NEW p, p.name \in Nat
    PROVE  /\ NameField(p) = Structure(NameOf(p.name))
           /\ NameOf(p.name) \in Seq(Cell) /\ Len(NameOf(p.name)) = p.name + 1
           /\ NameOf(p.name)[1] = Byte(9)
<1> DEFINE g == [i \in 1 .. p.name |-> <<"name", i>>]
<1>1. g \in [1 .. p.name -> Cell]
  BY DEF Cell
<1>2. p.name # NoName
  BY DEF NoName
<1>3. NameField(p) = <<Byte(p.name + 1), Byte(9)>> \o g /\ NameOf(p.name) = Field(9, g)
  BY <1>2 DEF NameField, NameOf
<1> HIDE DEF g
<1>4. PICK t \in Nat : t = 9
  OBVIOUS
<1>5. NameOf(p.name) = Field(t, g)
  BY <1>3, <1>4
<1>6. /\ NameOf(p.name) \in Seq(Cell) /\ Len(NameOf(p.name)) = p.name + 1
      /\ NameOf(p.name)[1] = Byte(t)
      /\ Structure(NameOf(p.name)) = <<Byte(p.name + 1), Byte(t)>> \o g
  <2>1. /\ Field(t, g) \in Seq(Cell) /\ Len(Field(t, g)) = p.name + 1
        /\ Field(t, g)[1] = Byte(t)
        /\ Structure(Field(t, g)) = <<Byte(p.name + 1), Byte(t)>> \o g
    BY <1>1, FieldIs
  <2> QED BY <1>5, <2>1
<1> QED BY <1>3, <1>4, <1>6

-----------------------------------------------------------------------------
(* Reading the payload *)

\* Where a reader goes on from p.
Following(p) == IF p > Len(data) THEN p ELSE p + data[p][2] + 1

\* StartOf, step by step.
LEMMA StartsAre ==
    /\ StartOf[1] = 1
    /\ StartOf[2] = Following(StartOf[1])
    /\ StartOf[3] = Following(StartOf[2])
    /\ StartOf[4] = Following(StartOf[3])
<1> DEFINE a2 == Following(1)
           a3 == Following(a2)
           a4 == Following(a3)
           g == [k \in 1 .. 4 |-> IF k = 1 THEN 1 ELSE IF k = 2 THEN a2 ELSE IF k = 3 THEN a3 ELSE a4]
           Body(f) == [k \in 1 .. 4 |->
                         IF k = 1 THEN 1
                         ELSE LET p == f[k - 1] IN IF p > Len(data) THEN p ELSE p + data[p][2] + 1]
<1>1. g = Body(g)
  <2>1. g[1] = 1 /\ g[2] = a2 /\ g[3] = a3 /\ g[4] = a4
    OBVIOUS
  <2>2. \A k \in 1 .. 4 : k = 1 \/ k = 2 \/ k = 3 \/ k = 4
    OBVIOUS
  <2>3. Body(g) = [k \in 1 .. 4 |-> IF k = 1 THEN 1 ELSE Following(g[k - 1])]
    BY DEF Following
  <2>4. \A k \in 1 .. 4 : g[k] = IF k = 1 THEN 1 ELSE Following(g[k - 1])
    <3> HIDE DEF g, a2, a3, a4
    <3>1. a2 = Following(1) /\ a3 = Following(a2) /\ a4 = Following(a3)
      BY DEF a2, a3, a4
    <3> QED BY <2>1, <2>2, <3>1
  <2> HIDE DEF Body
  <2>5. g \in [1 .. 4 -> {g[k] : k \in 1 .. 4}]
    OBVIOUS
  <2> HIDE DEF g
  <2>6. g = [k \in 1 .. 4 |-> g[k]]
    BY <2>5
  <2> QED BY <2>3, <2>4, <2>6
<1>2. StartOf = CHOOSE f : f = Body(f)
  BY DEF StartOf
<1> HIDE DEF g
<1>3. StartOf = Body(StartOf)
  <2> HIDE DEF Body
  <2> QED BY <1>1, <1>2
<1>4. \A k \in 1 .. 4 : StartOf[k] = IF k = 1 THEN 1 ELSE Following(StartOf[k - 1])
  BY <1>3 DEF Following
<1> QED BY <1>4

\* The cells of a part.
LEMMA PartIs ==
    ASSUME NEW w, NEW m \in Int, NEW n \in Int
    PROVE  \A i \in 1 .. n - m + 1 : SubSeq(w, m, n)[i] = w[m + i - 1]
OBVIOUS

\* The payload holds a structure behind s and before t.
Around(s, f, t) == data = (s \o Structure(f)) \o t

\* Two ways to group three parts.
LEMMA Grouped ==
    ASSUME NEW s \in Seq(Cell), NEW f \in Seq(Cell), NEW t \in Seq(Cell)
    PROVE  (s \o f) \o t = s \o (f \o t)
BY ConcatAssociative

\* A reader at the length byte of a structure finds its content, and then the
\* length byte of the next.
LEMMA ReadOne ==
    ASSUME NEW s \in Seq(Cell), NEW f \in Seq(Cell), NEW t \in Seq(Cell), Around(s, f, t)
    PROVE  /\ data \in Seq(Cell) /\ Len(data) = Len(s) + Len(f) + 1 + Len(t)
           /\ Following(Len(s) + 1) = Len(s) + Len(f) + 2
           /\ SubSeq(data, Len(s) + 2, Len(s) + Len(f) + 1) = f
<1> DEFINE c == Structure(f)
           a == s \o c
<1>1. /\ c \in Seq(Cell) /\ Len(c) = Len(f) + 1 /\ c[1] = Byte(Len(f))
      /\ \A i \in 1 .. Len(f) : c[i + 1] = f[i]
  BY StructureIs
<1>2. Len(s) \in Nat /\ Len(f) \in Nat /\ Len(t) \in Nat
  BY LenProperties
<1> HIDE DEF c
<1>3. /\ a \in Seq(Cell) /\ Len(a) = Len(s) + Len(c)
      /\ \A i \in 1 .. Len(s) + Len(c) : a[i] = IF i <= Len(s) THEN s[i] ELSE c[i - Len(s)]
  BY <1>1, ConcatProperties
<1> HIDE DEF a
<1>4. data = a \o t
  BY DEF Around, a, c
<1>5. /\ data \in Seq(Cell) /\ Len(data) = Len(a) + Len(t)
      /\ \A i \in 1 .. Len(a) + Len(t) : data[i] = IF i <= Len(a) THEN a[i] ELSE t[i - Len(a)]
  <2>0. a \in Seq(Cell)
    BY <1>3
  <2>1. /\ a \o t \in Seq(Cell) /\ Len(a \o t) = Len(a) + Len(t)
        /\ \A i \in 1 .. Len(a) + Len(t) : (a \o t)[i] = IF i <= Len(a) THEN a[i] ELSE t[i - Len(a)]
    BY <2>0, ConcatProperties
  <2> DEFINE w == a \o t
  <2> HIDE DEF w
  <2>2. data = w
    BY <1>4 DEF w
  <2>3. /\ w \in Seq(Cell) /\ Len(w) = Len(a) + Len(t)
        /\ \A i \in 1 .. Len(a) + Len(t) : w[i] = IF i <= Len(a) THEN a[i] ELSE t[i - Len(a)]
    BY <2>1 DEF w
  <2> QED BY <2>2, <2>3
<1>6. ASSUME NEW i \in 1 .. Len(f) + 1
      PROVE  data[Len(s) + i] = c[i]
  <2>1. Len(s) + i \in 1 .. Len(s) + Len(c) /\ ~ Len(s) + i <= Len(s) /\ (Len(s) + i) - Len(s) = i
    BY <1>1, <1>2
  <2>2. a[Len(s) + i] = c[i]
    BY <1>3, <2>1
  <2>3. Len(s) + i \in 1 .. Len(a) + Len(t) /\ Len(s) + i <= Len(a)
    BY <1>1, <1>2, <1>3
  <2>4. data[Len(s) + i] = a[Len(s) + i]
    BY <1>5, <2>3
  <2> QED BY <2>2, <2>4
<1>7. Len(data) = Len(s) + Len(f) + 1 + Len(t)
  BY <1>1, <1>2, <1>3, <1>5
<1>8. Following(Len(s) + 1) = Len(s) + Len(f) + 2
  <2>1. data[Len(s) + 1] = <<"byte", Len(f)>>
    <3>1. 1 \in 1 .. Len(f) + 1
      BY <1>2
    <3>2. data[Len(s) + 1] = c[1]
      BY <1>6, <3>1
    <3> QED BY <1>1, <3>2 DEF Byte
  <2>2. ~ Len(s) + 1 > Len(data)
    BY <1>2, <1>7
  <2>3. Following(Len(s) + 1) = Len(s) + 1 + Len(f) + 1
    BY <2>1, <2>2 DEF Following
  <2> QED BY <1>2, <2>3
<1>9. SubSeq(data, Len(s) + 2, Len(s) + Len(f) + 1) = f
  <2> DEFINE m == Len(s) + 2
             n == Len(s) + Len(f) + 1
             q == SubSeq(data, m, n)
  <2>1. m \in Int /\ n \in Int /\ n - m + 1 = Len(f)
    BY <1>2
  <2>2. \A i \in m .. n : data[i] \in Cell
    <3>1. \A i \in m .. n : i \in 1 .. Len(data)
      BY <1>2, <1>7
    <3> QED BY <1>5, <3>1, ElementOfSeq
  <2> HIDE DEF m, n
  <2>3. /\ q \in Seq(Cell) /\ Len(q) = (IF m <= n THEN n - m + 1 ELSE 0)
        /\ \A i \in 1 .. n - m + 1 : q[i] = data[m + i - 1]
    <3>1. m \in Int /\ n \in Int
      BY <2>1
    <3>2. /\ SubSeq(data, m, n) \in Seq(Cell)
          /\ Len(SubSeq(data, m, n)) = (IF m <= n THEN n - m + 1 ELSE 0)
      BY <3>1, <2>2, SubSeqProperties
    <3>3. \A i \in 1 .. n - m + 1 : SubSeq(data, m, n)[i] = data[m + i - 1]
      BY <3>1, PartIs
    <3> QED BY <3>2, <3>3
  <2> HIDE DEF q
  <2>4. Len(q) = Len(f)
    BY <1>2, <2>1, <2>3
  <2>5. ASSUME NEW i \in 1 .. Len(f)
        PROVE  q[i] = f[i]
    <3>1. m + i - 1 = Len(s) + (i + 1) /\ i + 1 \in 1 .. Len(f) + 1
      BY <1>2 DEF m
    <3>2. q[i] = data[m + i - 1]
      BY <2>1, <2>3
    <3>3. data[Len(s) + (i + 1)] = c[i + 1]
      BY <1>6, <3>1
    <3> QED BY <1>1, <3>1, <3>2, <3>3
  <2>6. q = f
    BY <2>3, <2>4, <2>5, SeqEqual
  <2> QED BY <2>6 DEF q, m, n
<1> QED BY <1>5, <1>7, <1>8, <1>9

\* At the end it stays.
LEMMA ReadEnd == Len(data) \in Nat => Following(Len(data) + 1) = Len(data) + 1
BY DEF Following

\* What the reader finds at its k-th structure, if it gets there.
ReadAt(k) == SubSeq(data, StartOf[k] + 1, StartOf[k + 1] - 1)

\* The structures the reader of the properties finds, in those terms.
LEMMA StructuresAre == Structures = {ReadAt(k) : k \in {j \in {1, 2, 3} : StartOf[j] <= Len(data)}}
<1>1. 1 .. 3 = {1, 2, 3}
  OBVIOUS
<1> QED BY <1>1 DEF Structures, ReadAt

\* One structure, two or three: the reader finds them all and nothing more.
\* The flags alone:
LEMMA ReadFlags ==
    ASSUME data = Structure(FlagsOf)
    PROVE  Structures = {FlagsOf} /\ StartOf[4] = Len(data) + 1 /\ Len(data) = 3
<1> DEFINE F == Structure(FlagsOf)
           e == << >>
<1>1. FlagsOf \in Seq(Cell) /\ Len(FlagsOf) = 2 /\ e \in Seq(Cell) /\ Len(e) = 0 /\ F \in Seq(Cell)
  BY FlagsAre, StructureIs, EmptySeq
<1>2. data = (e \o F) \o e
  BY <1>1, ConcatEmptySeq
<1> HIDE DEF F, e
<1>3. /\ Len(data) = Len(e) + Len(FlagsOf) + 1 + Len(e)
      /\ Following(Len(e) + 1) = Len(e) + Len(FlagsOf) + 2
      /\ SubSeq(data, Len(e) + 2, Len(e) + Len(FlagsOf) + 1) = FlagsOf
  <2>1. e \in Seq(Cell) /\ FlagsOf \in Seq(Cell)
    BY <1>1
  <2>2. Around(e, FlagsOf, e)
    BY <1>2 DEF F, Around
  <2> QED BY <2>1, <2>2, ReadOne
<1>4. Len(data) = 3 /\ Following(1) = 4 /\ SubSeq(data, 2, 3) = FlagsOf
  <2>1. Len(e) + 1 = 1 /\ Len(e) + 2 = 2
    BY <1>1
  <2>2. Len(e) + Len(FlagsOf) + 2 = 4 /\ Len(e) + Len(FlagsOf) + 1 = 3
    BY <1>1
  <2>3. Len(e) + Len(FlagsOf) + 1 + Len(e) = 3
    BY <1>1
  <2> QED BY <1>3, <2>1, <2>2, <2>3
<1>5. StartOf[1] = 1 /\ StartOf[2] = 4 /\ StartOf[3] = 4 /\ StartOf[4] = 4
  BY <1>4, StartsAre, ReadEnd
<1>6. ReadAt(1) = FlagsOf /\ {j \in {1, 2, 3} : StartOf[j] <= Len(data)} = {1}
  BY <1>4, <1>5 DEF ReadAt
<1> QED BY <1>4, <1>5, <1>6, StructuresAre

\* The flags and one more.
LEMMA ReadTwo ==
    ASSUME NEW g \in Seq(Cell), Around(Structure(FlagsOf), g, << >>)
    PROVE  Structures = {FlagsOf, g} /\ StartOf[4] = Len(data) + 1 /\ Len(data) = 4 + Len(g)
<1> DEFINE F == Structure(FlagsOf)
           G == Structure(g)
           e == << >>
<1>1. /\ FlagsOf \in Seq(Cell) /\ Len(FlagsOf) = 2 /\ e \in Seq(Cell) /\ Len(e) = 0
      /\ F \in Seq(Cell) /\ Len(F) = 3 /\ G \in Seq(Cell) /\ Len(G) = Len(g) + 1 /\ Len(g) \in Nat
  BY FlagsAre, StructureIs, EmptySeq, LenProperties
<1>2. data = (e \o F) \o G
  <2>1. data = (F \o G) \o e
    BY DEF Around
  <2> HIDE DEF F, G, e
  <2>2. F \o G \in Seq(Cell)
    BY <1>1, ConcatProperties
  <2>3. (F \o G) \o e = F \o G
    <3> DEFINE w == F \o G
    <3> HIDE DEF w
    <3>1. w \o e = w
      BY <2>2, ConcatEmptySeq DEF e, w
    <3> QED BY <3>1 DEF w
  <2>4. e \o F = F
    BY <1>1, ConcatEmptySeq DEF e
  <2> QED BY <2>1, <2>3, <2>4
<1> HIDE DEF F, G, e
<1>3. /\ Following(Len(e) + 1) = Len(e) + Len(FlagsOf) + 2
      /\ SubSeq(data, Len(e) + 2, Len(e) + Len(FlagsOf) + 1) = FlagsOf
  <2>1. e \in Seq(Cell) /\ FlagsOf \in Seq(Cell) /\ G \in Seq(Cell)
    BY <1>1
  <2>2. Around(e, FlagsOf, G)
    BY <1>2 DEF F, Around
  <2> QED BY <2>1, <2>2, ReadOne
<1>4. /\ Len(data) = Len(F) + Len(g) + 1 + Len(e)
      /\ Following(Len(F) + 1) = Len(F) + Len(g) + 2
      /\ SubSeq(data, Len(F) + 2, Len(F) + Len(g) + 1) = g
  <2>1. F \in Seq(Cell) /\ e \in Seq(Cell)
    BY <1>1
  <2>2. Around(F, g, e)
    BY DEF F, e
  <2> QED BY <2>1, <2>2, ReadOne
<1>5. /\ Following(1) = 4 /\ SubSeq(data, 2, 3) = FlagsOf
      /\ Len(data) = 4 + Len(g) /\ Following(4) = 5 + Len(g) /\ SubSeq(data, 5, 4 + Len(g)) = g
  <2>1. Following(1) = 4 /\ SubSeq(data, 2, 3) = FlagsOf
    <3>1. Len(e) + 1 = 1 /\ Len(e) + 2 = 2
      BY <1>1
    <3>2. Len(e) + Len(FlagsOf) + 2 = 4 /\ Len(e) + Len(FlagsOf) + 1 = 3
      BY <1>1
    <3> QED BY <1>3, <3>1, <3>2
  <2>2. Len(F) + 1 = 4 /\ Len(F) + 2 = 5
    BY <1>1
  <2>3. Len(F) + Len(g) + 2 = 5 + Len(g) /\ Len(F) + Len(g) + 1 = 4 + Len(g)
    BY <1>1
  <2>4. Len(F) + Len(g) + 1 + Len(e) = 4 + Len(g)
    BY <1>1
  <2>5. Following(4) = 5 + Len(g) /\ SubSeq(data, 5, 4 + Len(g)) = g
    BY <1>4, <2>2, <2>3
  <2>6. Len(data) = 4 + Len(g)
    BY <1>4, <2>4
  <2> QED BY <2>1, <2>5, <2>6
<1>6. StartOf[1] = 1 /\ StartOf[2] = 4 /\ StartOf[3] = 5 + Len(g) /\ StartOf[4] = 5 + Len(g)
  <2>1. 5 + Len(g) = Len(data) + 1 /\ Len(data) \in Nat
    BY <1>1, <1>5
  <2> QED BY <1>5, <2>1, StartsAre, ReadEnd
<1>7. (4 - 1 = 3) /\ (5 + Len(g)) - 1 = 4 + Len(g)
  BY <1>1
<1>8. ReadAt(1) = FlagsOf /\ ReadAt(2) = g
  <2>0. 1 + 1 = 2 /\ 2 + 1 = 3 /\ 4 + 1 = 5
    OBVIOUS
  <2>1. ReadAt(1) = SubSeq(data, 2, 3)
    BY <1>6, <1>7, <2>0 DEF ReadAt
  <2>2. ReadAt(2) = SubSeq(data, 5, 4 + Len(g))
    BY <1>6, <1>7, <2>0 DEF ReadAt
  <2> QED BY <1>5, <2>1, <2>2
<1>9. {j \in {1, 2, 3} : StartOf[j] <= Len(data)} = {1, 2}
  BY <1>1, <1>5, <1>6
<1>10. StartOf[4] = Len(data) + 1
  BY <1>1, <1>5, <1>6
<1> QED BY <1>5, <1>8, <1>9, <1>10, StructuresAre

\* The flags and two more.
LEMMA ReadThree ==
    ASSUME NEW g \in Seq(Cell), NEW h \in Seq(Cell),
           Around(Structure(FlagsOf), g, Structure(h))
    PROVE  /\ Structures = {FlagsOf, g, h} /\ StartOf[4] = Len(data) + 1
           /\ Len(data) = 5 + Len(g) + Len(h)
<1> DEFINE F == Structure(FlagsOf)
           G == Structure(g)
           H == Structure(h)
           E == F \o G
           e == << >>
<1>1. /\ FlagsOf \in Seq(Cell) /\ Len(FlagsOf) = 2 /\ e \in Seq(Cell) /\ Len(e) = 0
      /\ F \in Seq(Cell) /\ Len(F) = 3 /\ G \in Seq(Cell) /\ Len(G) = Len(g) + 1 /\ Len(g) \in Nat
      /\ H \in Seq(Cell) /\ Len(H) = Len(h) + 1 /\ Len(h) \in Nat
  BY FlagsAre, StructureIs, EmptySeq, LenProperties
<1>2. E \in Seq(Cell) /\ Len(E) = 3 + (Len(g) + 1) /\ G \o H \in Seq(Cell)
  <2> HIDE DEF F, G, H
  <2>0. F \in Seq(Cell) /\ G \in Seq(Cell) /\ H \in Seq(Cell)
    BY <1>1
  <2>1. E \in Seq(Cell) /\ Len(E) = Len(F) + Len(G) /\ G \o H \in Seq(Cell)
    BY <2>0, ConcatProperties, Zenon
  <2> QED BY <1>1, <2>1
<1>a. data = E \o H
  BY DEF Around
<1>b. data = (e \o F) \o (G \o H)
  <2>1. E \o H = F \o (G \o H)
    <3>1. F \in Seq(Cell) /\ G \in Seq(Cell) /\ H \in Seq(Cell)
      BY <1>1
    <3> HIDE DEF F, G, H
    <3> QED BY <3>1, Grouped
  <2>2. e \o F = F
    BY <1>1, ConcatEmptySeq
  <2> HIDE DEF F, G, H, E, e
  <2> QED BY <1>a, <2>1, <2>2
<1>c. data = (E \o H) \o e
  <2> HIDE DEF F, G, H, E
  <2>1. E \o H \in Seq(Cell)
    BY <1>1, <1>2, ConcatProperties
  <2>2. (E \o H) \o e = E \o H
    BY <2>1, ConcatEmptySeq
  <2> QED BY <1>a, <2>2
<1> HIDE DEF F, G, H, e
<1>4. /\ Following(Len(e) + 1) = Len(e) + Len(FlagsOf) + 2
      /\ SubSeq(data, Len(e) + 2, Len(e) + Len(FlagsOf) + 1) = FlagsOf
  <2>1. e \in Seq(Cell) /\ FlagsOf \in Seq(Cell) /\ G \o H \in Seq(Cell)
    BY <1>1, <1>2
  <2>2. Around(e, FlagsOf, G \o H)
    BY <1>b DEF F, Around
  <2> QED BY <2>1, <2>2, ReadOne
<1>5. /\ Following(Len(F) + 1) = Len(F) + Len(g) + 2
      /\ SubSeq(data, Len(F) + 2, Len(F) + Len(g) + 1) = g
  <2>1. F \in Seq(Cell) /\ H \in Seq(Cell)
    BY <1>1
  <2>2. Around(F, g, H)
    BY DEF F, H
  <2> QED BY <2>1, <2>2, ReadOne
<1> HIDE DEF E
<1>6. /\ Len(data) = Len(E) + Len(h) + 1 + Len(e)
      /\ Following(Len(E) + 1) = Len(E) + Len(h) + 2
      /\ SubSeq(data, Len(E) + 2, Len(E) + Len(h) + 1) = h
  <2>1. E \in Seq(Cell) /\ e \in Seq(Cell)
    BY <1>1, <1>2
  <2>2. Around(E, h, e)
    BY <1>c DEF H, Around
  <2> QED BY <2>1, <2>2, ReadOne
<1> DEFINE m == 5 + Len(g)
<1>7. /\ Following(1) = 4 /\ SubSeq(data, 2, 3) = FlagsOf
      /\ Following(4) = m /\ SubSeq(data, 5, m - 1) = g
      /\ Len(data) = m + Len(h) /\ Following(m) = m + Len(h) + 1
      /\ SubSeq(data, m + 1, m + Len(h)) = h
  <2>1. /\ 3 + Len(g) + 2 = m /\ 3 + Len(g) + 1 = m - 1
        /\ Len(E) + 1 = m /\ Len(E) + 2 = m + 1
        /\ Len(E) + Len(h) + 1 + 0 = m + Len(h)
        /\ Len(E) + Len(h) + 1 = m + Len(h) /\ Len(E) + Len(h) + 2 = m + Len(h) + 1
    BY <1>1, <1>2
  <2> HIDE DEF m
  <2>2. Following(1) = 4 /\ SubSeq(data, 2, 3) = FlagsOf
    <3>1. Len(e) + 1 = 1 /\ Len(e) + Len(FlagsOf) + 2 = 4 /\ Len(e) + 2 = 2
          /\ Len(e) + Len(FlagsOf) + 1 = 3
      BY <1>1
    <3> QED BY <1>4, <3>1
  <2>3. Following(4) = m /\ SubSeq(data, 5, m - 1) = g
    <3>1. Len(F) + 1 = 4 /\ Len(F) + 2 = 5 /\ Len(F) + Len(g) + 2 = m
          /\ Len(F) + Len(g) + 1 = m - 1
      BY <1>1, <2>1
    <3> QED BY <1>5, <3>1
  <2>4. Len(data) = m + Len(h)
    BY <1>1, <1>6, <2>1
  <2>5. Following(m) = m + Len(h) + 1 /\ SubSeq(data, m + 1, m + Len(h)) = h
    BY <1>6, <2>1
  <2> QED BY <2>2, <2>3, <2>4, <2>5
<1>8. m \in Nat /\ m > 4
  BY <1>1
<1> HIDE DEF m
<1>9. StartOf[1] = 1 /\ StartOf[2] = 4 /\ StartOf[3] = m /\ StartOf[4] = m + Len(h) + 1
  BY <1>7, StartsAre
<1>10. (m + Len(h) + 1) - 1 = m + Len(h)
  BY <1>1, <1>8
<1>11. ReadAt(1) = FlagsOf /\ ReadAt(2) = g /\ ReadAt(3) = h
  <2>0. 1 + 1 = 2 /\ 2 + 1 = 3 /\ 3 + 1 = 4 /\ 4 + 1 = 5 /\ 4 - 1 = 3
    OBVIOUS
  <2>1. ReadAt(1) = SubSeq(data, 2, 3)
    BY <1>9, <2>0 DEF ReadAt
  <2>2. ReadAt(2) = SubSeq(data, 5, m - 1)
    BY <1>9, <2>0 DEF ReadAt
  <2>3. ReadAt(3) = SubSeq(data, m + 1, m + Len(h))
    BY <1>9, <1>10, <2>0 DEF ReadAt
  <2> QED BY <1>7, <2>1, <2>2, <2>3
<1>12. {j \in {1, 2, 3} : StartOf[j] <= Len(data)} = {1, 2, 3}
  <2>1. 1 <= m + Len(h) /\ 4 <= m + Len(h) /\ m <= m + Len(h)
    BY <1>1, <1>8
  <2>2. StartOf[1] <= Len(data) /\ StartOf[2] <= Len(data) /\ StartOf[3] <= Len(data)
    BY <1>7, <1>9, <2>1
  <2> QED BY <2>2
<1>13. StartOf[4] = Len(data) + 1
  BY <1>7, <1>9
<1>14. Structures = {FlagsOf, g, h}
  BY <1>11, <1>12, StructuresAre
<1> QED BY <1>7, <1>13, <1>14 DEF m

\* A payload is read as the structures it was made of.
LEMMA Parsed ==
    ASSUME NEW p, FitsIn(p), data = ToBytes(p)
    PROVE  /\ Len(data) <= Legacy /\ StartOf[4] = Len(data) + 1
           /\ p.uuids = <<>> =>
                 Structures = {FlagsOf} \cup (IF p.name = NoName THEN {} ELSE {NameOf(p.name)})
           /\ \A u \in Uuids : p.uuids = <<u>> =>
                 Structures = {FlagsOf, UuidOf(u)}
                                \cup (IF p.name = NoName THEN {} ELSE {NameOf(p.name)})
<1> DEFINE F == Structure(FlagsOf)
           e == << >>
<1>1. /\ e \in Seq(Cell) /\ F \in Seq(Cell) /\ F = <<Byte(2), Byte(1), Byte(6)>>
  BY FlagsAre, StructureIs, EmptySeq
<1>2. data = (F \o UuidField(p)) \o NameField(p)
  BY <1>1 DEF ToBytes
<1>3. /\ p.uuids = <<>> \/ (\E u \in Uuids : p.uuids = <<u>>)
      /\ p.name = NoName \/ (p.name \in Nat \ {0} /\ p.name # NoName)
  BY OneUuid DEF NoName
<1>4. 3 + NameLen(p) + ServicesLen(p) <= 31
  BY DEF FitsIn, Encodable, Length, Legacy
<1>5. \A u \in Uuids : <<u>> # <<>> /\ Len(<<u>>) = 1
  OBVIOUS
<1>6. \A s \in Seq(Cell) : s \o e = s /\ e \o s = s
  BY ConcatEmptySeq
<1>7. CASE p.uuids = <<>> /\ p.name = NoName
  <2>1. data = F
    BY <1>1, <1>2, <1>6, <1>7 DEF UuidField, NameField
  <2>2. Structures = {FlagsOf} /\ StartOf[4] = Len(data) + 1 /\ Len(data) = 3
    BY <2>1, ReadFlags
  <2> QED BY <1>5, <1>7, <2>2 DEF Legacy
<1>8. CASE p.uuids = <<>> /\ p.name \in Nat \ {0} /\ p.name # NoName
  <2>1. /\ NameField(p) = Structure(NameOf(p.name)) /\ NameOf(p.name) \in Seq(Cell)
        /\ Len(NameOf(p.name)) = p.name + 1
    BY <1>8, NameFieldIs
  <2>2. UuidField(p) = e
    BY <1>8 DEF UuidField
  <2> HIDE DEF F, e
  <2>3. Around(F, NameOf(p.name), e)
    <3> DEFINE N == Structure(NameOf(p.name))
    <3>1. F \in Seq(Cell) /\ N \in Seq(Cell) /\ data = (F \o e) \o N
      BY <1>1, <1>2, <2>1, <2>2, StructureIs
    <3> HIDE DEF N
    <3>2. F \o N \in Seq(Cell)
      BY <3>1, ConcatProperties
    <3>3. (F \o e) \o N = F \o N /\ (F \o N) \o e = F \o N
      BY <1>6, <3>1, <3>2
    <3> QED BY <3>1, <3>3 DEF Around, N
  <2>4. /\ Structures = {FlagsOf, NameOf(p.name)} /\ StartOf[4] = Len(data) + 1
        /\ Len(data) = 4 + Len(NameOf(p.name))
    BY <2>1, <2>3, ReadTwo DEF F, e
  <2>5. Len(data) <= 31
    <3>1. NameLen(p) = p.name + 2 /\ ServicesLen(p) = 0
      BY <1>8 DEF NameLen, ServicesLen
    <3>2. Len(data) = 4 + (p.name + 1)
      BY <2>1, <2>4
    <3>3. 3 + (p.name + 2) + 0 <= 31
      BY <1>4, <3>1
    <3> QED BY <1>8, <3>2, <3>3
  <2> QED BY <1>5, <1>8, <2>4, <2>5 DEF Legacy
<1>9. ASSUME NEW u \in Uuids, p.uuids = <<u>>
      PROVE  /\ Len(data) <= 31 /\ StartOf[4] = Len(data) + 1
             /\ Structures = {FlagsOf, UuidOf(u)} \cup (IF p.name = NoName THEN {} ELSE {NameOf(p.name)})
  <2>1. /\ UuidField(p) = Structure(UuidOf(u)) /\ UuidOf(u) \in Seq(Cell) /\ Len(UuidOf(u)) = 17
        /\ Structure(UuidOf(u)) \in Seq(Cell)
    BY <1>9, UuidFieldIs, StructureIs
  <2>2. ServicesLen(p) = 18
    BY <1>5, <1>9 DEF ServicesLen
  <2>3. CASE p.name = NoName
    <3>1. NameField(p) = e
      BY <2>3 DEF NameField
    <3>2. F \o Structure(UuidOf(u)) \in Seq(Cell)
      BY <1>1, <2>1, ConcatProperties
    <3> HIDE DEF F, e
    <3>3. Around(F, UuidOf(u), e)
      BY <1>2, <2>1, <3>1 DEF Around
    <3>4. /\ Structures = {FlagsOf, UuidOf(u)} /\ StartOf[4] = Len(data) + 1
          /\ Len(data) = 4 + Len(UuidOf(u))
      BY <2>1, <3>3, ReadTwo DEF F, e
    <3> QED BY <2>1, <2>3, <3>4
  <2>4. CASE p.name \in Nat \ {0} /\ p.name # NoName
    <3>1. /\ NameField(p) = Structure(NameOf(p.name)) /\ NameOf(p.name) \in Seq(Cell)
          /\ Len(NameOf(p.name)) = p.name + 1
      BY <2>4, NameFieldIs
    <3> HIDE DEF F, e
    <3>2. Around(F, UuidOf(u), Structure(NameOf(p.name)))
      BY <1>2, <2>1, <3>1 DEF Around
    <3>3. /\ Structures = {FlagsOf, UuidOf(u), NameOf(p.name)} /\ StartOf[4] = Len(data) + 1
          /\ Len(data) = 5 + Len(UuidOf(u)) + Len(NameOf(p.name))
      BY <2>1, <3>1, <3>2, ReadThree DEF F
    <3>4. Len(data) <= 31
      <4>1. NameLen(p) = p.name + 2
        BY <2>4 DEF NameLen
      <4>2. Len(data) = 5 + 17 + (p.name + 1)
        BY <2>1, <3>1, <3>3
      <4>3. 3 + (p.name + 2) + 18 <= 31
        BY <1>4, <2>2, <4>1
      <4> QED BY <2>4, <4>2, <4>3
    <3> QED BY <2>4, <3>3, <3>4
  <2> QED BY <1>3, <2>3, <2>4
<1>10. \A u, v \in Uuids : <<u>> = <<v>> => u = v
  OBVIOUS
<1> HIDE DEF F, e
<1>11. CASE p.uuids = <<>>
  BY <1>3, <1>7, <1>8, <1>11
<1>12. ASSUME NEW u \in Uuids, p.uuids = <<u>>
       PROVE  /\ Len(data) <= Legacy /\ StartOf[4] = Len(data) + 1
              /\ p.uuids = <<>> =>
                    Structures = {FlagsOf} \cup (IF p.name = NoName THEN {} ELSE {NameOf(p.name)})
              /\ \A v \in Uuids : p.uuids = <<v>> =>
                    Structures = {FlagsOf, UuidOf(v)}
                                   \cup (IF p.name = NoName THEN {} ELSE {NameOf(p.name)})
  <2>1. p.uuids # <<>> /\ \A v \in Uuids : p.uuids = <<v>> => v = u
    BY <1>5, <1>10, <1>12
  <2> QED BY <1>9, <1>12, <2>1 DEF Legacy
<1> QED BY <1>3, <1>11, <1>12

\* The list of UUIDs reads as the one UUID.
LEMMA UuidRead ==
    ASSUME NEW u \in Uuids
    PROVE  ReadUuids(UuidOf(u)) = {u}
<1> DEFINE f == UuidOf(u)
           G(v) == [i \in 1 .. 16 |-> <<v, 16 - i>>]
<1>1. f \in Seq(Cell) /\ Len(f) = 17 /\ \A i \in 1 .. 16 : f[i + 1] = <<u, 16 - i>>
  <2>1. PICK p : p = [uuids |-> <<u>>]
    OBVIOUS
  <2>2. p.uuids = <<u>>
    BY <2>1
  <2> QED BY <2>2, UuidFieldIs
<1> HIDE DEF f
<1>2. SubSeq(f, 2, 17) = G(u)
  <2>0. PICK m \in Int, n \in Int : m = 2 /\ n = 17
    OBVIOUS
  <2> DEFINE q == SubSeq(f, m, n)
  <2>1. \A i \in m .. n : f[i] \in Cell
    <3>1. \A i \in m .. n : i \in 1 .. Len(f)
      BY <1>1, <2>0
    <3> QED BY <1>1, <3>1, ElementOfSeq
  <2>2. q \in Seq(Cell) /\ Len(q) = (IF m <= n THEN n - m + 1 ELSE 0)
    BY <2>1, SubSeqProperties
  <2>3. \A i \in 1 .. n - m + 1 : q[i] = f[m + i - 1]
    BY PartIs
  <2> HIDE DEF q
  <2>4. Len(q) = 16 /\ DOMAIN q = 1 .. 16
    BY <2>0, <2>2, LenProperties
  <2>5. ASSUME NEW i \in 1 .. 16
        PROVE  q[i] = <<u, 16 - i>>
    <3>1. m + i - 1 = i + 1 /\ i \in 1 .. n - m + 1
      BY <2>0
    <3> QED BY <1>1, <2>3, <3>1
  <2>6. G(u) \in Seq(Cell) /\ Len(G(u)) = 16
    <3>1. G(u) \in [1 .. 16 -> Cell]
      BY DEF Cell
    <3>2. PICK k \in Nat : k = 16
      OBVIOUS
    <3> HIDE DEF G
    <3>3. G(u) \in [1 .. k -> Cell]
      BY <3>1, <3>2
    <3>4. G(u) \in Seq(Cell) /\ Len(G(u)) = k
      BY <3>3, SeqDef
    <3> QED BY <3>2, <3>4
  <2>7. \A i \in 1 .. Len(q) : q[i] = G(u)[i]
    BY <2>4, <2>5
  <2> HIDE DEF G
  <2>8. q = G(u)
    BY <2>2, <2>4, <2>6, <2>7, SeqEqual
  <2> QED BY <2>0, <2>8 DEF q
<1>3. ASSUME NEW v \in Uuids, G(v) = G(u)
      PROVE  v = u
  <2>1. G(v)[1] = <<v, 15>> /\ G(u)[1] = <<u, 15>>
    OBVIOUS
  <2> QED BY <1>3, <2>1
<1>4. /\ 0 \in 0 .. Len(f) /\ 16 * 0 + 17 <= Len(f) /\ 16 * 0 + 2 = 2 /\ 16 * 0 + 17 = 17
      /\ \A n \in 0 .. Len(f) : 16 * n + 17 <= Len(f) => n = 0
  BY <1>1
<1>5. ReadUuids(f) = {v \in Uuids : \E n \in 0 .. Len(f) :
                         16 * n + 17 <= Len(f) /\ SubSeq(f, 16 * n + 2, 16 * n + 17) = G(v)}
  BY DEF ReadUuids
<1> HIDE DEF G
<1>6. \A v \in Uuids : (\E n \in 0 .. Len(f) : 16 * n + 17 <= Len(f)
                          /\ SubSeq(f, 16 * n + 2, 16 * n + 17) = G(v)) <=> SubSeq(f, 2, 17) = G(v)
  <2>1. ASSUME NEW v \in Uuids, NEW n \in 0 .. Len(f), 16 * n + 17 <= Len(f),
               SubSeq(f, 16 * n + 2, 16 * n + 17) = G(v)
        PROVE  SubSeq(f, 2, 17) = G(v)
    <3>1. n = 0
      BY <1>4, <2>1
    <3>2. 16 * n + 2 = 2 /\ 16 * n + 17 = 17
      BY <3>1
    <3> QED BY <2>1, <3>2
  <2>2. ASSUME NEW v \in Uuids, SubSeq(f, 2, 17) = G(v)
        PROVE  \E n \in 0 .. Len(f) : 16 * n + 17 <= Len(f)
                  /\ SubSeq(f, 16 * n + 2, 16 * n + 17) = G(v)
    BY <1>4, <2>2
  <2> QED BY <2>1, <2>2
<1>7. ReadUuids(f) = {v \in Uuids : SubSeq(f, 2, 17) = G(v)}
  BY <1>5, <1>6
<1>8. ReadUuids(f) = {v \in Uuids : G(u) = G(v)}
  BY <1>2, <1>7
<1>9. ReadUuids(f) = {u}
  BY <1>3, <1>8
<1> QED BY <1>9 DEF f

-----------------------------------------------------------------------------
(* What was asked *)

Call == [op : {"data", "uuid"}, name : NameLengths \cup {NoName}, uuids : SUBSET Uuids]

Elements(us) == {us[i] : i \in DOMAIN us}

\* The payload in the builder is what the calls asked for, and the payload
\* handed over is that one encoded.
Asked ==
    /\ name \in Nat /\ asked \in Seq(Call)
    /\ advertising \in [name : NameLengths \cup {NoName}, uuids : Seq(Uuids), explicit : BOOLEAN]
    /\ advertising.explicit <=> asked # <<>>
    /\ UNION {asked[i].uuids : i \in After} = Elements(advertising.uuids)
    /\ LastData = {} => advertising.name = NoName
    /\ \A k \in LastData : advertising.name = asked[k].name
    /\ phase \in {"registering", "started"} => data = ToBytes(Payload) /\ FitsIn(Payload)

\* A new builder was asked nothing.
LEMMA AskedInit == Init => Asked
<1> SUFFICES ASSUME Init
             PROVE  Asked
  OBVIOUS
<1>1. DOMAIN asked = {} /\ asked \in Seq(Call) /\ asked = <<>>
  BY EmptySeq DEF Init
<1>2. LastData = {} /\ After = {}
  BY <1>1 DEF LastData, After
<1>3. /\ advertising \in [name : NameLengths \cup {NoName}, uuids : Seq(Uuids), explicit : BOOLEAN]
      /\ advertising.explicit = FALSE /\ advertising.uuids = <<>> /\ advertising.name = NoName
  BY EmptySeq DEF Init, NoPayload
<1>4. Elements(advertising.uuids) = {}
  BY <1>3, EmptySeq DEF Elements
<1> QED BY <1>1, <1>2, <1>3, <1>4 DEF Init, Asked

\* The calls since the last advertising_data(), after one more.
LEMMA OneMoreCall ==
    ASSUME asked \in Seq(Call), NEW c \in Call, asked' = Append(asked, c)
    PROVE  /\ asked' \in Seq(Call) /\ asked' # <<>>
           /\ c.op = "data" => LastData' = {Len(asked) + 1} /\ After' = {Len(asked) + 1}
           /\ c.op = "uuid" => LastData' = LastData /\ After' = After \cup {Len(asked) + 1}
           /\ asked'[Len(asked) + 1] = c
           /\ \A i \in DOMAIN asked : asked'[i] = asked[i] /\ i # Len(asked) + 1
<1> DEFINE n == Len(asked)
<1>1. /\ asked' \in Seq(Call) /\ n \in Nat /\ Len(asked') = n + 1
      /\ DOMAIN asked = 1 .. n /\ DOMAIN asked' = 1 .. n + 1
      /\ asked'[n + 1] = c /\ \A i \in 1 .. n : asked'[i] = asked[i]
  <2>1. /\ asked' \in Seq(Call) /\ n \in Nat /\ Len(asked') = n + 1
        /\ asked'[n + 1] = c /\ \A i \in 1 .. n : asked'[i] = asked[i]
    BY AppendProperties, LenProperties
  <2>2. DOMAIN asked = 1 .. Len(asked) /\ DOMAIN asked' = 1 .. Len(asked')
    BY <2>1, LenProperties
  <2> QED BY <2>1, <2>2
<1> HIDE DEF n
<1>2. LastData = {i \in 1 .. n : asked[i].op = "data" /\ \A j \in i + 1 .. n : asked[j].op = "uuid"}
  BY <1>1 DEF LastData, n
<1>3. LastData' = {i \in 1 .. n + 1 : asked'[i].op = "data" /\ \A j \in i + 1 .. n + 1 : asked'[j].op = "uuid"}
  BY <1>1 DEF LastData
<1>4. CASE c.op = "data"
  <2>1. n + 1 \in LastData'
    BY <1>1, <1>3, <1>4
  <2>2. ASSUME NEW i \in LastData'
        PROVE  i = n + 1
    <3>1. CASE i \in 1 .. n
      <4>1. n + 1 \in i + 1 .. n + 1
        BY <1>1, <3>1
      <4>2. asked'[n + 1].op = "uuid"
        BY <1>3, <2>2, <4>1
      <4> QED BY <1>1, <1>4, <4>2
    <3> QED BY <1>1, <1>3, <2>2, <3>1
  <2>3. LastData' = {n + 1}
    BY <2>1, <2>2
  <2>4. After' = {n + 1}
    <3>1. After' = {i \in 1 .. n + 1 : i >= n + 1}
      BY <1>1, <2>3 DEF After
    <3> QED BY <1>1, <3>1
  <2> QED BY <1>1, <1>4, <2>3, <2>4, EmptySeq DEF n
<1>5. CASE c.op = "uuid"
  <2>1. ASSUME NEW i \in LastData'
        PROVE  i \in LastData
    <3>1. i \in 1 .. n + 1 /\ asked'[i].op = "data" /\ \A j \in i + 1 .. n + 1 : asked'[j].op = "uuid"
      BY <1>3, <2>1
    <3>2. i \in 1 .. n
      BY <1>1, <1>5, <3>1
    <3>3. \A j \in i + 1 .. n : asked[j].op = "uuid"
      <4>1. \A j \in i + 1 .. n : j \in i + 1 .. n + 1 /\ j \in 1 .. n
        BY <1>1, <3>2
      <4> QED BY <1>1, <3>1, <4>1
    <3> QED BY <1>1, <1>2, <3>1, <3>2, <3>3
  <2>2. ASSUME NEW i \in LastData
        PROVE  i \in LastData'
    <3>1. i \in 1 .. n /\ asked[i].op = "data" /\ \A j \in i + 1 .. n : asked[j].op = "uuid"
      BY <1>2, <2>2
    <3>2. ASSUME NEW j \in i + 1 .. n + 1
          PROVE  asked'[j].op = "uuid"
      <4>1. j = n + 1 \/ (j \in i + 1 .. n /\ j \in 1 .. n)
        BY <1>1, <3>1
      <4> QED BY <1>1, <1>5, <3>1, <4>1
    <3>3. i \in 1 .. n + 1 /\ asked'[i].op = "data"
      BY <1>1, <3>1
    <3> QED BY <1>3, <3>2, <3>3
  <2>3. LastData' = LastData
    BY <2>1, <2>2
  <2>4. LastData \subseteq 1 .. n
    BY <1>2
  <2>5. After' = After \cup {n + 1}
    <3>1. After = {i \in 1 .. n : \A k \in LastData : i >= k}
      BY <1>1 DEF After
    <3>2. After' = {i \in 1 .. n + 1 : \A k \in LastData : i >= k}
      BY <1>1, <2>3 DEF After
    <3>3. \A k \in LastData : n + 1 >= k
      BY <1>1, <2>4
    <3>4. 1 .. n + 1 = (1 .. n) \cup {n + 1}
      BY <1>1
    <3> QED BY <3>1, <3>2, <3>3, <3>4
  <2> QED BY <1>1, <1>5, <2>3, <2>5, EmptySeq DEF n
<1>6. \A i \in DOMAIN asked : asked'[i] = asked[i] /\ i # n + 1
  BY <1>1
<1>7. c.op \in {"data", "uuid"}
  BY DEF Call
<1> QED BY <1>4, <1>5, <1>6, <1>7 DEF n

\* What the calls after it ask for does not depend on how many came before.
LEMMA AskedOnce ==
    ASSUME Asked, NEW c \in Call, asked' = Append(asked, c)
    PROVE  /\ c.op = "data" => UNION {asked'[i].uuids : i \in After'} = c.uuids
           /\ c.op = "data" => \A k \in LastData' : asked'[k].name = c.name
           /\ c.op = "data" => LastData' # {}
           /\ c.op = "uuid" => UNION {asked'[i].uuids : i \in After'}
                                  = (UNION {asked[i].uuids : i \in After}) \cup c.uuids
           /\ c.op = "uuid" => LastData' = LastData /\ \A k \in LastData : asked'[k].name = asked[k].name
<1> DEFINE n == Len(asked) + 1
<1>1. asked \in Seq(Call)
  BY DEF Asked
<1>2. /\ c.op = "data" => LastData' = {n} /\ After' = {n}
      /\ c.op = "uuid" => LastData' = LastData /\ After' = After \cup {n}
      /\ asked'[n] = c
      /\ \A i \in DOMAIN asked : asked'[i] = asked[i]
  BY <1>1, OneMoreCall
<1> HIDE DEF n
<1>3. After \subseteq DOMAIN asked /\ LastData \subseteq DOMAIN asked
  BY DEF After, LastData
<1>4. CASE c.op = "data"
  <2>1. LastData' = {n} /\ After' = {n} /\ asked'[n] = c /\ c.op # "uuid"
    BY <1>2, <1>4
  <2>2. {asked'[i].uuids : i \in {n}} = {c.uuids} /\ \A k \in {n} : asked'[k].name = c.name
    BY <2>1
  <2>3. UNION {c.uuids} = c.uuids
    OBVIOUS
  <2> QED BY <2>1, <2>2, <2>3
<1>5. CASE c.op = "uuid"
  <2>1. \A i \in After : asked'[i].uuids = asked[i].uuids
    BY <1>2, <1>3
  <2>2. UNION {asked'[i].uuids : i \in After \cup {n}}
          = (UNION {asked[i].uuids : i \in After}) \cup c.uuids
    <3>1. {asked'[i].uuids : i \in After \cup {n}} = {asked[i].uuids : i \in After} \cup {c.uuids}
      <4>1. asked'[n].uuids = c.uuids
        BY <1>2
      <4>2. {asked'[i].uuids : i \in After \cup {n}} = {asked'[i].uuids : i \in After} \cup {asked'[n].uuids}
        OBVIOUS
      <4>3. {asked'[i].uuids : i \in After} = {asked[i].uuids : i \in After}
        BY <2>1
      <4> QED BY <4>1, <4>2, <4>3
    <3>2. \A S, x : UNION (S \cup {x}) = (UNION S) \cup x
      OBVIOUS
    <3> QED BY <3>1, <3>2
  <2> QED BY <1>2, <1>3, <1>5, <2>2
<1>6. c.op \in {"data", "uuid"}
  BY DEF Call
<1> QED BY <1>4, <1>5, <1>6

\* The UUIDs of a payload after service_uuid().
LEMMA WithUuidHas ==
    ASSUME NEW p \in [name : NameLengths \cup {NoName}, uuids : Seq(Uuids), explicit : BOOLEAN],
           NEW u \in Uuids
    PROVE  /\ WithUuid(p, u) \in [name : NameLengths \cup {NoName}, uuids : Seq(Uuids), explicit : BOOLEAN]
           /\ WithUuid(p, u).name = p.name
           /\ Elements(WithUuid(p, u).uuids) = Elements(p.uuids) \cup {u}
<1>1. CASE \E i \in DOMAIN p.uuids : p.uuids[i] = u
  BY <1>1 DEF WithUuid, Elements
<1>2. CASE ~ \E i \in DOMAIN p.uuids : p.uuids[i] = u
  <2> DEFINE s == p.uuids
             t == Append(s, u)
  <2>1. s \in Seq(Uuids)
    OBVIOUS
  <2>2. WithUuid(p, u) = [p EXCEPT !.uuids = t]
    BY <1>2 DEF WithUuid
  <2>3. /\ t \in Seq(Uuids) /\ Len(s) \in Nat /\ DOMAIN s = 1 .. Len(s)
        /\ DOMAIN t = 1 .. Len(s) + 1 /\ t[Len(s) + 1] = u /\ \A i \in 1 .. Len(s) : t[i] = s[i]
    <3>1. /\ t \in Seq(Uuids) /\ Len(t) = Len(s) + 1
          /\ t[Len(s) + 1] = u /\ \A i \in 1 .. Len(s) : t[i] = s[i]
      BY <2>1, AppendProperties
    <3> HIDE DEF t, s
    <3> QED BY <2>1, <3>1, LenProperties
  <2>4. WithUuid(p, u).uuids = t /\ WithUuid(p, u).name = p.name
        /\ WithUuid(p, u) \in [name : NameLengths \cup {NoName}, uuids : Seq(Uuids), explicit : BOOLEAN]
    <3> HIDE DEF t
    <3> QED BY <2>2, <2>3
  <2>5. Elements(t) = Elements(s) \cup {u}
    <3> HIDE DEF t, s
    <3>1. 1 .. Len(s) + 1 = (1 .. Len(s)) \cup {Len(s) + 1}
      BY <2>3
    <3> QED BY <2>3, <3>1 DEF Elements
  <2> QED BY <2>4, <2>5
<1> QED BY <1>1, <1>2

\* The lists the application passes to advertising_data().
LEMMA ShortLists ==
    /\ <<>> \in Seq(Uuids) /\ Elements(<<>>) = {}
    /\ \A u \in Uuids : <<u>> \in Seq(Uuids) /\ Elements(<<u>>) = {u}
<1>1. <<>> \in Seq(Uuids) /\ Elements(<<>>) = {}
  BY EmptySeq DEF Elements
<1>2. ASSUME NEW u \in Uuids
      PROVE  <<u>> \in Seq(Uuids) /\ Elements(<<u>>) = {u}
  BY DEF Elements
<1> QED BY <1>1, <1>2

\* A step that leaves the name and the payload of the builder alone leaves
\* alone what they encode to.
LEMMA PayloadKept ==
    ASSUME advertising' = advertising, name' = name
    PROVE  /\ Payload' = Payload /\ ToBytes(Payload)' = ToBytes(Payload)
           /\ FitsIn(Payload)' <=> FitsIn(Payload)
BY DEF Payload, ToBytes, UuidField, NameField, FitsIn, Encodable, Length, NameLen, ServicesLen, ListLen

\* Every step keeps what was asked and what is advertised together.
LEMMA AskedStep == Asked /\ [Next]_vars => Asked'
<1> SUFFICES ASSUME Asked, [Next]_vars
             PROVE  Asked'
  OBVIOUS
<1> USE DEF Asked
<1>1. ASSUME advertising' = advertising, asked' = asked, name' \in Nat,
             phase' \in {"registering", "started"} => data' = ToBytes(Payload)' /\ FitsIn(Payload)'
      PROVE  Asked'
  <2>1. LastData' = LastData /\ After' = After
    BY <1>1 DEF LastData, After
  <2>2. {asked'[i].uuids : i \in After'} = {asked[i].uuids : i \in After}
    BY <1>1, <2>1
  <2> QED BY <1>1, <2>1, <2>2
<1>2. ASSUME UNCHANGED <<advertising, asked, name, phase, data>>
      PROVE  Asked'
  <2>1. ToBytes(Payload)' = ToBytes(Payload) /\ (FitsIn(Payload)' <=> FitsIn(Payload))
    BY <1>2, PayloadKept
  <2>2. phase' = phase /\ data' = data /\ name' = name /\ advertising' = advertising /\ asked' = asked
    BY <1>2
  <2> QED BY <1>1, <2>1, <2>2
<1>3. ASSUME NEW p \in [name : NameLengths \cup {NoName}, uuids : Seq(Uuids), explicit : BOOLEAN],
             NEW c \in Call,
             phase' = "building", advertising' = [p EXCEPT !.explicit = TRUE],
             asked' = Append(asked, c), name' = name,
             \/ c.op = "data" /\ Elements(p.uuids) = c.uuids /\ p.name = c.name
             \/ /\ c.op = "uuid" /\ p.name = advertising.name
                /\ Elements(p.uuids) = Elements(advertising.uuids) \cup c.uuids
      PROVE  Asked'
  <2>1. asked' \in Seq(Call) /\ asked' # <<>>
    BY <1>3, OneMoreCall
  <2>2. /\ advertising' \in [name : NameLengths \cup {NoName}, uuids : Seq(Uuids), explicit : BOOLEAN]
        /\ advertising'.explicit = TRUE /\ advertising'.uuids = p.uuids /\ advertising'.name = p.name
    BY <1>3
  <2>3. Elements(advertising.uuids)' = Elements(p.uuids)
    BY <2>2 DEF Elements
  <2>4. CASE c.op = "data" /\ Elements(p.uuids) = c.uuids /\ p.name = c.name
    BY <1>3, <2>1, <2>2, <2>3, <2>4, AskedOnce
  <2>5. CASE /\ c.op = "uuid" /\ p.name = advertising.name
             /\ Elements(p.uuids) = Elements(advertising.uuids) \cup c.uuids
    BY <1>3, <2>1, <2>2, <2>3, <2>5, AskedOnce
  <2> QED BY <1>3, <2>4, <2>5
<1>4. ASSUME NEW n \in NameLengths, Name(n)
      PROVE  Asked'
  BY <1>1, <1>4, DeclarationsAssumption DEF Name, Building
<1>5. ASSUME NEW cs, Service(cs)
      PROVE  Asked'
  BY <1>2, <1>5 DEF Service, Building
<1>6. ASSUME NEW n \in NameLengths \cup {NoName}, NEW us \in Seq(Uuids),
             AdvertisingData(n, us)
      PROVE  Asked'
  <2> DEFINE p == [name |-> n, uuids |-> us, explicit |-> TRUE]
             c == [op |-> "data", name |-> n, uuids |-> {us[i] : i \in DOMAIN us}]
  <2>1. p \in [name : NameLengths \cup {NoName}, uuids : Seq(Uuids), explicit : BOOLEAN]
    OBVIOUS
  <2>2. {us[i] : i \in DOMAIN us} \in SUBSET Uuids
    BY LenProperties, ElementOfSeq
  <2>3. c \in Call /\ c.op = "data" /\ c.name = n /\ p.name = n /\ Elements(p.uuids) = c.uuids
    BY <2>2 DEF Call, Elements
  <2>4. /\ advertising' = [p EXCEPT !.explicit = TRUE] /\ asked' = Append(asked, c)
        /\ name' = name /\ phase' = "building"
    BY <1>6 DEF AdvertisingData, SetAdvertising, Replace, Building
  <2> HIDE DEF p, c
  <2> QED BY <1>3, <2>1, <2>3, <2>4
<1>7. ASSUME NEW u \in Uuids, AdvertiseServiceUuid(u)
      PROVE  Asked'
  <2> DEFINE p == WithUuid(advertising, u)
             c == [op |-> "uuid", name |-> NoName, uuids |-> {u}]
  <2>1. /\ p \in [name : NameLengths \cup {NoName}, uuids : Seq(Uuids), explicit : BOOLEAN]
        /\ p.name = advertising.name /\ Elements(p.uuids) = Elements(advertising.uuids) \cup {u}
    BY WithUuidHas
  <2>2. c \in Call /\ c.op = "uuid" /\ c.uuids = {u}
    BY DEF Call
  <2>3. /\ advertising' = [p EXCEPT !.explicit = TRUE] /\ asked' = Append(asked, c)
        /\ name' = name /\ phase' = "building"
    BY <1>7 DEF AdvertiseServiceUuid, SetAdvertising, Building
  <2> HIDE DEF p, c
  <2> QED BY <1>3, <2>1, <2>2, <2>3
<1>8. CASE Start
  <2>1. /\ advertising' = advertising /\ asked' = asked /\ name' = name /\ Payload' = Payload
        /\ ToBytes(Payload)' = ToBytes(Payload) /\ FitsIn(Payload)' <=> FitsIn(Payload)
    <3>1. advertising' = advertising /\ asked' = asked /\ name' = name
      BY <1>8 DEF Start, builder
    <3> QED BY <3>1, PayloadKept
  <2>2. CASE Valid /\ Encodable(Payload)
    <3>1. Payload.uuids \in Seq(Uuids) /\ Payload.name \in Nat \cup {NoName}
      <4>1. CASE advertising.explicit
        BY <4>1, DeclarationsAssumption DEF Payload
      <4>2. CASE ~ advertising.explicit
        BY <4>2, ShortLists DEF Payload, NoPayload
      <4> QED BY <4>1, <4>2
    <3>2. FitsIn(Payload)
      BY <2>2, <3>1 DEF FitsIn
    <3>3. data' = ToBytes(Payload)
      BY <1>8, <2>2 DEF Start
    <3> QED BY <1>1, <2>1, <3>2, <3>3
  <2>3. CASE ~ (Valid /\ Encodable(Payload))
    <3>1. phase' = "refused"
      BY <1>8, <2>3 DEF Start
    <3> QED BY <1>1, <2>1, <3>1
  <2> QED BY <2>2, <2>3
<1>9. CASE RegisterService
  BY <1>2, <1>9 DEF RegisterService, builder
<1>10. CASE RegisterCharacteristic
  BY <1>2, <1>10 DEF RegisterCharacteristic, builder
<1>11. CASE Registered
  <2>1. /\ phase \in {"registering", "started"}
        /\ UNCHANGED <<advertising, asked, name, data>>
    BY <1>11 DEF Registered, builder
  <2>2. data' = ToBytes(Payload)' /\ FitsIn(Payload)'
    <3>1. ToBytes(Payload)' = ToBytes(Payload) /\ (FitsIn(Payload)' <=> FitsIn(Payload))
      BY <2>1, PayloadKept
    <3> QED BY <2>1, <3>1
  <2> QED BY <1>1, <2>1, <2>2
<1>12. CASE UNCHANGED vars
  BY <1>2, <1>12 DEF vars, builder
<1>13. ASSUME NEW n \in NameLengths \cup {NoName}, NEW u \in Uuids,
              AdvertisingData(n, <<>>) \/ AdvertisingData(n, <<u>>) \/ AdvertiseServiceUuid(u)
       PROVE  Asked'
  <2>1. CASE AdvertisingData(n, <<>>)
    BY <1>6, <2>1, ShortLists
  <2>2. CASE AdvertisingData(n, <<u>>)
    BY <1>6, <2>2, ShortLists
  <2> QED BY <1>7, <1>13, <2>1, <2>2
<1> QED BY <1>4, <1>5, <1>8, <1>9, <1>10, <1>11, <1>12, <1>13 DEF Next

\* What a central reads when the payload in the builder is the one handed over.
LEMMA ReadsWhatWasAsked ==
    ASSUME NEW p, FitsIn(p), data = ToBytes(p)
    PROVE  /\ Len(data) <= Legacy /\ StartOf[4] = Len(data) + 1
           /\ {f \in Structures : f # <<>> /\ f[1] = Byte(1)} = {FlagsOf}
           /\ UNION {ReadUuids(f) : f \in {g \in Structures : g # <<>> /\ g[1] = Byte(7)}}
                = Elements(p.uuids)
           /\ \A f \in {g \in Structures : g # <<>> /\ g[1] = Byte(7)} :
                 Len(f) = 1 + 16 * Cardinality(Elements(p.uuids))
           /\ {f \in Structures : f # <<>> /\ f[1] = Byte(9)}
                = IF p.name = NoName THEN {} ELSE {NameOf(p.name)}
<1> DEFINE N == IF p.name = NoName THEN {} ELSE {NameOf(p.name)}
<1>1. Byte(1) # Byte(7) /\ Byte(1) # Byte(9) /\ Byte(7) # Byte(9)
  BY DEF Byte
<1>2. FlagsOf # <<>> /\ FlagsOf[1] = Byte(1)
  <2>1. FlagsOf \in Seq(Cell) /\ Len(FlagsOf) = 2 /\ FlagsOf[1] = Byte(1)
    BY FlagsAre
  <2> QED BY <2>1, EmptySeq
<1>3. \A f \in N : f # <<>> /\ f[1] = Byte(9)
  <2>1. CASE p.name = NoName
    BY <2>1
  <2>2. CASE p.name # NoName
    <3>1. p.name \in Nat
      BY <2>2 DEF FitsIn
    <3>2. Len(NameOf(p.name)) = p.name + 1 /\ NameOf(p.name)[1] = Byte(9)
      BY <3>1, NameFieldIs
    <3>3. NameOf(p.name) # <<>>
      BY <3>1, <3>2, EmptySeq
    <3> QED BY <3>2, <3>3
  <2> QED BY <2>1, <2>2
<1>4. /\ Len(data) <= Legacy /\ StartOf[4] = Len(data) + 1
      /\ p.uuids = <<>> => Structures = {FlagsOf} \cup N
      /\ \A u \in Uuids : p.uuids = <<u>> => Structures = {FlagsOf, UuidOf(u)} \cup N
  BY Parsed
<1> HIDE DEF N
<1>5. CASE p.uuids = <<>>
  <2>1. Structures = {FlagsOf} \cup N
    BY <1>4, <1>5
  <2>2. /\ {f \in Structures : f # <<>> /\ f[1] = Byte(1)} = {FlagsOf}
        /\ {f \in Structures : f # <<>> /\ f[1] = Byte(7)} = {}
        /\ {f \in Structures : f # <<>> /\ f[1] = Byte(9)} = N
    BY <1>1, <1>2, <1>3, <2>1
  <2>3. Elements(p.uuids) = {}
    BY <1>5, ShortLists
  <2> QED BY <1>4, <2>2, <2>3 DEF N
<1>6. ASSUME NEW u \in Uuids, p.uuids = <<u>>
      PROVE  /\ {f \in Structures : f # <<>> /\ f[1] = Byte(1)} = {FlagsOf}
             /\ UNION {ReadUuids(f) : f \in {g \in Structures : g # <<>> /\ g[1] = Byte(7)}}
                  = Elements(p.uuids)
             /\ \A f \in {g \in Structures : g # <<>> /\ g[1] = Byte(7)} :
                   Len(f) = 1 + 16 * Cardinality(Elements(p.uuids))
             /\ {f \in Structures : f # <<>> /\ f[1] = Byte(9)} = N
  <2>1. Structures = {FlagsOf, UuidOf(u)} \cup N
    BY <1>4, <1>6
  <2>2. Len(UuidOf(u)) = 17 /\ UuidOf(u)[1] = Byte(7)
    BY <1>6, UuidFieldIs
  <2>3. UuidOf(u) # <<>>
    BY <2>2, EmptySeq
  <2>4. /\ {f \in Structures : f # <<>> /\ f[1] = Byte(1)} = {FlagsOf}
        /\ {f \in Structures : f # <<>> /\ f[1] = Byte(7)} = {UuidOf(u)}
        /\ {f \in Structures : f # <<>> /\ f[1] = Byte(9)} = N
    BY <1>1, <1>2, <1>3, <2>1, <2>2, <2>3
  <2>5. Elements(p.uuids) = {u} /\ ReadUuids(UuidOf(u)) = {u}
    BY <1>6, ShortLists, UuidRead
  <2>6. Cardinality(Elements(p.uuids)) = 1
    BY <2>5, FS_Singleton
  <2>7. 17 = 1 + 16 * 1
    OBVIOUS
  <2>8. UNION {ReadUuids(f) : f \in {UuidOf(u)}} = Elements(p.uuids)
    BY <2>5
  <2>9. \A f \in {UuidOf(u)} : Len(f) = 1 + 16 * Cardinality(Elements(p.uuids))
    BY <2>2, <2>6
  <2> QED BY <2>4, <2>8, <2>9
<1>7. p.uuids = <<>> \/ \E u \in Uuids : p.uuids = <<u>>
  BY OneUuid
<1> QED BY <1>4, <1>5, <1>6, <1>7 DEF N

\* A central that reads the payload structure by structure finds the flags,
\* every UUID asked for since the last advertising_data(), and that call's
\* name, or the device name if nothing at all was asked for; and nothing more,
\* in a payload that C copies whole.
THEOREM AlwaysAdvertisesWhatWasAsked == Spec => []AdvertisesWhatWasAsked
<1>1. Asked => AdvertisesWhatWasAsked
  <2> SUFFICES ASSUME Asked, phase \in {"registering", "started"}
               PROVE  AdvertisesWhatWasAsked
    BY DEF AdvertisesWhatWasAsked
  <2> DEFINE uuids == UNION {asked[i].uuids : i \in After}
             named == IF asked = <<>> THEN name
                      ELSE IF LastData = {} THEN NoName
                      ELSE asked[CHOOSE k \in LastData : TRUE].name
  <2>1. data = ToBytes(Payload) /\ FitsIn(Payload)
    BY DEF Asked
  <2>2. Elements(Payload.uuids) = uuids /\ Payload.name = named
    <3>1. CASE asked = <<>>
      <4>1. DOMAIN asked = {}
        BY <3>1, EmptySeq
      <4>2. uuids = {}
        BY <4>1 DEF After
      <4>3. Payload = [NoPayload EXCEPT !.name = name]
        BY <3>1 DEF Asked, Payload
      <4> QED BY <3>1, <4>2, <4>3, ShortLists DEF NoPayload
    <3>2. CASE asked # <<>>
      <4>1. Payload = advertising
        BY <3>2 DEF Asked, Payload
      <4>2. Elements(Payload.uuids) = uuids
        BY <4>1 DEF Asked
      <4>3. CASE LastData = {}
        BY <3>2, <4>1, <4>2, <4>3 DEF Asked
      <4>4. CASE LastData # {}
        <5>1. (CHOOSE k \in LastData : TRUE) \in LastData
          BY <4>4
        <5> QED BY <3>2, <4>1, <4>2, <4>4, <5>1 DEF Asked
      <4> QED BY <4>3, <4>4
    <3> QED BY <3>1, <3>2
  <2>3. /\ Len(data) <= Legacy /\ StartOf[4] = Len(data) + 1
        /\ {f \in Structures : f # <<>> /\ f[1] = Byte(1)} = {FlagsOf}
        /\ UNION {ReadUuids(f) : f \in {g \in Structures : g # <<>> /\ g[1] = Byte(7)}} = uuids
        /\ \A f \in {g \in Structures : g # <<>> /\ g[1] = Byte(7)} :
              Len(f) = 1 + 16 * Cardinality(uuids)
        /\ {f \in Structures : f # <<>> /\ f[1] = Byte(9)}
             = IF named = NoName THEN {} ELSE {NameOf(named)}
    <3> DEFINE q == Payload
    <3>1. FitsIn(q) /\ data = ToBytes(q) /\ Elements(q.uuids) = uuids /\ q.name = named
      BY <2>1, <2>2
    <3> HIDE DEF q, uuids, named
    <3>2. /\ Len(data) <= Legacy /\ StartOf[4] = Len(data) + 1
          /\ {f \in Structures : f # <<>> /\ f[1] = Byte(1)} = {FlagsOf}
          /\ UNION {ReadUuids(f) : f \in {g \in Structures : g # <<>> /\ g[1] = Byte(7)}}
               = Elements(q.uuids)
          /\ \A f \in {g \in Structures : g # <<>> /\ g[1] = Byte(7)} :
                Len(f) = 1 + 16 * Cardinality(Elements(q.uuids))
          /\ {f \in Structures : f # <<>> /\ f[1] = Byte(9)}
               = IF q.name = NoName THEN {} ELSE {NameOf(q.name)}
      BY <3>1, ReadsWhatWasAsked
    <3> QED BY <3>1, <3>2
  <2>4. NameOf(named) = <<Byte(9)>> \o [i \in 1 .. named |-> <<"name", i>>]
    BY DEF NameOf, Field
  <2>5. FlagsOf = <<Byte(1), Byte(6)>>
    BY DEF FlagsOf
  <2> HIDE DEF uuids, named
  <2> QED BY <2>3, <2>4, <2>5 DEF AdvertisesWhatWasAsked, uuids, named
<1>2. Spec => []Asked
  BY AskedInit, AskedStep, PTL DEF Spec
<1> QED BY <1>1, <1>2, PTL
=============================================================================
