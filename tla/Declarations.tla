---------------------------- MODULE Declarations ----------------------------
(***************************************************************************)
(* What the application declares and what becomes of it: the builders      *)
(* (GattServerBuilder, GattService, GattCharacteristic, AdvertisingData),  *)
(* validate(), the advertising payload, and the attributes the worker      *)
(* registers with BTstack, through which it later finds the characteristic *)
(* a handle or a UUID stands for.                                          *)
(*                                                                         *)
(* A name is the number of its bytes; a byte is a pair: a number, or the   *)
(* UUID or name it belongs to and its place there.                         *)
(***************************************************************************)
EXTENDS Integers, Sequences, FiniteSets

CONSTANTS
    Uuids,               \* UUIDs
    Declarable,          \* characteristics the application declares
    NameLengths,         \* lengths of the names the application gives
    MaxServices,         \* 16 in the code
    MaxCharacteristics,  \* 64 in the code
    MaxCalls             \* bound: calls of the builder

\* What the GattCharacteristic builder makes.
Characteristic ==
    [uuid : Uuids, properties : SUBSET {"read", "write", "notify"},
     handlers : SUBSET {"read", "write"}]

ASSUME DeclarationsAssumption ==
    /\ Declarable \subseteq Characteristic
    /\ NameLengths \subseteq Nat
    /\ {MaxServices, MaxCharacteristics, MaxCalls} \subseteq Nat

VARIABLES
    name,         \* GattServerBuilder::name
    services,     \* GattServerBuilder::services, each the list of its characteristics
    advertising,  \* GattServerBuilder::advertising
    phase,        \* "building", "registering", "started" or "refused"
    data,         \* the payload handed to rs_start
    at,           \* the service and the characteristic to register next
    attributes,   \* State::attributes
    database,     \* BTstack's ATT database: handle k is database[k]
    asked         \* history: the builder calls about advertising

builder == <<name, services, advertising, asked>>
vars == <<builder, phase, data, at, attributes, database>>

Legacy == 31
NoName == -1
NoPayload == [name |-> NoName, uuids |-> <<>>, explicit |-> FALSE]

TypeOK ==
    /\ name \in NameLengths \cup {9}
    /\ services \in Seq(Seq(Characteristic))
    /\ advertising \in [name : NameLengths \cup {NoName}, uuids : Seq(Uuids), explicit : BOOLEAN]
    /\ phase \in {"building", "registering", "started", "refused"}
    /\ data \in Seq((Uuids \cup {"byte", "name"}) \X Nat)
    /\ at \in Nat \X Nat
    /\ attributes \in Seq([handle : DOMAIN database, uuid : Uuids, notify : BOOLEAN])
    /\ database \in Seq([role : {"static", "value", "cccd"}, uuid : Uuids \cup {"none"}])

Init ==
    /\ name = 9 /\ services = <<>> /\ advertising = NoPayload
    /\ phase = "building" /\ data = <<>> /\ at = <<0, 0>>
    /\ attributes = <<>> /\ database = <<>> /\ asked = <<>>

-----------------------------------------------------------------------------
(* The builder *)

Building == phase = "building" /\ UNCHANGED <<phase, data, at, attributes, database>>

Calls == Len(asked) + Len(services)

Name(n) == Building /\ name' = n /\ UNCHANGED <<services, advertising, asked>>

Service(characteristics) ==
    /\ Building /\ Calls < MaxCalls
    /\ services' = Append(services, characteristics)
    /\ UNCHANGED <<name, advertising, asked>>

\* AdvertisingData::service_uuid.
WithUuid(payload, u) ==
    IF \E i \in DOMAIN payload.uuids : payload.uuids[i] = u THEN payload
    ELSE [payload EXCEPT !.uuids = Append(@, u)]

\* The payload replaces whatever was to be advertised before.
Replace(payload) == payload

SetAdvertising(payload, call) ==
    /\ Building /\ Calls < MaxCalls
    /\ advertising' = [payload EXCEPT !.explicit = TRUE]
    /\ asked' = Append(asked, call)
    /\ UNCHANGED <<name, services>>

AdvertisingData(n, us) ==
    SetAdvertising(Replace([name |-> n, uuids |-> us, explicit |-> TRUE]),
                   [op |-> "data", name |-> n, uuids |-> {us[i] : i \in DOMAIN us}])

AdvertiseServiceUuid(u) ==
    SetAdvertising(WithUuid(advertising, u), [op |-> "uuid", name |-> NoName, uuids |-> {u}])

-----------------------------------------------------------------------------
(* validate() and to_bytes() *)

Positions == UNION {{s} \X DOMAIN services[s] : s \in DOMAIN services}
At(p) == services[p[1]][p[2]]

\* Fault: only the characteristics of one service are compared.
UniqueInService ==
    \A p, q \in Positions : p # q /\ p[1] = q[1] => At(p).uuid # At(q).uuid

UniqueUuids == \A p, q \in Positions : p # q => At(p).uuid # At(q).uuid

HasHandlers(c) ==
    /\ c.properties # {}
    /\ c.properties \ {"notify"} \subseteq c.handlers

Valid ==
    /\ name \in 1 .. 26
    /\ services # <<>>
    /\ \A s \in DOMAIN services : services[s] # <<>>
    /\ UniqueUuids
    /\ \A p \in Positions : HasHandlers(At(p))
    /\ Cardinality(Positions) <= MaxCharacteristics /\ Len(services) <= MaxServices

Byte(n) == <<"byte", n>>

NameLen(payload) == IF payload.name = NoName THEN 0 ELSE payload.name + 2
ServicesLen(payload) == IF payload.uuids = <<>> THEN 0 ELSE 16 * Len(payload.uuids) + 2

Length(payload) == 3 + NameLen(payload) + ServicesLen(payload)

Encodable(payload) == payload.name # 0 /\ Length(payload) <= Legacy

\* Fault: the length byte counts itself.
ListLenWithItself(payload) == ServicesLen(payload)

\* The length byte of the list of UUIDs.
ListLen(payload) == ServicesLen(payload) - 1

\* Each UUID in reverse.
UuidField(payload) ==
    IF payload.uuids = <<>> THEN <<>>
    ELSE <<Byte(ListLen(payload)), Byte(7)>>
         \o [i \in 1 .. 16 * Len(payload.uuids) |->
                <<payload.uuids[((i - 1) \div 16) + 1], 15 - ((i - 1) % 16)>>]

NameField(payload) ==
    IF payload.name = NoName THEN <<>>
    ELSE <<Byte(payload.name + 1), Byte(9)>> \o [i \in 1 .. payload.name |-> <<"name", i>>]

ToBytes(payload) == <<Byte(2), Byte(1), Byte(6)>> \o UuidField(payload) \o NameField(payload)

\* Name-only unless the application asked for something else.
Payload == IF advertising.explicit THEN advertising ELSE [NoPayload EXCEPT !.name = name]

Static == [role |-> "static", uuid |-> "none"]

\* rs_gap_name takes the first four handles.
\* validate() encodes the name-only payload as well, which always fits.
Start ==
    /\ phase = "building"
    /\ IF Valid /\ Encodable(Payload)
         THEN /\ phase' = "registering"
              /\ data' = ToBytes(Payload)
              /\ at' = <<1, 0>>
              /\ database' = [k \in 1 .. 4 |-> Static]
         ELSE phase' = "refused" /\ UNCHANGED <<data, at, database>>
    /\ UNCHANGED <<builder, attributes>>

-----------------------------------------------------------------------------
(* The worker registers what was declared *)

RegisterService ==
    /\ phase = "registering" /\ at[1] <= Len(services) /\ at[2] = 0
    /\ database' = Append(database, Static)
    /\ at' = <<at[1], 1>>
    /\ UNCHANGED <<builder, phase, data, attributes>>

\* att_db_util: the declaration, the value, and the CCCD behind it.
Entries(c) ==
    <<Static, [role |-> "value", uuid |-> c.uuid]>>
    \o (IF "notify" \in c.properties THEN <<[role |-> "cccd", uuid |-> c.uuid]>> ELSE <<>>)

\* What rs_characteristic returns.
ValueHandle == Len(database) + 2

RegisterCharacteristic ==
    /\ phase = "registering" /\ at[1] <= Len(services)
    /\ at[2] \in DOMAIN services[at[1]]
    /\ LET c == At(at) IN
         /\ database' = database \o Entries(c)
         /\ attributes' = Append(attributes, [handle |-> ValueHandle, uuid |-> c.uuid,
                                              notify |-> "notify" \in c.properties])
         /\ at' = IF at[2] < Len(services[at[1]]) THEN <<at[1], at[2] + 1>>
                                                                  ELSE <<at[1] + 1, 0>>
    /\ UNCHANGED <<builder, phase, data>>

Registered ==
    /\ phase = "registering" /\ at[1] > Len(services)
    /\ phase' = "started"
    /\ UNCHANGED <<builder, data, at, attributes, database>>

First(S) == CHOOSE i \in S : \A j \in S : i <= j

\* notify() looks a characteristic up by UUID, read() and write() by handle.
ByUuid(u) == First({i \in DOMAIN attributes : attributes[i].uuid = u})

ByHandle(k) ==
    First({i \in DOMAIN attributes :
              attributes[i].handle = k \/ (attributes[i].notify /\ attributes[i].handle + 1 = k)})

-----------------------------------------------------------------------------
Lists(S) == UNION {[1 .. n -> S] : n \in 0 .. 2}

Next ==
    \/ \E n \in NameLengths : Name(n)
    \/ \E cs \in Lists(Declarable) : Service(cs)
    \/ \E n \in NameLengths \cup {NoName}, u \in Uuids :
          AdvertisingData(n, <<>>) \/ AdvertisingData(n, <<u>>) \/ AdvertiseServiceUuid(u)
    \/ Start \/ RegisterService \/ RegisterCharacteristic \/ Registered
    \/ phase \in {"started", "refused"} /\ UNCHANGED vars

Spec == Init /\ [][Next]_vars

-----------------------------------------------------------------------------
(* A reference reader of the payload: AD structures from their length bytes *)

StartOf[k \in 1 .. 4] ==
    IF k = 1 THEN 1
    ELSE LET p == StartOf[k - 1] IN IF p > Len(data) THEN p ELSE p + data[p][2] + 1

Structures == {SubSeq(data, StartOf[k] + 1, StartOf[k + 1] - 1) : k \in {j \in 1 .. 3 : StartOf[j] <= Len(data)}}

ReadUuids(field) ==
    {u \in Uuids : \E n \in 0 .. Len(field) : 
        /\ 16 * n + 17 <= Len(field)
        /\ SubSeq(field, 16 * n + 2, 16 * n + 17) = [i \in 1 .. 16 |-> <<u, 16 - i>>]}

-----------------------------------------------------------------------------
(* Properties *)

LastData == {i \in DOMAIN asked : asked[i].op = "data" /\ \A j \in i + 1 .. Len(asked) : asked[j].op = "uuid"}
After == {i \in DOMAIN asked : \A k \in LastData : i >= k}

\* A central that reads the payload structure by structure finds the flags,
\* every UUID asked for since the last advertising_data(), and that call's
\* name, or the device name if nothing at all was asked for; and nothing more,
\* in a payload that C copies whole.
AdvertisesWhatWasAsked ==
    phase \in {"registering", "started"} =>
        LET uuids == UNION {asked[i].uuids : i \in After}
            named == IF asked = <<>> THEN name
                     ELSE IF LastData = {} THEN NoName
                     ELSE asked[CHOOSE k \in LastData : TRUE].name
            Typed(t) == {f \in Structures : f # <<>> /\ f[1] = Byte(t)}
        IN  /\ Len(data) <= Legacy
            /\ StartOf[4] = Len(data) + 1
            /\ Typed(1) = {<<Byte(1), Byte(6)>>}
            /\ UNION {ReadUuids(f) : f \in Typed(7)} = uuids
            /\ \A f \in Typed(7) : Len(f) = 1 + 16 * Cardinality(uuids)
            /\ Typed(9) = IF named = NoName THEN {}
                          ELSE {<<Byte(9)>> \o [i \in 1 .. named |-> <<"name", i>>]}

\* A handle BTstack asks about and a UUID the application names lead to the
\* same, one and only characteristic: the value handle, the CCCD behind it and
\* the UUID agree, whatever lies between the characteristics.
LookupsAgree ==
    \A k \in DOMAIN database : database[k].role # "static" =>
        /\ \E i \in DOMAIN attributes : attributes[i].uuid = database[k].uuid
        /\ ByHandle(k) = ByUuid(database[k].uuid)
        /\ (database[k].role = "value") = (attributes[ByHandle(k)].handle = k)
=============================================================================
