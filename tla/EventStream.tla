----------------------------- MODULE EventStream -----------------------------
(***************************************************************************)
(* What recv_timeout() promises the application: one stream of ServerEvents*)
(* in which every connection opens once, before anything else is said of   *)
(* it, closes at most once, after everything else, and in which the CCCDs  *)
(* of the open connections can be followed.  GattRuntime implements it     *)
(* (ReportsEvents there); EventLoop is the application that reads it.      *)
(***************************************************************************)
EXTENDS Integers, Sequences

CONSTANTS
    Connections,      \* generations: what GattConnection::id() returns
    Characteristics   \* characteristics with a CCCD

VARIABLES
    stream,       \* every event sent
    open,         \* connections reported open and not yet closed
    subscribed,   \* pairs (connection, characteristic) whose CCCD is set
    over          \* the worker is gone and the channel closed

streamVars == <<stream, open, subscribed, over>>

Event == [type : {"Connected", "Disconnected", "NotificationFailed"},
          connection : Connections, attrs : {{}}, enabled : {FALSE}]
         \cup [type : {"SubscriptionChanged"}, connection : Connections,
               attrs : {{a} : a \in Characteristics}, enabled : BOOLEAN]
         \cup [type : {"Error"}, connection : {0}, attrs : {{}}, enabled : {FALSE}]

Plain(type, g) == [type |-> type, connection |-> g, attrs |-> {}, enabled |-> FALSE]

StreamTypeOK ==
    /\ stream \in Seq(Event)
    /\ open \subseteq Connections
    /\ subscribed \subseteq open \X Characteristics
    /\ over \in BOOLEAN

StreamInit == stream = << >> /\ open = {} /\ subscribed = {} /\ over = FALSE

Connect(g) ==
    /\ \A i \in DOMAIN stream : stream[i].connection # g
    /\ stream' = Append(stream, Plain("Connected", g))
    /\ open' = open \cup {g}
    /\ UNCHANGED <<subscribed, over>>

Subscribe(g, a, on) ==
    /\ g \in open
    /\ stream' = Append(stream, [type |-> "SubscriptionChanged", connection |-> g,
                                 attrs |-> {a}, enabled |-> on])
    /\ subscribed' = IF on THEN subscribed \cup {<<g, a>>} ELSE subscribed \ {<<g, a>>}
    /\ UNCHANGED <<open, over>>

Fail(g) ==
    /\ g \in open
    /\ stream' = Append(stream, Plain("NotificationFailed", g))
    /\ UNCHANGED <<open, subscribed, over>>

Disconnect(g) ==
    /\ g \in open
    /\ stream' = Append(stream, Plain("Disconnected", g))
    /\ open' = open \ {g}
    /\ subscribed' = subscribed \ ({g} \X Characteristics)
    /\ UNCHANGED over

\* The worker ends; what was open is not reported closed one by one.
End(failed) ==
    /\ ~over /\ over' = TRUE
    /\ stream' = IF failed THEN Append(stream, Plain("Error", 0)) ELSE stream
    /\ open' = {} /\ subscribed' = {}

Report ==
    \/ \E g \in Connections : Connect(g) \/ Fail(g) \/ Disconnect(g)
    \/ \E g \in Connections, a \in Characteristics, on \in BOOLEAN : Subscribe(g, a, on)

StreamNext == (~over /\ Report) \/ \E failed \in BOOLEAN : End(failed)

StreamSpec == StreamInit /\ [][StreamNext]_streamVars
=============================================================================
