------------------------ MODULE NotificationService ------------------------
(***************************************************************************)
(* What the server promises about notifications: every connection has a    *)
(* queue of its own, opened once and closed for good; a call enters at most*)
(* one queue; the peer of a connection receives, in order, what was        *)
(* accepted for that connection, with gaps but without repetition; and     *)
(* nothing survives the connection.                                        *)
(***************************************************************************)
EXTENDS Integers, Sequences

CONSTANTS Connections, Calls

VARIABLES
    opened,     \* connections that were ever open
    open,       \* connections that are open
    queue,      \* accepted and not yet sent, per connection
    accepted,   \* calls that entered a queue
    received    \* what the peer of each connection was sent

serviceVars == <<opened, open, queue, accepted, received>>

TypeOK ==
    /\ open \subseteq opened /\ opened \subseteq Connections
    /\ queue \in [Connections -> Seq(Calls)]
    /\ accepted \subseteq Calls
    /\ received \in [Connections -> Seq(Calls)]

Init ==
    /\ opened = {} /\ open = {} /\ accepted = {}
    /\ queue = [g \in Connections |-> << >>]
    /\ received = [g \in Connections |-> << >>]

Open(g) ==
    /\ g \notin opened
    /\ opened' = opened \cup {g} /\ open' = open \cup {g}
    /\ UNCHANGED <<queue, accepted, received>>

Accept(g, c) ==
    /\ g \in open /\ c \notin accepted
    /\ queue' = [queue EXCEPT ![g] = Append(@, c)]
    /\ accepted' = accepted \cup {c}
    /\ UNCHANGED <<opened, open, received>>

Deliver(g) ==
    /\ queue[g] # << >>
    /\ received' = [received EXCEPT ![g] = Append(@, Head(queue[g]))]
    /\ queue' = [queue EXCEPT ![g] = Tail(@)]
    /\ UNCHANGED <<opened, open, accepted>>

\* The peer no longer subscribes, or the controller would not take the packet.
Drop(g) ==
    /\ queue[g] # << >>
    /\ queue' = [queue EXCEPT ![g] = Tail(@)]
    /\ UNCHANGED <<opened, open, accepted, received>>

\* A connection ends, or all of them do with the server.
Close(gone) ==
    /\ gone # {}
    /\ open' = open \ gone
    /\ queue' = [g \in Connections |-> IF g \in gone THEN << >> ELSE queue[g]]
    /\ UNCHANGED <<opened, accepted, received>>

Next ==
    \/ \E g \in Connections : Open(g) \/ Deliver(g) \/ Drop(g)
    \/ \E g \in Connections, c \in Calls : Accept(g, c)
    \/ \E gone \in SUBSET open : Close(gone)

Spec == Init /\ [][Next]_serviceVars
=============================================================================
