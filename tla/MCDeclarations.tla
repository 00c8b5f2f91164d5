--------------------------- MODULE MCDeclarations ---------------------------
(***************************************************************************)
(* Small instances of Declarations for TLC.                                *)
(***************************************************************************)
EXTENDS Declarations, TLC

CONSTANTS u1, u2, u3

\* Some with the same UUID, one without its handler, one with everything.
MCDeclarable ==
    {[uuid |-> u1, properties |-> {"read"}, handlers |-> {"read"}],
     [uuid |-> u1, properties |-> {"notify"}, handlers |-> {}],
     [uuid |-> u3, properties |-> {"notify"}, handlers |-> {}],
     [uuid |-> u2, properties |-> {"write"}, handlers |-> {"read"}],
     [uuid |-> u2, properties |-> {"read", "write", "notify"}, handlers |-> {"read", "write"}]}
=============================================================================
