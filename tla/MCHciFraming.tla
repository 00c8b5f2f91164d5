---------------------------- MODULE MCHciFraming ----------------------------
(***************************************************************************)
(* Small instances of HciFraming for TLC.                                  *)
(***************************************************************************)
EXTENDS HciFraming

\* Two chunks hold an event, four an ACL packet; an ACL packet may outgrow its
\* buffer, an event does not.
MCBuffer == [k \in Kinds |-> IF k = 4 THEN 8 ELSE 16]
=============================================================================
