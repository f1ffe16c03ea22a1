---------------------------- MODULE MCTransport ----------------------------
(* An instance of Transport for TLC.  Every text has a character of two    *)
(* bytes.                                                                  *)
EXTENDS Transport, TLC

MCLength == [k \in Kinds \cup {OutKind} |-> [chars |-> 2, bytes |-> 3]]
=============================================================================
