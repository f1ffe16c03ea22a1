----------------------------- MODULE MCSession -----------------------------
(* Instances of Session for TLC.                                           *)
EXTENDS Session, TLC

CONSTANTS RuntimeException, OutOfMemoryError
MCExceptionClasses == {RuntimeException, OutOfMemoryError}

\* The second exception matters to the cause, which is a patient editor's.
MCMaxExceptions == [patience \in BOOLEAN |-> IF patience THEN 2 ELSE 1]
=============================================================================
