---------------------------- MODULE MCJdwpClient ---------------------------
(* Instances of JdwpClient for TLC.                                        *)
EXTENDS JdwpClient, TLC

CallerSymmetry == Permutations(Callers)
=============================================================================
