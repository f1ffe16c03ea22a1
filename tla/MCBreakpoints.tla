--------------------------- MODULE MCBreakpoints ---------------------------
(* An instance of Breakpoints for TLC: one file with a class and a nested  *)
(* class whose lines interleave, as an anonymous inner class gives, a file *)
(* of one class, and a file no class was compiled from.                    *)
EXTENDS Breakpoints, TLC

CONSTANTS Outer, Inner, Other, FileA, FileB, NoteFile

MCClasses  == {Outer, Inner, Other}
MCFiles    == {FileA, FileB, NoteFile}
MCSourceOf == (Outer :> FileA) @@ (Inner :> FileA) @@ (Other :> FileB)
\* Line 1 is Outer's alone, 3 Inner's alone, 2 may move to either, 8 is no
\* one's; 4 of Other is reached from 2 and 3 but not from 1.
MCLinesOf  == (Outer :> {1, 2, 6}) @@ (Inner :> {3}) @@ (Other :> {4})

\* None, one, two that share the executable line 3 of Inner, one past the end.
MCRequests == {<<>>, <<2>>, <<3, 2>>, <<8>>}

MCMaxEdits == [care \in BOOLEAN |-> IF care THEN 3 ELSE 2]
=============================================================================
