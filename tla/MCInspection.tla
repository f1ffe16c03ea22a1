--------------------------- MODULE MCInspection ----------------------------
(* An instance of Inspection for TLC: a method with two variables of the   *)
(* same name in successive scopes that share no index, one that lasts, and *)
(* a line that is returned to (a loop); a method without locals; and one   *)
(* without a line table.                                                   *)
EXTENDS Inspection, TLC

CONSTANTS t1, t2, loopMethod, leafMethod, nativeMethod

MCThreads == {t1, t2}
MCNames   == {"args", "i"}
MCLineOf  == (loopMethod :> (0 :> 10 @@ 1 :> 11 @@ 2 :> 10 @@ 3 :> 13)) @@
             (leafMethod :> (0 :> 20)) @@ (nativeMethod :> <<>>)

Args == [name |-> "args", slot |-> 0]
MCScopeOf ==
    (loopMethod :> (0 :> {Args}
                 @@ 1 :> {Args, [name |-> "i", slot |-> 1]}
                 @@ 2 :> {Args, [name |-> "i", slot |-> 2]}
                 @@ 3 :> {Args})) @@
    (leafMethod :> (0 :> {})) @@ (nativeMethod :> <<>>)

Raw(id, method, index, readable) ==
    [id |-> id, method |-> method, index |-> index, readable |-> readable]

\* Frame ids recur from stack to stop; t2 has a frame whose values cannot be
\* read, and one stack in which it has no frames.
MCStacks ==
    { (t1 :> <<Raw(1, leafMethod, 0, TRUE), Raw(2, loopMethod, 1, TRUE)>>) @@
      (t2 :> <<Raw(3, loopMethod, 3, TRUE)>>),
      (t1 :> <<Raw(2, loopMethod, 2, TRUE), Raw(1, loopMethod, 0, TRUE)>>) @@
      (t2 :> <<Raw(4, loopMethod, 1, FALSE), Raw(3, loopMethod, 2, TRUE)>>),
      (t1 :> <<Raw(5, nativeMethod, 0, TRUE), Raw(1, loopMethod, 3, TRUE)>>) @@ (t2 :> <<>>) }
=============================================================================
