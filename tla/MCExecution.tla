---------------------------- MODULE MCExecution ----------------------------
(* Two instances of Execution for TLC in one: a program of two threads     *)
(* whose every suspension reports one stop, and a program of one thread in *)
(* which a step may land on a breakpoint and two breakpoints may share a   *)
(* location (two requested lines adjusted to the same executable line).    *)
EXTENDS Execution, TLC

CONSTANT Main       \* the thread of the second program

MCComposites == {<<"Breakpoint">>, <<"Step">>, <<"Breakpoint", "Step">>,
                 <<"Step", "Breakpoint">>, <<"Breakpoint", "Breakpoint">>}

\* The bounds of the second program: two steps, one request waiting.
Colocated == /\ lastRequest' <= 2
             /\ editor = "stopped" /\ editor' = "running" => inbox = <<>>
             /\ \A i \in DOMAIN eventRx' : eventRx'[i].thread \in {Main, NoThread}

MCNext == Next /\ (~single => Colocated)

MCSpec == Init /\ [][MCNext]_vars /\ Fairness
=============================================================================
