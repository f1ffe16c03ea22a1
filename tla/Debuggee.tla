------------------------------ MODULE Debuggee ------------------------------
(***************************************************************************)
(* What debugging a program means to its user: the program runs until it   *)
(* stops in a thread; the user is then shown that thread, and orders it to *)
(* go or to step; and the program runs again only by that order - a step   *)
(* with one step in force, on the thread shown, a go with none.            *)
(***************************************************************************)
CONSTANT Threads

VARIABLES
    program,    \* "running", "paused" by the debugger itself, "stopped", "over"
    at,         \* the thread the program stopped in, if it is known: a set
    user,       \* "looking" at a stopped program, or "waiting"
    order,      \* the order being carried out: "none", "go" or "step"
    steps       \* the threads with a step in force

debuggeeVars == <<program, at, user, order, steps>>

\* Before it starts, the program is stopped in no thread.
DebuggeeInit ==
    /\ program = "stopped" /\ at = {}
    /\ user = "looking" /\ order = "none" /\ steps = {}

Stop(t) ==
    /\ program = "running"
    /\ program' = "stopped" /\ at' = {t}
    /\ UNCHANGED <<user, order, steps>>

\* The debugger stops the program for its own ends, and lets it run on.
Pause ==
    /\ program = "running"
    /\ program' = "paused"
    /\ UNCHANGED <<at, user, order, steps>>

RunOn ==
    /\ program = "paused"
    /\ program' = "running"
    /\ UNCHANGED <<at, user, order, steps>>

\* A stop, or an order, ends the step in force.
EndStep ==
    /\ program = "stopped" /\ user = "waiting" /\ steps # {}
    /\ steps' = {}
    /\ UNCHANGED <<program, at, user, order>>

Show ==
    /\ program = "stopped" /\ user = "waiting" /\ order = "none" /\ at # {}
    /\ user' = "looking"
    /\ UNCHANGED <<program, at, order, steps>>

Give(o) ==
    /\ user = "looking"
    /\ user' = "waiting" /\ order' = o
    /\ UNCHANGED <<program, at, steps>>

\* Once it is ordered to go, the program is no longer shown.
Leave ==
    /\ program = "stopped" /\ order = "go" /\ at # {}
    /\ at' = {}
    /\ UNCHANGED <<program, user, order, steps>>

StartStep ==
    /\ program = "stopped" /\ order = "step" /\ at # {} /\ steps = {}
    /\ steps' = at
    /\ UNCHANGED <<program, at, user, order>>

\* A step may be refused: the program stays stopped, its thread unknown.
Refuse ==
    /\ program = "stopped" /\ order = "step"
    /\ user' = "looking" /\ order' = "none" /\ at' = {}
    /\ UNCHANGED <<program, steps>>

Resume ==
    /\ program = "stopped"
    /\ \/ order = "go" /\ at = {} /\ steps = {}
       \/ order = "step" /\ at # {} /\ steps = at
    /\ program' = "running" /\ at' = {} /\ order' = "none"
    /\ UNCHANGED <<user, steps>>

\* The program ends, or the user leaves it.
End ==
    /\ program # "over"
    /\ program' = "over" /\ at' = {}
    /\ user' = "waiting" /\ order' = "none" /\ steps' = {}

DebuggeeNext ==
    \/ \E t \in Threads : Stop(t)
    \/ \E o \in {"go", "step"} : Give(o)
    \/ Pause \/ RunOn \/ EndStep \/ Show \/ Leave
    \/ StartStep \/ Refuse \/ Resume \/ End

DebuggeeSpec == DebuggeeInit /\ [][DebuggeeNext]_debuggeeVars
=============================================================================
