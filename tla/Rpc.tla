-------------------------------- MODULE Rpc --------------------------------
(***************************************************************************)
(* What JdwpClient::send_command promises its callers: a call is carried   *)
(* out by the JVM at most once, and returns once, either with the reply to *)
(* that very call - which the JVM then did carry out - or with an error,   *)
(* which says nothing about what the JVM did.                              *)
(***************************************************************************)
EXTENDS Naturals

CONSTANT Callers    \* the tasks that issue commands

VARIABLES
    asked,          \* number of calls so far; a call is named by its number
    carriedOut,     \* the calls the JVM has carried out
    call,           \* the call each caller is in; 0 is none
    outcome         \* whose reply its last call returned; 0 is an error

rpcVars == <<asked, carriedOut, call, outcome>>

RpcInit ==
    /\ asked = 0 /\ carriedOut = {}
    /\ call = [c \in Callers |-> 0]
    /\ outcome = [c \in Callers |-> 0]

Ask(c) ==
    /\ call[c] = 0
    /\ asked' = asked + 1
    /\ call' = [call EXCEPT ![c] = asked']
    /\ UNCHANGED <<carriedOut, outcome>>

CarryOut(n) ==
    /\ n \in 1 .. asked
    /\ n \notin carriedOut
    /\ carriedOut' = carriedOut \cup {n}
    /\ UNCHANGED <<asked, call, outcome>>

Return(c, result) ==
    /\ call[c] # 0
    /\ result = 0 \/ (result = call[c] /\ result \in carriedOut)
    /\ call' = [call EXCEPT ![c] = 0]
    /\ outcome' = [outcome EXCEPT ![c] = result]
    /\ UNCHANGED <<asked, carriedOut>>

RpcNext == \/ \E c \in Callers : Ask(c)
           \/ \E c \in Callers, result \in 0 .. asked : Return(c, result)
           \/ \E n \in 1 .. asked : CarryOut(n)

RpcSpec == RpcInit /\ [][RpcNext]_rpcVars
=============================================================================
