------------------------- MODULE JdwpClientProofs --------------------------
(***************************************************************************)
(* JdwpClient implements Rpc, for any callers and any number of calls and  *)
(* events.                                                                 *)
(***************************************************************************)
EXTENDS JdwpClient, SequenceTheorems, TLAPS

-----------------------------------------------------------------------------
(* The inductive invariant.                                                *)

Queued == {writeTx[i] : i \in DOMAIN writeTx}

\* The commands that have left their caller.
Sent == Queued \cup toJvm \cup carriedOut

\* Everything is named by an id that has been allocated, and a caller that is
\* idle has none.
IdsAllocated ==
    /\ Sent \subseteq 1 .. nextId - 1
    /\ \A p \in pending : p.id < nextId
    /\ \A c \in Callers : /\ caller[c].id < nextId
                          /\ caller[c].pc = "idle" => caller[c].id = 0

\* A command is in one place at a time: with its caller, in the channel, with
\* the JVM, or carried out.
SentOnce ==
    /\ \A i, j \in DOMAIN writeTx : writeTx[i] = writeTx[j] => i = j
    /\ Queued \cap (toJvm \cup carriedOut) = {}
    /\ toJvm \cap carriedOut = {}
    /\ \A c \in Callers :
           caller[c].pc \in {"insert", "enqueue"} => caller[c].id \notin Sent

\* A reply answers a command that was carried out.
RepliesAnswer ==
    \A i \in DOMAIN wire : wire[i].kind = "reply" => wire[i].id \in carriedOut

\* A sender in the map belongs to the call its caller is in, or to one that
\* failed before its command was sent, and will never be.
SendersOwned ==
    \A p \in pending :
        \/ /\ caller[p.caller].id = p.id
           /\ caller[p.caller].pc \in {"enqueue", "await"}
        \/ p.id \notin Sent /\ \A c \in Callers : caller[c].id # p.id

\* What is in a caller's slot is the reply to its call, and its sender is used up.
SlotsAnswer ==
    \A c \in Callers : slot[c] # 0 =>
        /\ slot[c] = caller[c].id /\ slot[c] \in carriedOut
        /\ caller[c].pc \in {"enqueue", "await"}
        /\ [id |-> caller[c].id, caller |-> c] \notin pending

ClientInv == /\ TypeOK /\ IdsAllocated /\ SentOnce
             /\ RepliesAnswer /\ SendersOwned /\ SlotsAnswer

-----------------------------------------------------------------------------
(* Queues.                                                                 *)

\* What is left of a queue is what was behind its head.
LEMMA TailOfQueue ==
    ASSUME NEW S, NEW s \in Seq(S), s # <<>>
    PROVE  /\ Tail(s) \in Seq(S) /\ Head(s) = s[1]
           /\ Len(s) \in Nat /\ Len(s) >= 1 /\ DOMAIN s = 1 .. Len(s)
           /\ Len(Tail(s)) = Len(s) - 1
           /\ DOMAIN Tail(s) = 1 .. Len(s) - 1
           /\ \A i \in 1 .. Len(s) - 1 : Tail(s)[i] = s[i + 1]
BY HeadTailProperties

\* A queue that has grown by one element.
LEMMA GrownQueue ==
    ASSUME NEW S, NEW s \in Seq(S), NEW e \in S
    PROVE  /\ Append(s, e) \in Seq(S)
           /\ Len(s) \in Nat /\ DOMAIN s = 1 .. Len(s)
           /\ DOMAIN Append(s, e) = 1 .. Len(s) + 1
           /\ \A i \in 1 .. Len(s) : Append(s, e)[i] = s[i]
           /\ Append(s, e)[Len(s) + 1] = e
BY AppendProperties

-----------------------------------------------------------------------------
(* The callers.                                                            *)

LEMMA InvAllocate ==
    ASSUME ClientInv, NEW c \in Callers, AllocateId(c)
    PROVE  ClientInv'
<1> USE DEF ClientInv, AllocateId, Fresh
<1>1. /\ nextId \in Nat /\ nextId \in Ids /\ nextId' = nextId + 1
      /\ nextId' \in 1 .. MaxCalls + 1
  BY BoundsAssumption DEF TypeOK, Ids
<1>2. caller' = [caller EXCEPT ![c] = [pc |-> "insert", id |-> nextId]]
  OBVIOUS
<1>3. UNCHANGED <<conn, pending, slot, returned, writeTx, writeLoop, toJvm,
                  carriedOut, answering, emitted, wire, readLoop, eventRx,
                  consumer>>
  BY DEF writeVars, jvmVars, eventVars
<1>4. TypeOK'
  BY <1>1, <1>2, <1>3, BoundsAssumption DEF TypeOK, IdsAllocated, Ids, Packet
<1>5. Sent' = Sent /\ nextId \notin Sent
  BY <1>1, <1>3 DEF Sent, Queued, IdsAllocated
<1>6. IdsAllocated'
  BY <1>1, <1>2, <1>3, <1>5 DEF IdsAllocated, TypeOK, Ids
<1>7. SentOnce'
  BY <1>2, <1>3, <1>5 DEF SentOnce, Queued, TypeOK
<1>8. RepliesAnswer'
  BY <1>3 DEF RepliesAnswer
<1>9. SendersOwned'
  BY <1>1, <1>2, <1>3, <1>5 DEF SendersOwned, IdsAllocated, TypeOK, Ids
<1>10. SlotsAnswer'
  BY <1>1, <1>2, <1>3 DEF SlotsAnswer, IdsAllocated, TypeOK, Ids
<1> QED
  BY <1>4, <1>6, <1>7, <1>8, <1>9, <1>10

LEMMA InvInsert ==
    ASSUME ClientInv, NEW c \in Callers, InsertSender(c)
    PROVE  ClientInv'
<1> USE DEF ClientInv, InsertSender
<1>1. caller' = [caller EXCEPT ![c].pc = "enqueue"]
  OBVIOUS
<1>2. /\ caller[c].id \in Ids /\ caller[c].id < nextId
      /\ caller[c].id \notin Sent
  BY DEF TypeOK, IdsAllocated, SentOnce
<1>3. UNCHANGED <<conn, nextId, slot, returned, writeTx, writeLoop, toJvm,
                  carriedOut, answering, emitted, wire, readLoop, eventRx,
                  consumer>>
  BY DEF writeVars, jvmVars, eventVars
<1>4. pending' = {p \in pending : p.id # caller[c].id} \cup
                     {[id |-> caller[c].id, caller |-> c]}
  OBVIOUS
<1>5. TypeOK'
  BY <1>1, <1>2, <1>3, <1>4 DEF TypeOK
<1>6. Sent' = Sent
  BY <1>3 DEF Sent, Queued
<1>7. IdsAllocated'
  BY <1>1, <1>2, <1>3, <1>4, <1>6 DEF IdsAllocated, TypeOK
<1>8. SentOnce'
  BY <1>1, <1>3, <1>6 DEF SentOnce, Queued, TypeOK
<1>9. RepliesAnswer'
  BY <1>3 DEF RepliesAnswer
<1>10. SendersOwned'
  BY <1>1, <1>3, <1>4, <1>6 DEF SendersOwned, TypeOK
<1>11. SlotsAnswer'
  BY <1>1, <1>2, <1>3, <1>4 DEF SlotsAnswer, TypeOK, Ids
<1> QED
  BY <1>5, <1>7, <1>8, <1>9, <1>10, <1>11

LEMMA InvEnqueue ==
    ASSUME ClientInv, NEW c \in Callers, EnqueueCommand(c)
    PROVE  ClientInv'
<1> USE DEF ClientInv, EnqueueCommand
<1>1. caller' = [caller EXCEPT ![c].pc = "await"]
  OBVIOUS
<1>2. /\ caller[c].id \in Ids /\ caller[c].id \in 1 .. nextId - 1
      /\ caller[c].id \notin Sent
  BY DEF TypeOK, IdsAllocated, SentOnce, Ids
<1>3. UNCHANGED <<conn, nextId, pending, slot, returned, writeLoop, toJvm,
                  carriedOut, answering, emitted, wire, readLoop, eventRx,
                  consumer>>
  BY DEF jvmVars, eventVars
<1>4. /\ writeTx' \in Seq(Ids)
      /\ Len(writeTx) \in Nat /\ DOMAIN writeTx = 1 .. Len(writeTx)
      /\ DOMAIN writeTx' = 1 .. Len(writeTx) + 1
      /\ \A i \in 1 .. Len(writeTx) : writeTx'[i] = writeTx[i]
      /\ writeTx'[Len(writeTx) + 1] = caller[c].id
  <2>1. writeTx \in Seq(Ids)
    BY DEF TypeOK
  <2> QED
    BY <1>2, <2>1, GrownQueue
<1>5. Queued' = Queued \cup {caller[c].id}
  BY <1>4 DEF Queued
<1>6. TypeOK'
  BY <1>1, <1>3, <1>4 DEF TypeOK
<1>7. Sent' = Sent \cup {caller[c].id}
  BY <1>3, <1>5 DEF Sent
<1>8. IdsAllocated'
  BY <1>1, <1>2, <1>3, <1>7 DEF IdsAllocated, TypeOK
<1>9. SentOnce'
  <2>1. \A i, j \in DOMAIN writeTx' : writeTx'[i] = writeTx'[j] => i = j
    BY <1>2, <1>4 DEF SentOnce, Sent, Queued
  <2>2. (Queued \cap (toJvm \cup carriedOut) = {} /\ toJvm \cap carriedOut = {})'
    BY <1>2, <1>3, <1>5 DEF SentOnce, Sent
  <2>3. \A d \in Callers : caller'[d].pc \in {"insert", "enqueue"} =>
                               caller'[d].id \notin Sent'
    BY <1>1, <1>7 DEF SentOnce, TypeOK
  <2> QED
    BY <2>1, <2>2, <2>3 DEF SentOnce
<1>10. RepliesAnswer'
  BY <1>3 DEF RepliesAnswer
<1>11. SendersOwned'
  BY <1>1, <1>2, <1>3, <1>7 DEF SendersOwned, TypeOK
<1>12. SlotsAnswer'
  BY <1>1, <1>3 DEF SlotsAnswer, TypeOK
<1> QED
  BY <1>6, <1>8, <1>9, <1>10, <1>11, <1>12

\* The call fails before its command is sent, or ends after: its sender, if it
\* is still in the map, is of no use to anybody.
LEMMA InvReturns ==
    ASSUME ClientInv, NEW c \in Callers,
           EnqueueFails(c) \/ AwaitReturns(c) \/ AwaitFails(c)
    PROVE  ClientInv'
<1> USE DEF ClientInv
<1>1. PICK result \in 0 .. MaxCalls : Returns(c, result)
  BY BoundsAssumption DEF EnqueueFails, AwaitReturns, AwaitFails, TypeOK
<1>2. /\ caller' = [caller EXCEPT ![c] = Idle]
      /\ returned' = [returned EXCEPT ![c] = result]
      /\ slot' = [slot EXCEPT ![c] = 0]
  BY <1>1 DEF Returns
<1>3. UNCHANGED <<conn, nextId, pending, writeTx, writeLoop, toJvm, carriedOut,
                  answering, emitted, wire, readLoop, eventRx, consumer>>
  BY <1>1 DEF EnqueueFails, AwaitReturns, AwaitFails, Returns, writeVars,
              jvmVars, eventVars
<1>4. caller[c].pc # "idle" /\ caller[c].id \in Ids
  BY DEF EnqueueFails, AwaitReturns, AwaitFails, TypeOK
<1>5. \/ caller[c].pc = "enqueue" /\ caller[c].id \notin Sent
      \/ [id |-> caller[c].id, caller |-> c] \notin pending
  BY DEF EnqueueFails, AwaitReturns, AwaitFails, SentOnce, SlotsAnswer
<1>6. TypeOK'
  BY <1>2, <1>3, BoundsAssumption DEF TypeOK, Idle, Ids
<1>7. Sent' = Sent
  BY <1>3 DEF Sent, Queued
<1>8. IdsAllocated'
  BY <1>2, <1>3, <1>7 DEF IdsAllocated, TypeOK, Idle
<1>9. SentOnce'
  BY <1>2, <1>3, <1>7 DEF SentOnce, Queued, TypeOK, Idle
<1>10. RepliesAnswer'
  BY <1>3 DEF RepliesAnswer
<1>11. SendersOwned'
  <2>1. ASSUME NEW p \in pending
        PROVE  \/ /\ caller'[p.caller].id = p.id
                  /\ caller'[p.caller].pc \in {"enqueue", "await"}
               \/ p.id \notin Sent' /\ \A d \in Callers : caller'[d].id # p.id
    <3>1. p = [id |-> p.id, caller |-> p.caller] /\ p.caller \in Callers /\ p.id \in Ids
      BY DEF TypeOK
    <3>2. CASE p.caller = c /\ caller[c].id = p.id
      <4>1. p.id \notin Sent
        BY <1>5, <3>1, <3>2
      <4>2. \A d \in Callers \ {c} : caller[d].id # p.id
        BY <1>4, <3>2 DEF TypeOK
      <4> QED
        BY <1>2, <1>7, <3>1, <4>1, <4>2 DEF TypeOK, Idle, Ids
    <3>3. CASE ~(p.caller = c /\ caller[c].id = p.id)
      <4>1. p.id # 0 /\ caller'[c].id = 0
        BY <1>2, <3>1 DEF TypeOK, Idle, Ids
      <4>2. \A d \in Callers \ {c} : caller'[d] = caller[d]
        BY <1>2 DEF TypeOK
      <4>3. CASE /\ caller[p.caller].id = p.id
                 /\ caller[p.caller].pc \in {"enqueue", "await"}
        BY <3>1, <3>3, <4>2, <4>3
      <4>4. CASE p.id \notin Sent /\ \A d \in Callers : caller[d].id # p.id
        BY <1>7, <4>1, <4>2, <4>4
      <4> QED
        BY <4>3, <4>4 DEF SendersOwned
    <3> QED
      BY <3>2, <3>3
  <2> QED
    BY <1>3, <2>1 DEF SendersOwned
<1>12. SlotsAnswer'
  BY <1>2, <1>3 DEF SlotsAnswer, TypeOK
<1> QED
  BY <1>6, <1>8, <1>9, <1>10, <1>11, <1>12

-----------------------------------------------------------------------------
(* The write loop.                                                         *)

LEMMA InvWrite ==
    ASSUME ClientInv, WriteOne \/ WriteFails
    PROVE  ClientInv'
<1> USE DEF ClientInv
<1>1. /\ writeTx \in Seq(Ids) /\ writeTx # <<>>
      /\ UNCHANGED <<conn, nextId, caller, returned, pending, slot, carriedOut,
                     answering, emitted, wire, readLoop, eventRx, consumer>>
  BY DEF WriteOne, WriteFails, TypeOK, callVars, jvmVars, eventVars
<1>2. /\ writeTx' \in Seq(Ids) /\ writeLoop' \in {"running", "ended"}
      /\ \A i, j \in DOMAIN writeTx' : writeTx'[i] = writeTx'[j] => i = j
      /\ Queued' \subseteq Queued /\ toJvm' \subseteq toJvm \cup Queued
      /\ Queued' \cap toJvm' = {}
  <2>1. CASE WriteOne
    <3>1. /\ writeTx' = Tail(writeTx) /\ writeLoop' = writeLoop
          /\ toJvm' \subseteq toJvm \cup {Head(writeTx)}
      BY <2>1 DEF WriteOne
    <3>2. /\ Tail(writeTx) \in Seq(Ids) /\ Head(writeTx) = writeTx[1]
          /\ Len(writeTx) \in Nat /\ Len(writeTx) >= 1
          /\ DOMAIN writeTx = 1 .. Len(writeTx)
          /\ DOMAIN Tail(writeTx) = 1 .. Len(writeTx) - 1
          /\ \A i \in 1 .. Len(writeTx) - 1 : Tail(writeTx)[i] = writeTx[i + 1]
      BY <1>1, TailOfQueue
    <3>3. \A i \in DOMAIN writeTx' : /\ i + 1 \in DOMAIN writeTx /\ i \in Nat
                                     /\ writeTx'[i] = writeTx[i + 1]
      BY <3>1, <3>2
    <3>4. \A i, j \in DOMAIN writeTx' : writeTx'[i] = writeTx'[j] => i = j
      BY <3>3 DEF SentOnce
    <3>5. Queued' \subseteq Queued /\ Head(writeTx) \in Queued
      BY <3>2, <3>3 DEF Queued
    <3>6. Head(writeTx) \notin Queued'
      BY <3>2, <3>3 DEF Queued, SentOnce
    <3> QED
      BY <3>1, <3>2, <3>4, <3>5, <3>6 DEF SentOnce, TypeOK
  <2>2. CASE WriteFails
    BY <2>2 DEF WriteFails, jvmVars, Queued, SentOnce
  <2> QED
    BY <2>1, <2>2
<1>3. Queued \subseteq Ids
  BY <1>1 DEF Queued
<1>4. TypeOK'
  BY <1>1, <1>2, <1>3 DEF TypeOK
<1>5. Sent' \subseteq Sent
  BY <1>1, <1>2 DEF Sent
<1>6. IdsAllocated'
  BY <1>1, <1>5 DEF IdsAllocated
<1>7. SentOnce'
  BY <1>1, <1>2, <1>5 DEF SentOnce
<1>8. RepliesAnswer' /\ SlotsAnswer'
  BY <1>1 DEF RepliesAnswer, SlotsAnswer
<1>9. SendersOwned'
  BY <1>1, <1>5 DEF SendersOwned
<1> QED
  BY <1>4, <1>6, <1>7, <1>8, <1>9

-----------------------------------------------------------------------------
(* The JVM.                                                                *)

LEMMA InvCarryOut ==
    ASSUME ClientInv, NEW n \in Ids, JvmCarriesOut(n)
    PROVE  ClientInv'
<1> USE DEF ClientInv, JvmCarriesOut
<1>1. UNCHANGED <<conn, nextId, caller, returned, pending, slot, writeTx,
                  writeLoop, emitted, wire, readLoop, eventRx, consumer>>
  BY DEF callVars, writeVars, eventVars
<1>2. TypeOK'
  BY <1>1 DEF TypeOK
<1>3. Sent' = Sent /\ Queued' = Queued
  BY <1>1 DEF Sent, Queued
<1>4. IdsAllocated' /\ SendersOwned'
  BY <1>1, <1>3 DEF IdsAllocated, SendersOwned
<1>5. SentOnce'
  BY <1>1, <1>3 DEF SentOnce
<1>6. RepliesAnswer' /\ SlotsAnswer'
  BY <1>1 DEF RepliesAnswer, SlotsAnswer
<1> QED
  BY <1>2, <1>4, <1>5, <1>6

\* A packet is sent to the read loop: the reply to a command that was carried
\* out, or an event.
LEMMA InvSend ==
    ASSUME ClientInv,
           \/ \E n \in Ids : JvmReplies(n)
           \/ \E kind \in {"event", "VmDeath"} : JvmEmits(kind)
    PROVE  ClientInv'
<1> USE DEF ClientInv
<1>1. PICK p \in Packet : /\ wire' = Append(wire, p)
                          /\ p.kind = "reply" => p.id \in carriedOut
  <2>1. CASE \E n \in Ids : JvmReplies(n)
    <3>1. PICK n \in Ids : JvmReplies(n)
      BY <2>1
    <3>2. [kind |-> "reply", id |-> n] \in Packet /\ n \in carriedOut
      BY <3>1 DEF JvmReplies, Packet, Ids, TypeOK
    <3> QED
      BY <3>1, <3>2 DEF JvmReplies
  <2>2. CASE \E kind \in {"event", "VmDeath"} : JvmEmits(kind)
    <3>1. PICK kind \in {"event", "VmDeath"} : JvmEmits(kind)
      BY <2>2
    <3>2. [kind |-> kind, id |-> 0] \in Packet
      BY BoundsAssumption DEF Packet
    <3> QED
      BY <3>1, <3>2 DEF JvmEmits
  <2> QED
    BY <2>1, <2>2
<1>2. /\ UNCHANGED <<conn, nextId, caller, returned, pending, slot, writeTx,
                     writeLoop, toJvm, carriedOut, readLoop, eventRx, consumer>>
      /\ answering' \subseteq answering /\ emitted' \in 0 .. MaxEvents
  <2>1. CASE \E n \in Ids : JvmReplies(n)
    BY <2>1 DEF JvmReplies, TypeOK, callVars, writeVars, eventVars
  <2>2. CASE \E kind \in {"event", "VmDeath"} : JvmEmits(kind)
    BY <2>2, BoundsAssumption DEF JvmEmits, TypeOK, callVars, writeVars, eventVars
  <2> QED
    BY <2>1, <2>2
<1>3. /\ wire' \in Seq(Packet)
      /\ Len(wire) \in Nat /\ DOMAIN wire = 1 .. Len(wire)
      /\ DOMAIN wire' = 1 .. Len(wire) + 1
      /\ \A i \in 1 .. Len(wire) : wire'[i] = wire[i]
      /\ wire'[Len(wire) + 1] = p
  <2>1. wire \in Seq(Packet)
    BY DEF TypeOK
  <2> QED
    BY <1>1, <2>1, GrownQueue
<1>4. TypeOK'
  BY <1>2, <1>3 DEF TypeOK
<1>5. Sent' = Sent /\ Queued' = Queued
  BY <1>2 DEF Sent, Queued
<1>6. IdsAllocated' /\ SendersOwned' /\ SlotsAnswer'
  BY <1>2, <1>5 DEF IdsAllocated, SendersOwned, SlotsAnswer
<1>7. SentOnce'
  BY <1>2, <1>5 DEF SentOnce
<1>8. RepliesAnswer'
  BY <1>1, <1>2, <1>3 DEF RepliesAnswer
<1> QED
  BY <1>4, <1>6, <1>7, <1>8

-----------------------------------------------------------------------------
(* The read loop and the event loop.                                       *)

LEMMA InvReadReply ==
    ASSUME ClientInv, ReadReply
    PROVE  ClientInv'
<1> USE DEF ClientInv
<1> DEFINE n == Head(wire).id
<1>1. /\ wire \in Seq(Packet) /\ wire # <<>> /\ wire' = Tail(wire)
      /\ Head(wire).kind = "reply"
      /\ UNCHANGED <<conn, nextId, caller, returned, writeTx, writeLoop, toJvm,
                     carriedOut, answering, emitted, readLoop, eventRx, consumer>>
  BY DEF ReadReply, TypeOK, callVars, writeVars, jvmVars, eventVars
<1>2. /\ Tail(wire) \in Seq(Packet) /\ Head(wire) = wire[1]
      /\ Len(wire) \in Nat /\ Len(wire) >= 1 /\ DOMAIN wire = 1 .. Len(wire)
      /\ DOMAIN Tail(wire) = 1 .. Len(wire) - 1
      /\ \A i \in 1 .. Len(wire) - 1 : Tail(wire)[i] = wire[i + 1]
  BY <1>1, TailOfQueue
<1>3. n \in carriedOut /\ n \in Ids /\ n # 0
  <2>1. 1 \in DOMAIN wire /\ wire[1].kind = "reply" /\ n = wire[1].id
    BY <1>1, <1>2
  <2>2. n \in carriedOut
    BY <2>1 DEF RepliesAnswer
  <2>3. carriedOut \subseteq Ids /\ \A i \in Ids : i # 0
    BY BoundsAssumption DEF TypeOK, Ids
  <2> QED
    BY <2>2, <2>3
<1>4. RepliesAnswer'
  BY <1>1, <1>2 DEF RepliesAnswer
<1>5. Sent' = Sent /\ Queued' = Queued
  BY <1>1 DEF Sent, Queued
<1>6. SentOnce'
  BY <1>1, <1>5 DEF SentOnce
<1>7. CASE UNCHANGED <<pending, slot>>
  <2>1. TypeOK'
    BY <1>1, <1>2, <1>7 DEF TypeOK
  <2>2. IdsAllocated' /\ SendersOwned' /\ SlotsAnswer'
    BY <1>1, <1>5, <1>7 DEF IdsAllocated, SendersOwned, SlotsAnswer
  <2> QED
    BY <1>4, <1>6, <2>1, <2>2
<1>8. CASE ~UNCHANGED <<pending, slot>>
  <2>1. PICK p \in pending : /\ p.id = n
                             /\ pending' = pending \ {p}
                             /\ slot' = [slot EXCEPT ![p.caller] = n]
    BY <1>8 DEF ReadReply, Addressee
  <2>2. p.caller \in Callers /\ p = [id |-> p.id, caller |-> p.caller]
    BY DEF TypeOK
  <2>3. /\ caller[p.caller].id = n
        /\ caller[p.caller].pc \in {"enqueue", "await"}
    BY <1>3, <2>1 DEF SendersOwned, Sent
  <2>4. TypeOK'
    BY <1>1, <1>2, <1>3, <2>1 DEF TypeOK, Ids
  <2>5. IdsAllocated' /\ SendersOwned'
    BY <1>1, <1>5, <2>1 DEF IdsAllocated, SendersOwned
  <2>6. SlotsAnswer'
    BY <1>1, <1>3, <2>1, <2>2, <2>3 DEF SlotsAnswer, TypeOK
  <2> QED
    BY <1>4, <1>6, <2>4, <2>5, <2>6
<1> QED
  BY <1>7, <1>8

\* The other steps take from the queues and the map at most.
LEMMA InvOther ==
    ASSUME ClientInv,
           \/ JvmCloses \/ ReadEvent \/ ReadEof \/ ClearPending \/ SignalDeath
           \/ ConsumeEvent \/ ConsumerEnds
    PROVE  ClientInv'
<1> USE DEF ClientInv
<1>1. /\ UNCHANGED <<nextId, caller, returned, slot, writeTx, writeLoop, toJvm,
                     carriedOut, answering, emitted>>
      /\ pending' \subseteq pending
  BY DEF JvmCloses, ReadEvent, ReadEof, ClearPending, SignalDeath, ConsumeEvent,
         ConsumerEnds, callVars, writeVars, jvmVars
<1>2. wire \in Seq(Packet) /\ eventRx \in Seq({"event", "VmDeath"})
  BY DEF TypeOK
<1>3. /\ wire' \in Seq(Packet)
      /\ \A i \in DOMAIN wire' : \E j \in DOMAIN wire : wire'[i] = wire[j]
  <2>1. CASE ReadEvent
    <3>1. wire # <<>> /\ wire' = Tail(wire)
      BY <2>1 DEF ReadEvent
    <3>2. /\ Tail(wire) \in Seq(Packet)
          /\ Len(wire) \in Nat /\ Len(wire) >= 1 /\ DOMAIN wire = 1 .. Len(wire)
          /\ DOMAIN Tail(wire) = 1 .. Len(wire) - 1
          /\ \A i \in 1 .. Len(wire) - 1 : Tail(wire)[i] = wire[i + 1]
      BY <1>2, <3>1, TailOfQueue
    <3>3. \A i \in DOMAIN wire' : i + 1 \in DOMAIN wire /\ wire'[i] = wire[i + 1]
      BY <3>1, <3>2
    <3> QED
      BY <3>1, <3>2, <3>3
  <2>2. CASE ReadEof
    BY <2>2 DEF ReadEof
  <2>3. CASE wire' = wire
    BY <1>2, <2>3
  <2> QED
    BY <2>1, <2>2, <2>3 DEF JvmCloses, ClearPending, SignalDeath, ConsumeEvent,
                            ConsumerEnds
<1>4. eventRx' \in Seq({"event", "VmDeath"})
  <2>1. CASE ReadEvent
    <3>1. wire # <<>> /\ Head(wire) \in Packet /\ Head(wire).kind # "reply"
      BY <1>2, <2>1, HeadTailProperties DEF ReadEvent
    <3>2. Head(wire).kind \in {"event", "VmDeath"}
      BY <3>1 DEF Packet
    <3> QED
      BY <1>2, <2>1, <3>2, AppendProperties DEF ReadEvent
  <2>2. CASE SignalDeath
    BY <1>2, <2>2, AppendProperties DEF SignalDeath
  <2>3. CASE ConsumeEvent
    BY <1>2, <2>3, HeadTailProperties DEF ConsumeEvent
  <2>4. CASE ConsumerEnds
    BY <2>4 DEF ConsumerEnds
  <2>5. CASE eventRx' = eventRx
    BY <1>2, <2>5
  <2> QED
    BY <2>1, <2>2, <2>3, <2>4, <2>5 DEF JvmCloses, ReadEof, ClearPending, eventVars
<1>5. /\ conn' \in {"open", "closed"}
      /\ readLoop' \in {"reading", "clearing", "signalling", "ended"}
      /\ consumer' \in {"running", "ending", "ended"}
  BY DEF JvmCloses, ReadEvent, ReadEof, ClearPending, SignalDeath, ConsumeEvent,
         ConsumerEnds, eventVars, TypeOK
<1>6. TypeOK'
  BY <1>1, <1>3, <1>4, <1>5 DEF TypeOK
<1>7. Sent' = Sent /\ Queued' = Queued
  BY <1>1 DEF Sent, Queued
<1>8. IdsAllocated' /\ SendersOwned' /\ SlotsAnswer'
  BY <1>1, <1>7 DEF IdsAllocated, SendersOwned, SlotsAnswer
<1>9. SentOnce'
  BY <1>1, <1>7 DEF SentOnce
<1>10. RepliesAnswer'
  BY <1>1, <1>3 DEF RepliesAnswer
<1> QED
  BY <1>6, <1>8, <1>9, <1>10

-----------------------------------------------------------------------------
(* The theorems.                                                           *)

LEMMA InvStep == ClientInv /\ [Next]_vars => ClientInv'
<1> SUFFICES ASSUME ClientInv, [Next]_vars PROVE ClientInv'
  OBVIOUS
<1>1. ASSUME NEW c \in Callers, AllocateId(c) \/ SendCommand(c)
      PROVE  ClientInv'
  BY <1>1, InvAllocate, InvInsert, InvEnqueue, InvReturns DEF SendCommand
<1>2. CASE WriteOne \/ WriteFails
  BY <1>2, InvWrite
<1>3. ASSUME NEW n \in Ids, JvmCarriesOut(n) \/ JvmReplies(n)
      PROVE  ClientInv'
  BY <1>3, InvCarryOut, InvSend
<1>4. ASSUME NEW kind \in {"event", "VmDeath"}, JvmEmits(kind)
      PROVE  ClientInv'
  BY <1>4, InvSend
<1>5. CASE JvmCloses \/ ReadLoop \/ ConsumeEvent \/ ConsumerEnds
  BY <1>5, InvReadReply, InvOther DEF ReadLoop
<1>6. CASE UNCHANGED vars
  BY <1>6 DEF ClientInv, TypeOK, IdsAllocated, SentOnce, RepliesAnswer,
              SendersOwned, SlotsAnswer, Sent, Queued, vars, callVars,
              writeVars, jvmVars, eventVars
<1> QED
  BY <1>1, <1>2, <1>3, <1>4, <1>5, <1>6 DEF Next

LEMMA InvInit == Init => ClientInv
<1> SUFFICES ASSUME Init PROVE ClientInv
  OBVIOUS
<1>1. TypeOK
  BY BoundsAssumption DEF Init, TypeOK, Idle, Ids
<1>2. IdsAllocated /\ SentOnce
  BY DEF Init, IdsAllocated, SentOnce, Sent, Queued, Idle
<1>3. RepliesAnswer /\ SendersOwned /\ SlotsAnswer
  BY DEF Init, RepliesAnswer, SendersOwned, SlotsAnswer
<1> QED
  BY <1>1, <1>2, <1>3 DEF ClientInv

LEMMA ClientInvariant == Spec => []ClientInv
BY InvInit, InvStep, PTL DEF Spec

\* The type invariant of the client: in particular no two calls in progress
\* ever have the same id (next_id, jdwp.rs:297).
THEOREM TypeCorrect == Spec => []TypeOK
<1>1. ClientInv => TypeOK
  BY DEF ClientInv
<1> QED
  BY <1>1, ClientInvariant, PTL

\* A step of the client is a step of Rpc or changes nothing that Rpc sees.
LEMMA StepImplements ==
    ClientInv /\ [Next]_vars => [Promise!RpcNext]_Promise!rpcVars
<1> SUFFICES ASSUME ClientInv, [Next]_vars
             PROVE  Promise!RpcNext \/ UNCHANGED Promise!rpcVars
  BY DEF Promise!RpcNext
<1> USE DEF ClientInv, Promise!rpcVars
<1> DEFINE call == [c \in Callers |-> caller[c].id]
<1>1. ASSUME NEW c \in Callers, AllocateId(c)
      PROVE  Promise!RpcNext
  <2>1. caller[c].id = 0 /\ nextId \in Nat /\ nextId' = nextId + 1
    BY <1>1, BoundsAssumption DEF AllocateId, Fresh, IdsAllocated, TypeOK
  <2>2. call' = [call EXCEPT ![c] = nextId]
    BY <1>1 DEF AllocateId, TypeOK
  <2>3. Promise!Ask(c)
    BY <1>1, <2>1, <2>2 DEF Promise!Ask, AllocateId, jvmVars
  <2> QED
    BY <2>3 DEF Promise!RpcNext
<1>2. ASSUME NEW c \in Callers,
             EnqueueFails(c) \/ AwaitReturns(c) \/ AwaitFails(c)
      PROVE  Promise!RpcNext
  <2>1. PICK result \in {0, slot[c]} :
           Returns(c, result) /\ (result # 0 => AwaitReturns(c))
    BY <1>2 DEF EnqueueFails, AwaitReturns, AwaitFails
  <2>2. /\ caller[c].id # 0 /\ caller[c].id \in 0 .. nextId - 1
        /\ nextId \in Nat
        /\ result = 0 \/ (result = caller[c].id /\ result \in carriedOut)
    BY <1>2, <2>1, BoundsAssumption
       DEF EnqueueFails, AwaitReturns, AwaitFails, SlotsAnswer, IdsAllocated,
           TypeOK, Ids
  <2>3. call' = [call EXCEPT ![c] = 0]
    BY <2>1 DEF Returns, TypeOK, Idle
  <2>4. Promise!Return(c, result)
    BY <2>1, <2>2, <2>3 DEF Promise!Return, Returns, jvmVars
  <2> QED
    BY <2>2, <2>4 DEF Promise!RpcNext
<1>3. ASSUME NEW n \in Ids, JvmCarriesOut(n)
      PROVE  Promise!RpcNext
  <2>1. n \in 1 .. nextId - 1 /\ n \notin carriedOut
    BY <1>3 DEF JvmCarriesOut, IdsAllocated, SentOnce, Sent
  <2>2. Promise!CarryOut(n)
    BY <1>3, <2>1 DEF Promise!CarryOut, JvmCarriesOut, callVars
  <2> QED
    BY <2>1, <2>2 DEF Promise!RpcNext
<1>4. ASSUME NEW c \in Callers, InsertSender(c) \/ EnqueueCommand(c)
      PROVE  UNCHANGED Promise!rpcVars
  <2>1. PICK pc \in {"enqueue", "await"} : caller' = [caller EXCEPT ![c].pc = pc]
    BY <1>4 DEF InsertSender, EnqueueCommand
  <2>2. \A d \in Callers : caller'[d].id = caller[d].id
    BY <2>1 DEF TypeOK
  <2> QED
    BY <1>4, <2>2 DEF InsertSender, EnqueueCommand, jvmVars
<1>5. ASSUME \/ WriteOne \/ WriteFails
             \/ \E n \in Ids : JvmReplies(n)
             \/ \E kind \in {"event", "VmDeath"} : JvmEmits(kind)
             \/ JvmCloses \/ ReadLoop \/ ConsumeEvent \/ ConsumerEnds
             \/ UNCHANGED vars
      PROVE  UNCHANGED Promise!rpcVars
  <2>1. UNCHANGED <<nextId, caller, returned, carriedOut>>
    BY <1>5 DEF WriteOne, WriteFails, JvmReplies, JvmEmits, JvmCloses, ReadLoop,
                ReadReply, ReadEvent, ReadEof, ClearPending, SignalDeath,
                ConsumeEvent, ConsumerEnds, vars, callVars, jvmVars
  <2> QED
    BY <2>1
<1> QED
  BY <1>1, <1>2, <1>3, <1>4, <1>5 DEF Next, SendCommand

\* Every caller of send_command gets the reply to its own command, or an error;
\* no command is carried out twice (jdwp.rs:296).
THEOREM ClientImplementsRpc == Spec => ImplementsRpc
<1>1. Init => Promise!RpcInit
  BY DEF Init, Promise!RpcInit, Idle
<1> QED
  BY <1>1, StepImplements, ClientInvariant, PTL DEF Spec, ImplementsRpc,
     Promise!RpcSpec
=============================================================================
