-------------------------- MODULE TransportProofs --------------------------
(***************************************************************************)
(* Theorems about module Transport, for any number of documents and of     *)
(* events and for documents of any length: the numbers of the messages,    *)
(* the types, what is written, what is read and what is answered.          *)
(***************************************************************************)
EXTENDS Transport, SequenceTheorems, TLAPS

-----------------------------------------------------------------------------
(* The inductive invariant.                                                *)

InHand(t) == hand[t] # Nothing

\* What a task has numbered is its own, and no other task's number.
HandsDiffer ==
    /\ seq \in Nat
    /\ DOMAIN hand = Tasks
    /\ \A t \in Tasks : InHand(t) => hand[t].by = t /\ hand[t].number \in 1 .. seq
    /\ \A t, u \in Tasks :
           InHand(t) /\ InHand(u) /\ t # u => hand[t].number # hand[u].number

\* What has been sent was numbered before what is still in hand.
SentEarlier ==
    /\ sent \in Seq(Range(sent))
    /\ \A i \in DOMAIN sent :
           /\ sent[i].number \in 1 .. seq
           /\ \A t \in Tasks : InHand(t) =>
                  /\ sent[i].number # hand[t].number
                  /\ sent[i].by = t => sent[i].number < hand[t].number

NumberInv == HandsDiffer /\ SentEarlier /\ NumbersAreUnique

-----------------------------------------------------------------------------
\* A task takes the next number.
LEMMA InvDraw ==
    ASSUME NumberInv, NEW t \in Tasks, Draw(t)
    PROVE  NumberInv'
<1> USE DEF NumberInv
<1>1. /\ seq \in Nat /\ seq' = seq + 1 /\ sent' = sent
      /\ DOMAIN hand' = Tasks
      /\ hand'[t].number = seq + 1 /\ hand'[t].by = t
      /\ \A u \in Tasks \ {t} : hand'[u] = hand[u]
  BY DEF Draw, NextSeq, HandsDiffer
<1>2. HandsDiffer'
  BY <1>1 DEF HandsDiffer, InHand
<1>3. SentEarlier'
  <2>1. sent' \in Seq(Range(sent'))
    BY <1>1 DEF SentEarlier
  <2>2. ASSUME NEW i \in DOMAIN sent'
        PROVE  /\ sent'[i].number \in 1 .. seq'
               /\ \A u \in Tasks : InHand(u)' =>
                      /\ sent'[i].number # hand'[u].number
                      /\ sent'[i].by = u => sent'[i].number < hand'[u].number
    BY <1>1 DEF SentEarlier, InHand
  <2> QED
    BY <2>1, <2>2 DEF SentEarlier
<1>4. NumbersAreUnique'
  BY <1>1 DEF NumbersAreUnique
<1> QED
  BY <1>2, <1>3, <1>4

\* The message in hand is sent, or lost because the writer has ended.
LEMMA InvSend ==
    ASSUME NumberInv, NEW t \in Tasks, SendMessage(t)
    PROVE  NumberInv'
<1> USE DEF NumberInv
<1>1. /\ seq \in Nat /\ seq' = seq /\ InHand(t)
      /\ DOMAIN hand' = Tasks
      /\ ~InHand(t)'
      /\ \A u \in Tasks \ {t} : hand'[u] = hand[u]
      /\ sent' = sent \/ sent' = Append(sent, hand[t])
  BY DEF SendMessage, HandsDiffer, InHand
<1>2. HandsDiffer'
  BY <1>1 DEF HandsDiffer, InHand
<1>3. CASE sent' = sent
  <2>1. SentEarlier'
    BY <1>1, <1>3 DEF SentEarlier, InHand
  <2>2. NumbersAreUnique'
    BY <1>3 DEF NumbersAreUnique
  <2> QED
    BY <1>2, <2>1, <2>2
<1>4. CASE sent' = Append(sent, hand[t])
  <2> DEFINE S == Range(sent) \cup {hand[t]}
  <2>1. /\ sent \in Seq(S) /\ Len(sent) \in Nat
        /\ DOMAIN sent = 1 .. Len(sent)
    BY DEF SentEarlier
  <2>2. /\ sent' \in Seq(S)
        /\ DOMAIN sent' = 1 .. Len(sent) + 1
        /\ \A i \in DOMAIN sent : sent'[i] = sent[i]
        /\ sent'[Len(sent) + 1] = hand[t]
    BY <1>4, <2>1, AppendProperties
  <2>3. sent' \in Seq(Range(sent'))
    BY <2>2, SeqOfRange
  <2>4. ASSUME NEW i \in DOMAIN sent'
        PROVE  /\ sent'[i].number \in 1 .. seq'
               /\ \A u \in Tasks : InHand(u)' =>
                      /\ sent'[i].number # hand'[u].number
                      /\ sent'[i].by = u => sent'[i].number < hand'[u].number
    <3>1. CASE i \in DOMAIN sent
      BY <1>1, <2>2, <3>1 DEF SentEarlier, InHand
    <3>2. CASE i = Len(sent) + 1
      BY <1>1, <2>2, <3>2 DEF HandsDiffer, InHand
    <3> QED
      BY <2>1, <2>2, <3>1, <3>2
  <2>5. SentEarlier'
    BY <2>3, <2>4 DEF SentEarlier
  <2>6. ASSUME NEW j \in DOMAIN sent', NEW i \in 1 .. j - 1
        PROVE  /\ sent'[i].number # sent'[j].number
               /\ sent'[i].by = sent'[j].by => sent'[i].number < sent'[j].number
    <3>1. i \in DOMAIN sent /\ sent'[i] = sent[i]
      BY <2>1, <2>2
    <3>2. CASE j \in DOMAIN sent
      BY <2>2, <3>1, <3>2 DEF NumbersAreUnique
    <3>3. CASE j = Len(sent) + 1
      BY <1>1, <2>2, <3>1, <3>3 DEF SentEarlier, HandsDiffer
    <3> QED
      BY <2>1, <2>2, <3>2, <3>3
  <2>7. NumbersAreUnique'
    BY <2>6 DEF NumbersAreUnique
  <2> QED
    BY <1>2, <2>5, <2>7
<1> QED
  BY <1>1, <1>3, <1>4

\* When main returns, what was in hand is gone, and its number with it.
LEMMA InvReturns ==
    ASSUME NumberInv, MainReturns
    PROVE  NumberInv'
<1>1. /\ seq' = seq /\ sent' = sent /\ DOMAIN hand' = Tasks
      /\ \A t \in Tasks : ~InHand(t)'
  BY DEF MainReturns, InHand
<1> QED
  BY <1>1 DEF NumberInv, HandsDiffer, SentEarlier, NumbersAreUnique

LEMMA InvElse ==
    ASSUME NumberInv, UNCHANGED <<seq, hand, sent>>
    PROVE  NumberInv'
BY DEF NumberInv, HandsDiffer, SentEarlier, NumbersAreUnique, InHand

\* Nothing else numbers a message, or sends it.
LEMMA InvNext ==
    ASSUME NumberInv, [Next]_vars
    PROVE  NumberInv'
<1>1. CASE \/ EditorWrites \/ Deliver \/ EditorCloses \/ Writer
           \/ Emit("loop", "stopped") \/ Emit("stderr", "output") \/ LoopEnds
  <2>1. UNCHANGED <<seq, hand, sent>>
    BY <1>1 DEF EditorWrites, Writes, Deliver, EditorCloses, Writer, WriteHeader,
                WriteBody, WriteFails, Emit, LoopEnds, sendVars
  <2> QED
    BY <2>1, InvElse
<1>2. CASE \/ ReadLine \/ ReadBody \/ ReadEof \/ SpawnTasks \/ HandlerEnds \/ Leave
  <2>1. UNCHANGED <<seq, hand, sent>>
    BY <1>2 DEF ReadLine, ReadBody, ReadEof, SpawnTasks, HandlerEnds, Leave, sendVars
  <2> QED
    BY <2>1, InvElse
<1>3. CASE \E t \in Tasks : Draw(t) \/ SendMessage(t)
  BY <1>3, InvDraw, InvSend
<1>4. CASE MainReturns
  BY <1>4, InvReturns
<1>5. CASE UNCHANGED vars
  <2>1. UNCHANGED <<seq, hand, sent>>
    BY <1>5 DEF vars, sendVars
  <2> QED
    BY <2>1, InvElse
<1> QED
  BY <1>1, <1>2, <1>3, <1>4, <1>5 DEF Next, MainTask, OtherTask, Tasks

LEMMA InvInit == Init => NumberInv
<1> SUFFICES ASSUME Init PROVE NumberInv
  OBVIOUS
<1>1. HandsDiffer
  BY DEF Init, HandsDiffer, InHand
<1>2. SentEarlier /\ NumbersAreUnique
  BY DEF Init, SentEarlier, NumbersAreUnique
<1> QED
  BY <1>1, <1>2 DEF NumberInv

\* However many messages the main task, the event loop and the forwarder of
\* stderr send, and in whichever order they draw their numbers (server.rs:145,
\* server.rs:814) and put them into the channel: no number is used twice, and
\* the messages of one task leave in the order of their numbers.
THEOREM NumbersUnique == Spec => []NumbersAreUnique
<1>1. NumberInv => NumbersAreUnique
  BY DEF NumberInv
<1> QED
  BY InvInit, InvNext, <1>1, PTL DEF Spec

-----------------------------------------------------------------------------
(* Types.                                                                  *)

Document == [kind : Kinds, framed : BOOLEAN]
Line == [is : {"length"}, value : Nat] \cup {BadLength, OtherLine, BlankLine}
Byte == [is : {"byte"}, doc : Nat, at : Nat]
Item == Line \cup Byte

\* What is on its way to the writer was sent last.
SentLast ==
    /\ Len(channel) <= Len(sent)
    /\ \A i \in 1 .. Len(channel) : channel[i] = sent[Len(sent) - Len(channel) + i]

InTypes ==
    /\ documents \in Seq([kind : Kinds, framed : BOOLEAN])
    /\ Len(documents) <= MaxDocuments
    /\ unsent \in Seq(Item) /\ stdin \in Seq(Item)
    /\ editor \in {"open", "closed"}
MainTypes ==
    /\ reader \in [pc : {"header", "body", "failed"}, lengths : Seq(Nat)]
    /\ reader.pc = "body" => reader.lengths # <<>>
    /\ received \in Seq(1 .. Len(documents))
    /\ main \in {"reading", "handling", "leaving", "parting", "returned"}
TaskTypes ==
    /\ session \in BOOLEAN /\ (session => loop = "on")
    /\ loop \in {"none", "on", "ended"}
    /\ events \in 0 .. MaxEvents
SendTypes ==
    /\ seq \in Nat
    /\ todo \in [Tasks -> Seq(Message)]
    /\ hand \in [Tasks -> Numbered]
OutTypes ==
    /\ channel \in Seq(Numbered) /\ sent \in Seq(Numbered)
    /\ SentLast
    /\ writer \in {"idle", "body", "ended"}
    /\ writer = "body" => channel # <<>>
    /\ stdout \in Seq(Item)

TypeInv == InTypes /\ MainTypes /\ TaskTypes /\ SendTypes /\ OutTypes

\* A document has a byte at least, and each knows its document and its place.
LEMMA BytesType ==
    ASSUME NEW k \in Kinds \cup {OutKind}, NEW d \in Nat
    PROVE  /\ Length[k].bytes \in Nat \ {0}
           /\ Bytes(k, d) \in Seq(Byte) /\ Bytes(k, d) \in Seq(Item)
           /\ Len(Bytes(k, d)) = Length[k].bytes
           /\ \A i \in 1 .. Length[k].bytes :
                  Bytes(k, d)[i] = [is |-> "byte", doc |-> d, at |-> i]
<1> DEFINE n == Length[k].bytes
<1>1. n \in Nat \ {0}
  BY LengthAssumption
<1>2. Bytes(k, d) \in [1 .. n -> Byte]
  BY <1>1 DEF Bytes, Byte
<1>3. Bytes(k, d) \in Seq(Byte) /\ Len(Bytes(k, d)) = n
  BY <1>1, <1>2
<1>4. Bytes(k, d) \in Seq(Item)
  BY <1>3, SeqMonotonic DEF Item
<1> QED
  BY <1>1, <1>3, <1>4 DEF Bytes

LEMMA LineType ==
    /\ \A n \in Nat : LengthLine(n) \in Item
    /\ BadLength \in Item /\ OtherLine \in Item /\ BlankLine \in Item
BY DEF Item, Line, LengthLine

\* Whichever way the editor frames a document.
LEMMA FrameType ==
    ASSUME NEW k \in Kinds, NEW d \in Nat,
           NEW f \in {PlainFrame(k, d)} \cup WellFramed(k, d) \cup IllFramed(k, d)
    PROVE  f \in Seq(Item)
<1> DEFINE L == Length[k].bytes
<1>1. L \in Nat \ {0} /\ Bytes(k, d) \in Seq(Item)
  BY BytesType
<1>2. \A h \in Seq(Item) : h \o Bytes(k, d) \in Seq(Item)
  BY <1>1, ConcatProperties
<1>3. /\ LengthLine(L) \in Item /\ LengthLine(1) \in Item
      /\ LengthLine(L - 1) \in Item /\ LengthLine(L + 1) \in Item
  BY <1>1, LineType
<1> HIDE DEF L
<1>4. /\ <<LengthLine(L), BlankLine>> \in Seq(Item)
      /\ <<OtherLine, LengthLine(L), BlankLine>> \in Seq(Item)
      /\ <<LengthLine(1), LengthLine(L), BlankLine>> \in Seq(Item)
      /\ <<LengthLine(L - 1), BlankLine>> \in Seq(Item)
      /\ <<LengthLine(L + 1), BlankLine>> \in Seq(Item)
      /\ <<BadLength, BlankLine>> \in Seq(Item)
      /\ <<OtherLine, BlankLine>> \in Seq(Item)
  BY <1>3, LineType
<1> QED
  BY <1>2, <1>4 DEF PlainFrame, WellFramed, IllFramed, L

LEMMA SaysType ==
    ASSUME NEW k \in Kinds, NEW d \in Nat, NEW m \in Says(k, d)
    PROVE  m \in Seq(Message)
<1>1. /\ Answer(d) \in Message /\ Spawn \in Message
      /\ Event("initialized") \in Message /\ Event("terminated") \in Message
  BY DEF Message, Answer, Event, Spawn
<1>2. m \in {<<Answer(d), Event("initialized")>>, <<Spawn, Answer(d)>>,
             <<Answer(d), Event("terminated")>>, <<>>, <<Answer(d)>>}
  BY DEF Says
<1> HIDE DEF Message
<1>3. /\ <<Answer(d), Event("initialized")>> \in Seq(Message)
      /\ <<Spawn, Answer(d)>> \in Seq(Message)
      /\ <<Answer(d), Event("terminated")>> \in Seq(Message)
      /\ <<>> \in Seq(Message) /\ <<Answer(d)>> \in Seq(Message)
  BY <1>1
<1> QED
  BY <1>2, <1>3

\* The positions of SentLast are those of a suffix.
LEMMA LastIsSuffix == channel \in Seq(Numbered) /\ sent \in Seq(Numbered) /\ SentLast
                      => IsSuffix(channel, sent)
<1> SUFFICES ASSUME channel \in Seq(Numbered), sent \in Seq(Numbered), SentLast
             PROVE  IsSuffix(channel, sent)
  OBVIOUS
<1> DEFINE n == Len(channel)
           m == Len(sent)
<1>1. n \in Nat /\ m \in Nat /\ n <= m
  BY DEF SentLast
<1>2. /\ Reverse(channel) \in Seq(Numbered) /\ Len(Reverse(channel)) = n
      /\ \A i \in 1 .. n : Reverse(channel)[i] = channel[n - i + 1]
  <2>1. Reverse(channel) \in [1 .. n -> Numbered]
    BY <1>1 DEF Reverse
  <2> QED
    BY <1>1, <2>1 DEF Reverse
<1>3. /\ Reverse(sent) \in Seq(Numbered) /\ Len(Reverse(sent)) = m
      /\ \A i \in 1 .. m : Reverse(sent)[i] = sent[m - i + 1]
  <2>1. Reverse(sent) \in [1 .. m -> Numbered]
    BY <1>1 DEF Reverse
  <2> QED
    BY <1>1, <2>1 DEF Reverse
<1>4. \A i \in 1 .. n : Reverse(channel)[i] = Reverse(sent)[i]
  <2> TAKE i \in 1 .. n
  <2>1. n - i + 1 \in 1 .. n /\ m - n + (n - i + 1) = m - i + 1 /\ i \in 1 .. m
    BY <1>1
  <2> QED
    BY <1>2, <1>3, <2>1 DEF SentLast
<1> DEFINE c == SubSeq(Reverse(channel), 1, n)
           s == SubSeq(Reverse(sent), 1, n)
<1>5. /\ c \in Seq(Numbered) /\ Len(c) = n
      /\ \A i \in 1 .. n : c[i] = Reverse(channel)[i]
  BY <1>1, <1>2, SubSeqProperties, Z3
<1>6. /\ s \in Seq(Numbered) /\ Len(s) = n
      /\ \A i \in 1 .. n : s[i] = Reverse(sent)[i]
  BY <1>1, <1>3, SubSeqProperties, Z3
<1>7. c = s
  <2> HIDE DEF c, s
  <2> QED
    BY <1>4, <1>5, <1>6, SeqEqual
<1> QED
  BY <1>1, <1>2, <1>3, <1>7 DEF IsSuffix, IsPrefix

\* A body that is a document is that of the one its first byte names.
LEMMA DocumentBody ==
    ASSUME TypeInv, NEW body, IsDocument(body)
    PROVE  /\ body[1].doc \in DOMAIN documents
           /\ documents[body[1].doc].kind \in Kinds
           /\ body = Bytes(documents[body[1].doc].kind, body[1].doc)
<1>1. PICK d \in DOMAIN documents : body = Bytes(documents[d].kind, d)
  BY DEF IsDocument
<1>2. d \in Nat /\ documents[d].kind \in Kinds
  <2>1. documents \in Seq([kind : Kinds, framed : BOOLEAN])
    BY DEF TypeInv, InTypes
  <2>2. d \in 1 .. Len(documents)
    BY <1>1, <2>1, LenProperties
  <2>3. documents[d] \in [kind : Kinds, framed : BOOLEAN]
    BY <2>1, <2>2, ElementOfSeq
  <2> QED
    BY <2>1, <2>2, <2>3
<1>3. body[1].doc = d
  <2> DEFINE k == documents[d].kind
  <2>1. k \in Kinds
    BY <1>2
  <2> HIDE DEF k
  <2>2. /\ Length[k].bytes \in Nat \ {0}
        /\ \A i \in 1 .. Length[k].bytes :
               Bytes(k, d)[i] = [is |-> "byte", doc |-> d, at |-> i]
    BY <1>2, <2>1, BytesType
  <2>3. Bytes(k, d)[1] = [is |-> "byte", doc |-> d, at |-> 1]
    BY <2>2
  <2> QED
    BY <1>1, <2>3 DEF k
<1> QED
  BY <1>1, <1>2, <1>3

\* The editor and the pipe change what is written and what has arrived.
LEMMA TypeEditor ==
    ASSUME TypeInv, EditorWrites \/ Deliver \/ EditorCloses
    PROVE  TypeInv'
<1>1. UNCHANGED <<mainVars, taskVars, sendVars, outVars, sent>>
  BY DEF EditorWrites, Writes, Deliver, EditorCloses
<1>2. CASE EditorWrites
  <2> DEFINE d == Len(documents) + 1
  <2>1. PICK k \in Kinds, framed \in BOOLEAN, frame \in Seq(Item) : Writes(k, framed, frame)
    <3>1. d \in Nat /\ "other" \in Kinds
      BY DEF TypeInv, InTypes, Kinds, Commands
    <3>2. \A k \in Kinds : PlainFrame(k, d) \in Seq(Item)
      BY <3>1, FrameType
    <3>3. \A f \in WellFramed("other", d) \cup IllFramed("other", d) : f \in Seq(Item)
      BY <3>1, FrameType
    <3> QED
      BY <1>2, <3>1, <3>2, <3>3 DEF EditorWrites
  <2>2. /\ documents' \in Seq([kind : Kinds, framed : BOOLEAN])
        /\ Len(documents') = Len(documents) + 1
        /\ Len(documents) < MaxDocuments /\ Len(documents) \in Nat
    <3>1. [kind |-> k, framed |-> framed] \in [kind : Kinds, framed : BOOLEAN]
      BY <2>1
    <3> QED
      BY <2>1, <3>1, AppendProperties DEF Writes, TypeInv, InTypes
  <2>3. InTypes'
    BY <2>1, <2>2, BoundsAssumption DEF Writes, TypeInv, InTypes
  <2>4. received \in Seq(1 .. Len(documents'))
    BY <2>2, SeqMonotonic DEF TypeInv, MainTypes
  <2>5. MainTypes'
    BY <1>1, <2>4 DEF TypeInv, MainTypes, mainVars
  <2> QED
    BY <1>1, <2>3, <2>5 DEF TypeInv, TaskTypes, SendTypes, OutTypes, SentLast,
                            taskVars, sendVars, outVars
<1>3. CASE Deliver \/ EditorCloses
  <2>1. unsent' \in Seq(Item) /\ stdin' \in Seq(Item)
    <3>1. CASE Deliver
      <4>1. PICK n \in {Len(unsent) - 1, Len(unsent)} \ {0} :
                /\ unsent # <<>>
                /\ stdin' = stdin \o SubSeq(unsent, 1, n)
                /\ unsent' = SubSeq(unsent, n + 1, Len(unsent))
        BY <3>1 DEF Deliver
      <4>2. n \in Nat /\ n <= Len(unsent) /\ unsent \in Seq(Item) /\ stdin \in Seq(Item)
        <5>1. unsent \in Seq(Item) /\ stdin \in Seq(Item)
          BY DEF TypeInv, InTypes
        <5>2. Len(unsent) \in Nat \ {0}
          BY <4>1, <5>1, EmptySeq
        <5> QED
          BY <5>1, <5>2
      <4>3. SubSeq(unsent, 1, n) \in Seq(Item)
        BY <4>2, SubSeqProperties
      <4>4. SubSeq(unsent, n + 1, Len(unsent)) \in Seq(Item)
        BY <4>2, SubSeqProperties
      <4> QED
        BY <4>1, <4>2, <4>3, <4>4, ConcatProperties
    <3>2. CASE EditorCloses
      BY <3>2 DEF EditorCloses, TypeInv, InTypes
    <3> QED
      BY <1>3, <3>1, <3>2
  <2>2. documents' = documents /\ editor' \in {"open", "closed"}
    BY <1>3 DEF Deliver, EditorCloses, TypeInv, InTypes
  <2> QED
    BY <1>1, <2>1, <2>2 DEF TypeInv, InTypes, MainTypes, TaskTypes, SendTypes, OutTypes,
                            SentLast, mainVars, taskVars, sendVars, outVars
<1> QED
  BY <1>2, <1>3

\* Reading.
LEMMA TypeReader ==
    ASSUME TypeInv, ReadLine \/ ReadBody \/ ReadEof
    PROVE  TypeInv'
<1>1. UNCHANGED <<documents, unsent, editor, taskVars, seq, hand, outVars, sent>>
  BY DEF ReadLine, ReadBody, ReadEof
<1>2. /\ stdin \in Seq(Item) /\ Len(stdin) \in Nat
      /\ reader \in [pc : {"header", "body", "failed"}, lengths : Seq(Nat)]
      /\ received \in Seq(1 .. Len(documents)) /\ Len(documents) \in Nat
      /\ todo \in [Tasks -> Seq(Message)]
  BY DEF TypeInv, InTypes, MainTypes, SendTypes
<1>3. SUFFICES /\ stdin' \in Seq(Item)
               /\ reader' \in [pc : {"header", "body", "failed"}, lengths : Seq(Nat)]
               /\ reader'.pc = "body" => reader'.lengths # <<>>
               /\ received' \in Seq(1 .. Len(documents))
               /\ main' \in {"reading", "handling", "leaving", "parting", "returned"}
               /\ todo' \in [Tasks -> Seq(Message)]
  BY <1>1 DEF TypeInv, InTypes, MainTypes, TaskTypes, SendTypes, OutTypes, SentLast,
              taskVars, outVars
<1>4. CASE ReaderFails
  BY <1>2, <1>4 DEF ReaderFails, TypeInv, MainTypes
<1>5. CASE ReadLine /\ ~ReaderFails
  <2> DEFINE line == Head(stdin)
  <2>1. /\ stdin # <<>> /\ reader.pc = "header"
        /\ line = BlankLine => reader.lengths # <<>>
        /\ reader' = CASE line.is = "length" ->
                            [reader EXCEPT !.lengths = Append(@, line.value)]
                       [] line = BlankLine -> [reader EXCEPT !.pc = "body"]
                       [] OTHER -> reader
        /\ stdin' = Tail(stdin)
        /\ UNCHANGED <<received, main, todo>>
    BY <1>5 DEF ReadLine
  <2>2. line \in Item /\ stdin' \in Seq(Item)
    BY <1>2, <2>1, HeadTailProperties
  <2> HIDE DEF line
  <2>3. CASE line.is = "length"
    <3>1. line.value \in Nat
      BY <2>2, <2>3 DEF Item, Line, Byte, BadLength, OtherLine, BlankLine
    <3>2. Append(reader.lengths, line.value) \in Seq(Nat)
      BY <1>2, <3>1, AppendProperties
    <3>3. reader' = [reader EXCEPT !.lengths = Append(@, line.value)]
      BY <2>1, <2>3 DEF BlankLine
    <3> QED
      BY <1>2, <2>1, <2>2, <3>2, <3>3 DEF TypeInv, MainTypes
  <2>4. CASE line.is # "length" /\ line = BlankLine
    <3>1. reader' = [reader EXCEPT !.pc = "body"]
      BY <2>1, <2>4
    <3> QED
      BY <1>2, <2>1, <2>2, <2>4, <3>1 DEF TypeInv, MainTypes
  <2>5. CASE line.is # "length" /\ line # BlankLine
    <3>1. reader' = reader
      BY <2>1, <2>5
    <3> QED
      BY <1>2, <2>1, <2>2, <3>1 DEF TypeInv, MainTypes
  <2> QED
    BY <2>3, <2>4, <2>5
<1>6. CASE ReadBody /\ ~ReaderFails
  <2> DEFINE body == SubSeq(stdin, 1, Announced)
             d    == body[1].doc
  <2>1. /\ reader.pc = "body" /\ Len(stdin) >= Announced
        /\ IsDocument(body)
        /\ stdin' = SubSeq(stdin, Announced + 1, Len(stdin))
        /\ reader' = [pc |-> "header", lengths |-> <<>>]
        /\ received' = Append(received, d)
        /\ main' = "handling"
        /\ Handle(documents[d].kind, d)
    BY <1>6 DEF ReadBody
  <2>2. d \in 1 .. Len(documents) /\ documents[d].kind \in Kinds
    <3> HIDE DEF body
    <3> QED
      BY <1>2, <2>1, DocumentBody DEF TypeInv, InTypes
  <2> HIDE DEF d
  <2>3. Announced \in Nat
    <3>1. reader.lengths \in Seq(Nat) /\ reader.lengths # <<>>
      BY <1>2, <2>1 DEF TypeInv, MainTypes
    <3>2. Len(reader.lengths) \in 1 .. Len(reader.lengths)
      BY <3>1, EmptySeq
    <3> QED
      BY <3>1, <3>2, ElementOfSeq DEF Announced, Last
  <2>4. stdin' \in Seq(Item)
    <3>1. \A i \in Announced + 1 .. Len(stdin) : stdin[i] \in Item
      BY <1>2, <2>3
    <3> QED
      BY <1>2, <2>1, <2>3, <3>1, SubSeqProperties
  <2>5. received' \in Seq(1 .. Len(documents))
    BY <1>2, <2>1, <2>2, AppendProperties
  <2>6. todo' \in [Tasks -> Seq(Message)]
    <3>1. PICK m \in Says(documents[d].kind, d) : todo' = [todo EXCEPT !["main"] = m]
      BY <2>1 DEF Handle
    <3>2. m \in Seq(Message)
      BY <1>2, <2>2, <3>1, SaysType
    <3> QED
      BY <1>2, <3>1, <3>2
  <2>7. <<>> \in Seq(Nat)
    OBVIOUS
  <2> QED
    BY <2>1, <2>4, <2>5, <2>6, <2>7
<1> QED
  BY <1>4, <1>5, <1>6 DEF ReadEof

\* Sending.
LEMMA TypeDraw ==
    ASSUME TypeInv, NEW t \in Tasks, Draw(t)
    PROVE  TypeInv'
<1>1. UNCHANGED <<inVars, mainVars, taskVars, outVars, sent>>
  BY DEF Draw
<1>2. /\ seq \in Nat /\ todo \in [Tasks -> Seq(Message)] /\ hand \in [Tasks -> Numbered]
      /\ todo[t] # <<>>
      /\ hand' = [hand EXCEPT ![t] = [number |-> seq + 1, by |-> t,
                                      message |-> Head(todo[t])]]
      /\ todo' = [todo EXCEPT ![t] = Tail(@)]
      /\ seq' = seq + 1
  BY DEF Draw, NextSeq, TypeInv, SendTypes
<1>3. Head(todo[t]) \in Message /\ Tail(todo[t]) \in Seq(Message)
  BY <1>2, HeadTailProperties
<1>4. [number |-> seq + 1, by |-> t, message |-> Head(todo[t])] \in Numbered
  BY <1>2, <1>3 DEF Numbered
<1>5. SendTypes'
  BY <1>2, <1>3, <1>4 DEF SendTypes
<1> QED
  BY <1>1, <1>5 DEF TypeInv, InTypes, MainTypes, TaskTypes, OutTypes, SentLast,
                    inVars, mainVars, taskVars, outVars

LEMMA NothingType == Nothing \in Numbered
BY DEF Nothing, Numbered, Message, Answer, Tasks

LEMMA TypeSend ==
    ASSUME TypeInv, NEW t \in Tasks, SendMessage(t)
    PROVE  TypeInv'
<1>1. UNCHANGED <<inVars, mainVars, taskVars, seq, todo, writer, stdout>>
  BY DEF SendMessage
<1>2. /\ hand \in [Tasks -> Numbered]
      /\ hand' = [hand EXCEPT ![t] = Nothing]
      /\ channel \in Seq(Numbered) /\ sent \in Seq(Numbered) /\ SentLast
  BY DEF SendMessage, TypeInv, SendTypes, OutTypes
<1>3. hand' \in [Tasks -> Numbered] /\ hand[t] \in Numbered
  BY <1>2, NothingType
<1>4. /\ channel' \in Seq(Numbered) /\ sent' \in Seq(Numbered) /\ SentLast'
      /\ channel # <<>> => channel' # <<>>
  <2>1. CASE channel' = channel /\ sent' = sent
    BY <1>2, <2>1 DEF SentLast
  <2>2. CASE channel' = Append(channel, hand[t]) /\ sent' = Append(sent, hand[t])
    <3> DEFINE n == Len(channel)
               m == Len(sent)
    <3>1. n \in Nat /\ m \in Nat /\ n <= m
      BY <1>2 DEF SentLast
    <3>2. /\ channel' \in Seq(Numbered) /\ Len(channel') = n + 1
          /\ channel' # <<>>
          /\ \A i \in 1 .. n : channel'[i] = channel[i]
          /\ channel'[n + 1] = hand[t]
      BY <1>2, <1>3, <2>2, AppendProperties
    <3>3. /\ sent' \in Seq(Numbered) /\ Len(sent') = m + 1
          /\ \A i \in 1 .. m : sent'[i] = sent[i]
          /\ sent'[m + 1] = hand[t]
      BY <1>2, <1>3, <2>2, AppendProperties
    <3>4. ASSUME NEW i \in 1 .. n + 1 PROVE channel'[i] = sent'[m - n + i]
      <4>1. CASE i = n + 1
        BY <3>1, <3>2, <3>3, <4>1
      <4>2. CASE i \in 1 .. n
        <5>1. channel[i] = sent[m - n + i] /\ m - n + i \in 1 .. m
          BY <1>2, <3>1, <4>2 DEF SentLast
        <5> QED
          BY <3>2, <3>3, <4>2, <5>1
      <4> QED
        BY <3>1, <4>1, <4>2
    <3>5. (m + 1) - (n + 1) = m - n
      BY <3>1
    <3> QED
      BY <3>1, <3>2, <3>3, <3>4, <3>5 DEF SentLast
  <2> QED
    BY <2>1, <2>2 DEF SendMessage
<1> QED
  BY <1>1, <1>3, <1>4 DEF TypeInv, InTypes, MainTypes, TaskTypes, SendTypes, OutTypes,
                          inVars, mainVars, taskVars

\* The rest of the main task, and what the other tasks come to say.
LEMMA TypeTasks ==
    ASSUME TypeInv,
           \/ SpawnTasks \/ HandlerEnds \/ Leave \/ LoopEnds
           \/ \E t \in {"loop", "stderr"}, e \in {"stopped", "output"} : Emit(t, e)
    PROVE  TypeInv'
<1>1. UNCHANGED <<inVars, reader, received, seq, hand, outVars, sent>>
  BY DEF SpawnTasks, HandlerEnds, Leave, LoopEnds, Emit, mainVars, sendVars
<1>2. todo \in [Tasks -> Seq(Message)]
  BY DEF TypeInv, SendTypes
<1>3. todo' \in [Tasks -> Seq(Message)]
  <2>1. \A e \in {"stopped", "output", "terminated"} : <<Event(e)>> \in Seq(Message)
    <3>1. \A e \in {"stopped", "output", "terminated"} : Event(e) \in Message
      BY DEF Event, Message
    <3> HIDE DEF Message
    <3> QED
      BY <3>1
  <2>2. CASE SpawnTasks
    <3>1. todo["main"] \in Seq(Message) /\ todo["main"] # <<>>
      BY <1>2, <2>2 DEF SpawnTasks, Tasks
    <3>2. Tail(todo["main"]) \in Seq(Message)
      BY <3>1, HeadTailProperties
    <3> QED
      BY <1>2, <2>2, <3>2 DEF SpawnTasks
  <2>3. CASE HandlerEnds
    BY <1>2, <2>3 DEF HandlerEnds, sendVars
  <2>4. CASE Leave
    BY <1>2, <2>1, <2>4 DEF Leave
  <2>5. CASE LoopEnds
    BY <1>2, <2>1, <2>5 DEF LoopEnds
  <2>6. CASE \E t \in {"loop", "stderr"}, e \in {"stopped", "output"} : Emit(t, e)
    BY <1>2, <2>1, <2>6 DEF Emit
  <2> QED
    BY <2>2, <2>3, <2>4, <2>5, <2>6
<1>4. TaskTypes'
  <2>1. CASE SpawnTasks
    BY <2>1 DEF SpawnTasks, TypeInv, TaskTypes
  <2>2. CASE HandlerEnds
    BY <2>2 DEF HandlerEnds, TypeInv, TaskTypes, taskVars
  <2>3. CASE Leave
    BY <2>3 DEF Leave, TypeInv, TaskTypes
  <2>4. CASE LoopEnds
    BY <2>4 DEF LoopEnds, TypeInv, TaskTypes
  <2>5. CASE \E t \in {"loop", "stderr"}, e \in {"stopped", "output"} : Emit(t, e)
    BY <2>5, BoundsAssumption DEF Emit, TypeInv, TaskTypes
  <2> QED
    BY <2>1, <2>2, <2>3, <2>4, <2>5
<1>5. main' \in {"reading", "handling", "leaving", "parting", "returned"}
  BY DEF SpawnTasks, HandlerEnds, Leave, LoopEnds, Emit, TypeInv, MainTypes, mainVars
<1> QED
  BY <1>1, <1>3, <1>4, <1>5 DEF TypeInv, InTypes, MainTypes, SendTypes, OutTypes,
                                SentLast, inVars, outVars

\* The end of main, and the writer.
LEMMA TypeReturns ==
    ASSUME TypeInv, MainReturns
    PROVE  TypeInv'
<1>1. /\ UNCHANGED <<inVars, reader, received, events, seq, stdout, sent>>
      /\ main' = "returned" /\ session' = FALSE
      /\ loop' = IF loop = "on" THEN "ended" ELSE loop
      /\ todo' = [t \in Tasks |-> <<>>] /\ hand' = [t \in Tasks |-> Nothing]
      /\ channel' = <<>> /\ writer' = "ended"
  BY DEF MainReturns
<1>2. channel' \in Seq(Numbered) /\ Len(channel') = 0
  BY <1>1
<1>3. SendTypes'
  BY <1>1, NothingType DEF TypeInv, SendTypes
<1>4. SentLast'
  BY <1>1, <1>2 DEF SentLast, TypeInv, OutTypes
<1> QED
  BY <1>1, <1>2, <1>3, <1>4 DEF TypeInv, InTypes, MainTypes, TaskTypes, OutTypes, inVars

LEMMA TypeWriter ==
    ASSUME TypeInv, Writer
    PROVE  TypeInv'
<1>1. UNCHANGED <<inVars, mainVars, taskVars, sendVars, sent>>
  BY DEF Writer, WriteHeader, WriteBody, WriteFails
<1>2. /\ channel \in Seq(Numbered) /\ sent \in Seq(Numbered) /\ SentLast
      /\ stdout \in Seq(Item)
  BY DEF TypeInv, OutTypes
<1>3. SUFFICES /\ channel' \in Seq(Numbered) /\ SentLast'
               /\ writer' \in {"idle", "body", "ended"}
               /\ writer' = "body" => channel' # <<>>
               /\ stdout' \in Seq(Item)
  BY <1>1, <1>2 DEF TypeInv, InTypes, MainTypes, TaskTypes, SendTypes, OutTypes,
                    inVars, mainVars, taskVars, sendVars
<1>4. CASE WriteHeader
  <2>1. LengthLine(ContentLength(OutKind)) \in Item /\ BlankLine \in Item
    BY LineType, LengthAssumption DEF ContentLength
  <2>2. <<LengthLine(ContentLength(OutKind)), BlankLine>> \in Seq(Item)
    BY <2>1
  <2>3. stdout' \in Seq(Item)
    BY <1>2, <1>4, <2>2, ConcatProperties DEF WriteHeader
  <2> QED
    BY <1>1, <1>2, <1>4, <2>3 DEF WriteHeader, SentLast
<1>5. CASE WriteBody
  <2>1. channel # <<>> /\ channel' = Tail(channel) /\ writer' = "idle"
    BY <1>5 DEF WriteBody, TypeInv, OutTypes
  <2>2. stdout' \in Seq(Item)
    <3>1. Head(channel) \in Numbered
      BY <1>2, <2>1, HeadTailProperties
    <3>2. Head(channel).number \in Nat
      BY <3>1 DEF Numbered
    <3>3. Bytes(OutKind, Head(channel).number) \in Seq(Item)
      BY <3>2, BytesType
    <3> QED
      BY <1>2, <1>5, <3>3, ConcatProperties DEF WriteBody
  <2> DEFINE n == Len(channel)
             m == Len(sent)
  <2>3. n \in Nat \ {0} /\ m \in Nat /\ n <= m
    BY <1>2, <2>1, EmptySeq DEF SentLast
  <2>4. /\ channel' \in Seq(Numbered) /\ Len(channel') = n - 1
        /\ \A i \in 1 .. n - 1 : channel'[i] = channel[i + 1]
    BY <1>2, <2>1, <2>3, HeadTailProperties
  <2>5. SentLast'
    <3>1. ASSUME NEW i \in 1 .. n - 1 PROVE channel'[i] = sent[m - (n - 1) + i]
      <4>1. i + 1 \in 1 .. n /\ m - n + (i + 1) = m - (n - 1) + i
        BY <2>3
      <4> QED
        BY <1>2, <2>4, <4>1 DEF SentLast
    <3> QED
      BY <1>1, <2>3, <2>4, <3>1 DEF SentLast
  <2> QED
    BY <2>1, <2>2, <2>4, <2>5
<1>6. CASE WriteFails
  <2>1. channel' = <<>> /\ Len(channel') = 0 /\ writer' = "ended" /\ stdout' = stdout
    BY <1>6 DEF WriteFails
  <2> QED
    BY <1>1, <1>2, <2>1 DEF SentLast
<1> QED
  BY <1>4, <1>5, <1>6 DEF Writer

LEMMA TypeInit == Init => TypeInv
<1> SUFFICES ASSUME Init PROVE TypeInv
  OBVIOUS
<1>1. InTypes
  <2>1. Len(<<>>) = 0 /\ \A S : <<>> \in Seq(S)
    OBVIOUS
  <2> QED
    BY <2>1, BoundsAssumption DEF Init, InTypes
<1>2. MainTypes
  BY DEF Init, MainTypes
<1>3. SendTypes
  BY NothingType DEF Init, SendTypes
<1>4. OutTypes
  <2>1. Len(<<>>) = 0 /\ \A S : <<>> \in Seq(S)
    OBVIOUS
  <2>2. channel = <<>> /\ sent = <<>> /\ stdout = <<>> /\ writer = "idle"
    BY DEF Init
  <2>3. SentLast
    BY <2>1, <2>2 DEF SentLast
  <2> QED
    BY <2>1, <2>2, <2>3 DEF OutTypes
<1>5. TaskTypes
  <2>1. session = FALSE /\ loop = "none" /\ events = 0
    BY DEF Init
  <2>2. 0 \in 0 .. MaxEvents
    BY BoundsAssumption
  <2> QED
    BY <2>1, <2>2, Zenon DEF TaskTypes
<1> QED
  BY <1>1, <1>2, <1>3, <1>4, <1>5 DEF TypeInv

LEMMA TypeNext ==
    ASSUME TypeInv, [Next]_vars
    PROVE  TypeInv'
<1>1. CASE UNCHANGED vars
  BY <1>1 DEF TypeInv, InTypes, MainTypes, TaskTypes, SendTypes, OutTypes, SentLast,
              vars, inVars, mainVars, taskVars, sendVars, outVars
<1>2. CASE EditorWrites \/ Deliver \/ EditorCloses
  BY <1>2, TypeEditor
<1>3. CASE ReadLine \/ ReadBody \/ ReadEof
  BY <1>3, TypeReader
<1>4. CASE MainReturns
  BY <1>4, TypeReturns
<1>5. CASE \E t \in Tasks : Draw(t) \/ SendMessage(t)
  BY <1>5, TypeDraw, TypeSend
<1>6. CASE SpawnTasks \/ HandlerEnds \/ Leave \/ LoopEnds
  BY <1>6, TypeTasks
<1>7. CASE \E t \in {"loop", "stderr"}, e \in {"stopped", "output"} : Emit(t, e)
  BY <1>7, TypeTasks
<1>8. CASE Writer
  BY <1>8, TypeWriter
<1> QED
  BY <1>1, <1>2, <1>3, <1>4, <1>5, <1>6, <1>7, <1>8 DEF Next, MainTask, OtherTask, Tasks

-----------------------------------------------------------------------------
(* What is written: StdoutParses.                                          *)

IsHead(i) == stdout[i].is = "length"

\* Every length is that of the text of a message, is followed by a blank line
\* and has no other length in its text; only the last may lack it, and does so
\* only until the writer writes the body, or for ever if it has ended.
WrittenInv ==
    \A i \in DOMAIN stdout : IsHead(i) =>
        LET end == i + 1 + Length[OutKind].bytes IN
        /\ stdout[i].value = Length[OutKind].bytes
        /\ i < Len(stdout)
        /\ end < Len(stdout) => IsHead(end + 1)
        /\ end >= Len(stdout) => \A j \in i + 1 .. Len(stdout) : ~IsHead(j)
        /\ writer = "idle" => end <= Len(stdout)
        /\ writer = "body" => end < Len(stdout) \/ i + 1 = Len(stdout)

LEMMA WrittenHeader ==
    ASSUME TypeInv, WrittenInv, WriteHeader
    PROVE  WrittenInv'
<1> DEFINE n == Len(stdout)
           L == Length[OutKind].bytes
           h == <<LengthLine(ContentLength(OutKind)), BlankLine>>
<1>1. L \in Nat \ {0} /\ stdout \in Seq(Item) /\ n \in Nat /\ DOMAIN stdout = 1 .. n
  BY LengthAssumption DEF TypeInv, OutTypes
<1>2. h \in Seq(Item) /\ Len(h) = 2
  <2>1. LengthLine(ContentLength(OutKind)) \in Item /\ BlankLine \in Item
    BY LineType, LengthAssumption DEF ContentLength
  <2> QED
    BY <2>1
<1>3. h[1].is = "length" /\ h[1].value = L /\ h[2].is = "blank"
  BY DEF LengthLine, BlankLine, ContentLength
<1>4. stdout' = stdout \o h /\ writer = "idle" /\ writer' = "body"
  BY DEF WriteHeader
<1> HIDE DEF h
<1>5. /\ Len(stdout') = n + 2 /\ DOMAIN stdout' = 1 .. n + 2
      /\ \A i \in 1 .. n : stdout'[i] = stdout[i]
      /\ stdout'[n + 1] = h[1] /\ stdout'[n + 2] = h[2]
  <2>1. /\ stdout' \in Seq(Item)
        /\ Len(stdout') = n + 2
        /\ \A i \in 1 .. n + 2 : stdout'[i] = IF i <= n THEN stdout[i] ELSE h[i - n]
    BY <1>1, <1>2, <1>4, ConcatProperties
  <2>2. (n + 1) - n = 1 /\ (n + 2) - n = 2
    BY <1>1
  <2> QED
    BY <1>1, <2>1, <2>2
<1> HIDE DEF L, n
<1>6. ASSUME NEW i \in 1 .. n + 2, stdout'[i].is = "length"
      PROVE  /\ stdout'[i].value = L
             /\ i < n + 2
             /\ i + 1 + L < n + 2 => stdout'[i + 1 + L + 1].is = "length"
             /\ i + 1 + L >= n + 2 => \A j \in i + 1 .. n + 2 : stdout'[j].is # "length"
             /\ i + 1 + L < n + 2 \/ i + 1 = n + 2
  <2>1. CASE i \in 1 .. n
    <3>1. /\ stdout[i].value = L /\ i + 1 + L <= n
          /\ i + 1 + L < n => stdout[i + 1 + L + 1].is = "length"
      BY <1>1, <1>4, <1>5, <1>6, <2>1 DEF WrittenInv, IsHead, L, n
    <3>2. CASE i + 1 + L < n
      BY <1>1, <1>5, <2>1, <3>1, <3>2
    <3>3. CASE i + 1 + L = n
      BY <1>1, <1>3, <1>5, <2>1, <3>1, <3>3
    <3> QED
      BY <1>1, <3>1, <3>2, <3>3
  <2>2. CASE i = n + 1
    BY <1>1, <1>3, <1>5, <2>2
  <2>3. CASE i = n + 2
    BY <1>1, <1>3, <1>5, <1>6, <2>3
  <2> QED
    BY <1>1, <2>1, <2>2, <2>3
<1> QED
  BY <1>1, <1>4, <1>5, <1>6 DEF WrittenInv, IsHead, L

LEMMA WrittenBody ==
    ASSUME TypeInv, WrittenInv, WriteBody
    PROVE  WrittenInv'
<1> DEFINE n == Len(stdout)
           L == Length[OutKind].bytes
           b == Bytes(OutKind, Head(channel).number)
<1>1. L \in Nat \ {0} /\ stdout \in Seq(Item) /\ n \in Nat /\ DOMAIN stdout = 1 .. n
  BY LengthAssumption DEF TypeInv, OutTypes
<1>2. b \in Seq(Item) /\ Len(b) = L /\ \A i \in 1 .. L : b[i].is = "byte"
  <2>1. channel \in Seq(Numbered) /\ channel # <<>>
    BY DEF TypeInv, OutTypes, WriteBody
  <2>2. Head(channel) \in Numbered
    BY <2>1, HeadTailProperties
  <2>3. Head(channel).number \in Nat
    BY <2>2 DEF Numbered
  <2>4. /\ b \in Seq(Item) /\ Len(b) = L
        /\ \A i \in 1 .. L : b[i] = [is |-> "byte", doc |-> Head(channel).number, at |-> i]
    BY <2>3, BytesType
  <2> HIDE DEF b, L
  <2> QED
    BY <2>4
<1>3. stdout' = stdout \o b /\ writer = "body" /\ writer' = "idle"
  BY DEF WriteBody
<1> HIDE DEF b
<1>4. /\ Len(stdout') = n + L /\ DOMAIN stdout' = 1 .. n + L
      /\ \A i \in 1 .. n : stdout'[i] = stdout[i]
      /\ \A i \in n + 1 .. n + L : stdout'[i].is = "byte"
  <2>1. /\ stdout' \in Seq(Item)
        /\ Len(stdout') = n + L
        /\ \A i \in 1 .. n + L : stdout'[i] = IF i <= n THEN stdout[i] ELSE b[i - n]
    BY <1>1, <1>2, <1>3, ConcatProperties
  <2> HIDE DEF L, n
  <2>2. ASSUME NEW i \in n + 1 .. n + L PROVE stdout'[i].is = "byte"
    <3>1. i - n \in 1 .. L /\ i \in 1 .. n + L /\ ~(i <= n)
      BY <1>1
    <3> QED
      BY <1>2, <2>1, <3>1
  <2> QED
    BY <1>1, <2>1, <2>2
<1> HIDE DEF L, n
<1>5. ASSUME NEW i \in 1 .. n + L, stdout'[i].is = "length"
      PROVE  /\ stdout'[i].value = L
             /\ i < n + L
             /\ i + 1 + L < n + L => stdout'[i + 1 + L + 1].is = "length"
             /\ i + 1 + L >= n + L => \A j \in i + 1 .. n + L : stdout'[j].is # "length"
             /\ i + 1 + L <= n + L
  <2>1. i \in 1 .. n
    BY <1>1, <1>4, <1>5
  <2>2. /\ stdout[i].value = L /\ i < n
        /\ i + 1 + L < n => stdout[i + 1 + L + 1].is = "length"
        /\ i + 1 + L >= n => \A j \in i + 1 .. n : stdout[j].is # "length"
        /\ i + 1 + L < n \/ i + 1 = n
    BY <1>1, <1>3, <1>4, <1>5, <2>1 DEF WrittenInv, IsHead, L, n
  <2>3. CASE i + 1 + L < n
    BY <1>1, <1>4, <2>1, <2>2, <2>3
  <2>4. CASE i + 1 = n
    BY <1>1, <1>4, <2>1, <2>2, <2>4
  <2> QED
    BY <2>2, <2>3, <2>4
<1> QED
  BY <1>1, <1>3, <1>4, <1>5 DEF WrittenInv, IsHead, L

LEMMA WrittenInit == Init => WrittenInv
BY DEF Init, WrittenInv

LEMMA WrittenNext ==
    ASSUME TypeInv, WrittenInv, [Next]_vars
    PROVE  WrittenInv'
<1>1. CASE stdout' = stdout /\ (writer' = writer \/ writer' = "ended")
  BY <1>1 DEF WrittenInv, IsHead
<1>2. CASE EditorWrites \/ Deliver \/ EditorCloses \/ UNCHANGED vars
  BY <1>1, <1>2 DEF EditorWrites, Writes, Deliver, EditorCloses, vars, outVars
<1>3. CASE ReadLine \/ ReadBody \/ ReadEof \/ MainReturns
  BY <1>1, <1>3 DEF ReadLine, ReadBody, ReadEof, MainReturns, outVars
<1>4. CASE SpawnTasks \/ HandlerEnds \/ Leave \/ LoopEnds
  BY <1>1, <1>4 DEF SpawnTasks, HandlerEnds, Leave, LoopEnds, outVars
<1>5. CASE \E t \in Tasks : Draw(t) \/ SendMessage(t)
  BY <1>1, <1>5 DEF Draw, SendMessage, outVars
<1>6. CASE \E t \in {"loop", "stderr"}, e \in {"stopped", "output"} : Emit(t, e)
  BY <1>1, <1>6 DEF Emit, outVars
<1>7. CASE WriteFails
  BY <1>1, <1>7 DEF WriteFails
<1> QED
  BY <1>2, <1>3, <1>4, <1>5, <1>6, <1>7, WrittenHeader, WrittenBody
     DEF Next, MainTask, OtherTask, Tasks, Writer

\* The framing of DapWriter::send (transport.rs:54): the length announced is that
\* of the bytes that follow, for every message, however many are written and
\* wherever the writer ends.
THEOREM WrittenParses == Spec => []StdoutParses
<1>1. TypeInv /\ WrittenInv => StdoutParses
  <2> SUFFICES ASSUME TypeInv, WrittenInv PROVE StdoutParses
    OBVIOUS
  <2>1. DOMAIN stdout = 1 .. Len(stdout) /\ Len(stdout) \in Nat
    BY DEF TypeInv, OutTypes
  <2>2. Length[OutKind].bytes \in Nat
    BY LengthAssumption
  <2> QED
    BY <2>1, <2>2 DEF WrittenInv, IsHead, StdoutParses
<1> QED
  BY TypeInit, TypeNext, WrittenInit, WrittenNext, <1>1, PTL DEF Spec

-----------------------------------------------------------------------------
(* What is read: ReadsWhatWasSent.  Of the whole stream the editor has      *)
(* written, one prefix is read, and what has arrived and what has not is    *)
(* the rest.  Document d is framed from behind position start[d] on, with   *)
(* its blank line at blank[d], and the frames follow each other.            *)

LEMMA ConcatParts ==
    ASSUME NEW w \in Seq(Item), NEW f \in Seq(Item)
    PROVE  /\ Len(w) \in Nat /\ Len(f) \in Nat /\ w \o f \in Seq(Item)
           /\ Len(w \o f) = Len(w) + Len(f)
           /\ \A i \in 1 .. Len(w) : (w \o f)[i] = w[i]
           /\ \A i \in 1 .. Len(f) : (w \o f)[Len(w) + i] = f[i]
<1> DEFINE v == w \o f
           n == Len(w)
           m == Len(f)
<1>1. n \in Nat /\ m \in Nat /\ v \in Seq(Item) /\ Len(v) = n + m
  BY ConcatProperties
<1>2. \A i \in 1 .. n + m : v[i] = IF i <= n THEN w[i] ELSE f[i - n]
  BY ConcatProperties
<1> HIDE DEF v, n, m
<1>3. \A i \in 1 .. n : v[i] = w[i]
  BY <1>1, <1>2
<1>4. ASSUME NEW i \in 1 .. m PROVE v[n + i] = f[i]
  <2>1. n + i \in 1 .. n + m /\ ~(n + i <= n) /\ (n + i) - n = i
    BY <1>1
  <2> QED
    BY <1>2, <2>1
<1> QED
  BY <1>1, <1>3, <1>4 DEF v, n, m

\* Document d of kind k is framed in w between s and e, the blank line at b.
FramedIn(w, k, d, framed, s, b, e) ==
    LET L == Length[k].bytes IN
    /\ s + 2 <= b /\ e = b + L /\ e <= Len(w)
    /\ w[b] = BlankLine
    /\ \A j \in 1 .. L : w[b + j] = [is |-> "byte", doc |-> d, at |-> j]
    /\ IF framed
       THEN /\ w[b - 1] = LengthLine(L)
            /\ \A p \in s + 1 .. b - 1 : w[p].is \in {"length", "other"}
       ELSE /\ b = s + 2
            /\ w[s + 1] \in {LengthLine(L - 1), LengthLine(L + 1), BadLength, OtherLine}

\* Every frame of the editor has that form.
LEMMA FrameForm ==
    ASSUME NEW k \in Kinds, NEW d \in Nat
    PROVE  /\ \A f \in {PlainFrame(k, d)} \cup WellFramed(k, d) :
                  \E b \in Nat : FramedIn(f, k, d, TRUE, 0, b, Len(f))
           /\ \A f \in IllFramed(k, d) :
                  \E b \in Nat : FramedIn(f, k, d, FALSE, 0, b, Len(f))
<1> DEFINE L == Length[k].bytes
           c == Bytes(k, d)
<1>1. /\ L \in Nat \ {0} /\ c \in Seq(Item) /\ Len(c) = L
      /\ \A i \in 1 .. L : c[i] = [is |-> "byte", doc |-> d, at |-> i]
  BY BytesType
<1> HIDE DEF c
<1> HIDE DEF L
<1>2. ASSUME NEW h \in Seq(Item)
      PROVE  /\ Len(h \o c) = Len(h) + L
             /\ \A i \in 1 .. Len(h) : (h \o c)[i] = h[i]
             /\ \A j \in 1 .. L :
                    (h \o c)[Len(h) + j] = [is |-> "byte", doc |-> d, at |-> j]
  <2> DEFINE v == h \o c
             b == Len(h)
  <2>1. /\ Len(v) = b + L /\ b \in Nat
        /\ \A i \in 1 .. b + L : v[i] = IF i <= b THEN h[i] ELSE c[i - b]
    <3>1. /\ Len(v) = b + Len(c)
          /\ \A i \in 1 .. b + Len(c) : v[i] = IF i <= b THEN h[i] ELSE c[i - b]
      BY <1>1, ConcatProperties
    <3>2. b \in Nat
      OBVIOUS
    <3> HIDE DEF v, b
    <3> QED
      BY <1>1, <3>1, <3>2
  <2> HIDE DEF v, b
  <2>2. ASSUME NEW j \in 1 .. L
        PROVE  v[b + j] = c[j]
    <3>1. b + j \in 1 .. b + L /\ ~(b + j <= b) /\ (b + j) - b = j
      BY <1>1, <2>1
    <3> QED
      BY <2>1, <3>1
  <2>3. \A i \in 1 .. b : v[i] = h[i]
    BY <1>1, <2>1
  <2>4. \A j \in 1 .. L : v[b + j] = [is |-> "byte", doc |-> d, at |-> j]
    BY <1>1, <2>2
  <2> QED
    BY <2>1, <2>3, <2>4 DEF v, b
<1>3. /\ LengthLine(L) \in Item /\ LengthLine(1) \in Item
      /\ LengthLine(L - 1) \in Item /\ LengthLine(L + 1) \in Item
      /\ BadLength \in Item /\ OtherLine \in Item /\ BlankLine \in Item
  BY <1>1, LineType
<1>4. ASSUME NEW x \in {LengthLine(L - 1), LengthLine(L + 1), BadLength, OtherLine}
      PROVE  FramedIn(<<x, BlankLine>> \o c, k, d, FALSE, 0, 2, Len(<<x, BlankLine>> \o c))
  <2> DEFINE h == <<x, BlankLine>>
             v == h \o c
  <2>1. h \in Seq(Item) /\ Len(h) = 2 /\ h[1] = x /\ h[2] = BlankLine
    BY <1>3
  <2> HIDE DEF h, v
  <2>2. /\ Len(v) = 2 + L /\ v[1] = x /\ v[2] = BlankLine
        /\ \A j \in 1 .. L : v[2 + j] = [is |-> "byte", doc |-> d, at |-> j]
    <3>1. /\ Len(v) = 2 + L
          /\ \A i \in 1 .. 2 : v[i] = h[i]
          /\ \A j \in 1 .. L : v[2 + j] = [is |-> "byte", doc |-> d, at |-> j]
      <4>1. /\ Len(v) = Len(h) + L
            /\ \A i \in 1 .. Len(h) : v[i] = h[i]
            /\ \A j \in 1 .. L : v[Len(h) + j] = [is |-> "byte", doc |-> d, at |-> j]
        BY <1>2, <2>1 DEF v
      <4> QED
        BY <2>1, <4>1
    <3> QED
      BY <2>1, <3>1
  <2>3. FramedIn(v, k, d, FALSE, 0, 2, Len(v))
    BY <1>1, <2>2 DEF FramedIn, L
  <2> QED
    BY <2>3 DEF h, v
<1>5. FramedIn(PlainFrame(k, d), k, d, TRUE, 0, 2, Len(PlainFrame(k, d)))
  <2> DEFINE h == <<LengthLine(L), BlankLine>>
             v == h \o c
  <2>1. h \in Seq(Item) /\ Len(h) = 2 /\ h[1] = LengthLine(L) /\ h[2] = BlankLine
    BY <1>3
  <2> HIDE DEF h, v
  <2>2. /\ Len(v) = 2 + L /\ v[1] = LengthLine(L) /\ v[2] = BlankLine
        /\ \A j \in 1 .. L : v[2 + j] = [is |-> "byte", doc |-> d, at |-> j]
    <3>1. /\ Len(v) = 2 + L
          /\ \A i \in 1 .. 2 : v[i] = h[i]
          /\ \A j \in 1 .. L : v[2 + j] = [is |-> "byte", doc |-> d, at |-> j]
      <4>1. /\ Len(v) = Len(h) + L
            /\ \A i \in 1 .. Len(h) : v[i] = h[i]
            /\ \A j \in 1 .. L : v[Len(h) + j] = [is |-> "byte", doc |-> d, at |-> j]
        BY <1>2, <2>1 DEF v
      <4> QED
        BY <2>1, <4>1
    <3> QED
      BY <2>1, <3>1
  <2>3. LengthLine(L).is \in {"length", "other"}
    BY DEF LengthLine
  <2>4. FramedIn(v, k, d, TRUE, 0, 2, Len(v))
    BY <1>1, <2>2, <2>3 DEF FramedIn, L
  <2> QED
    BY <2>4 DEF h, v, c, PlainFrame, L
<1>6. ASSUME NEW x \in {OtherLine, LengthLine(1)}
      PROVE  FramedIn(<<x, LengthLine(L), BlankLine>> \o c, k, d, TRUE, 0, 3,
                      Len(<<x, LengthLine(L), BlankLine>> \o c))
  <2> DEFINE h == <<x, LengthLine(L), BlankLine>>
             v == h \o c
  <2>1. /\ h \in Seq(Item) /\ Len(h) = 3
        /\ h[1] = x /\ h[2] = LengthLine(L) /\ h[3] = BlankLine
    BY <1>3
  <2> HIDE DEF h, v
  <2>2. /\ Len(v) = 3 + L
        /\ v[1] = x /\ v[2] = LengthLine(L) /\ v[3] = BlankLine
        /\ \A j \in 1 .. L : v[3 + j] = [is |-> "byte", doc |-> d, at |-> j]
    <3>1. /\ Len(v) = 3 + L
          /\ \A i \in 1 .. 3 : v[i] = h[i]
          /\ \A j \in 1 .. L : v[3 + j] = [is |-> "byte", doc |-> d, at |-> j]
      <4>1. /\ Len(v) = Len(h) + L
            /\ \A i \in 1 .. Len(h) : v[i] = h[i]
            /\ \A j \in 1 .. L : v[Len(h) + j] = [is |-> "byte", doc |-> d, at |-> j]
        BY <1>2, <2>1 DEF v
      <4> QED
        BY <2>1, <4>1
    <3> QED
      BY <2>1, <3>1
  <2>3. LengthLine(L).is \in {"length", "other"} /\ x.is \in {"length", "other"}
    BY DEF LengthLine, OtherLine
  <2>4. FramedIn(v, k, d, TRUE, 0, 3, Len(v))
    BY <1>1, <2>2, <2>3 DEF FramedIn, L
  <2> QED
    BY <2>4 DEF h, v
<1> QED
  BY <1>4, <1>5, <1>6 DEF WellFramed, IllFramed, L, c

\* A frame stays where it is when more is written, and the new one is behind it.
LEMMA FrameStays ==
    ASSUME NEW w \in Seq(Item), NEW f \in Seq(Item),
           NEW k \in Kinds, NEW d \in Nat, NEW framed,
           NEW s \in Nat, NEW b \in Nat, NEW e \in Nat,
           FramedIn(w, k, d, framed, s, b, e)
    PROVE  FramedIn(w \o f, k, d, framed, s, b, e)
<1> DEFINE L == Length[k].bytes
           v == w \o f
<1>1. L \in Nat \ {0} /\ Len(w) \in Nat /\ Len(f) \in Nat
  BY LengthAssumption
<1>2. Len(v) = Len(w) + Len(f) /\ \A i \in 1 .. Len(w) : v[i] = w[i]
  BY <1>1, ConcatProperties
<1> HIDE DEF L, v
<1>3. /\ s + 2 <= b /\ e = b + L /\ e <= Len(w)
      /\ w[b] = BlankLine
      /\ \A j \in 1 .. L : w[b + j] = [is |-> "byte", doc |-> d, at |-> j]
  BY DEF FramedIn, L
<1>4. /\ v[b] = BlankLine /\ v[b - 1] = w[b - 1] /\ v[s + 1] = w[s + 1]
      /\ \A p \in s + 1 .. b - 1 : v[p] = w[p]
      /\ \A j \in 1 .. L : v[b + j] = w[b + j]
  <2>1. /\ b \in 1 .. Len(w) /\ b - 1 \in 1 .. Len(w) /\ s + 1 \in 1 .. Len(w)
        /\ \A p \in s + 1 .. b - 1 : p \in 1 .. Len(w)
        /\ \A j \in 1 .. L : b + j \in 1 .. Len(w)
    BY <1>1, <1>3
  <2> QED
    BY <1>2, <1>3, <2>1
<1>5. FramedIn(v, k, d, framed, s, b, e)
  <2>1. e <= Len(v)
    BY <1>1, <1>2, <1>3
  <2>2. CASE framed
    <3>1. w[b - 1] = LengthLine(L) /\ \A p \in s + 1 .. b - 1 : w[p].is \in {"length", "other"}
      BY <2>2 DEF FramedIn, L
    <3> QED
      BY <1>3, <1>4, <2>1, <2>2, <3>1 DEF FramedIn, L
  <2>3. CASE ~framed
    <3>1. /\ b = s + 2
          /\ w[s + 1] \in {LengthLine(L - 1), LengthLine(L + 1), BadLength, OtherLine}
      BY <2>3 DEF FramedIn, L
    <3> QED
      BY <1>3, <1>4, <2>1, <2>3, <3>1 DEF FramedIn, L
  <2> QED
    BY <2>2, <2>3
<1> QED
  BY <1>5 DEF v

LEMMA FrameAdded ==
    ASSUME NEW w \in Seq(Item), NEW f \in Seq(Item),
           NEW k \in Kinds, NEW d \in Nat, NEW framed, NEW b \in Nat,
           FramedIn(f, k, d, framed, 0, b, Len(f))
    PROVE  FramedIn(w \o f, k, d, framed, Len(w), Len(w) + b, Len(w) + Len(f))
<1> DEFINE L == Length[k].bytes
           v == w \o f
           n == Len(w)
<1>1. L \in Nat \ {0} /\ n \in Nat /\ Len(f) \in Nat
  BY LengthAssumption
<1>2. Len(v) = n + Len(f) /\ \A i \in 1 .. Len(f) : v[n + i] = f[i]
  <2>1. /\ Len(v) = n + Len(f)
        /\ \A i \in 1 .. n + Len(f) : v[i] = IF i <= n THEN w[i] ELSE f[i - n]
    BY ConcatProperties
  <2> HIDE DEF v, n
  <2>2. ASSUME NEW i \in 1 .. Len(f) PROVE v[n + i] = f[i]
    <3>1. n + i \in 1 .. n + Len(f) /\ ~(n + i <= n) /\ (n + i) - n = i
      BY <1>1
    <3> QED
      BY <2>1, <3>1
  <2> QED
    BY <2>1, <2>2
<1> HIDE DEF L, v, n
<1>3. /\ 2 <= b /\ Len(f) = b + L
      /\ f[b] = BlankLine
      /\ \A j \in 1 .. L : f[b + j] = [is |-> "byte", doc |-> d, at |-> j]
  BY DEF FramedIn, L
<1>4. /\ v[n + b] = BlankLine /\ v[(n + b) - 1] = f[b - 1] /\ v[n + 1] = f[1]
      /\ \A p \in n + 1 .. (n + b) - 1 : v[p] = f[p - n] /\ p - n \in 1 .. b - 1
  <2>1. /\ n + (b - 1) = (n + b) - 1 /\ b - 1 \in 1 .. Len(f)
        /\ b \in 1 .. Len(f) /\ 1 \in 1 .. Len(f)
    BY <1>1, <1>3
  <2>2. ASSUME NEW p \in n + 1 .. (n + b) - 1
        PROVE  v[p] = f[p - n] /\ p - n \in 1 .. b - 1
    <3>1. n + (p - n) = p /\ p - n \in 1 .. b - 1 /\ p - n \in 1 .. Len(f)
      BY <1>1, <1>3
    <3> QED
      BY <1>2, <3>1
  <2> QED
    BY <1>2, <1>3, <2>1, <2>2
<1>5. \A j \in 1 .. L : v[(n + b) + j] = [is |-> "byte", doc |-> d, at |-> j]
  <2> TAKE j \in 1 .. L
  <2>1. n + (b + j) = (n + b) + j /\ b + j \in 1 .. Len(f)
    BY <1>1, <1>3
  <2> QED
    BY <1>2, <1>3, <2>1
<1>6. FramedIn(v, k, d, framed, n, n + b, n + Len(f))
  <2>1. n + 2 <= n + b /\ n + Len(f) = (n + b) + L /\ n + Len(f) <= Len(v)
    BY <1>1, <1>2, <1>3
  <2>2. CASE framed
    <3>1. f[b - 1] = LengthLine(L) /\ \A p \in 1 .. b - 1 : f[p].is \in {"length", "other"}
      BY <2>2 DEF FramedIn, L
    <3> QED
      BY <1>4, <1>5, <2>1, <2>2, <3>1 DEF FramedIn, L
  <2>3. CASE ~framed
    <3>1. /\ b = 2
          /\ f[1] \in {LengthLine(L - 1), LengthLine(L + 1), BadLength, OtherLine}
      BY <2>3 DEF FramedIn, L
    <3> QED
      BY <1>4, <1>5, <2>1, <2>3, <3>1 DEF FramedIn, L
  <2> QED
    BY <2>2, <2>3
<1> QED
  BY <1>6 DEF v, n

\* Positions of the stream, one for each document.
Places == [Nat -> Nat]

LEMMA PlaceIs == ASSUME NEW f \in Places, NEW i \in Nat PROVE f[i] \in Nat
BY DEF Places

LEMMA PlaceSet ==
    ASSUME NEW f \in Places, NEW i \in Nat, NEW n \in Nat
    PROVE  /\ [f EXCEPT ![i] = n] \in Places
           /\ [f EXCEPT ![i] = n][i] = n
           /\ \A j \in Nat \ {i} : [f EXCEPT ![i] = n][j] = f[j]
BY DEF Places

\* The stream is w, of which r items are read.
StreamAt(w, r, start, blank) ==
    /\ \A d \in 1 .. Len(documents) :
           FramedIn(w, documents[d].kind, d, documents[d].framed,
                    start[d], blank[d], start[d + 1])
    /\ start[Len(documents) + 1] = Len(w)
    /\ r + Len(stdin) + Len(unsent) = Len(w)
    /\ \A i \in 1 .. Len(stdin) : stdin[i] = w[r + i]
    /\ \A i \in 1 .. Len(unsent) : unsent[i] = w[r + Len(stdin) + i]

\* The reader within a frame of a text of L bytes: the last length of a sound header is L, and
\* no length of an unsound one is.
InFrame(rd, r, s, b, L, framed) ==
    /\ rd.pc = "header" => r \in s .. b - 1
    /\ rd.pc = "body" => r = b
    /\ IF framed
       THEN /\ rd.pc # "failed"
            /\ rd.pc = "body" \/ r = b - 1 => rd.lengths # <<>> /\ Last(rd.lengths) = L
       ELSE rd.pc # "failed" /\ rd.lengths # <<>> => Last(rd.lengths) # L

\* All documents up to the one being read were framed soundly.
ReadTo(r, start, blank) ==
    LET n == Len(received)
        d == n + 1
    IN  /\ received = [i \in 1 .. n |-> i]
        /\ n <= Len(documents)
        /\ \A c \in 1 .. n : documents[c].framed
        /\ editor = "closed" => unsent = <<>>
        /\ n = Len(documents) => /\ r = start[d]
                                 /\ reader.lengths = <<>> /\ reader.pc # "body"
                                 /\ reader.pc = "failed" => editor = "closed"
        /\ n < Len(documents) => InFrame(reader, r, start[d], blank[d],
                                         Length[documents[d].kind].bytes,
                                         documents[d].framed)

Stream ==
    \E w \in Seq(Item), r \in Nat, start \in Places, blank \in Places :
        StreamAt(w, r, start, blank) /\ ReadTo(r, start, blank)

Reader == [pc : {"header", "body", "failed"}, lengths : Seq(Nat)]

LEMMA StreamTypes ==
    ASSUME TypeInv
    PROVE  /\ documents \in Seq(Document) /\ Len(documents) \in Nat
           /\ \A d \in 1 .. Len(documents) : documents[d].kind \in Kinds
           /\ stdin \in Seq(Item) /\ Len(stdin) \in Nat
           /\ unsent \in Seq(Item) /\ Len(unsent) \in Nat
           /\ reader.pc \in {"header", "body", "failed"} /\ reader.lengths \in Seq(Nat)
           /\ reader \in Reader
           /\ received \in Seq(1 .. Len(documents)) /\ Len(received) \in Nat
<1>1. documents \in Seq(Document) /\ received \in Seq(1 .. Len(documents))
  BY DEF TypeInv, InTypes, MainTypes, Document
<1>2. \A d \in 1 .. Len(documents) : documents[d] \in Document
  BY <1>1, ElementOfSeq
<1>3. \A x \in Document : x.kind \in Kinds
  BY DEF Document
<1>4. stdin \in Seq(Item) /\ unsent \in Seq(Item)
  BY DEF TypeInv, InTypes
<1>5. /\ reader \in Reader
      /\ reader.pc \in {"header", "body", "failed"} /\ reader.lengths \in Seq(Nat)
  BY DEF TypeInv, MainTypes, Reader
<1>6. Len(documents) \in Nat /\ Len(received) \in Nat
  BY <1>1, LenProperties
<1>7. Len(stdin) \in Nat /\ Len(unsent) \in Nat
  BY <1>4, LenProperties
<1> QED
  BY <1>1, <1>2, <1>3, <1>4, <1>5, <1>6, <1>7

\* The editor frames one more document at the end of the stream.
LEMMA StreamWrites ==
    ASSUME TypeInv, Stream, EditorWrites
    PROVE  Stream'
<1>1. PICK w \in Seq(Item), r \in Nat, start \in Places, blank \in Places :
          StreamAt(w, r, start, blank) /\ ReadTo(r, start, blank)
  BY DEF Stream
<1>0. PICK D \in Nat : D = Len(documents)
  BY StreamTypes
<1>2. D \in Nat /\ Len(stdin) \in Nat /\ Len(unsent) \in Nat /\ Len(received) \in Nat
  BY <1>0, StreamTypes
<1>3. PICK framed \in BOOLEAN, k \in Kinds, f \in Seq(Item), b \in Nat :
          Writes(k, framed, f) /\ FramedIn(f, k, D + 1, framed, 0, b, Len(f))
  <2> DEFINE d == D + 1
  <2>1. d \in Nat /\ "other" \in Kinds
    BY <1>2 DEF Kinds, Commands
  <2> HIDE DEF d
  <2>2. CASE \E k \in Kinds : Writes(k, TRUE, PlainFrame(k, d))
    <3>1. PICK k \in Kinds : Writes(k, TRUE, PlainFrame(k, d))
      BY <2>2
    <3>2. PlainFrame(k, d) \in Seq(Item)
      BY <2>1, FrameType
    <3>3. PICK b \in Nat : FramedIn(PlainFrame(k, d), k, d, TRUE, 0, b, Len(PlainFrame(k, d)))
      BY <2>1, FrameForm
    <3> QED
      BY <3>1, <3>2, <3>3 DEF d
  <2>3. CASE \E f \in WellFramed("other", d) : Writes("other", TRUE, f)
    <3>1. PICK f \in WellFramed("other", d) : Writes("other", TRUE, f)
      BY <2>3
    <3>2. f \in Seq(Item)
      BY <2>1, FrameType
    <3>3. PICK b \in Nat : FramedIn(f, "other", d, TRUE, 0, b, Len(f))
      BY <2>1, FrameForm
    <3> QED
      BY <2>1, <3>1, <3>2, <3>3 DEF d
  <2>4. CASE \E f \in IllFramed("other", d) : Writes("other", FALSE, f)
    <3>1. PICK f \in IllFramed("other", d) : Writes("other", FALSE, f)
      BY <2>4
    <3>2. f \in Seq(Item)
      BY <2>1, FrameType
    <3>3. PICK b \in Nat : FramedIn(f, "other", d, FALSE, 0, b, Len(f))
      BY <2>1, FrameForm
    <3> QED
      BY <2>1, <3>1, <3>2, <3>3 DEF d
  <2> QED
    BY <1>0, <2>2, <2>3, <2>4 DEF EditorWrites, d
<1> DEFINE v      == w \o f
           m      == Len(w)
           start2 == [start EXCEPT ![D + 2] = m + Len(f)]
           blank2 == [blank EXCEPT ![D + 1] = m + b]
<1>4. /\ m \in Nat /\ Len(f) \in Nat /\ v \in Seq(Item)
      /\ Len(v) = m + Len(f)
      /\ \A i \in 1 .. m : v[i] = w[i]
      /\ \A i \in 1 .. Len(f) : v[m + i] = f[i]
  BY ConcatParts
<1>5. FramedIn(v, k, D + 1, framed, m, m + b, m + Len(f))
  <2>1. D + 1 \in Nat
    BY <1>2
  <2> QED
    BY <1>3, <2>1, FrameAdded
<1>6. /\ \A d \in 1 .. D : FramedIn(w, documents[d].kind, d, documents[d].framed,
                                    start[d], blank[d], start[d + 1])
      /\ start[D + 1] = m /\ r + Len(stdin) + Len(unsent) = m
      /\ \A i \in 1 .. Len(stdin) : stdin[i] = w[r + i]
  BY <1>0, <1>1 DEF StreamAt
<1>7. \A d \in 1 .. D : FramedIn(v, documents[d].kind, d, documents[d].framed,
                                 start[d], blank[d], start[d + 1])
  <2> TAKE d \in 1 .. D
  <2>1. documents[d].kind \in Kinds
    BY <1>0, StreamTypes
  <2>2. d \in Nat /\ start[d] \in Nat /\ blank[d] \in Nat /\ start[d + 1] \in Nat
    <3>1. d \in Nat /\ d + 1 \in Nat
      BY <1>2
    <3> QED
      BY <3>1, PlaceIs
  <2> QED
    BY <1>6, <2>1, <2>2, FrameStays
<1>8. /\ unsent = <<>> /\ Len(unsent) = 0 /\ editor = "open"
      /\ documents' = Append(documents, [kind |-> k, framed |-> framed])
      /\ unsent' = f
      /\ UNCHANGED <<stdin, editor, reader, received>>
  BY <1>3 DEF Writes, mainVars
<1>9. /\ Len(documents') = D + 1
      /\ \A d \in 1 .. D : documents'[d] = documents[d]
      /\ documents'[D + 1].kind = k /\ documents'[D + 1].framed = framed
  <2> DEFINE x == [kind |-> k, framed |-> framed]
  <2>1. x.kind = k /\ x.framed = framed
    OBVIOUS
  <2> HIDE DEF x
  <2>2. /\ Len(documents') = D + 1
        /\ \A d \in 1 .. D : documents'[d] = documents[d]
        /\ documents'[D + 1] = x
    <3> DEFINE S == Document \cup {x}
    <3>1. documents' = Append(documents, x)
      BY <1>8 DEF x
    <3>2. documents \in Seq(Document)
      BY StreamTypes
    <3>3. documents \in Seq(S) /\ x \in S
      BY <3>2, SeqMonotonic
    <3> HIDE DEF S
    <3> QED
      BY <1>0, <3>1, <3>3, AppendProperties
  <2> QED
    BY <2>1, <2>2
<1> HIDE DEF v, m
<1>10. /\ start2 \in Places /\ blank2 \in Places
       /\ start2[D + 2] = m + Len(f) /\ blank2[D + 1] = m + b
       /\ \A d \in 1 .. D + 1 : start2[d] = start[d]
       /\ \A d \in 1 .. D : blank2[d] = blank[d]
  <2>1. D + 1 \in Nat /\ D + 2 \in Nat /\ m + Len(f) \in Nat /\ m + b \in Nat
    BY <1>2, <1>4
  <2>2. /\ \A d \in 1 .. D + 1 : d \in Nat \ {D + 2}
        /\ \A d \in 1 .. D : d \in Nat \ {D + 1}
    BY <1>2
  <2>3. /\ start2 \in Places /\ start2[D + 2] = m + Len(f)
        /\ \A d \in Nat \ {D + 2} : start2[d] = start[d]
    BY <2>1, PlaceSet
  <2>4. /\ blank2 \in Places /\ blank2[D + 1] = m + b
        /\ \A d \in Nat \ {D + 1} : blank2[d] = blank[d]
    BY <2>1, PlaceSet
  <2> QED
    BY <2>2, <2>3, <2>4
<1> HIDE DEF start2, blank2
<1>11. StreamAt(v, r, start2, blank2)'
  <2>1. ASSUME NEW d \in 1 .. D + 1
        PROVE  FramedIn(v, documents'[d].kind, d, documents'[d].framed,
                        start2[d], blank2[d], start2[d + 1])
    <3>1. CASE d = D + 1
      <4>1. start2[d] = m /\ start2[d + 1] = m + Len(f) /\ blank2[d] = m + b
        BY <1>2, <1>6, <1>10, <3>1
      <4> QED
        BY <1>5, <1>9, <3>1, <4>1
    <3>2. CASE d \in 1 .. D
      <4>1. start2[d] = start[d] /\ start2[d + 1] = start[d + 1] /\ blank2[d] = blank[d]
        BY <1>2, <1>10, <3>2
      <4> QED
        BY <1>7, <1>9, <3>2, <4>1
    <3> QED
      BY <1>2, <3>1, <3>2
  <2>2. start2[Len(documents') + 1] = Len(v)
    BY <1>2, <1>4, <1>9, <1>10
  <2>3. r + Len(stdin) = m /\ r + Len(stdin') + Len(unsent') = Len(v)
    <3>1. r + Len(stdin) + 0 = m /\ Len(stdin') = Len(stdin) /\ Len(unsent') = Len(f)
      BY <1>6, <1>8
    <3>2. Len(v) = m + Len(f) /\ Len(stdin) \in Nat /\ Len(f) \in Nat
      BY <1>2, <1>4
    <3> QED
      BY <3>1, <3>2
  <2>4. \A i \in 1 .. Len(stdin') : stdin'[i] = v[r + i]
    <3> TAKE i \in 1 .. Len(stdin')
    <3>1. i \in 1 .. Len(stdin) /\ r + i \in 1 .. m
      BY <1>2, <1>8, <2>3
    <3> QED
      BY <1>4, <1>6, <1>8, <3>1
  <2>5. \A i \in 1 .. Len(unsent') : unsent'[i] = v[r + Len(stdin') + i]
    BY <1>4, <1>8, <2>3
  <2> QED
    <3>1. Len(documents') = D + 1
      BY <1>9
    <3> QED
      BY <2>1, <2>2, <2>3, <2>4, <2>5, <3>1 DEF StreamAt
<1>12. ReadTo(r, start2, blank2)'
  <2> DEFINE n == Len(received)
             c == n + 1
  <2>1. /\ received = [i \in 1 .. n |-> i] /\ n <= D
        /\ \A d \in 1 .. n : documents[d].framed
    BY <1>0, <1>1 DEF ReadTo
  <2>2. n = D => /\ r = start[c]
                 /\ reader.lengths = <<>> /\ reader.pc # "body"
                 /\ reader.pc = "failed" => editor = "closed"
    BY <1>0, <1>1 DEF ReadTo
  <2>3. n < D => InFrame(reader, r, start[c], blank[c], Length[documents[c].kind].bytes,
                         documents[c].framed)
    BY <1>0, <1>1 DEF ReadTo
  <2>4. n \in Nat /\ c = n + 1
    BY <1>2
  <2> HIDE DEF n, c
  <2>5. InFrame(reader, r, start2[c], blank2[c], Length[documents'[c].kind].bytes,
                documents'[c].framed)
    <3>1. CASE n = D
      <4>1. c = D + 1 /\ c \in 1 .. D + 1
        BY <1>2, <2>4, <3>1
      <4>2. start2[c] = r /\ blank2[c] = r + b
        BY <1>6, <1>10, <2>2, <3>1, <4>1
      <4>3. reader.lengths = <<>> /\ reader.pc # "body" /\ reader.pc # "failed"
        BY <1>8, <2>2, <3>1
      <4>4. b >= 2
        BY <1>3 DEF FramedIn
      <4>5. r \in r .. (r + b) - 1 /\ r # (r + b) - 1
        BY <4>4
      <4> QED
        BY <4>2, <4>3, <4>5 DEF InFrame
    <3>2. CASE n < D
      <4>1. c \in 1 .. D /\ c \in 1 .. D + 1
        BY <1>2, <2>1, <2>4, <3>2
      <4>2. start2[c] = start[c] /\ blank2[c] = blank[c] /\ documents'[c] = documents[c]
        BY <1>9, <1>10, <4>1
      <4> QED
        BY <2>3, <3>2, <4>2
    <3> QED
      BY <1>2, <2>1, <2>4, <3>1, <3>2
  <2>6. /\ received' = received /\ reader' = reader /\ editor' = editor
        /\ editor = "open" /\ Len(documents') = D + 1
    BY <1>8, <1>9
  <2>7. n <= D + 1 /\ ~(n = D + 1)
    BY <1>2, <2>1, <2>4
  <2>8. \A d \in 1 .. n : documents'[d].framed
    <3> TAKE d \in 1 .. n
    <3>1. d \in 1 .. D
      BY <1>2, <2>1, <2>4
    <3>2. documents'[d] = documents[d]
      BY <1>9, <3>1
    <3> QED
      BY <2>1, <3>2
  <2> QED
    BY <2>1, <2>4, <2>5, <2>6, <2>7, <2>8 DEF ReadTo, n, c
<1> QED
  BY <1>4, <1>10, <1>11, <1>12 DEF Stream

\* The pipe: what has not arrived is still the end of the stream.
LEMMA StreamDelivers ==
    ASSUME TypeInv, Stream, Deliver
    PROVE  Stream'
<1>1. PICK w \in Seq(Item), r \in Nat, start \in Places, blank \in Places :
          StreamAt(w, r, start, blank) /\ ReadTo(r, start, blank)
  BY DEF Stream
<1>2. UNCHANGED <<documents, editor, reader, received>>
  BY DEF Deliver, mainVars
<1>3. PICK p \in Nat, q \in Nat, u \in Nat :
          p = Len(stdin) /\ q = Len(unsent) /\ u \in {q - 1, q} \ {0}
          /\ unsent # <<>>
          /\ stdin' = stdin \o SubSeq(unsent, 1, u)
          /\ unsent' = SubSeq(unsent, u + 1, q)
  <2>1. unsent # <<>>
    BY DEF Deliver
  <2>2. Len(unsent) \in Nat \ {0} /\ Len(stdin) \in Nat
    BY <2>1, EmptySeq, StreamTypes
  <2>3. PICK u \in {Len(unsent) - 1, Len(unsent)} \ {0} :
            /\ stdin' = stdin \o SubSeq(unsent, 1, u)
            /\ unsent' = SubSeq(unsent, u + 1, Len(unsent))
    BY DEF Deliver
  <2>4. u \in Nat
    BY <2>2, <2>3
  <2> QED
    BY <2>1, <2>2, <2>3, <2>4
<1>4. u \in 1 .. q
  <2>1. q # 0
    BY <1>3, StreamTypes, EmptySeq
  <2> QED
    BY <1>3, <2>1
<1>5. /\ SubSeq(unsent, 1, u) \in Seq(Item) /\ Len(SubSeq(unsent, 1, u)) = u
      /\ \A i \in 1 .. u : SubSeq(unsent, 1, u)[i] = unsent[i]
  <2>1. \A i \in 1 .. u : unsent[i] \in Item
    <3>1. \A i \in 1 .. u : i \in 1 .. q
      BY <1>4
    <3> QED
      BY <1>3, <3>1, StreamTypes, ElementOfSeq
  <2>2. /\ SubSeq(unsent, 1, u) \in Seq(Item)
        /\ Len(SubSeq(unsent, 1, u)) = IF 1 <= u THEN u - 1 + 1 ELSE 0
        /\ \A i \in 1 .. u - 1 + 1 : SubSeq(unsent, 1, u)[i] = unsent[1 + i - 1]
    BY <1>4, <2>1, SubSeqProperties
  <2>3. u - 1 + 1 = u /\ \A i \in 1 .. u : 1 + i - 1 = i
    OBVIOUS
  <2> QED
    BY <1>4, <2>2, <2>3
<1>6. /\ Len(unsent') = q - u
      /\ \A i \in 1 .. q - u : unsent'[i] = unsent[u + i]
  <2>1. \A i \in u + 1 .. q : unsent[i] \in Item
    BY <1>3, <1>4, StreamTypes, ElementOfSeq
  <2>2. /\ Len(unsent') = IF u + 1 <= q THEN q - (u + 1) + 1 ELSE 0
        /\ \A i \in 1 .. q - (u + 1) + 1 : unsent'[i] = unsent[(u + 1) + i - 1]
    BY <1>3, <1>4, <2>1, SubSeqProperties
  <2>3. q - (u + 1) + 1 = q - u /\ \A i \in 1 .. q - u : (u + 1) + i - 1 = u + i
    OBVIOUS
  <2> QED
    BY <1>4, <2>2, <2>3
<1>7. /\ Len(stdin') = p + u
      /\ \A i \in 1 .. p : stdin'[i] = stdin[i]
      /\ \A i \in 1 .. u : stdin'[p + i] = unsent[i]
  <2>1. stdin \in Seq(Item)
    BY StreamTypes
  <2> QED
    BY <1>3, <1>5, <2>1, ConcatParts
<1>8. /\ r + p + q = Len(w)
      /\ \A i \in 1 .. p : stdin[i] = w[r + i]
      /\ \A i \in 1 .. q : unsent[i] = w[r + p + i]
  BY <1>1, <1>3 DEF StreamAt
<1>9. StreamAt(w, r, start, blank)'
  <2>1. r + (p + u) + (q - u) = Len(w)
    BY <1>8
  <2>2. ASSUME NEW i \in 1 .. p + u PROVE stdin'[i] = w[r + i]
    <3>1. CASE i \in 1 .. p
      BY <1>7, <1>8, <3>1
    <3>2. CASE i \notin 1 .. p
      <4>1. i - p \in 1 .. u /\ i - p \in 1 .. q /\ p + (i - p) = i /\ r + p + (i - p) = r + i
        BY <1>4, <3>2
      <4> QED
        BY <1>7, <1>8, <4>1
    <3> QED
      BY <3>1, <3>2
  <2>3. ASSUME NEW i \in 1 .. q - u PROVE unsent'[i] = w[r + (p + u) + i]
    <3>1. u + i \in 1 .. q /\ r + p + (u + i) = r + (p + u) + i
      BY <1>4
    <3> QED
      BY <1>6, <1>8, <3>1
  <2> QED
    BY <1>1, <1>2, <1>6, <1>7, <2>1, <2>2, <2>3 DEF StreamAt
<1>10. ReadTo(r, start, blank)'
  <2>1. editor # "closed"
    BY <1>1, <1>3 DEF ReadTo
  <2> QED
    BY <1>1, <1>2, <2>1 DEF ReadTo
<1> QED
  BY <1>9, <1>10 DEF Stream

LEMMA StreamCloses ==
    ASSUME TypeInv, Stream, EditorCloses
    PROVE  Stream'
<1>1. PICK w \in Seq(Item), r \in Nat, start \in Places, blank \in Places :
          StreamAt(w, r, start, blank) /\ ReadTo(r, start, blank)
  BY DEF Stream
<1>2. UNCHANGED <<documents, unsent, stdin, reader, received>> /\ unsent = <<>>
      /\ editor' = "closed"
  BY DEF EditorCloses, mainVars
<1>3. StreamAt(w, r, start, blank)'
  BY <1>1, <1>2 DEF StreamAt
<1>4. ReadTo(r, start, blank)'
  BY <1>1, <1>2 DEF ReadTo
<1> QED
  BY <1>3, <1>4 DEF Stream

LEMMA StreamElse ==
    ASSUME Stream, UNCHANGED <<documents, unsent, stdin, editor, reader, received>>
    PROVE  Stream'
<1>1. PICK w \in Seq(Item), r \in Nat, start \in Places, blank \in Places :
          StreamAt(w, r, start, blank) /\ ReadTo(r, start, blank)
  BY DEF Stream
<1>2. StreamAt(w, r, start, blank)'
  BY <1>1 DEF StreamAt
<1>3. ReadTo(r, start, blank)'
  BY <1>1 DEF ReadTo
<1> QED
  BY <1>2, <1>3 DEF Stream

\* Something follows in the frame that is being read.
LEMMA NextItem ==
    ASSUME TypeInv, NEW w \in Seq(Item), NEW r \in Nat, NEW start \in Places,
           NEW blank \in Places, StreamAt(w, r, start, blank), ReadTo(r, start, blank),
           NEW d \in Nat, d = Len(received) + 1, d <= Len(documents)
    PROVE  /\ FramedIn(w, documents[d].kind, d, documents[d].framed,
                       start[d], blank[d], start[d + 1])
           /\ InFrame(reader, r, start[d], blank[d], Length[documents[d].kind].bytes,
                      documents[d].framed)
           /\ documents[d].kind \in Kinds
           /\ start[d] \in Nat /\ blank[d] \in Nat /\ start[d + 1] \in Nat
<1>1. d \in 1 .. Len(documents) /\ Len(received) < Len(documents) /\ d + 1 \in Nat
  BY StreamTypes
<1>2. documents[d].kind \in Kinds
  BY <1>1, StreamTypes
<1>3. start[d] \in Nat /\ blank[d] \in Nat /\ start[d + 1] \in Nat
  BY <1>1, PlaceIs
<1>4. FramedIn(w, documents[d].kind, d, documents[d].framed,
               start[d], blank[d], start[d + 1])
  BY <1>1 DEF StreamAt
<1>5. InFrame(reader, r, start[d], blank[d], Length[documents[d].kind].bytes,
              documents[d].framed)
  BY <1>1 DEF ReadTo
<1> QED
  BY <1>2, <1>3, <1>4, <1>5

\* Reading m items of the stream.
LEMMA Consumed ==
    ASSUME TypeInv, NEW w, NEW r \in Nat, NEW start, NEW blank, StreamAt(w, r, start, blank),
           UNCHANGED <<documents, unsent>>,
           NEW m \in Nat, m <= Len(stdin), Len(stdin') = Len(stdin) - m,
           \A i \in 1 .. Len(stdin) - m : stdin'[i] = stdin[m + i]
    PROVE  StreamAt(w, r + m, start, blank)'
<1>1. PICK p \in Nat, q \in Nat : p = Len(stdin) /\ q = Len(unsent)
  BY StreamTypes
<1>2. /\ r + p + q = Len(w)
      /\ \A i \in 1 .. p : stdin[i] = w[r + i]
      /\ \A i \in 1 .. q : unsent[i] = w[r + p + i]
  BY <1>1 DEF StreamAt
<1>3. (r + m) + (p - m) + q = Len(w) /\ (r + m) + (p - m) = r + p
  <2>1. (r + m) + (p - m) = r + p
    OBVIOUS
  <2> QED
    BY <1>2, <2>1
<1>4. ASSUME NEW i \in 1 .. p - m PROVE stdin'[i] = w[(r + m) + i]
  <2>1. m + i \in 1 .. p /\ r + (m + i) = (r + m) + i
    OBVIOUS
  <2> QED
    BY <1>1, <1>2, <2>1
<1>5. /\ documents' = documents /\ Len(stdin') = p - m /\ Len(unsent') = q
      /\ unsent' = unsent
  BY <1>1
<1>6. (r + m) + Len(stdin') + Len(unsent') = Len(w)
  BY <1>3, <1>5
<1>7. \A i \in 1 .. Len(unsent') : unsent'[i] = w[(r + m) + Len(stdin') + i]
  BY <1>2, <1>3, <1>5
<1>8. /\ start[Len(documents) + 1] = Len(w)
      /\ \A d \in 1 .. Len(documents) :
             FramedIn(w, documents[d].kind, d, documents[d].framed,
                      start[d], blank[d], start[d + 1])
  BY DEF StreamAt
<1> QED
  BY <1>4, <1>5, <1>6, <1>7, <1>8 DEF StreamAt

\* What a line does to the reader.
AfterLine(rd, line) ==
    CASE line.is = "length" -> [rd EXCEPT !.lengths = Append(@, line.value)]
      [] line = BlankLine -> [rd EXCEPT !.pc = "body"]
      [] OTHER -> rd

LEMMA LineInFrame ==
    ASSUME NEW rd \in Reader, rd.pc = "header",
           NEW w \in Seq(Item), NEW k \in Kinds, NEW d \in Nat, NEW framed,
           NEW s \in Nat, NEW b \in Nat, NEW e \in Nat, NEW r \in Nat,
           FramedIn(w, k, d, framed, s, b, e),
           InFrame(rd, r, s, b, Length[k].bytes, framed),
           NEW line, line = w[r + 1]
    PROVE  /\ line.is # "byte"
           /\ framed => line # BadLength /\ (line = BlankLine => rd.lengths # <<>>)
           /\ line # BadLength /\ (line = BlankLine => rd.lengths # <<>>)
              => InFrame(AfterLine(rd, line), r + 1, s, b, Length[k].bytes, framed)
<1> DEFINE L   == Length[k].bytes
           rd2 == AfterLine(rd, line)
<1>1. L \in Nat \ {0}
  BY LengthAssumption
<1> HIDE DEF L
<1>2. r \in s .. b - 1 /\ s + 2 <= b /\ e = b + L /\ e <= Len(w) /\ Len(w) \in Nat
  BY DEF InFrame, FramedIn, L
<1>3. w[b] = BlankLine
  BY DEF FramedIn
<1>4. line \in Item
  <2>1. r + 1 \in 1 .. Len(w)
    BY <1>1, <1>2
  <2> QED
    BY <2>1, ElementOfSeq
<1>5. /\ BlankLine.is = "blank" /\ BadLength.is = "badLength" /\ OtherLine.is = "other"
      /\ \A n : LengthLine(n).is = "length" /\ LengthLine(n).value = n
  BY DEF BlankLine, BadLength, OtherLine, LengthLine
<1>6. CASE r + 1 = b
  <2>1. line = BlankLine
    BY <1>3, <1>6
  <2>2. rd2 = [rd EXCEPT !.pc = "body"]
    BY <1>5, <2>1 DEF AfterLine
  <2>3. rd2.pc = "body" /\ rd2.lengths = rd.lengths
    BY <2>2 DEF Reader
  <2>4. r = b - 1
    BY <1>2, <1>6
  <2>5. framed => rd.lengths # <<>> /\ Last(rd.lengths) = L
    BY <2>4 DEF InFrame, L
  <2>6. ~framed /\ rd.lengths # <<>> => Last(rd.lengths) # L
    BY DEF InFrame, L
  <2>7. rd.lengths # <<>> => InFrame(rd2, r + 1, s, b, L, framed)
    BY <1>6, <2>3, <2>5, <2>6 DEF InFrame
  <2>8. line.is # "byte" /\ line # BadLength /\ (framed => rd.lengths # <<>>)
    BY <1>5, <2>1, <2>5
  <2>9. /\ line.is # "byte"
        /\ framed => line # BadLength /\ (line = BlankLine => rd.lengths # <<>>)
        /\ line # BadLength /\ (line = BlankLine => rd.lengths # <<>>)
           => InFrame(rd2, r + 1, s, b, L, framed)
    <3> HIDE DEF rd2
    <3> QED
      BY <2>1, <2>7, <2>8
  <2> QED
    BY <2>9 DEF L
<1>7. CASE r + 1 # b /\ framed
  <2>1. r + 1 \in s + 1 .. b - 1 /\ r + 1 \in s .. b - 1
    <3>1. r + 1 # b
      BY <1>7
    <3> QED
      BY <1>2, <3>1
  <2>2. /\ line.is \in {"length", "other"}
        /\ r + 1 = b - 1 => line = LengthLine(L)
    BY <1>7, <2>1 DEF FramedIn, L
  <2>3. CASE line.is = "length"
    <3>1. rd2 = [rd EXCEPT !.lengths = Append(@, line.value)]
      BY <1>5, <2>3 DEF AfterLine
    <3>2. line.value \in Nat
      BY <1>4, <2>3 DEF Item, Line, Byte, BadLength, OtherLine, BlankLine
    <3>3. /\ Append(rd.lengths, line.value) # <<>>
          /\ Last(Append(rd.lengths, line.value)) = line.value
      <4>1. /\ Append(rd.lengths, line.value) # <<>>
            /\ Len(Append(rd.lengths, line.value)) = Len(rd.lengths) + 1
            /\ Append(rd.lengths, line.value)[Len(rd.lengths) + 1] = line.value
        <5>1. rd.lengths \in Seq(Nat)
          BY DEF Reader
        <5> QED
          BY <3>2, <5>1, AppendProperties
      <4> QED
        BY <4>1 DEF Last
    <3>4. rd2.pc = "header" /\ rd2.lengths = Append(rd.lengths, line.value)
      BY <3>1 DEF Reader
    <3>5. InFrame(rd2, r + 1, s, b, L, framed)
      <4>1. r + 1 = b - 1 => rd2.lengths # <<>> /\ Last(rd2.lengths) = L
        BY <1>5, <2>2, <3>3, <3>4
      <4> HIDE DEF rd2
      <4> QED
        BY <1>7, <2>1, <3>4, <4>1 DEF InFrame
    <3> QED
      BY <1>5, <2>3, <3>5 DEF L
  <2>4. CASE line.is = "other"
    <3>1. rd2 = rd
      BY <1>5, <2>4 DEF AfterLine
    <3>2. r + 1 # b - 1
      BY <1>5, <2>2, <2>4
    <3>3. InFrame(rd2, r + 1, s, b, L, framed)
      <4> HIDE DEF rd2
      <4> QED
        BY <1>7, <2>1, <3>1, <3>2 DEF InFrame
    <3> QED
      BY <1>5, <2>4, <3>3 DEF L
  <2> QED
    BY <2>2, <2>3, <2>4
<1>8. CASE r + 1 # b /\ ~framed
  <2>1. b = s + 2 /\ r = s
    BY <1>2, <1>8 DEF FramedIn
  <2>2. line \in {LengthLine(L - 1), LengthLine(L + 1), BadLength, OtherLine}
    BY <1>8, <2>1 DEF FramedIn, L
  <2>3. r + 1 \in s .. b - 1
    BY <2>1
  <2>4. CASE line.is = "length"
    <3>1. rd2 = [rd EXCEPT !.lengths = Append(@, line.value)]
      BY <1>5, <2>4 DEF AfterLine
    <3>2. line.value \in Nat /\ line.value # L
      <4>1. CASE line = LengthLine(L - 1)
        BY <1>1, <1>5, <4>1
      <4>2. CASE line = LengthLine(L + 1)
        BY <1>1, <1>5, <4>2
      <4> QED
        BY <1>5, <2>2, <2>4, <4>1, <4>2
    <3>3. /\ Append(rd.lengths, line.value) # <<>>
          /\ Last(Append(rd.lengths, line.value)) = line.value
      <4>1. /\ Append(rd.lengths, line.value) # <<>>
            /\ Len(Append(rd.lengths, line.value)) = Len(rd.lengths) + 1
            /\ Append(rd.lengths, line.value)[Len(rd.lengths) + 1] = line.value
        <5>1. rd.lengths \in Seq(Nat)
          BY DEF Reader
        <5> QED
          BY <3>2, <5>1, AppendProperties
      <4> QED
        BY <4>1 DEF Last
    <3>4. rd2.pc = "header" /\ rd2.lengths = Append(rd.lengths, line.value)
      BY <3>1 DEF Reader
    <3>5. InFrame(rd2, r + 1, s, b, L, framed)
      <4>1. Last(rd2.lengths) # L
        BY <3>2, <3>3, <3>4
      <4> HIDE DEF rd2
      <4> QED
        BY <1>8, <2>3, <3>4, <4>1 DEF InFrame
    <3> QED
      BY <1>5, <1>8, <2>4, <3>5 DEF L
  <2>5. CASE line = OtherLine
    <3>1. rd2 = rd
      BY <1>5, <2>5 DEF AfterLine
    <3>2. rd.lengths # <<>> => Last(rd.lengths) # L
      BY <1>8 DEF InFrame, L
    <3>3. InFrame(rd2, r + 1, s, b, L, framed)
      <4> HIDE DEF rd2
      <4> QED
        BY <1>8, <2>3, <3>1, <3>2 DEF InFrame
    <3> QED
      BY <1>5, <1>8, <2>5, <3>3 DEF L
  <2>6. CASE line = BadLength
    BY <1>5, <1>8, <2>6
  <2> QED
    BY <1>5, <2>2, <2>4, <2>5, <2>6
<1> QED
  BY <1>6, <1>7, <1>8

\* Before the end of what has been written there is a document to read.
LEMMA ReadingOne ==
    ASSUME TypeInv, NEW w \in Seq(Item), NEW r \in Nat, NEW start \in Places,
           NEW blank \in Places, StreamAt(w, r, start, blank), ReadTo(r, start, blank),
           stdin # <<>> \/ reader.pc = "body"
    PROVE  Len(received) + 1 <= Len(documents)
<1>1. PICK n \in Nat, D \in Nat, p \in Nat, q \in Nat :
          n = Len(received) /\ D = Len(documents) /\ p = Len(stdin) /\ q = Len(unsent)
  BY StreamTypes
<1>2. n <= D
  BY <1>1 DEF ReadTo
<1>3. CASE n = D
  <2>1. r = start[D + 1] /\ reader.pc # "body"
    BY <1>1, <1>3 DEF ReadTo
  <2>2. start[D + 1] = Len(w) /\ r + p + q = Len(w)
    BY <1>1 DEF StreamAt
  <2>3. p = 0
    BY <2>1, <2>2
  <2>4. stdin = <<>>
    BY <1>1, <2>3, StreamTypes, EmptySeq
  <2> QED
    BY <2>1, <2>4
<1> QED
  BY <1>1, <1>2, <1>3

LEMMA StreamLine ==
    ASSUME TypeInv, Stream, ReadLine
    PROVE  Stream'
<1>1. PICK w \in Seq(Item), r \in Nat, start \in Places, blank \in Places :
          StreamAt(w, r, start, blank) /\ ReadTo(r, start, blank)
  BY DEF Stream
<1>2. PICK n \in Nat, D \in Nat, p \in Nat :
          n = Len(received) /\ D = Len(documents) /\ p = Len(stdin)
  BY StreamTypes
<1>3. PICK d \in Nat : d = n + 1
  OBVIOUS
<1>4. UNCHANGED <<documents, unsent, editor, received>> /\ reader.pc = "header"
      /\ stdin # <<>>
  BY DEF ReadLine, ReaderFails
<1>5. d <= D /\ n < D /\ n # D
  BY <1>1, <1>2, <1>3, <1>4, ReadingOne
<1>6. PICK k, framed, s, b, e : /\ k = documents[d].kind /\ framed = documents[d].framed
                                /\ s = start[d] /\ b = blank[d] /\ e = start[d + 1]
  OBVIOUS
<1>7. /\ FramedIn(w, k, d, framed, s, b, e)
      /\ InFrame(reader, r, s, b, Length[k].bytes, framed)
      /\ k \in Kinds /\ s \in Nat /\ b \in Nat /\ e \in Nat
  BY <1>1, <1>2, <1>3, <1>5, <1>6, NextItem
<1>8. /\ \A c \in 1 .. n : documents[c].framed
      /\ received = [i \in 1 .. n |-> i]
      /\ editor = "closed" => unsent = <<>>
  BY <1>1, <1>2 DEF ReadTo
<1>9. stdin[1] = w[r + 1] /\ Head(stdin) = stdin[1] /\ p >= 1
  <2>1. p # 0
    BY <1>2, <1>4, StreamTypes, EmptySeq
  <2>2. 1 \in 1 .. Len(stdin)
    BY <1>2, <2>1
  <2>3. stdin[1] = w[r + 1]
    BY <1>1, <2>2 DEF StreamAt
  <2>4. Head(stdin) = stdin[1]
    OBVIOUS
  <2> QED
    BY <2>1, <2>3, <2>4
<1>0. /\ Len(received') = n /\ Len(documents') = D /\ n <= D
      /\ received' = [i \in 1 .. n |-> i]
      /\ \A c \in 1 .. n : documents'[c].framed
      /\ editor' = "closed" => unsent' = <<>>
      /\ documents'[n + 1].kind = k /\ documents'[n + 1].framed = framed
      /\ start[n + 1] = s /\ blank[n + 1] = b
  BY <1>2, <1>3, <1>4, <1>5, <1>6, <1>8
<1> DEFINE line == Head(stdin)
           rd2  == AfterLine(reader, line)
<1>10. /\ framed => line # BadLength /\ (line = BlankLine => reader.lengths # <<>>)
       /\ line # BadLength /\ (line = BlankLine => reader.lengths # <<>>)
          => InFrame(rd2, r + 1, s, b, Length[k].bytes, framed)
  <2>1. reader \in Reader
    BY StreamTypes
  <2>2. line = w[r + 1]
    BY <1>9
  <2> HIDE DEF line
  <2>4. framed => line # BadLength /\ (line = BlankLine => reader.lengths # <<>>)
    <3>1. CASE framed = TRUE
      BY <1>4, <1>7, <2>1, <2>2, <3>1, LineInFrame
    <3>2. framed \in BOOLEAN
      <4>1. documents \in Seq(Document) /\ d \in 1 .. Len(documents)
        BY <1>2, <1>3, <1>5, StreamTypes
      <4>2. documents[d] \in Document
        BY <4>1, ElementOfSeq
      <4> QED
        BY <1>6, <4>2 DEF Document
    <3> QED
      BY <3>1, <3>2
  <2>5. line # BadLength /\ (line = BlankLine => reader.lengths # <<>>)
        => InFrame(AfterLine(reader, line), r + 1, s, b, Length[k].bytes, framed)
    BY <1>4, <1>7, <2>1, <2>2, LineInFrame
  <2> QED
    BY <2>4, <2>5
<1> HIDE DEF line
<1>11. CASE line = BadLength \/ (line = BlankLine /\ reader.lengths = <<>>)
  <2>1. ReaderFails
    BY <1>11 DEF ReadLine, line
  <2>2. ~framed
    BY <1>10, <1>11
  <2>3. stdin' = stdin /\ reader'.pc = "failed"
    <3>1. reader \in Reader
      BY StreamTypes
    <3> QED
      BY <2>1, <3>1 DEF ReaderFails, Reader
  <2>4. StreamAt(w, r, start, blank)'
    BY <1>1, <1>4, <2>3 DEF StreamAt
  <2>5. InFrame(reader', r, s, b, Length[k].bytes, framed)
    BY <2>2, <2>3 DEF InFrame
  <2>6. ReadTo(r, start, blank)'
    BY <1>0, <1>5, <2>5 DEF ReadTo
  <2> QED
    BY <2>4, <2>6 DEF Stream
<1>12. CASE ~(line = BadLength \/ (line = BlankLine /\ reader.lengths = <<>>))
  <2>1. reader' = rd2 /\ stdin' = Tail(stdin)
    BY <1>12 DEF ReadLine, AfterLine, line
  <2> HIDE DEF rd2
  <2>2. Len(stdin') = p - 1 /\ \A i \in 1 .. p - 1 : stdin'[i] = stdin[1 + i]
    <3>1. Len(stdin') = p - 1 /\ \A i \in 1 .. p - 1 : stdin'[i] = stdin[i + 1]
      BY <1>2, <1>4, <2>1, StreamTypes, HeadTailProperties
    <3> QED
      BY <3>1
  <2>3. StreamAt(w, r + 1, start, blank)'
    BY <1>1, <1>2, <1>4, <1>9, <2>2, Consumed
  <2>4. InFrame(reader', r + 1, s, b, Length[k].bytes, framed)
    BY <1>10, <1>12, <2>1
  <2>5. ReadTo(r + 1, start, blank)'
    BY <1>0, <1>5, <2>4 DEF ReadTo
  <2>6. r + 1 \in Nat
    OBVIOUS
  <2> QED
    BY <2>3, <2>5, <2>6 DEF Stream
<1> QED
  BY <1>11, <1>12

\* The body: of a sound frame it is the document, of an unsound one it is none.
LEMMA BodyInFrame ==
    ASSUME TypeInv, NEW w \in Seq(Item), NEW r \in Nat, NEW start \in Places,
           NEW blank \in Places, StreamAt(w, r, start, blank), ReadTo(r, start, blank),
           reader.pc = "body", Len(stdin) >= Announced,
           NEW d \in Nat, d = Len(received) + 1
    PROVE  /\ d <= Len(documents)
           /\ Announced \in Nat
           /\ IsDocument(SubSeq(stdin, 1, Announced)) <=> documents[d].framed
           /\ documents[d].framed => /\ r + Announced = start[d + 1]
                                     /\ SubSeq(stdin, 1, Announced)[1].doc = d
<1>0. \A i \in 1 .. Len(stdin) : stdin[i] = w[r + i]
  BY DEF StreamAt
<1>1. d <= Len(documents)
  BY ReadingOne
<1>2. PICK k, framed, s, b, e : /\ k = documents[d].kind /\ framed = documents[d].framed
                                /\ s = start[d] /\ b = blank[d] /\ e = start[d + 1]
  OBVIOUS
<1>3. /\ FramedIn(w, k, d, framed, s, b, e)
      /\ InFrame(reader, r, s, b, Length[k].bytes, framed)
      /\ k \in Kinds /\ b \in Nat
  BY <1>1, <1>2, NextItem
<1>4. PICK A \in Nat : A = Announced
  <2>1. reader.lengths \in Seq(Nat) /\ reader.lengths # <<>>
    BY StreamTypes DEF TypeInv, MainTypes
  <2>2. Len(reader.lengths) \in 1 .. Len(reader.lengths)
    BY <2>1, EmptySeq
  <2> QED
    BY <2>1, <2>2, ElementOfSeq DEF Announced, Last
<1>5. PICK L \in Nat \ {0} : L = Length[k].bytes
  BY <1>3, LengthAssumption
<1>6. PICK body : body = SubSeq(stdin, 1, A)
  OBVIOUS
<1>7. body \in Seq(Item) /\ Len(body) = A /\ \A i \in 1 .. A : body[i] = stdin[i]
  <2>1. PICK p \in Nat : p = Len(stdin) /\ A <= p
    BY <1>4, StreamTypes
  <2>2. \A i \in 1 .. A : i \in 1 .. p
    BY <2>1
  <2>3. \A i \in 1 .. A : stdin[i] \in Item
    BY <2>1, <2>2, StreamTypes, ElementOfSeq
  <2>4. /\ SubSeq(stdin, 1, A) \in Seq(Item)
        /\ Len(SubSeq(stdin, 1, A)) = IF 1 <= A THEN A - 1 + 1 ELSE 0
        /\ \A i \in 1 .. A - 1 + 1 : SubSeq(stdin, 1, A)[i] = stdin[1 + i - 1]
    BY <2>3, SubSeqProperties
  <2>5. /\ (IF 1 <= A THEN A - 1 + 1 ELSE 0) = A /\ A - 1 + 1 = A
        /\ \A i \in 1 .. A : 1 + i - 1 = i
    OBVIOUS
  <2> QED
    BY <1>6, <2>4, <2>5
<1>8. r = b /\ e = b + L
  BY <1>3, <1>5 DEF InFrame, FramedIn
<1>9. \A i \in 1 .. A : i <= L => body[i] = [is |-> "byte", doc |-> d, at |-> i]
  <2> SUFFICES ASSUME NEW i \in 1 .. A, i <= L
               PROVE  body[i] = [is |-> "byte", doc |-> d, at |-> i]
    OBVIOUS
  <2>1. i \in 1 .. Len(stdin) /\ i \in 1 .. L
    BY <1>4, StreamTypes
  <2>2. stdin[i] = w[r + i]
    BY <1>0, <2>1
  <2>3. w[b + i] = [is |-> "byte", doc |-> d, at |-> i]
    BY <1>3, <1>5, <2>1 DEF FramedIn
  <2> QED
    BY <1>7, <1>8, <2>2, <2>3
<1>10. framed => A = L
  BY <1>3, <1>4, <1>5 DEF InFrame, Announced
<1>11. framed \/ A # L
  <2>1. reader.lengths # <<>>
    BY DEF TypeInv, MainTypes
  <2> QED
    <3>1. CASE ~framed
      <4>1. Last(reader.lengths) # Length[k].bytes
        BY <1>3, <2>1, <3>1 DEF InFrame
      <4> QED
        BY <1>4, <1>5, <4>1 DEF Announced
    <3> QED
      BY <3>1
<1>12. A = L => IsDocument(body) /\ body[1].doc = d
  <2> SUFFICES ASSUME A = L PROVE IsDocument(body) /\ body[1].doc = d
    OBVIOUS
  <2>1. \A i \in 1 .. L : body[i] = [is |-> "byte", doc |-> d, at |-> i]
    BY <1>9
  <2>2. /\ Bytes(k, d) \in Seq(Item) /\ Len(Bytes(k, d)) = L
        /\ \A i \in 1 .. L : Bytes(k, d)[i] = [is |-> "byte", doc |-> d, at |-> i]
    BY <1>3, <1>5, BytesType
  <2>3. \A i \in 1 .. Len(body) : body[i] = Bytes(k, d)[i]
    BY <1>7, <2>1, <2>2
  <2>4. body = Bytes(k, d)
    BY <1>7, <2>2, <2>3, SeqEqual
  <2>5. d \in DOMAIN documents
    BY <1>1, StreamTypes
  <2>6. 1 \in 1 .. L
    OBVIOUS
  <2>7. body[1].doc = d
    <3>1. body[1] = [is |-> "byte", doc |-> d, at |-> 1]
      BY <2>1, <2>6
    <3> QED
      BY <3>1
  <2>8. IsDocument(body)
    BY <1>2, <2>4, <2>5 DEF IsDocument
  <2> QED
    BY <2>7, <2>8
<1>13. IsDocument(body) => A = L
  <2> SUFFICES ASSUME IsDocument(body) PROVE A = L
    OBVIOUS
  <2>1. PICK c : c = body[1].doc
    OBVIOUS
  <2>2. c \in DOMAIN documents /\ documents[c].kind \in Kinds /\ body = Bytes(documents[c].kind, c)
    BY <2>1, DocumentBody
  <2>3. c \in Nat
    <3>1. documents \in Seq(Document)
      BY StreamTypes
    <3>2. DOMAIN documents = 1 .. Len(documents) /\ Len(documents) \in Nat
      BY <3>1, LenProperties
    <3> QED
      BY <2>2, <3>2
  <2>4. Len(body) = Length[documents[c].kind].bytes /\ Len(body) \in Nat \ {0}
    <3>1. PICK j \in Kinds : j = documents[c].kind
      BY <2>2
    <3>2. Len(Bytes(j, c)) = Length[j].bytes /\ Length[j].bytes \in Nat \ {0}
      BY <2>3, BytesType
    <3> QED
      BY <2>2, <3>1, <3>2
  <2>5. 1 \in 1 .. A /\ 1 <= L
    BY <1>7, <2>4
  <2>6. body[1] = [is |-> "byte", doc |-> d, at |-> 1]
    BY <1>9, <2>5
  <2>7. c = d
    BY <2>1, <2>6
  <2> QED
    BY <1>2, <1>5, <1>7, <2>4, <2>7
<1>14. framed \in BOOLEAN
  <2>1. documents \in Seq(Document) /\ d \in 1 .. Len(documents)
    BY <1>1, StreamTypes
  <2>2. documents[d] \in Document
    BY <2>1, ElementOfSeq
  <2> QED
    BY <1>2, <2>2 DEF Document
<1>15. IsDocument(body) <=> framed
  BY <1>10, <1>11, <1>12, <1>13, <1>14
<1>16. framed => r + A = start[d + 1] /\ body[1].doc = d
  BY <1>2, <1>8, <1>10, <1>12
<1> QED
  BY <1>1, <1>2, <1>4, <1>6, <1>15, <1>16

LEMMA StreamBody ==
    ASSUME TypeInv, Stream, ReadBody
    PROVE  Stream'
<1>1. PICK w \in Seq(Item), r \in Nat, start \in Places, blank \in Places :
          StreamAt(w, r, start, blank) /\ ReadTo(r, start, blank)
  BY DEF Stream
<1>2. PICK n \in Nat, D \in Nat, p \in Nat :
          n = Len(received) /\ D = Len(documents) /\ p = Len(stdin)
  BY StreamTypes
<1>3. PICK d \in Nat : d = n + 1
  OBVIOUS
<1>4. UNCHANGED <<documents, unsent, editor>> /\ reader.pc = "body"
      /\ Len(stdin) >= Announced
  BY DEF ReadBody
<1>5. PICK A, body : A = Announced /\ body = SubSeq(stdin, 1, A)
  OBVIOUS
<1>6. /\ d <= D /\ A \in Nat /\ A <= p
      /\ IsDocument(body) <=> documents[d].framed
      /\ documents[d].framed => r + A = start[d + 1] /\ body[1].doc = d
  BY <1>1, <1>2, <1>3, <1>4, <1>5, BodyInFrame
<1>7. /\ \A c \in 1 .. n : documents[c].framed
      /\ received = [i \in 1 .. n |-> i]
      /\ editor = "closed" => unsent = <<>>
  BY <1>1, <1>2 DEF ReadTo
<1>8. CASE ~IsDocument(body)
  <2>1. ReaderFails
    BY <1>5, <1>8 DEF ReadBody
  <2>2. UNCHANGED <<stdin, received>> /\ reader'.pc = "failed"
    <3>1. reader \in Reader
      BY StreamTypes
    <3> QED
      BY <2>1, <3>1 DEF ReaderFails, Reader
  <2>3. StreamAt(w, r, start, blank)'
    BY <1>1, <1>4, <2>2 DEF StreamAt
  <2>4. ~documents'[n + 1].framed
    BY <1>3, <1>4, <1>6, <1>8
  <2>5. \A s, b, L : InFrame(reader', r, s, b, L, documents'[n + 1].framed)
    BY <2>2, <2>4 DEF InFrame
  <2>6. /\ Len(received') = n /\ Len(documents') = D /\ n <= D /\ n # D
        /\ received' = [i \in 1 .. n |-> i]
        /\ \A c \in 1 .. n : documents'[c].framed
        /\ editor' = "closed" => unsent' = <<>>
    BY <1>2, <1>3, <1>4, <1>6, <1>7, <2>2
  <2>7. ReadTo(r, start, blank)'
    BY <2>5, <2>6 DEF ReadTo
  <2> QED
    BY <2>3, <2>7 DEF Stream
<1>9. CASE IsDocument(body)
  <2>1. /\ stdin' = SubSeq(stdin, A + 1, p)
        /\ reader' = [pc |-> "header", lengths |-> <<>>]
        /\ received' = Append(received, body[1].doc)
    BY <1>2, <1>5, <1>9 DEF ReadBody
  <2>2. documents[d].framed /\ body[1].doc = d /\ r + A = start[d + 1]
    BY <1>6, <1>9
  <2>3. Len(stdin') = p - A /\ \A i \in 1 .. p - A : stdin'[i] = stdin[A + i]
    <3>1. \A i \in A + 1 .. p : i \in 1 .. p
      BY <1>6
    <3>2. \A i \in A + 1 .. p : stdin[i] \in Item
      BY <1>2, <3>1, StreamTypes, ElementOfSeq
    <3>3. /\ Len(stdin') = IF A + 1 <= p THEN p - (A + 1) + 1 ELSE 0
          /\ \A i \in 1 .. p - (A + 1) + 1 : stdin'[i] = stdin[(A + 1) + i - 1]
      BY <1>6, <2>1, <3>2, SubSeqProperties
    <3>4. /\ (IF A + 1 <= p THEN p - (A + 1) + 1 ELSE 0) = p - A
          /\ p - (A + 1) + 1 = p - A /\ \A i \in 1 .. p - A : (A + 1) + i - 1 = A + i
      BY <1>6
    <3> QED
      BY <3>3, <3>4
  <2>4. StreamAt(w, r + A, start, blank)'
    BY <1>1, <1>2, <1>4, <1>6, <2>3, Consumed
  <2>5. /\ Len(received') = d /\ received' = [i \in 1 .. d |-> i]
    <3>1. received \in Seq(Nat) /\ received' = Append(received, d)
      BY <1>2, <1>7, <2>1, <2>2
    <3>2. /\ received' \in Seq(Nat) /\ Len(received') = n + 1
          /\ \A i \in 1 .. n : received'[i] = received[i]
          /\ received'[n + 1] = d
      BY <1>2, <3>1, AppendProperties
    <3>3. \A i \in 1 .. d : received'[i] = i
      BY <1>3, <1>7, <3>2
    <3>4. received' = [i \in 1 .. d |-> received'[i]]
      BY <1>3, <3>2, LenProperties
    <3> QED
      BY <1>3, <3>2, <3>3, <3>4
  <2>6. /\ Len(documents') = D /\ d <= D
        /\ \A c \in 1 .. d : documents'[c].framed
        /\ editor' = "closed" => unsent' = <<>>
    BY <1>2, <1>3, <1>4, <1>6, <1>7, <2>2
  <2>7. reader'.pc = "header" /\ reader'.lengths = <<>>
    BY <2>1
  <2>8. ASSUME d < D
        PROVE  InFrame(reader', r + A, start[d + 1], blank[d + 1],
                       Length[documents'[d + 1].kind].bytes, documents'[d + 1].framed)
    <3>1. d + 1 \in 1 .. Len(documents)
      BY <1>2, <2>8
    <3>2. start[d + 1] + 2 <= blank[d + 1]
      BY <1>1, <3>1 DEF StreamAt, FramedIn
    <3>3. start[d + 1] \in Nat /\ blank[d + 1] \in Nat
      BY <3>1, PlaceIs
    <3>4. r + A \in start[d + 1] .. blank[d + 1] - 1 /\ r + A # blank[d + 1] - 1
      BY <2>2, <3>2, <3>3
    <3> QED
      BY <2>7, <3>4 DEF InFrame
  <2>9. ReadTo(r + A, start, blank)'
    BY <2>2, <2>5, <2>6, <2>7, <2>8 DEF ReadTo
  <2>10. r + A \in Nat
    BY <1>6
  <2> QED
    BY <2>4, <2>9, <2>10 DEF Stream
<1> QED
  BY <1>8, <1>9

\* The end of stdin is no end of a sound stream.
LEMMA StreamEof ==
    ASSUME TypeInv, Stream, ReadEof
    PROVE  Stream'
<1>1. PICK w \in Seq(Item), r \in Nat, start \in Places, blank \in Places :
          StreamAt(w, r, start, blank) /\ ReadTo(r, start, blank)
  BY DEF Stream
<1>2. PICK n \in Nat, D \in Nat, p \in Nat :
          n = Len(received) /\ D = Len(documents) /\ p = Len(stdin)
  BY StreamTypes
<1>3. UNCHANGED <<documents, unsent, stdin, editor, received>> /\ reader'.pc = "failed"
      /\ reader'.lengths = reader.lengths
      /\ editor = "closed" /\ reader.pc # "failed"
      /\ Len(stdin) < IF reader.pc = "body" THEN Announced ELSE 1
  <2>1. reader \in Reader
    BY StreamTypes
  <2> QED
    BY <2>1 DEF ReadEof, ReaderFails, Reader
<1>4. /\ \A c \in 1 .. n : documents[c].framed
      /\ received = [i \in 1 .. n |-> i]
      /\ unsent = <<>> /\ n <= D
  BY <1>1, <1>2, <1>3 DEF ReadTo
<1>5. StreamAt(w, r, start, blank)'
  BY <1>1, <1>3 DEF StreamAt
<1>6. ASSUME n < D
      PROVE  InFrame(reader', r, start[n + 1], blank[n + 1],
                     Length[documents'[n + 1].kind].bytes, documents'[n + 1].framed)
  <2>1. PICK d \in Nat : d = n + 1 /\ d <= D
    BY <1>6
  <2>2. PICK k, framed, s, b, e : /\ k = documents[d].kind /\ framed = documents[d].framed
                                  /\ s = start[d] /\ b = blank[d] /\ e = start[d + 1]
    OBVIOUS
  <2>3. /\ FramedIn(w, k, d, framed, s, b, e)
        /\ InFrame(reader, r, s, b, Length[k].bytes, framed)
        /\ k \in Kinds /\ s \in Nat /\ b \in Nat
    BY <1>1, <1>2, <2>1, <2>2, NextItem
  <2>4. PICK L \in Nat \ {0} : L = Length[k].bytes
    BY <2>3, LengthAssumption
  <2>5. r + p + 0 = Len(w) /\ e = b + L /\ e <= Len(w)
    <3>1. Len(unsent) = 0 /\ r + p + Len(unsent) = Len(w)
      BY <1>1, <1>2, <1>4 DEF StreamAt
    <3> QED
      BY <2>3, <2>4, <3>1 DEF FramedIn
  <2>6. CASE framed
    <3>1. CASE reader.pc = "body"
      <4>1. r = b /\ Announced = L
        BY <2>3, <2>4, <2>6, <3>1 DEF InFrame, Announced
      <4>2. p < L
        BY <1>2, <1>3, <3>1, <4>1
      <4> QED
        BY <2>3, <2>5, <4>1, <4>2
    <3>2. CASE reader.pc = "header"
      <4>1. r \in s .. b - 1
        BY <2>3, <3>2 DEF InFrame
      <4>2. p = 0
        BY <1>2, <1>3, <3>2
      <4> QED
        BY <2>3, <2>4, <2>5, <4>1, <4>2
    <3> QED
      BY <1>3, <3>1, <3>2, StreamTypes
  <2>7. CASE ~framed
    BY <1>3, <2>1, <2>2, <2>7 DEF InFrame
  <2> QED
    BY <2>6, <2>7
<1>7. n = D => r = start[n + 1] /\ reader.lengths = <<>>
  BY <1>1, <1>2 DEF ReadTo
<1>8. /\ Len(received') = n /\ Len(documents') = D
      /\ received' = [i \in 1 .. n |-> i]
      /\ \A c \in 1 .. n : documents'[c].framed
      /\ editor' = "closed" /\ unsent' = <<>>
  BY <1>2, <1>3, <1>4
<1>9. ReadTo(r, start, blank)'
  BY <1>3, <1>4, <1>6, <1>7, <1>8 DEF ReadTo
<1> QED
  BY <1>5, <1>9 DEF Stream

LEMMA StreamInit == Init => Stream
<1> SUFFICES ASSUME Init PROVE Stream
  OBVIOUS
<1> DEFINE none == [i \in Nat |-> 0]
<1>1. none \in Places /\ none[1] = 0
  BY DEF Places
<1>2. /\ documents = <<>> /\ stdin = <<>> /\ unsent = <<>> /\ received = <<>>
      /\ editor = "open" /\ reader.pc = "header" /\ reader.lengths = <<>>
  BY DEF Init
<1>3. /\ <<>> \in Seq(Item) /\ Len(<<>>) = 0
      /\ <<>> = [i \in 1 .. 0 |-> i]
  OBVIOUS
<1> HIDE DEF none
<1>4. StreamAt(<<>>, 0, none, none)
  BY <1>1, <1>2, <1>3 DEF StreamAt
<1>5. ReadTo(0, none, none)
  BY <1>1, <1>2, <1>3 DEF ReadTo
<1> QED
  BY <1>1, <1>3, <1>4, <1>5 DEF Stream

LEMMA StreamNext ==
    ASSUME TypeInv, Stream, [Next]_vars
    PROVE  Stream'
<1>1. CASE EditorWrites
  BY <1>1, StreamWrites
<1>2. CASE Deliver
  BY <1>2, StreamDelivers
<1>3. CASE EditorCloses
  BY <1>3, StreamCloses
<1>4. CASE ReadLine
  BY <1>4, StreamLine
<1>5. CASE ReadBody
  BY <1>5, StreamBody
<1>6. CASE ReadEof
  BY <1>6, StreamEof
<1>7. CASE \/ MainReturns \/ SpawnTasks \/ HandlerEnds \/ Leave \/ LoopEnds
  <2>1. UNCHANGED <<documents, unsent, stdin, editor, reader, received>>
    BY <1>7 DEF MainReturns, SpawnTasks, HandlerEnds, Leave, LoopEnds, inVars, mainVars
  <2> QED
    BY <2>1, StreamElse
<1>8. CASE \/ Writer \/ \E t \in Tasks : Draw(t) \/ SendMessage(t)
           \/ Emit("loop", "stopped") \/ Emit("stderr", "output") \/ UNCHANGED vars
  <2>1. UNCHANGED <<documents, unsent, stdin, editor, reader, received>>
    BY <1>8 DEF Writer, WriteHeader, WriteBody, WriteFails, Draw, SendMessage, Emit,
                vars, inVars, mainVars
  <2> QED
    BY <2>1, StreamElse
<1> QED
  BY <1>1, <1>2, <1>3, <1>4, <1>5, <1>6, <1>7, <1>8
     DEF Next, MainTask, OtherTask, Tasks

\* Whatever the editor writes, in whichever pieces it arrives and whenever the
\* editor closes stdin: read_message (transport.rs:26) reads the documents
\* whole, in order and without a gap, and it fails only at the end of them or
\* in the first whose header is wrong.
THEOREM ReadsTheStream == Spec => []ReadsWhatWasSent
<1>1. TypeInv /\ Stream => ReadsWhatWasSent
  <2> SUFFICES ASSUME TypeInv, Stream PROVE ReadsWhatWasSent
    OBVIOUS
  <2>1. PICK w \in Seq(Item), r \in Nat, start \in Places, blank \in Places :
            StreamAt(w, r, start, blank) /\ ReadTo(r, start, blank)
    BY DEF Stream
  <2>2. PICK n \in Nat, D \in Nat : n = Len(received) /\ D = Len(documents)
    BY StreamTypes
  <2>3. DOMAIN documents = 1 .. D
    BY <2>2, StreamTypes, LenProperties
  <2>4. /\ received = [i \in 1 .. n |-> i] /\ n <= D
        /\ \A c \in 1 .. n : documents[c].framed
    BY <2>1, <2>2 DEF ReadTo
  <2>5. CASE n = D
    <3>1. {d \in DOMAIN documents : ~documents[d].framed} = {}
      BY <2>3, <2>4, <2>5
    <3> QED
      BY <2>2, <2>4, <2>5, <3>1 DEF ReadsWhatWasSent
  <2>6. CASE n < D /\ reader.pc = "failed"
    <3>1. ~documents[n + 1].framed
      BY <2>1, <2>2, <2>6 DEF ReadTo, InFrame
    <3>2. n + 1 \in DOMAIN documents
      BY <2>3, <2>6
    <3> QED
      BY <2>2, <2>4, <3>1, <3>2 DEF ReadsWhatWasSent
  <2>7. CASE reader.pc # "failed"
    BY <2>2, <2>4, <2>7 DEF ReadsWhatWasSent
  <2> QED
    BY <2>4, <2>5, <2>6, <2>7
<1> QED
  BY TypeInit, TypeNext, StreamInit, StreamNext, <1>1, PTL DEF Spec

\* Between two frames, and within a header, no byte of a text comes next.
LEMMA HeaderNext ==
    ASSUME TypeInv, Stream, reader.pc = "header", stdin # <<>>
    PROVE  Head(stdin).is # "byte"
<1>1. PICK w \in Seq(Item), r \in Nat, start \in Places, blank \in Places :
          StreamAt(w, r, start, blank) /\ ReadTo(r, start, blank)
  BY DEF Stream
<1>2. PICK d \in Nat : d = Len(received) + 1 /\ d <= Len(documents)
  BY <1>1, StreamTypes, ReadingOne
<1>3. PICK k, framed, s, b, e : /\ k = documents[d].kind /\ framed = documents[d].framed
                                /\ s = start[d] /\ b = blank[d] /\ e = start[d + 1]
  OBVIOUS
<1>4. /\ FramedIn(w, k, d, framed, s, b, e)
      /\ InFrame(reader, r, s, b, Length[k].bytes, framed)
      /\ k \in Kinds /\ s \in Nat /\ b \in Nat /\ e \in Nat
  BY <1>1, <1>2, <1>3, NextItem
<1>5. PICK line : line = Head(stdin)
  OBVIOUS
<1>6. line = w[r + 1]
  <2>1. Len(stdin) # 0
    BY StreamTypes, EmptySeq
  <2>2. 1 \in 1 .. Len(stdin)
    BY <2>1, StreamTypes
  <2>3. stdin[1] = w[r + 1]
    BY <1>1, <2>2 DEF StreamAt
  <2> QED
    BY <1>5, <2>3
<1>7. reader \in Reader
  BY StreamTypes
<1>8. line.is # "byte"
  BY <1>4, <1>6, <1>7, LineInFrame
<1> QED
  BY <1>5, <1>8

\* The state of the transport has its types: what is in the channel is the end
\* of what was sent, a session has its event loop, and the header that is read
\* next begins with a line, not in the midst of a text.
THEOREM TypeCorrect == Spec => []TypeOK
<1>1. TypeInv /\ Stream => TypeOK
  <2> SUFFICES ASSUME TypeInv, Stream PROVE TypeOK
    OBVIOUS
  <2>1. reader.pc = "header" /\ stdin # <<>> => Head(stdin).is # "byte"
    BY HeaderNext
  <2>2. IsSuffix(channel, sent)
    BY LastIsSuffix DEF TypeInv, OutTypes
  <2>3. /\ documents \in Seq([kind : Kinds, framed : BOOLEAN])
        /\ Len(documents) <= MaxDocuments
        /\ editor \in {"open", "closed"}
    BY DEF TypeInv, InTypes
  <2>4. /\ reader.pc \in {"header", "body", "failed"}
        /\ reader.lengths \in Seq(Nat)
        /\ received \in Seq(1 .. Len(documents))
        /\ main \in {"reading", "handling", "leaving", "parting", "returned"}
    BY StreamTypes DEF TypeInv, MainTypes
  <2>5. /\ session \in BOOLEAN /\ (session => loop = "on")
        /\ loop \in {"none", "on", "ended"}
        /\ events \in 0 .. MaxEvents
    BY DEF TypeInv, TaskTypes
  <2>6. /\ seq \in Nat
        /\ todo \in [Tasks -> Seq(Message)]
        /\ hand \in [Tasks -> Numbered]
        /\ channel \in Seq(Numbered)
        /\ writer \in {"idle", "body", "ended"}
    BY DEF TypeInv, SendTypes, OutTypes
  <2> QED
    BY <2>1, <2>2, <2>3, <2>4, <2>5, <2>6 DEF TypeOK
<1> QED
  BY TypeInit, TypeNext, StreamInit, StreamNext, <1>1, PTL DEF Spec

-----------------------------------------------------------------------------
(* What is answered: AnsweredInOrder.                                      *)

\* The answers main has still to send, those it has sent, and the documents
\* read that ask for one.
Owed == ({hand["main"].message.request} \cup
         {todo["main"][i].request : i \in DOMAIN todo["main"]}) \ {0}
Answered == {sent[i].message.request : i \in DOMAIN sent} \ {0}
Asked    == {d \in 1 .. Len(received) : IsRequest(d)}

\* The other tasks send events only.
OthersAnswerNothing ==
    \A t \in Tasks \ {"main"} : /\ hand[t].message.request = 0
                                /\ \A i \in DOMAIN todo[t] : todo[t][i].request = 0

\* Main owes one answer at most, and once: that to the document in hand.
OneOwed ==
    /\ hand["main"].message.request # 0 =>
           \A i \in DOMAIN todo["main"] : todo["main"][i].request = 0
    /\ \A i, j \in DOMAIN todo["main"] :
           i # j => todo["main"][i].request = 0 \/ todo["main"][j].request = 0
MainOwes ==
    /\ Owed \subseteq Asked \cap {Len(received)}
    /\ main # "handling" => Owed = {}
    /\ main \in {"reading", "leaving", "returned"} => AllSaid("main")

InOrder ==
    \A j \in DOMAIN sent : \A i \in 1 .. j - 1 :
        sent[j].message.request # 0 => sent[i].message.request < sent[j].message.request

AnswerInv ==
    /\ OthersAnswerNothing /\ OneOwed /\ MainOwes
    /\ writer # "ended" => InOrder /\ Answered = Asked \ Owed

LEMMA NothingRequest == Nothing.message.request = 0
BY DEF Nothing, Answer

\* What neither sends a message nor reads one.
LEMMA AnswersElse ==
    ASSUME AnswerInv, UNCHANGED <<todo, hand, sent, received, main>>, Asked' = Asked,
           writer' # "ended" => writer # "ended"
    PROVE  AnswerInv'
<1>1. OthersAnswerNothing' /\ OneOwed' /\ Owed' = Owed /\ Answered' = Answered
  BY DEF AnswerInv, OthersAnswerNothing, OneOwed, Owed, Answered
<1>2. MainOwes'
  BY <1>1 DEF AnswerInv, MainOwes, AllSaid
<1>3. InOrder => InOrder'
  BY DEF InOrder
<1> QED
  BY <1>1, <1>2, <1>3 DEF AnswerInv

\* A document written later changes none that is read.
LEMMA AnswersEditor ==
    ASSUME TypeInv, Stream, AnswerInv, EditorWrites \/ Deliver \/ EditorCloses
    PROVE  AnswerInv'
<1>1. UNCHANGED <<todo, hand, sent, received, main, writer>>
  BY DEF EditorWrites, Writes, Deliver, EditorCloses, mainVars, sendVars, outVars
<1>2. Asked' = Asked
  <2>1. CASE documents' = documents
    BY <1>1, <2>1 DEF Asked, IsRequest
  <2>2. CASE \E x : documents' = Append(documents, x)
    <3>1. PICK x : documents' = Append(documents, x)
      BY <2>2
    <3>2. \A d \in 1 .. Len(received) : documents'[d] = documents[d]
      <4>1. /\ Len(received) <= Len(documents)
            /\ Len(received) \in Nat /\ Len(documents) \in Nat
        BY StreamTypes DEF Stream, ReadTo
      <4>2. documents \in Seq(Document \cup {x})
        <5>1. documents \in Seq(Document) /\ Document \subseteq Document \cup {x}
          BY StreamTypes
        <5> QED
          BY <5>1, SeqMonotonic, Zenon
      <4>3. \A d \in 1 .. Len(documents) : documents'[d] = documents[d]
        BY <3>1, <4>2, AppendProperties
      <4> QED
        BY <4>1, <4>3
    <3> QED
      BY <1>1, <3>2 DEF Asked, IsRequest
  <2> QED
    BY <2>1, <2>2 DEF EditorWrites, Writes, Deliver, EditorCloses
<1> QED
  BY <1>1, <1>2, AnswersElse

\* Reading a document: main had said all, and now owes its answer.
LEMMA AnswersBody ==
    ASSUME TypeInv, Stream, AnswerInv, ReadBody
    PROVE  AnswerInv'
<1>1. CASE ReaderFails
  <2>1. UNCHANGED <<todo, hand, sent, received, main, writer, documents>>
    BY <1>1 DEF ReadBody, ReaderFails, outVars
  <2>2. Asked' = Asked
    BY <2>1 DEF Asked, IsRequest
  <2> QED
    BY <2>1, <2>2, AnswersElse
<1>2. CASE ~ReaderFails
  <2>1. PICK n \in Nat : n = Len(received)
    BY StreamTypes
  <2>2. PICK d, k : /\ received' = Append(received, d) /\ k = documents[d].kind
                    /\ main = "reading" /\ main' = "handling"
                    /\ Handle(k, d)
                    /\ UNCHANGED <<documents, hand, sent, writer>>
    BY <1>2 DEF ReadBody, outVars
  <2>3. /\ Len(received') = n + 1 /\ d = n + 1
    <3>1. Len(received') = n + 1 /\ received'[n + 1] = d
      <4>1. received \in Seq(Nat \cup {d})
        <5>1. received \in Seq(1 .. Len(documents))
          BY StreamTypes
        <5>2. 1 .. Len(documents) \subseteq Nat \cup {d}
          BY StreamTypes
        <5> QED
          BY <5>1, <5>2, SeqMonotonic, Zenon
      <4> QED
        BY <2>1, <2>2, <4>1, AppendProperties
    <3>2. Stream'
      BY StreamBody
    <3>3. received' = [i \in 1 .. Len(received') |-> i]
      BY <3>2 DEF Stream, ReadTo
    <3> QED
      BY <2>1, <3>1, <3>3
  <2>4. PICK m \in Says(k, d) : todo' = [todo EXCEPT !["main"] = m]
    BY <2>2 DEF Handle
  <2>5. /\ \A t \in Tasks \ {"main"} : todo'[t] = todo[t]
        /\ todo'["main"] = m
    BY <2>4 DEF TypeInv, SendTypes, Tasks
  <2>6. hand["main"].message.request = 0 /\ Owed = {}
    <3>1. hand["main"] = Nothing /\ Owed = {}
      BY <2>2 DEF AnswerInv, MainOwes, AllSaid
    <3>2. Nothing.message.request = 0
      BY NothingRequest
    <3> QED
      BY <3>1, <3>2
  <2>7. /\ \A i, j \in DOMAIN m : i # j => m[i].request = 0 \/ m[j].request = 0
        /\ {m[i].request : i \in DOMAIN m} \ {0} = IF k = "ignored" THEN {} ELSE {d}
    <3>1. IF k = "ignored" THEN m = <<>>
          ELSE m \in {<<Answer(d), Event("initialized")>>, <<Spawn, Answer(d)>>,
                      <<Answer(d), Event("terminated")>>, <<Answer(d)>>}
      <4>1. CASE k = "ignored"
        <5>1. Says(k, d) = {<<>>}
          BY <4>1 DEF Says
        <5> QED
          BY <4>1, <5>1
      <4>2. CASE k # "ignored"
        <5>1. Says(k, d) \in {{<<Answer(d), Event("initialized")>>},
                             {<<Spawn, Answer(d)>>, <<Answer(d), Event("terminated")>>},
                             {<<Answer(d)>>}}
          BY <4>2 DEF Says
        <5> QED
          BY <4>2, <5>1
      <4> QED
        BY <4>1, <4>2
    <3>2. /\ Answer(d).request = d /\ d # 0
          /\ \A e : Event(e).request = 0
          /\ Spawn.request = 0
      BY <2>3 DEF Answer, Event, Spawn
    <3>3. CASE k = "ignored"
      BY <3>1, <3>3
    <3>4. CASE k # "ignored" /\ m = <<Answer(d)>>
      BY <3>2, <3>4
    <3>5. CASE k # "ignored" /\ m = <<Spawn, Answer(d)>>
      BY <3>2, <3>5
    <3>6. CASE k # "ignored" /\ m = <<Answer(d), Event("initialized")>>
      BY <3>2, <3>6
    <3>7. CASE k # "ignored" /\ m = <<Answer(d), Event("terminated")>>
      BY <3>2, <3>7
    <3> QED
      BY <3>1, <3>3, <3>4, <3>5, <3>6, <3>7
  <2>8. OneOwed'
    BY <2>2, <2>5, <2>6, <2>7 DEF OneOwed
  <2>9. OthersAnswerNothing'
    BY <2>2, <2>5 DEF AnswerInv, OthersAnswerNothing
  <2>10. Owed' = IF k = "ignored" THEN {} ELSE {d}
    BY <2>2, <2>5, <2>6, <2>7 DEF Owed
  <2>11. Asked' = Asked \cup IF k = "ignored" THEN {} ELSE {d}
    <3>1. \A c : c \in Asked' <=> c \in 1 .. n + 1 /\ documents[c].kind # "ignored"
      BY <2>2, <2>3 DEF Asked, IsRequest
    <3>2. \A c : c \in Asked <=> c \in 1 .. n /\ documents[c].kind # "ignored"
      BY <2>1 DEF Asked, IsRequest
    <3> QED
      BY <2>2, <2>3, <3>1, <3>2
  <2>12. d \notin Asked
    BY <2>1, <2>3 DEF Asked
  <2>13. MainOwes'
    BY <2>2, <2>3, <2>10, <2>11 DEF MainOwes
  <2>14. Answered' = Answered /\ (InOrder => InOrder')
    BY <2>2 DEF Answered, InOrder
  <2>15. Answered = Asked \ Owed => Answered' = Asked' \ Owed'
    BY <2>6, <2>10, <2>11, <2>12, <2>14
  <2> QED
    BY <2>2, <2>8, <2>9, <2>13, <2>14, <2>15 DEF AnswerInv
<1> QED
  BY <1>1, <1>2

\* A task draws a number: what it owes goes from its list into its hand.
LEMMA AnswersDraw ==
    ASSUME TypeInv, AnswerInv, NEW t \in Tasks, Draw(t)
    PROVE  AnswerInv'
<1>1. PICK s, m, h : s = todo[t] /\ m = Head(s) /\ h = hand'[t]
  OBVIOUS
<1>2. /\ UNCHANGED <<sent, received, main, documents, writer>>
      /\ hand[t] = Nothing /\ s # <<>>
      /\ h.message = m /\ h # Nothing /\ todo'[t] = Tail(s)
      /\ \A u \in Tasks \ {t} : todo'[u] = todo[u] /\ hand'[u] = hand[u]
  <2>1. seq + 1 # 0
    BY DEF TypeInv, SendTypes
  <2> QED
    BY <1>1, <2>1 DEF Draw, NextSeq, Nothing, TypeInv, SendTypes, mainVars, inVars, outVars
<1>3. /\ s \in Seq(Message) /\ m = s[1] /\ 1 \in DOMAIN s
      /\ \A i \in DOMAIN Tail(s) : i + 1 \in DOMAIN s /\ Tail(s)[i] = s[i + 1] /\ i + 1 # 1
      /\ \A i \in DOMAIN s : i # 1 => i - 1 \in DOMAIN Tail(s) /\ s[i] = Tail(s)[i - 1]
  <2>1. s \in Seq(Message) /\ Len(s) \in Nat \ {0} /\ DOMAIN s = 1 .. Len(s)
    BY <1>1, <1>2, EmptySeq DEF TypeInv, SendTypes
  <2>2. /\ DOMAIN Tail(s) = 1 .. Len(s) - 1
        /\ \A i \in 1 .. Len(s) - 1 : Tail(s)[i] = s[i + 1]
    BY <1>2, <2>1, HeadTailProperties
  <2>3. m = s[1]
    BY <1>1
  <2>4. \A i \in 1 .. Len(s) - 1 : i + 1 \in 1 .. Len(s) /\ i + 1 # 1
    BY <2>1
  <2>5. \A i \in 1 .. Len(s) : i # 1 => i - 1 \in 1 .. Len(s) - 1 /\ (i - 1) + 1 = i
    BY <2>1
  <2>6. 1 \in 1 .. Len(s)
    BY <2>1
  <2>7. \A i \in 1 .. Len(s) : i # 1 => s[i] = Tail(s)[i - 1]
    BY <2>2, <2>5
  <2> QED
    BY <2>1, <2>2, <2>3, <2>4, <2>5, <2>6, <2>7
<1>4. CASE t # "main"
  <2>1. OthersAnswerNothing'
    <3>1. \A i \in DOMAIN s : s[i].request = 0
      BY <1>1, <1>4 DEF AnswerInv, OthersAnswerNothing
    <3>2. hand'[t].message.request = 0
      BY <1>1, <1>2, <1>3, <3>1
    <3>3. \A i \in DOMAIN todo'[t] : todo'[t][i].request = 0
      BY <1>2, <1>3, <3>1
    <3>4. \A u \in Tasks \ {"main", t} : /\ hand'[u].message.request = 0
                                        /\ \A i \in DOMAIN todo'[u] : todo'[u][i].request = 0
      BY <1>2 DEF AnswerInv, OthersAnswerNothing
    <3> QED
      BY <3>2, <3>3, <3>4 DEF OthersAnswerNothing
  <2>2. "main" \in Tasks \ {t}
    BY <1>4 DEF Tasks
  <2>3. OneOwed' /\ Owed' = Owed
    BY <1>2, <2>2 DEF AnswerInv, OneOwed, Owed
  <2>4. Asked' = Asked /\ Answered' = Answered /\ (InOrder => InOrder')
    BY <1>2 DEF Asked, IsRequest, Answered, InOrder
  <2>5. MainOwes'
    BY <1>2, <2>2, <2>3, <2>4 DEF AnswerInv, MainOwes, AllSaid
  <2> QED
    BY <1>2, <2>1, <2>3, <2>4, <2>5 DEF AnswerInv
<1>5. CASE t = "main"
  <2>1. OthersAnswerNothing'
    BY <1>2, <1>5 DEF AnswerInv, OthersAnswerNothing
  <2>2. hand["main"].message.request = 0
    BY <1>2, <1>5, NothingRequest
  <2>3. /\ hand'["main"].message = s[1] /\ todo'["main"] = Tail(s) /\ todo["main"] = s
    BY <1>1, <1>2, <1>3, <1>5
  <2>4. OneOwed'
    <3>1. \A i, j \in DOMAIN s : i # j => s[i].request = 0 \/ s[j].request = 0
      BY <2>3 DEF AnswerInv, OneOwed
    <3>2. s[1].request # 0 => \A i \in DOMAIN Tail(s) : Tail(s)[i].request = 0
      BY <1>3, <3>1
    <3>3. ASSUME NEW i \in DOMAIN Tail(s), NEW j \in DOMAIN Tail(s), i # j
          PROVE  Tail(s)[i].request = 0 \/ Tail(s)[j].request = 0
      <4>1. DOMAIN Tail(s) \subseteq Nat
        BY <1>2, <1>3, HeadTailProperties
      <4>2. i + 1 # j + 1
        BY <3>3, <4>1
      <4> QED
        BY <1>3, <3>1, <4>2
    <3> QED
      BY <2>3, <3>2, <3>3 DEF OneOwed
  <2>5. Owed' = Owed
    <3>1. Owed = ({0} \cup {s[i].request : i \in DOMAIN s}) \ {0}
      BY <2>2, <2>3 DEF Owed
    <3>2. Owed' = ({s[1].request} \cup {Tail(s)[i].request : i \in DOMAIN Tail(s)}) \ {0}
      BY <2>3 DEF Owed
    <3>3. {s[1].request} \cup {Tail(s)[i].request : i \in DOMAIN Tail(s)}
            = {s[i].request : i \in DOMAIN s}
      <4>1. \A i \in DOMAIN Tail(s) : \E j \in DOMAIN s : Tail(s)[i].request = s[j].request
        BY <1>3
      <4>2. \A j \in DOMAIN s : j = 1 \/ \E i \in DOMAIN Tail(s) : Tail(s)[i].request = s[j].request
        BY <1>3
      <4> DEFINE A == {Tail(s)[i].request : i \in DOMAIN Tail(s)}
                 B == {s[i].request : i \in DOMAIN s}
      <4>3. A \subseteq B
        BY <4>1
      <4>4. B \subseteq {s[1].request} \cup A
        BY <4>2
      <4>5. s[1].request \in B
        BY <1>3
      <4> HIDE DEF A, B
      <4>6. {s[1].request} \cup A = B
        BY <4>3, <4>4, <4>5
      <4> QED
        BY <4>6 DEF A, B
    <3> QED
      BY <3>1, <3>2, <3>3
  <2>6. Asked' = Asked /\ Answered' = Answered /\ (InOrder => InOrder')
    BY <1>2 DEF Asked, IsRequest, Answered, InOrder
  <2>7. MainOwes'
    <3>1. ~AllSaid("main")
      BY <1>1, <1>2, <1>5 DEF AllSaid
    <3> QED
      BY <1>2, <2>5, <2>6, <3>1 DEF AnswerInv, MainOwes
  <2> QED
    BY <1>2, <2>1, <2>4, <2>5, <2>6, <2>7 DEF AnswerInv
<1> QED
  BY <1>4, <1>5

\* A message is sent, or lost because the writer has ended.
LEMMA AnswersSend ==
    ASSUME TypeInv, Stream, AnswerInv, NEW t \in Tasks, SendMessage(t)
    PROVE  AnswerInv'
<1>1. PICK h, q : h = hand[t] /\ q = h.message.request
  OBVIOUS
<1>2. /\ UNCHANGED <<todo, received, main, documents, writer>>
      /\ h # Nothing /\ hand'[t] = Nothing
      /\ \A u \in Tasks \ {t} : hand'[u] = hand[u]
      /\ writer # "ended" => sent' = Append(sent, h)
  BY <1>1 DEF SendMessage, TypeInv, SendTypes, mainVars, inVars
<1>3. Asked' = Asked
  BY <1>2 DEF Asked, IsRequest
<1>4. OthersAnswerNothing'
  BY <1>1, <1>2, NothingRequest DEF AnswerInv, OthersAnswerNothing
<1>5. OneOwed'
  <2>1. hand'["main"] = hand["main"] \/ hand'["main"].message.request = 0
    BY <1>2, NothingRequest DEF Tasks
  <2> QED
    BY <1>2, <2>1 DEF AnswerInv, OneOwed
<1>6. /\ t # "main" => q = 0
      /\ q # 0 => t = "main" /\ q \in Owed /\ Owed' = {} /\ Owed = {q}
      /\ q = 0 => Owed' = Owed
  <2>1. t # "main" => q = 0
    BY <1>1 DEF AnswerInv, OthersAnswerNothing
  <2>2. ASSUME q # 0
        PROVE  t = "main" /\ Owed = {q} /\ Owed' = {}
    <3>1. t = "main"
      BY <2>1, <2>2
    <3>2. hand["main"].message.request = q /\ hand'["main"].message.request = 0
      BY <1>1, <1>2, <3>1, NothingRequest
    <3>3. \A i \in DOMAIN todo["main"] : todo["main"][i].request = 0
      BY <2>2, <3>2 DEF AnswerInv, OneOwed
    <3>4. {todo["main"][i].request : i \in DOMAIN todo["main"]} \subseteq {0}
      BY <3>3
    <3>5. todo' = todo
      BY <1>2
    <3> QED
      BY <2>2, <3>1, <3>2, <3>4, <3>5 DEF Owed
  <2>3. ASSUME q = 0
        PROVE  Owed' = Owed
    <3>1. hand'["main"].message.request = hand["main"].message.request
      BY <1>1, <1>2, <2>3, NothingRequest DEF Tasks
    <3> QED
      BY <1>2, <3>1 DEF Owed
  <2> QED
    BY <2>1, <2>2, <2>3
<1>7. MainOwes'
  <2>1. Owed' \subseteq Owed
    BY <1>6
  <2>2. AllSaid("main") => AllSaid("main")'
    BY <1>2 DEF AllSaid, Tasks
  <2> QED
    BY <1>2, <1>3, <2>1, <2>2 DEF AnswerInv, MainOwes
<1>8. ASSUME writer # "ended"
      PROVE  InOrder' /\ Answered' = Asked' \ Owed'
  <2>1. InOrder /\ Answered = Asked \ Owed
    BY <1>8 DEF AnswerInv
  <2>2. PICK m \in Nat : m = Len(sent)
    BY DEF TypeInv, OutTypes
  <2>3. /\ DOMAIN sent = 1 .. m /\ DOMAIN sent' = 1 .. m + 1
        /\ \A i \in 1 .. m : sent'[i] = sent[i]
        /\ sent'[m + 1] = h
    <3>1. sent \in Seq(Numbered) /\ h \in Numbered /\ sent' = Append(sent, h)
      BY <1>1, <1>2, <1>8 DEF TypeInv, OutTypes, SendTypes
    <3> QED
      BY <2>2, <3>1, AppendProperties
  <2>4. q \in Nat /\ \A i \in 1 .. m : sent[i].message.request \in Nat
    <3>1. h \in Numbered /\ \A i \in 1 .. m : sent[i] \in Numbered
      BY <1>1, <2>2, <2>3 DEF TypeInv, OutTypes, SendTypes
    <3>2. \A x \in Numbered : x.message.request \in Nat
      BY DEF Numbered, Message
    <3> QED
      BY <1>1, <3>1, <3>2
  <2>5. Answered' = Answered \cup ({q} \ {0})
    <3>1. \A c : c \in Answered <=> c # 0 /\ \E i \in 1 .. m : c = sent[i].message.request
      BY <2>3 DEF Answered
    <3>2. \A c : c \in Answered' <=> c # 0 /\ \E i \in 1 .. m + 1 : c = sent'[i].message.request
      BY <2>3 DEF Answered
    <3>3. \A c : c \in Answered' <=> c # 0 /\ (c = q \/ \E i \in 1 .. m : c = sent[i].message.request)
      <4>1. \A i \in 1 .. m + 1 : i \in 1 .. m \/ i = m + 1
        OBVIOUS
      <4>2. 1 .. m \subseteq 1 .. m + 1 /\ m + 1 \in 1 .. m + 1
        OBVIOUS
      <4> QED
        BY <1>1, <2>3, <3>2, <4>1, <4>2
    <3> QED
      BY <3>1, <3>3
  <2>6. Answered' = Asked' \ Owed'
    <3>1. Owed \subseteq Asked
      BY DEF AnswerInv, MainOwes
    <3> QED
      BY <1>3, <1>6, <2>1, <2>5, <3>1
  <2>7. ASSUME q # 0, NEW i \in 1 .. m
        PROVE  sent[i].message.request < q
    <3>1. q = Len(received) /\ Owed = {q}
      BY <1>6, <2>7 DEF AnswerInv, MainOwes
    <3>2. PICK c \in Nat : c = sent[i].message.request
      BY <2>4
    <3>3. c = 0 \/ c \in Asked \ {q}
      BY <2>1, <2>3, <3>1, <3>2 DEF Answered
    <3>4. c = 0 \/ (c \in 1 .. q /\ c # q)
      BY <3>1, <3>3 DEF Asked
    <3> QED
      BY <2>4, <2>7, <3>2, <3>4
  <2>8. ASSUME NEW j \in DOMAIN sent', NEW i \in 1 .. j - 1,
               sent'[j].message.request # 0
        PROVE  sent'[i].message.request < sent'[j].message.request
    <3>1. i \in 1 .. m /\ sent'[i] = sent[i]
      BY <2>3
    <3>2. CASE j = m + 1
      BY <1>1, <2>3, <2>7, <2>8, <3>1, <3>2
    <3>3. CASE j \in 1 .. m
      BY <2>1, <2>3, <2>8, <3>1, <3>3 DEF InOrder
    <3> QED
      BY <2>3, <3>2, <3>3
  <2> QED
    BY <2>6, <2>8 DEF InOrder
<1> QED
  BY <1>2, <1>4, <1>5, <1>7, <1>8 DEF AnswerInv

\* The rest of a handler, once and after it has answered.
LEMMA AnswersMain ==
    ASSUME TypeInv, AnswerInv, SpawnTasks \/ HandlerEnds \/ Leave
    PROVE  AnswerInv'
<1>1. /\ UNCHANGED <<documents, received, hand, sent, writer>>
      /\ \A t \in Tasks \ {"main"} : todo'[t] = todo[t]
  <2>1. UNCHANGED <<documents, received, hand, sent, writer>>
    BY DEF SpawnTasks, HandlerEnds, Leave, inVars, mainVars, sendVars, outVars
  <2>2. \/ todo' = todo
        \/ \E s : todo' = [todo EXCEPT !["main"] = s]
    BY DEF SpawnTasks, HandlerEnds, Leave, sendVars
  <2>3. todo \in [Tasks -> Seq(Message)]
    BY DEF TypeInv, SendTypes
  <2> QED
    BY <2>1, <2>2, <2>3
<1>2. /\ Asked' = Asked /\ Answered' = Answered /\ (InOrder => InOrder')
      /\ OthersAnswerNothing'
  BY <1>1 DEF AnswerInv, Asked, IsRequest, Answered, InOrder, OthersAnswerNothing
<1>3. CASE SpawnTasks
  <2>1. PICK s : s = todo["main"] /\ s # <<>> /\ Head(s) = Spawn /\ todo'["main"] = Tail(s)
    BY <1>3 DEF SpawnTasks, TypeInv, SendTypes, Tasks
  <2>2. s \in Seq(Message) /\ Len(s) \in Nat \ {0} /\ DOMAIN s = 1 .. Len(s)
    BY <2>1, EmptySeq DEF TypeInv, SendTypes, Tasks
  <2>3. /\ DOMAIN Tail(s) = 1 .. Len(s) - 1
        /\ \A i \in 1 .. Len(s) - 1 : Tail(s)[i] = s[i + 1]
    BY <2>1, <2>2, HeadTailProperties
  <2>4. s[1].request = 0
    BY <2>1 DEF Spawn, Event
  <2>5. /\ \A i \in 1 .. Len(s) - 1 : i + 1 \in 1 .. Len(s) /\ i + 1 # 1
        /\ \A i \in 1 .. Len(s) : i # 1 => i - 1 \in 1 .. Len(s) - 1 /\ (i - 1) + 1 = i
        /\ \A i, j \in 1 .. Len(s) - 1 : i # j => i + 1 # j + 1
    BY <2>2
  <2>6. OneOwed'
    <3>1. /\ hand["main"].message.request # 0 => \A i \in 1 .. Len(s) : s[i].request = 0
          /\ \A i, j \in 1 .. Len(s) : i # j => s[i].request = 0 \/ s[j].request = 0
      BY <2>1, <2>2 DEF AnswerInv, OneOwed
    <3>2. hand["main"].message.request # 0 => \A i \in 1 .. Len(s) - 1 : Tail(s)[i].request = 0
      BY <2>3, <2>5, <3>1
    <3>3. \A i, j \in 1 .. Len(s) - 1 :
              i # j => Tail(s)[i].request = 0 \/ Tail(s)[j].request = 0
      BY <2>3, <2>5, <3>1
    <3> QED
      BY <1>1, <2>1, <2>3, <3>2, <3>3 DEF OneOwed
  <2>7. Owed' = Owed
    <3> DEFINE A == {Tail(s)[i].request : i \in DOMAIN Tail(s)}
               B == {s[i].request : i \in DOMAIN s}
    <3>1. A \subseteq B
      BY <2>2, <2>3, <2>5
    <3>2. B \subseteq {0} \cup A
      <4>1. \A i \in 1 .. Len(s) :
                i = 1 \/ \E j \in 1 .. Len(s) - 1 : Tail(s)[j] = s[i]
        BY <2>3, <2>5
      <4>2. \A i \in DOMAIN s : s[i].request \in {0} \cup A
        BY <2>2, <2>3, <2>4, <4>1
      <4> QED
        BY <4>2
    <3>3. Owed = ({hand["main"].message.request} \cup B) \ {0}
      BY <2>1 DEF Owed
    <3>4. Owed' = ({hand["main"].message.request} \cup A) \ {0}
      BY <1>1, <2>1 DEF Owed
    <3> HIDE DEF A, B
    <3> QED
      BY <3>1, <3>2, <3>3, <3>4
  <2>8. MainOwes'
    <3>1. ~AllSaid("main")
      BY <2>1 DEF AllSaid
    <3> QED
      BY <1>1, <1>2, <1>3, <2>7, <3>1 DEF SpawnTasks, mainVars, inVars, AnswerInv, MainOwes
  <2> QED
    BY <1>1, <1>2, <2>6, <2>7, <2>8 DEF AnswerInv
<1>4. CASE HandlerEnds
  <2>1. /\ AllSaid("main") /\ todo' = todo
        /\ main' \in {"leaving", "reading"}
    BY <1>4 DEF HandlerEnds, sendVars
  <2>2. Owed' = Owed /\ OneOwed' /\ AllSaid("main")'
    BY <1>1, <2>1 DEF AnswerInv, Owed, OneOwed, AllSaid
  <2>3. Owed = {}
    <3>1. hand["main"].message.request = 0
      BY <2>1, NothingRequest DEF AllSaid
    <3>2. DOMAIN todo["main"] = {}
      <4>1. todo["main"] = <<>>
        BY <2>1 DEF AllSaid
      <4> QED
        BY <4>1
    <3> QED
      BY <3>1, <3>2 DEF Owed
  <2>4. MainOwes'
    BY <2>2, <2>3 DEF MainOwes
  <2> QED
    BY <1>1, <1>2, <2>2, <2>4 DEF AnswerInv
<1>5. CASE Leave
  <2>1. /\ AllSaid("main") /\ main' = "parting" /\ Owed = {}
        /\ todo' = IF session THEN todo
                   ELSE [todo EXCEPT !["main"] = <<Event("terminated")>>]
    BY <1>5 DEF Leave, AnswerInv, MainOwes
  <2>2. hand["main"].message.request = 0 /\ hand'["main"].message.request = 0
    BY <1>1, <2>1, NothingRequest DEF AllSaid
  <2>3. \A i \in DOMAIN todo'["main"] : todo'["main"][i].request = 0
    <3>1. CASE session
      <4>1. todo'["main"] = <<>>
        BY <2>1, <3>1 DEF AllSaid
      <4> QED
        BY <4>1
    <3>2. CASE ~session
      <4>1. todo'["main"] = <<Event("terminated")>>
        BY <2>1, <3>2 DEF TypeInv, SendTypes, Tasks
      <4>2. Event("terminated").request = 0
        BY DEF Event
      <4>3. \A x : DOMAIN <<x>> = {1} /\ <<x>>[1] = x
        OBVIOUS
      <4> QED
        BY <4>1, <4>2, <4>3
    <3> QED
      BY <3>1, <3>2
  <2>4. OneOwed' /\ Owed' = {}
    BY <2>2, <2>3 DEF OneOwed, Owed
  <2>5. MainOwes'
    BY <2>1, <2>4 DEF MainOwes
  <2> QED
    BY <1>1, <1>2, <2>1, <2>4, <2>5 DEF AnswerInv
<1> QED
  BY <1>3, <1>4, <1>5

\* The event loop and the stderr task have events to say.
LEMMA AnswersEvents ==
    ASSUME TypeInv, AnswerInv,
           \/ LoopEnds
           \/ \E t \in {"loop", "stderr"}, e \in {"stopped", "output"} : Emit(t, e)
    PROVE  AnswerInv'
<1>1. PICK t \in {"loop", "stderr"}, e \in {"terminated", "stopped", "output"} :
          todo' = [todo EXCEPT ![t] = <<Event(e)>>]
  BY DEF LoopEnds, Emit
<1>2. UNCHANGED <<documents, received, main, hand, sent, writer>>
  BY DEF LoopEnds, Emit, inVars, mainVars, outVars
<1>3. /\ t \in Tasks \ {"main"} /\ todo'["main"] = todo["main"]
      /\ \A u \in Tasks \ {t} : todo'[u] = todo[u]
      /\ todo'[t] = <<Event(e)>>
  BY <1>1 DEF TypeInv, SendTypes, Tasks
<1>4. \A i \in DOMAIN todo'[t] : todo'[t][i].request = 0
  <2>1. Event(e).request = 0
    BY DEF Event
  <2>2. \A x : DOMAIN <<x>> = {1} /\ <<x>>[1] = x
    OBVIOUS
  <2> QED
    BY <1>3, <2>1, <2>2
<1>5. OthersAnswerNothing'
  BY <1>2, <1>3, <1>4 DEF AnswerInv, OthersAnswerNothing
<1>6. OneOwed' /\ Owed' = Owed /\ Asked' = Asked /\ Answered' = Answered
  BY <1>2, <1>3 DEF AnswerInv, OneOwed, Owed, Asked, IsRequest, Answered
<1>7. MainOwes'
  BY <1>2, <1>3, <1>6 DEF AnswerInv, MainOwes, AllSaid
<1>8. InOrder => InOrder'
  BY <1>2 DEF InOrder
<1> QED
  BY <1>2, <1>5, <1>6, <1>7, <1>8 DEF AnswerInv

\* When main returns it owes nothing any more, and nobody reads the answers.
LEMMA AnswersReturns ==
    ASSUME TypeInv, AnswerInv, MainReturns
    PROVE  AnswerInv'
<1>1. /\ main' = "returned" /\ writer' = "ended"
      /\ \A t \in Tasks : todo'[t] = <<>> /\ hand'[t] = Nothing
  BY DEF MainReturns
<1>2. \A t \in Tasks : /\ hand'[t].message.request = 0
                       /\ DOMAIN todo'[t] = {}
  <2>1. DOMAIN <<>> = {}
    OBVIOUS
  <2> QED
    BY <1>1, <2>1, NothingRequest
<1>3. OthersAnswerNothing' /\ OneOwed' /\ Owed' = {} /\ AllSaid("main")'
  BY <1>1, <1>2 DEF OthersAnswerNothing, OneOwed, Owed, AllSaid, Tasks
<1>4. MainOwes'
  BY <1>3 DEF MainOwes
<1> QED
  BY <1>1, <1>3, <1>4 DEF AnswerInv

LEMMA AnswersInit == Init => AnswerInv
<1> SUFFICES ASSUME Init PROVE AnswerInv
  OBVIOUS
<1>1. /\ main = "reading" /\ received = <<>> /\ sent = <<>>
      /\ \A t \in Tasks : todo[t] = <<>> /\ hand[t] = Nothing
  BY DEF Init
<1>2. DOMAIN <<>> = {} /\ Len(<<>>) = 0
  OBVIOUS
<1>3. \A t \in Tasks : hand[t].message.request = 0 /\ DOMAIN todo[t] = {}
  BY <1>1, <1>2, NothingRequest
<1>4. OthersAnswerNothing /\ OneOwed /\ Owed = {} /\ AllSaid("main")
  BY <1>1, <1>3 DEF OthersAnswerNothing, OneOwed, Owed, AllSaid, Tasks
<1>5. Answered = {} /\ Asked = {} /\ InOrder
  BY <1>1, <1>2 DEF Answered, Asked, InOrder
<1> QED
  BY <1>4, <1>5 DEF AnswerInv, MainOwes

LEMMA AnswersNext ==
    ASSUME TypeInv, Stream, AnswerInv, [Next]_vars
    PROVE  AnswerInv'
<1>1. CASE EditorWrites \/ Deliver \/ EditorCloses
  BY <1>1, AnswersEditor
<1>2. CASE ReadBody
  BY <1>2, AnswersBody
<1>3. CASE \/ ReadLine \/ ReadEof \/ Writer \/ UNCHANGED vars
  <2>1. /\ UNCHANGED <<documents, todo, hand, sent, received, main>>
        /\ writer' # "ended" => writer # "ended"
    BY <1>3 DEF ReadLine, ReadEof, ReaderFails, Writer, WriteHeader, WriteBody,
                WriteFails, vars, inVars, mainVars, sendVars, outVars
  <2>2. Asked' = Asked
    BY <2>1 DEF Asked, IsRequest
  <2> QED
    BY <2>1, <2>2, AnswersElse
<1>4. CASE MainReturns
  BY <1>4, AnswersReturns
<1>5. CASE \E t \in Tasks : Draw(t) \/ SendMessage(t)
  BY <1>5, AnswersDraw, AnswersSend
<1>6. CASE SpawnTasks \/ HandlerEnds \/ Leave
  BY <1>6, AnswersMain
<1>7. CASE LoopEnds \/ Emit("loop", "stopped") \/ Emit("stderr", "output")
  BY <1>7, AnswersEvents
<1> QED
  BY <1>1, <1>2, <1>3, <1>4, <1>5, <1>6, <1>7 DEF Next, MainTask, OtherTask, Tasks

\* Whatever the event loop and the stderr task send in between, and however the
\* numbering of a message and its sending interleave (server.rs:145 and :814):
\* as long as somebody reads stdout, the answers leave in the order of the
\* requests, none twice, and only the request in hand may lack its own.
THEOREM AnswersTheRequests == Spec => []AnsweredInOrder
<1>1. TypeInv /\ Stream /\ AnswerInv => AnsweredInOrder
  <2> SUFFICES ASSUME TypeInv, Stream, AnswerInv, writer # "ended"
               PROVE  /\ InOrder
                      /\ \/ Answered = {d \in Range(received) : IsRequest(d)}
                         \/ /\ main = "handling"
                            /\ Answered = {d \in Range(received) : IsRequest(d)}
                                              \ {Last(received)}
    BY DEF AnsweredInOrder, InOrder, Answered
  <2>1. PICK n \in Nat : n = Len(received)
    BY StreamTypes
  <2>2. received = [i \in 1 .. n |-> i]
    BY <2>1 DEF Stream, ReadTo
  <2>3. Range(received) = 1 .. n
    BY <2>2 DEF Range
  <2>4. Asked = {d \in Range(received) : IsRequest(d)}
    BY <2>1, <2>3 DEF Asked
  <2>5. InOrder /\ Answered = Asked \ Owed
    BY DEF AnswerInv
  <2>6. CASE Owed = {}
    BY <2>4, <2>5, <2>6
  <2>7. CASE Owed # {}
    <3>1. Owed = {n} /\ n \in Asked /\ main = "handling"
      BY <2>1, <2>7 DEF AnswerInv, MainOwes
    <3>2. Last(received) = n
      BY <2>1, <2>2, <3>1 DEF Last, Asked
    <3> QED
      BY <2>4, <2>5, <3>1, <3>2
  <2> QED
    BY <2>6, <2>7
<1> QED
  BY TypeInit, TypeNext, StreamInit, StreamNext, AnswersInit, AnswersNext, <1>1, PTL
     DEF Spec

=============================================================================
