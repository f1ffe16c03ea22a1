------------------------------ MODULE Decoding ------------------------------
(***************************************************************************)
(* Bytes that somebody else writes and this program decodes: replies and   *)
(* composite events of the JVM's debug agent, and class files, which a     *)
(* compiler may still be writing when the source map reads them; and the   *)
(* requests that the agent decodes.                                        *)
(*                                                                         *)
(* The other side is external: what it writes and reads is laid out here a *)
(* second time, field by field, independently of the layouts of Wire and   *)
(* ClassFile.                                                              *)
(***************************************************************************)
EXTENDS ClassFile, FiniteSets

CONSTANTS
    MaxItems,   \* bound: items of a reply's list, events of a composite
    ClassFiles  \* shapes of class files: [extras, interfaces, fields, methods,
                \* attributes], see ClassFileBytes

VARIABLES
    document,   \* what is being written; never changes
    written,    \* how many of its bytes there are
    outcome     \* <<>>, or <<what decoding these bytes gave>>: [ok, value]

vars == <<document, written, outcome>>
-----------------------------------------------------------------------------
(* Writing.                                                                *)
\* A field is [name, wire, value]; one named "_" is of no use to the program.
Raw(name, bytes) == [name |-> name, wire |-> bytes, value |-> bytes]
U32(name, n) == Raw(name, BigEndian(4, n))
Id(name, n) == Raw(name, <<1, 2, 3, 4, 5, 6, 7, n>>)
Str(name, s) == [name |-> name, wire |-> BigEndian(4, Len(s)) \o s, value |-> s]
Letter(n) == n % 128    \* ASCII
Place(n) == <<Raw("typeTag", <<1>>), Id("classId", n), Id("methodId", n + 1),
              Id("index", n + 2)>>
Unnamed(fields) == [i \in DOMAIN fields |-> [fields[i] EXCEPT !.name = "_"]]

Written(fields) == FlattenSeq([i \in DOMAIN fields |-> fields[i].wire])
Meaning(fields) == Labelled([i \in DOMAIN fields |-> fields[i].name],
                            [i \in DOMAIN fields |-> fields[i].value])

\* A value of each type, as it is read and written.
SomeValues == <<<<66, 1>>, <<67, 0, 2>>, <<68, 0, 0, 0, 0, 0, 0, 0, 3>>, <<70, 0, 0, 0, 4>>,
                <<73, 0, 0, 0, 5>>, <<74, 0, 0, 0, 0, 0, 0, 0, 6>>, <<83, 0, 7>>, <<86>>,
                <<90, 1>>, <<76, 1, 2, 3, 4, 5, 6, 7, 8>>, <<115, 1, 2, 3, 4, 5, 6, 7, 9>>>>

\* The replies of the agent: the fields of a command's reply, those of the i-th
\* item of its list, and how many items it has.
ReplyHead(command) ==
    CASE command = "IdSizes" ->
             <<U32("field", 8), U32("method", 8), U32("object", 8),
               U32("refType", 8), U32("frame", 8)>>
      [] command = "LineTable"     -> <<Id("start", 0), Id("end", 9)>>
      [] command = "VariableTable" -> <<U32("_", 1)>>
      [] command = "RequestId"     -> <<U32("requestId", 3)>>
      [] command = "StringValue"   -> <<Str("string", <<104, 195, 169>>)>>
      [] command = "TypeOfObject"  -> <<Raw("tag", <<1>>), Id("typeId", 2)>>
      [] OTHER                     -> <<>>

ReplyItem(command, i) ==
    CASE command = "AllClasses" ->
             <<Raw("refTypeTag", <<1>>), Id("refTypeId", i),
               Str("signature", <<76, Letter(i)>>), Str("_", <<9>>), U32("status", 7)>>
      [] command = "AllThreads" -> <<Id("thread", i)>>
      [] command = "Methods" ->
             <<Id("methodId", i), Str("name", <<Letter(i)>>),
               Str("signature", <<40, Letter(i)>>), Str("_", <<>>), U32("modBits", 1)>>
      [] command = "LineTable" -> <<Id("codeIndex", i), U32("line", i)>>
      [] command = "VariableTable" ->
             <<Id("codeIndex", i), Str("name", <<Letter(i)>>), Str("signature", <<73>>),
               Str("_", <<>>), U32("length", 5), U32("slot", i)>>
      [] command = "Frames" -> <<Id("frameId", i)>> \o Place(i)
      [] command = "Values" -> <<Raw("value", SomeValues[i])>>

Layouts == [IdSizes |-> IdSizes, AllClasses |-> AllClasses, AllThreads |-> AllThreads,
            Methods |-> Methods, LineTable |-> LineTable,
            VariableTable |-> VariableTable, Frames |-> Frames, Values |-> Values,
            RequestId |-> RequestId, StringValue |-> StringValue,
            TypeOfObject |-> TypeOfObject]

HasList == DOMAIN Layouts \ {"IdSizes", "RequestId", "StringValue", "TypeOfObject"}

\* A packet of the agent: flags 128 for a reply, and its error code.
Framed(flags, code, data) ==
    BigEndian(4, Len(data) + 11) \o BigEndian(4, 9) \o <<flags>> \o code \o data

ReplySize(command, n) ==
    CASE command = "Values" -> Len(SomeValues)
      [] command \in HasList \ {"Values"} -> n
      [] OTHER -> 0

ReplyData(command, n) ==
    Written(ReplyHead(command))
      \o (IF command \in HasList THEN BigEndian(4, ReplySize(command, n)) ELSE <<>>)
      \o FlattenSeq([i \in 1..ReplySize(command, n) |-> Written(ReplyItem(command, i))])

\* An error, 101 or another, comes without data.
ReplyBytes(command, n, error) ==
    Framed(128, <<0, error>>, IF error = 0 THEN ReplyData(command, n) ELSE <<>>)

ReplyMeaning(command, n) ==
    [head |-> Meaning(ReplyHead(command)),
     items |-> [i \in 1..ReplySize(command, n) |-> Meaning(ReplyItem(command, i))]]

\* The events of the agent; "methodExit" stands for a kind the program has no
\* case for.
EventKinds == {"step", "breakpoint", "exception", "classPrepare", "vmStart",
               "vmDeath", "methodExit"}
Code(kind) == IF kind = "methodExit" THEN 41 ELSE Kinds[kind]

EventFields(kind, i) ==
    CASE kind = "classPrepare" ->
             <<Id("thread", i), Raw("refTypeTag", <<1>>), Id("refTypeId", i),
               Str("signature", <<76, Letter(i)>>), U32("status", 3)>>
      [] kind \in {"breakpoint", "step"} -> <<Id("thread", i)>> \o Place(i)
      [] kind = "exception" ->
             <<Id("thread", i)>> \o Unnamed(Place(i))
               \o <<Raw("_", <<76>>), Id("exception", i + 5)>> \o Unnamed(Place(0))
      [] kind = "vmStart"    -> <<Id("_", i)>>
      [] kind = "vmDeath"    -> <<>>
      [] kind = "methodExit" -> <<Id("_", i)>> \o Unnamed(Place(i))

EventBytes(kind, i) ==
    <<Code(kind)>> \o BigEndian(4, i) \o Written(EventFields(kind, i))

CompositeBytes(events) ==
    Framed(0, <<64, 100>>, <<2>> \o BigEndian(4, Len(events))
        \o FlattenSeq([i \in DOMAIN events |-> EventBytes(events[i], i)]))

\* What the program is to make of the i-th after those before it: nothing if it
\* is the start of the VM, or from the first unknown one on.
Told(events, i, before) ==
    LET event == [kind |-> Code(events[i]), fields |-> Meaning(EventFields(events[i], i)),
                  requestId |-> IF events[i] = "vmDeath" THEN <<>> ELSE BigEndian(4, i)]
    IN  IF events[i] = "vmStart" \/ "methodExit" \in {events[j] : j \in 1..i} THEN before
        ELSE Append(before, event)

\* What it is to make of the first i.
EventsMeant(events) ==
    LET meant[i \in 0..Len(events)] ==
            IF i = 0 THEN <<>> ELSE Told(events, i, meant[i - 1])
    IN  meant

CompositeMeaning(events) == EventsMeant(events)[Len(events)]

\* A class file: `extras`, the tags of constants that come first in its pool,
\* then its own names; members that carry one attribute each of the given
\* number of bytes; its attributes, "source" or "other".
ConstantBytes(tag) ==
    <<tag>> \o BigEndian(CASE tag \in {5, 6} -> 8
                           [] tag \in {8, 16, 19, 20} -> 2
                           [] tag = 15 -> 3
                           [] OTHER -> 4, 1)
Text(s) == <<1>> \o BigEndian(2, Len(s)) \o s
ClassName == <<195, 169>>
FileName == <<65>>

\* The index of the constant after each of these.
Indices(extras) ==
    LET next[i \in 0..Len(extras)] ==
            IF i = 0 THEN 1 ELSE next[i - 1] + (IF extras[i] \in {5, 6} THEN 2 ELSE 1)
    IN  next
First(f) == Indices(f.extras)[Len(f.extras)]

ClassFileType == [extras : Seq(KnownTags \ {7}), interfaces : Nat, fields : Seq(Nat),
                  methods : Seq(Nat), attributes : Seq({"source", "other"})]

\* What a class file counts it counts in two bytes.
ASSUME BoundsAssumption ==
    /\ MaxItems \in Nat
    /\ ClassFiles \subseteq ClassFileType
    /\ \A f \in ClassFiles :
           \A n \in {First(f) + 5, f.interfaces, Len(f.fields), Len(f.methods),
                      Len(f.attributes)} : Shifted(n) < 256

\* A member's access, name and type, and its attribute; `other` is the index of
\* a name that is no attribute's of interest.
MemberBytes(other, size) ==
    BigEndian(6, 1) \o BigEndian(2, 1)
      \o BigEndian(2, other) \o BigEndian(4, size) \o BigEndian(size, 1)
MembersBytes(other, sizes) ==
    BigEndian(2, Len(sizes))
      \o FlattenSeq([i \in DOMAIN sizes |-> MemberBytes(other, sizes[i])])

AttributeBytes(first, a) ==
    IF a = "source"
    THEN BigEndian(2, first + 2) \o BigEndian(4, 2) \o BigEndian(2, first + 3)
    ELSE BigEndian(2, first + 4) \o BigEndian(4, 3) \o BigEndian(3, 1)

PoolBytes(f) ==
    BigEndian(2, First(f) + 5)
      \o FlattenSeq([i \in DOMAIN f.extras |-> ConstantBytes(f.extras[i])])
      \o (Text(ClassName) \o <<7>> \o BigEndian(2, First(f))
             \o Text(SourceFile) \o Text(FileName) \o Text(<<67>>))

ClassFileBytes(f) ==
    <<202, 254, 186, 190>> \o BigEndian(4, 65) \o PoolBytes(f)
      \o (BigEndian(2, 33) \o BigEndian(2, First(f) + 1) \o BigEndian(2, First(f) + 1))
      \o (BigEndian(2, f.interfaces) \o BigEndian(2 * f.interfaces, 1))
      \o MembersBytes(First(f) + 4, f.fields) \o MembersBytes(First(f) + 4, f.methods)
      \o (BigEndian(2, Len(f.attributes))
             \o FlattenSeq([i \in DOMAIN f.attributes |->
                               AttributeBytes(First(f), f.attributes[i])]))

ClassFileMeaning(f) ==
    [name |-> ClassName,
     source |-> IF "source" \in Range(f.attributes) THEN FileName ELSE NoSource]
-----------------------------------------------------------------------------
(* Requests, as the agent reads them.                                      *)
Thread == Id("thread", 1)
All == <<255, 255, 255, 255>>    \* -1: all frames
Slots2 == <<<<1, Tags.I>>, <<2, Tags.Object>>>>
RequestBytes(call) ==
    CASE call = "classPrepare" -> SetClassPrepare(3)
      [] call = "breakpoint" -> SetBreakpoint(3, Meaning(Place(4)))
      [] call = "step"      -> SetStep(3, Thread.value, 2)
      [] call = "exception" -> SetExceptionUncaught(3)
      [] call = "clear"     -> ClearRequest(3, Kinds.step, 6)
      [] call = "frames"    -> ThreadFrames(3, Thread.value, BigEndian(4, 0), All)
      [] call = "values"    -> GetValues(3, Thread.value, Id("frame", 2).value, Slots2)

RequestLayout(call) ==
    LET Args(fields) == <<<<"length", "u32">>, <<"id", "u32">>, <<"flags", "u8">>,
                          <<"set", "u8">>, <<"command", "u8">>>> \o fields
        Set(modifier) == Args(<<<<"kind", "u8">>, <<"policy", "u8">>,
                                <<"modifiers", "u32">>>> \o modifier)
    IN  CASE call = "classPrepare" -> Set(<<>>)
          [] call = "breakpoint" ->
                 Set(<<<<"modifier", "u8">>, <<"typeTag", "u8">>, <<"classId", "u64">>,
                       <<"methodId", "u64">>, <<"index", "u64">>>>)
          [] call = "step" ->
                 Set(<<<<"modifier", "u8">>, <<"thread", "u64">>, <<"size", "u32">>,
                       <<"depth", "u32">>>>)
          [] call = "exception" ->
                 Set(<<<<"modifier", "u8">>, <<"refType", "u64">>, <<"caught", "u8">>,
                       <<"uncaught", "u8">>>>)
          [] call = "clear" -> Args(<<<<"kind", "u8">>, <<"requestId", "u32">>>>)
          [] call = "frames" ->
                 Args(<<<<"thread", "u64">>, <<"start", "u32">>, <<"count", "u32">>>>)
          [] call = "values" ->
                 Args(<<<<"thread", "u64">>, <<"frame", "u64">>, <<"count", "u32">>,
                        <<"slot1", "u32">>, <<"tag1", "u8">>,
                        <<"slot2", "u32">>, <<"tag2", "u8">>>>)

\* What the call is to make the agent do.
RequestMeaning(call) ==
    LET Args(set, command, fields) ==
            Meaning(<<U32("length", Len(RequestBytes(call))), U32("id", 3),
                      Raw("flags", <<0>>), Raw("set", <<set>>),
                      Raw("command", <<command>>)>> \o fields)
        Set(kind, modifier) ==
            Args(15, 1, <<Raw("kind", <<kind>>), Raw("policy", <<2>>),
                          U32("modifiers", IF modifier = <<>> THEN 0 ELSE 1)>> \o modifier)
    IN  CASE call = "classPrepare" -> Set(8, <<>>)
          [] call = "breakpoint" -> Set(2, <<Raw("modifier", <<7>>)>> \o Place(4))
          [] call = "step" -> Set(1, <<Raw("modifier", <<10>>), Thread,
                                       U32("size", 1), U32("depth", 2)>>)
          [] call = "exception" ->
                 Set(4, <<Raw("modifier", <<8>>), Raw("refType", BigEndian(8, 0)),
                          Raw("caught", <<0>>), Raw("uncaught", <<1>>)>>)
          [] call = "clear" -> Args(15, 2, <<Raw("kind", <<1>>), U32("requestId", 6)>>)
          [] call = "frames" -> Args(11, 6, <<Thread, U32("start", 0), Raw("count", All)>>)
          [] call = "values" ->
                 Args(16, 1, <<Thread, Id("frame", 2), U32("count", 2), U32("slot1", 1),
                               Raw("tag1", <<73>>), U32("slot2", 2), Raw("tag2", <<76>>)>>)

AgentReads(data, call) ==
    LET r == ReadRecord(data, Start, RequestLayout(call))
    IN  [ok |-> r.cursor.ok /\ r.cursor.at = Len(RequestBytes(call)), value |-> r.fields]

Calls == {"classPrepare", "breakpoint", "step", "exception", "clear", "frames", "values"}
-----------------------------------------------------------------------------
Documents ==
    [is : {"reply"}, command : DOMAIN Layouts, items : 0..MaxItems, error : {0, 101}]
      \cup [is : {"composite"}, events : UNION {[1..n -> EventKinds] : n \in 0..MaxItems}]
      \cup [is : {"request"}, call : Calls]
      \cup [is : {"class"}, file : ClassFiles]

Bytes(d) ==
    CASE d.is = "reply"     -> ReplyBytes(d.command, d.items, d.error)
      [] d.is = "composite" -> CompositeBytes(d.events)
      [] d.is = "request"   -> RequestBytes(d.call)
      [] d.is = "class"     -> ClassFileBytes(d.file)

Intended(d) ==
    CASE d.is = "reply"     -> ReplyMeaning(d.command, d.items)
      [] d.is = "composite" -> CompositeMeaning(d.events)
      [] d.is = "request"   -> RequestMeaning(d.call)
      [] d.is = "class"     -> ClassFileMeaning(d.file)

Init ==
    /\ document \in Documents
    /\ written = 0
    /\ outcome = <<>>

\* The writer gets one byte further.
Write ==
    /\ written < Len(Bytes(document))
    /\ written' = written + 1
    /\ outcome' = <<>>
    /\ UNCHANGED document

\* The program decodes what there is.  A packet is waited for until it is
\* complete; send_command turns a reply with an error into an error.
DecodePacket(data) ==
    LET packet == ReadPacket(data)
    IN  CASE packet.ok /\ packet.isReply /\ packet.code = NoError ->
                 DecodeReply(packet.data, Layouts[document.command])
          [] packet.ok /\ ~packet.isReply /\ packet.code = CompositeEvent ->
                 DecodeComposite(packet.data)
          [] OTHER -> [ok |-> FALSE, value |-> <<>>]

Decode ==
    LET data == SubSeq(Bytes(document), 1, written)
    IN  /\ outcome = <<>>
        /\ outcome' = <<CASE document.is = "request" -> AgentReads(data, document.call)
                          [] document.is = "class"   -> ParseClassInfo(data)
                          [] OTHER                   -> DecodePacket(data)>>
        /\ UNCHANGED <<document, written>>

Next == Write \/ Decode

Spec == Init /\ [][Next]_vars
-----------------------------------------------------------------------------
IsError == document.is = "reply" /\ document.error # 0

\* A document that is all there is decoded, and to what its writer meant; of
\* one that is not, the reader makes either nothing or the same.  An error is
\* never taken for data.
DecodesWhatWasMeant ==
    \A i \in DOMAIN outcome :
        /\ written = Len(Bytes(document)) /\ ~IsError => outcome[i].ok
        /\ outcome[i].ok => ~IsError /\ outcome[i].value = Intended(document)

\* Every reply and every composite event of the agent reaches the program
\* field by field, and every request the agent: one field of the wrong width,
\* or forgotten, and all that follow it in the packet are misread (jdwp.rs, the
\* commands and parse_composite_event).
PacketsAreUnderstood == document.is # "class" => DecodesWhatWasMeant

\* A class file, whole or still being written, never puts a wrong class or a
\* wrong file name into the source map, although most of it is skipped unread
\* (source_map.rs, parse_class_info).
ClassFilesAreUnderstood == document.is = "class" => DecodesWhatWasMeant
=============================================================================
