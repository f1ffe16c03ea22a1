-------------------------------- MODULE Wire --------------------------------
(***************************************************************************)
(* How the JDWP client reads what the JVM sends: a cursor over the bytes   *)
(* of a packet, one layout per command, and the composite event packet.    *)
(*                                                                         *)
(* A byte is a number.  An identifier, and any other 64-bit field, is kept *)
(* as the bytes it was read from, and a string as its UTF-8.               *)
(***************************************************************************)
EXTENDS Naturals, Sequences, SequencesExt

\* The value of one, two or four big-endian bytes; 0 where none were read.
Number(bytes) ==
    CASE Len(bytes) = 1 -> bytes[1]
      [] Len(bytes) = 2 -> 256 * bytes[1] + bytes[2]
      [] Len(bytes) = 4 -> 256 * (256 * (256 * bytes[1] + bytes[2]) + bytes[3]) + bytes[4]
      [] OTHER          -> 0

\* A cursor: where it stands, whether every read so far had its bytes, and what
\* the last one read.
Start == [at |-> 0, ok |-> TRUE, got |-> <<>>]

Failed(c) == [at |-> c.at, ok |-> FALSE, got |-> <<>>]

Read(data, c, width) ==
    IF c.ok /\ c.at + width <= Len(data)
    THEN [at |-> c.at + width, ok |-> TRUE,
          got |-> SubSeq(data, c.at + 1, c.at + width)]
    ELSE Failed(c)

IdWidth == 8

\* UTF-8: the number of bytes of a character that begins with this one, and what
\* the k-th after it may be.
Needed(lead) == CASE lead \in 0..127   -> 1
                  [] lead \in 194..223 -> 2
                  [] lead \in 224..239 -> 3
                  [] lead \in 240..244 -> 4
                  [] OTHER             -> 0

Following(lead, k) == CASE k = 1 /\ lead = 224 -> 160..191
                        [] k = 1 /\ lead = 237 -> 128..159
                        [] k = 1 /\ lead = 240 -> 144..191
                        [] k = 1 /\ lead = 244 -> 128..143
                        [] OTHER               -> 128..191

\* The n bytes after the i-th go on with the character that it begins.
Continues(s, i, n) ==
    /\ i + n <= Len(s) /\ n < Needed(s[i])
    /\ \A k \in 1..n : s[i + k] \in Following(s[i], k)

\* The i-th byte is the n-th, from 0, of a character that is all there.
InCharacter(s, i) ==
    \E n \in 0..3 : /\ n < i /\ n < Needed(s[i - n])
                    /\ Continues(s, i - n, Needed(s[i - n]) - 1)

IsUtf8(s) == \A i \in DOMAIN s : InCharacter(s, i)

\* Text that is not UTF-8 is an error.
ReadString(data, c) ==
    LET length == Read(data, c, 4)
        text   == Read(data, length, Number(length.got))
    IN  IF IsUtf8(text.got) THEN text ELSE Failed(length)

\* A value carries the tag of its type; everything but the primitive types is
\* an object.
Tags == [B |-> 66, C |-> 67, D |-> 68, F |-> 70, I |-> 73, J |-> 74,
         S |-> 83, V |-> 86, Z |-> 90, Object |-> 76, String |-> 115]

ValueWidth(tag) ==
    CASE tag \in {Tags.B, Tags.Z} -> 1
      [] tag \in {Tags.C, Tags.S} -> 2
      [] tag \in {Tags.F, Tags.I} -> 4
      [] tag \in {Tags.D, Tags.J} -> 8
      [] tag = Tags.V             -> 0
      [] OTHER                    -> IdWidth

ReadValue(data, c) ==
    LET tag == Read(data, c, 1)
        value == Read(data, tag, ValueWidth(Number(tag.got)))
    IN  [value EXCEPT !.got = tag.got \o @]

ReadField(data, c, type) ==
    CASE type = "u8"     -> Read(data, c, 1)
      [] type = "u32"    -> Read(data, c, 4)
      [] type = "u64"    -> Read(data, c, 8)
      [] type = "id"     -> Read(data, c, IdWidth)
      [] type = "string" -> ReadString(data, c)
      [] type = "value"  -> ReadValue(data, c)

\* Values by their names; what is named "_" is dropped.
Labelled(names, values) ==
    [name \in {names[i] : i \in DOMAIN names} \ {"_"} |->
        values[CHOOSE i \in DOMAIN names : names[i] = name]]

\* A layout lists fields as <<name, type>>; the cursor after each of them.
Cursors(data, c, layout) ==
    LET after[i \in 0..Len(layout)] ==
            IF i = 0 THEN c ELSE ReadField(data, after[i - 1], layout[i][2])
    IN  after

ReadRecord(data, c, layout) ==
    LET after == Cursors(data, c, layout)
    IN  [cursor |-> after[Len(layout)],
         fields |-> Labelled([i \in DOMAIN layout |-> layout[i][1]],
                             [i \in DOMAIN layout |-> after[i].got])]

NoRecords(c) == [cursor |-> c, fields |-> <<>>]

\* One record after the other.
Records(data, c, layout, n) ==
    LET record[i \in 0..n] ==
            IF i = 0 THEN NoRecords(c)
            ELSE ReadRecord(data, record[i - 1].cursor, layout)
    IN  record

ReadList(data, c, layout) ==
    LET count  == Read(data, c, 4)
        n      == Number(count.got)
        record == Records(data, count, layout, n)
    IN  [cursor |-> record[n].cursor, items |-> [i \in 1..n |-> record[i].fields]]

\* The read loop: a header of eleven bytes, then as many as it says are left.
\* `code` is the error code of a reply, or the command set and the command.
ReadPacket(data) ==
    LET length == Read(data, Start, 4)
        id     == Read(data, length, 4)
        flags  == Read(data, id, 1)
        code   == Read(data, flags, 2)
        n      == Number(length.got)
        body   == Read(data, code, IF n > 11 THEN n - 11 ELSE 0)
    IN  [ok |-> body.ok, isReply |-> Number(flags.got) >= 128, id |-> id.got,
         code |-> code.got, data |-> body.got]

NoError == <<0, 0>>
CompositeEvent == <<64, 100>>
-----------------------------------------------------------------------------
(* What each command reads of its reply: fields, and a counted list.       *)
IdSizes == [head |-> <<<<"field", "u32">>, <<"method", "u32">>, <<"object", "u32">>,
                       <<"refType", "u32">>, <<"frame", "u32">>>>, item |-> <<>>]

AllClasses ==
    [head |-> <<>>,
     item |-> <<<<"refTypeTag", "u8">>, <<"refTypeId", "id">>,
                <<"signature", "string">>, <<"_", "string">>, <<"status", "u32">>>>]

AllThreads == [head |-> <<>>, item |-> <<<<"thread", "id">>>>]

Methods ==
    [head |-> <<>>,
     item |-> <<<<"methodId", "id">>, <<"name", "string">>,
                <<"signature", "string">>, <<"_", "string">>, <<"modBits", "u32">>>>]

LineTable ==
    [head |-> <<<<"start", "u64">>, <<"end", "u64">>>>,
     item |-> <<<<"codeIndex", "u64">>, <<"line", "u32">>>>]

VariableTable ==
    [head |-> <<<<"_", "u32">>>>,
     item |-> <<<<"codeIndex", "u64">>, <<"name", "string">>,
                <<"signature", "string">>, <<"_", "string">>,
                <<"length", "u32">>, <<"slot", "u32">>>>]

LocationFields == <<<<"typeTag", "u8">>, <<"classId", "id">>, <<"methodId", "id">>,
                    <<"index", "u64">>>>

Frames == [head |-> <<>>, item |-> <<<<"frameId", "id">>>> \o LocationFields]

Values == [head |-> <<>>, item |-> <<<<"value", "value">>>>]

RequestId == [head |-> <<<<"requestId", "u32">>>>, item |-> <<>>]

StringValue == [head |-> <<<<"string", "string">>>>, item |-> <<>>]

TypeOfObject == [head |-> <<<<"tag", "u8">>, <<"typeId", "id">>>>, item |-> <<>>]

\* The data of a reply that reports no error.
DecodeReply(data, layout) ==
    LET head == ReadRecord(data, Start, layout.head)
        list == IF layout.item = <<>> THEN [cursor |-> head.cursor, items |-> <<>>]
                ELSE ReadList(data, head.cursor, layout.item)
    IN  [ok |-> list.cursor.ok, value |-> [head |-> head.fields, items |-> list.items]]
-----------------------------------------------------------------------------
(* The composite event packet.                                             *)
Kinds == [step |-> 1, breakpoint |-> 2, exception |-> 4, classPrepare |-> 8,
          vmStart |-> 90, vmDeath |-> 99]

Dropped(layout) == [i \in DOMAIN layout |-> <<"_", layout[i][2]>>]

\* Mutant of CatchLocation: it is not consumed.
NoLocation == <<>>

\* Of an exception only the thread and the object are of use.
CatchLocation == Dropped(LocationFields)

ClassPrepared == <<<<"thread", "id">>, <<"refTypeTag", "u8">>, <<"refTypeId", "id">>,
                   <<"signature", "string">>, <<"status", "u32">>>>

Located == <<<<"thread", "id">>>> \o LocationFields

Thrown == <<<<"thread", "id">>>> \o Dropped(LocationFields)
            \o <<<<"_", "u8">>, <<"exception", "id">>>> \o CatchLocation

Started == <<<<"_", "id">>>>

EventLayout(kind) ==
    CASE kind = Kinds.classPrepare               -> ClassPrepared
      [] kind \in {Kinds.breakpoint, Kinds.step} -> Located
      [] kind = Kinds.exception                  -> Thrown
      [] kind = Kinds.vmStart                    -> Started
      [] OTHER                                   -> <<>>  \* the death of the VM

\* One event: an unknown kind stops the parse, the start of the VM is passed
\* over, and the death of the VM keeps nothing but its kind.
DecodeEvent(data, p) ==
    LET kind  == Read(data, p.cursor, 1)
        id    == Read(data, kind, 4)
        k     == Number(kind.got)
        r     == ReadRecord(data, id, EventLayout(k))
        event == [kind |-> k, fields |-> r.fields,
                  requestId |-> IF k = Kinds.vmDeath THEN <<>> ELSE id.got]
    IN  IF p.stopped THEN p
        ELSE IF ~id.ok \/ k \notin Range(Kinds)
             THEN [cursor |-> id, stopped |-> TRUE, events |-> p.events]
        ELSE [cursor |-> r.cursor, stopped |-> ~r.cursor.ok,
              events |-> IF ~r.cursor.ok \/ k = Kinds.vmStart THEN p.events
                         ELSE Append(p.events, event)]

NoEvents(c) == [cursor |-> c, stopped |-> FALSE, events |-> <<>>]

\* The parse after each of n events.
DecodeEvents(data, c, n) ==
    LET after[i \in 0..n] ==
            IF i = 0 THEN NoEvents(c)
            ELSE DecodeEvent(data, after[i - 1])
    IN  after

DecodeComposite(data) ==
    LET count == Read(data, Read(data, Start, 1), 4)
        n     == Number(count.got)
        last  == DecodeEvents(data, count, n)[n]
    IN  [ok |-> last.cursor.ok, value |-> last.events]
-----------------------------------------------------------------------------
(* What the client writes: the event requests, and the requests whose      *)
(* arguments are more than identifiers.  A request suspends all threads.   *)
SuspendAll == 2

Shifted(n) == n \div 256

\* Four bytes hold any number written here; the first of them takes what is
\* left.
BigEndian(width, n) ==
    [i \in 1..width |-> CASE i = width     -> n % 256
                         [] i = width - 1 -> Shifted(n) % 256
                         [] i = width - 2 -> Shifted(Shifted(n)) % 256
                         [] i = width - 3 -> Shifted(Shifted(Shifted(n)))
                         [] OTHER         -> 0]

\* The packet of a command: its command set and number, and its data.
Packet(id, set, command, data) ==
    BigEndian(4, 11 + Len(data)) \o BigEndian(4, id) \o <<0, set, command>> \o data

EventRequest(id, kind, modifiers) ==
    Packet(id, 15, 1, <<kind, SuspendAll>> \o BigEndian(4, Len(modifiers))
                                           \o FlattenSeq(modifiers))

SetClassPrepare(id) == EventRequest(id, Kinds.classPrepare, <<>>)

\* A location is [typeTag, classId, methodId, index].
SetBreakpoint(id, location) ==
    EventRequest(id, Kinds.breakpoint,
        <<<<7>> \o location.typeTag \o location.classId \o location.methodId
            \o location.index>>)

\* Line steps; the depth is 0 into, 1 over, 2 out.
SetStep(id, thread, depth) ==
    EventRequest(id, Kinds.step,
        <<<<10>> \o thread \o BigEndian(4, 1) \o BigEndian(4, depth)>>)

\* Exceptions of any class, uncaught ones only.
SetExceptionUncaught(id) ==
    EventRequest(id, Kinds.exception, <<<<8>> \o BigEndian(8, 0) \o <<0, 1>>>>)

ClearRequest(id, kind, requestId) == Packet(id, 15, 2, <<kind>> \o BigEndian(4, requestId))

ThreadFrames(id, thread, start, length) == Packet(id, 11, 6, thread \o start \o length)

\* The slots are <<slot, tag>> pairs.
GetValues(id, thread, frame, slots) ==
    Packet(id, 16, 1, thread \o frame \o BigEndian(4, Len(slots))
        \o FlattenSeq([i \in DOMAIN slots |-> BigEndian(4, slots[i][1]) \o <<slots[i][2]>>]))
=============================================================================
