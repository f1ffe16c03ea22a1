----------------------------- MODULE ClassFile -----------------------------
(***************************************************************************)
(* The minimal class file parser of the source map: the constant pool, the *)
(* name of the class, and the SourceFile attribute.  Everything else is    *)
(* skipped, some of it without a look at whether the bytes are there.      *)
(*                                                                         *)
(* A name is the UTF-8 of a String.                                        *)
(***************************************************************************)
EXTENDS Wire

Magic == <<202, 254, 186, 190>>
SourceFile == <<83, 70>>    \* stands for the name "SourceFile"
NoSource == <<>>

\* `pos += n`: nothing is checked, the next read will be.
Skip(c, n) == [at |-> c.at + n, ok |-> c.ok, got |-> c.got]

\* The number of bytes that follow the tag of a constant pool entry other than
\* a Utf8 or a Class.
EntryWidth(tag) ==
    CASE tag \in {3, 4}                  -> 4
      [] tag \in {5, 6}                  -> 8
      [] tag \in {8, 16, 19, 20}         -> 2
      [] tag \in {9, 10, 11, 12, 17, 18} -> 4
      [] tag = 15                        -> 3

\* Mutant of Slots: every constant takes one.
OneSlot(tag) == 1

\* A long or a double takes two slots.
Slots(tag) == IF tag \in {5, 6} THEN 2 ELSE 1

KnownTags == 3..12 \cup 15..20

\* `HashMap::insert`.
Insert(map, key, value) ==
    [k \in DOMAIN map \cup {key} |-> IF k = key THEN value ELSE map[k]]

\* from_utf8_lossy: U+FFFD takes the place of a character that breaks off, and of
\* a byte that is in none.
ReplacementCharacter == <<239, 191, 189>>
Lossy(s) ==
    IF IsUtf8(s) THEN s
    ELSE FlattenSeq([i \in DOMAIN s |->
             IF InCharacter(s, i) THEN <<s[i]>>
             ELSE IF \E n \in 1..3 : n < i /\ Continues(s, i - n, n) THEN <<>>
             ELSE ReplacementCharacter])

ReadEntry(data, pool) ==
    LET tag   == Read(data, pool.cursor, 1)
        t     == Number(tag.got)
        short == Read(data, tag, 2)
        text  == Read(data, short, Number(short.got))
    IN  [index  |-> pool.index + Slots(t),
         cursor |-> CASE t = 1                 -> text
                      [] t = 7                 -> short
                      [] t \in KnownTags \ {7} -> Skip(tag, EntryWidth(t))
                      [] OTHER                 -> Failed(tag),
         utf8   |-> IF t = 1 THEN Insert(pool.utf8, pool.index, Lossy(text.got))
                    ELSE pool.utf8,
         class  |-> IF t = 7 THEN Insert(pool.class, pool.index, Number(short.got))
                    ELSE pool.class]

EmptyPool(c) == [index |-> 1, cursor |-> c, utf8 |-> <<>>, class |-> <<>>]

\* The loop ends at the count, or where a read fails.
PoolTurn(data, pool, n) ==
    IF pool.cursor.ok /\ pool.index < n THEN ReadEntry(data, pool) ELSE pool

\* The pool after each turn of the loop, of which n are more than enough.
Pools(data, c, n) ==
    LET after[i \in 0..n] == IF i = 0 THEN EmptyPool(c) ELSE PoolTurn(data, after[i - 1], n)
    IN  after

ReadPool(data, c) ==
    LET count == Read(data, c, 2)
        n     == Number(count.got)
    IN  Pools(data, count, n)[n]

SkipAttribute(data, c) ==
    LET length == Read(data, Skip(c, 2), 4)
    IN  Read(data, length, Number(length.got))

\* The cursor after each of n attributes.
Attributes(data, c, n) ==
    LET after[i \in 0..n] == IF i = 0 THEN c ELSE SkipAttribute(data, after[i - 1])
    IN  after

SkipAttributes(data, c) ==
    LET count == Read(data, c, 2)
        n     == Number(count.got)
    IN  Attributes(data, count, n)[n]

\* The cursor after each of n members: six bytes, and attributes.
Members(data, c, n) ==
    LET after[i \in 0..n] ==
            IF i = 0 THEN c ELSE SkipAttributes(data, Skip(after[i - 1], 6))
    IN  after

\* The fields, or the methods.
SkipMembers(data, c) ==
    LET count == Read(data, c, 2)
        n     == Number(count.got)
    IN  Members(data, count, n)[n]

\* A search looks at one attribute; the first SourceFile ends it.
Look(data, utf8, search) ==
    LET name   == Read(data, search.cursor, 2)
        length == Read(data, name, 4)
        index  == Read(data, length, 2)
        isSourceFile == /\ Number(name.got) \in DOMAIN utf8
                        /\ utf8[Number(name.got)] = SourceFile
    IN  IF search.done \/ ~search.cursor.ok THEN search
        ELSE IF length.ok /\ isSourceFile
        THEN [done |-> TRUE, cursor |-> index,
              source |-> IF Number(index.got) \in DOMAIN utf8
                         THEN utf8[Number(index.got)] ELSE NoSource]
        ELSE [done |-> FALSE, cursor |-> Skip(length, Number(length.got)),
              source |-> NoSource]

NewSearch(c) == [done |-> FALSE, cursor |-> c, source |-> NoSource]

\* The search after each of n attributes.
Searches(data, c, utf8, n) ==
    LET after[i \in 0..n] ==
            IF i = 0 THEN NewSearch(c)
            ELSE Look(data, utf8, after[i - 1])
    IN  after

FindSourceFile(data, c, utf8) ==
    LET count == Read(data, c, 2)
        n     == Number(count.got)
    IN  Searches(data, count, utf8, n)[n]

ParseClassInfo(data) ==
    LET magic      == Read(data, Start, 4)
        pool       == ReadPool(data, Skip(magic, 4))
        this       == Read(data, Skip(pool.cursor, 2), 2)
        thisIndex  == Number(this.got)
        named      == /\ thisIndex \in DOMAIN pool.class
                      /\ pool.class[thisIndex] \in DOMAIN pool.utf8
        interfaces == Read(data, Skip(this, 2), 2)
        fields     == SkipMembers(data, Skip(interfaces, 2 * Number(interfaces.got)))
        found      == FindSourceFile(data, SkipMembers(data, fields), pool.utf8)
    IN  IF magic.got # Magic \/ ~this.ok \/ ~named \/ ~found.cursor.ok
        THEN [ok |-> FALSE, value |-> <<>>]
        ELSE [ok |-> TRUE, value |-> [name |-> pool.utf8[pool.class[thisIndex]],
                                      source |-> found.source]]
=============================================================================
