--------------------------- MODULE DecodingProofs ---------------------------
(***************************************************************************)
(* Theorems about module Decoding, for every value of its constants: lists *)
(* and composites of any length, and class files of any shape whose counts *)
(* fit into two bytes.                                                     *)
(*                                                                         *)
(* The readers and the writers are loops over data, each a function of the *)
(* number of turns.  What such a function computes is proved by induction: *)
(* the set of turns after which it is so holds 0 and, with each turn, the  *)
(* next.                                                                   *)
(***************************************************************************)
EXTENDS Decoding, SequenceTheorems, WellFoundedInduction, TLAPS

-----------------------------------------------------------------------------
(* Induction.                                                              *)
\* From the well-foundedness of the order of the naturals.
LEMMA LeastOf ==
    ASSUME NEW T, T \subseteq Nat, T # {}
    PROVE  \E m \in T : \A k \in T : m <= k
<1> DEFINE R == OpToRel(<, Nat)
<1>1. ASSUME NEW k \in Nat, NEW m \in Nat, k < m PROVE <<k, m>> \in R
    BY <1>1 DEF OpToRel
<1>2. IsWellFoundedOn(R, Nat)
    BY NatLessThanWellFounded
<1> HIDE DEF R
<1>3. PICK m \in T : \A k \in T : ~(<<k, m>> \in R)
    BY <1>2, WFMin
<1>4. ASSUME NEW k \in T PROVE ~(k < m)
    BY <1>3, <1>1
<1>5. \A k \in T : m <= k
    BY <1>4
<1>6. QED
    BY <1>5

\* A set that holds 0 and every successor holds all naturals.
LEMMA Induction ==
    ASSUME NEW T, 0 \in T, \A n \in Nat : n \in T => n + 1 \in T
    PROVE  Nat \subseteq T
<1>1. SUFFICES ASSUME NEW x \in Nat, x \notin T PROVE FALSE
    OBVIOUS
<1>2. PICK m \in Nat \ T : \A k \in Nat \ T : m <= k
    BY LeastOf, <1>1
<1>3. m # 0 /\ m - 1 \in Nat /\ m - 1 + 1 = m
    BY <1>2
<1>4. m - 1 \in T
    BY <1>3, <1>2
<1>5. QED
    BY <1>3, <1>4, <1>2

\* The same, up to a bound: the form in which loops are treated.
LEMMA UpTo ==
    ASSUME NEW n \in Nat, NEW T, 0 \in T,
           \A i \in 1..n : i - 1 \in T => i \in T
    PROVE  0..n \subseteq T
<1> DEFINE U == {k \in Nat : k <= n => k \in T}
<1>1. 0 \in U
    OBVIOUS
<1>2. ASSUME NEW k \in Nat, k \in U PROVE k + 1 \in U
    <2>1. CASE k + 1 <= n
        <3>1. k + 1 \in 1..n /\ k + 1 - 1 = k /\ k \in T
            BY <1>2, <2>1
        <3>2. k + 1 \in T
            BY <3>1
        <3>3. QED
            BY <3>2
    <2>2. QED
        BY <2>1
<1>3. Nat \subseteq U
    <2> HIDE DEF U
    <2>1. QED
        BY <1>1, <1>2, Induction
<1>4. QED
    BY <1>3

-----------------------------------------------------------------------------
(* The loops.  Each is what its definition says, turn by turn.             *)
\* A function defined up to k is extended to k + 1.
Extended(f, k, v) == [i \in 0..(k + 1) |-> IF i = k + 1 THEN v ELSE f[i]]

LEMMA ExtendedAt ==
    ASSUME NEW f, NEW k \in Nat, NEW v
    PROVE  /\ Extended(f, k, v)[k + 1] = v
           /\ \A i \in 0..k : Extended(f, k, v)[i] = f[i]
    BY DEF Extended

CursorsUpto(data, c, layout, f, m) ==
    f = [i \in 0..m |-> IF i = 0 THEN c
                        ELSE ReadField(data, f[i - 1], layout[i][2])]

\* The loop of the fields of a record, turn by turn.
LEMMA CursorsLoop ==
    ASSUME NEW data, NEW c, NEW layout, Len(layout) \in Nat
    PROVE  /\ Cursors(data, c, layout)[0] = c
           /\ \A i \in 1..Len(layout) :
                 Cursors(data, c, layout)[i] = ReadField(data, Cursors(data, c, layout)[i - 1], layout[i][2])
<1> DEFINE T == {m \in Nat : \E f : CursorsUpto(data, c, layout, f, m)}
<1>1. 0 \in T
    <2>1. CursorsUpto(data, c, layout, [i \in 0..0 |-> c], 0)
        BY DEF CursorsUpto
    <2>2. QED
        BY <2>1
<1>2. ASSUME NEW m \in Nat, m \in T PROVE m + 1 \in T
    <2>1. PICK f : CursorsUpto(data, c, layout, f, m)
        BY <1>2
    <2> DEFINE next == ReadField(data, f[m], layout[m + 1][2])
               g    == Extended(f, m, next)
    <2>2. ASSUME NEW i \in 0..(m + 1)
          PROVE  g[i] = IF i = 0 THEN c ELSE ReadField(data, g[i - 1], layout[i][2])
        <3>1. CASE i = m + 1
            <4>1. g[i] = next /\ g[i - 1] = f[m]
                BY <3>1, ExtendedAt
            <4>2. QED
                BY <3>1, <4>1
        <3>2. CASE i \in 0..m
            <4>1. g[i] = f[i] /\ (i # 0 => g[i - 1] = f[i - 1])
                BY <3>2, ExtendedAt
            <4>2. f[i] = IF i = 0 THEN c ELSE ReadField(data, f[i - 1], layout[i][2])
                BY <2>1, <3>2 DEF CursorsUpto
            <4>3. QED
                BY <4>1, <4>2
        <3>3. QED
            BY <3>1, <3>2
    <2>3. CursorsUpto(data, c, layout, g, m + 1)
        BY <2>2 DEF CursorsUpto, Extended
    <2>4. QED
        BY <2>3
<1>3. PICK f : CursorsUpto(data, c, layout, f, Len(layout))
    <2> HIDE DEF T
    <2>1. Nat \subseteq T
        BY <1>1, <1>2, Induction
    <2>2. QED
        BY <2>1 DEF T
<1>4. CursorsUpto(data, c, layout, Cursors(data, c, layout), Len(layout))
    BY <1>3 DEF CursorsUpto, Cursors
<1>5. QED
    BY <1>4 DEF CursorsUpto

RecordsUpto(data, c, layout, n, f, m) ==
    f = [i \in 0..m |-> IF i = 0 THEN NoRecords(c)
                        ELSE ReadRecord(data, f[i - 1].cursor, layout)]

\* The loop of the records of a list, turn by turn.
LEMMA RecordsLoop ==
    ASSUME NEW data, NEW c, NEW layout, NEW n \in Nat
    PROVE  /\ Records(data, c, layout, n)[0] = NoRecords(c)
           /\ \A i \in 1..n :
                 Records(data, c, layout, n)[i] = ReadRecord(data, Records(data, c, layout, n)[i - 1].cursor, layout)
<1> DEFINE T == {m \in Nat : \E f : RecordsUpto(data, c, layout, n, f, m)}
<1>1. 0 \in T
    <2>1. RecordsUpto(data, c, layout, n, [i \in 0..0 |-> NoRecords(c)], 0)
        BY DEF RecordsUpto
    <2>2. QED
        BY <2>1
<1>2. ASSUME NEW m \in Nat, m \in T PROVE m + 1 \in T
    <2>1. PICK f : RecordsUpto(data, c, layout, n, f, m)
        BY <1>2
    <2> DEFINE next == ReadRecord(data, f[m].cursor, layout)
               g    == Extended(f, m, next)
    <2>2. ASSUME NEW i \in 0..(m + 1)
          PROVE  g[i] = IF i = 0 THEN NoRecords(c) ELSE ReadRecord(data, g[i - 1].cursor, layout)
        <3>1. CASE i = m + 1
            <4>1. g[i] = next /\ g[i - 1] = f[m]
                BY <3>1, ExtendedAt
            <4>2. QED
                BY <3>1, <4>1
        <3>2. CASE i \in 0..m
            <4>1. g[i] = f[i] /\ (i # 0 => g[i - 1] = f[i - 1])
                BY <3>2, ExtendedAt
            <4>2. f[i] = IF i = 0 THEN NoRecords(c) ELSE ReadRecord(data, f[i - 1].cursor, layout)
                BY <2>1, <3>2 DEF RecordsUpto
            <4>3. QED
                BY <4>1, <4>2
        <3>3. QED
            BY <3>1, <3>2
    <2>3. RecordsUpto(data, c, layout, n, g, m + 1)
        BY <2>2 DEF RecordsUpto, Extended
    <2>4. QED
        BY <2>3
<1>3. PICK f : RecordsUpto(data, c, layout, n, f, n)
    <2> HIDE DEF T
    <2>1. Nat \subseteq T
        BY <1>1, <1>2, Induction
    <2>2. QED
        BY <2>1 DEF T
<1>4. RecordsUpto(data, c, layout, n, Records(data, c, layout, n), n)
    BY <1>3 DEF RecordsUpto, Records
<1>5. QED
    BY <1>4 DEF RecordsUpto

DecodeEventsUpto(data, c, n, f, m) ==
    f = [i \in 0..m |-> IF i = 0 THEN NoEvents(c)
                        ELSE DecodeEvent(data, f[i - 1])]

\* The loop of the events of a composite, turn by turn.
LEMMA DecodeEventsLoop ==
    ASSUME NEW data, NEW c, NEW n \in Nat
    PROVE  /\ DecodeEvents(data, c, n)[0] = NoEvents(c)
           /\ \A i \in 1..n :
                 DecodeEvents(data, c, n)[i] = DecodeEvent(data, DecodeEvents(data, c, n)[i - 1])
<1> DEFINE T == {m \in Nat : \E f : DecodeEventsUpto(data, c, n, f, m)}
<1>1. 0 \in T
    <2>1. DecodeEventsUpto(data, c, n, [i \in 0..0 |-> NoEvents(c)], 0)
        BY DEF DecodeEventsUpto
    <2>2. QED
        BY <2>1
<1>2. ASSUME NEW m \in Nat, m \in T PROVE m + 1 \in T
    <2>1. PICK f : DecodeEventsUpto(data, c, n, f, m)
        BY <1>2
    <2> DEFINE next == DecodeEvent(data, f[m])
               g    == Extended(f, m, next)
    <2>2. ASSUME NEW i \in 0..(m + 1)
          PROVE  g[i] = IF i = 0 THEN NoEvents(c) ELSE DecodeEvent(data, g[i - 1])
        <3>1. CASE i = m + 1
            <4>1. g[i] = next /\ g[i - 1] = f[m]
                BY <3>1, ExtendedAt
            <4>2. QED
                BY <3>1, <4>1
        <3>2. CASE i \in 0..m
            <4>1. g[i] = f[i] /\ (i # 0 => g[i - 1] = f[i - 1])
                BY <3>2, ExtendedAt
            <4>2. f[i] = IF i = 0 THEN NoEvents(c) ELSE DecodeEvent(data, f[i - 1])
                BY <2>1, <3>2 DEF DecodeEventsUpto
            <4>3. QED
                BY <4>1, <4>2
        <3>3. QED
            BY <3>1, <3>2
    <2>3. DecodeEventsUpto(data, c, n, g, m + 1)
        BY <2>2 DEF DecodeEventsUpto, Extended
    <2>4. QED
        BY <2>3
<1>3. PICK f : DecodeEventsUpto(data, c, n, f, n)
    <2> HIDE DEF T
    <2>1. Nat \subseteq T
        BY <1>1, <1>2, Induction
    <2>2. QED
        BY <2>1 DEF T
<1>4. DecodeEventsUpto(data, c, n, DecodeEvents(data, c, n), n)
    BY <1>3 DEF DecodeEventsUpto, DecodeEvents
<1>5. QED
    BY <1>4 DEF DecodeEventsUpto

PoolsUpto(data, c, n, f, m) ==
    f = [i \in 0..m |-> IF i = 0 THEN EmptyPool(c)
                        ELSE PoolTurn(data, f[i - 1], n)]

\* The loop of the constant pool, turn by turn.
LEMMA PoolsLoop ==
    ASSUME NEW data, NEW c, NEW n \in Nat
    PROVE  /\ Pools(data, c, n)[0] = EmptyPool(c)
           /\ \A i \in 1..n :
                 Pools(data, c, n)[i] = PoolTurn(data, Pools(data, c, n)[i - 1], n)
<1> DEFINE T == {m \in Nat : \E f : PoolsUpto(data, c, n, f, m)}
<1>1. 0 \in T
    <2>1. PoolsUpto(data, c, n, [i \in 0..0 |-> EmptyPool(c)], 0)
        BY DEF PoolsUpto
    <2>2. QED
        BY <2>1
<1>2. ASSUME NEW m \in Nat, m \in T PROVE m + 1 \in T
    <2>1. PICK f : PoolsUpto(data, c, n, f, m)
        BY <1>2
    <2> DEFINE next == PoolTurn(data, f[m], n)
               g    == Extended(f, m, next)
    <2>2. ASSUME NEW i \in 0..(m + 1)
          PROVE  g[i] = IF i = 0 THEN EmptyPool(c) ELSE PoolTurn(data, g[i - 1], n)
        <3>1. CASE i = m + 1
            <4>1. g[i] = next /\ g[i - 1] = f[m]
                BY <3>1, ExtendedAt
            <4>2. QED
                BY <3>1, <4>1
        <3>2. CASE i \in 0..m
            <4>1. g[i] = f[i] /\ (i # 0 => g[i - 1] = f[i - 1])
                BY <3>2, ExtendedAt
            <4>2. f[i] = IF i = 0 THEN EmptyPool(c) ELSE PoolTurn(data, f[i - 1], n)
                BY <2>1, <3>2 DEF PoolsUpto
            <4>3. QED
                BY <4>1, <4>2
        <3>3. QED
            BY <3>1, <3>2
    <2>3. PoolsUpto(data, c, n, g, m + 1)
        BY <2>2 DEF PoolsUpto, Extended
    <2>4. QED
        BY <2>3
<1>3. PICK f : PoolsUpto(data, c, n, f, n)
    <2> HIDE DEF T
    <2>1. Nat \subseteq T
        BY <1>1, <1>2, Induction
    <2>2. QED
        BY <2>1 DEF T
<1>4. PoolsUpto(data, c, n, Pools(data, c, n), n)
    BY <1>3 DEF PoolsUpto, Pools
<1>5. QED
    BY <1>4 DEF PoolsUpto

AttributesUpto(data, c, n, f, m) ==
    f = [i \in 0..m |-> IF i = 0 THEN c
                        ELSE SkipAttribute(data, f[i - 1])]

\* The loop over attributes that are skipped, turn by turn.
LEMMA AttributesLoop ==
    ASSUME NEW data, NEW c, NEW n \in Nat
    PROVE  /\ Attributes(data, c, n)[0] = c
           /\ \A i \in 1..n :
                 Attributes(data, c, n)[i] = SkipAttribute(data, Attributes(data, c, n)[i - 1])
<1> DEFINE T == {m \in Nat : \E f : AttributesUpto(data, c, n, f, m)}
<1>1. 0 \in T
    <2>1. AttributesUpto(data, c, n, [i \in 0..0 |-> c], 0)
        BY DEF AttributesUpto
    <2>2. QED
        BY <2>1
<1>2. ASSUME NEW m \in Nat, m \in T PROVE m + 1 \in T
    <2>1. PICK f : AttributesUpto(data, c, n, f, m)
        BY <1>2
    <2> DEFINE next == SkipAttribute(data, f[m])
               g    == Extended(f, m, next)
    <2>2. ASSUME NEW i \in 0..(m + 1)
          PROVE  g[i] = IF i = 0 THEN c ELSE SkipAttribute(data, g[i - 1])
        <3>1. CASE i = m + 1
            <4>1. g[i] = next /\ g[i - 1] = f[m]
                BY <3>1, ExtendedAt
            <4>2. QED
                BY <3>1, <4>1
        <3>2. CASE i \in 0..m
            <4>1. g[i] = f[i] /\ (i # 0 => g[i - 1] = f[i - 1])
                BY <3>2, ExtendedAt
            <4>2. f[i] = IF i = 0 THEN c ELSE SkipAttribute(data, f[i - 1])
                BY <2>1, <3>2 DEF AttributesUpto
            <4>3. QED
                BY <4>1, <4>2
        <3>3. QED
            BY <3>1, <3>2
    <2>3. AttributesUpto(data, c, n, g, m + 1)
        BY <2>2 DEF AttributesUpto, Extended
    <2>4. QED
        BY <2>3
<1>3. PICK f : AttributesUpto(data, c, n, f, n)
    <2> HIDE DEF T
    <2>1. Nat \subseteq T
        BY <1>1, <1>2, Induction
    <2>2. QED
        BY <2>1 DEF T
<1>4. AttributesUpto(data, c, n, Attributes(data, c, n), n)
    BY <1>3 DEF AttributesUpto, Attributes
<1>5. QED
    BY <1>4 DEF AttributesUpto

MembersUpto(data, c, n, f, m) ==
    f = [i \in 0..m |-> IF i = 0 THEN c
                        ELSE SkipAttributes(data, Skip(f[i - 1], 6))]

\* The loop over members, turn by turn.
LEMMA MembersLoop ==
    ASSUME NEW data, NEW c, NEW n \in Nat
    PROVE  /\ Members(data, c, n)[0] = c
           /\ \A i \in 1..n :
                 Members(data, c, n)[i] = SkipAttributes(data, Skip(Members(data, c, n)[i - 1], 6))
<1> DEFINE T == {m \in Nat : \E f : MembersUpto(data, c, n, f, m)}
<1>1. 0 \in T
    <2>1. MembersUpto(data, c, n, [i \in 0..0 |-> c], 0)
        BY DEF MembersUpto
    <2>2. QED
        BY <2>1
<1>2. ASSUME NEW m \in Nat, m \in T PROVE m + 1 \in T
    <2>1. PICK f : MembersUpto(data, c, n, f, m)
        BY <1>2
    <2> DEFINE next == SkipAttributes(data, Skip(f[m], 6))
               g    == Extended(f, m, next)
    <2>2. ASSUME NEW i \in 0..(m + 1)
          PROVE  g[i] = IF i = 0 THEN c ELSE SkipAttributes(data, Skip(g[i - 1], 6))
        <3>1. CASE i = m + 1
            <4>1. g[i] = next /\ g[i - 1] = f[m]
                BY <3>1, ExtendedAt
            <4>2. QED
                BY <3>1, <4>1
        <3>2. CASE i \in 0..m
            <4>1. g[i] = f[i] /\ (i # 0 => g[i - 1] = f[i - 1])
                BY <3>2, ExtendedAt
            <4>2. f[i] = IF i = 0 THEN c ELSE SkipAttributes(data, Skip(f[i - 1], 6))
                BY <2>1, <3>2 DEF MembersUpto
            <4>3. QED
                BY <4>1, <4>2
        <3>3. QED
            BY <3>1, <3>2
    <2>3. MembersUpto(data, c, n, g, m + 1)
        BY <2>2 DEF MembersUpto, Extended
    <2>4. QED
        BY <2>3
<1>3. PICK f : MembersUpto(data, c, n, f, n)
    <2> HIDE DEF T
    <2>1. Nat \subseteq T
        BY <1>1, <1>2, Induction
    <2>2. QED
        BY <2>1 DEF T
<1>4. MembersUpto(data, c, n, Members(data, c, n), n)
    BY <1>3 DEF MembersUpto, Members
<1>5. QED
    BY <1>4 DEF MembersUpto

SearchesUpto(data, c, utf8, n, f, m) ==
    f = [i \in 0..m |-> IF i = 0 THEN NewSearch(c)
                        ELSE Look(data, utf8, f[i - 1])]

\* The loop of the search for the SourceFile attribute, turn by turn.
LEMMA SearchesLoop ==
    ASSUME NEW data, NEW c, NEW utf8, NEW n \in Nat
    PROVE  /\ Searches(data, c, utf8, n)[0] = NewSearch(c)
           /\ \A i \in 1..n :
                 Searches(data, c, utf8, n)[i] = Look(data, utf8, Searches(data, c, utf8, n)[i - 1])
<1> DEFINE T == {m \in Nat : \E f : SearchesUpto(data, c, utf8, n, f, m)}
<1>1. 0 \in T
    <2>1. SearchesUpto(data, c, utf8, n, [i \in 0..0 |-> NewSearch(c)], 0)
        BY DEF SearchesUpto
    <2>2. QED
        BY <2>1
<1>2. ASSUME NEW m \in Nat, m \in T PROVE m + 1 \in T
    <2>1. PICK f : SearchesUpto(data, c, utf8, n, f, m)
        BY <1>2
    <2> DEFINE next == Look(data, utf8, f[m])
               g    == Extended(f, m, next)
    <2>2. ASSUME NEW i \in 0..(m + 1)
          PROVE  g[i] = IF i = 0 THEN NewSearch(c) ELSE Look(data, utf8, g[i - 1])
        <3>1. CASE i = m + 1
            <4>1. g[i] = next /\ g[i - 1] = f[m]
                BY <3>1, ExtendedAt
            <4>2. QED
                BY <3>1, <4>1
        <3>2. CASE i \in 0..m
            <4>1. g[i] = f[i] /\ (i # 0 => g[i - 1] = f[i - 1])
                BY <3>2, ExtendedAt
            <4>2. f[i] = IF i = 0 THEN NewSearch(c) ELSE Look(data, utf8, f[i - 1])
                BY <2>1, <3>2 DEF SearchesUpto
            <4>3. QED
                BY <4>1, <4>2
        <3>3. QED
            BY <3>1, <3>2
    <2>3. SearchesUpto(data, c, utf8, n, g, m + 1)
        BY <2>2 DEF SearchesUpto, Extended
    <2>4. QED
        BY <2>3
<1>3. PICK f : SearchesUpto(data, c, utf8, n, f, n)
    <2> HIDE DEF T
    <2>1. Nat \subseteq T
        BY <1>1, <1>2, Induction
    <2>2. QED
        BY <2>1 DEF T
<1>4. SearchesUpto(data, c, utf8, n, Searches(data, c, utf8, n), n)
    BY <1>3 DEF SearchesUpto, Searches
<1>5. QED
    BY <1>4 DEF SearchesUpto

IndicesUpto(extras, f, m) ==
    f = [i \in 0..m |-> IF i = 0 THEN 1
                        ELSE f[i - 1] + (IF extras[i] \in {5, 6} THEN 2 ELSE 1)]

\* The loop over the constants a writer puts first, turn by turn.
LEMMA IndicesLoop ==
    ASSUME NEW extras, Len(extras) \in Nat
    PROVE  /\ Indices(extras)[0] = 1
           /\ \A i \in 1..Len(extras) :
                 Indices(extras)[i] = Indices(extras)[i - 1] + (IF extras[i] \in {5, 6} THEN 2 ELSE 1)
<1> DEFINE T == {m \in Nat : \E f : IndicesUpto(extras, f, m)}
<1>1. 0 \in T
    <2>1. IndicesUpto(extras, [i \in 0..0 |-> 1], 0)
        BY DEF IndicesUpto
    <2>2. QED
        BY <2>1
<1>2. ASSUME NEW m \in Nat, m \in T PROVE m + 1 \in T
    <2>1. PICK f : IndicesUpto(extras, f, m)
        BY <1>2
    <2> DEFINE next == f[m] + (IF extras[m + 1] \in {5, 6} THEN 2 ELSE 1)
               g    == Extended(f, m, next)
    <2>2. ASSUME NEW i \in 0..(m + 1)
          PROVE  g[i] = IF i = 0 THEN 1 ELSE g[i - 1] + (IF extras[i] \in {5, 6} THEN 2 ELSE 1)
        <3>1. CASE i = m + 1
            <4>1. g[i] = next /\ g[i - 1] = f[m]
                BY <3>1, ExtendedAt
            <4>2. QED
                BY <3>1, <4>1
        <3>2. CASE i \in 0..m
            <4>1. g[i] = f[i] /\ (i # 0 => g[i - 1] = f[i - 1])
                BY <3>2, ExtendedAt
            <4>2. f[i] = IF i = 0 THEN 1 ELSE f[i - 1] + (IF extras[i] \in {5, 6} THEN 2 ELSE 1)
                BY <2>1, <3>2 DEF IndicesUpto
            <4>3. QED
                BY <4>1, <4>2
        <3>3. QED
            BY <3>1, <3>2
    <2>3. IndicesUpto(extras, g, m + 1)
        BY <2>2 DEF IndicesUpto, Extended
    <2>4. QED
        BY <2>3
<1>3. PICK f : IndicesUpto(extras, f, Len(extras))
    <2> HIDE DEF T
    <2>1. Nat \subseteq T
        BY <1>1, <1>2, Induction
    <2>2. QED
        BY <2>1 DEF T
<1>4. IndicesUpto(extras, Indices(extras), Len(extras))
    BY <1>3 DEF IndicesUpto, Indices
<1>5. QED
    BY <1>4 DEF IndicesUpto

EventsMeantUpto(events, f, m) ==
    f = [i \in 0..m |-> IF i = 0 THEN <<>>
                        ELSE Told(events, i, f[i - 1])]

\* The loop over the events an agent writes, turn by turn.
LEMMA EventsMeantLoop ==
    ASSUME NEW events, Len(events) \in Nat
    PROVE  /\ EventsMeant(events)[0] = <<>>
           /\ \A i \in 1..Len(events) :
                 EventsMeant(events)[i] = Told(events, i, EventsMeant(events)[i - 1])
<1> DEFINE T == {m \in Nat : \E f : EventsMeantUpto(events, f, m)}
<1>1. 0 \in T
    <2>1. EventsMeantUpto(events, [i \in 0..0 |-> <<>>], 0)
        BY DEF EventsMeantUpto
    <2>2. QED
        BY <2>1
<1>2. ASSUME NEW m \in Nat, m \in T PROVE m + 1 \in T
    <2>1. PICK f : EventsMeantUpto(events, f, m)
        BY <1>2
    <2> DEFINE next == Told(events, m + 1, f[m])
               g    == Extended(f, m, next)
    <2>2. ASSUME NEW i \in 0..(m + 1)
          PROVE  g[i] = IF i = 0 THEN <<>> ELSE Told(events, i, g[i - 1])
        <3>1. CASE i = m + 1
            <4>1. g[i] = next /\ g[i - 1] = f[m]
                BY <3>1, ExtendedAt
            <4>2. QED
                BY <3>1, <4>1
        <3>2. CASE i \in 0..m
            <4>1. g[i] = f[i] /\ (i # 0 => g[i - 1] = f[i - 1])
                BY <3>2, ExtendedAt
            <4>2. f[i] = IF i = 0 THEN <<>> ELSE Told(events, i, f[i - 1])
                BY <2>1, <3>2 DEF EventsMeantUpto
            <4>3. QED
                BY <4>1, <4>2
        <3>3. QED
            BY <3>1, <3>2
    <2>3. EventsMeantUpto(events, g, m + 1)
        BY <2>2 DEF EventsMeantUpto, Extended
    <2>4. QED
        BY <2>3
<1>3. PICK f : EventsMeantUpto(events, f, Len(events))
    <2> HIDE DEF T
    <2>1. Nat \subseteq T
        BY <1>1, <1>2, Induction
    <2>2. QED
        BY <2>1 DEF T
<1>4. EventsMeantUpto(events, EventsMeant(events), Len(events))
    BY <1>3 DEF EventsMeantUpto, EventsMeant
<1>5. QED
    BY <1>4 DEF EventsMeantUpto

-----------------------------------------------------------------------------
(* A prefix of a document.                                                 *)
LEMMA NumberType ==
    ASSUME NEW bytes \in Seq(Nat)
    PROVE  Number(bytes) \in Nat
<1>1. Len(bytes) \in Nat /\ \A i \in 1..Len(bytes) : bytes[i] \in Nat
    OBVIOUS
<1>2. CASE Len(bytes) = 1
    <2>1. Number(bytes) = bytes[1]
        BY <1>2 DEF Number
    <2>2. QED
        BY <2>1, <1>1, <1>2
<1>3. CASE Len(bytes) = 2
    <2>1. Number(bytes) = 256 * bytes[1] + bytes[2]
        BY <1>3 DEF Number
    <2>2. bytes[1] \in Nat /\ bytes[2] \in Nat
        BY <1>1, <1>3
    <2>3. QED
        BY <2>1, <2>2
<1>4. CASE Len(bytes) = 4
    <2>1. Number(bytes) = 256 * (256 * (256 * bytes[1] + bytes[2]) + bytes[3]) + bytes[4]
        BY <1>4 DEF Number
    <2>2. bytes[1] \in Nat /\ bytes[2] \in Nat /\ bytes[3] \in Nat /\ bytes[4] \in Nat
        BY <1>1, <1>4
    <2>3. \A x, y \in Nat : 256 * x + y \in Nat
        OBVIOUS
    <2>4. 256 * bytes[1] + bytes[2] \in Nat
        BY <2>2, <2>3
    <2>5. 256 * (256 * bytes[1] + bytes[2]) + bytes[3] \in Nat
        BY <2>2, <2>3, <2>4
    <2>6. 256 * (256 * (256 * bytes[1] + bytes[2]) + bytes[3]) + bytes[4] \in Nat
        BY <2>2, <2>3, <2>5, ZenonT(40)
    <2>7. QED
        BY <2>1, <2>6
<1>5. CASE Len(bytes) \notin {1, 2, 4}
    BY <1>5 DEF Number
<1>6. QED
    BY <1>2, <1>3, <1>4, <1>5

\* What is not there counts as 0.
LEMMA NumberOfNothing == Number(<<>>) = 0
<1>1. Len(<<>>) = 0
    OBVIOUS
<1>2. QED
    BY <1>1 DEF Number

\* A reading of a part agrees with one of the whole: unless it failed, it is the
\* same.
Proper(c) == c.at \in Nat /\ c.got \in Seq(Nat)
\* Two cursors agree if the first has failed or both are the same.
Agree(c1, c2) == c1.ok => c1 = c2 /\ Proper(c1)

\* A prefix has the bytes of the whole.
LEMMA SameStretch ==
    ASSUME NEW a \in Seq(Nat), NEW b \in Seq(Nat), NEW from \in Nat, NEW w \in Nat,
           from + w <= Len(a), from + w <= Len(b),
           \A i \in 1..Len(a) : a[i] = b[i]
    PROVE  SubSeq(a, from + 1, from + w) = SubSeq(b, from + 1, from + w)
<1> DEFINE x == SubSeq(a, from + 1, from + w)
           y == SubSeq(b, from + 1, from + w)
<1>1. x \in Seq(Nat) /\ Len(x) = w /\ \A i \in 1..w : x[i] = a[from + i]
    OBVIOUS
<1>2. y \in Seq(Nat) /\ Len(y) = w /\ \A i \in 1..w : y[i] = b[from + i]
    OBVIOUS
<1>3. \A i \in 1..w : x[i] = y[i]
    BY <1>1, <1>2
<1> HIDE DEF x, y
<1>4. x = y
    BY <1>1, <1>2, <1>3
<1>5. QED
    BY <1>4 DEF x, y

\* A cursor that has failed stays so.
LEMMA ReadFails ==
    ASSUME NEW data, NEW c, NEW w, ~c.ok
    PROVE  Read(data, c, w) = Failed(c) /\ ~Failed(c).ok /\ Failed(c).got = <<>>
    BY DEF Read, Failed

LEMMA ReadProper ==
    ASSUME NEW data \in Seq(Nat), NEW c, NEW w \in Nat, c.at \in Nat
    PROVE  Proper(Read(data, c, w))
<1>1. CASE c.ok /\ c.at + w <= Len(data)
    <2>1. SubSeq(data, c.at + 1, c.at + w) \in Seq(Nat)
        BY <1>1
    <2>2. QED
        BY <1>1, <2>1 DEF Read, Proper
<1>2. CASE ~(c.ok /\ c.at + w <= Len(data))
    BY <1>2 DEF Read, Failed, Proper
<1>3. QED
    BY <1>1, <1>2

\* A read of a prefix fails, or gives what a read of the whole gives.
LEMMA ReadAgrees ==
    ASSUME NEW data \in Seq(Nat), NEW k \in 0..Len(data), NEW c1, NEW c2,
           Agree(c1, c2), NEW w1, NEW w2, c1.ok => w1 = w2 /\ w1 \in Nat
    PROVE  Agree(Read(SubSeq(data, 1, k), c1, w1), Read(data, c2, w2))
<1> DEFINE part == SubSeq(data, 1, k)
<1>1. part \in Seq(Nat) /\ Len(part) = k /\ \A i \in 1..k : part[i] = data[i]
    OBVIOUS
<1> HIDE DEF part
<1>2. SUFFICES ASSUME c1.ok, c1.at + w1 <= k
               PROVE  Agree(Read(part, c1, w1), Read(data, c2, w2))
    <2>1. CASE ~c1.ok
        BY <2>1, ReadFails DEF Agree, part
    <2>2. CASE c1.ok /\ ~(c1.at + w1 <= k)
        <3>1. Read(part, c1, w1) = Failed(c1)
            BY <2>2, <1>1 DEF Read
        <3>2. QED
            BY <3>1 DEF Agree, Failed, part
    <2>3. QED
        BY <2>1, <2>2 DEF part
<1>3. c1 = c2 /\ c1.at \in Nat /\ w1 = w2 /\ w1 \in Nat
    BY <1>2 DEF Agree, Proper
<1>4. c1.at + w1 \in Nat /\ c1.at + w1 <= Len(data)
    BY <1>2, <1>3
<1>5. SubSeq(part, c1.at + 1, c1.at + w1) = SubSeq(data, c1.at + 1, c1.at + w1)
    <2>1. c1.at \in Nat /\ w1 \in Nat /\ c1.at + w1 <= Len(part) /\ c1.at + w1 <= Len(data)
        BY <1>1, <1>2, <1>3, <1>4
    <2>2. \A i \in 1..Len(part) : part[i] = data[i]
        BY <1>1
    <2>3. QED
        BY <1>1, <2>1, <2>2, SameStretch
<1>6. Read(part, c1, w1) = Read(data, c2, w2)
    BY <1>1, <1>2, <1>3, <1>4, <1>5 DEF Read
<1>7. Proper(Read(part, c1, w1))
    BY <1>1, <1>3, ReadProper
<1>8. QED
    BY <1>6, <1>7 DEF Agree

FieldTypes == {"u8", "u32", "u64", "id", "string", "value"}

LEMMA ValueWidthType ==
    ASSUME NEW tag
    PROVE  ValueWidth(tag) \in Nat
<1>1. CASE tag \in {Tags.B, Tags.Z}
    BY <1>1 DEF ValueWidth, Tags
<1>2. CASE tag \in {Tags.C, Tags.S}
    BY <1>2 DEF ValueWidth, Tags
<1>3. CASE tag \in {Tags.F, Tags.I}
    BY <1>3 DEF ValueWidth, Tags
<1>4. CASE tag \in {Tags.D, Tags.J}
    BY <1>4 DEF ValueWidth, Tags
<1>5. CASE tag = Tags.V
    BY <1>5 DEF ValueWidth, Tags
<1>6. CASE tag \notin {Tags.B, Tags.Z, Tags.C, Tags.S, Tags.F, Tags.I, Tags.D, Tags.J, Tags.V}
    BY <1>6 DEF ValueWidth, IdWidth
<1>7. QED
    BY <1>1, <1>2, <1>3, <1>4, <1>5, <1>6

\* A number that was read is read alike.
LEMMA NumberAgrees ==
    ASSUME NEW c1, NEW c2, Agree(c1, c2), c1.ok
    PROVE  Number(c1.got) = Number(c2.got) /\ Number(c1.got) \in Nat
    BY NumberType DEF Agree, Proper

\* So does everything that is made of reads.
LEMMA ReadStringAgrees ==
    ASSUME NEW data \in Seq(Nat), NEW k \in 0..Len(data), NEW c1, NEW c2, Agree(c1, c2)
    PROVE  Agree(ReadString(SubSeq(data, 1, k), c1), ReadString(data, c2))
<1> DEFINE part == SubSeq(data, 1, k)
           length1 == Read(part, c1, 4)
           length2 == Read(data, c2, 4)
<1>1. Agree(length1, length2)
    BY ReadAgrees
<1>2. length1.ok => Number(length1.got) = Number(length2.got) /\ Number(length1.got) \in Nat
    BY <1>1, NumberAgrees
<1> HIDE DEF length1, length2
<1> DEFINE text1 == Read(part, length1, Number(length1.got))
           text2 == Read(data, length2, Number(length2.got))
<1>3. Agree(text1, text2)
    BY <1>1, <1>2, ReadAgrees
<1>4. /\ ReadString(part, c1) = IF IsUtf8(text1.got) THEN text1 ELSE Failed(length1)
      /\ ReadString(data, c2) = IF IsUtf8(text2.got) THEN text2 ELSE Failed(length2)
    BY DEF ReadString, length1, length2
<1>5. ~Failed(length1).ok
    BY DEF Failed
<1> HIDE DEF text1, text2
<1>6. Agree(ReadString(part, c1), ReadString(data, c2))
    BY <1>3, <1>4, <1>5 DEF Agree
<1>7. QED
    BY <1>6 DEF part

LEMMA ReadValueAgrees ==
    ASSUME NEW data \in Seq(Nat), NEW k \in 0..Len(data), NEW c1, NEW c2, Agree(c1, c2)
    PROVE  Agree(ReadValue(SubSeq(data, 1, k), c1), ReadValue(data, c2))
<1> DEFINE part == SubSeq(data, 1, k)
           tag1 == Read(part, c1, 1)
           tag2 == Read(data, c2, 1)
           value1 == Read(part, tag1, ValueWidth(Number(tag1.got)))
           value2 == Read(data, tag2, ValueWidth(Number(tag2.got)))
<1>1. Agree(tag1, tag2)
    BY ReadAgrees
<1>2. tag1.ok => /\ ValueWidth(Number(tag1.got)) = ValueWidth(Number(tag2.got))
                 /\ ValueWidth(Number(tag1.got)) \in Nat
    BY <1>1, NumberAgrees, ValueWidthType
<1>3. ~tag1.ok => ~value1.ok
    BY ReadFails
<1>4. Agree(value1, value2)
    <2> HIDE DEF tag1, tag2
    <2>1. QED
        BY <1>1, <1>2, ReadAgrees
<1>5. /\ ReadValue(part, c1) = [value1 EXCEPT !.got = tag1.got \o @]
      /\ ReadValue(data, c2) = [value2 EXCEPT !.got = tag2.got \o @]
    BY DEF ReadValue
<1>6. value1 = [at |-> value1.at, ok |-> value1.ok, got |-> value1.got]
    BY DEF Read, Failed
<1> HIDE DEF value1, value2, tag1, tag2, part
<1>7. CASE value1.ok
    <2>1. tag1 = tag2 /\ value1 = value2
        BY <1>1, <1>3, <1>4, <1>7 DEF Agree
    <2>2. ReadValue(part, c1) = ReadValue(data, c2)
        BY <1>5, <2>1
    <2>3. tag1.got \in Seq(Nat) /\ value1.got \in Seq(Nat) /\ value1.at \in Nat
        BY <1>1, <1>3, <1>4, <1>7 DEF Agree, Proper
    <2>4. Proper(ReadValue(part, c1))
        BY <1>5, <1>6, <2>3 DEF Proper
    <2>5. QED
        BY <2>2, <2>4 DEF Agree, part
<1>8. CASE ~value1.ok
    <2>1. ~ReadValue(part, c1).ok
        BY <1>5, <1>6, <1>8
    <2>2. QED
        BY <2>1 DEF Agree, part
<1>9. QED
    BY <1>7, <1>8

LEMMA ReadFieldAgrees ==
    ASSUME NEW data \in Seq(Nat), NEW k \in 0..Len(data), NEW c1, NEW c2, Agree(c1, c2),
           NEW type \in FieldTypes
    PROVE  Agree(ReadField(SubSeq(data, 1, k), c1, type), ReadField(data, c2, type))
<1> DEFINE part == SubSeq(data, 1, k)
<1>1. \A w \in Nat : Agree(Read(part, c1, w), Read(data, c2, w))
    BY ReadAgrees
<1>2. Agree(ReadString(part, c1), ReadString(data, c2))
    BY ReadStringAgrees
<1>3. Agree(ReadValue(part, c1), ReadValue(data, c2))
    BY ReadValueAgrees
<1> HIDE DEF part
<1>4. CASE type \in {"u8", "u32", "u64", "id"}
    BY <1>1, <1>4 DEF ReadField, IdWidth, part
<1>5. CASE type = "string"
    BY <1>2, <1>5 DEF ReadField, part
<1>6. CASE type = "value"
    BY <1>3, <1>6 DEF ReadField, part
<1>7. QED
    BY <1>4, <1>5, <1>6 DEF FieldTypes

LEMMA ReadFieldFails ==
    ASSUME NEW data, NEW c, ~c.ok, NEW type \in FieldTypes
    PROVE  ~ReadField(data, c, type).ok
<1>1. \A d, w : ~d.ok => ~Read(data, d, w).ok
    BY ReadFails
<1>2. CASE type \in {"u8", "u32", "u64", "id"}
    BY <1>1, <1>2 DEF ReadField
<1>3. CASE type = "string"
    BY <1>1, <1>3 DEF ReadField, ReadString, Failed
<1>4. CASE type = "value"
    <2> DEFINE tag == Read(data, c, 1)
               value == Read(data, tag, ValueWidth(Number(tag.got)))
    <2>1. ~value.ok /\ value = [at |-> value.at, ok |-> value.ok, got |-> value.got]
        BY <1>1 DEF Read, Failed
    <2>2. ReadField(data, c, type) = [value EXCEPT !.got = tag.got \o @]
        BY <1>4 DEF ReadField, ReadValue
    <2> HIDE DEF value
    <2>3. QED
        BY <2>1, <2>2
<1>5. QED
    BY <1>2, <1>3, <1>4 DEF FieldTypes

\* A record that a part of the data holds is the one of the whole.
LEMMA ReadRecordAgrees ==
    ASSUME NEW data \in Seq(Nat), NEW k \in 0..Len(data), NEW c1, NEW c2, Agree(c1, c2),
           NEW layout, Len(layout) \in Nat, DOMAIN layout = 1..Len(layout),
           \A i \in 1..Len(layout) : layout[i][2] \in FieldTypes,
           ReadRecord(SubSeq(data, 1, k), c1, layout).cursor.ok
    PROVE  ReadRecord(SubSeq(data, 1, k), c1, layout) = ReadRecord(data, c2, layout)
<1> DEFINE part == SubSeq(data, 1, k)
           n == Len(layout)
           a == Cursors(part, c1, layout)
           b == Cursors(data, c2, layout)
           T == {i \in 0..n : /\ Agree(a[i], b[i])
                              /\ a[i].ok => \A j \in 0..i : a[j] = b[j]}
<1>1. a[0] = c1 /\ \A i \in 1..n : a[i] = ReadField(part, a[i - 1], layout[i][2])
    BY CursorsLoop, SMTT(30)
<1>2. b[0] = c2 /\ \A i \in 1..n : b[i] = ReadField(data, b[i - 1], layout[i][2])
    BY CursorsLoop
<1> HIDE DEF a, b
<1>3. 0 \in T
    BY <1>1, <1>2 DEF Agree
<1>4. ASSUME NEW i \in 1..n, i - 1 \in T PROVE i \in T
    <2>1. Agree(a[i], b[i])
        BY <1>1, <1>2, <1>4, ReadFieldAgrees, SMTT(30)
    <2>2. a[i].ok => a[i - 1].ok
        BY <1>1, <1>4, ReadFieldFails
    <2>3. a[i].ok => \A j \in 0..(i - 1) : a[j] = b[j]
        BY <2>2, <1>4
    <2>4. a[i].ok => a[i] = b[i]
        BY <2>1 DEF Agree
    <2>5. QED
        BY <2>1, <2>3, <2>4
<1>5. n \in T
    <2> HIDE DEF T
    <2>1. 0..n \subseteq T
        BY <1>3, <1>4, UpTo
    <2>2. QED
        BY <2>1
<1>6. \A j \in 0..n : a[j] = b[j]
    BY <1>5 DEF ReadRecord, a
<1>7. [i \in DOMAIN layout |-> a[i].got] = [i \in DOMAIN layout |-> b[i].got]
    BY <1>6
<1> DEFINE names == [i \in DOMAIN layout |-> layout[i][1]]
<1>8. /\ ReadRecord(part, c1, layout)
            = [cursor |-> a[n], fields |-> Labelled(names, [i \in DOMAIN layout |-> a[i].got])]
      /\ ReadRecord(data, c2, layout)
            = [cursor |-> b[n], fields |-> Labelled(names, [i \in DOMAIN layout |-> b[i].got])]
    BY DEF ReadRecord, a, b
<1>9. a[n] = b[n]
    BY <1>6
<1> HIDE DEF names
<1>10. QED
    BY <1>7, <1>8, <1>9, Zenon

\* A packet is decoded when it is all there, and not before.
LEMMA ReadPacketAgrees ==
    ASSUME NEW data \in Seq(Nat), NEW k \in 0..Len(data), ReadPacket(SubSeq(data, 1, k)).ok
    PROVE  ReadPacket(SubSeq(data, 1, k)) = ReadPacket(data)
<1> DEFINE part == SubSeq(data, 1, k)
           Width(length) == IF Number(length.got) > 11 THEN Number(length.got) - 11 ELSE 0
           length1 == Read(part, Start, 4)
           length2 == Read(data, Start, 4)
           id1 == Read(part, length1, 4)
           id2 == Read(data, length2, 4)
           flags1 == Read(part, id1, 1)
           flags2 == Read(data, id2, 1)
           code1 == Read(part, flags1, 2)
           code2 == Read(data, flags2, 2)
           body1 == Read(part, code1, Width(length1))
           body2 == Read(data, code2, Width(length2))
<1>1. Agree(Start, Start)
    BY DEF Agree, Proper, Start
<1>2. Agree(length1, length2)
    BY <1>1, ReadAgrees
<1>3. Agree(id1, id2)
    <2> HIDE DEF length1, length2
    <2>1. QED
        BY <1>2, ReadAgrees
<1>4. Agree(flags1, flags2)
    <2> HIDE DEF id1, id2
    <2>1. QED
        BY <1>3, ReadAgrees
<1>5. Agree(code1, code2)
    <2> HIDE DEF flags1, flags2
    <2>1. QED
        BY <1>4, ReadAgrees
<1>6. body1.ok
    BY DEF ReadPacket
<1>7. body1.ok => code1.ok
    BY ReadFails
<1>8. code1.ok => flags1.ok
    BY ReadFails
<1>9. flags1.ok => id1.ok
    BY ReadFails
<1>10. id1.ok => length1.ok
    BY ReadFails
<1>11. length1 = length2 /\ id1 = id2 /\ flags1 = flags2 /\ code1 = code2
    <2> HIDE DEF length1, length2, id1, id2, flags1, flags2, code1, code2, body1
    <2>1. QED
        BY <1>2, <1>3, <1>4, <1>5, <1>6, <1>7, <1>8, <1>9, <1>10 DEF Agree
<1>12. Width(length1) \in Nat
    <2>1. Number(length1.got) \in Nat
        <3> HIDE DEF length1, length2, id1, flags1, code1, body1
        <3>1. QED
            BY <1>2, <1>6, <1>7, <1>8, <1>9, <1>10, NumberAgrees
    <2> HIDE DEF length1
    <2>2. QED
        BY <2>1
<1>13. Agree(body1, body2)
    <2> HIDE DEF length1, length2, code1, code2, Width
    <2>1. QED
        BY <1>5, <1>11, <1>12, ReadAgrees
<1>14. body1 = body2
    BY <1>6, <1>13 DEF Agree
<1>15. /\ ReadPacket(part) = [ok |-> body1.ok, isReply |-> Number(flags1.got) >= 128,
                             id |-> id1.got, code |-> code1.got, data |-> body1.got]
       /\ ReadPacket(data) = [ok |-> body2.ok, isReply |-> Number(flags2.got) >= 128,
                             id |-> id2.got, code |-> code2.got, data |-> body2.got]
    BY DEF ReadPacket
<1> HIDE DEF length1, length2, id1, id2, flags1, flags2, code1, code2, body1, body2
<1>16. QED
    BY <1>11, <1>14, <1>15, Zenon

\* What is skipped unread need not be there; the next read sees to it.
LEMMA SkipAgrees ==
    ASSUME NEW c1, NEW c2, Agree(c1, c2), NEW n \in Nat
    PROVE  Agree(Skip(c1, n), Skip(c2, n)) /\ (~c1.ok => ~Skip(c1, n).ok)
    BY DEF Agree, Proper, Skip

LEMMA SkipAttributeAgrees ==
    ASSUME NEW data \in Seq(Nat), NEW k \in 0..Len(data), NEW c1, NEW c2, Agree(c1, c2)
    PROVE  Agree(SkipAttribute(SubSeq(data, 1, k), c1), SkipAttribute(data, c2))
<1> DEFINE part == SubSeq(data, 1, k)
           length1 == Read(part, Skip(c1, 2), 4)
           length2 == Read(data, Skip(c2, 2), 4)
<1>1. Agree(length1, length2)
    BY SkipAgrees, ReadAgrees
<1> HIDE DEF length1, length2
<1>2. length1.ok => Number(length1.got) = Number(length2.got) /\ Number(length1.got) \in Nat
    BY <1>1, NumberAgrees
<1>3. Agree(Read(part, length1, Number(length1.got)), Read(data, length2, Number(length2.got)))
    BY <1>1, <1>2, ReadAgrees
<1>4. QED
    BY <1>3 DEF SkipAttribute, length1, length2

LEMMA AttributesAgree ==
    ASSUME NEW data \in Seq(Nat), NEW k \in 0..Len(data), NEW c1, NEW c2, Agree(c1, c2),
           NEW n \in Nat
    PROVE  Agree(Attributes(SubSeq(data, 1, k), c1, n)[n], Attributes(data, c2, n)[n])
<1> DEFINE part == SubSeq(data, 1, k)
           a == Attributes(part, c1, n)
           b == Attributes(data, c2, n)
           T == {i \in 0..n : Agree(a[i], b[i])}
<1>1. a[0] = c1 /\ \A i \in 1..n : a[i] = SkipAttribute(part, a[i - 1])
    BY AttributesLoop
<1>2. b[0] = c2 /\ \A i \in 1..n : b[i] = SkipAttribute(data, b[i - 1])
    BY AttributesLoop
<1> HIDE DEF a, b
<1>3. 0 \in T
    BY <1>1, <1>2
<1>4. ASSUME NEW i \in 1..n, i - 1 \in T PROVE i \in T
    BY <1>1, <1>2, <1>4, SkipAttributeAgrees
<1> HIDE DEF T
<1>5. 0..n \subseteq T
    BY <1>3, <1>4, UpTo
<1>6. QED
    BY <1>5 DEF T, a, b

\* What was not read counts nothing.
LEMMA NothingCounted ==
    ASSUME NEW data, NEW c, NEW w, ~Read(data, c, w).ok
    PROVE  Number(Read(data, c, w).got) = 0
<1>1. Read(data, c, w) = Failed(c)
    BY DEF Read
<1>2. QED
    BY <1>1, NumberOfNothing DEF Failed

LEMMA SkipAttributesAgree ==
    ASSUME NEW data \in Seq(Nat), NEW k \in 0..Len(data), NEW c1, NEW c2, Agree(c1, c2)
    PROVE  Agree(SkipAttributes(SubSeq(data, 1, k), c1), SkipAttributes(data, c2))
<1> DEFINE part == SubSeq(data, 1, k)
           count1 == Read(part, c1, 2)
           count2 == Read(data, c2, 2)
           n1 == Number(count1.got)
           n2 == Number(count2.got)
<1>1. Agree(count1, count2)
    BY ReadAgrees
<1>2. /\ SkipAttributes(part, c1) = Attributes(part, count1, n1)[n1]
      /\ SkipAttributes(data, c2) = Attributes(data, count2, n2)[n2]
    BY DEF SkipAttributes
<1>3. ~count1.ok => n1 = 0
    BY NothingCounted
<1> HIDE DEF count1, count2
<1>4. CASE count1.ok
    <2>1. n1 = n2 /\ n1 \in Nat
        BY <1>1, <1>4, NumberAgrees
    <2>2. QED
        BY <1>1, <1>2, <2>1, AttributesAgree
<1>5. CASE ~count1.ok
    <2>1. SkipAttributes(part, c1) = Attributes(part, count1, 0)[0]
        BY <1>2, <1>3, <1>5
    <2>2. Attributes(part, count1, 0)[0] = count1
        BY AttributesLoop
    <2>3. QED
        BY <1>5, <2>1, <2>2 DEF Agree
<1>6. QED
    BY <1>4, <1>5

LEMMA MembersAgree ==
    ASSUME NEW data \in Seq(Nat), NEW k \in 0..Len(data), NEW c1, NEW c2, Agree(c1, c2),
           NEW n \in Nat
    PROVE  Agree(Members(SubSeq(data, 1, k), c1, n)[n], Members(data, c2, n)[n])
<1> DEFINE part == SubSeq(data, 1, k)
           a == Members(part, c1, n)
           b == Members(data, c2, n)
           T == {i \in 0..n : Agree(a[i], b[i])}
<1>1. a[0] = c1 /\ \A i \in 1..n : a[i] = SkipAttributes(part, Skip(a[i - 1], 6))
    BY MembersLoop
<1>2. b[0] = c2 /\ \A i \in 1..n : b[i] = SkipAttributes(data, Skip(b[i - 1], 6))
    BY MembersLoop
<1> HIDE DEF a, b
<1>3. 0 \in T
    BY <1>1, <1>2
<1>4. ASSUME NEW i \in 1..n, i - 1 \in T PROVE i \in T
    <2>1. Agree(Skip(a[i - 1], 6), Skip(b[i - 1], 6))
        BY <1>4, SkipAgrees
    <2>2. QED
        BY <1>1, <1>2, <2>1, SkipAttributesAgree
<1> HIDE DEF T
<1>5. 0..n \subseteq T
    BY <1>3, <1>4, UpTo
<1>6. QED
    BY <1>5 DEF T, a, b

LEMMA SkipMembersAgree ==
    ASSUME NEW data \in Seq(Nat), NEW k \in 0..Len(data), NEW c1, NEW c2, Agree(c1, c2)
    PROVE  Agree(SkipMembers(SubSeq(data, 1, k), c1), SkipMembers(data, c2))
<1> DEFINE part == SubSeq(data, 1, k)
           count1 == Read(part, c1, 2)
           count2 == Read(data, c2, 2)
           n1 == Number(count1.got)
           n2 == Number(count2.got)
<1>1. Agree(count1, count2)
    BY ReadAgrees
<1>2. /\ SkipMembers(part, c1) = Members(part, count1, n1)[n1]
      /\ SkipMembers(data, c2) = Members(data, count2, n2)[n2]
    BY DEF SkipMembers
<1>3. ~count1.ok => n1 = 0
    BY NothingCounted
<1> HIDE DEF count1, count2
<1>4. CASE count1.ok
    <2>1. n1 = n2 /\ n1 \in Nat
        BY <1>1, <1>4, NumberAgrees
    <2>2. QED
        BY <1>1, <1>2, <2>1, MembersAgree
<1>5. CASE ~count1.ok
    <2>1. SkipMembers(part, c1) = Members(part, count1, 0)[0]
        BY <1>2, <1>3, <1>5
    <2>2. Members(part, count1, 0)[0] = count1
        BY MembersLoop
    <2>3. QED
        BY <1>5, <2>1, <2>2 DEF Agree
<1>6. QED
    BY <1>4, <1>5

\* The same for the constant pool.
AgreePool(p1, p2) == p1.cursor.ok => p1 = p2 /\ Proper(p1.cursor)

LEMMA ReadEntryAgrees ==
    ASSUME NEW data \in Seq(Nat), NEW k \in 0..Len(data), NEW p1, NEW p2,
           p1.cursor.ok, AgreePool(p1, p2)
    PROVE  AgreePool(ReadEntry(SubSeq(data, 1, k), p1), ReadEntry(data, p2))
<1> DEFINE part == SubSeq(data, 1, k)
           tag1 == Read(part, p1.cursor, 1)
           tag2 == Read(data, p2.cursor, 1)
           t1 == Number(tag1.got)
           t2 == Number(tag2.got)
           short1 == Read(part, tag1, 2)
           short2 == Read(data, tag2, 2)
           text1 == Read(part, short1, Number(short1.got))
           text2 == Read(data, short2, Number(short2.got))
           e1 == ReadEntry(part, p1)
           e2 == ReadEntry(data, p2)
<1>1. p1 = p2 /\ Agree(p1.cursor, p2.cursor)
    BY DEF Agree, AgreePool
<1>2. Agree(tag1, tag2)
    BY <1>1, ReadAgrees
<1>3. Agree(short1, short2)
    <2> HIDE DEF tag1, tag2
    <2>1. QED
        BY <1>2, ReadAgrees
<1>4. short1.ok => Number(short1.got) = Number(short2.got) /\ Number(short1.got) \in Nat
    <2> HIDE DEF short1, short2
    <2>1. QED
        BY <1>3, NumberAgrees
<1>5. Agree(text1, text2)
    <2> HIDE DEF short1, short2
    <2>1. QED
        BY <1>3, <1>4, ReadAgrees
<1>6. tag1.ok => t1 = t2
    <2> HIDE DEF tag1, tag2
    <2>1. QED
        BY <1>2, NumberAgrees
<1>7. (text1.ok => short1.ok) /\ (short1.ok => tag1.ok)
    BY ReadFails
<1>8. ~tag1.ok => t1 = 0
    BY NothingCounted
<1>9. /\ e1 = [index  |-> p1.index + Slots(t1),
               cursor |-> CASE t1 = 1                 -> text1
                            [] t1 = 7                 -> short1
                            [] t1 \in KnownTags \ {7} -> Skip(tag1, EntryWidth(t1))
                            [] OTHER                  -> Failed(tag1),
               utf8   |-> IF t1 = 1 THEN Insert(p1.utf8, p1.index, Lossy(text1.got))
                          ELSE p1.utf8,
               class  |-> IF t1 = 7 THEN Insert(p1.class, p1.index, Number(short1.got))
                          ELSE p1.class]
      /\ e2 = [index  |-> p2.index + Slots(t2),
               cursor |-> CASE t2 = 1                 -> text2
                            [] t2 = 7                 -> short2
                            [] t2 \in KnownTags \ {7} -> Skip(tag2, EntryWidth(t2))
                            [] OTHER                  -> Failed(tag2),
               utf8   |-> IF t2 = 1 THEN Insert(p2.utf8, p2.index, Lossy(text2.got))
                          ELSE p2.utf8,
               class  |-> IF t2 = 7 THEN Insert(p2.class, p2.index, Number(short2.got))
                          ELSE p2.class]
    BY DEF ReadEntry
<1> HIDE DEF tag1, tag2, t1, t2, short1, short2, text1, text2, e1, e2, part
<1>10. SUFFICES ASSUME e1.cursor.ok PROVE e1 = e2 /\ Proper(e1.cursor)
    BY DEF AgreePool, e1, e2, part
<1>11. /\ t1 = 1 => e1.cursor = text1
       /\ t1 = 7 => e1.cursor = short1
       /\ t1 \in KnownTags \ {7} => e1.cursor = Skip(tag1, EntryWidth(t1))
       /\ t1 \notin {1} \cup KnownTags => e1.cursor = Failed(tag1)
    <2>1. 1 \notin KnownTags /\ 7 \in KnownTags
        BY DEF KnownTags
    <2>2. QED
        BY <1>9, <2>1, Zenon
<1>12. t1 \in {1} \cup KnownTags
    BY <1>10, <1>11 DEF Failed
<1>13. tag1.ok
    <2>1. 0 \notin {1} \cup KnownTags
        BY DEF KnownTags
    <2>2. QED
        BY <1>8, <1>12, <2>1
<1>14. tag1 = tag2 /\ t1 = t2 /\ p1 = p2
    BY <1>1, <1>2, <1>6, <1>13 DEF Agree
<1>15. CASE t1 = 1
    <2>1. text1.ok /\ short1.ok
        BY <1>7, <1>10, <1>11, <1>15
    <2>2. text1 = text2 /\ short1 = short2 /\ Proper(text1)
        BY <1>3, <1>5, <2>1 DEF Agree
    <2>3. e1 = e2
        BY <1>9, <1>14, <2>2, Zenon
    <2>4. QED
        BY <1>11, <1>15, <2>2, <2>3
<1>16. CASE t1 = 7
    <2>1. short1.ok
        BY <1>10, <1>11, <1>16
    <2>2. short1 = short2 /\ Proper(short1)
        BY <1>3, <2>1 DEF Agree
    <2>3. e1.cursor = e2.cursor
        <3>1. e2.cursor = short2
            BY <1>9, <1>14, <1>16
        <3>2. QED
            BY <3>1, <2>2, <1>11, <1>16
    <2>4. e1.utf8 = e2.utf8 /\ e1.class = e2.class /\ e1.index = e2.index
        BY <1>9, <1>14, <1>16, <2>2
    <2>5. e1 = e2
        BY <1>9, <2>3, <2>4
    <2>6. QED
        BY <1>11, <1>16, <2>2, <2>5
<1>17. CASE t1 \in KnownTags \ {7}
    <2>1. t1 # 1 /\ t1 # 7
        BY <1>17 DEF KnownTags
    <2>2. EntryWidth(t1) \in Nat
        BY <1>17 DEF KnownTags, EntryWidth
    <2>3. Proper(Skip(tag1, EntryWidth(t1)))
        BY <1>2, <1>13, <2>2 DEF Agree, Proper, Skip
    <2>4. e2.cursor = Skip(tag2, EntryWidth(t2))
        BY <1>9, <1>14, <1>17, <2>1
    <2>5. e1.cursor = e2.cursor
        BY <2>4, <1>11, <1>14, <1>17
    <2>6. e1.utf8 = e2.utf8 /\ e1.class = e2.class /\ e1.index = e2.index
        BY <1>9, <1>14, <2>1
    <2>7. e1 = e2
        BY <1>9, <2>5, <2>6
    <2>8. QED
        BY <1>11, <1>17, <2>3, <2>7
<1>18. QED
    BY <1>12, <1>15, <1>16, <1>17

LEMMA PoolsAgree ==
    ASSUME NEW data \in Seq(Nat), NEW k \in 0..Len(data), NEW c1, NEW c2, Agree(c1, c2),
           NEW n \in Nat
    PROVE  AgreePool(Pools(SubSeq(data, 1, k), c1, n)[n], Pools(data, c2, n)[n])
<1> DEFINE part == SubSeq(data, 1, k)
           a == Pools(part, c1, n)
           b == Pools(data, c2, n)
           T == {i \in 0..n : AgreePool(a[i], b[i])}
<1>1. a[0] = EmptyPool(c1) /\ \A i \in 1..n : a[i] = PoolTurn(part, a[i - 1], n)
    BY PoolsLoop
<1>2. b[0] = EmptyPool(c2) /\ \A i \in 1..n : b[i] = PoolTurn(data, b[i - 1], n)
    BY PoolsLoop
<1> HIDE DEF a, b
<1>3. 0 \in T
    BY <1>1, <1>2 DEF AgreePool, Agree, EmptyPool
<1>4. ASSUME NEW i \in 1..n, i - 1 \in T PROVE i \in T
    <2> DEFINE p1 == a[i - 1]
               p2 == b[i - 1]
    <2>1. a[i] = PoolTurn(part, p1, n) /\ b[i] = PoolTurn(data, p2, n) /\ AgreePool(p1, p2)
        BY <1>1, <1>2, <1>4
    <2> HIDE DEF p1, p2, part
    <2>2. CASE p1.cursor.ok /\ p1.index < n
        <3>1. p1 = p2
            BY <2>1, <2>2 DEF AgreePool
        <3>2. a[i] = ReadEntry(part, p1) /\ b[i] = ReadEntry(data, p2)
            BY <2>1, <2>2, <3>1 DEF PoolTurn
        <3>3. AgreePool(ReadEntry(part, p1), ReadEntry(data, p2))
            BY <2>1, <2>2, ReadEntryAgrees DEF part
        <3>4. QED
            BY <3>2, <3>3
    <2>3. CASE p1.cursor.ok /\ ~(p1.index < n)
        <3>1. p1 = p2
            BY <2>1, <2>3 DEF AgreePool
        <3>2. a[i] = p1 /\ b[i] = p2
            BY <2>1, <2>3, <3>1 DEF PoolTurn
        <3>3. QED
            BY <2>1, <3>2
    <2>4. CASE ~p1.cursor.ok
        <3>1. a[i] = p1
            BY <2>1, <2>4 DEF PoolTurn
        <3>2. QED
            BY <2>4, <3>1 DEF AgreePool
    <2>5. QED
        BY <2>2, <2>3, <2>4
<1> HIDE DEF T
<1>5. 0..n \subseteq T
    BY <1>3, <1>4, UpTo
<1>6. QED
    BY <1>5 DEF T, a, b

LEMMA ReadPoolAgrees ==
    ASSUME NEW data \in Seq(Nat), NEW k \in 0..Len(data), NEW c1, NEW c2, Agree(c1, c2)
    PROVE  AgreePool(ReadPool(SubSeq(data, 1, k), c1), ReadPool(data, c2))
<1> DEFINE part == SubSeq(data, 1, k)
           count1 == Read(part, c1, 2)
           count2 == Read(data, c2, 2)
           n1 == Number(count1.got)
           n2 == Number(count2.got)
<1>1. Agree(count1, count2)
    BY ReadAgrees
<1>2. /\ ReadPool(part, c1) = Pools(part, count1, n1)[n1]
      /\ ReadPool(data, c2) = Pools(data, count2, n2)[n2]
    BY DEF ReadPool
<1>3. ~count1.ok => n1 = 0
    BY NothingCounted
<1> HIDE DEF count1, count2
<1>4. CASE count1.ok
    <2>1. n1 = n2 /\ n1 \in Nat
        BY <1>1, <1>4, NumberAgrees
    <2>2. QED
        BY <1>1, <1>2, <2>1, PoolsAgree
<1>5. CASE ~count1.ok
    <2>1. ReadPool(part, c1) = Pools(part, count1, 0)[0]
        BY <1>2, <1>3, <1>5
    <2>2. Pools(part, count1, 0)[0] = EmptyPool(count1)
        BY PoolsLoop
    <2>3. QED
        BY <1>5, <2>1, <2>2 DEF AgreePool, EmptyPool
<1>6. QED
    BY <1>4, <1>5

\* The same for the search for the file name.
AgreeSearch(s1, s2) == s1.cursor.ok => s1 = s2 /\ Proper(s1.cursor)

LEMMA LookAgrees ==
    ASSUME NEW data \in Seq(Nat), NEW k \in 0..Len(data), NEW s1, NEW s2, NEW utf8,
           AgreeSearch(s1, s2)
    PROVE  AgreeSearch(Look(SubSeq(data, 1, k), utf8, s1), Look(data, utf8, s2))
<1> DEFINE part == SubSeq(data, 1, k)
           name1 == Read(part, s1.cursor, 2)
           name2 == Read(data, s2.cursor, 2)
           length1 == Read(part, name1, 4)
           length2 == Read(data, name2, 4)
           index1 == Read(part, length1, 2)
           index2 == Read(data, length2, 2)
           is1 == /\ Number(name1.got) \in DOMAIN utf8
                  /\ utf8[Number(name1.got)] = SourceFile
           is2 == /\ Number(name2.got) \in DOMAIN utf8
                  /\ utf8[Number(name2.got)] = SourceFile
           found1 == [done |-> TRUE, cursor |-> index1,
                      source |-> IF Number(index1.got) \in DOMAIN utf8
                                 THEN utf8[Number(index1.got)] ELSE NoSource]
           found2 == [done |-> TRUE, cursor |-> index2,
                      source |-> IF Number(index2.got) \in DOMAIN utf8
                                 THEN utf8[Number(index2.got)] ELSE NoSource]
           passed1 == [done |-> FALSE, cursor |-> Skip(length1, Number(length1.got)),
                       source |-> NoSource]
           passed2 == [done |-> FALSE, cursor |-> Skip(length2, Number(length2.got)),
                       source |-> NoSource]
           l1 == Look(part, utf8, s1)
           l2 == Look(data, utf8, s2)
<1>1. /\ l1 = IF s1.done \/ ~s1.cursor.ok THEN s1
              ELSE IF length1.ok /\ is1 THEN found1 ELSE passed1
      /\ l2 = IF s2.done \/ ~s2.cursor.ok THEN s2
              ELSE IF length2.ok /\ is2 THEN found2 ELSE passed2
    BY DEF Look
<1>2. ~s1.cursor.ok => l1 = s1
    BY <1>1
<1>3. SUFFICES ASSUME s1.cursor.ok PROVE AgreeSearch(l1, l2)
    <2> HIDE DEF l1, l2
    <2>1. ~s1.cursor.ok => AgreeSearch(l1, l2)
        BY <1>2 DEF AgreeSearch
    <2>2. QED
        BY <2>1 DEF l1, l2
<1>4. s1 = s2 /\ Agree(s1.cursor, s2.cursor)
    BY <1>3 DEF Agree, AgreeSearch
<1>5. Agree(name1, name2)
    BY <1>4, ReadAgrees
<1>6. Agree(length1, length2)
    <2> HIDE DEF name1, name2
    <2>1. QED
        BY <1>5, ReadAgrees
<1>7. Agree(index1, index2)
    <2> HIDE DEF length1, length2
    <2>1. QED
        BY <1>6, ReadAgrees
<1>8. (index1.ok => length1.ok) /\ (length1.ok => name1.ok)
    BY ReadFails
<1>9. length1.ok => Number(length1.got) \in Nat
    <2> HIDE DEF length1, length2
    <2>1. QED
        BY <1>6, NumberAgrees
<1> HIDE DEF name1, name2, length1, length2, index1, index2, l1, l2, part
<1>10. CASE s1.done
    <2>1. l1 = s1 /\ l2 = s2
        BY <1>1, <1>4, <1>10
    <2>2. QED
        BY <2>1, <1>4 DEF AgreeSearch, Agree
<1>11. CASE ~s1.done /\ length1.ok
    <2>1. length1 = length2 /\ name1 = name2 /\ Proper(length1)
        BY <1>5, <1>6, <1>8, <1>11 DEF Agree
    <2>2. is1 = is2
        BY <2>1
    <2>3. l1 = (IF is1 THEN found1 ELSE passed1) /\ l2 = (IF is2 THEN found2 ELSE passed2)
        <3> HIDE DEF is1, is2, found1, found2, passed1, passed2
        <3>1. l1 = IF is1 THEN found1 ELSE passed1
            BY <1>1, <1>3, <1>11
        <3>2. l2 = IF is2 THEN found2 ELSE passed2
            BY <1>1, <1>3, <1>4, <1>11, <2>1
        <3>3. QED
            BY <3>1, <3>2
    <2>4. CASE is1
        <3>1. l1 = found1 /\ l2 = found2
            <4> HIDE DEF is1, is2, found1, found2, passed1, passed2
            <4>1. QED
                BY <2>2, <2>3, <2>4
        <3>2. SUFFICES ASSUME index1.ok PROVE l1 = l2 /\ Proper(l1.cursor)
            <4>1. l1.cursor = index1
                BY <3>1
            <4>2. QED
                BY <4>1 DEF AgreeSearch
        <3>3. index1 = index2 /\ Proper(index1)
            BY <1>7, <3>2 DEF Agree
        <3>4. found1 = found2
            BY <3>3, Zenon
        <3>5. QED
            BY <3>1, <3>3, <3>4
    <2>5. CASE ~is1
        <3>1. l1 = passed1 /\ l2 = passed2
            <4> HIDE DEF is1, is2, found1, found2, passed1, passed2
            <4>1. QED
                BY <2>2, <2>3, <2>5
        <3>2. passed1 = passed2
            BY <2>1, Zenon
        <3>3. Proper(Skip(length1, Number(length1.got)))
            BY <1>9, <1>11, <2>1 DEF Skip, Proper
        <3>4. passed1.cursor = Skip(length1, Number(length1.got))
            OBVIOUS
        <3> HIDE DEF passed1, passed2
        <3>5. QED
            BY <3>1, <3>2, <3>3, <3>4 DEF AgreeSearch
    <2>6. QED
        BY <2>4, <2>5
<1>12. CASE ~s1.done /\ ~length1.ok
    <2>1. l1 = passed1
        <3> HIDE DEF is1, is2, found1, found2, passed1, passed2
        <3>1. QED
            BY <1>1, <1>3, <1>12
    <2>2. passed1.cursor = Skip(length1, Number(length1.got))
        OBVIOUS
    <2>3. ~Skip(length1, Number(length1.got)).ok
        BY <1>12 DEF Skip
    <2> HIDE DEF passed1
    <2>4. QED
        BY <2>1, <2>2, <2>3 DEF AgreeSearch
<1>13. QED
    BY <1>10, <1>11, <1>12

LEMMA FindSourceFileAgrees ==
    ASSUME NEW data \in Seq(Nat), NEW k \in 0..Len(data), NEW c1, NEW c2, Agree(c1, c2),
           NEW utf8
    PROVE  AgreeSearch(FindSourceFile(SubSeq(data, 1, k), c1, utf8),
                       FindSourceFile(data, c2, utf8))
<1> DEFINE part == SubSeq(data, 1, k)
           count1 == Read(part, c1, 2)
           count2 == Read(data, c2, 2)
           n == Number(count1.got)
           a == Searches(part, count1, utf8, n)
           b == Searches(data, count2, utf8, n)
           T == {i \in 0..n : AgreeSearch(a[i], b[i])}
<1>1. Agree(count1, count2)
    BY ReadAgrees
<1>2. ~count1.ok => n = 0
    BY NothingCounted
<1>3. n \in Nat
    <2> HIDE DEF count1, count2
    <2>1. count1.ok => n \in Nat
        BY <1>1, NumberAgrees
    <2>2. QED
        BY <2>1, <1>2
<1>4. FindSourceFile(part, c1, utf8) = a[n]
    BY DEF FindSourceFile
<1>5. count1.ok => FindSourceFile(data, c2, utf8) = b[n]
    <2>1. FindSourceFile(data, c2, utf8)
             = Searches(data, count2, utf8, Number(count2.got))[Number(count2.got)]
        BY DEF FindSourceFile
    <2> HIDE DEF count1, count2
    <2>2. count1.ok => n = Number(count2.got)
        BY <1>1, NumberAgrees
    <2>3. QED
        BY <2>1, <2>2
<1> HIDE DEF n, count1, count2
<1>6. a[0] = NewSearch(count1) /\ \A i \in 1..n : a[i] = Look(part, utf8, a[i - 1])
    BY <1>3, SearchesLoop
<1>7. b[0] = NewSearch(count2) /\ \A i \in 1..n : b[i] = Look(data, utf8, b[i - 1])
    BY <1>3, SearchesLoop
<1> HIDE DEF a, b
<1>8. 0 \in T
    <2>1. NewSearch(count1).cursor = count1
        BY DEF NewSearch
    <2>2. count1.ok => NewSearch(count1) = NewSearch(count2)
        BY <1>1 DEF Agree
    <2>3. AgreeSearch(a[0], b[0])
        BY <1>1, <1>6, <1>7, <2>1, <2>2 DEF AgreeSearch, Agree
    <2>4. QED
        BY <1>3, <2>3
<1>9. ASSUME NEW i \in 1..n, i - 1 \in T PROVE i \in T
    BY <1>3, <1>6, <1>7, <1>9, LookAgrees
<1>10. AgreeSearch(a[n], b[n])
    <2> HIDE DEF T
    <2>1. 0..n \subseteq T
        BY <1>3, <1>8, <1>9, UpTo
    <2>2. QED
        BY <1>3, <2>1 DEF T
<1>11. CASE count1.ok
    BY <1>4, <1>5, <1>10, <1>11
<1>12. CASE ~count1.ok
    <2>1. a[n] = NewSearch(count1)
        BY <1>2, <1>6, <1>12
    <2>2. QED
        BY <1>4, <1>12, <2>1 DEF AgreeSearch, NewSearch
<1>13. QED
    BY <1>11, <1>12

LEMMA SkipMembersFails ==
    ASSUME NEW data, NEW c, ~c.ok
    PROVE  ~SkipMembers(data, c).ok
<1> DEFINE count == Read(data, c, 2)
<1>1. ~count.ok
    BY ReadFails
<1>2. Number(count.got) = 0
    BY <1>1, NothingCounted
<1>3. SkipMembers(data, c) = Members(data, count, Number(count.got))[Number(count.got)]
    BY DEF SkipMembers
<1> HIDE DEF count
<1>4. Members(data, count, 0)[0] = count
    BY MembersLoop
<1>5. QED
    BY <1>1, <1>2, <1>3, <1>4

LEMMA FindSourceFileFails ==
    ASSUME NEW data, NEW c, NEW utf8, ~c.ok
    PROVE  ~FindSourceFile(data, c, utf8).cursor.ok
<1> DEFINE count == Read(data, c, 2)
<1>1. ~count.ok
    BY ReadFails
<1>2. Number(count.got) = 0
    BY <1>1, NothingCounted
<1>3. FindSourceFile(data, c, utf8)
         = Searches(data, count, utf8, Number(count.got))[Number(count.got)]
    BY DEF FindSourceFile
<1> HIDE DEF count
<1>4. Searches(data, count, utf8, 0)[0] = NewSearch(count)
    BY SearchesLoop
<1>5. QED
    BY <1>1, <1>2, <1>3, <1>4 DEF NewSearch

LEMMA ReadPoolFails ==
    ASSUME NEW data, NEW c, ~c.ok
    PROVE  ~ReadPool(data, c).cursor.ok
<1> DEFINE count == Read(data, c, 2)
<1>1. ~count.ok
    BY ReadFails
<1>2. Number(count.got) = 0
    BY <1>1, NothingCounted
<1>3. ReadPool(data, c) = Pools(data, count, Number(count.got))[Number(count.got)]
    BY DEF ReadPool
<1> HIDE DEF count
<1>4. Pools(data, count, 0)[0] = EmptyPool(count)
    BY PoolsLoop
<1>5. QED
    BY <1>1, <1>2, <1>3, <1>4 DEF EmptyPool

\* A class file of which a part is there gives what the whole one gives, or
\* nothing, whatever its bytes are: most of it is skipped without a look at
\* whether it is there (source_map.rs, parse_class_info).
THEOREM ParseClassInfoAgrees ==
    ASSUME NEW data \in Seq(Nat), NEW k \in 0..Len(data),
           ParseClassInfo(SubSeq(data, 1, k)).ok
    PROVE  ParseClassInfo(SubSeq(data, 1, k)) = ParseClassInfo(data)
<1> DEFINE part == SubSeq(data, 1, k)
           magic1 == Read(part, Start, 4)
           magic2 == Read(data, Start, 4)
           pool1 == ReadPool(part, Skip(magic1, 4))
           pool2 == ReadPool(data, Skip(magic2, 4))
           this1 == Read(part, Skip(pool1.cursor, 2), 2)
           this2 == Read(data, Skip(pool2.cursor, 2), 2)
           interfaces1 == Read(part, Skip(this1, 2), 2)
           interfaces2 == Read(data, Skip(this2, 2), 2)
           fields1 == SkipMembers(part, Skip(interfaces1, 2 * Number(interfaces1.got)))
           fields2 == SkipMembers(data, Skip(interfaces2, 2 * Number(interfaces2.got)))
           methods1 == SkipMembers(part, fields1)
           methods2 == SkipMembers(data, fields2)
           found1 == FindSourceFile(part, methods1, pool1.utf8)
           found2 == FindSourceFile(data, methods2, pool2.utf8)
           Named(pool, this) == /\ Number(this.got) \in DOMAIN pool.class
                                /\ pool.class[Number(this.got)] \in DOMAIN pool.utf8
           Info(magic, pool, this, found) ==
               IF magic.got # Magic \/ ~this.ok \/ ~Named(pool, this) \/ ~found.cursor.ok
               THEN [ok |-> FALSE, value |-> <<>>]
               ELSE [ok |-> TRUE, value |-> [name |-> pool.utf8[pool.class[Number(this.got)]],
                                             source |-> found.source]]
<1>1. /\ ParseClassInfo(part) = Info(magic1, pool1, this1, found1)
      /\ ParseClassInfo(data) = Info(magic2, pool2, this2, found2)
    <2>1. ParseClassInfo(part) = Info(magic1, pool1, this1, found1)
        BY Zenon DEF ParseClassInfo
    <2>2. ParseClassInfo(data) = Info(magic2, pool2, this2, found2)
        BY Zenon DEF ParseClassInfo
    <2>3. QED
        BY <2>1, <2>2
<1>2. Agree(magic1, magic2)
    <2>1. Agree(Start, Start)
        BY DEF Agree, Proper, Start
    <2>2. QED
        BY <2>1, ReadAgrees
<1>3. AgreePool(pool1, pool2) /\ (pool1.cursor.ok => magic1.ok)
    <2> HIDE DEF magic1, magic2
    <2>1. QED
        BY <1>2, SkipAgrees, ReadPoolAgrees, ReadPoolFails
<1>4. Agree(pool1.cursor, pool2.cursor)
    BY <1>3 DEF Agree, AgreePool
<1>5. Agree(this1, this2) /\ (this1.ok => pool1.cursor.ok)
    <2> HIDE DEF pool1, pool2
    <2>1. QED
        BY <1>4, SkipAgrees, ReadAgrees, ReadFails
<1>6. Agree(interfaces1, interfaces2) /\ (interfaces1.ok => this1.ok)
    <2> HIDE DEF this1, this2
    <2>1. QED
        BY <1>5, SkipAgrees, ReadAgrees, ReadFails
<1>7. Agree(fields1, fields2) /\ (fields1.ok => interfaces1.ok)
    <2> DEFINE after1 == Skip(interfaces1, 2 * Number(interfaces1.got))
               after2 == Skip(interfaces2, 2 * Number(interfaces2.got))
    <2> HIDE DEF interfaces1, interfaces2
    <2>1. after1.ok => interfaces1.ok
        BY DEF Skip
    <2>2. Agree(after1, after2)
        <3>1. CASE interfaces1.ok
            <4>1. Number(interfaces1.got) \in Nat
                BY <1>6, <3>1, NumberAgrees
            <4>2. interfaces1 = interfaces2
                BY <1>6, <3>1 DEF Agree
            <4>3. 2 * Number(interfaces1.got) \in Nat
                BY <4>1
            <4>4. QED
                BY <1>6, <4>2, <4>3, SkipAgrees
        <3>2. CASE ~interfaces1.ok
            BY <2>1, <3>2 DEF Agree
        <3>3. QED
            BY <3>1, <3>2
    <2> HIDE DEF after1, after2
    <2>3. Agree(SkipMembers(part, after1), SkipMembers(data, after2))
        BY <2>2, SkipMembersAgree
    <2>4. SkipMembers(part, after1).ok => interfaces1.ok
        BY <2>1, SkipMembersFails
    <2>5. QED
        BY <2>3, <2>4 DEF after1, after2
<1>8. Agree(methods1, methods2) /\ (methods1.ok => fields1.ok)
    <2> HIDE DEF fields1, fields2
    <2>1. QED
        BY <1>7, SkipMembersAgree, SkipMembersFails
<1>9. found1.cursor.ok => methods1.ok
    <2> HIDE DEF methods1
    <2>1. QED
        BY FindSourceFileFails
<1>10. found1.cursor.ok
    <2> HIDE DEF magic1, pool1, this1, found1, part
    <2>1. QED
        BY <1>1 DEF part
<1>11. /\ magic1 = magic2 /\ pool1 = pool2 /\ this1 = this2
    <2> HIDE DEF magic1, magic2, pool1, pool2, this1, this2, interfaces1, interfaces2,
                 fields1, fields2, methods1, methods2, found1, found2
    <2>1. methods1.ok /\ fields1.ok /\ interfaces1.ok /\ this1.ok /\ pool1.cursor.ok /\ magic1.ok
        BY <1>3, <1>5, <1>6, <1>7, <1>8, <1>9, <1>10
    <2>2. QED
        BY <1>2, <1>3, <1>5, <2>1 DEF Agree, AgreePool
<1>12. found1 = found2
    <2>1. AgreeSearch(FindSourceFile(part, methods1, pool1.utf8),
                      FindSourceFile(data, methods2, pool1.utf8))
        <3> HIDE DEF methods1, methods2, pool1
        <3>1. QED
            BY <1>8, FindSourceFileAgrees
    <2>2. found1 = FindSourceFile(data, methods2, pool1.utf8)
        <3> HIDE DEF methods1, methods2, pool1
        <3>1. QED
            BY <1>10, <2>1 DEF AgreeSearch
    <2> HIDE DEF found1, methods1, methods2, pool1, pool2
    <2>3. QED
        BY <1>11, <2>2
<1> HIDE DEF magic1, magic2, pool1, pool2, this1, this2, found1, found2, Info
<1>13. QED
    BY <1>1, <1>11, <1>12

-----------------------------------------------------------------------------
(* What was written is there to be read.                                   *)
\* The data hold x from offset a on.
Holds(data, a, x) ==
    /\ a \in Nat /\ a + Len(x) <= Len(data)
    /\ \A i \in 1..Len(x) : data[a + i] = x[i]

Stands(c, a) == c.ok /\ c.at = a

\* A document is all there at its start.
LEMMA HoldsAll ==
    ASSUME NEW x \in Seq(Nat)
    PROVE  Holds(x, 0, x)
    BY DEF Holds

\* Of two runs of bytes, the second is behind the first.
LEMMA HoldsConcat ==
    ASSUME NEW data \in Seq(Nat), NEW a, NEW x \in Seq(Nat), NEW y \in Seq(Nat),
           Holds(data, a, x \o y)
    PROVE  Holds(data, a, x) /\ Holds(data, a + Len(x), y)
<1>1. /\ Len(x \o y) = Len(x) + Len(y)
      /\ \A i \in 1..Len(x) : (x \o y)[i] = x[i]
      /\ \A i \in 1..Len(y) : (x \o y)[Len(x) + i] = y[i]
    OBVIOUS
<1>2. a \in Nat /\ Len(x) \in Nat /\ Len(y) \in Nat /\ Len(data) \in Nat
    BY DEF Holds
<1>3. a + Len(x) + Len(y) <= Len(data)
    BY <1>1, <1>2 DEF Holds
<1>4. Holds(data, a, x)
    <2>1. ASSUME NEW i \in 1..Len(x) PROVE data[a + i] = x[i]
        <3>1. i \in 1..Len(x \o y)
            BY <1>1, <1>2
        <3>2. QED
            BY <3>1, <1>1 DEF Holds
    <2>2. QED
        BY <2>1, <1>2, <1>3 DEF Holds
<1>5. Holds(data, a + Len(x), y)
    <2>1. ASSUME NEW i \in 1..Len(y) PROVE data[a + Len(x) + i] = y[i]
        <3>1. Len(x) + i \in 1..Len(x \o y)
            BY <1>1, <1>2
        <3>2. data[a + (Len(x) + i)] = (x \o y)[Len(x) + i]
            BY <3>1 DEF Holds
        <3>3. a + (Len(x) + i) = a + Len(x) + i
            BY <1>2
        <3>4. QED
            BY <3>2, <3>3, <1>1
    <2>2. QED
        BY <2>1, <1>2, <1>3 DEF Holds
<1>6. QED
    BY <1>4, <1>5

LEMMA SubSeqIs ==
    ASSUME NEW data \in Seq(Nat), NEW a \in Nat, NEW w \in Nat, a + w <= Len(data)
    PROVE  /\ SubSeq(data, a + 1, a + w) \in Seq(Nat)
           /\ Len(SubSeq(data, a + 1, a + w)) = w
           /\ \A i \in 1..w : SubSeq(data, a + 1, a + w)[i] = data[a + i]
<1>1. a + 1 \in Int /\ a + w \in Int /\ \A i \in (a + 1)..(a + w) : data[i] \in Nat
    OBVIOUS
<1> DEFINE s == SubSeq(data, a + 1, a + w)
<1>2. /\ s \in Seq(Nat)
      /\ Len(s) = IF a + 1 <= a + w THEN a + w - (a + 1) + 1 ELSE 0
      /\ \A i \in 1..(a + w - (a + 1) + 1) : s[i] = data[a + 1 + i - 1]
    BY <1>1, SubSeqProperties
<1> HIDE DEF s
<1>3. Len(s) = w /\ \A i \in 1..w : s[i] = data[a + i]
    BY <1>2
<1>4. QED
    BY <1>2, <1>3 DEF s

\* What is there is read, and the cursor is behind it.
LEMMA ReadThere ==
    ASSUME NEW data \in Seq(Nat), NEW a, NEW x \in Seq(Nat), Holds(data, a, x),
           NEW c, Stands(c, a)
    PROVE  Stands(Read(data, c, Len(x)), a + Len(x)) /\ Read(data, c, Len(x)).got = x
<1>1. a \in Nat /\ Len(x) \in Nat /\ a + Len(x) <= Len(data)
    BY DEF Holds
<1>2. SubSeq(data, a + 1, a + Len(x)) = x
    <2> DEFINE y == SubSeq(data, a + 1, a + Len(x))
    <2>1. y \in Seq(Nat) /\ Len(y) = Len(x) /\ \A i \in 1..Len(x) : y[i] = data[a + i]
        BY <1>1, SubSeqIs
    <2>2. \A i \in 1..Len(x) : y[i] = x[i]
        BY <2>1 DEF Holds
    <2> HIDE DEF y
    <2>3. y = x
        BY <2>1, <2>2, SeqEqual
    <2>4. QED
        BY <2>3 DEF y
<1>3. Read(data, c, Len(x)) = [at |-> a + Len(x), ok |-> TRUE, got |-> x]
    BY <1>1, <1>2 DEF Read, Stands
<1>4. QED
    BY <1>3 DEF Stands

LEMMA ShiftedType ==
    ASSUME NEW n \in Nat
    PROVE  Shifted(n) \in Nat /\ n % 256 \in 0..255 /\ n = 256 * Shifted(n) + (n % 256)
    BY DEF Shifted

LEMMA BigEndianType ==
    ASSUME NEW w \in Nat, NEW n \in Nat
    PROVE  BigEndian(w, n) \in Seq(Nat) /\ Len(BigEndian(w, n)) = w
<1> DEFINE Digit(i) == CASE i = w     -> n % 256
                         [] i = w - 1 -> Shifted(n) % 256
                         [] i = w - 2 -> Shifted(Shifted(n)) % 256
                         [] i = w - 3 -> Shifted(Shifted(Shifted(n)))
                         [] OTHER     -> 0
<1>1. BigEndian(w, n) = [i \in 1..w |-> Digit(i)]
    BY DEF BigEndian
<1>2. /\ n % 256 \in Nat /\ Shifted(n) % 256 \in Nat
      /\ Shifted(Shifted(n)) % 256 \in Nat /\ Shifted(Shifted(Shifted(n))) \in Nat
    <2>1. Shifted(n) \in Nat
        BY ShiftedType
    <2>2. Shifted(Shifted(n)) \in Nat
        BY <2>1, ShiftedType
    <2>3. Shifted(Shifted(Shifted(n))) \in Nat
        BY <2>2, ShiftedType
    <2>4. \A m \in Nat : m % 256 \in Nat
        OBVIOUS
    <2>5. QED
        BY <2>1, <2>2, <2>3, <2>4
<1>3. ASSUME NEW i \in 1..w PROVE Digit(i) \in Nat
    <2>1. CASE i = w
        BY <1>2, <2>1
    <2>2. CASE i = w - 1
        BY <1>2, <2>2
    <2>3. CASE i = w - 2
        BY <1>2, <2>3
    <2>4. CASE i = w - 3
        BY <1>2, <2>4
    <2>5. CASE i \notin {w, w - 1, w - 2, w - 3}
        BY <2>5
    <2>6. QED
        BY <2>1, <2>2, <2>3, <2>4, <2>5
<1> HIDE DEF Digit
<1>4. [i \in 1..w |-> Digit(i)] \in Seq(Nat) /\ Len([i \in 1..w |-> Digit(i)]) = w
    BY <1>3
<1>5. QED
    BY <1>1, <1>4

\* A number is read as it was written: the digits of one, two and four bytes.
LEMMA NumberIs ==
    ASSUME NEW bytes \in Seq(Nat)
    PROVE  /\ Len(bytes) = 2 => Number(bytes) = 256 * bytes[1] + bytes[2]
           /\ Len(bytes) = 4 => Number(bytes) = 256 * (256 * (256 * bytes[1] + bytes[2])
                                                       + bytes[3]) + bytes[4]
<1>1. CASE Len(bytes) = 2
    BY <1>1 DEF Number
<1>2. CASE Len(bytes) = 4
    BY <1>2 DEF Number
<1>3. QED
    BY <1>1, <1>2

LEMMA Number4 ==
    ASSUME NEW n \in Nat
    PROVE  Number(BigEndian(4, n)) = n
<1> DEFINE b == BigEndian(4, n)
<1>1. Len(b) = 4 /\ b \in Seq(Nat)
    BY BigEndianType
<1>2. /\ b[1] = Shifted(Shifted(Shifted(n))) /\ b[2] = Shifted(Shifted(n)) % 256
      /\ b[3] = Shifted(n) % 256 /\ b[4] = n % 256
    BY DEF BigEndian
<1> HIDE DEF b
<1>3. Number(b) = 256 * (256 * (256 * b[1] + b[2]) + b[3]) + b[4]
    BY <1>1, NumberIs
<1>4. Shifted(n) \in Nat /\ Shifted(Shifted(n)) \in Nat
    BY ShiftedType
<1>5. 256 * b[1] + b[2] = Shifted(Shifted(n))
    BY <1>2, <1>4, ShiftedType
<1>6. 256 * Shifted(Shifted(n)) + b[3] = Shifted(n)
    BY <1>2, <1>4, ShiftedType
<1>7. 256 * Shifted(n) + b[4] = n
    BY <1>2, ShiftedType, ZenonT(40)
<1>8. QED
    BY <1>3, <1>5, <1>6, <1>7 DEF b

LEMMA Number2 ==
    ASSUME NEW n \in Nat, Shifted(n) < 256
    PROVE  Number(BigEndian(2, n)) = n
<1> DEFINE b == BigEndian(2, n)
<1>1. Len(b) = 2 /\ b \in Seq(Nat)
    BY BigEndianType
<1>2. b[1] = Shifted(n) % 256 /\ b[2] = n % 256
    BY DEF BigEndian
<1> HIDE DEF b
<1>3. Number(b) = 256 * b[1] + b[2]
    BY <1>1, NumberIs
<1>4. Shifted(n) % 256 = Shifted(n)
    <2>1. Shifted(n) \in 0..255
        <3>1. Shifted(n) \in Nat
            BY ShiftedType
        <3>2. QED
            BY <3>1
    <2>2. \A m \in 0..255 : m % 256 = m
        OBVIOUS
    <2>3. QED
        BY <2>1, <2>2
<1>5. 256 * Shifted(n) + b[2] = n
    BY <1>2, ShiftedType, ZenonT(40)
<1>6. QED
    BY <1>2, <1>3, <1>4, <1>5 DEF b

LEMMA Number1 ==
    ASSUME NEW n \in Nat
    PROVE  Number(<<n>>) = n
    BY DEF Number

-----------------------------------------------------------------------------
(* A sequence of sequences, end to end.                                    *)
FlattenUpto(ss, f, m) ==
    f = [i \in 1..m |-> IF i = 1 THEN ss[i] ELSE f[i - 1] \o ss[i]]

FlattenFunction(ss) ==
    CHOOSE f : FlattenUpto(ss, f, Len(ss))

LEMMA FlattenLoop ==
    ASSUME NEW ss \in Seq(Seq(Nat)), Len(ss) # 0
    PROVE  \E f : /\ f[1] = ss[1]
                  /\ \A i \in 2..Len(ss) : f[i] = f[i - 1] \o ss[i]
                  /\ FlattenSeq(ss) = f[Len(ss)]
                  /\ \A i \in 1..Len(ss) : f[i] \in Seq(Nat)
<1> DEFINE T == {m \in Nat : m = 0 \/ \E f : FlattenUpto(ss, f, m)}
<1>1. 0 \in T
    OBVIOUS
<1>2. ASSUME NEW m \in Nat, m \in T PROVE m + 1 \in T
    <2>1. CASE m = 0
        <3>1. FlattenUpto(ss, [i \in 1..1 |-> ss[1]], 1)
            BY DEF FlattenUpto
        <3>2. QED
            BY <2>1, <3>1
    <2>2. CASE m # 0
        <3>1. PICK f : FlattenUpto(ss, f, m)
            BY <1>2, <2>2
        <3> DEFINE last == f[m] \o ss[m + 1]
                   g    == [i \in 1..(m + 1) |-> IF i = m + 1 THEN last ELSE f[i]]
        <3>2. ASSUME NEW i \in 1..(m + 1)
              PROVE  g[i] = IF i = 1 THEN ss[i] ELSE g[i - 1] \o ss[i]
            <4>1. CASE i = m + 1
                <5> HIDE DEF last
                <5>1. g[i] = last /\ i # 1 /\ g[i - 1] = f[m] /\ ss[i] = ss[m + 1]
                    BY <2>2, <4>1
                <5> USE DEF last
                <5> HIDE DEF g
                <5>2. g[i - 1] \o ss[i] = last
                    BY <5>1, Zenon
                <5>3. QED
                    BY <5>1, <5>2, Zenon
            <4>2. CASE i \in 1..m
                <5>1. g[i] = f[i] /\ (i # 1 => g[i - 1] = f[i - 1])
                    BY <4>2
                <5>2. f[i] = IF i = 1 THEN ss[i] ELSE f[i - 1] \o ss[i]
                    BY <3>1, <4>2 DEF FlattenUpto
                <5> HIDE DEF g
                <5>3. QED
                    BY <5>1, <5>2, Zenon
            <4>3. QED
                BY <4>1, <4>2
        <3>3. FlattenUpto(ss, g, m + 1)
            BY <3>2 DEF FlattenUpto
        <3>4. QED
            BY <3>3
    <2>3. QED
        BY <2>1, <2>2
<1>3. \E f : FlattenUpto(ss, f, Len(ss))
    <2> HIDE DEF T
    <2>1. Nat \subseteq T
        BY <1>1, <1>2, Induction
    <2>2. QED
        BY <2>1 DEF T
<1> DEFINE f == FlattenFunction(ss)
<1>4. FlattenUpto(ss, f, Len(ss))
    BY <1>3 DEF FlattenFunction
<1>5. FlattenSeq(ss) = f[Len(ss)]
    BY DEF FlattenSeq, FlattenFunction, FlattenUpto
<1> HIDE DEF f
<1>6. f[1] = ss[1]
    BY <1>4 DEF FlattenUpto
<1>7. ASSUME NEW i \in 2..Len(ss) PROVE f[i] = f[i - 1] \o ss[i]
    <2>1. i \in 1..Len(ss) /\ i # 1
        OBVIOUS
    <2>2. f[i] = IF i = 1 THEN ss[i] ELSE f[i - 1] \o ss[i]
        BY <1>4, <2>1 DEF FlattenUpto
    <2>3. QED
        BY <2>1, <2>2, Zenon
<1> DEFINE n == Len(ss)
           U == {i \in 0..(n - 1) : f[i + 1] \in Seq(Nat)}
<1>8. n \in Nat /\ n - 1 \in Nat
    OBVIOUS
<1>9. 0 \in U
    BY <1>6, <1>8
<1>10. ASSUME NEW i \in 1..(n - 1), i - 1 \in U PROVE i \in U
    <2>1. i + 1 \in 2..n /\ i + 1 - 1 = i /\ i - 1 + 1 = i /\ i + 1 \in 1..n
        BY <1>8
    <2>2. f[i] \in Seq(Nat) /\ ss[i + 1] \in Seq(Nat)
        BY <1>10, <2>1
    <2>3. f[i + 1] = f[i] \o ss[i + 1]
        <3>1. PICK j \in 2..n : j = i + 1 /\ j - 1 = i
            BY <2>1
        <3>2. f[j] = f[j - 1] \o ss[j]
            BY <1>7
        <3>3. QED
            BY <3>1, <3>2, Zenon
    <2>4. f[i + 1] \in Seq(Nat)
        BY <2>2, <2>3, ConcatProperties
    <2>5. QED
        BY <2>4
<1>11. \A i \in 1..n : f[i] \in Seq(Nat)
    <2> HIDE DEF U
    <2>1. 0..(n - 1) \subseteq U
        BY <1>8, <1>9, <1>10, UpTo
    <2>2. ASSUME NEW i \in 1..n PROVE f[i] \in Seq(Nat)
        <3>1. i - 1 \in 0..(n - 1) /\ i - 1 + 1 = i
            BY <1>8
        <3>2. f[i - 1 + 1] \in Seq(Nat)
            BY <2>1, <3>1 DEF U
        <3>3. QED
            BY <3>1, <3>2
    <2>3. QED
        BY <2>2
<1>12. QED
    BY <1>5, <1>6, <1>7, <1>11

\* Where data hold a sequence of sequences they hold each of them, one after the
\* other: o[k] is where the k-th ends.
Offsets(o, ss) ==
    /\ o \in [0..Len(ss) -> Nat] /\ o[0] = 0
    /\ \A k \in 1..Len(ss) : o[k] = o[k - 1] + Len(ss[k])

\* Each item of a list that was written is at its offset.
LEMMA FlattenHolds ==
    ASSUME NEW data \in Seq(Nat), NEW a \in Nat, NEW ss \in Seq(Seq(Nat)),
           Holds(data, a, FlattenSeq(ss))
    PROVE  \E o : /\ Offsets(o, ss) /\ o[Len(ss)] = Len(FlattenSeq(ss))
                  /\ \A k \in 1..Len(ss) : Holds(data, a + o[k - 1], ss[k])
<1> DEFINE n == Len(ss)
<1>1. n \in Nat /\ \A k \in 1..n : ss[k] \in Seq(Nat) /\ Len(ss[k]) \in Nat
    OBVIOUS
<1>2. CASE n = 0
    <2> DEFINE o == [k \in 0..0 |-> 0]
    <2>1. FlattenSeq(ss) = ss
        BY <1>2 DEF FlattenSeq
    <2>2. Offsets(o, ss)
        BY <1>2 DEF Offsets
    <2>3. o[Len(ss)] = Len(FlattenSeq(ss))
        BY <1>2, <2>1
    <2>4. \A k \in 1..Len(ss) : Holds(data, a + o[k - 1], ss[k])
        BY <1>2
    <2>5. QED
        BY <2>2, <2>3, <2>4
<1>3. CASE n # 0
    <2>1. PICK f : /\ f[1] = ss[1]
                   /\ \A i \in 2..n : f[i] = f[i - 1] \o ss[i]
                   /\ FlattenSeq(ss) = f[n]
                   /\ \A i \in 1..n : f[i] \in Seq(Nat)
        BY <1>3, FlattenLoop
    <2>2. \A i \in 1..n : f[i] \in Seq(Nat) /\ Len(f[i]) \in Nat
        <3>1. \A x \in Seq(Nat) : Len(x) \in Nat
            OBVIOUS
        <3>2. QED
            BY <2>1, <3>1
    <2>3. ASSUME NEW i \in 2..n
          PROVE  /\ Len(f[i]) = Len(f[i - 1]) + Len(ss[i])
                 /\ Holds(data, a, f[i]) => /\ Holds(data, a, f[i - 1])
                                            /\ Holds(data, a + Len(f[i - 1]), ss[i])
        <3>1. i - 1 \in 1..n /\ i \in 1..n
            BY <1>1
        <3>2. f[i - 1] \in Seq(Nat) /\ ss[i] \in Seq(Nat)
            BY <1>1, <2>2, <3>1
        <3>3. f[i] = f[i - 1] \o ss[i]
            BY <2>1
        <3> DEFINE x == f[i - 1]
                   y == ss[i]
        <3> HIDE DEF x, y
        <3>4. Len(x \o y) = Len(x) + Len(y)
            BY <3>2, ConcatProperties DEF x, y
        <3>5. Holds(data, a, x \o y) => Holds(data, a, x) /\ Holds(data, a + Len(x), y)
            BY <3>2, HoldsConcat DEF x, y
        <3>6. QED
            BY <3>3, <3>4, <3>5, Zenon DEF x, y
    <2> DEFINE o == [k \in 0..n |-> IF k = 0 THEN 0 ELSE Len(f[k])]
    <2>4. Offsets(o, ss)
        <3>1. ASSUME NEW k \in 0..n PROVE (IF k = 0 THEN 0 ELSE Len(f[k])) \in Nat
            BY <2>2
        <3>2. o \in [0..n -> Nat] /\ o[0] = 0
            BY <1>1, <3>1
        <3>3. ASSUME NEW k \in 1..n PROVE o[k] = o[k - 1] + Len(ss[k])
            <4>1. CASE k = 1
                <5>1. o[k] = Len(ss[1]) /\ o[k - 1] = 0
                    BY <1>1, <2>1, <4>1
                <5>2. QED
                    BY <1>1, <4>1, <5>1
            <4>2. CASE k # 1
                <5>1. k \in 2..n
                    BY <4>2
                <5>2. o[k] = Len(f[k]) /\ o[k - 1] = Len(f[k - 1])
                    BY <5>1
                <5>3. QED
                    BY <2>3, <5>1, <5>2
            <4>3. QED
                BY <4>1, <4>2
        <3>4. QED
            BY <3>2, <3>3 DEF Offsets
    <2>5. o[n] = Len(FlattenSeq(ss))
        BY <1>1, <1>3, <2>1
    <2> DEFINE D == {j \in 0..(n - 1) : Holds(data, a, f[n - j])}
    <2>6. \A i \in 1..n : Holds(data, a, f[i])
        <3>1. n - 1 \in Nat /\ n - 0 = n
            BY <1>1, <1>3
        <3>2. 0 \in D
            BY <2>1, <3>1
        <3>3. ASSUME NEW j \in 1..(n - 1), j - 1 \in D PROVE j \in D
            <4>1. n - (j - 1) \in 2..n /\ n - (j - 1) - 1 = n - j /\ j \in 0..(n - 1)
                BY <1>1
            <4>2. Holds(data, a, f[n - (j - 1)])
                BY <3>3
            <4>3. Holds(data, a, f[n - j])
                BY <2>3, <4>1, <4>2
            <4>4. QED
                BY <4>1, <4>3
        <3>4. 0..(n - 1) \subseteq D
            <4> HIDE DEF D
            <4>1. QED
                BY <3>1, <3>2, <3>3, UpTo
        <3>5. ASSUME NEW i \in 1..n PROVE Holds(data, a, f[i])
            <4>1. n - i \in 0..(n - 1) /\ n - (n - i) = i
                BY <1>1
            <4>2. n - i \in D
                BY <3>4, <4>1
            <4>3. Holds(data, a, f[n - (n - i)])
                BY <4>2
            <4>4. QED
                BY <4>1, <4>3
        <3>6. QED
            BY <3>5
    <2>7. ASSUME NEW k \in 1..n PROVE Holds(data, a + o[k - 1], ss[k])
        <3>1. CASE k = 1
            <4>1. o[k - 1] = 0 /\ a + 0 = a
                BY <1>1, <3>1
            <4>2. Holds(data, a, ss[1])
                BY <2>1, <2>6
            <4>3. QED
                BY <3>1, <4>1, <4>2
        <3>2. CASE k # 1
            <4>1. k \in 2..n
                BY <3>2
            <4>2. o[k - 1] = Len(f[k - 1])
                BY <4>1
            <4>3. Holds(data, a + Len(f[k - 1]), ss[k])
                BY <2>3, <2>6, <4>1
            <4>4. QED
                BY <4>2, <4>3
        <3>3. QED
            BY <3>1, <3>2
    <2> HIDE DEF o
    <2>8. QED
        BY <2>4, <2>5, <2>7
<1>4. QED
    BY <1>2, <1>3

\* End to end they are a sequence of bytes.
LEMMA FlattenType ==
    ASSUME NEW ss \in Seq(Seq(Nat))
    PROVE  FlattenSeq(ss) \in Seq(Nat)
<1>1. CASE Len(ss) = 0
    <2>1. FlattenSeq(ss) = ss /\ ss = <<>>
        BY <1>1 DEF FlattenSeq
    <2>2. QED
        BY <2>1
<1>2. CASE Len(ss) # 0
    <2>1. PICK f : /\ FlattenSeq(ss) = f[Len(ss)]
                   /\ \A i \in 1..Len(ss) : f[i] \in Seq(Nat)
        BY <1>2, FlattenLoop
    <2>2. Len(ss) \in 1..Len(ss)
        BY <1>2
    <2>3. QED
        BY <2>1, <2>2
<1>3. QED
    BY <1>1, <1>2

-----------------------------------------------------------------------------
(* Fields, records and lists.                                              *)
\* A field is written as its type is read.
WidthOf == [u8 |-> 1, u32 |-> 4, u64 |-> 8, id |-> IdWidth]

Fits(field, type) ==
    /\ field = [name |-> field.name, wire |-> field.wire, value |-> field.value]
    /\ field.wire \in Seq(Nat)
    /\ \/ type \in DOMAIN WidthOf /\ Len(field.wire) = WidthOf[type]
            /\ field.value = field.wire
       \/ type = "string" /\ field.value \in Seq(Nat) /\ IsUtf8(field.value)
            /\ field.wire = BigEndian(4, Len(field.value)) \o field.value
       \/ /\ type = "value" /\ field.value = field.wire
          /\ \E tag \in Nat, rest \in Seq(Nat) :
                 field.wire = <<tag>> \o rest /\ Len(rest) = ValueWidth(tag)

\* A read of as many bytes as were written.
LEMMA ReadWritten ==
    ASSUME NEW data \in Seq(Nat), NEW a, NEW x \in Seq(Nat), Holds(data, a, x),
           NEW c, Stands(c, a), NEW w, Len(x) = w
    PROVE  /\ Stands(Read(data, c, w), a + w)
           /\ Read(data, c, w).got = x
<1>1. Stands(Read(data, c, Len(x)), a + Len(x)) /\ Read(data, c, Len(x)).got = x
    BY ReadThere
<1>2. QED
    BY <1>1, Zenon

\* A string, a value and a field of any type are read as they were written.
LEMMA ReadStringThere ==
    ASSUME NEW data \in Seq(Nat), NEW a \in Nat, NEW s \in Seq(Nat), IsUtf8(s),
           Holds(data, a, BigEndian(4, Len(s)) \o s), NEW c, Stands(c, a)
    PROVE  /\ Stands(ReadString(data, c), a + Len(BigEndian(4, Len(s)) \o s))
           /\ ReadString(data, c).got = s
<1> DEFINE b == BigEndian(4, Len(s))
           length == Read(data, c, 4)
<1>1. Len(s) \in Nat
    OBVIOUS
<1>2. b \in Seq(Nat) /\ Len(b) = 4
    BY <1>1, BigEndianType
<1>3. Number(b) = Len(s)
    BY <1>1, Number4
<1> HIDE DEF b
<1>4. Holds(data, a, b \o s)
    BY Zenon DEF b
<1>5. Holds(data, a, b) /\ Holds(data, a + Len(b), s)
    BY <1>2, <1>4, HoldsConcat
<1>6. Holds(data, a + 4, s)
    BY <1>2, <1>5, Zenon
<1>7. Stands(length, a + 4) /\ length.got = b
    <2>1. Stands(Read(data, c, Len(b)), a + Len(b)) /\ Read(data, c, Len(b)).got = b
        <3>1. b \in Seq(Nat)
            BY <1>2
        <3>2. QED
            BY <3>1, <1>5, ReadThere
    <2>2. QED
        BY <1>2, <2>1, Zenon
<1>8. LET text == Read(data, length, Len(s))
      IN  ReadString(data, c) = IF IsUtf8(text.got) THEN text ELSE Failed(length)
    <2>1. LET text == Read(data, length, Number(length.got))
          IN  ReadString(data, c) = IF IsUtf8(text.got) THEN text ELSE Failed(length)
        BY Zenon DEF ReadString
    <2> HIDE DEF length
    <2>2. Number(length.got) = Len(s)
        BY <1>3, <1>7
    <2>3. QED
        BY <2>1, <2>2
<1> HIDE DEF length
<1>9. Stands(Read(data, length, Len(s)), a + 4 + Len(s)) /\ Read(data, length, Len(s)).got = s
    BY <1>6, <1>7, ReadThere
<1>10. Len(b \o s) = 4 + Len(s)
    <2>1. Len(b \o s) = Len(b) + Len(s)
        BY <1>2, ConcatProperties, Zenon
    <2>2. QED
        BY <1>2, <2>1
<1>11. a + 4 + Len(s) = a + Len(b \o s)
    BY <1>1, <1>10
<1> DEFINE r == Read(data, length, Len(s))
           z == a + Len(b \o s)
<1>12. Stands(r, z) /\ r.got = s /\ ReadString(data, c) = r
    BY <1>8, <1>9, <1>11, Zenon
<1> HIDE DEF r, z
<1>13. Stands(ReadString(data, c), z) /\ ReadString(data, c).got = s
    BY <1>12
<1>14. QED
    BY <1>13, Zenon DEF b, z

LEMMA ReadValueThere ==
    ASSUME NEW data \in Seq(Nat), NEW a \in Nat, NEW tag \in Nat, NEW rest \in Seq(Nat),
           Len(rest) = ValueWidth(tag),
           Holds(data, a, <<tag>> \o rest), NEW c, Stands(c, a)
    PROVE  /\ Stands(ReadValue(data, c), a + Len(<<tag>> \o rest))
           /\ ReadValue(data, c).got = <<tag>> \o rest
<1> DEFINE b == <<tag>>
           first == Read(data, c, 1)
           w == ValueWidth(tag)
<1>1. Len(rest) \in Nat /\ b \in Seq(Nat) /\ Len(b) = 1
    OBVIOUS
<1>2. Number(b) = tag
    BY Number1
<1> HIDE DEF b
<1>3. Holds(data, a, b \o rest)
    BY Zenon DEF b
<1>4. Holds(data, a, b) /\ Holds(data, a + Len(b), rest)
    BY <1>1, <1>3, HoldsConcat
<1>5. Holds(data, a + 1, rest)
    BY <1>1, <1>4, Zenon
<1>6. Stands(first, a + 1) /\ first.got = b
    <2>1. Stands(Read(data, c, Len(b)), a + Len(b)) /\ Read(data, c, Len(b)).got = b
        <3>1. b \in Seq(Nat)
            BY <1>1
        <3>2. QED
            BY <3>1, <1>4, ReadThere
    <2>2. QED
        BY <1>1, <2>1, Zenon
<1> HIDE DEF w
<1> DEFINE second == Read(data, first, w)
<1>7. ReadValue(data, c) = [second EXCEPT !.got = first.got \o @]
    <2> DEFINE whole(v) == [Read(data, first, v) EXCEPT !.got = first.got \o @]
    <2>1. ReadValue(data, c) = whole(ValueWidth(Number(first.got)))
        BY Zenon DEF ReadValue
    <2>2. ValueWidth(Number(first.got)) = w
        <3> HIDE DEF first
        <3>1. Number(first.got) = tag
            BY <1>2, <1>6
        <3>2. QED
            BY <3>1 DEF w
    <2> HIDE DEF whole, w
    <2>3. ReadValue(data, c) = whole(w)
        BY <2>1, <2>2
    <2>4. QED
        BY <2>3, Zenon DEF whole
<1>8. second = [at |-> second.at, ok |-> second.ok, got |-> second.got]
    BY DEF Read, Failed
<1> HIDE DEF first
<1>9. Stands(second, a + 1 + w) /\ second.got = rest
    BY <1>1, <1>5, <1>6, ReadWritten DEF w
<1> HIDE DEF second
<1>10. ReadValue(data, c) = [at |-> second.at, ok |-> second.ok,
                             got |-> first.got \o second.got]
    BY <1>7, <1>8
<1>11. first.got \o second.got = b \o rest
    BY <1>6, <1>9, Zenon
<1>12. Len(b \o rest) = 1 + Len(rest)
    <2>1. Len(b \o rest) = Len(b) + Len(rest)
        BY <1>1, ConcatProperties, Zenon
    <2>2. QED
        BY <1>1, <2>1
<1>13. a + 1 + w = a + Len(b \o rest)
    BY <1>1, <1>12 DEF w
<1>14. ReadValue(data, c).got = b \o rest
    <2>1. PICK v : v = b \o rest
        OBVIOUS
    <2>2. ReadValue(data, c) = [at |-> second.at, ok |-> second.ok, got |-> v]
        BY <1>10, <1>11, <2>1, Zenon
    <2>3. ReadValue(data, c).got = v
        BY <2>2
    <2>4. QED
        BY <2>1, <2>3, Zenon
<1>15. Stands(ReadValue(data, c), a + Len(b \o rest))
    <2> DEFINE z == a + Len(b \o rest)
    <2>1. Stands(second, z)
        BY <1>9, <1>13, Zenon
    <2> HIDE DEF z
    <2>2. ReadValue(data, c).ok = second.ok /\ ReadValue(data, c).at = second.at
        BY <1>10
    <2>3. Stands(ReadValue(data, c), z)
        BY <2>1, <2>2, Zenon DEF Stands
    <2>4. QED
        BY <2>3, Zenon DEF z
<1>16. QED
    BY <1>14, <1>15, Zenon DEF b

LEMMA ReadFieldThere ==
    ASSUME NEW data \in Seq(Nat), NEW a, NEW field, NEW type, Fits(field, type),
           Holds(data, a, field.wire), NEW c, Stands(c, a)
    PROVE  /\ Stands(ReadField(data, c, type), a + Len(field.wire))
           /\ ReadField(data, c, type).got = field.value
<1>1. field.wire \in Seq(Nat) /\ a \in Nat
    BY DEF Fits, Holds
<1>2. CASE type \in DOMAIN WidthOf /\ Len(field.wire) = WidthOf[type]
             /\ field.value = field.wire
    <2>1. ReadField(data, c, type) = Read(data, c, Len(field.wire))
        BY <1>2 DEF ReadField, WidthOf, IdWidth
    <2>2. QED
        BY <1>1, <1>2, <2>1, ReadThere
<1>3. CASE type = "string" /\ field.value \in Seq(Nat) /\ IsUtf8(field.value)
             /\ field.wire = BigEndian(4, Len(field.value)) \o field.value
    <2>1. PICK s \in Seq(Nat) : /\ s = field.value /\ IsUtf8(s)
                                /\ field.wire = BigEndian(4, Len(s)) \o s
        BY <1>3, Zenon
    <2>2. Holds(data, a, BigEndian(4, Len(s)) \o s)
        BY <2>1, Zenon
    <2>25. IsUtf8(s)
        BY <2>1, Zenon
    <2>3. /\ Stands(ReadString(data, c), a + Len(BigEndian(4, Len(s)) \o s))
          /\ ReadString(data, c).got = s
        BY <1>1, <2>2, <2>25, ReadStringThere
    <2>4. ReadField(data, c, type) = ReadString(data, c)
        BY <1>3 DEF ReadField
    <2>5. QED
        BY <2>1, <2>3, <2>4, Zenon
<1>4. CASE type = "value" /\ field.value = field.wire
             /\ \E tag \in Nat, rest \in Seq(Nat) :
                    field.wire = <<tag>> \o rest /\ Len(rest) = ValueWidth(tag)
    <2>1. PICK tag \in Nat, rest \in Seq(Nat) :
              field.wire = <<tag>> \o rest /\ Len(rest) = ValueWidth(tag)
        BY <1>4
    <2>2. Holds(data, a, <<tag>> \o rest)
        BY <2>1, Zenon
    <2>3. /\ Stands(ReadValue(data, c), a + Len(<<tag>> \o rest))
          /\ ReadValue(data, c).got = <<tag>> \o rest
        BY <1>1, <2>1, <2>2, ReadValueThere
    <2>4. ReadField(data, c, type) = ReadValue(data, c)
        BY <1>4 DEF ReadField
    <2>5. QED
        BY <1>4, <2>1, <2>3, <2>4, Zenon
<1>5. QED
    BY <1>2, <1>3, <1>4 DEF Fits

\* Fields are laid out as they are read.
Matches(layout, fields) ==
    /\ Len(fields) \in Nat /\ DOMAIN fields = 1..Len(fields)
    /\ Len(layout) = Len(fields) /\ DOMAIN layout = DOMAIN fields
    /\ fields = [i \in DOMAIN fields |-> fields[i]]
    /\ layout = [i \in DOMAIN layout |-> layout[i]]
    /\ \A i \in DOMAIN fields :
           layout[i][1] = fields[i].name /\ Fits(fields[i], layout[i][2])

LEMMA WrittenType ==
    ASSUME NEW layout, NEW fields, Matches(layout, fields)
    PROVE  Written(fields) \in Seq(Nat)
<1> DEFINE ss == [i \in DOMAIN fields |-> fields[i].wire]
<1>1. ss \in Seq(Seq(Nat))
    <2>1. \A i \in 1..Len(fields) : fields[i].wire \in Seq(Nat)
        BY DEF Matches, Fits
    <2> DEFINE n == Len(fields)
    <2>2. n \in Nat /\ ss = [i \in 1..n |-> fields[i].wire]
        BY DEF Matches
    <2> HIDE DEF n
    <2>3. [i \in 1..n |-> fields[i].wire] \in Seq(Seq(Nat))
        BY <2>1, <2>2 DEF n
    <2>4. QED
        BY <2>2, <2>3
<1>2. FlattenSeq(ss) \in Seq(Nat)
    BY <1>1, FlattenType
<1>3. QED
    BY <1>2 DEF Written

\* What was written as a record is read as what it means.
LEMMA ReadRecordThere ==
    ASSUME NEW data \in Seq(Nat), NEW a, NEW layout, NEW fields, Matches(layout, fields),
           Holds(data, a, Written(fields)), NEW c, Stands(c, a)
    PROVE  /\ Stands(ReadRecord(data, c, layout).cursor, a + Len(Written(fields)))
           /\ ReadRecord(data, c, layout).fields = Meaning(fields)
<1> DEFINE n == Len(fields)
           ss == [i \in 1..n |-> fields[i].wire]
           f == Cursors(data, c, layout)
<1>1. n \in Nat /\ a \in Nat /\ Len(layout) = n /\ DOMAIN fields = 1..n /\ DOMAIN layout = 1..n
    BY DEF Matches, Holds
<1>2. \A i \in 1..n : layout[i][1] = fields[i].name /\ Fits(fields[i], layout[i][2])
    BY <1>1 DEF Matches
<1>3. ss \in Seq(Seq(Nat)) /\ Len(ss) = n /\ \A i \in 1..n : ss[i] = fields[i].wire
    <2>1. \A i \in 1..n : fields[i].wire \in Seq(Nat)
        BY <1>2 DEF Fits
    <2> HIDE DEF n
    <2>2. QED
        BY <1>1, <2>1
<1>4. Written(fields) = FlattenSeq(ss)
    <2>1. [i \in DOMAIN fields |-> fields[i].wire] = ss
        BY <1>1
    <2>2. QED
        BY <2>1 DEF Written
<1> HIDE DEF n, ss
<1>5. PICK o : /\ Offsets(o, ss) /\ o[n] = Len(Written(fields))
               /\ \A k \in 1..n : Holds(data, a + o[k - 1], ss[k])
    BY <1>1, <1>3, <1>4, FlattenHolds
<1>6. o[0] = 0 /\ \A k \in 1..n : o[k - 1] \in Nat /\ o[k] = o[k - 1] + Len(ss[k])
    BY <1>1, <1>3, <1>5 DEF Offsets
<1>7. f[0] = c /\ \A i \in 1..n : f[i] = ReadField(data, f[i - 1], layout[i][2])
    <2>1. Len(layout) \in Nat
        BY <1>1
    <2>2. /\ Cursors(data, c, layout)[0] = c
          /\ \A i \in 1..Len(layout) :
                 Cursors(data, c, layout)[i]
                   = ReadField(data, Cursors(data, c, layout)[i - 1], layout[i][2])
        BY <2>1, CursorsLoop
    <2>3. QED
        BY <1>1, <2>2, Zenon
<1> HIDE DEF f
<1> DEFINE T == {i \in 0..n : /\ Stands(f[i], a + o[i])
                              /\ i # 0 => f[i].got = fields[i].value}
<1>8. 0 \in T
    BY <1>1, <1>6, <1>7
<1>9. ASSUME NEW i \in 1..n, i - 1 \in T PROVE i \in T
    <2>1. Stands(f[i - 1], a + o[i - 1]) /\ Holds(data, a + o[i - 1], fields[i].wire)
        BY <1>3, <1>5, <1>9
    <2>2. /\ Stands(ReadField(data, f[i - 1], layout[i][2]), a + o[i - 1] + Len(fields[i].wire))
          /\ ReadField(data, f[i - 1], layout[i][2]).got = fields[i].value
        <3>1. Fits(fields[i], layout[i][2])
            BY <1>2
        <3> DEFINE field == fields[i]
                   type  == layout[i][2]
                   b     == a + o[i - 1]
                   d     == f[i - 1]
        <3>2. Fits(field, type) /\ Holds(data, b, field.wire) /\ Stands(d, b)
            BY <2>1, <3>1
        <3> HIDE DEF field, type, b, d
        <3>3. /\ Stands(ReadField(data, d, type), b + Len(field.wire))
              /\ ReadField(data, d, type).got = field.value
            BY <3>2, ReadFieldThere
        <3>4. QED
            BY <3>3, Zenon DEF field, type, b, d
    <2>3. a + o[i - 1] + Len(fields[i].wire) = a + o[i]
        <3>1. Len(ss[i]) \in Nat
            BY <1>3
        <3>2. QED
            BY <1>1, <1>3, <1>6, <3>1
    <2>4. QED
        BY <1>7, <2>2, <2>3
<1>10. \A i \in 0..n : Stands(f[i], a + o[i]) /\ (i # 0 => f[i].got = fields[i].value)
    <2> HIDE DEF T
    <2>1. 0..n \subseteq T
        BY <1>1, <1>8, <1>9, UpTo
    <2>2. QED
        BY <2>1 DEF T
<1>11. /\ ReadRecord(data, c, layout).cursor = f[n]
       /\ ReadRecord(data, c, layout).fields
            = Labelled([i \in DOMAIN layout |-> layout[i][1]], [i \in DOMAIN layout |-> f[i].got])
    BY <1>1 DEF ReadRecord, f
<1>12. [i \in DOMAIN layout |-> layout[i][1]] = [i \in DOMAIN fields |-> fields[i].name]
    BY <1>1, <1>2
<1>13. [i \in DOMAIN layout |-> f[i].got] = [i \in DOMAIN fields |-> fields[i].value]
    BY <1>1, <1>10, SMTT(30)
<1>14. ReadRecord(data, c, layout).fields = Meaning(fields)
    BY <1>11, <1>12, <1>13, Zenon DEF Meaning
<1>15. n \in 0..n
    BY <1>1
<1>16. Stands(f[n], a + o[n])
    BY <1>10, <1>15
<1>17. QED
    BY <1>5, <1>11, <1>14, <1>16, Zenon

\* Where data hold one after the other, and where they end.
LEMMA HoldsBoth ==
    ASSUME NEW data \in Seq(Nat), NEW a \in Nat, NEW x \in Seq(Nat), NEW y \in Seq(Nat),
           Holds(data, a, x \o y)
    PROVE  /\ Holds(data, a, x) /\ a + Len(x) \in Nat
           /\ Holds(data, a + Len(x), y)
           /\ a + Len(x) + Len(y) = a + Len(x \o y)
           /\ x \o y \in Seq(Nat)
<1>1. Holds(data, a, x) /\ Holds(data, a + Len(x), y)
    BY HoldsConcat
<1>2. Len(x \o y) = Len(x) + Len(y) /\ x \o y \in Seq(Nat)
    BY ConcatProperties, Zenon
<1>3. Len(x) \in Nat /\ Len(y) \in Nat
    OBVIOUS
<1>4. a + Len(x) + Len(y) = a + (Len(x) + Len(y)) /\ a + Len(x) \in Nat
    BY <1>3
<1>5. QED
    BY <1>1, <1>2, <1>4, Zenon

\* The items of a list are laid out as they are read, and ws are their bytes.
Lists(layout, n, items, ws) ==
    /\ \A i \in 1..n : Matches(layout, items[i])
    /\ ws = [i \in 1..n |-> Written(items[i])]

\* A counted list is read item by item.
LEMMA ReadListThere ==
    ASSUME NEW data \in Seq(Nat), NEW a \in Nat, NEW layout, NEW n \in Nat, NEW items, NEW ws,
           Lists(layout, n, items, ws),
           Holds(data, a, BigEndian(4, n)), Holds(data, a + 4, FlattenSeq(ws)),
           NEW c, Stands(c, a)
    PROVE  /\ Stands(ReadList(data, c, layout).cursor, a + 4 + Len(FlattenSeq(ws)))
           /\ ReadList(data, c, layout).items = [i \in 1..n |-> Meaning(items[i])]
<1> DEFINE b == BigEndian(4, n)
           flat == FlattenSeq(ws)
           count == Read(data, c, 4)
           f == Records(data, count, layout, n)
<1>1. ws \in Seq(Seq(Nat)) /\ Len(ws) = n /\ \A i \in 1..n : ws[i] = Written(items[i])
    <2>1. \A i \in 1..n : Written(items[i]) \in Seq(Nat)
        BY WrittenType DEF Lists
    <2>2. QED
        BY <2>1 DEF Lists
<1>2. b \in Seq(Nat) /\ Len(b) = 4
    BY BigEndianType
<1>3. Number(b) = n
    BY Number4
<1>4. flat \in Seq(Nat)
    BY <1>1, FlattenType
<1> DEFINE s == a + 4
<1>5. Holds(data, a, b) /\ Holds(data, s, flat) /\ s \in Nat
    BY DEF Holds
<1> HIDE DEF b, flat
<1>6. b \in Seq(Nat)
    BY <1>2
<1>8. Len(b) = 4 /\ a + Len(b) = s
    BY <1>2
<1>9. Stands(count, s) /\ count.got = b
    <2>1. Stands(Read(data, c, Len(b)), a + Len(b)) /\ Read(data, c, Len(b)).got = b
        BY <1>5, <1>6, ReadThere
    <2>2. QED
        BY <1>8, <2>1, Zenon
<1> HIDE DEF s
<1>10. PICK o : /\ Offsets(o, ws) /\ o[Len(ws)] = Len(flat)
                /\ \A k \in 1..Len(ws) : Holds(data, s + o[k - 1], ws[k])
    BY <1>1, <1>5, FlattenHolds DEF flat
<1>11. o[0] = 0 /\ \A k \in 1..n : o[k - 1] \in Nat /\ o[k] = o[k - 1] + Len(ws[k])
    BY <1>1, <1>10 DEF Offsets
<1>12. ReadList(data, c, layout) = [cursor |-> f[n].cursor, items |-> [i \in 1..n |-> f[i].fields]]
    <2> DEFINE whole(m) == [cursor |-> Records(data, count, layout, m)[m].cursor,
                            items |-> [i \in 1..m |-> Records(data, count, layout, m)[i].fields]]
    <2>1. ReadList(data, c, layout) = whole(Number(count.got))
        BY Zenon DEF ReadList
    <2>2. Number(count.got) = n
        <3> HIDE DEF count
        <3>1. QED
            BY <1>3, <1>9
    <2> HIDE DEF whole, count
    <2>3. ReadList(data, c, layout) = whole(n)
        BY <2>1, <2>2
    <2>4. QED
        BY <2>3, Zenon DEF whole
<1>13. /\ f[0] = NoRecords(count)
       /\ \A i \in 1..n : f[i] = ReadRecord(data, f[i - 1].cursor, layout)
    <2> HIDE DEF count
    <2>1. QED
        BY RecordsLoop
<1> HIDE DEF count, f
<1> DEFINE T == {i \in 0..n : /\ Stands(f[i].cursor, s + o[i])
                              /\ i # 0 => f[i].fields = Meaning(items[i])}
<1>14. 0 \in T
    <2>1. f[0].cursor = count /\ s + o[0] = s
        BY <1>5, <1>11, <1>13 DEF NoRecords
    <2>2. QED
        BY <1>9, <2>1
<1>15. ASSUME NEW i \in 1..n, i - 1 \in T PROVE i \in T
    <2> DEFINE d == f[i - 1].cursor
               z == s + o[i - 1]
               fields == items[i]
    <2>1. Stands(d, z) /\ Holds(data, z, Written(fields))
        BY <1>1, <1>10, <1>15
    <2>2. Matches(layout, fields)
        BY DEF Lists
    <2> HIDE DEF d, z, fields
    <2>3. /\ Stands(ReadRecord(data, d, layout).cursor, z + Len(Written(fields)))
          /\ ReadRecord(data, d, layout).fields = Meaning(fields)
        BY <2>1, <2>2, ReadRecordThere
    <2>4. z + Len(Written(fields)) = s + o[i]
        <3>1. Len(ws[i]) \in Nat /\ ws[i] = Written(fields)
            BY <1>1 DEF fields
        <3>2. QED
            BY <1>5, <1>11, <3>1 DEF z
    <2>5. f[i] = ReadRecord(data, d, layout)
        BY <1>13 DEF d
    <2>6. QED
        BY <2>3, <2>4, <2>5 DEF fields
<1>16. \A i \in 0..n : Stands(f[i].cursor, s + o[i]) /\ (i # 0 => f[i].fields = Meaning(items[i]))
    <2> HIDE DEF T
    <2>1. 0..n \subseteq T
        BY <1>14, <1>15, UpTo
    <2>2. QED
        BY <2>1 DEF T
<1>17. ReadList(data, c, layout).cursor = f[n].cursor /\ n \in 0..n
    BY <1>12
<1>18. Stands(f[n].cursor, s + Len(flat))
    BY <1>1, <1>10, <1>16, <1>17
<1>19. Stands(ReadList(data, c, layout).cursor, s + Len(flat))
    BY <1>17, <1>18, Zenon
<1>20. ReadList(data, c, layout).items = [i \in 1..n |-> Meaning(items[i])]
    BY <1>12, <1>16
<1>21. QED
    BY <1>19, <1>20, Zenon DEF s, flat

-----------------------------------------------------------------------------
(* The packets of the agent are laid out as the commands read them.        *)
LEMMA FitsU32 ==
    ASSUME NEW name, NEW n \in Nat
    PROVE  Fits(U32(name, n), "u32") /\ U32(name, n).name = name
<1>1. BigEndian(4, n) \in Seq(Nat) /\ Len(BigEndian(4, n)) = 4
    BY BigEndianType
<1>2. QED
    BY <1>1 DEF Fits, U32, Raw, WidthOf

LEMMA FitsId ==
    ASSUME NEW name, NEW n \in Nat
    PROVE  Fits(Id(name, n), "id") /\ Fits(Id(name, n), "u64") /\ Id(name, n).name = name
    BY DEF Fits, Id, Raw, WidthOf, IdWidth

LEMMA FitsByte ==
    ASSUME NEW name, NEW n \in Nat
    PROVE  Fits(Raw(name, <<n>>), "u8") /\ Raw(name, <<n>>).name = name
    BY DEF Fits, Raw, WidthOf

\* The agent's strings, and the names in class files, are UTF-8: ASCII,
LEMMA NeededAscii ==
    ASSUME NEW b \in Nat, b < 128
    PROVE  Needed(b) = 1
<1>1. b \in 0..127
    OBVIOUS
<1>2. QED
    BY <1>1 DEF Needed

LEMMA AsciiIs ==
    ASSUME NEW s \in Seq(Nat), NEW i \in 1..Len(s), s[i] < 128
    PROVE  InCharacter(s, i)
<1>1. s[i] \in Nat
    OBVIOUS
<1>2. i \in Nat /\ i <= Len(s) /\ 0 < i /\ i - 0 = i /\ i + 0 <= Len(s)
    OBVIOUS
<1>3. Needed(s[i]) = 1
    BY <1>1, NeededAscii
<1>4. Continues(s, i, 0)
    BY <1>2, <1>3 DEF Continues
<1>5. QED
    BY <1>2, <1>3, <1>4 DEF InCharacter

LEMMA AsciiIsUtf8 ==
    ASSUME NEW s \in Seq(Nat), \A i \in 1..Len(s) : s[i] < 128
    PROVE  IsUtf8(s)
<1>1. \A i \in 1..Len(s) : InCharacter(s, i)
    BY AsciiIs
<1>2. QED
    BY <1>1 DEF IsUtf8

\* and strings that end in an accented letter.
LEMMA LetterIsUtf8 ==
    ASSUME NEW s \in Seq(Nat), NEW m \in 0..1, Len(s) = m + 2,
           \A i \in 1..m : s[i] < 128, s[m + 1] = 195, s[m + 2] = 169
    PROVE  IsUtf8(s)
<1>1. Needed(195) = 2 /\ Following(195, 1) = 128..191
    BY DEF Needed, Following
<1>2. Continues(s, m + 1, 1)
    BY <1>1 DEF Continues
<1>3. ASSUME NEW i \in 1..Len(s) PROVE InCharacter(s, i)
    <2>1. CASE i = m + 1
        <3>1. i - 0 = m + 1 /\ 0 < i
            BY <2>1
        <3>2. QED
            BY <1>1, <1>2, <2>1, <3>1 DEF InCharacter
    <2>2. CASE i = m + 2
        <3>1. i - 1 = m + 1 /\ 1 < i
            BY <2>2
        <3>2. QED
            BY <1>1, <1>2, <2>2, <3>1 DEF InCharacter
    <2>3. CASE i \in 1..m
        BY <2>3, AsciiIs
    <2>4. QED
        BY <1>3, <2>1, <2>2, <2>3
<1>4. QED
    BY <1>3 DEF IsUtf8

LEMMA LetterIs ==
    ASSUME NEW n \in Nat
    PROVE  Letter(n) \in Nat /\ Letter(n) < 128
    BY DEF Letter

LEMMA AllAreUtf8 ==
    /\ \A n \in Nat : n < 128 => IsUtf8(<<n>>)
    /\ \A m, n \in Nat : m < 128 /\ n < 128 => IsUtf8(<<m, n>>)
    /\ IsUtf8(<<>>) /\ IsUtf8(<< 195, 169 >>) /\ IsUtf8(<< 104, 195, 169 >>)
<1>1. ASSUME NEW n \in Nat, n < 128 PROVE IsUtf8(<<n>>)
    <2> DEFINE s == <<n>>
    <2>1. s \in Seq(Nat) /\ \A i \in 1..Len(s) : s[i] < 128
        BY <1>1
    <2> HIDE DEF s
    <2>2. QED
        BY <2>1, AsciiIsUtf8 DEF s
<1>2. ASSUME NEW m \in Nat, NEW n \in Nat, m < 128, n < 128 PROVE IsUtf8(<<m, n>>)
    <2> DEFINE s == <<m, n>>
    <2>1. s \in Seq(Nat) /\ \A i \in 1..Len(s) : s[i] < 128
        BY <1>2
    <2> HIDE DEF s
    <2>2. QED
        BY <2>1, AsciiIsUtf8 DEF s
<1>3. IsUtf8(<<>>)
    BY DEF IsUtf8
<1>4. IsUtf8(<< 195, 169 >>)
    <2> DEFINE s == << 195, 169 >>
           m == 0
    <2>1. /\ s \in Seq(Nat) /\ Len(s) = m + 2 /\ s[m + 1] = 195 /\ s[m + 2] = 169
          /\ m \in 0..1 /\ \A i \in 1..m : s[i] < 128
        OBVIOUS
    <2> HIDE DEF s, m
    <2>2. IsUtf8(s)
        BY <2>1, LetterIsUtf8
    <2>3. QED
        BY <2>2 DEF s
<1>5. IsUtf8(<< 104, 195, 169 >>)
    <2> DEFINE s == << 104, 195, 169 >>
           m == 1
    <2>1. /\ s \in Seq(Nat) /\ Len(s) = m + 2 /\ s[m + 1] = 195 /\ s[m + 2] = 169
          /\ m \in 0..1 /\ \A i \in 1..m : s[i] < 128
        OBVIOUS
    <2> HIDE DEF s, m
    <2>2. IsUtf8(s)
        BY <2>1, LetterIsUtf8
    <2>3. QED
        BY <2>2 DEF s
<1>6. QED
    BY <1>1, <1>2, <1>3, <1>4, <1>5

\* Such a string is a field.
LEMMA FitsStr ==
    ASSUME NEW name, NEW s \in Seq(Nat), IsUtf8(s)
    PROVE  Fits(Str(name, s), "string") /\ Str(name, s).name = name
<1> DEFINE b == BigEndian(4, Len(s))
<1>1. Len(s) \in Nat
    OBVIOUS
<1>2. b \in Seq(Nat)
    BY <1>1, BigEndianType
<1> HIDE DEF b
<1>3. b \o s \in Seq(Nat)
    BY <1>2, ConcatProperties, Zenon
<1> DEFINE wire == b \o s
<1>4. Str(name, s) = [name |-> name, wire |-> wire, value |-> s]
    BY DEF Str, b
<1> HIDE DEF wire
<1>5. Str(name, s).wire = wire /\ Str(name, s).value = s /\ Str(name, s).name = name
    BY <1>4
<1>6. wire = BigEndian(4, Len(Str(name, s).value)) \o Str(name, s).value
    BY <1>5, Zenon DEF wire, b
<1>7. wire \in Seq(Nat)
    BY <1>3 DEF wire
<1> DEFINE field == Str(name, s)
<1> HIDE DEF field
<1>8. field = [name |-> field.name, wire |-> field.wire, value |-> field.value]
    BY <1>4, <1>5 DEF field
<1>9. QED
    BY <1>5, <1>6, <1>7, <1>8, Zenon DEF Fits, field

\* A value is as long as the tag in front of it says.
LEMMA FitsValue ==
    ASSUME NEW name, NEW s \in Seq(Nat), Len(s) # 0, Len(s) = 1 + ValueWidth(s[1])
    PROVE  Fits(Raw(name, s), "value") /\ Raw(name, s).name = name
<1> DEFINE rest == Tail(s)
<1>1. s[1] \in Nat /\ rest \in Seq(Nat) /\ Len(rest) = Len(s) - 1
      /\ \A i \in 1..Len(rest) : rest[i] = s[i + 1]
    OBVIOUS
<1>2. s = <<s[1]>> \o rest
    <2> DEFINE b == <<s[1]>>
    <2>1. b \in Seq(Nat) /\ Len(b) = 1 /\ b[1] = s[1]
        BY <1>1
    <2> HIDE DEF b, rest
    <2> DEFINE z == b \o rest
    <2>2. /\ z \in Seq(Nat) /\ Len(z) = Len(b) + Len(rest)
          /\ \A i \in 1..(Len(b) + Len(rest)) :
                 z[i] = IF i <= Len(b) THEN b[i] ELSE rest[i - Len(b)]
        <3>1. b \in Seq(Nat) /\ rest \in Seq(Nat)
            BY <1>1, <2>1
        <3>2. QED
            BY <3>1, ConcatProperties, Zenon
    <2> HIDE DEF z
    <2>3. ASSUME NEW i \in 1..Len(s) PROVE z[i] = s[i]
        <3>0. i \in 1..(Len(b) + Len(rest))
            BY <1>1, <2>1
        <3>1. z[i] = IF i <= Len(b) THEN b[i] ELSE rest[i - Len(b)]
            BY <3>0, <2>2, Zenon
        <3>2. CASE i = 1
            BY <2>1, <3>1, <3>2
        <3>3. CASE i # 1
            <4>1. i - 1 \in 1..Len(rest) /\ i - 1 + 1 = i
                BY <1>1, <3>3
            <4>2. z[i] = rest[i - 1]
                BY <2>1, <3>1, <3>3
            <4>3. rest[i - 1] = s[i - 1 + 1]
                BY <1>1, <4>1
            <4>4. QED
                BY <4>1, <4>2, <4>3
        <3>4. QED
            BY <3>2, <3>3
    <2>4. Len(z) = Len(s)
        BY <1>1, <2>1, <2>2
    <2>5. z = s
        BY <2>2, <2>3, <2>4, SeqEqual
    <2>6. QED
        BY <2>5 DEF z, b
<1>3. Len(rest) = ValueWidth(s[1])
    <2>1. ValueWidth(s[1]) \in Nat
        BY ValueWidthType
    <2>2. QED
        BY <1>1, <2>1
<1> HIDE DEF rest
<1>4. Raw(name, s).wire = s /\ Raw(name, s).value = s /\ Raw(name, s).name = name
    BY DEF Raw
<1>5. \E tag \in Nat, r \in Seq(Nat) : s = <<tag>> \o r /\ Len(r) = ValueWidth(tag)
    BY <1>1, <1>2, <1>3
<1> DEFINE field == Raw(name, s)
<1>6. field = [name |-> field.name, wire |-> field.wire, value |-> field.value]
    BY DEF Raw
<1> HIDE DEF field
<1>7. QED
    BY <1>4, <1>5, <1>6, Zenon DEF Fits, field

\* Layouts match fields one by one.
LEMMA MatchesNothing == Matches(<<>>, <<>>)
    BY DEF Matches

LEMMA Matches1 ==
    ASSUME NEW n1, NEW f1, NEW t1,
           Fits(f1, t1), f1.name = n1
    PROVE  Matches(<<<<n1, t1>>>>, <<f1>>)
    BY DEF Matches

LEMMA Matches2 ==
    ASSUME NEW n1, NEW n2, NEW f1, NEW f2, NEW t1, NEW t2,
           Fits(f1, t1), f1.name = n1,
           Fits(f2, t2), f2.name = n2
    PROVE  Matches(<<<<n1, t1>>, <<n2, t2>>>>, <<f1, f2>>)
    BY DEF Matches

LEMMA Matches3 ==
    ASSUME NEW n1, NEW n2, NEW n3, NEW f1, NEW f2, NEW f3, NEW t1, NEW t2, NEW t3,
           Fits(f1, t1), f1.name = n1,
           Fits(f2, t2), f2.name = n2,
           Fits(f3, t3), f3.name = n3
    PROVE  Matches(<<<<n1, t1>>, <<n2, t2>>, <<n3, t3>>>>, <<f1, f2, f3>>)
    BY DEF Matches

LEMMA Matches4 ==
    ASSUME NEW n1, NEW n2, NEW n3, NEW n4, NEW f1, NEW f2, NEW f3, NEW f4, NEW t1, NEW t2, NEW t3, NEW t4,
           Fits(f1, t1), f1.name = n1,
           Fits(f2, t2), f2.name = n2,
           Fits(f3, t3), f3.name = n3,
           Fits(f4, t4), f4.name = n4
    PROVE  Matches(<<<<n1, t1>>, <<n2, t2>>, <<n3, t3>>, <<n4, t4>>>>, <<f1, f2, f3, f4>>)
    BY DEF Matches

LEMMA Matches5 ==
    ASSUME NEW n1, NEW n2, NEW n3, NEW n4, NEW n5, NEW f1, NEW f2, NEW f3, NEW f4, NEW f5, NEW t1, NEW t2, NEW t3, NEW t4, NEW t5,
           Fits(f1, t1), f1.name = n1,
           Fits(f2, t2), f2.name = n2,
           Fits(f3, t3), f3.name = n3,
           Fits(f4, t4), f4.name = n4,
           Fits(f5, t5), f5.name = n5
    PROVE  Matches(<<<<n1, t1>>, <<n2, t2>>, <<n3, t3>>, <<n4, t4>>, <<n5, t5>>>>, <<f1, f2, f3, f4, f5>>)
    BY DEF Matches

LEMMA Matches6 ==
    ASSUME NEW n1, NEW n2, NEW n3, NEW n4, NEW n5, NEW n6, NEW f1, NEW f2, NEW f3, NEW f4, NEW f5, NEW f6, NEW t1, NEW t2, NEW t3, NEW t4, NEW t5, NEW t6,
           Fits(f1, t1), f1.name = n1,
           Fits(f2, t2), f2.name = n2,
           Fits(f3, t3), f3.name = n3,
           Fits(f4, t4), f4.name = n4,
           Fits(f5, t5), f5.name = n5,
           Fits(f6, t6), f6.name = n6
    PROVE  Matches(<<<<n1, t1>>, <<n2, t2>>, <<n3, t3>>, <<n4, t4>>, <<n5, t5>>, <<n6, t6>>>>, <<f1, f2, f3, f4, f5, f6>>)
    BY DEF Matches

LEMMA MatchesBoth ==
    ASSUME NEW l1, NEW f1, NEW l2, NEW f2, Matches(l1, f1), Matches(l2, f2)
    PROVE  Matches(l1 \o l2, f1 \o f2)
<1> DEFINE n1 == Len(f1)
           n2 == Len(f2)
<1>1. /\ n1 \in Nat /\ n2 \in Nat
      /\ Len(l1) = n1 /\ DOMAIN f1 = 1..n1 /\ DOMAIN l1 = 1..n1
      /\ Len(l2) = n2 /\ DOMAIN f2 = 1..n2 /\ DOMAIN l2 = 1..n2
    BY DEF Matches
<1>2. ASSUME NEW s1, NEW s2, s1 = [i \in 1..n1 |-> s1[i]], s2 = [i \in 1..n2 |-> s2[i]]
      PROVE  /\ s1 \o s2 = [i \in 1..(n1 + n2) |-> IF i <= n1 THEN s1[i] ELSE s2[i - n1]]
             /\ Len(s1 \o s2) = n1 + n2
    <2> DEFINE S == {s1[i] : i \in 1..n1} \cup {s2[i] : i \in 1..n2}
    <2>1. s1 \in Seq(S) /\ s2 \in Seq(S) /\ Len(s1) = n1 /\ Len(s2) = n2
        <3>1. \A i \in 1..n1 : s1[i] \in S
            OBVIOUS
        <3>2. \A i \in 1..n2 : s2[i] \in S
            OBVIOUS
        <3> HIDE DEF S, n1, n2
        <3>3. s1 \in Seq(S) /\ Len(s1) = n1
            BY <1>1, <1>2, <3>1
        <3>4. s2 \in Seq(S) /\ Len(s2) = n2
            BY <1>1, <1>2, <3>2
        <3>5. QED
            BY <3>3, <3>4
    <2> HIDE DEF S, n1, n2
    <2> DEFINE z == s1 \o s2
    <2>2. /\ z \in Seq(S) /\ Len(z) = Len(s1) + Len(s2)
          /\ \A i \in 1..(Len(s1) + Len(s2)) :
                 z[i] = IF i <= Len(s1) THEN s1[i] ELSE s2[i - Len(s1)]
        BY <2>1, ConcatProperties, Zenon
    <2> HIDE DEF z
    <2>3. z = [i \in 1..(n1 + n2) |-> IF i <= n1 THEN s1[i] ELSE s2[i - n1]]
        BY <1>1, <2>1, <2>2
    <2>4. QED
        BY <2>1, <2>2, <2>3 DEF z
<1>3. /\ f1 = [i \in 1..n1 |-> f1[i]] /\ l1 = [i \in 1..n1 |-> l1[i]]
      /\ f2 = [i \in 1..n2 |-> f2[i]] /\ l2 = [i \in 1..n2 |-> l2[i]]
    <2>1. /\ f1 = [i \in DOMAIN f1 |-> f1[i]] /\ l1 = [i \in DOMAIN l1 |-> l1[i]]
          /\ f2 = [i \in DOMAIN f2 |-> f2[i]] /\ l2 = [i \in DOMAIN l2 |-> l2[i]]
        BY Zenon DEF Matches
    <2> HIDE DEF n1, n2
    <2>2. QED
        BY <1>1, <2>1
<1> HIDE DEF n1, n2
<1> DEFINE f == f1 \o f2
           l == l1 \o l2
<1>4. /\ f = [i \in 1..(n1 + n2) |-> IF i <= n1 THEN f1[i] ELSE f2[i - n1]]
      /\ l = [i \in 1..(n1 + n2) |-> IF i <= n1 THEN l1[i] ELSE l2[i - n1]]
      /\ Len(f) = n1 + n2 /\ Len(l) = n1 + n2
    <2>1. /\ f = [i \in 1..(n1 + n2) |-> IF i <= n1 THEN f1[i] ELSE f2[i - n1]]
          /\ Len(f) = n1 + n2
        BY <1>2, <1>3, Zenon
    <2>2. /\ l = [i \in 1..(n1 + n2) |-> IF i <= n1 THEN l1[i] ELSE l2[i - n1]]
          /\ Len(l) = n1 + n2
        BY <1>2, <1>3, Zenon
    <2>3. QED
        BY <2>1, <2>2, Zenon
<1> HIDE DEF f, l
<1>5. ASSUME NEW i \in 1..(n1 + n2)
      PROVE  l[i][1] = f[i].name /\ Fits(f[i], l[i][2])
    <2>1. CASE i <= n1
        <3>1. i \in DOMAIN f1 /\ f[i] = f1[i] /\ l[i] = l1[i]
            BY <1>1, <1>4, <2>1
        <3>2. QED
            BY <3>1 DEF Matches
    <2>2. CASE ~(i <= n1)
        <3>1. i - n1 \in DOMAIN f2 /\ f[i] = f2[i - n1] /\ l[i] = l2[i - n1]
            BY <1>1, <1>4, <2>2
        <3>2. QED
            BY <3>1 DEF Matches
    <2>3. QED
        BY <2>1, <2>2
<1>6. n1 + n2 \in Nat /\ DOMAIN f = 1..(n1 + n2) /\ DOMAIN l = 1..(n1 + n2)
    BY <1>1, <1>4
<1>7. f = [i \in 1..(n1 + n2) |-> f[i]] /\ l = [i \in 1..(n1 + n2) |-> l[i]]
    BY <1>4
<1>8. Matches(l, f)
    BY <1>4, <1>5, <1>6, <1>7 DEF Matches
<1>9. QED
    BY <1>8 DEF f, l

\* Each command finds its reply laid out as it reads it: the fields ahead of the
\* list,
LEMMA HeadMatches ==
    ASSUME NEW command \in DOMAIN Layouts
    PROVE  Matches(Layouts[command].head, ReplyHead(command))
<1>1. CASE command = "IdSizes"
    <2>1. /\ Fits(U32("field", 8), "u32") /\ U32("field", 8).name = "field"
          /\ Fits(U32("method", 8), "u32") /\ U32("method", 8).name = "method"
          /\ Fits(U32("object", 8), "u32") /\ U32("object", 8).name = "object"
          /\ Fits(U32("refType", 8), "u32") /\ U32("refType", 8).name = "refType"
          /\ Fits(U32("frame", 8), "u32") /\ U32("frame", 8).name = "frame"
        BY FitsU32, FitsId, FitsByte
    <2>2. Matches(IdSizes.head, <<U32("field", 8), U32("method", 8), U32("object", 8), U32("refType", 8), U32("frame", 8)>>)
        BY <2>1, Matches5, Zenon DEF IdSizes
    <2>3. Layouts[command] = IdSizes
        BY <1>1 DEF Layouts
    <2>4. QED
        BY <1>1, <2>2, <2>3 DEF ReplyHead
<1>2. CASE command = "LineTable"
    <2>1. /\ Fits(Id("start", 0), "u64") /\ Id("start", 0).name = "start"
          /\ Fits(Id("end", 9), "u64") /\ Id("end", 9).name = "end"
        BY FitsU32, FitsId, FitsByte
    <2>2. Matches(LineTable.head, <<Id("start", 0), Id("end", 9)>>)
        BY <2>1, Matches2, Zenon DEF LineTable
    <2>3. Layouts[command] = LineTable
        BY <1>2 DEF Layouts
    <2>4. QED
        BY <1>2, <2>2, <2>3 DEF ReplyHead
<1>3. CASE command = "VariableTable"
    <2>1. Fits(U32("_", 1), "u32") /\ U32("_", 1).name = "_"
        BY FitsU32, FitsId, FitsByte
    <2>2. Matches(VariableTable.head, <<U32("_", 1)>>)
        BY <2>1, Matches1, Zenon DEF VariableTable
    <2>3. Layouts[command] = VariableTable
        BY <1>3 DEF Layouts
    <2>4. QED
        BY <1>3, <2>2, <2>3 DEF ReplyHead
<1>4. CASE command = "RequestId"
    <2>1. Fits(U32("requestId", 3), "u32") /\ U32("requestId", 3).name = "requestId"
        BY FitsU32, FitsId, FitsByte
    <2>2. Matches(RequestId.head, <<U32("requestId", 3)>>)
        BY <2>1, Matches1, Zenon DEF RequestId
    <2>3. Layouts[command] = RequestId
        BY <1>4 DEF Layouts
    <2>4. QED
        BY <1>4, <2>2, <2>3 DEF ReplyHead
<1>5. CASE command = "StringValue"
    <2>1. Fits(Str("string", << 104, 195, 169 >>), "string") /\ Str("string", << 104, 195, 169 >>).name = "string"
        <3>1. << 104, 195, 169 >> \in Seq(Nat) /\ IsUtf8(<< 104, 195, 169 >>)
            BY AllAreUtf8, LetterIs
        <3>2. QED
            BY <3>1, FitsStr, Zenon
    <2>2. Matches(StringValue.head, <<Str("string", << 104, 195, 169 >>)>>)
        BY <2>1, Matches1, Zenon DEF StringValue
    <2>3. Layouts[command] = StringValue
        BY <1>5 DEF Layouts
    <2>4. QED
        BY <1>5, <2>2, <2>3 DEF ReplyHead
<1>6. CASE command = "TypeOfObject"
    <2>1. /\ Fits(Raw("tag", << 1 >>), "u8") /\ Raw("tag", << 1 >>).name = "tag"
          /\ Fits(Id("typeId", 2), "id") /\ Id("typeId", 2).name = "typeId"
        BY FitsU32, FitsId, FitsByte
    <2>2. Matches(TypeOfObject.head, <<Raw("tag", << 1 >>), Id("typeId", 2)>>)
        BY <2>1, Matches2, Zenon DEF TypeOfObject
    <2>3. Layouts[command] = TypeOfObject
        BY <1>6 DEF Layouts
    <2>4. QED
        BY <1>6, <2>2, <2>3 DEF ReplyHead
<1>7. CASE command \in {"AllClasses", "AllThreads", "Methods", "Frames", "Values"}
    <2>1. Layouts[command] \in {AllClasses, AllThreads, Methods, Frames, Values}
        BY <1>7 DEF Layouts
    <2>2. /\ AllClasses.head = <<>> /\ AllThreads.head = <<>> /\ Methods.head = <<>>
          /\ Frames.head = <<>> /\ Values.head = <<>>
        BY DEF AllClasses, AllThreads, Methods, Frames, Values
    <2>3. ReplyHead(command) = <<>>
        BY <1>7 DEF ReplyHead
    <2>4. Layouts[command].head = <<>>
        BY <2>1, <2>2, Zenon
    <2>5. QED
        BY <2>3, <2>4, MatchesNothing
<1>8. QED
    BY <1>1, <1>2, <1>3, <1>4, <1>5, <1>6, <1>7 DEF Layouts

\* a location,
LEMMA PlaceMatches ==
    ASSUME NEW n \in Nat
    PROVE  Matches(LocationFields, Place(n))
<1>1. n + 1 \in Nat /\ n + 2 \in Nat
    OBVIOUS
<1>2. /\ Fits(Raw("typeTag", << 1 >>), "u8") /\ Raw("typeTag", << 1 >>).name = "typeTag"
      /\ Fits(Id("classId", n), "id") /\ Id("classId", n).name = "classId"
      /\ Fits(Id("methodId", n + 1), "id") /\ Id("methodId", n + 1).name = "methodId"
      /\ Fits(Id("index", n + 2), "u64") /\ Id("index", n + 2).name = "index"
    BY <1>1, FitsByte, FitsId
<1>3. QED
    BY <1>2, Matches4, Zenon DEF LocationFields, Place

\* and the items of it.
LEMMA ItemMatches ==
    ASSUME NEW command \in HasList, NEW i \in Nat,
           command = "Values" => i \in 1..Len(SomeValues)
    PROVE  Matches(Layouts[command].item, ReplyItem(command, i))
<1>1. CASE command = "AllClasses"
    <2>1. /\ Fits(Raw("refTypeTag", << 1 >>), "u8") /\ Raw("refTypeTag", << 1 >>).name = "refTypeTag"
          /\ Fits(Id("refTypeId", i), "id") /\ Id("refTypeId", i).name = "refTypeId"
          /\ Fits(U32("status", 7), "u32") /\ U32("status", 7).name = "status"
        BY FitsU32, FitsId, FitsByte
    <2>2. Fits(Str("signature", << 76, Letter(i) >>), "string") /\ Str("signature", << 76, Letter(i) >>).name = "signature"
        <3>1. << 76, Letter(i) >> \in Seq(Nat) /\ IsUtf8(<< 76, Letter(i) >>)
            BY AllAreUtf8, LetterIs
        <3>2. QED
            BY <3>1, FitsStr, Zenon
    <2>3. Fits(Str("_", << 9 >>), "string") /\ Str("_", << 9 >>).name = "_"
        <3>1. << 9 >> \in Seq(Nat) /\ IsUtf8(<< 9 >>)
            BY AllAreUtf8, LetterIs
        <3>2. QED
            BY <3>1, FitsStr, Zenon
    <2>4. Matches(AllClasses.item, <<Raw("refTypeTag", << 1 >>), Id("refTypeId", i), Str("signature", << 76, Letter(i) >>), Str("_", << 9 >>), U32("status", 7)>>)
        BY <2>1, <2>2, <2>3, Matches5, ZenonT(40) DEF AllClasses
    <2>5. Layouts[command] = AllClasses
        BY <1>1 DEF Layouts
    <2>6. QED
        BY <1>1, <2>4, <2>5 DEF ReplyItem
<1>2. CASE command = "AllThreads"
    <2>1. Fits(Id("thread", i), "id") /\ Id("thread", i).name = "thread"
        BY FitsU32, FitsId, FitsByte
    <2>2. Matches(AllThreads.item, <<Id("thread", i)>>)
        BY <2>1, Matches1, Zenon DEF AllThreads
    <2>3. Layouts[command] = AllThreads
        BY <1>2 DEF Layouts
    <2>4. QED
        BY <1>2, <2>2, <2>3 DEF ReplyItem
<1>3. CASE command = "Methods"
    <2>1. /\ Fits(Id("methodId", i), "id") /\ Id("methodId", i).name = "methodId"
          /\ Fits(U32("modBits", 1), "u32") /\ U32("modBits", 1).name = "modBits"
        BY FitsU32, FitsId, FitsByte
    <2>2. Fits(Str("name", <<Letter(i)>>), "string") /\ Str("name", <<Letter(i)>>).name = "name"
        <3>1. <<Letter(i)>> \in Seq(Nat) /\ IsUtf8(<<Letter(i)>>)
            BY AllAreUtf8, LetterIs
        <3>2. QED
            BY <3>1, FitsStr, Zenon
    <2>3. Fits(Str("signature", << 40, Letter(i) >>), "string") /\ Str("signature", << 40, Letter(i) >>).name = "signature"
        <3>1. << 40, Letter(i) >> \in Seq(Nat) /\ IsUtf8(<< 40, Letter(i) >>)
            BY AllAreUtf8, LetterIs
        <3>2. QED
            BY <3>1, FitsStr, Zenon
    <2>4. Fits(Str("_", <<>>), "string") /\ Str("_", <<>>).name = "_"
        <3>1. <<>> \in Seq(Nat) /\ IsUtf8(<<>>)
            BY AllAreUtf8, LetterIs
        <3>2. QED
            BY <3>1, FitsStr, Zenon
    <2>5. Matches(Methods.item, <<Id("methodId", i), Str("name", <<Letter(i)>>), Str("signature", << 40, Letter(i) >>), Str("_", <<>>), U32("modBits", 1)>>)
        BY <2>1, <2>2, <2>3, <2>4, Matches5, Zenon DEF Methods
    <2>6. Layouts[command] = Methods
        BY <1>3 DEF Layouts
    <2>7. QED
        BY <1>3, <2>5, <2>6 DEF ReplyItem
<1>4. CASE command = "LineTable"
    <2>1. /\ Fits(Id("codeIndex", i), "u64") /\ Id("codeIndex", i).name = "codeIndex"
          /\ Fits(U32("line", i), "u32") /\ U32("line", i).name = "line"
        BY FitsU32, FitsId, FitsByte
    <2>2. Matches(LineTable.item, <<Id("codeIndex", i), U32("line", i)>>)
        BY <2>1, Matches2, Zenon DEF LineTable
    <2>3. Layouts[command] = LineTable
        BY <1>4 DEF Layouts
    <2>4. QED
        BY <1>4, <2>2, <2>3 DEF ReplyItem
<1>5. CASE command = "VariableTable"
    <2>1. /\ Fits(Id("codeIndex", i), "u64") /\ Id("codeIndex", i).name = "codeIndex"
          /\ Fits(U32("length", 5), "u32") /\ U32("length", 5).name = "length"
          /\ Fits(U32("slot", i), "u32") /\ U32("slot", i).name = "slot"
        BY FitsU32, FitsId, FitsByte
    <2>2. Fits(Str("name", <<Letter(i)>>), "string") /\ Str("name", <<Letter(i)>>).name = "name"
        <3>1. <<Letter(i)>> \in Seq(Nat) /\ IsUtf8(<<Letter(i)>>)
            BY AllAreUtf8, LetterIs
        <3>2. QED
            BY <3>1, FitsStr, Zenon
    <2>3. Fits(Str("signature", << 73 >>), "string") /\ Str("signature", << 73 >>).name = "signature"
        <3>1. << 73 >> \in Seq(Nat) /\ IsUtf8(<< 73 >>)
            BY AllAreUtf8, LetterIs
        <3>2. QED
            BY <3>1, FitsStr, Zenon
    <2>4. Fits(Str("_", <<>>), "string") /\ Str("_", <<>>).name = "_"
        <3>1. <<>> \in Seq(Nat) /\ IsUtf8(<<>>)
            BY AllAreUtf8, LetterIs
        <3>2. QED
            BY <3>1, FitsStr, Zenon
    <2>5. Matches(VariableTable.item, <<Id("codeIndex", i), Str("name", <<Letter(i)>>), Str("signature", << 73 >>), Str("_", <<>>), U32("length", 5), U32("slot", i)>>)
        BY <2>1, <2>2, <2>3, <2>4, Matches6, ZenonT(40) DEF VariableTable
    <2>6. Layouts[command] = VariableTable
        BY <1>5 DEF Layouts
    <2>7. QED
        BY <1>5, <2>5, <2>6 DEF ReplyItem
<1>6. CASE command = "Frames"
    <2> DEFINE id == <<Id("frameId", i)>>
    <2>1. Matches(<<<<"frameId", "id">>>>, id)
        BY FitsId, Matches1
    <2>2. Matches(LocationFields, Place(i))
        BY PlaceMatches
    <2> HIDE DEF id
    <2>3. Matches(<<<<"frameId", "id">>>> \o LocationFields, id \o Place(i))
        BY <2>1, <2>2, MatchesBoth
    <2>4. Layouts[command].item = <<<<"frameId", "id">>>> \o LocationFields
        BY <1>6 DEF Layouts, Frames
    <2>5. ReplyItem(command, i) = id \o Place(i)
        BY <1>6 DEF ReplyItem, id
    <2>6. QED
        BY <2>3, <2>4, <2>5, Zenon
<1>7. CASE command = "Values"
    <2> DEFINE s == SomeValues[i]
    <2>1. i \in 1..11
        BY <1>7 DEF SomeValues
    <2>2. s \in Seq(Nat) /\ Len(s) # 0 /\ Len(s) = 1 + ValueWidth(s[1])
        <3>1. /\ ValueWidth(66) = 1
              /\ ValueWidth(67) = 2
              /\ ValueWidth(68) = 8
              /\ ValueWidth(70) = 4
              /\ ValueWidth(73) = 4
              /\ ValueWidth(74) = 8
              /\ ValueWidth(83) = 2
              /\ ValueWidth(86) = 0
              /\ ValueWidth(90) = 1
              /\ ValueWidth(76) = 8
              /\ ValueWidth(115) = 8
            BY DEF ValueWidth, Tags, IdWidth
        <3>2. CASE i = 1
            <4>1. s = <<66, 1>>
                BY <3>2 DEF SomeValues
            <4> HIDE DEF s
            <4>2. QED
                BY <3>1, <4>1
        <3>3. CASE i = 2
            <4>1. s = <<67, 0, 2>>
                BY <3>3 DEF SomeValues
            <4> HIDE DEF s
            <4>2. QED
                BY <3>1, <4>1
        <3>4. CASE i = 3
            <4>1. s = <<68, 0, 0, 0, 0, 0, 0, 0, 3>>
                BY <3>4 DEF SomeValues
            <4> HIDE DEF s
            <4>2. QED
                BY <3>1, <4>1
        <3>5. CASE i = 4
            <4>1. s = <<70, 0, 0, 0, 4>>
                BY <3>5 DEF SomeValues
            <4> HIDE DEF s
            <4>2. QED
                BY <3>1, <4>1
        <3>6. CASE i = 5
            <4>1. s = <<73, 0, 0, 0, 5>>
                BY <3>6 DEF SomeValues
            <4> HIDE DEF s
            <4>2. QED
                BY <3>1, <4>1
        <3>7. CASE i = 6
            <4>1. s = <<74, 0, 0, 0, 0, 0, 0, 0, 6>>
                BY <3>7 DEF SomeValues
            <4> HIDE DEF s
            <4>2. QED
                BY <3>1, <4>1
        <3>8. CASE i = 7
            <4>1. s = <<83, 0, 7>>
                BY <3>8 DEF SomeValues
            <4> HIDE DEF s
            <4>2. QED
                BY <3>1, <4>1
        <3>9. CASE i = 8
            <4>1. s = << 86 >>
                BY <3>9 DEF SomeValues
            <4> HIDE DEF s
            <4>2. QED
                BY <3>1, <4>1
        <3>10. CASE i = 9
            <4>1. s = <<90, 1>>
                BY <3>10 DEF SomeValues
            <4> HIDE DEF s
            <4>2. QED
                BY <3>1, <4>1
        <3>11. CASE i = 10
            <4>1. s = <<76, 1, 2, 3, 4, 5, 6, 7, 8>>
                BY <3>11 DEF SomeValues
            <4> HIDE DEF s
            <4>2. QED
                BY <3>1, <4>1
        <3>12. CASE i = 11
            <4>1. s = <<115, 1, 2, 3, 4, 5, 6, 7, 9>>
                BY <3>12 DEF SomeValues
            <4> HIDE DEF s
            <4>2. QED
                BY <3>1, <4>1
        <3>13. QED
            BY <2>1, <3>2, <3>3, <3>4, <3>5, <3>6, <3>7, <3>8, <3>9, <3>10, <3>11, <3>12
    <2> HIDE DEF s
    <2>3. Fits(Raw("value", s), "value") /\ Raw("value", s).name = "value"
        BY <2>2, FitsValue
    <2>4. Matches(Values.item, <<Raw("value", s)>>)
        BY <2>3, Matches1 DEF Values
    <2>5. Layouts[command] = Values
        BY <1>7 DEF Layouts
    <2>6. ReplyItem(command, i) = <<Raw("value", s)>>
        BY <1>7 DEF ReplyItem, s
    <2>7. QED
        BY <2>4, <2>5, <2>6
<1>8. QED
    BY <1>1, <1>2, <1>3, <1>4, <1>5, <1>6, <1>7 DEF HasList, Layouts

-----------------------------------------------------------------------------
(* Replies.                                                                *)
LEMMA FlattenNothing ==
    ASSUME NEW ss, ss = <<>>
    PROVE  FlattenSeq(ss) = <<>>
    BY DEF FlattenSeq

LEMMA ConcatNothing ==
    ASSUME NEW s \in Seq(Nat)
    PROVE  s \o <<>> = s
    OBVIOUS

LEMMA ReplySizeType ==
    ASSUME NEW command \in DOMAIN Layouts, NEW n \in Nat
    PROVE  /\ ReplySize(command, n) \in Nat
           /\ command = "Values" => ReplySize(command, n) = Len(SomeValues)
           /\ command \notin HasList => ReplySize(command, n) = 0
<1>1. Len(SomeValues) \in Nat
    BY DEF SomeValues
<1>2. CASE command = "Values"
    BY <1>1, <1>2 DEF ReplySize, HasList, Layouts
<1>3. CASE command \in HasList \ {"Values"}
    BY <1>3 DEF ReplySize
<1>4. CASE command \notin HasList /\ command # "Values"
    BY <1>4 DEF ReplySize
<1>5. QED
    BY <1>2, <1>3, <1>4

LEMMA ItemOrNot ==
    ASSUME NEW command \in DOMAIN Layouts
    PROVE  command \in HasList <=> Layouts[command].item # <<>>
<1>1. CASE command \in {"IdSizes", "RequestId", "StringValue", "TypeOfObject"}
    <2>1. Layouts[command] \in {IdSizes, RequestId, StringValue, TypeOfObject}
        BY <1>1 DEF Layouts
    <2>2. /\ IdSizes.item = <<>> /\ RequestId.item = <<>> /\ StringValue.item = <<>>
          /\ TypeOfObject.item = <<>>
        BY DEF IdSizes, RequestId, StringValue, TypeOfObject
    <2>3. Layouts[command].item = <<>>
        BY <2>1, <2>2, Zenon
    <2>4. command \notin HasList
        BY <1>1 DEF HasList
    <2>5. QED
        BY <2>3, <2>4
<1>2. CASE command \notin {"IdSizes", "RequestId", "StringValue", "TypeOfObject"}
    <2>1. command \in HasList
        BY <1>2 DEF HasList
    <2>2. Matches(Layouts[command].item, ReplyItem(command, 1))
        <3>1. 1 \in 1..Len(SomeValues)
            BY DEF SomeValues
        <3>2. QED
            BY <2>1, <3>1, ItemMatches
    <2>3. Len(ReplyItem(command, 1)) # 0
        <3>1. command \in {"AllClasses", "AllThreads", "Methods", "LineTable",
                           "VariableTable", "Frames", "Values"}
            BY <2>1 DEF HasList, Layouts
        <3>2. CASE command = "Frames"
            <4> DEFINE id == <<Id("frameId", 1)>>
                       p  == Place(1)
            <4>1. Matches(<<<<"frameId", "id">>>>, id) /\ Matches(LocationFields, p)
                BY FitsId, Matches1, PlaceMatches
            <4>2. ReplyItem(command, 1) = id \o p
                BY <3>2 DEF ReplyItem
            <4>3. Len(LocationFields) = 4
                BY DEF LocationFields
            <4>4. Len(id) = 1 /\ p = [i \in 1..4 |-> p[i]] /\ id = [i \in 1..1 |-> id[i]]
                BY DEF Place
            <4> HIDE DEF id, p
            <4>5. QED
                BY <4>2, <4>4
        <3>3. CASE command # "Frames"
            BY <3>1, <3>3 DEF ReplyItem
        <3>4. QED
            BY <3>2, <3>3
    <2>4. QED
        BY <2>1, <2>2, <2>3 DEF Matches
<1>3. QED
    BY <1>1, <1>2

\* The data of a reply are decoded to what the agent meant.
LEMMA ReplyUnderstood ==
    ASSUME NEW command \in DOMAIN Layouts, NEW n \in Nat
    PROVE  /\ ReplyData(command, n) \in Seq(Nat)
           /\ DecodeReply(ReplyData(command, n), Layouts[command]).ok
           /\ DecodeReply(ReplyData(command, n), Layouts[command]).value
                = ReplyMeaning(command, n)
<1> DEFINE size == ReplySize(command, n)
           layout == Layouts[command]
           items == [i \in 1..size |-> ReplyItem(command, i)]
           ws == [i \in 1..size |-> Written(ReplyItem(command, i))]
           flat == FlattenSeq(ws)
           fields == ReplyHead(command)
           w == Written(fields)
           b == IF command \in HasList THEN BigEndian(4, size) ELSE <<>>
           data == w \o b \o flat
           head == ReadRecord(data, Start, layout.head)
           reply == DecodeReply(data, layout)
<1>1. size \in Nat /\ (command \notin HasList => size = 0)
      /\ (command = "Values" => size = Len(SomeValues))
    BY ReplySizeType
<1>2. Matches(layout.head, fields)
    BY HeadMatches
<1>3. w \in Seq(Nat)
    BY <1>2, WrittenType
<1>4. \A i \in 1..size : command \in HasList => Matches(layout.item, ReplyItem(command, i))
    BY <1>1, ItemMatches
<1>5. ws \in Seq(Seq(Nat))
    <2> HIDE DEF size
    <2>1. ASSUME NEW i \in 1..size PROVE Written(ReplyItem(command, i)) \in Seq(Nat)
        <3>1. command \in HasList
            BY <1>1
        <3>2. QED
            BY <1>4, <3>1, WrittenType
    <2>2. QED
        BY <1>1, <2>1
<1>6. flat \in Seq(Nat)
    BY <1>5, FlattenType
<1>7. b \in Seq(Nat)
    BY <1>1, BigEndianType
<1>8. ReplyData(command, n) = data
    BY Zenon DEF ReplyData
<1>9. ReplyMeaning(command, n) = [head |-> Meaning(fields),
                                  items |-> [i \in 1..size |-> Meaning(ReplyItem(command, i))]]
    BY Zenon DEF ReplyMeaning
<1>10. reply = [ok |-> (IF layout.item = <<>> THEN head.cursor
                        ELSE ReadList(data, head.cursor, layout.item).cursor).ok,
                value |-> [head |-> head.fields,
                           items |-> IF layout.item = <<>> THEN <<>>
                                     ELSE ReadList(data, head.cursor, layout.item).items]]
    BY DEF DecodeReply
<1> HIDE DEF w, b, flat
<1>11. w \o b \in Seq(Nat) /\ data \in Seq(Nat)
    BY <1>3, <1>6, <1>7, ConcatProperties, Zenon
<1> HIDE DEF data
<1>12. Holds(data, 0, (w \o b) \o flat)
    BY <1>11, HoldsAll DEF data
<1>13. Holds(data, 0, w \o b) /\ Holds(data, 0 + Len(w \o b), flat)
    BY <1>6, <1>11, <1>12, HoldsBoth
<1>14. Holds(data, 0, w) /\ 0 + Len(w) \in Nat /\ Holds(data, 0 + Len(w), b)
       /\ 0 + Len(w) + Len(b) = 0 + Len(w \o b)
    BY <1>3, <1>7, <1>11, <1>13, HoldsBoth
<1> DEFINE a == 0 + Len(w)
<1>15. Stands(head.cursor, a) /\ head.fields = Meaning(fields)
    <2>1. Stands(Start, 0)
        BY DEF Start, Stands
    <2>2. QED
        BY <1>2, <1>11, <1>14, <2>1, ReadRecordThere DEF w
<1> HIDE DEF head, reply, a
<1>16. CASE command \in HasList
    <2>1. layout.item # <<>>
        BY <1>16, ItemOrNot
    <2>2. b = BigEndian(4, size) /\ Len(b) = 4
        BY <1>1, <1>16, BigEndianType DEF b
    <2>3. a \in Nat /\ Holds(data, a, BigEndian(4, size)) /\ Holds(data, a + 4, flat)
        BY <1>13, <1>14, <2>2, Zenon DEF a
    <2>4. ws = [i \in 1..size |-> Written(items[i])]
          /\ \A i \in 1..size : Matches(layout.item, items[i])
        BY <1>4, <1>16
    <2> DEFINE list == ReadList(data, head.cursor, layout.item)
    <2> HIDE DEF size, items, ws, layout
    <2>5. /\ Stands(list.cursor, a + 4 + Len(flat))
          /\ list.items = [i \in 1..size |-> Meaning(items[i])]
        <3> DEFINE d == head.cursor
                   item == layout.item
        <3>1. data \in Seq(Nat) /\ size \in Nat /\ Stands(d, a)
            BY <1>1, <1>11, <1>15
        <3>2. Holds(data, a + 4, FlattenSeq(ws))
            BY <2>3 DEF flat
        <3>3. Lists(item, size, items, ws)
            BY <2>4 DEF Lists
        <3> HIDE DEF d, item
        <3>4. /\ Stands(ReadList(data, d, item).cursor, a + 4 + Len(FlattenSeq(ws)))
              /\ ReadList(data, d, item).items = [i \in 1..size |-> Meaning(items[i])]
            BY <2>3, <3>1, <3>2, <3>3, ReadListThere
        <3>5. QED
            BY <3>4 DEF d, item, flat
    <2>6. list.items = [i \in 1..size |-> Meaning(ReplyItem(command, i))]
        BY <2>5 DEF items
    <2>7. reply = [ok |-> list.cursor.ok,
                   value |-> [head |-> head.fields, items |-> list.items]]
        BY <1>10, <2>1
    <2> HIDE DEF list
    <2>8. reply.ok /\ reply.value = [head |-> head.fields, items |-> list.items]
        BY <2>5, <2>7 DEF Stands
    <2>9. QED
        BY <1>8, <1>9, <1>11, <1>15, <2>6, <2>8, Zenon DEF reply, layout, size
<1>17. CASE command \notin HasList
    <2>1. layout.item = <<>>
        BY <1>17, ItemOrNot
    <2>2. [i \in 1..size |-> Meaning(ReplyItem(command, i))] = <<>>
        BY <1>1, <1>17
    <2>3. reply = [ok |-> head.cursor.ok, value |-> [head |-> head.fields, items |-> <<>>]]
        BY <1>10, <2>1
    <2>4. reply.ok /\ reply.value = [head |-> head.fields, items |-> <<>>]
        BY <1>15, <2>3 DEF Stands
    <2>5. QED
        BY <1>8, <1>9, <1>11, <1>15, <2>2, <2>4, Zenon DEF reply, layout
<1>18. QED
    BY <1>16, <1>17

-----------------------------------------------------------------------------
(* Packets.                                                                *)
\* x is w bytes.
Run(x, w) == x \in Seq(Nat) /\ Len(x) = w

\* Two runs make one, and each is where the other leaves it.
LEMMA RunBoth ==
    ASSUME NEW x, NEW w, Run(x, w), NEW y, NEW v, Run(y, v)
    PROVE  Run(x \o y, w + v) /\ w \in Nat /\ v \in Nat
<1>1. x \in Seq(Nat) /\ y \in Seq(Nat) /\ Len(x) = w /\ Len(y) = v
    BY DEF Run
<1>2. x \o y \in Seq(Nat) /\ Len(x \o y) = Len(x) + Len(y)
    BY <1>1, ConcatProperties, Zenon
<1>3. Len(x) \in Nat /\ Len(y) \in Nat
    BY <1>1
<1>4. QED
    BY <1>1, <1>2, <1>3, Zenon DEF Run

LEMMA RunHolds ==
    ASSUME NEW data \in Seq(Nat), NEW a \in Nat, NEW x, NEW w, Run(x, w), NEW y, NEW v, Run(y, v),
           Holds(data, a, x \o y)
    PROVE  Holds(data, a, x) /\ Holds(data, a + w, y) /\ a + w \in Nat
<1>1. x \in Seq(Nat) /\ y \in Seq(Nat) /\ Len(x) = w
    BY DEF Run
<1>2. Holds(data, a, x) /\ Holds(data, a + Len(x), y) /\ a + Len(x) \in Nat
    BY <1>1, HoldsBoth
<1>3. QED
    BY <1>1, <1>2, Zenon

\* The cursor has got to a, having read x.
Gives(c, a, x) == Stands(c, a) /\ c.got = x

\* A run of bytes that is there is read.
LEMMA RunRead ==
    ASSUME NEW data \in Seq(Nat), NEW a, NEW x, NEW w, Run(x, w), Holds(data, a, x),
           NEW c, Stands(c, a)
    PROVE  Gives(Read(data, c, w), a + w, x)
<1>1. x \in Seq(Nat) /\ Len(x) = w
    BY DEF Run
<1>2. Stands(Read(data, c, Len(x)), a + Len(x)) /\ Read(data, c, Len(x)).got = x
    BY <1>1, ReadThere
<1>3. QED
    BY <1>1, <1>2, Zenon DEF Gives

LEMMA RunBigEndian ==
    ASSUME NEW w \in Nat, NEW n \in Nat
    PROVE  Run(BigEndian(w, n), w)
    BY BigEndianType DEF Run

LEMMA RunSeq ==
    ASSUME NEW x \in Seq(Nat)
    PROVE  Run(x, Len(x)) /\ Len(x) \in Nat
    BY DEF Run

\* A framed packet is taken out of its frame.
LEMMA FramedThere ==
    ASSUME NEW flags \in Nat, NEW code, Run(code, 2), NEW data \in Seq(Nat)
    PROVE  LET bytes == Framed(flags, code, data)
           IN  /\ bytes \in Seq(Nat)
               /\ ReadPacket(bytes).ok
               /\ ReadPacket(bytes).isReply <=> flags >= 128
               /\ ReadPacket(bytes).code = code
               /\ ReadPacket(bytes).data = data
<1> DEFINE n == Len(data) + 11
           b1 == BigEndian(4, n)
           b2 == BigEndian(4, 9)
           b3 == <<flags>>
           p2 == b1 \o b2
           p3 == p2 \o b3
           p4 == p3 \o code
           p5 == p4 \o data
           length == Read(p5, Start, 4)
           id == Read(p5, length, 4)
           flag == Read(p5, id, 1)
           err == Read(p5, flag, 2)
           body == Read(p5, err, Len(data))
<1>1. n \in Nat /\ Len(data) \in Nat /\ (IF n > 11 THEN n - 11 ELSE 0) = Len(data)
    OBVIOUS
<1>2. Run(b1, 4) /\ Run(b2, 4) /\ Run(b3, 1) /\ Run(data, Len(data))
    <2>1. Run(b1, 4) /\ Run(b2, 4)
        <3> HIDE DEF n
        <3>1. QED
            BY <1>1, RunBigEndian
    <2>2. Run(b3, 1)
        BY DEF Run
    <2>3. Run(data, Len(data))
        BY RunSeq
    <2>4. QED
        BY <2>1, <2>2, <2>3
<1>3. Number(b1) = n /\ Number(b3) = flags
    BY <1>1, Number4, Number1
<1>4. Framed(flags, code, data) = p5
    BY Zenon DEF Framed
<1>5. ReadPacket(p5) = [ok |-> Read(p5, err, IF Number(length.got) > 11
                                            THEN Number(length.got) - 11 ELSE 0).ok,
                        isReply |-> Number(flag.got) >= 128, id |-> id.got, code |-> err.got,
                        data |-> Read(p5, err, IF Number(length.got) > 11
                                            THEN Number(length.got) - 11 ELSE 0).got]
    BY Zenon DEF ReadPacket
<1> HIDE DEF n, b1, b2, b3
<1>6. Run(p2, 8)
    <2>1. Run(p2, 4 + 4)
        BY <1>2, RunBoth, Zenon
    <2>2. QED
        BY <2>1
<1> HIDE DEF p2
<1>7. Run(p3, 9)
    <2>1. Run(p3, 8 + 1)
        BY <1>2, <1>6, RunBoth, Zenon
    <2>2. QED
        BY <2>1
<1> HIDE DEF p3
<1>8. Run(p4, 11)
    <2>1. Run(p4, 9 + 2)
        BY <1>7, RunBoth, Zenon
    <2>2. QED
        BY <2>1
<1> HIDE DEF p4
<1>9. p5 \in Seq(Nat)
    BY <1>2, <1>8, RunBoth DEF Run
<1> HIDE DEF p5
<1>10. Holds(p5, 0, p4 \o data)
    BY <1>9, HoldsAll DEF p5
<1>11. Holds(p5, 0, p4) /\ Holds(p5, 11, data)
    <2>1. Holds(p5, 0, p4) /\ Holds(p5, 0 + 11, data)
        BY <1>2, <1>8, <1>9, <1>10, RunHolds
    <2>2. QED
        BY <2>1
<1>12. Holds(p5, 0, p3) /\ Holds(p5, 9, code)
    <2>1. Holds(p5, 0, p3) /\ Holds(p5, 0 + 9, code)
        BY <1>7, <1>9, <1>11, RunHolds DEF p4
    <2>2. QED
        BY <2>1
<1>13. Holds(p5, 0, p2) /\ Holds(p5, 8, b3)
    <2>1. Holds(p5, 0, p2) /\ Holds(p5, 0 + 8, b3)
        BY <1>2, <1>6, <1>9, <1>12, RunHolds DEF p3
    <2>2. QED
        BY <2>1
<1>14. Holds(p5, 0, b1) /\ Holds(p5, 4, b2)
    <2>1. Holds(p5, 0, b1) /\ Holds(p5, 0 + 4, b2)
        BY <1>2, <1>9, <1>13, RunHolds DEF p2
    <2>2. QED
        BY <2>1
<1>15. Stands(length, 4) /\ length.got = b1
    <2>1. Stands(Start, 0)
        BY DEF Start, Stands
    <2>2. Gives(length, 0 + 4, b1)
        BY <1>2, <1>9, <1>14, <2>1, RunRead
    <2>3. QED
        BY <2>2 DEF Gives
<1> HIDE DEF length
<1>16. Stands(id, 8)
    <2>1. Gives(id, 4 + 4, b2)
        BY <1>2, <1>9, <1>14, <1>15, RunRead
    <2>2. QED
        BY <2>1 DEF Gives
<1> HIDE DEF id
<1>17. Stands(flag, 9) /\ flag.got = b3
    <2>1. Gives(flag, 8 + 1, b3)
        BY <1>2, <1>9, <1>13, <1>16, RunRead
    <2>2. QED
        BY <2>1 DEF Gives
<1> HIDE DEF flag
<1>18. Stands(err, 11) /\ err.got = code
    <2>1. Gives(err, 9 + 2, code)
        BY <1>9, <1>12, <1>17, RunRead
    <2>2. QED
        BY <2>1 DEF Gives
<1> HIDE DEF err
<1>19. body.ok /\ body.got = data
    <2>1. Gives(body, 11 + Len(data), data)
        BY <1>2, <1>9, <1>11, <1>18, RunRead
    <2>2. QED
        BY <2>1 DEF Gives, Stands
<1>20. Number(length.got) = n /\ Number(flag.got) = flags
    BY <1>3, <1>15, <1>17
<1>21. Read(p5, err, IF Number(length.got) > 11 THEN Number(length.got) - 11 ELSE 0) = body
    <2>1. (IF Number(length.got) > 11 THEN Number(length.got) - 11 ELSE 0) = Len(data)
        BY <1>1, <1>20
    <2>2. QED
        BY <2>1, Zenon
<1> HIDE DEF body
<1> DEFINE packet == ReadPacket(p5)
<1>22. packet = [ok |-> body.ok, isReply |-> Number(flag.got) >= 128, id |-> id.got,
                 code |-> err.got, data |-> body.got]
    BY <1>5, <1>21, Zenon
<1>23. packet = [ok |-> body.ok, isReply |-> flags >= 128, id |-> id.got,
                 code |-> code, data |-> data]
    BY <1>18, <1>19, <1>20, <1>22, Zenon
<1> HIDE DEF packet
<1>24. /\ packet.ok /\ (packet.isReply <=> flags >= 128)
       /\ packet.code = code /\ packet.data = data
    <2>1. packet.ok
        BY <1>19, <1>23
    <2>2. packet.isReply <=> flags >= 128
        BY <1>23, Zenon
    <2>3. packet.code = code /\ packet.data = data
        BY <1>23
    <2>4. QED
        BY <2>1, <2>2, <2>3
<1>25. QED
    BY <1>4, <1>9, <1>24, Zenon DEF packet

-----------------------------------------------------------------------------
(* Composite events.                                                       *)
LEMMA UnnamedMatches ==
    ASSUME NEW layout, NEW fields, Matches(layout, fields)
    PROVE  Matches(Dropped(layout), Unnamed(fields))
<1> DEFINE n == Len(fields)
           NoName(i) == [fields[i] EXCEPT !.name = "_"]
           NoLabel(i) == <<"_", layout[i][2]>>
           f == [i \in 1..n |-> NoName(i)]
           l == [i \in 1..n |-> NoLabel(i)]
<1>1. /\ n \in Nat /\ DOMAIN fields = 1..n /\ DOMAIN layout = 1..n
      /\ \A i \in 1..n : Fits(fields[i], layout[i][2])
    BY DEF Matches
<1>2. Unnamed(fields) = f /\ Dropped(layout) = l
    <2> HIDE DEF n
    <2>1. QED
        BY <1>1 DEF Unnamed, Dropped
<1>3. ASSUME NEW i \in 1..n PROVE NoLabel(i)[1] = NoName(i).name /\ Fits(NoName(i), NoLabel(i)[2])
    <2> DEFINE field == fields[i]
               type == layout[i][2]
    <2>1. field = [name |-> field.name, wire |-> field.wire, value |-> field.value]
          /\ Fits(field, type)
        BY <1>1 DEF Fits
    <2> HIDE DEF field, type
    <2> DEFINE g == [field EXCEPT !.name = "_"]
    <2>2. g = [name |-> "_", wire |-> field.wire, value |-> field.value]
        <3>1. PICK nm, wr, va : field.name = nm /\ field.wire = wr /\ field.value = va
            OBVIOUS
        <3>2. field = [name |-> nm, wire |-> wr, value |-> va]
            BY <2>1, <3>1, Zenon
        <3>3. \A u : [[name |-> nm, wire |-> wr, value |-> va] EXCEPT !.name = u]
                       = [name |-> u, wire |-> wr, value |-> va]
            OBVIOUS
        <3>4. QED
            BY <3>1, <3>2, <3>3, Zenon
    <2> HIDE DEF g
    <2>3. g.name = "_" /\ g.wire = field.wire /\ g.value = field.value
        BY <2>2
    <2>4. g = [name |-> g.name, wire |-> g.wire, value |-> g.value]
        BY <2>2, <2>3
    <2>5. Fits(g, type)
        BY <2>1, <2>3, <2>4, Zenon DEF Fits
    <2>6. <<"_", type>>[1] = "_" /\ <<"_", type>>[2] = type
        OBVIOUS
    <2>7. QED
        BY <2>3, <2>5, <2>6, Zenon DEF g, field, type
<1> HIDE DEF n, NoName, NoLabel
<1>4. Len(f) = n /\ Len(l) = n /\ DOMAIN f = 1..n /\ DOMAIN l = 1..n
    BY <1>1
<1>5. \A i \in 1..n : f[i] = NoName(i) /\ l[i] = NoLabel(i)
    OBVIOUS
<1>6. \A i \in 1..n : l[i][1] = f[i].name /\ Fits(f[i], l[i][2])
    BY <1>3, <1>5, Zenon
<1>7. f = [i \in 1..n |-> f[i]] /\ l = [i \in 1..n |-> l[i]]
    OBVIOUS
<1> HIDE DEF f, l
<1>8. Matches(l, f)
    BY <1>1, <1>4, <1>6, <1>7 DEF Matches
<1>9. QED
    BY <1>2, <1>8, Zenon

\* The kinds of events the program knows.
Known == EventKinds \ {"methodExit"}

LEMMA Codes ==
    ASSUME NEW kind \in EventKinds
    PROVE  /\ Code(kind) \in Nat
           /\ Code(kind) \in Range(Kinds) <=> kind # "methodExit"
           /\ Code(kind) = Kinds.vmStart <=> kind = "vmStart"
           /\ Code(kind) = Kinds.vmDeath <=> kind = "vmDeath"
           /\ kind = "step" => Code(kind) = 1
           /\ kind = "breakpoint" => Code(kind) = 2
           /\ kind = "exception" => Code(kind) = 4
           /\ kind = "classPrepare" => Code(kind) = 8
           /\ kind = "vmStart" => Code(kind) = 90
           /\ kind = "vmDeath" => Code(kind) = 99
<1>1. Range(Kinds) = {1, 2, 4, 8, 90, 99}
    BY DEF Range, Kinds
<1>2. Kinds.vmStart = 90 /\ Kinds.vmDeath = 99
    BY DEF Kinds
<1>3. /\ Code("step") = 1 /\ Code("breakpoint") = 2 /\ Code("exception") = 4
      /\ Code("classPrepare") = 8 /\ Code("vmStart") = 90 /\ Code("vmDeath") = 99
      /\ Code("methodExit") = 41
    BY DEF Code, Kinds
<1>4. QED
    BY <1>1, <1>2, <1>3 DEF EventKinds

LEMMA EventLayouts ==
    /\ EventLayout(8) = ClassPrepared
    /\ EventLayout(1) = Located /\ EventLayout(2) = Located
    /\ EventLayout(4) = Thrown
    /\ EventLayout(90) = Started
    /\ EventLayout(99) = <<>>
<1>1. /\ Kinds.step = 1 /\ Kinds.breakpoint = 2 /\ Kinds.exception = 4
      /\ Kinds.classPrepare = 8 /\ Kinds.vmStart = 90 /\ Kinds.vmDeath = 99
    BY DEF Kinds
<1>3. EventLayout(8) = ClassPrepared
    BY <1>1 DEF EventLayout
<1>4. EventLayout(1) = Located /\ EventLayout(2) = Located
    BY <1>1 DEF EventLayout
<1>5. EventLayout(4) = Thrown
    BY <1>1 DEF EventLayout
<1>6. EventLayout(90) = Started
    BY <1>1 DEF EventLayout
<1>7. EventLayout(99) = <<>>
    BY <1>1 DEF EventLayout
<1>8. QED
    BY <1>3, <1>4, <1>5, <1>6, <1>7

\* An event of each kind the program knows is laid out as it is read.
LEMMA EventMatches ==
    ASSUME NEW kind \in Known, NEW i \in Nat
    PROVE  Matches(EventLayout(Code(kind)), EventFields(kind, i))
<1> DEFINE thread == <<Id("thread", i)>>
           object == <<Raw("_", << 76 >>), Id("exception", i + 5)>>
           here   == Place(i)
           caught == Place(0)
<1>0. kind \in EventKinds
    BY DEF Known
<1>1. Matches(<<<<"thread", "id">>>>, thread)
    BY FitsId, Matches1
<1>2. Matches(<<<<"_", "u8">>, <<"exception", "id">>>>, object)
    <2>1. /\ Fits(Raw("_", << 76 >>), "u8") /\ Raw("_", << 76 >>).name = "_"
        BY FitsByte
    <2>2. Fits(Id("exception", i + 5), "id") /\ Id("exception", i + 5).name = "exception"
        <3>1. PICK j \in Nat : j = i + 5
            OBVIOUS
        <3>2. Fits(Id("exception", j), "id") /\ Id("exception", j).name = "exception"
            BY FitsId
        <3>3. QED
            BY <3>1, <3>2, Zenon
    <2>3. QED
        BY <2>1, <2>2, Matches2, Zenon
<1>3. Matches(LocationFields, here)
    BY PlaceMatches
<1>4. Matches(Dropped(LocationFields), Unnamed(here))
    BY <1>3, UnnamedMatches
<1>5. Matches(Dropped(LocationFields), Unnamed(caught))
    BY PlaceMatches, UnnamedMatches
<1>6. CASE kind \in {"breakpoint", "step"}
    <2>1. EventLayout(Code(kind)) = <<<<"thread", "id">>>> \o LocationFields
        BY <1>6, <1>0, Codes, EventLayouts DEF Located
    <2>2. EventFields(kind, i) = thread \o here
        BY <1>6 DEF EventFields
    <2> HIDE DEF thread, here
    <2>3. QED
        BY <1>1, <1>3, <2>1, <2>2, MatchesBoth
<1>7. CASE kind = "exception"
    <2>1. EventLayout(Code(kind)) =
              <<<<"thread", "id">>>> \o Dropped(LocationFields)
                \o <<<<"_", "u8">>, <<"exception", "id">>>> \o Dropped(LocationFields)
        BY <1>7, <1>0, Codes, EventLayouts DEF Thrown, CatchLocation
    <2>2. EventFields(kind, i) = thread \o Unnamed(here) \o object \o Unnamed(caught)
        BY <1>7 DEF EventFields
    <2> HIDE DEF thread, here, object, caught
    <2> DEFINE l1 == <<<<"thread", "id">>>> \o Dropped(LocationFields)
               f1 == thread \o Unnamed(here)
               l2 == l1 \o <<<<"_", "u8">>, <<"exception", "id">>>>
               f2 == f1 \o object
    <2>3. Matches(l1, f1)
        BY <1>1, <1>4, MatchesBoth
    <2> HIDE DEF l1, f1
    <2>4. Matches(l2, f2)
        BY <1>2, <2>3, MatchesBoth
    <2> HIDE DEF l2, f2
    <2>5. Matches(l2 \o Dropped(LocationFields), f2 \o Unnamed(caught))
        BY <1>5, <2>4, MatchesBoth
    <2>6. QED
        BY <2>1, <2>2, <2>5, Zenon DEF l2, f2, l1, f1
<1>8. CASE kind = "vmStart"
    <2>1. Matches(<<<<"_", "id">>>>, <<Id("_", i)>>)
        BY FitsId, Matches1
    <2>2. EventLayout(Code(kind)) = <<<<"_", "id">>>>
        BY <1>8, <1>0, Codes, EventLayouts DEF Started
    <2>3. EventFields(kind, i) = <<Id("_", i)>>
        BY <1>8 DEF EventFields
    <2>4. QED
        BY <2>1, <2>2, <2>3
<1>9. CASE kind = "vmDeath"
    <2>1. EventLayout(Code(kind)) = <<>> /\ EventFields(kind, i) = <<>>
        BY <1>9, <1>0, Codes, EventLayouts DEF EventFields
    <2>2. QED
        BY <2>1, MatchesNothing
<1>10. CASE kind = "classPrepare"
    <2> DEFINE fields == <<Id("thread", i), Raw("refTypeTag", << 1 >>), Id("refTypeId", i),
                           Str("signature", << 76, Letter(i) >>), U32("status", 3)>>
               layout == <<<<"thread", "id">>, <<"refTypeTag", "u8">>, <<"refTypeId", "id">>,
                           <<"signature", "string">>, <<"status", "u32">>>>
    <2>1. /\ Fits(Id("thread", i), "id") /\ Id("thread", i).name = "thread"
          /\ Fits(Raw("refTypeTag", << 1 >>), "u8") /\ Raw("refTypeTag", << 1 >>).name = "refTypeTag"
          /\ Fits(Id("refTypeId", i), "id") /\ Id("refTypeId", i).name = "refTypeId"
          /\ Fits(U32("status", 3), "u32") /\ U32("status", 3).name = "status"
        BY FitsU32, FitsId, FitsByte
    <2>2. Fits(Str("signature", << 76, Letter(i) >>), "string") /\ Str("signature", << 76, Letter(i) >>).name = "signature"
        <3>1. << 76, Letter(i) >> \in Seq(Nat) /\ IsUtf8(<< 76, Letter(i) >>)
            BY AllAreUtf8, LetterIs
        <3>2. QED
            BY <3>1, FitsStr, Zenon
    <2>3. Matches(layout, fields)
        BY <2>1, <2>2, Matches5, ZenonT(40)
    <2> HIDE DEF layout, fields
    <2>4. EventLayout(Code(kind)) = layout
        BY <1>10, <1>0, Codes, EventLayouts DEF ClassPrepared, layout
    <2>5. EventFields(kind, i) = fields
        BY <1>10 DEF EventFields, fields
    <2>6. QED
        BY <2>3, <2>4, <2>5
<1>11. QED
    BY <1>6, <1>7, <1>8, <1>9, <1>10 DEF Known, EventKinds

\* What the program keeps of an event.
Event(kind, i) == [kind |-> Code(kind), fields |-> Meaning(EventFields(kind, i)),
                   requestId |-> IF kind = "vmDeath" THEN <<>> ELSE BigEndian(4, i)]

LEMMA EventBytesType ==
    ASSUME NEW kind \in EventKinds, NEW i \in Nat
    PROVE  /\ EventBytes(kind, i) \in Seq(Nat)
           /\ Written(EventFields(kind, i)) \in Seq(Nat)
           /\ Run(<<Code(kind)>>, 1) /\ Run(BigEndian(4, i), 4)
           /\ Run(<<Code(kind)>> \o BigEndian(4, i), 5)
<1> DEFINE b1 == <<Code(kind)>>
           b2 == BigEndian(4, i)
           w  == Written(EventFields(kind, i))
<1>1. Code(kind) \in Nat
    BY Codes
<1>2. Run(b1, 1)
    BY <1>1 DEF Run
<1>3. Run(b2, 4)
    BY RunBigEndian
<1>4. w \in Seq(Nat)
    <2>1. CASE kind \in Known
        BY <2>1, EventMatches, WrittenType
    <2>2. CASE kind = "methodExit"
        <3>1. Matches(<<<<"_", "id">>>>, <<Id("_", i)>>)
            BY FitsId, Matches1
        <3>2. Matches(Dropped(LocationFields), Unnamed(Place(i)))
            BY PlaceMatches, UnnamedMatches
        <3> DEFINE f1 == <<Id("_", i)>>
                   f2 == Unnamed(Place(i))
        <3> HIDE DEF f1, f2
        <3>3. Matches(<<<<"_", "id">>>> \o Dropped(LocationFields), f1 \o f2)
            BY <3>1, <3>2, MatchesBoth DEF f1, f2
        <3>4. Written(f1 \o f2) \in Seq(Nat)
            BY <3>3, WrittenType
        <3>5. EventFields(kind, i) = f1 \o f2
            BY <2>2 DEF EventFields, f1, f2
        <3>6. QED
            BY <3>4, <3>5, Zenon
    <2>3. QED
        BY <2>1, <2>2 DEF Known
<1>5. EventBytes(kind, i) = (b1 \o b2) \o w
    BY Zenon DEF EventBytes
<1> HIDE DEF b1, b2, w
<1>6. Run(b1 \o b2, 5)
    <2>1. Run(b1 \o b2, 1 + 4)
        BY <1>2, <1>3, RunBoth, Zenon
    <2>2. QED
        BY <2>1
<1>7. (b1 \o b2) \o w \in Seq(Nat)
    <2>1. b1 \o b2 \in Seq(Nat)
        BY <1>6 DEF Run
    <2>2. QED
        BY <1>4, <2>1, ConcatProperties, Zenon
<1>8. QED
    BY <1>2, <1>3, <1>4, <1>5, <1>6, <1>7, Zenon DEF b1, b2, w

\* One event is read as it was written; a kind unknown to the program ends the
\* parse.
Parsed(p, q, kind, i, end) ==
    /\ kind = "methodExit" => q.stopped /\ q.cursor.ok /\ q.events = p.events
    /\ kind # "methodExit" =>
           /\ ~q.stopped /\ Stands(q.cursor, end)
           /\ q.events = IF kind = "vmStart" THEN p.events
                         ELSE Append(p.events, Event(kind, i))

\* An event that was written is parsed, passed over or ends the parse.
LEMMA EventThere ==
    ASSUME NEW data \in Seq(Nat), NEW a \in Nat, NEW kind \in EventKinds, NEW i \in Nat,
           Holds(data, a, EventBytes(kind, i)),
           NEW p, ~p.stopped, Stands(p.cursor, a)
    PROVE  Parsed(p, DecodeEvent(data, p), kind, i, a + Len(EventBytes(kind, i)))
<1> DEFINE b1 == <<Code(kind)>>
           b2 == BigEndian(4, i)
           fields == EventFields(kind, i)
           w  == Written(fields)
           c1 == Read(data, p.cursor, 1)
           c2 == Read(data, c1, 4)
           k  == Code(kind)
           layout == EventLayout(k)
           r  == ReadRecord(data, c2, layout)
           q  == DecodeEvent(data, p)
           event == [kind |-> k, fields |-> r.fields,
                     requestId |-> IF k = Kinds.vmDeath THEN <<>> ELSE c2.got]
<1>1. Run(b1, 1) /\ Run(b2, 4) /\ Run(b1 \o b2, 5) /\ w \in Seq(Nat)
    BY EventBytesType
<1>2. Number(b1) = k /\ k \in Nat
    BY Codes, Number1
<1>3. EventBytes(kind, i) = (b1 \o b2) \o w
    BY Zenon DEF EventBytes
<1>4. Run(w, Len(w)) /\ Len(w) \in Nat
    BY <1>1, RunSeq
<1> DEFINE whole(m) ==
        LET rec == ReadRecord(data, c2, EventLayout(m))
            ev  == [kind |-> m, fields |-> rec.fields,
                    requestId |-> IF m = Kinds.vmDeath THEN <<>> ELSE c2.got]
        IN  IF p.stopped THEN p
            ELSE IF ~c2.ok \/ m \notin Range(Kinds)
                 THEN [cursor |-> c2, stopped |-> TRUE, events |-> p.events]
            ELSE [cursor |-> rec.cursor, stopped |-> ~rec.cursor.ok,
                  events |-> IF ~rec.cursor.ok \/ m = Kinds.vmStart THEN p.events
                             ELSE Append(p.events, ev)]
<1>5. q = whole(Number(c1.got))
    BY Zenon DEF DecodeEvent
<1> HIDE DEF b1, b2, w, k, fields
<1>6. Holds(data, a, (b1 \o b2) \o w)
    BY <1>3, Zenon
<1> DEFINE x == b1 \o b2
<1>7. Holds(data, a, x) /\ Holds(data, a + 5, w) /\ a + 5 \in Nat
    <2>1. Run(x, 5)
        BY <1>1
    <2> HIDE DEF x
    <2>2. Holds(data, a, x \o w)
        BY <1>6 DEF x
    <2>3. QED
        BY <1>4, <2>1, <2>2, RunHolds
<1>8. Holds(data, a, b1) /\ Holds(data, a + 1, b2) /\ a + 1 \in Nat
    BY <1>1, <1>7, RunHolds
<1>9. Gives(c1, a + 1, b1)
    BY <1>1, <1>8, RunRead
<1>10. q = whole(k)
    <2>1. Number(c1.got) = k
        BY <1>2, <1>9 DEF Gives
    <2> HIDE DEF whole, q, c1
    <2>2. QED
        BY <1>5, <2>1
<1> HIDE DEF c1
<1>11. Gives(c2, a + 5, b2)
    <2>1. Gives(c2, a + 1 + 4, b2)
        <3>1. PICK e \in Nat : e = a + 1
            BY <1>8
        <3>2. Stands(c1, e) /\ Holds(data, e, b2)
            BY <1>8, <1>9, <3>1, Zenon DEF Gives
        <3>3. Gives(Read(data, c1, 4), e + 4, b2)
            BY <1>1, <3>2, RunRead
        <3>4. QED
            BY <3>1, <3>3, Zenon
    <2>2. a + 1 + 4 = a + 5
        OBVIOUS
    <2>3. QED
        BY <2>1, <2>2, Zenon
<1> HIDE DEF c2
<1>12. q = IF ~c2.ok \/ k \notin Range(Kinds)
           THEN [cursor |-> c2, stopped |-> TRUE, events |-> p.events]
           ELSE [cursor |-> r.cursor, stopped |-> ~r.cursor.ok,
                 events |-> IF ~r.cursor.ok \/ k = Kinds.vmStart THEN p.events
                            ELSE Append(p.events, event)]
    BY <1>10, Zenon
<1>13. c2.ok
    BY <1>11 DEF Gives, Stands
<1>14. CASE kind = "methodExit"
    <2>1. k \notin Range(Kinds)
        BY <1>14, Codes DEF k
    <2> HIDE DEF q
    <2>2. q = [cursor |-> c2, stopped |-> TRUE, events |-> p.events]
        BY <1>12, <2>1, Zenon
    <2>3. q.stopped /\ q.cursor = c2 /\ q.events = p.events
        BY <2>2
    <2>4. QED
        BY <1>13, <1>14, <2>3 DEF q, Parsed
<1>15. CASE kind # "methodExit"
    <2>1. k \in Range(Kinds) /\ (k = Kinds.vmStart <=> kind = "vmStart")
          /\ (k = Kinds.vmDeath <=> kind = "vmDeath")
        BY <1>15, Codes DEF k
    <2>2. Matches(layout, fields)
        BY <1>15, EventMatches DEF Known, k, fields
    <2>3. Stands(c2, a + 5) /\ c2.got = b2
        BY <1>11 DEF Gives
    <2>4. Stands(r.cursor, a + 5 + Len(w)) /\ r.fields = Meaning(fields)
        <3> HIDE DEF layout
        <3>1. QED
            BY <1>7, <2>2, <2>3, ReadRecordThere DEF w
    <2>5. event = Event(kind, i)
        <3>1. (IF k = Kinds.vmDeath THEN <<>> ELSE c2.got)
                = IF kind = "vmDeath" THEN <<>> ELSE b2
            BY <2>1, <2>3
        <3> HIDE DEF r
        <3>2. event = [kind |-> k, fields |-> Meaning(fields),
                       requestId |-> IF kind = "vmDeath" THEN <<>> ELSE b2]
            BY <2>4, <3>1, Zenon
        <3>3. QED
            BY <3>2, Zenon DEF Event, k, fields, b2
    <2> HIDE DEF q, r, event
    <2>6. r.cursor.ok
        BY <2>4 DEF Stands
    <2>7. q = [cursor |-> r.cursor, stopped |-> ~r.cursor.ok,
               events |-> IF kind = "vmStart" THEN p.events ELSE Append(p.events, event)]
        BY <1>12, <1>13, <2>1, <2>6, Zenon
    <2>8. ~q.stopped
        BY <2>6, <2>7, Zenon
    <2>9. q.cursor = r.cursor
          /\ q.events = IF kind = "vmStart" THEN p.events ELSE Append(p.events, event)
        BY <2>7
    <2>10. a + 5 + Len(w) = a + Len(EventBytes(kind, i))
        <3>1. Len(x \o w) = 5 + Len(w)
            <4>1. Run(x \o w, 5 + Len(w))
                BY <1>1, <1>4, RunBoth, Zenon
            <4>2. QED
                BY <4>1, Zenon DEF Run
        <3>2. Len(EventBytes(kind, i)) = 5 + Len(w)
            BY <1>3, <3>1, Zenon
        <3>3. QED
            BY <1>4, <3>2
    <2>11. Stands(q.cursor, a + Len(EventBytes(kind, i)))
        BY <2>4, <2>9, <2>10, Zenon
    <2>12. q.events = IF kind = "vmStart" THEN p.events ELSE Append(p.events, Event(kind, i))
        BY <2>5, <2>9, Zenon
    <2>13. QED
        BY <1>15, <2>8, <2>11, <2>12, Zenon DEF q, Parsed
<1>16. QED
    BY <1>14, <1>15

\* A composite packet is decoded to the events that the program is to be told of.
LEMMA CompositeUnderstood ==
    ASSUME NEW n \in Nat, NEW events \in [1..n -> EventKinds],
           NEW ws, ws = [i \in DOMAIN events |-> EventBytes(events[i], i)],
           NEW data, data = << 2 >> \o BigEndian(4, Len(events)) \o FlattenSeq(ws)
    PROVE  /\ data \in Seq(Nat)
           /\ DecodeComposite(data).ok
           /\ DecodeComposite(data).value = CompositeMeaning(events)
<1> DEFINE b1 == << 2 >>
           b2 == BigEndian(4, n)
           flat == FlattenSeq(ws)
           c1 == Read(data, Start, 1)
           count == Read(data, c1, 4)
           p == DecodeEvents(data, count, n)
           meant == EventsMeant(events)
           Over(i) == "methodExit" \in {events[j] : j \in 1..i}
<1>1. Len(events) = n /\ DOMAIN events = 1..n /\ \A i \in 1..n : events[i] \in EventKinds
    OBVIOUS
<1>2. ws \in Seq(Seq(Nat)) /\ Len(ws) = n /\ \A i \in 1..n : ws[i] = EventBytes(events[i], i)
    <2>1. ASSUME NEW i \in 1..n PROVE EventBytes(events[i], i) \in Seq(Nat)
        <3>1. events[i] \in EventKinds /\ i \in Nat
            BY <1>1
        <3>2. QED
            BY <3>1, EventBytesType, Zenon
    <2>2. ws = [i \in 1..n |-> EventBytes(events[i], i)]
        BY <1>1
    <2>3. QED
        BY <2>1, <2>2
<1>3. flat \in Seq(Nat)
    BY <1>2, FlattenType
<1>4. Run(b1, 1) /\ Run(b2, 4) /\ Run(flat, Len(flat)) /\ Number(b2) = n
    <2>1. Run(b1, 1)
        BY DEF Run
    <2>2. Run(b2, 4) /\ Number(b2) = n
        BY RunBigEndian, Number4
    <2>3. Run(flat, Len(flat))
        BY <1>3, RunSeq
    <2>4. QED
        BY <2>1, <2>2, <2>3
<1>5. data = (b1 \o b2) \o flat
    BY <1>1, Zenon
<1> HIDE DEF b1, b2, flat
<1> DEFINE x == b1 \o b2
<1>6. Run(x, 5)
    <2>1. Run(b1 \o b2, 1 + 4)
        BY <1>4, RunBoth, Zenon
    <2>2. QED
        BY <2>1
<1> HIDE DEF x
<1>7. data \in Seq(Nat)
    BY <1>4, <1>5, <1>6, RunBoth DEF Run, x
<1>8. Holds(data, 0, x \o flat)
    BY <1>5, <1>7, HoldsAll DEF x
<1>9. Holds(data, 0, x) /\ Holds(data, 5, flat)
    <2>1. Holds(data, 0, x) /\ Holds(data, 0 + 5, flat)
        BY <1>4, <1>6, <1>7, <1>8, RunHolds
    <2>2. QED
        BY <2>1
<1>10. Holds(data, 0, b1) /\ Holds(data, 1, b2)
    <2>1. Holds(data, 0, b1) /\ Holds(data, 0 + 1, b2)
        BY <1>4, <1>7, <1>9, RunHolds DEF x
    <2>2. QED
        BY <2>1
<1>11. Stands(c1, 1)
    <2>1. Stands(Start, 0)
        BY DEF Start, Stands
    <2>2. Gives(c1, 0 + 1, b1)
        BY <1>4, <1>7, <1>10, <2>1, RunRead
    <2>3. QED
        BY <2>2 DEF Gives
<1> HIDE DEF c1
<1>12. Stands(count, 5) /\ Number(count.got) = n
    <2>1. Gives(count, 1 + 4, b2)
        BY <1>4, <1>7, <1>10, <1>11, RunRead
    <2>2. QED
        BY <1>4, <2>1 DEF Gives
<1>13. DecodeComposite(data) = [ok |-> p[n].cursor.ok, value |-> p[n].events]
    <2> DEFINE whole(m) == [ok |-> DecodeEvents(data, count, m)[m].cursor.ok,
                            value |-> DecodeEvents(data, count, m)[m].events]
    <2>1. DecodeComposite(data) = whole(Number(count.got))
        BY Zenon DEF DecodeComposite, c1
    <2> HIDE DEF whole, count
    <2>2. DecodeComposite(data) = whole(n)
        BY <1>12, <2>1
    <2>3. QED
        BY <2>2, Zenon DEF whole
<1> HIDE DEF count
<1>14. PICK o : /\ Offsets(o, ws) /\ \A k \in 1..n : Holds(data, 5 + o[k - 1], ws[k])
    <2>1. 5 \in Nat /\ Holds(data, 5, FlattenSeq(ws))
        BY <1>9, Zenon DEF flat
    <2>2. \E o : /\ Offsets(o, ws) /\ o[Len(ws)] = Len(FlattenSeq(ws))
                 /\ \A k \in 1..Len(ws) : Holds(data, 5 + o[k - 1], ws[k])
        BY <1>2, <1>7, <2>1, FlattenHolds
    <2>3. QED
        BY <1>2, <2>2, Zenon
<1>15. o[0] = 0 /\ \A k \in 1..n : o[k - 1] \in Nat /\ o[k] = o[k - 1] + Len(ws[k])
    <2>1. Len(ws) = n
        BY <1>2
    <2>2. o \in [0..n -> Nat] /\ o[0] = 0 /\ \A k \in 1..n : o[k] = o[k - 1] + Len(ws[k])
        BY <1>14, <2>1, Zenon DEF Offsets
    <2>3. \A k \in 1..n : o[k - 1] \in Nat
        BY <2>2
    <2>4. QED
        BY <2>2, <2>3, Zenon
<1>16. p[0] = NoEvents(count) /\ \A i \in 1..n : p[i] = DecodeEvent(data, p[i - 1])
    BY DecodeEventsLoop
<1>17. meant[0] = <<>> /\ \A i \in 1..n : meant[i] = Told(events, i, meant[i - 1])
    <2>1. Len(events) \in Nat
        BY <1>1
    <2>2. /\ EventsMeant(events)[0] = <<>>
          /\ \A i \in 1..Len(events) :
                 EventsMeant(events)[i] = Told(events, i, EventsMeant(events)[i - 1])
        BY <2>1, EventsMeantLoop
    <2>3. QED
        BY <1>1, <2>2, Zenon
<1> HIDE DEF p, meant
<1> DEFINE T == {i \in 0..n : /\ p[i].cursor.ok /\ p[i].events = meant[i]
                              /\ IF Over(i) THEN p[i].stopped
                                 ELSE ~p[i].stopped /\ Stands(p[i].cursor, 5 + o[i])}
<1>18. 0 \in T
    <2>1. ~Over(0)
        OBVIOUS
    <2>2. p[0].cursor = count /\ ~p[0].stopped /\ p[0].events = <<>>
        BY <1>16 DEF NoEvents
    <2>3. 5 + o[0] = 5
        BY <1>15
    <2>4. QED
        BY <1>12, <1>17, <2>1, <2>2, <2>3 DEF Stands
<1>19. ASSUME NEW i \in 1..n, i - 1 \in T PROVE i \in T
    <2> DEFINE prev == p[i - 1]
               kind == events[i]
               a == 5 + o[i - 1]
               q == DecodeEvent(data, prev)
    <2>1. kind \in EventKinds /\ i \in Nat /\ a \in Nat
        <3>1. o[i - 1] \in Nat
            BY <1>15
        <3>2. QED
            BY <1>1, <3>1
    <2>2. p[i] = q
        BY <1>16
    <2>3. Over(i) <=> Over(i - 1) \/ kind = "methodExit"
        <3>1. /\ Over(i) <=> \E j \in 1..i : events[j] = "methodExit"
              /\ Over(i - 1) <=> \E j \in 1..(i - 1) : events[j] = "methodExit"
            BY Zenon
        <3>2. \A j : j \in 1..i <=> j \in 1..(i - 1) \/ j = i
            OBVIOUS
        <3> HIDE DEF Over
        <3>3. QED
            BY <3>1, <3>2, Zenon
    <2>4. meant[i] = IF kind = "vmStart" \/ Over(i) THEN meant[i - 1]
                     ELSE Append(meant[i - 1], Event(kind, i))
        BY <1>17, Zenon DEF Told, Event
    <2>5. prev.cursor.ok /\ prev.events = meant[i - 1]
          /\ (Over(i - 1) => prev.stopped)
          /\ (~Over(i - 1) => ~prev.stopped /\ Stands(prev.cursor, a))
        BY <1>19
    <2>6. CASE Over(i - 1)
        <3>1. prev.stopped
            BY <2>5, <2>6
        <3>2. q = prev
            BY <3>1, Zenon DEF DecodeEvent
        <3> HIDE DEF prev, kind, q, Over
        <3>3. QED
            BY <2>2, <2>3, <2>4, <2>5, <2>6, <3>1, <3>2
    <2>7. CASE ~Over(i - 1)
        <3>1. Holds(data, a, EventBytes(kind, i))
            BY <1>2, <1>14
        <3>2. ~prev.stopped /\ Stands(prev.cursor, a)
            BY <2>5, <2>7
        <3> HIDE DEF prev, kind, a, Over
        <3>3. Parsed(prev, q, kind, i, a + Len(EventBytes(kind, i)))
            BY <1>7, <2>1, <3>1, <3>2, EventThere
        <3>4. a + Len(EventBytes(kind, i)) = 5 + o[i]
            <4>1. ws[i] = EventBytes(kind, i) /\ Len(ws[i]) \in Nat
                BY <1>2 DEF kind
            <4>2. QED
                BY <1>15, <4>1 DEF a
        <3> HIDE DEF q
        <3>5. CASE kind = "methodExit"
            BY <2>2, <2>3, <2>4, <2>5, <3>3, <3>5 DEF Parsed
        <3>6. CASE kind # "methodExit"
            <4>1. ~Over(i)
                BY <2>3, <2>7, <3>6
            <4>2. ~q.stopped /\ Stands(q.cursor, 5 + o[i]) /\ q.cursor.ok
                BY <3>3, <3>4, <3>6, Zenon DEF Stands, Parsed
            <4>3. q.events = meant[i]
                BY <2>4, <2>5, <3>3, <3>6, <4>1 DEF Parsed
            <4>4. QED
                BY <2>2, <4>1, <4>2, <4>3
        <3>7. QED
            BY <3>5, <3>6
    <2>8. QED
        BY <2>6, <2>7
<1>20. p[n].cursor.ok /\ p[n].events = meant[n]
    <2> HIDE DEF T
    <2>1. 0..n \subseteq T
        BY <1>18, <1>19, UpTo
    <2>2. n \in T
        BY <2>1
    <2>3. QED
        BY <2>2 DEF T
<1>21. CompositeMeaning(events) = meant[n]
    BY <1>1 DEF CompositeMeaning, meant
<1> DEFINE d == DecodeComposite(data)
<1> HIDE DEF d
<1>22. d.ok /\ d.value = p[n].events
    BY <1>13, <1>20 DEF d
<1>23. QED
    BY <1>7, <1>20, <1>21, <1>22 DEF d

-----------------------------------------------------------------------------
(* Requests.                                                               *)
LEMMA Regroup ==
    ASSUME NEW x \in Seq(Nat), NEW y \in Seq(Nat), NEW z \in Seq(Nat)
    PROVE  (x \o y) \o z = x \o (y \o z) /\ x \o y \in Seq(Nat) /\ y \o z \in Seq(Nat)
<1>1. x \o y \in Seq(Nat) /\ y \o z \in Seq(Nat)
    BY ConcatProperties, Zenon
<1>2. (x \o y) \o z = x \o (y \o z)
    BY ConcatAssociative, SMTT(30)
<1>3. QED
    BY <1>1, <1>2

\* Kept as one predicate, so that the provers need not look into it.
Regrouped(x, y, z, w) == ((x \o y) \o z) \o w = x \o ((y \o z) \o w)

LEMMA RegroupMore ==
    ASSUME NEW x \in Seq(Nat), NEW y \in Seq(Nat), NEW z \in Seq(Nat), NEW w \in Seq(Nat)
    PROVE  Regrouped(x, y, z, w)
<1> DEFINE yz == y \o z
<1>1. yz \in Seq(Nat)
    BY Regroup
<1>2. (x \o y) \o z = x \o yz
    BY Regroup
<1> HIDE DEF yz
<1>3. (x \o yz) \o w = x \o (yz \o w)
    BY <1>1, ConcatAssociative, SMTT(30)
<1>4. QED
    BY <1>2, <1>3, Zenon DEF yz, Regrouped

\* End to end: two sequences of sequences, one after the other.
LEMMA FlattenBoth ==
    ASSUME NEW s1 \in Seq(Seq(Nat)), NEW s2 \in Seq(Seq(Nat)),
           NEW ss \in Seq(Seq(Nat)), Len(ss) = Len(s1) + Len(s2),
           \A i \in 1..Len(s1) : ss[i] = s1[i],
           \A j \in 1..Len(s2) : ss[Len(s1) + j] = s2[j]
    PROVE  FlattenSeq(ss) = FlattenSeq(s1) \o FlattenSeq(s2)
<1> DEFINE n1 == Len(s1)
           n2 == Len(s2)
           n  == Len(ss)
<1>1. n1 \in Nat /\ n2 \in Nat /\ n \in Nat /\ n = n1 + n2
    OBVIOUS
<1>2. FlattenSeq(s1) \in Seq(Nat) /\ FlattenSeq(s2) \in Seq(Nat) /\ FlattenSeq(ss) \in Seq(Nat)
    BY FlattenType
<1>3. CASE n1 = 0
    <2>1. FlattenSeq(s1) = <<>> /\ ss = s2
        <3>1. s1 = <<>>
            BY <1>3
        <3>2. n = n2 /\ \A i \in 1..n : ss[i] = s2[i]
            BY <1>1, <1>3
        <3>3. ss = s2
            BY <3>2, SeqEqual
        <3>4. QED
            BY <3>1, <3>3, FlattenNothing
    <2>2. <<>> \o FlattenSeq(s2) = FlattenSeq(s2)
        BY <1>2
    <2>3. QED
        BY <2>1, <2>2, Zenon
<1>4. CASE n2 = 0
    <2>1. FlattenSeq(s2) = <<>> /\ ss = s1
        <3>1. s2 = <<>>
            BY <1>4
        <3>2. n = n1
            BY <1>1, <1>4
        <3>3. ss = s1
            BY <3>2, SeqEqual
        <3>4. QED
            BY <3>1, <3>3, FlattenNothing
    <2>2. FlattenSeq(s1) \o <<>> = FlattenSeq(s1)
        BY <1>2
    <2>3. QED
        BY <2>1, <2>2, Zenon
<1>5. CASE n1 # 0 /\ n2 # 0
    <2>1. PICK f1 : /\ f1[1] = s1[1] /\ FlattenSeq(s1) = f1[n1]
                    /\ \A i \in 2..n1 : f1[i] = f1[i - 1] \o s1[i]
                    /\ \A i \in 1..n1 : f1[i] \in Seq(Nat)
        BY <1>5, FlattenLoop
    <2>2. PICK f2 : /\ f2[1] = s2[1] /\ FlattenSeq(s2) = f2[n2]
                    /\ \A i \in 2..n2 : f2[i] = f2[i - 1] \o s2[i]
                    /\ \A i \in 1..n2 : f2[i] \in Seq(Nat)
        BY <1>5, FlattenLoop
    <2>3. n # 0
        BY <1>1, <1>5
    <2>4. PICK f : /\ f[1] = ss[1] /\ FlattenSeq(ss) = f[n]
                   /\ \A i \in 2..n : f[i] = f[i - 1] \o ss[i]
                   /\ \A i \in 1..n : f[i] \in Seq(Nat)
        BY <2>3, FlattenLoop
    <2> DEFINE VB(j) == f[n1 + (j + 1)] = f1[n1] \o f2[j + 1]
               U == {i \in 0..(n1 - 1) : f[i + 1] = f1[i + 1]}
               V == {j \in 0..(n2 - 1) : VB(j)}
    <2>5. n1 - 1 \in Nat /\ n2 - 1 \in Nat /\ \A k \in 1..n2 : s2[k] \in Seq(Nat)
        BY <1>1, <1>5
    <2>55. /\ \A i \in 1..n1 : ss[i] = s1[i]
           /\ \A j \in 1..n2 : ss[n1 + j] = s2[j]
        OBVIOUS
    <2> HIDE DEF n1, n2, n, VB
    <2>6. 0 \in U
        <3>1. 1 \in 1..n1
            BY <1>1, <1>5
        <3>2. f[1] = f1[1]
            BY <2>1, <2>4, <2>55, <3>1
        <3>3. QED
            BY <2>5, <3>2
    <2>7. ASSUME NEW i \in 1..(n1 - 1), i - 1 \in U PROVE i \in U
        <3>1. PICK k \in 2..n1 : k = i + 1 /\ k - 1 = i /\ i - 1 + 1 = i /\ k \in 2..n /\ k \in 1..n1
            BY <1>1, <2>5
        <3>2. f[i] = f1[i]
            BY <2>7, <3>1
        <3>3. f[k] = f[k - 1] \o ss[k] /\ f1[k] = f1[k - 1] \o s1[k]
            BY <2>1, <2>4, <3>1
        <3>4. ss[k] = s1[k]
            BY <2>55, <3>1
        <3>5. f[k] = f1[k]
            BY <3>1, <3>2, <3>3, <3>4, Zenon
        <3>6. QED
            BY <3>1, <3>5
    <2>8. f[n1] = f1[n1]
        <3> HIDE DEF U
        <3>1. 0..(n1 - 1) \subseteq U
            BY <2>5, <2>6, <2>7, UpTo
        <3>2. n1 - 1 \in U /\ n1 - 1 + 1 = n1
            <4>1. n1 - 1 \in 0..(n1 - 1) /\ n1 - 1 + 1 = n1
                BY <1>1, <2>5
            <4>2. QED
                BY <3>1, <4>1
        <3>3. QED
            BY <3>2 DEF U
    <2>9. 0 \in V
        <3>1. PICK k \in 2..n : k = n1 + 1 /\ k - 1 = n1
            BY <1>1, <1>5
        <3>2. f[k] = f[k - 1] \o ss[k]
            BY <2>4
        <3>3. ss[n1 + 1] = s2[1]
            BY <1>1, <1>5, <2>55
        <3>4. f[n1 + 1] = f1[n1] \o f2[1]
            BY <2>2, <2>8, <3>1, <3>2, <3>3, Zenon
        <3>5. 0 + 1 = 1
            OBVIOUS
        <3>6. VB(0)
            BY <3>4, <3>5, Zenon DEF VB
        <3>7. QED
            BY <2>5, <3>6
    <2>10. ASSUME NEW j \in 1..(n2 - 1), j - 1 \in V PROVE j \in V
        <3>1. PICK k \in 2..n2 : k = j + 1 /\ k - 1 = j /\ j - 1 + 1 = j
            BY <1>1, <2>5
        <3>2. PICK m \in 2..n : m = n1 + k /\ m - 1 = n1 + j
            BY <1>1, <3>1
        <3>3. f[n1 + j] = f1[n1] \o f2[j]
            <4>1. VB(j - 1)
                BY <2>10
            <4>2. QED
                BY <3>1, <4>1, Zenon DEF VB
        <3>4. f[m] = f[m - 1] \o ss[m] /\ f2[k] = f2[k - 1] \o s2[k]
            BY <2>2, <2>4, <3>1, <3>2
        <3>5. ss[n1 + k] = s2[k] /\ k \in 1..n2 /\ j \in 1..n2
            BY <1>1, <2>55, <3>1
        <3>6. f1[n1] \in Seq(Nat) /\ f2[j] \in Seq(Nat) /\ s2[k] \in Seq(Nat)
            <4>1. n1 \in 1..n1
                BY <1>1, <1>5
            <4>2. f1[n1] \in Seq(Nat)
                BY <2>1, <4>1, Zenon
            <4>3. f2[j] \in Seq(Nat)
                BY <2>2, <3>5, Zenon
            <4>4. QED
                BY <2>5, <3>5, <4>2, <4>3, Zenon
        <3>7. f[n1 + k] = (f1[n1] \o f2[j]) \o s2[k]
            BY <3>2, <3>3, <3>4, <3>5, Zenon
        <3>8. f[n1 + k] = f1[n1] \o (f2[j] \o s2[k])
            BY <3>6, <3>7, Regroup
        <3>9. f[n1 + k] = f1[n1] \o f2[k]
            BY <3>1, <3>4, <3>8, Zenon
        <3>10. VB(j)
            BY <3>1, <3>9, Zenon DEF VB
        <3>11. QED
            BY <3>10
    <2>11. f[n1 + n2] = f1[n1] \o f2[n2]
        <3> HIDE DEF V
        <3>1. 0..(n2 - 1) \subseteq V
            BY <2>5, <2>9, <2>10, UpTo
        <3>2. n2 - 1 \in V /\ n2 - 1 + 1 = n2
            <4>1. n2 - 1 \in 0..(n2 - 1) /\ n2 - 1 + 1 = n2
                BY <1>1, <2>5
            <4>2. QED
                BY <3>1, <4>1
        <3>3. VB(n2 - 1)
            BY <3>2 DEF V
        <3>4. QED
            BY <3>2, <3>3, Zenon DEF VB
    <2>12. QED
        BY <1>1, <2>1, <2>2, <2>4, <2>11, Zenon
<1>6. QED
    BY <1>3, <1>4, <1>5

\* Lists of one and of two items.
LEMMA FlattenOne ==
    ASSUME NEW x \in Seq(Nat)
    PROVE  FlattenSeq(<<x>>) = x
<1> DEFINE ss == <<x>>
<1>1. ss \in Seq(Seq(Nat)) /\ Len(ss) = 1 /\ ss[1] = x
    OBVIOUS
<1> HIDE DEF ss
<1>2. Len(ss) # 0
    BY <1>1
<1>3. PICK f : f[1] = ss[1] /\ FlattenSeq(ss) = f[Len(ss)]
    BY <1>1, <1>2, FlattenLoop
<1>4. FlattenSeq(ss) = x
    BY <1>1, <1>3
<1>5. QED
    BY <1>4 DEF ss

LEMMA FlattenTwo ==
    ASSUME NEW x \in Seq(Nat), NEW y \in Seq(Nat)
    PROVE  FlattenSeq(<<x, y>>) = x \o y
<1> DEFINE s1 == <<x>>
           s2 == <<y>>
           ss == <<x, y>>
<1>1. /\ s1 \in Seq(Seq(Nat)) /\ Len(s1) = 1 /\ s1[1] = x
      /\ s2 \in Seq(Seq(Nat)) /\ Len(s2) = 1 /\ s2[1] = y
      /\ ss \in Seq(Seq(Nat)) /\ Len(ss) = 2 /\ ss[1] = x /\ ss[2] = y
    OBVIOUS
<1>2. FlattenSeq(s1) = x /\ FlattenSeq(s2) = y
    BY FlattenOne
<1> HIDE DEF s1, s2, ss
<1>3. /\ Len(ss) = Len(s1) + Len(s2)
      /\ \A i \in 1..Len(s1) : ss[i] = s1[i]
      /\ \A j \in 1..Len(s2) : ss[Len(s1) + j] = s2[j]
    BY <1>1
<1>4. FlattenSeq(ss) = FlattenSeq(s1) \o FlattenSeq(s2)
    BY <1>1, <1>3, FlattenBoth
<1>5. QED
    BY <1>2, <1>4, Zenon DEF ss

\* The bytes x are the fields, one after the other, as the layout reads them.
Spells(x, layout, fields) ==
    Matches(layout, fields) /\ Written(fields) = x /\ x \in Seq(Nat)

\* Requests are spelled field by field.
LEMMA SpellsNothing == Spells(<<>>, <<>>, <<>>)
<1>1. Written(<<>>) = <<>>
    <2>1. [i \in DOMAIN <<>> |-> <<>>[i].wire] = <<>>
        OBVIOUS
    <2>2. QED
        BY <2>1, FlattenNothing DEF Written
<1>2. <<>> \in Seq(Nat)
    OBVIOUS
<1>3. QED
    BY <1>1, <1>2, MatchesNothing, Zenon DEF Spells

LEMMA SpellsOne ==
    ASSUME NEW name, NEW type, NEW f, Fits(f, type), f.name = name
    PROVE  Spells(f.wire, <<<<name, type>>>>, <<f>>)
<1>1. Matches(<<<<name, type>>>>, <<f>>)
    BY Matches1
<1>2. f.wire \in Seq(Nat)
    BY DEF Fits
<1>3. [i \in DOMAIN <<f>> |-> <<f>>[i].wire] = <<f.wire>>
    OBVIOUS
<1>4. Written(<<f>>) = f.wire
    BY <1>2, <1>3, FlattenOne DEF Written
<1>5. QED
    BY <1>1, <1>2, <1>4, Zenon DEF Spells

LEMMA SpellsBoth ==
    ASSUME NEW x, NEW l1, NEW f1, Spells(x, l1, f1), NEW y, NEW l2, NEW f2, Spells(y, l2, f2)
    PROVE  Spells(x \o y, l1 \o l2, f1 \o f2)
<1> DEFINE f  == f1 \o f2
           n1 == Len(f1)
           n2 == Len(f2)
           s1 == [i \in DOMAIN f1 |-> f1[i].wire]
           s2 == [i \in DOMAIN f2 |-> f2[i].wire]
           ss == [i \in DOMAIN f |-> f[i].wire]
<1>1. Matches(l1, f1) /\ Matches(l2, f2) /\ x \in Seq(Nat) /\ y \in Seq(Nat)
      /\ x = FlattenSeq(s1) /\ y = FlattenSeq(s2)
    BY Zenon DEF Spells, Written
<1>2. Matches(l1 \o l2, f)
    BY <1>1, MatchesBoth
<1>3. /\ n1 \in Nat /\ DOMAIN f1 = 1..n1 /\ f1 = [i \in DOMAIN f1 |-> f1[i]]
      /\ n2 \in Nat /\ DOMAIN f2 = 1..n2 /\ f2 = [i \in DOMAIN f2 |-> f2[i]]
      /\ DOMAIN f = 1..Len(f)
    BY <1>1, <1>2, Zenon DEF Matches
<1>4. /\ \A i \in 1..n1 : f1[i].wire \in Seq(Nat)
      /\ \A i \in 1..n2 : f2[i].wire \in Seq(Nat)
    <2> HIDE DEF n1, n2
    <2>1. QED
        BY <1>1, <1>3 DEF Matches, Fits
<1>5. /\ Len(f) = n1 + n2
      /\ \A i \in 1..n1 : f[i] = f1[i]
      /\ \A i \in 1..n2 : f[n1 + i] = f2[i]
    <2> DEFINE S == {f1[i] : i \in 1..n1} \cup {f2[i] : i \in 1..n2}
    <2>1. (\A i \in 1..n1 : f1[i] \in S) /\ \A i \in 1..n2 : f2[i] \in S
        OBVIOUS
    <2>2. Len(f1) = n1 /\ Len(f2) = n2
        OBVIOUS
    <2> HIDE DEF S, n1, n2
    <2>3. f1 \in Seq(S) /\ f2 \in Seq(S)
        BY <1>3, <2>1
    <2>4. /\ Len(f) = Len(f1) + Len(f2)
          /\ \A i \in 1..(Len(f1) + Len(f2)) :
                 f[i] = IF i <= Len(f1) THEN f1[i] ELSE f2[i - Len(f1)]
        BY <2>3, ConcatProperties, Zenon
    <2> HIDE DEF f
    <2>5. QED
        BY <1>3, <2>2, <2>4
<1> HIDE DEF n1, n2, f
<1>6. s1 \in Seq(Seq(Nat)) /\ Len(s1) = n1 /\ \A i \in 1..n1 : s1[i] = f1[i].wire
    BY <1>3, <1>4
<1>7. s2 \in Seq(Seq(Nat)) /\ Len(s2) = n2 /\ \A i \in 1..n2 : s2[i] = f2[i].wire
    BY <1>3, <1>4
<1>8. ss \in Seq(Seq(Nat)) /\ Len(ss) = n1 + n2
      /\ \A i \in 1..(n1 + n2) : ss[i] = f[i].wire
    <2>1. ASSUME NEW i \in 1..(n1 + n2) PROVE f[i].wire \in Seq(Nat)
        <3>1. CASE i <= n1
            BY <1>3, <1>4, <1>5, <3>1
        <3>2. CASE ~(i <= n1)
            <4>1. i - n1 \in 1..n2 /\ n1 + (i - n1) = i
                BY <1>3, <3>2
            <4>2. f[i] = f2[i - n1]
                BY <1>5, <4>1
            <4>3. QED
                BY <1>4, <4>1, <4>2
        <3>3. QED
            BY <3>1, <3>2
    <2>2. QED
        BY <1>3, <1>5, <2>1, SMTT(30)
<1> HIDE DEF s1, s2, ss
<1>9. /\ Len(ss) = Len(s1) + Len(s2)
      /\ \A i \in 1..Len(s1) : ss[i] = s1[i]
      /\ \A j \in 1..Len(s2) : ss[Len(s1) + j] = s2[j]
    <2>1. Len(ss) = Len(s1) + Len(s2)
        BY <1>6, <1>7, <1>8, Zenon
    <2>2. ASSUME NEW i \in 1..n1 PROVE ss[i] = s1[i]
        <3>1. i \in 1..(n1 + n2)
            BY <1>3
        <3>2. ss[i] = f[i].wire
            BY <1>8, <3>1
        <3>3. QED
            BY <1>5, <1>6, <3>2
    <2>3. ASSUME NEW j \in 1..n2 PROVE ss[n1 + j] = s2[j]
        <3>1. n1 + j \in 1..(n1 + n2)
            BY <1>3
        <3>2. ss[n1 + j] = f[n1 + j].wire
            BY <1>8, <3>1
        <3>3. QED
            BY <1>5, <1>7, <3>2
    <2>4. QED
        BY <1>6, <1>7, <2>1, <2>2, <2>3, Zenon
<1>10. FlattenSeq(ss) = FlattenSeq(s1) \o FlattenSeq(s2)
    BY <1>6, <1>7, <1>8, <1>9, FlattenBoth
<1>11. x \o y \in Seq(Nat)
    BY <1>1, ConcatProperties, Zenon
<1>12. Written(f) = x \o y
    BY <1>1, <1>10, Zenon DEF Written, ss
<1>13. QED
    BY <1>2, <1>11, <1>12, Zenon DEF Spells, f

\* What two sequences are, one after the other.
LEMMA Joined ==
    ASSUME NEW S, NEW x \in Seq(S), NEW y \in Seq(S), NEW z \in Seq(S),
           Len(z) = Len(x) + Len(y), \A i \in 1..Len(x) : z[i] = x[i],
           \A j \in 1..Len(y) : z[Len(x) + j] = y[j]
    PROVE  x \o y = z
<1> DEFINE t == x \o y
           n == Len(x)
           m == Len(y)
<1>1. /\ t \in Seq(S) /\ Len(t) = n + m
      /\ \A i \in 1..(n + m) : t[i] = IF i <= n THEN x[i] ELSE y[i - n]
    BY ConcatProperties, Zenon
<1>2. n \in Nat /\ m \in Nat
    OBVIOUS
<1>3. /\ Len(z) = n + m /\ \A i \in 1..n : z[i] = x[i]
      /\ \A j \in 1..m : z[n + j] = y[j]
    OBVIOUS
<1> HIDE DEF t, n, m
<1>4. ASSUME NEW i \in 1..(n + m) PROVE t[i] = z[i]
    <2>1. CASE i <= n
        BY <1>1, <1>2, <1>3, <2>1
    <2>2. CASE ~(i <= n)
        <3>1. i - n \in 1..m /\ n + (i - n) = i
            BY <1>2, <2>2
        <3>2. z[n + (i - n)] = y[i - n]
            BY <1>3, <3>1
        <3>3. t[i] = y[i - n]
            BY <1>1, <2>2
        <3>4. QED
            BY <3>1, <3>2, <3>3
    <2>3. QED
        BY <2>1, <2>2
<1>5. t = z
    BY <1>1, <1>3, <1>4, SeqEqual
<1>6. QED
    BY <1>5 DEF t

\* A layout and its fields are given as tuples.
LEMMA Tuples2 ==
    ASSUME NEW a, NEW b
    PROVE  <<a>> \o <<b>> = <<a, b>>
<1> DEFINE S == {a, b}
           x == <<a>>
           y == <<b>>
           z == <<a, b>>
<1>1. x \in Seq(S) /\ Len(x) = 1 /\ y \in Seq(S) /\ Len(y) = 1 /\ z \in Seq(S) /\ Len(z) = 2
    OBVIOUS
<1>2. (\A i \in 1..1 : z[i] = x[i]) /\ z[2] = y[1]
    OBVIOUS
<1> HIDE DEF S, x, y, z
<1>3. /\ Len(z) = Len(x) + Len(y) /\ \A i \in 1..Len(x) : z[i] = x[i]
      /\ \A j \in 1..Len(y) : z[Len(x) + j] = y[j]
    BY <1>1, <1>2
<1>4. x \o y = z
    BY <1>1, <1>3, Joined
<1>5. QED
    BY <1>4 DEF x, y, z

LEMMA Tuples3 ==
    ASSUME NEW a, NEW b, NEW c
    PROVE  <<a, b>> \o <<c>> = <<a, b, c>>
<1> DEFINE S == {a, b, c}
           x == <<a, b>>
           y == <<c>>
           z == <<a, b, c>>
<1>1. x \in Seq(S) /\ Len(x) = 2 /\ y \in Seq(S) /\ Len(y) = 1 /\ z \in Seq(S) /\ Len(z) = 3
    OBVIOUS
<1>2. (\A i \in 1..2 : z[i] = x[i]) /\ z[3] = y[1]
    OBVIOUS
<1> HIDE DEF S, x, y, z
<1>3. /\ Len(z) = Len(x) + Len(y) /\ \A i \in 1..Len(x) : z[i] = x[i]
      /\ \A j \in 1..Len(y) : z[Len(x) + j] = y[j]
    BY <1>1, <1>2
<1>4. x \o y = z
    BY <1>1, <1>3, Joined
<1>5. QED
    BY <1>4 DEF x, y, z

LEMMA Tuples4 ==
    ASSUME NEW a, NEW b, NEW c, NEW d
    PROVE  <<a, b, c>> \o <<d>> = <<a, b, c, d>>
<1> DEFINE S == {a, b, c, d}
           x == <<a, b, c>>
           y == <<d>>
           z == <<a, b, c, d>>
<1>1. x \in Seq(S) /\ Len(x) = 3 /\ y \in Seq(S) /\ Len(y) = 1 /\ z \in Seq(S) /\ Len(z) = 4
    OBVIOUS
<1>2. (\A i \in 1..3 : z[i] = x[i]) /\ z[4] = y[1]
    OBVIOUS
<1> HIDE DEF S, x, y, z
<1>3. /\ Len(z) = Len(x) + Len(y) /\ \A i \in 1..Len(x) : z[i] = x[i]
      /\ \A j \in 1..Len(y) : z[Len(x) + j] = y[j]
    BY <1>1, <1>2
<1>4. x \o y = z
    BY <1>1, <1>3, Joined
<1>5. QED
    BY <1>4 DEF x, y, z

LEMMA Tuples5 ==
    ASSUME NEW a, NEW b, NEW c, NEW d, NEW e
    PROVE  <<a, b, c, d>> \o <<e>> = <<a, b, c, d, e>>
<1> DEFINE S == {a, b, c, d, e}
           x == <<a, b, c, d>>
           y == <<e>>
           z == <<a, b, c, d, e>>
<1>1. x \in Seq(S) /\ Len(x) = 4 /\ y \in Seq(S) /\ Len(y) = 1 /\ z \in Seq(S) /\ Len(z) = 5
    OBVIOUS
<1>2. (\A i \in 1..4 : z[i] = x[i]) /\ z[5] = y[1]
    OBVIOUS
<1> HIDE DEF S, x, y, z
<1>3. /\ Len(z) = Len(x) + Len(y) /\ \A i \in 1..Len(x) : z[i] = x[i]
      /\ \A j \in 1..Len(y) : z[Len(x) + j] = y[j]
    BY <1>1, <1>2
<1>4. x \o y = z
    BY <1>1, <1>3, Joined
<1>5. QED
    BY <1>4 DEF x, y, z

LEMMA Tuples6 ==
    ASSUME NEW a, NEW b, NEW c, NEW d, NEW e, NEW f
    PROVE  <<a, b, c, d, e>> \o <<f>> = <<a, b, c, d, e, f>>
<1> DEFINE S == {a, b, c, d, e, f}
           x == <<a, b, c, d, e>>
           y == <<f>>
           z == <<a, b, c, d, e, f>>
<1>1. x \in Seq(S) /\ Len(x) = 5 /\ y \in Seq(S) /\ Len(y) = 1 /\ z \in Seq(S) /\ Len(z) = 6
    OBVIOUS
<1>2. (\A i \in 1..5 : z[i] = x[i]) /\ z[6] = y[1]
    OBVIOUS
<1> HIDE DEF S, x, y, z
<1>3. /\ Len(z) = Len(x) + Len(y) /\ \A i \in 1..Len(x) : z[i] = x[i]
      /\ \A j \in 1..Len(y) : z[Len(x) + j] = y[j]
    BY <1>1, <1>2
<1>4. x \o y = z
    BY <1>1, <1>3, Joined
<1>5. QED
    BY <1>4 DEF x, y, z

LEMMA Tuples7 ==
    ASSUME NEW a, NEW b, NEW c, NEW d, NEW e, NEW f, NEW g
    PROVE  <<a, b, c, d, e, f>> \o <<g>> = <<a, b, c, d, e, f, g>>
<1> DEFINE S == {a, b, c, d, e, f, g}
           x == <<a, b, c, d, e, f>>
           y == <<g>>
           z == <<a, b, c, d, e, f, g>>
<1>1. x \in Seq(S) /\ Len(x) = 6 /\ y \in Seq(S) /\ Len(y) = 1 /\ z \in Seq(S) /\ Len(z) = 7
    OBVIOUS
<1>2. (\A i \in 1..6 : z[i] = x[i]) /\ z[7] = y[1]
    OBVIOUS
<1> HIDE DEF S, x, y, z
<1>3. /\ Len(z) = Len(x) + Len(y) /\ \A i \in 1..Len(x) : z[i] = x[i]
      /\ \A j \in 1..Len(y) : z[Len(x) + j] = y[j]
    BY <1>1, <1>2
<1>4. x \o y = z
    BY <1>1, <1>3, Joined
<1>5. QED
    BY <1>4 DEF x, y, z

\* Bytes of n fields spell the tuple of them.
LEMMA Spells2 ==
    ASSUME NEW n1, NEW n2,
           NEW f1, NEW f2,
           NEW t1, NEW t2,
           Fits(f1, t1), f1.name = n1,
           Fits(f2, t2), f2.name = n2
    PROVE  Spells(f1.wire \o f2.wire,
                  <<<<n1, t1>>, <<n2, t2>>>>, <<f1, f2>>)
<1>1. Spells(f1.wire, <<<<n1, t1>>>>, <<f1>>)
    BY SpellsOne, Zenon
<1>2. Spells(f2.wire, <<<<n2, t2>>>>, <<f2>>)
    BY SpellsOne
<1>3. Spells((f1.wire) \o f2.wire, <<<<n1, t1>>>> \o <<<<n2, t2>>>>,
             <<f1>> \o <<f2>>)
    BY <1>1, <1>2, SpellsBoth, Zenon
<1>4. /\ <<<<n1, t1>>>> \o <<<<n2, t2>>>> = <<<<n1, t1>>, <<n2, t2>>>>
      /\ <<f1>> \o <<f2>> = <<f1, f2>>
    BY Tuples2, Zenon
<1>5. QED
    BY <1>3, <1>4, Zenon

LEMMA Spells3 ==
    ASSUME NEW n1, NEW n2, NEW n3,
           NEW f1, NEW f2, NEW f3,
           NEW t1, NEW t2, NEW t3,
           Fits(f1, t1), f1.name = n1,
           Fits(f2, t2), f2.name = n2,
           Fits(f3, t3), f3.name = n3
    PROVE  Spells(f1.wire \o f2.wire \o f3.wire,
                  <<<<n1, t1>>, <<n2, t2>>, <<n3, t3>>>>, <<f1, f2, f3>>)
<1>1. Spells(f1.wire \o f2.wire, <<<<n1, t1>>, <<n2, t2>>>>, <<f1, f2>>)
    BY Spells2, Zenon
<1>2. Spells(f3.wire, <<<<n3, t3>>>>, <<f3>>)
    BY SpellsOne
<1>3. Spells((f1.wire \o f2.wire) \o f3.wire, <<<<n1, t1>>, <<n2, t2>>>> \o <<<<n3, t3>>>>,
             <<f1, f2>> \o <<f3>>)
    BY <1>1, <1>2, SpellsBoth, Zenon
<1>4. /\ <<<<n1, t1>>, <<n2, t2>>>> \o <<<<n3, t3>>>> = <<<<n1, t1>>, <<n2, t2>>, <<n3, t3>>>>
      /\ <<f1, f2>> \o <<f3>> = <<f1, f2, f3>>
    BY Tuples3, Zenon
<1>5. QED
    BY <1>3, <1>4, Zenon

LEMMA Spells4 ==
    ASSUME NEW n1, NEW n2, NEW n3, NEW n4,
           NEW f1, NEW f2, NEW f3, NEW f4,
           NEW t1, NEW t2, NEW t3, NEW t4,
           Fits(f1, t1), f1.name = n1,
           Fits(f2, t2), f2.name = n2,
           Fits(f3, t3), f3.name = n3,
           Fits(f4, t4), f4.name = n4
    PROVE  Spells(f1.wire \o f2.wire \o f3.wire \o f4.wire,
                  <<<<n1, t1>>, <<n2, t2>>, <<n3, t3>>, <<n4, t4>>>>, <<f1, f2, f3, f4>>)
<1>1. Spells(f1.wire \o f2.wire \o f3.wire, <<<<n1, t1>>, <<n2, t2>>, <<n3, t3>>>>, <<f1, f2, f3>>)
    BY Spells3, Zenon
<1>2. Spells(f4.wire, <<<<n4, t4>>>>, <<f4>>)
    BY SpellsOne
<1>3. Spells((f1.wire \o f2.wire \o f3.wire) \o f4.wire, <<<<n1, t1>>, <<n2, t2>>, <<n3, t3>>>> \o <<<<n4, t4>>>>,
             <<f1, f2, f3>> \o <<f4>>)
    BY <1>1, <1>2, SpellsBoth, Zenon
<1>4. /\ <<<<n1, t1>>, <<n2, t2>>, <<n3, t3>>>> \o <<<<n4, t4>>>> = <<<<n1, t1>>, <<n2, t2>>, <<n3, t3>>, <<n4, t4>>>>
      /\ <<f1, f2, f3>> \o <<f4>> = <<f1, f2, f3, f4>>
    <2> DEFINE p1 == <<n1, t1>>
           p2 == <<n2, t2>>
           p3 == <<n3, t3>>
           p4 == <<n4, t4>>
    <2> HIDE DEF p1, p2, p3, p4
    <2>1. <<p1, p2, p3>> \o <<p4>> = <<p1, p2, p3, p4>>
        BY Tuples4
    <2>2. <<f1, f2, f3>> \o <<f4>> = <<f1, f2, f3, f4>>
        BY Tuples4
    <2>3. QED
        BY <2>1, <2>2, Zenon DEF p1, p2, p3, p4
<1>5. QED
    BY <1>3, <1>4, Zenon

LEMMA Spells5 ==
    ASSUME NEW n1, NEW n2, NEW n3, NEW n4, NEW n5,
           NEW f1, NEW f2, NEW f3, NEW f4, NEW f5,
           NEW t1, NEW t2, NEW t3, NEW t4, NEW t5,
           Fits(f1, t1), f1.name = n1,
           Fits(f2, t2), f2.name = n2,
           Fits(f3, t3), f3.name = n3,
           Fits(f4, t4), f4.name = n4,
           Fits(f5, t5), f5.name = n5
    PROVE  Spells(f1.wire \o f2.wire \o f3.wire \o f4.wire \o f5.wire,
                  <<<<n1, t1>>, <<n2, t2>>, <<n3, t3>>, <<n4, t4>>, <<n5, t5>>>>, <<f1, f2, f3, f4, f5>>)
<1>1. Spells(f1.wire \o f2.wire \o f3.wire \o f4.wire, <<<<n1, t1>>, <<n2, t2>>, <<n3, t3>>, <<n4, t4>>>>, <<f1, f2, f3, f4>>)
    BY Spells4, Zenon
<1>2. Spells(f5.wire, <<<<n5, t5>>>>, <<f5>>)
    BY SpellsOne
<1>3. Spells((f1.wire \o f2.wire \o f3.wire \o f4.wire) \o f5.wire, <<<<n1, t1>>, <<n2, t2>>, <<n3, t3>>, <<n4, t4>>>> \o <<<<n5, t5>>>>,
             <<f1, f2, f3, f4>> \o <<f5>>)
    BY <1>1, <1>2, SpellsBoth, Zenon
<1>4. /\ <<<<n1, t1>>, <<n2, t2>>, <<n3, t3>>, <<n4, t4>>>> \o <<<<n5, t5>>>> = <<<<n1, t1>>, <<n2, t2>>, <<n3, t3>>, <<n4, t4>>, <<n5, t5>>>>
      /\ <<f1, f2, f3, f4>> \o <<f5>> = <<f1, f2, f3, f4, f5>>
    <2> DEFINE p1 == <<n1, t1>>
           p2 == <<n2, t2>>
           p3 == <<n3, t3>>
           p4 == <<n4, t4>>
           p5 == <<n5, t5>>
    <2> HIDE DEF p1, p2, p3, p4, p5
    <2>1. <<p1, p2, p3, p4>> \o <<p5>> = <<p1, p2, p3, p4, p5>>
        BY Tuples5
    <2>2. <<f1, f2, f3, f4>> \o <<f5>> = <<f1, f2, f3, f4, f5>>
        BY Tuples5
    <2>3. QED
        BY <2>1, <2>2, Zenon DEF p1, p2, p3, p4, p5
<1>5. QED
    BY <1>3, <1>4, Zenon

LEMMA Spells6 ==
    ASSUME NEW n1, NEW n2, NEW n3, NEW n4, NEW n5, NEW n6,
           NEW f1, NEW f2, NEW f3, NEW f4, NEW f5, NEW f6,
           NEW t1, NEW t2, NEW t3, NEW t4, NEW t5, NEW t6,
           Fits(f1, t1), f1.name = n1,
           Fits(f2, t2), f2.name = n2,
           Fits(f3, t3), f3.name = n3,
           Fits(f4, t4), f4.name = n4,
           Fits(f5, t5), f5.name = n5,
           Fits(f6, t6), f6.name = n6
    PROVE  Spells(f1.wire \o f2.wire \o f3.wire \o f4.wire \o f5.wire \o f6.wire,
                  <<<<n1, t1>>, <<n2, t2>>, <<n3, t3>>, <<n4, t4>>, <<n5, t5>>, <<n6, t6>>>>, <<f1, f2, f3, f4, f5, f6>>)
<1>1. Spells(f1.wire \o f2.wire \o f3.wire \o f4.wire \o f5.wire, <<<<n1, t1>>, <<n2, t2>>, <<n3, t3>>, <<n4, t4>>, <<n5, t5>>>>, <<f1, f2, f3, f4, f5>>)
    BY Spells5, Zenon
<1>2. Spells(f6.wire, <<<<n6, t6>>>>, <<f6>>)
    BY SpellsOne
<1>3. Spells((f1.wire \o f2.wire \o f3.wire \o f4.wire \o f5.wire) \o f6.wire, <<<<n1, t1>>, <<n2, t2>>, <<n3, t3>>, <<n4, t4>>, <<n5, t5>>>> \o <<<<n6, t6>>>>,
             <<f1, f2, f3, f4, f5>> \o <<f6>>)
    BY <1>1, <1>2, SpellsBoth, Zenon
<1>4. /\ <<<<n1, t1>>, <<n2, t2>>, <<n3, t3>>, <<n4, t4>>, <<n5, t5>>>> \o <<<<n6, t6>>>> = <<<<n1, t1>>, <<n2, t2>>, <<n3, t3>>, <<n4, t4>>, <<n5, t5>>, <<n6, t6>>>>
      /\ <<f1, f2, f3, f4, f5>> \o <<f6>> = <<f1, f2, f3, f4, f5, f6>>
    <2> DEFINE p1 == <<n1, t1>>
           p2 == <<n2, t2>>
           p3 == <<n3, t3>>
           p4 == <<n4, t4>>
           p5 == <<n5, t5>>
           p6 == <<n6, t6>>
    <2> HIDE DEF p1, p2, p3, p4, p5, p6
    <2>1. <<p1, p2, p3, p4, p5>> \o <<p6>> = <<p1, p2, p3, p4, p5, p6>>
        BY Tuples6
    <2>2. <<f1, f2, f3, f4, f5>> \o <<f6>> = <<f1, f2, f3, f4, f5, f6>>
        BY Tuples6
    <2>3. QED
        BY <2>1, <2>2, Zenon DEF p1, p2, p3, p4, p5, p6
<1>5. QED
    BY <1>3, <1>4, Zenon

LEMMA Spells7 ==
    ASSUME NEW n1, NEW n2, NEW n3, NEW n4, NEW n5, NEW n6, NEW n7,
           NEW f1, NEW f2, NEW f3, NEW f4, NEW f5, NEW f6, NEW f7,
           NEW t1, NEW t2, NEW t3, NEW t4, NEW t5, NEW t6, NEW t7,
           Fits(f1, t1), f1.name = n1,
           Fits(f2, t2), f2.name = n2,
           Fits(f3, t3), f3.name = n3,
           Fits(f4, t4), f4.name = n4,
           Fits(f5, t5), f5.name = n5,
           Fits(f6, t6), f6.name = n6,
           Fits(f7, t7), f7.name = n7
    PROVE  Spells(f1.wire \o f2.wire \o f3.wire \o f4.wire \o f5.wire \o f6.wire \o f7.wire,
                  <<<<n1, t1>>, <<n2, t2>>, <<n3, t3>>, <<n4, t4>>, <<n5, t5>>, <<n6, t6>>, <<n7, t7>>>>, <<f1, f2, f3, f4, f5, f6, f7>>)
<1>1. Spells(f1.wire \o f2.wire \o f3.wire \o f4.wire \o f5.wire \o f6.wire, <<<<n1, t1>>, <<n2, t2>>, <<n3, t3>>, <<n4, t4>>, <<n5, t5>>, <<n6, t6>>>>, <<f1, f2, f3, f4, f5, f6>>)
    BY Spells6, Zenon
<1>2. Spells(f7.wire, <<<<n7, t7>>>>, <<f7>>)
    BY SpellsOne
<1>3. Spells((f1.wire \o f2.wire \o f3.wire \o f4.wire \o f5.wire \o f6.wire) \o f7.wire, <<<<n1, t1>>, <<n2, t2>>, <<n3, t3>>, <<n4, t4>>, <<n5, t5>>, <<n6, t6>>>> \o <<<<n7, t7>>>>,
             <<f1, f2, f3, f4, f5, f6>> \o <<f7>>)
    BY <1>1, <1>2, SpellsBoth, Zenon
<1>4. /\ <<<<n1, t1>>, <<n2, t2>>, <<n3, t3>>, <<n4, t4>>, <<n5, t5>>, <<n6, t6>>>> \o <<<<n7, t7>>>> = <<<<n1, t1>>, <<n2, t2>>, <<n3, t3>>, <<n4, t4>>, <<n5, t5>>, <<n6, t6>>, <<n7, t7>>>>
      /\ <<f1, f2, f3, f4, f5, f6>> \o <<f7>> = <<f1, f2, f3, f4, f5, f6, f7>>
    <2> DEFINE p1 == <<n1, t1>>
           p2 == <<n2, t2>>
           p3 == <<n3, t3>>
           p4 == <<n4, t4>>
           p5 == <<n5, t5>>
           p6 == <<n6, t6>>
           p7 == <<n7, t7>>
    <2> HIDE DEF p1, p2, p3, p4, p5, p6, p7
    <2>1. <<p1, p2, p3, p4, p5, p6>> \o <<p7>> = <<p1, p2, p3, p4, p5, p6, p7>>
        BY Tuples7
    <2>2. <<f1, f2, f3, f4, f5, f6>> \o <<f7>> = <<f1, f2, f3, f4, f5, f6, f7>>
        BY Tuples7
    <2>3. QED
        BY <2>1, <2>2, Zenon DEF p1, p2, p3, p4, p5, p6, p7
<1>5. QED
    BY <1>3, <1>4, Zenon

\* A packet of the client: its header, and its data.
ArgsLayout == <<<<"length", "u32">>, <<"id", "u32">>, <<"flags", "u8">>, <<"set", "u8">>,
                <<"command", "u8">>>>
ArgsFields(n, set, command) ==
    <<U32("length", n), U32("id", 3), Raw("flags", << 0 >>), Raw("set", <<set>>),
      Raw("command", <<command>>)>>

\* Every request starts with the fields of its header.
LEMMA PacketSpelled ==
    ASSUME NEW set \in Nat, NEW command \in Nat, NEW x, NEW layout, NEW fields,
           Spells(x, layout, fields)
    PROVE  LET n == Len(Packet(3, set, command, x))
           IN  Spells(Packet(3, set, command, x), ArgsLayout \o layout,
                      ArgsFields(n, set, command) \o fields)
<1> DEFINE n  == 11 + Len(x)
           b1 == BigEndian(4, n)
           b2 == BigEndian(4, 3)
           b3 == << 0 >>
           b4 == <<set>>
           b5 == <<command>>
           h  == b1 \o b2 \o <<0, set, command>>
           packet == Packet(3, set, command, x)
<1>1. x \in Seq(Nat) /\ n \in Nat /\ Len(x) \in Nat
    BY DEF Spells
<1>2. packet = h \o x
    BY Zenon DEF Packet
<1>3. Run(b1, 4) /\ Run(b2, 4) /\ Run(b3, 1) /\ Run(b4, 1) /\ Run(b5, 1)
    <2>1. Run(b3, 1) /\ Run(b4, 1) /\ Run(b5, 1)
        BY DEF Run
    <2> HIDE DEF n
    <2>2. QED
        BY <1>1, <2>1, RunBigEndian
<1>4. b3 \o b4 = <<0, set>> /\ <<0, set>> \o b5 = <<0, set, command>>
    BY Tuples2, Tuples3, Zenon
<1> HIDE DEF packet, b3, b4, b5
<1>5. h = b1 \o b2 \o b3 \o b4 \o b5
    <2> DEFINE p == b1 \o b2
        <2>0. b1 \in Seq(Nat) /\ b2 \in Seq(Nat)
        BY <1>3 DEF Run
    <2> HIDE DEF b1, b2, n
    <2>1. p \in Seq(Nat) /\ b3 \in Seq(Nat) /\ b4 \in Seq(Nat) /\ b5 \in Seq(Nat)
        BY <1>3, <2>0, Regroup DEF Run
    <2> HIDE DEF p
    <2>2. Regrouped(p, b3, b4, b5)
        BY <2>1, RegroupMore
    <2>3. QED
        BY <1>4, <2>2, Zenon DEF p, Regrouped
<1> HIDE DEF b1, b2
<1>6. Run(h, 11)
    <2>1. Run(b1 \o b2, 4 + 4)
        BY <1>3, RunBoth, Zenon
    <2>2. Run(b1 \o b2, 8)
        BY <2>1
    <2>3. Run(<<0, set, command>>, 3)
        BY DEF Run
    <2>4. Run(h, 8 + 3)
        BY <2>2, <2>3, RunBoth, Zenon
    <2>5. QED
        BY <2>4
<1>7. Len(packet) = n
    <2>1. Run(x, Len(x))
        BY <1>1, RunSeq
    <2> HIDE DEF h
    <2>2. Run(h \o x, 11 + Len(x))
        BY <1>6, <2>1, RunBoth
    <2>3. QED
        BY <1>2, <2>2, Zenon DEF Run
<1> DEFINE g1 == U32("length", n)
           g2 == U32("id", 3)
           g3 == Raw("flags", b3)
           g4 == Raw("set", b4)
           g5 == Raw("command", b5)
<1>8. /\ Fits(g1, "u32") /\ g1.name = "length"
      /\ Fits(g2, "u32") /\ g2.name = "id"
      /\ Fits(g3, "u8") /\ g3.name = "flags"
      /\ Fits(g4, "u8") /\ g4.name = "set"
      /\ Fits(g5, "u8") /\ g5.name = "command"
    <2> HIDE DEF n
    <2>1. 3 \in Nat /\ 0 \in Nat
        OBVIOUS
    <2>2. QED
        BY <1>1, <2>1, FitsU32, FitsByte DEF b3, b4, b5
<1>9. g1.wire = b1 /\ g2.wire = b2 /\ g3.wire = b3 /\ g4.wire = b4 /\ g5.wire = b5
    BY DEF U32, Raw, b1, b2
<1> HIDE DEF g1, g2, g3, g4, g5
<1>10. Spells(g1.wire \o g2.wire \o g3.wire \o g4.wire \o g5.wire, ArgsLayout,
              <<g1, g2, g3, g4, g5>>)
    BY <1>8, Spells5, Zenon DEF ArgsLayout
<1>11. Spells(h, ArgsLayout, <<g1, g2, g3, g4, g5>>)
    BY <1>5, <1>9, <1>10, Zenon
<1>12. ArgsFields(n, set, command) = <<g1, g2, g3, g4, g5>>
    BY Zenon DEF ArgsFields, g1, g2, g3, g4, g5, b3, b4, b5
<1>13. Spells(h, ArgsLayout, ArgsFields(n, set, command))
    BY <1>11, <1>12, Zenon
<1> HIDE DEF n, h
<1>14. Spells(h \o x, ArgsLayout \o layout, ArgsFields(n, set, command) \o fields)
    BY <1>13, SpellsBoth, Zenon
<1>15. QED
    BY <1>2, <1>7, <1>14, Zenon DEF packet

\* A request for an event, of kind and with n modifiers that spell x.
SetLayout == <<<<"kind", "u8">>, <<"policy", "u8">>, <<"modifiers", "u32">>>>
SetFields(kind, n) == <<Raw("kind", <<kind>>), Raw("policy", << 2 >>), U32("modifiers", n)>>

\* Every event request goes on with its kind, its policy and its modifiers.
LEMMA EventSpelled ==
    ASSUME NEW kind \in Nat, NEW modifiers, NEW n \in Nat, Len(modifiers) = n,
           NEW layout, NEW fields, Spells(FlattenSeq(modifiers), layout, fields)
    PROVE  LET request == EventRequest(3, kind, modifiers)
           IN  Spells(request, ArgsLayout \o (SetLayout \o layout),
                      ArgsFields(Len(request), 15, 1) \o (SetFields(kind, n) \o fields))
<1> DEFINE x  == FlattenSeq(modifiers)
           b1 == <<kind>>
           b2 == << 2 >>
           b3 == BigEndian(4, n)
           data == (<<kind, 2>> \o b3) \o x
<1>1. EventRequest(3, kind, modifiers) = Packet(3, 15, 1, data)
    BY Zenon DEF EventRequest, SuspendAll
<1>2. b1 \o b2 = <<kind, 2>>
    BY Tuples2
<1> DEFINE g1 == Raw("kind", b1)
           g2 == Raw("policy", b2)
           g3 == U32("modifiers", n)
<1>3. /\ Fits(g1, "u8") /\ g1.name = "kind"
      /\ Fits(g2, "u8") /\ g2.name = "policy"
      /\ Fits(g3, "u32") /\ g3.name = "modifiers"
    <2>1. 2 \in Nat
        OBVIOUS
    <2>2. QED
        BY <2>1, FitsU32, FitsByte
<1>4. g1.wire = b1 /\ g2.wire = b2 /\ g3.wire = b3
    BY DEF U32, Raw
<1> HIDE DEF g1, g2, g3
<1>5. Spells(g1.wire \o g2.wire \o g3.wire, SetLayout, <<g1, g2, g3>>)
    BY <1>3, Spells3, Zenon DEF SetLayout
<1>6. Spells(<<kind, 2>> \o b3, SetLayout, <<g1, g2, g3>>)
    BY <1>2, <1>4, <1>5, Zenon
<1>7. SetFields(kind, n) = <<g1, g2, g3>>
    BY Zenon DEF SetFields, g1, g2, g3
<1> DEFINE set == <<kind, 2>> \o b3
<1>8. Spells(set, SetLayout, SetFields(kind, n))
    BY <1>6, <1>7, Zenon
<1> HIDE DEF set, x
<1>9. Spells(set \o x, SetLayout \o layout, SetFields(kind, n) \o fields)
    BY <1>8, SpellsBoth, Zenon DEF x
<1> DEFINE all == set \o x
           l == SetLayout \o layout
           f == SetFields(kind, n) \o fields
<1> HIDE DEF all, l, f
<1>10. Spells(all, l, f)
    BY <1>9, Zenon DEF all, l, f
<1>11. 15 \in Nat /\ 1 \in Nat
    OBVIOUS
<1>12. Spells(Packet(3, 15, 1, all), ArgsLayout \o l,
              ArgsFields(Len(Packet(3, 15, 1, all)), 15, 1) \o f)
    BY <1>10, <1>11, PacketSpelled, Zenon
<1>13. EventRequest(3, kind, modifiers) = Packet(3, 15, 1, all)
    BY <1>1, Zenon DEF all, set, x
<1>14. QED
    BY <1>12, <1>13, Zenon DEF l, f

\* What the agent is asked by each call, and what it is to be told.
Understood(call) ==
    \E fields : /\ Spells(RequestBytes(call), RequestLayout(call), fields)
                /\ RequestMeaning(call) = Meaning(fields)

\* The requests, one by one.
LEMMA ClearUnderstood == Understood("clear")
<1> DEFINE x == << 1 >> \o BigEndian(4, 6)
           g1 == Raw("kind", << 1 >>)
           g2 == U32("requestId", 6)
           layout == <<<<"kind", "u8">>, <<"requestId", "u32">>>>
           bytes == Packet(3, 15, 2, x)
           fields == ArgsFields(Len(bytes), 15, 2) \o <<g1, g2>>
<1>1. /\ Fits(g1, "u8") /\ g1.name = "kind" /\ g1.wire = << 1 >>
      /\ Fits(g2, "u32") /\ g2.name = "requestId" /\ g2.wire = BigEndian(4, 6)
    <2>1. 1 \in Nat /\ 6 \in Nat
        OBVIOUS
    <2>2. QED
        BY <2>1, FitsU32, FitsByte DEF U32, Raw
<1>2. Spells(x, layout, <<g1, g2>>)
    <2> HIDE DEF g1, g2
    <2>1. Spells(g1.wire \o g2.wire, layout, <<g1, g2>>)
        BY <1>1, Spells2, Zenon
    <2>2. QED
        BY <1>1, <2>1, Zenon
<1>3. Kinds.step = 1
    BY DEF Kinds
<1>4. RequestBytes("clear") = bytes
    BY <1>3 DEF RequestBytes, ClearRequest
<1>5. RequestLayout("clear") = ArgsLayout \o layout
    BY DEF RequestLayout, ArgsLayout
<1>6. RequestMeaning("clear") = Meaning(fields)
    BY <1>4 DEF RequestMeaning, ArgsFields
<1>7. Spells(bytes, ArgsLayout \o layout, fields)
    <2> DEFINE f == <<g1, g2>>
    <2> HIDE DEF x, layout, f
    <2>1. 15 \in Nat /\ 2 \in Nat /\ Spells(x, layout, f)
        BY <1>2 DEF f
    <2>2. Spells(Packet(3, 15, 2, x), ArgsLayout \o layout,
                 ArgsFields(Len(Packet(3, 15, 2, x)), 15, 2) \o f)
        BY <2>1, PacketSpelled, Zenon
    <2>3. QED
        BY <2>2, Zenon DEF f
<1> HIDE DEF fields, bytes
<1>8. QED
    BY <1>4, <1>5, <1>6, <1>7, Zenon DEF Understood

\* A request whose data are spelled, and one for an event with one modifier.
LEMMA PlainUnderstood ==
    ASSUME NEW call, NEW set \in Nat, NEW command \in Nat, NEW x, NEW layout, NEW fields,
           Spells(x, layout, fields), RequestBytes(call) = Packet(3, set, command, x),
           RequestLayout(call) = ArgsLayout \o layout,
           RequestMeaning(call)
             = Meaning(ArgsFields(Len(RequestBytes(call)), set, command) \o fields)
    PROVE  Understood(call)
<1>1. Spells(Packet(3, set, command, x), ArgsLayout \o layout,
             ArgsFields(Len(Packet(3, set, command, x)), set, command) \o fields)
    BY PacketSpelled, Zenon
<1>2. QED
    BY <1>1, Zenon DEF Understood

LEMMA EventUnderstood ==
    ASSUME NEW call, NEW kind \in Nat, NEW m, NEW layout, NEW fields,
           Spells(m, layout, fields), RequestBytes(call) = EventRequest(3, kind, <<m>>),
           RequestLayout(call) = ArgsLayout \o (SetLayout \o layout),
           RequestMeaning(call)
             = Meaning(ArgsFields(Len(RequestBytes(call)), 15, 1)
                         \o (SetFields(kind, 1) \o fields))
    PROVE  Understood(call)
<1> DEFINE modifiers == <<m>>
<1>1. m \in Seq(Nat)
    BY DEF Spells
<1>2. FlattenSeq(modifiers) = m
    BY <1>1, FlattenOne
<1>3. Len(modifiers) = 1 /\ 1 \in Nat
    OBVIOUS
<1> DEFINE request == EventRequest(3, kind, modifiers)
<1>4. RequestBytes(call) = request
    OBVIOUS
<1> HIDE DEF modifiers
<1>5. Spells(FlattenSeq(modifiers), layout, fields)
    BY <1>2, Zenon
<1>6. Spells(request, ArgsLayout \o (SetLayout \o layout),
             ArgsFields(Len(request), 15, 1) \o (SetFields(kind, 1) \o fields))
    BY <1>3, <1>5, EventSpelled, Zenon
<1> HIDE DEF request
<1>7. QED
    BY <1>4, <1>6, Zenon DEF Understood

LEMMA ClassPrepareUnderstood == Understood("classPrepare")
<1> DEFINE none == <<>>
           request == EventRequest(3, 8, none)
<1>1. RequestBytes("classPrepare") = request
    BY DEF RequestBytes, SetClassPrepare, Kinds
<1>2. RequestLayout("classPrepare") = ArgsLayout \o (SetLayout \o <<>>)
    BY DEF RequestLayout, ArgsLayout, SetLayout
<1>3. RequestMeaning("classPrepare")
        = Meaning(ArgsFields(Len(RequestBytes("classPrepare")), 15, 1)
                    \o (SetFields(8, 0) \o <<>>))
    BY DEF RequestMeaning, ArgsFields, SetFields
<1>4. Len(none) = 0 /\ FlattenSeq(none) = <<>> /\ 0 \in Nat /\ 8 \in Nat
    BY FlattenNothing
<1> HIDE DEF none
<1>5. Spells(FlattenSeq(none), <<>>, <<>>)
    BY <1>4, SpellsNothing, Zenon
<1>6. Spells(request, ArgsLayout \o (SetLayout \o <<>>),
             ArgsFields(Len(request), 15, 1) \o (SetFields(8, 0) \o <<>>))
    BY <1>4, <1>5, EventSpelled, Zenon
<1> HIDE DEF request
<1>7. QED
    BY <1>1, <1>2, <1>3, <1>6, Zenon DEF Understood

\* The parts of a location are the values of its fields.
LEMMA PlaceValues ==
    LET place == Meaning(Place(4))
    IN  /\ place.typeTag = Raw("typeTag", << 1 >>).wire
        /\ place.classId = Id("classId", 4).wire
        /\ place.methodId = Id("methodId", 5).wire
        /\ place.index = Id("index", 6).wire
<1> DEFINE g1 == Raw("typeTag", << 1 >>)
           g2 == Id("classId", 4)
           g3 == Id("methodId", 5)
           g4 == Id("index", 6)
           names == <<"typeTag", "classId", "methodId", "index">>
           values == <<g1.value, g2.value, g3.value, g4.value>>
           place == Meaning(Place(4))
<1>1. Place(4) = <<g1, g2, g3, g4>>
    BY DEF Place
<1>2. /\ Fits(g1, "u8") /\ g1.name = "typeTag" /\ g1.wire = g1.value
      /\ Fits(g2, "u64") /\ g2.name = "classId" /\ g2.wire = g2.value
      /\ Fits(g3, "u64") /\ g3.name = "methodId" /\ g3.wire = g3.value
      /\ Fits(g4, "u64") /\ g4.name = "index" /\ g4.wire = g4.value
    <2>1. 1 \in Nat /\ 4 \in Nat /\ 5 \in Nat /\ 6 \in Nat
        OBVIOUS
    <2>2. QED
        BY <2>1, FitsId, FitsByte DEF Id, Raw
<1> HIDE DEF g1, g2, g3, g4
<1>3. place = Labelled(names, values)
    <2>1. /\ [i \in DOMAIN <<g1, g2, g3, g4>> |-> <<g1, g2, g3, g4>>[i].name] = names
          /\ [i \in DOMAIN <<g1, g2, g3, g4>> |-> <<g1, g2, g3, g4>>[i].value] = values
        BY <1>2
    <2> HIDE DEF names, values
    <2>2. QED
        BY <1>1, <2>1, Zenon DEF Meaning
<1>4. DOMAIN names = 1..4 /\ {names[i] : i \in DOMAIN names} \ {"_"}
        = {"typeTag", "classId", "methodId", "index"}
    <2>1. {names[i] : i \in 1..4} = {"typeTag", "classId", "methodId", "index"}
        <3>1. 1 \in 1..4 /\ 2 \in 1..4 /\ 3 \in 1..4 /\ 4 \in 1..4
            OBVIOUS
        <3>2. \A i \in 1..4 : names[i] \in {"typeTag", "classId", "methodId", "index"}
            OBVIOUS
        <3>3. names[1] = "typeTag" /\ names[2] = "classId" /\ names[3] = "methodId"
              /\ names[4] = "index"
            OBVIOUS
        <3> HIDE DEF names
        <3>4. QED
            BY <3>1, <3>2, <3>3
    <2>2. DOMAIN names = 1..4
        OBVIOUS
    <2> HIDE DEF names
    <2>3. QED
        BY <2>1, <2>2
<1>5. ASSUME NEW k \in 1..4
      PROVE  place[names[k]] = values[k]
    <2>1. (CHOOSE i \in 1..4 : names[i] = names[k]) = k
        BY <1>5
    <2>2. names[k] \in {"typeTag", "classId", "methodId", "index"}
        OBVIOUS
    <2> HIDE DEF names, values, place
    <2>3. QED
        BY <1>3, <1>4, <2>1, <2>2 DEF Labelled
<1>6. /\ place.typeTag = g1.wire /\ place.classId = g2.wire
      /\ place.methodId = g3.wire /\ place.index = g4.wire
    <2>1. /\ place[names[1]] = values[1] /\ place[names[2]] = values[2]
          /\ place[names[3]] = values[3] /\ place[names[4]] = values[4]
        BY <1>5
    <2> HIDE DEF place
    <2>2. QED
        BY <1>2, <2>1
<1>7. QED
    BY <1>6, Zenon DEF place, g1, g2, g3, g4

LEMMA BreakpointUnderstood == Understood("breakpoint")
<1> DEFINE g0 == Raw("modifier", << 7 >>)
           g1 == Raw("typeTag", << 1 >>)
           g2 == Id("classId", 4)
           g3 == Id("methodId", 5)
           g4 == Id("index", 6)
           place == Meaning(Place(4))
           m == << 7 >> \o place.typeTag \o place.classId \o place.methodId \o place.index
           layout == <<<<"modifier", "u8">>, <<"typeTag", "u8">>, <<"classId", "u64">>,
                       <<"methodId", "u64">>, <<"index", "u64">>>>
           fields == <<Raw("modifier", << 7 >>)>> \o Place(4)
<1>1. Place(4) = <<g1, g2, g3, g4>>
    BY DEF Place
<1>2. /\ Fits(g0, "u8") /\ g0.name = "modifier" /\ g0.wire = << 7 >>
      /\ Fits(g1, "u8") /\ g1.name = "typeTag"
      /\ Fits(g2, "u64") /\ g2.name = "classId"
      /\ Fits(g3, "u64") /\ g3.name = "methodId"
      /\ Fits(g4, "u64") /\ g4.name = "index"
    <2>1. 7 \in Nat /\ 1 \in Nat /\ 4 \in Nat /\ 5 \in Nat /\ 6 \in Nat
        OBVIOUS
    <2>2. QED
        BY <2>1, FitsId, FitsByte DEF Id, Raw
<1>3. /\ place.typeTag = g1.wire /\ place.classId = g2.wire
      /\ place.methodId = g3.wire /\ place.index = g4.wire
    BY PlaceValues, Zenon
<1>4. RequestBytes("breakpoint") = EventRequest(3, 2, <<m>>)
    BY DEF RequestBytes, SetBreakpoint, Kinds
<1>5. RequestLayout("breakpoint") = ArgsLayout \o (SetLayout \o layout)
    BY DEF RequestLayout, ArgsLayout, SetLayout
<1>6. fields = <<g0, g1, g2, g3, g4>> /\ fields # <<>>
    <2> DEFINE x == <<g0>>
               y == <<g1, g2, g3, g4>>
               z == <<g0, g1, g2, g3, g4>>
               S == {g0, g1, g2, g3, g4}
    <2>1. /\ x \in Seq(S) /\ Len(x) = 1 /\ y \in Seq(S) /\ Len(y) = 4
          /\ z \in Seq(S) /\ Len(z) = 5 /\ z # <<>>
        <3> HIDE DEF g0, g1, g2, g3, g4
        <3>1. QED
            OBVIOUS
    <2>2. /\ Len(z) = Len(x) + Len(y) /\ \A i \in 1..Len(x) : z[i] = x[i]
          /\ \A j \in 1..Len(y) : z[Len(x) + j] = y[j]
        <3>1. /\ z[1] = x[1] /\ z[1 + 1] = y[1] /\ z[1 + 2] = y[2] /\ z[1 + 3] = y[3]
              /\ z[1 + 4] = y[4]
            OBVIOUS
        <3> HIDE DEF x, y, z, S, g0, g1, g2, g3, g4
        <3>2. \A j \in 1..4 : z[1 + j] = y[j]
            BY <3>1
        <3>3. QED
            BY <2>1, <3>1, <3>2
    <2> HIDE DEF x, y, z, S
    <2>3. x \o y = z
        BY <2>1, <2>2, Joined
    <2>4. QED
        BY <1>1, <2>1, <2>3, Zenon DEF x, y, z
<1>7. RequestMeaning("breakpoint")
        = Meaning(ArgsFields(Len(RequestBytes("breakpoint")), 15, 1)
                    \o (SetFields(2, 1) \o fields))
    <2> HIDE DEF fields
    <2>1. (IF fields = <<>> THEN 0 ELSE 1) = 1
        BY <1>6
    <2>2. QED
        BY <2>1 DEF RequestMeaning, ArgsFields, SetFields, fields
<1> HIDE DEF g0, g1, g2, g3, g4, place, fields
<1>8. Spells(g0.wire \o g1.wire \o g2.wire \o g3.wire \o g4.wire, layout,
             <<g0, g1, g2, g3, g4>>)
    BY <1>2, Spells5, Zenon
<1> HIDE DEF layout
<1>9. Spells(m, layout, fields)
    BY <1>2, <1>3, <1>6, <1>8, Zenon
<1> HIDE DEF m
<1>10. 2 \in Nat
    OBVIOUS
<1>11. QED
    BY <1>4, <1>5, <1>7, <1>9, <1>10, EventUnderstood, Zenon

LEMMA StepUnderstood == Understood("step")
<1> DEFINE g1 == Raw("modifier", << 10 >>)
           g2 == Thread
           g3 == U32("size", 1)
           g4 == U32("depth", 2)
           m == << 10 >> \o Thread.value \o BigEndian(4, 1) \o BigEndian(4, 2)
           layout == <<<<"modifier", "u8">>, <<"thread", "u64">>, <<"size", "u32">>,
                       <<"depth", "u32">>>>
           fields == <<g1, g2, g3, g4>>
<1>1. /\ Fits(g1, "u8") /\ g1.name = "modifier" /\ g1.wire = << 10 >>
      /\ Fits(g2, "u64") /\ g2.name = "thread" /\ g2.wire = Thread.value
      /\ Fits(g3, "u32") /\ g3.name = "size" /\ g3.wire = BigEndian(4, 1)
      /\ Fits(g4, "u32") /\ g4.name = "depth" /\ g4.wire = BigEndian(4, 2)
    <2>1. 10 \in Nat /\ 1 \in Nat /\ 2 \in Nat
        OBVIOUS
    <2>2. QED
        BY <2>1, FitsU32, FitsId, FitsByte DEF U32, Id, Raw, Thread
<1>2. RequestBytes("step") = EventRequest(3, 1, <<m>>)
    BY DEF RequestBytes, SetStep, Kinds
<1>3. RequestLayout("step") = ArgsLayout \o (SetLayout \o layout)
    BY DEF RequestLayout, ArgsLayout, SetLayout
<1>4. RequestMeaning("step")
        = Meaning(ArgsFields(Len(RequestBytes("step")), 15, 1) \o (SetFields(1, 1) \o fields))
    <2>0. fields # <<>>
        OBVIOUS
    <2> HIDE DEF fields
    <2>1. (IF fields = <<>> THEN 0 ELSE 1) = 1
        BY <2>0
    <2>2. QED
        BY <2>1 DEF RequestMeaning, ArgsFields, SetFields, fields
<1> HIDE DEF g1, g2, g3, g4
<1>5. Spells(g1.wire \o g2.wire \o g3.wire \o g4.wire, layout, fields)
    BY <1>1, Spells4, Zenon
<1> HIDE DEF layout, fields
<1>6. Spells(m, layout, fields)
    BY <1>1, <1>5, Zenon
<1> HIDE DEF m
<1>7. 1 \in Nat
    OBVIOUS
<1>8. QED
    BY <1>2, <1>3, <1>4, <1>6, <1>7, EventUnderstood, Zenon

LEMMA ExceptionUnderstood == Understood("exception")
<1> DEFINE g1 == Raw("modifier", << 8 >>)
           g2 == Raw("refType", BigEndian(8, 0))
           g3 == Raw("caught", << 0 >>)
           g4 == Raw("uncaught", << 1 >>)
           m == << 8 >> \o BigEndian(8, 0) \o <<0, 1>>
           layout == <<<<"modifier", "u8">>, <<"refType", "u64">>, <<"caught", "u8">>,
                       <<"uncaught", "u8">>>>
           fields == <<g1, g2, g3, g4>>
<1>1. /\ Fits(g1, "u8") /\ g1.name = "modifier" /\ g1.wire = << 8 >>
      /\ Fits(g2, "u64") /\ g2.name = "refType" /\ g2.wire = BigEndian(8, 0)
      /\ Fits(g3, "u8") /\ g3.name = "caught" /\ g3.wire = << 0 >>
      /\ Fits(g4, "u8") /\ g4.name = "uncaught" /\ g4.wire = << 1 >>
    <2>1. 8 \in Nat /\ 1 \in Nat /\ 0 \in Nat
        OBVIOUS
    <2> DEFINE b == BigEndian(8, 0)
    <2>2. b \in Seq(Nat) /\ Len(b) = 8
        BY BigEndianType
    <2> HIDE DEF b
    <2>3. Fits(Raw("refType", b), "u64")
        BY <2>2 DEF Fits, Raw, WidthOf
    <2>4. /\ Fits(g1, "u8") /\ g1.name = "modifier" /\ g1.wire = << 8 >>
          /\ Fits(g3, "u8") /\ g3.name = "caught" /\ g3.wire = << 0 >>
          /\ Fits(g4, "u8") /\ g4.name = "uncaught" /\ g4.wire = << 1 >>
        BY <2>1, FitsByte DEF Raw
    <2>5. g2.name = "refType" /\ g2.wire = b
        BY DEF Raw, b
    <2>6. QED
        BY <2>3, <2>4, <2>5, Zenon DEF b
<1>2. RequestBytes("exception") = EventRequest(3, 4, <<m>>)
    BY DEF RequestBytes, SetExceptionUncaught, Kinds
<1>3. RequestLayout("exception") = ArgsLayout \o (SetLayout \o layout)
    BY DEF RequestLayout, ArgsLayout, SetLayout
<1>4. RequestMeaning("exception")
        = Meaning(ArgsFields(Len(RequestBytes("exception")), 15, 1)
                    \o (SetFields(4, 1) \o fields))
    <2>0. fields # <<>>
        OBVIOUS
    <2> HIDE DEF fields
    <2>1. (IF fields = <<>> THEN 0 ELSE 1) = 1
        BY <2>0
    <2>2. QED
        BY <2>1 DEF RequestMeaning, ArgsFields, SetFields, fields
<1> HIDE DEF g1, g2, g3, g4
<1>5. Spells(g1.wire \o g2.wire \o g3.wire \o g4.wire, layout, fields)
    BY <1>1, Spells4, Zenon
<1>6. (<< 8 >> \o BigEndian(8, 0)) \o << 0 >> \o << 1 >> = m
    <2> DEFINE b == BigEndian(8, 0)
               b1 == << 8 >>
               b3 == << 0 >>
               b4 == << 1 >>
    <2>1. b \in Seq(Nat)
        BY BigEndianType
    <2>2. b1 \in Seq(Nat) /\ b3 \in Seq(Nat) /\ b4 \in Seq(Nat)
        OBVIOUS
    <2>3. b3 \o b4 = <<0, 1>>
        BY Tuples2
    <2> HIDE DEF b, b1, b3, b4
    <2> DEFINE p == b1 \o b
    <2>4. p \in Seq(Nat)
        BY <2>1, <2>2, Regroup
    <2> HIDE DEF p
    <2>5. (p \o b3) \o b4 = p \o (b3 \o b4)
        BY <2>2, <2>4, Regroup
    <2>6. QED
        BY <2>3, <2>5, Zenon DEF p, b, b1, b3, b4
<1> HIDE DEF layout, fields
<1>7. Spells(m, layout, fields)
    BY <1>1, <1>5, <1>6, Zenon
<1> HIDE DEF m
<1>8. 4 \in Nat
    OBVIOUS
<1>9. QED
    BY <1>2, <1>3, <1>4, <1>7, <1>8, EventUnderstood, Zenon

LEMMA FramesUnderstood == Understood("frames")
<1> DEFINE g1 == Thread
           g2 == U32("start", 0)
           g3 == Raw("count", All)
           x == Thread.value \o BigEndian(4, 0) \o All
           layout == <<<<"thread", "u64">>, <<"start", "u32">>, <<"count", "u32">>>>
           fields == <<g1, g2, g3>>
<1>1. /\ Fits(g1, "u64") /\ g1.name = "thread" /\ g1.wire = Thread.value
      /\ Fits(g2, "u32") /\ g2.name = "start" /\ g2.wire = BigEndian(4, 0)
      /\ Fits(g3, "u32") /\ g3.name = "count" /\ g3.wire = All
    <2>1. 1 \in Nat /\ 0 \in Nat
        OBVIOUS
    <2>2. Fits(g3, "u32")
        BY DEF Fits, Raw, WidthOf, All
    <2>3. QED
        BY <2>1, <2>2, FitsU32, FitsId DEF U32, Id, Raw, Thread
<1>2. RequestBytes("frames") = Packet(3, 11, 6, x)
    BY DEF RequestBytes, ThreadFrames
<1>3. RequestLayout("frames") = ArgsLayout \o layout
    BY DEF RequestLayout, ArgsLayout
<1>4. RequestMeaning("frames")
        = Meaning(ArgsFields(Len(RequestBytes("frames")), 11, 6) \o fields)
    BY DEF RequestMeaning, ArgsFields
<1> HIDE DEF g1, g2, g3
<1>5. Spells(g1.wire \o g2.wire \o g3.wire, layout, fields)
    BY <1>1, Spells3, Zenon
<1> HIDE DEF layout, fields
<1>6. Spells(x, layout, fields)
    BY <1>1, <1>5, Zenon
<1> HIDE DEF x
<1>7. 11 \in Nat /\ 6 \in Nat
    OBVIOUS
<1>8. QED
    BY <1>2, <1>3, <1>4, <1>6, <1>7, PlainUnderstood, Zenon

LEMMA ValuesUnderstood == Understood("values")
<1> DEFINE g1 == Thread
           g2 == Id("frame", 2)
           g3 == U32("count", 2)
           g4 == U32("slot1", 1)
           g5 == Raw("tag1", << 73 >>)
           g6 == U32("slot2", 2)
           g7 == Raw("tag2", << 76 >>)
           b3 == BigEndian(4, 2)
           b4 == BigEndian(4, 1)
           b5 == << 73 >>
           b7 == << 76 >>
           p  == g1.value \o g2.value \o b3
           x  == p \o ((b4 \o b5) \o (b3 \o b7))
           layout == <<<<"thread", "u64">>, <<"frame", "u64">>, <<"count", "u32">>,
                       <<"slot1", "u32">>, <<"tag1", "u8">>,
                       <<"slot2", "u32">>, <<"tag2", "u8">>>>
           fields == <<g1, g2, g3, g4, g5, g6, g7>>
           frame == Id("frame", 2).value
<1>1. /\ Fits(g1, "u64") /\ g1.name = "thread" /\ g1.wire = g1.value
      /\ Fits(g2, "u64") /\ g2.name = "frame" /\ g2.wire = g2.value
      /\ Fits(g3, "u32") /\ g3.name = "count" /\ g3.wire = b3
      /\ Fits(g4, "u32") /\ g4.name = "slot1" /\ g4.wire = b4
      /\ Fits(g5, "u8") /\ g5.name = "tag1" /\ g5.wire = b5
      /\ Fits(g6, "u32") /\ g6.name = "slot2" /\ g6.wire = b3
      /\ Fits(g7, "u8") /\ g7.name = "tag2" /\ g7.wire = b7
    <2>1. 1 \in Nat /\ 2 \in Nat /\ 73 \in Nat /\ 76 \in Nat
        OBVIOUS
    <2>2. /\ Fits(g1, "u64") /\ g1.name = "thread" /\ g1.wire = g1.value
          /\ Fits(g2, "u64") /\ g2.name = "frame" /\ g2.wire = g2.value
        BY <2>1, FitsId DEF Id, Raw, Thread
    <2>3. /\ Fits(g3, "u32") /\ g3.name = "count" /\ g3.wire = b3
          /\ Fits(g4, "u32") /\ g4.name = "slot1" /\ g4.wire = b4
          /\ Fits(g6, "u32") /\ g6.name = "slot2" /\ g6.wire = b3
        BY <2>1, FitsU32 DEF U32, Raw
    <2>4. /\ Fits(g5, "u8") /\ g5.name = "tag1" /\ g5.wire = b5
          /\ Fits(g7, "u8") /\ g7.name = "tag2" /\ g7.wire = b7
        BY <2>1, FitsByte DEF Raw
    <2>5. QED
        BY <2>2, <2>3, <2>4, Zenon
<1>2. b3 \in Seq(Nat) /\ b4 \in Seq(Nat) /\ b5 \in Seq(Nat) /\ b7 \in Seq(Nat)
      /\ g1.value \in Seq(Nat) /\ g2.value \in Seq(Nat)
    <2>1. b3 \in Seq(Nat) /\ b4 \in Seq(Nat)
        BY BigEndianType
    <2>2. b5 \in Seq(Nat) /\ b7 \in Seq(Nat)
        OBVIOUS
    <2>3. g1.value \in Seq(Nat) /\ g2.value \in Seq(Nat)
        BY DEF Thread, Id, Raw
    <2>4. QED
        BY <2>1, <2>2, <2>3, Zenon
<1>3. FlattenSeq([i \in DOMAIN Slots2 |-> BigEndian(4, Slots2[i][1]) \o <<Slots2[i][2]>>])
        = (b4 \o b5) \o (b3 \o b7)
    <2>1. [i \in DOMAIN Slots2 |-> BigEndian(4, Slots2[i][1]) \o <<Slots2[i][2]>>]
            = <<b4 \o b5, b3 \o b7>>
        <3>1. Slots2 = <<<<1, 73>>, <<2, 76>>>>
            BY DEF Slots2, Tags
        <3>2. DOMAIN Slots2 = 1..2 /\ Slots2[1][1] = 1 /\ Slots2[1][2] = 73
              /\ Slots2[2][1] = 2 /\ Slots2[2][2] = 76
            BY <3>1
        <3> DEFINE w1 == b4 \o b5
                   w2 == b3 \o b7
        <3>3. /\ BigEndian(4, Slots2[1][1]) \o <<Slots2[1][2]>> = w1
              /\ BigEndian(4, Slots2[2][1]) \o <<Slots2[2][2]>> = w2
            BY <3>2, Zenon
        <3> DEFINE W(i) == BigEndian(4, Slots2[i][1]) \o <<Slots2[i][2]>>
        <3>4. W(1) = w1 /\ W(2) = w2
            BY <3>3, Zenon
        <3> HIDE DEF w1, w2, W
        <3>5. [i \in 1..2 |-> W(i)] = <<w1, w2>>
            BY <3>4
        <3>6. [i \in DOMAIN Slots2 |-> W(i)] = <<w1, w2>>
            BY <3>2, <3>5, Zenon
        <3>7. QED
            BY <3>6, Zenon DEF W, w1, w2
    <2> HIDE DEF b3, b4, b5, b7
    <2>2. b4 \o b5 \in Seq(Nat) /\ b3 \o b7 \in Seq(Nat)
        BY <1>2, ConcatProperties, Zenon
    <2>3. FlattenSeq(<<b4 \o b5, b3 \o b7>>) = (b4 \o b5) \o (b3 \o b7)
        BY <2>2, FlattenTwo, Zenon
    <2>4. QED
        BY <2>1, <2>3, Zenon
<1>4. RequestBytes("values") = Packet(3, 16, 1, x)
    <2>1. RequestBytes("values") = GetValues(3, g1.value, g2.value, Slots2)
        BY DEF RequestBytes
    <2>2. Len(Slots2) = 2
        BY DEF Slots2
    <2> HIDE DEF g1, g2, b4, b5, b7
    <2>3. QED
        BY <1>3, <2>1, <2>2, Zenon DEF GetValues
<1>5. RequestLayout("values") = ArgsLayout \o layout
    BY DEF RequestLayout, ArgsLayout
<1>6. RequestMeaning("values")
        = Meaning(ArgsFields(Len(RequestBytes("values")), 16, 1) \o fields)
    BY DEF RequestMeaning, ArgsFields
<1> HIDE DEF g1, g2, g3, g4, g5, g6, g7, b3, b4, b5, b7
<1>7. Spells(g1.wire \o g2.wire \o g3.wire \o g4.wire \o g5.wire \o g6.wire \o g7.wire,
             layout, fields)
    BY <1>1, Spells7, Zenon
<1> HIDE DEF layout, fields
<1>8. Spells(p \o b4 \o b5 \o b3 \o b7, layout, fields)
    BY <1>1, <1>7, Zenon
<1>9. p \o b4 \o b5 \o b3 \o b7 = x
    <2> DEFINE q == b4 \o b5
               r == b3 \o b7
               s == p \o q
    <2>1. p \in Seq(Nat)
        <3> DEFINE v1 == g1.value
                   v2 == g2.value
        <3>1. v1 \in Seq(Nat) /\ v2 \in Seq(Nat)
            BY <1>2, Zenon
        <3> HIDE DEF v1, v2
        <3> DEFINE v == v1 \o v2
        <3>2. v \in Seq(Nat)
            BY <3>1, Regroup
        <3> HIDE DEF v
        <3>3. v \o b3 \in Seq(Nat)
            BY <1>2, <3>2, Regroup
        <3>4. QED
            BY <3>3, Zenon DEF v, v1, v2
    <2> HIDE DEF p
    <2>2. (p \o b4) \o b5 = p \o q /\ q \in Seq(Nat) /\ r \in Seq(Nat)
        BY <1>2, <2>1, Regroup, ZenonT(40)
    <2> HIDE DEF q, r
    <2>3. (p \o q) \o r = p \o (q \o r) /\ s \in Seq(Nat)
        BY <2>1, <2>2, Regroup
    <2> HIDE DEF s
    <2>4. (s \o b3) \o b7 = s \o (b3 \o b7)
        BY <1>2, <2>3, Regroup
    <2>5. p \o b4 \o b5 \o b3 \o b7 = (s \o b3) \o b7
        BY <2>2, Zenon DEF s
    <2>6. s \o r = p \o (q \o r)
        BY <2>3, Zenon DEF s
    <2>7. QED
        BY <2>4, <2>5, <2>6, Zenon DEF q, r
<1> HIDE DEF x
<1>10. Spells(x, layout, fields)
    BY <1>8, <1>9, Zenon
<1>11. 16 \in Nat /\ 1 \in Nat
    OBVIOUS
<1>12. QED
    BY <1>4, <1>5, <1>6, <1>10, <1>11, PlainUnderstood, Zenon

\* The agent reads every request as it is meant, whole,
LEMMA RequestUnderstood ==
    ASSUME NEW call \in Calls
    PROVE  /\ RequestBytes(call) \in Seq(Nat)
           /\ AgentReads(RequestBytes(call), call).ok
           /\ AgentReads(RequestBytes(call), call).value = RequestMeaning(call)
<1> DEFINE data == RequestBytes(call)
           layout == RequestLayout(call)
<1>1. Understood(call)
    BY ClassPrepareUnderstood, BreakpointUnderstood, StepUnderstood, ExceptionUnderstood,
       ClearUnderstood, FramesUnderstood, ValuesUnderstood DEF Calls
<1>2. PICK fields : Spells(data, layout, fields) /\ RequestMeaning(call) = Meaning(fields)
    BY <1>1, Zenon DEF Understood
<1> DEFINE r == ReadRecord(data, Start, layout)
<1>3. AgentReads(data, call) = [ok |-> r.cursor.ok /\ r.cursor.at = Len(data),
                                value |-> r.fields]
    BY Zenon DEF AgentReads
<1> HIDE DEF data, layout
<1>4. Matches(layout, fields) /\ Written(fields) = data /\ data \in Seq(Nat)
    BY <1>2, Zenon DEF Spells
<1>5. Holds(data, 0, Written(fields)) /\ Stands(Start, 0) /\ 0 + Len(Written(fields)) = Len(data)
    <2>1. Holds(data, 0, data)
        BY <1>4, HoldsAll
    <2>2. 0 + Len(data) = Len(data) /\ Stands(Start, 0)
        BY <1>4 DEF Stands, Start
    <2>3. QED
        BY <1>4, <2>1, <2>2, Zenon
<1>6. Stands(r.cursor, 0 + Len(Written(fields))) /\ r.fields = Meaning(fields)
    BY <1>4, <1>5, ReadRecordThere
<1>7. r.cursor.ok /\ r.cursor.at = Len(data) /\ r.fields = RequestMeaning(call)
    BY <1>2, <1>5, <1>6, Zenon DEF Stands
<1> DEFINE ok == r.cursor.ok /\ r.cursor.at = Len(data)
           value == r.fields
<1>75. AgentReads(data, call) = [ok |-> ok, value |-> value] /\ ok /\ value = RequestMeaning(call)
    BY <1>3, <1>7, Zenon
<1> HIDE DEF r, ok, value
<1>8. /\ AgentReads(data, call).ok
      /\ AgentReads(data, call).value = RequestMeaning(call)
    BY <1>75
<1>9. QED
    BY <1>4, <1>8 DEF data

-----------------------------------------------------------------------------
(* Packets are understood.                                                 *)
\* What decoding bytes gives, and when that is right.
Decoded(data) ==
    CASE document.is = "request" -> AgentReads(data, document.call)
      [] document.is = "class"   -> ParseClassInfo(data)
      [] OTHER                   -> DecodePacket(data)

\* What DecodesWhatWasMeant asks of one result.
Right(result, whole) ==
    /\ whole /\ ~IsError => result.ok
    /\ result.ok => ~IsError /\ result.value = Intended(document)

LEMMA DecodePacketIs ==
    ASSUME NEW bytes
    PROVE  LET packet == ReadPacket(bytes)
           IN  /\ packet.ok /\ packet.isReply /\ packet.code = NoError
                    => DecodePacket(bytes) = DecodeReply(packet.data, Layouts[document.command])
               /\ packet.ok /\ ~packet.isReply /\ packet.code = CompositeEvent
                    => DecodePacket(bytes) = DecodeComposite(packet.data)
               /\ ~(packet.ok /\ \/ packet.isReply /\ packet.code = NoError
                                 \/ ~packet.isReply /\ packet.code = CompositeEvent)
                    => ~DecodePacket(bytes).ok
<1> DEFINE packet == ReadPacket(bytes)
           reply == DecodeReply(packet.data, Layouts[document.command])
           composite == DecodeComposite(packet.data)
           nothing == [ok |-> FALSE, value |-> <<>>]
<1>1. DecodePacket(bytes)
        = CASE packet.ok /\ packet.isReply /\ packet.code = NoError -> reply
            [] packet.ok /\ ~packet.isReply /\ packet.code = CompositeEvent -> composite
            [] OTHER -> nothing
    BY Zenon DEF DecodePacket
<1>2. ~nothing.ok
    OBVIOUS
<1> HIDE DEF packet, reply, composite, nothing
<1>3. /\ packet.ok /\ packet.isReply /\ packet.code = NoError => DecodePacket(bytes) = reply
      /\ packet.ok /\ ~packet.isReply /\ packet.code = CompositeEvent
           => DecodePacket(bytes) = composite
      /\ ~(packet.ok /\ \/ packet.isReply /\ packet.code = NoError
                        \/ ~packet.isReply /\ packet.code = CompositeEvent)
           => DecodePacket(bytes) = nothing
    BY <1>1
<1>4. QED
    BY <1>2, <1>3, Zenon DEF packet, reply, composite

\* A packet that is not all there is waited for.
LEMMA PartOfPacket ==
    ASSUME NEW data \in Seq(Nat), NEW k \in 0..Len(data), DecodePacket(SubSeq(data, 1, k)).ok
    PROVE  DecodePacket(SubSeq(data, 1, k)) = DecodePacket(data)
<1> DEFINE part == SubSeq(data, 1, k)
<1>1. ReadPacket(part).ok
    <2> HIDE DEF part
    <2>1. QED
        BY DecodePacketIs, Zenon DEF part
<1>2. ReadPacket(part) = ReadPacket(data)
    BY <1>1, ReadPacketAgrees
<1> HIDE DEF part
<1>3. DecodePacket(part) = DecodePacket(data)
    BY <1>2, Zenon DEF DecodePacket
<1>4. QED
    BY <1>3 DEF part

\* A reply, an event packet or a request, of which k bytes are there.
LEMMA ReplyRight ==
    ASSUME document \in Documents, document.is = "reply"
    PROVE  Bytes(document) \in Seq(Nat) /\ Right(DecodePacket(Bytes(document)), TRUE)
<1> DEFINE command == document.command
           n == document.items
           error == document.error
           code == <<0, error>>
           data == IF error = 0 THEN ReplyData(command, n) ELSE <<>>
           bytes == Bytes(document)
           packet == ReadPacket(bytes)
<1>1. command \in DOMAIN Layouts /\ n \in Nat /\ error \in {0, 101}
    BY BoundsAssumption DEF Documents
<1>2. bytes = Framed(128, code, data)
    <2>1. bytes = ReplyBytes(command, n, error)
        BY DEF Bytes
    <2>2. QED
        BY <2>1, Zenon DEF ReplyBytes
<1>3. Intended(document) = ReplyMeaning(command, n)
    BY DEF Intended
<1>4. IsError <=> error # 0
    BY DEF IsError
<1> HIDE DEF bytes, n, command, error
<1>5. /\ ReplyData(command, n) \in Seq(Nat)
      /\ DecodeReply(ReplyData(command, n), Layouts[command]).ok
      /\ DecodeReply(ReplyData(command, n), Layouts[command]).value = ReplyMeaning(command, n)
    BY <1>1, ReplyUnderstood
<1>6. Run(code, 2) /\ 128 \in Nat /\ 128 >= 128
    BY <1>1 DEF Run
<1>7. data \in Seq(Nat)
    BY <1>5
<1> HIDE DEF code, data
<1>8. bytes \in Seq(Nat) /\ packet.ok /\ packet.isReply /\ packet.code = code /\ packet.data = data
    <2>1. LET b == Framed(128, code, data)
          IN  /\ b \in Seq(Nat) /\ ReadPacket(b).ok /\ (ReadPacket(b).isReply <=> 128 >= 128)
              /\ ReadPacket(b).code = code /\ ReadPacket(b).data = data
        BY <1>6, <1>7, FramedThere
    <2>2. QED
        BY <1>2, <1>6, <2>1, Zenon
<1>9. Right(DecodePacket(bytes), TRUE)
    <2>1. CASE error = 0
        <3>1. code = NoError /\ data = ReplyData(command, n)
            BY <2>1 DEF code, data, NoError
        <3>2. DecodePacket(bytes) = DecodeReply(packet.data, Layouts[document.command])
            BY <1>8, <3>1, DecodePacketIs, Zenon
        <3>3. DecodePacket(bytes) = DecodeReply(ReplyData(command, n), Layouts[command])
            BY <1>8, <3>1, <3>2, Zenon DEF command
        <3>4. QED
            BY <1>3, <1>4, <1>5, <2>1, <3>3, Zenon DEF Right
    <2>2. CASE error # 0
        <3>1. code # NoError
            BY <2>2 DEF code, NoError
        <3>2. ~DecodePacket(bytes).ok
            BY <1>8, <3>1, DecodePacketIs, Zenon
        <3>3. QED
            BY <1>4, <2>2, <3>2, Zenon DEF Right
    <2>3. QED
        BY <2>1, <2>2
<1>10. QED
    BY <1>8, <1>9 DEF bytes

LEMMA CompositeRight ==
    ASSUME document \in Documents, document.is = "composite"
    PROVE  Bytes(document) \in Seq(Nat) /\ Right(DecodePacket(Bytes(document)), TRUE)
<1> DEFINE events == document.events
           code == <<64, 100>>
           ws == [i \in DOMAIN events |-> EventBytes(events[i], i)]
           data == << 2 >> \o BigEndian(4, Len(events)) \o FlattenSeq(ws)
           bytes == Bytes(document)
           packet == ReadPacket(bytes)
<1>1. PICK n \in Nat : events \in [1..n -> EventKinds]
    BY BoundsAssumption DEF Documents
<1>2. bytes = Framed(0, code, data)
    <2>1. bytes = CompositeBytes(events)
        BY DEF Bytes
    <2>2. QED
        BY <2>1, Zenon DEF CompositeBytes
<1>3. Intended(document) = CompositeMeaning(events)
    BY DEF Intended
<1>4. ~IsError
    BY DEF IsError
<1> HIDE DEF bytes, events, ws
<1>5. ws = [i \in DOMAIN events |-> EventBytes(events[i], i)]
      /\ data = << 2 >> \o BigEndian(4, Len(events)) \o FlattenSeq(ws)
    BY DEF ws
<1> HIDE DEF data
<1>6. data \in Seq(Nat) /\ DecodeComposite(data).ok
      /\ DecodeComposite(data).value = CompositeMeaning(events)
    BY <1>1, <1>5, CompositeUnderstood
<1>7. Run(code, 2) /\ 0 \in Nat /\ ~(0 >= 128) /\ code = CompositeEvent
    BY DEF Run, CompositeEvent
<1> HIDE DEF code
<1>8. bytes \in Seq(Nat) /\ packet.ok /\ ~packet.isReply /\ packet.code = code /\ packet.data = data
    <2>1. LET b == Framed(0, code, data)
          IN  /\ b \in Seq(Nat) /\ ReadPacket(b).ok /\ (ReadPacket(b).isReply <=> 0 >= 128)
              /\ ReadPacket(b).code = code /\ ReadPacket(b).data = data
        BY <1>6, <1>7, FramedThere
    <2>2. QED
        BY <1>2, <1>7, <2>1, Zenon
<1>9. DecodePacket(bytes) = DecodeComposite(packet.data)
    BY <1>7, <1>8, DecodePacketIs, Zenon
<1>10. Right(DecodePacket(bytes), TRUE)
    BY <1>3, <1>4, <1>6, <1>8, <1>9, Zenon DEF Right
<1>11. QED
    BY <1>8, <1>10 DEF bytes

\* Of a request that is not all there the agent makes nothing, or the same.
LEMMA PartOfRequest ==
    ASSUME NEW call \in Calls, NEW data \in Seq(Nat), NEW k \in 0..Len(data),
           AgentReads(SubSeq(data, 1, k), call).ok
    PROVE  AgentReads(SubSeq(data, 1, k), call) = AgentReads(data, call)
<1> DEFINE layout == RequestLayout(call)
           part == SubSeq(data, 1, k)
<1>1. Len(layout) \in Nat /\ DOMAIN layout = 1..Len(layout)
      /\ \A i \in 1..Len(layout) : layout[i][2] \in FieldTypes
    <2>1. Understood(call)
        BY ClassPrepareUnderstood, BreakpointUnderstood, StepUnderstood, ExceptionUnderstood,
           ClearUnderstood, FramesUnderstood, ValuesUnderstood DEF Calls
    <2>2. PICK fields : Matches(layout, fields)
        BY <2>1, Zenon DEF Understood, Spells
    <2> HIDE DEF layout
    <2>3. Len(layout) \in Nat /\ DOMAIN layout = 1..Len(layout)
          /\ \A i \in 1..Len(layout) : Fits(fields[i], layout[i][2])
        BY <2>2 DEF Matches
    <2>4. ASSUME NEW field, NEW type, Fits(field, type) PROVE type \in FieldTypes
        BY <2>4 DEF Fits, WidthOf, FieldTypes
    <2>5. QED
        BY <2>3, <2>4
<1> DEFINE r1 == ReadRecord(part, Start, layout)
           r2 == ReadRecord(data, Start, layout)
<1>2. /\ AgentReads(part, call) = [ok |-> r1.cursor.ok /\ r1.cursor.at = Len(RequestBytes(call)),
                                   value |-> r1.fields]
      /\ AgentReads(data, call) = [ok |-> r2.cursor.ok /\ r2.cursor.at = Len(RequestBytes(call)),
                                   value |-> r2.fields]
    BY Zenon DEF AgentReads
<1>3. r1.cursor.ok
    <2> DEFINE ok == r1.cursor.ok /\ r1.cursor.at = Len(RequestBytes(call))
               value == r1.fields
    <2>1. AgentReads(part, call) = [ok |-> ok, value |-> value]
        BY <1>2
    <2>2. ok => r1.cursor.ok
        OBVIOUS
    <2> HIDE DEF r1, r2, ok, value
    <2>3. ok
        BY <2>1 
    <2>4. QED
        BY <2>2, <2>3
<1>4. Agree(Start, Start)
    BY DEF Agree, Proper, Start
<1> HIDE DEF layout
<1>5. r1 = r2
    BY <1>1, <1>3, <1>4, ReadRecordAgrees
<1> HIDE DEF r1, r2
<1>6. QED
    BY <1>2, <1>5, Zenon

LEMMA RequestRight ==
    ASSUME document \in Documents, document.is = "request"
    PROVE  /\ Bytes(document) \in Seq(Nat) /\ document.call \in Calls
           /\ Right(AgentReads(Bytes(document), document.call), TRUE)
<1>1. document.call \in Calls
    BY DEF Documents
<1>2. Bytes(document) = RequestBytes(document.call)
      /\ Intended(document) = RequestMeaning(document.call)
    BY DEF Bytes, Intended
<1>3. ~IsError
    BY DEF IsError
<1>4. QED
    BY <1>1, <1>2, <1>3, RequestUnderstood, Zenon DEF Right

LEMMA WholeOf ==
    ASSUME NEW data \in Seq(Nat)
    PROVE  SubSeq(data, 1, Len(data)) = data
    OBVIOUS

LEMMA PacketRight ==
    ASSUME document \in Documents, document.is # "class", NEW k \in 0..Len(Bytes(document))
    PROVE  Right(Decoded(SubSeq(Bytes(document), 1, k)), k = Len(Bytes(document)))
<1> DEFINE bytes == Bytes(document)
           part == SubSeq(bytes, 1, k)
<1>1. document.is \in {"reply", "composite", "request"}
    BY DEF Documents
<1>2. CASE document.is = "request"
    <2> DEFINE call == document.call
    <2>1. bytes \in Seq(Nat) /\ call \in Calls /\ Right(AgentReads(bytes, call), TRUE)
        BY <1>2, RequestRight
    <2>2. Decoded(part) = AgentReads(part, call)
        BY <1>2 DEF Decoded
    <2> HIDE DEF bytes, call
    <2>3. AgentReads(part, call).ok => AgentReads(part, call) = AgentReads(bytes, call)
        BY <2>1, PartOfRequest DEF bytes
    <2>4. k = Len(bytes) => part = bytes
        BY <2>1, WholeOf
    <2> HIDE DEF part
    <2>5. Right(AgentReads(part, call), k = Len(bytes))
        BY <2>1, <2>3, <2>4, Zenon DEF Right
    <2>6. QED
        BY <2>2, <2>5, Zenon DEF part, bytes
<1>3. CASE document.is # "request"
    <2>1. bytes \in Seq(Nat) /\ Right(DecodePacket(bytes), TRUE)
        BY <1>1, <1>3, ReplyRight, CompositeRight
    <2>2. Decoded(part) = DecodePacket(part)
        BY <1>3 DEF Decoded
    <2> HIDE DEF bytes
    <2>3. DecodePacket(part).ok => DecodePacket(part) = DecodePacket(bytes)
        BY <2>1, PartOfPacket DEF bytes
    <2>4. k = Len(bytes) => part = bytes
        BY <2>1, WholeOf
    <2> HIDE DEF part
    <2>5. Right(DecodePacket(part), k = Len(bytes))
        BY <2>1, <2>3, <2>4, Zenon DEF Right
    <2>6. QED
        BY <2>2, <2>5, Zenon DEF part, bytes
<1>4. QED
    BY <1>2, <1>3

\* What was decoded is what there is of the document.
Made ==
    /\ document \in Documents
    /\ written \in 0..Len(Bytes(document))
    /\ outcome \in {<<>>, <<Decoded(SubSeq(Bytes(document), 1, written))>>}

\* A document has a length.
LEMMA BytesLength ==
    ASSUME document \in Documents, document.is # "class"
    PROVE  Len(Bytes(document)) \in Nat
<1>1. document.is \in {"reply", "composite", "request"}
    BY DEF Documents
<1>2. Bytes(document) \in Seq(Nat)
    BY <1>1, ReplyRight, CompositeRight, RequestRight
<1>3. QED
    BY <1>2

-----------------------------------------------------------------------------
(* Class files: what is skipped.                                           *)
\* A number that two bytes hold.
Counted(n) == n \in Nat /\ Shifted(n) < 256

LEMMA CountedLess ==
    ASSUME NEW n, Counted(n), NEW m \in Nat, m <= n
    PROVE  Counted(m)
<1>1. n \in Nat /\ Shifted(n) < 256
    BY DEF Counted
<1>2. /\ Shifted(n) \in Nat /\ n % 256 \in 0..255 /\ n = 256 * Shifted(n) + (n % 256)
      /\ Shifted(m) \in Nat /\ m % 256 \in 0..255 /\ m = 256 * Shifted(m) + (m % 256)
    BY <1>1, ShiftedType, ZenonT(40)
<1>3. Shifted(m) <= Shifted(n)
    <2> DEFINE s == Shifted(m)
               t == Shifted(n)
               p == m % 256
               q == n % 256
    <2>1. s \in Nat /\ t \in Nat /\ p \in 0..255 /\ q \in 0..255
          /\ m = 256 * s + p /\ n = 256 * t + q /\ m <= n
        BY <1>2
    <2> HIDE DEF s, t, p, q
    <2>2. s <= t
        BY <2>1
    <2>3. QED
        BY <2>2 DEF s, t
<1>4. QED
    BY <1>1, <1>2, <1>3 DEF Counted

\* A count, a length and what is skipped.
LEMMA CountThere ==
    ASSUME NEW data \in Seq(Nat), NEW a \in Nat, NEW n, Counted(n),
           Holds(data, a, BigEndian(2, n)), NEW c, Stands(c, a)
    PROVE  Stands(Read(data, c, 2), a + 2) /\ Number(Read(data, c, 2).got) = n
<1> DEFINE x == BigEndian(2, n)
<1>1. Run(x, 2) /\ Number(x) = n
    BY RunBigEndian, Number2 DEF Counted
<1> HIDE DEF x
<1>2. Gives(Read(data, c, 2), a + 2, x)
    BY <1>1, RunRead DEF x
<1>3. QED
    BY <1>1, <1>2, Zenon DEF Gives

LEMMA LengthThere ==
    ASSUME NEW data \in Seq(Nat), NEW a \in Nat, NEW n \in Nat,
           Holds(data, a, BigEndian(4, n)), NEW c, Stands(c, a)
    PROVE  Stands(Read(data, c, 4), a + 4) /\ Number(Read(data, c, 4).got) = n
<1> DEFINE x == BigEndian(4, n)
<1>1. Run(x, 4) /\ Number(x) = n
    BY RunBigEndian, Number4
<1> HIDE DEF x
<1>2. Gives(Read(data, c, 4), a + 4, x)
    BY <1>1, RunRead DEF x
<1>3. QED
    BY <1>1, <1>2, Zenon DEF Gives

LEMMA SkipThere ==
    ASSUME NEW c, NEW a, Stands(c, a), NEW w
    PROVE  Stands(Skip(c, w), a + w)
    BY DEF Stands, Skip

LEMMA MemberType ==
    ASSUME NEW other \in Nat, NEW size \in Nat
    PROVE  Run(MemberBytes(other, size), 14 + size)
<1> DEFINE b1 == BigEndian(6, 1)
           b2 == BigEndian(2, 1)
           b3 == BigEndian(2, other)
           b4 == BigEndian(4, size)
           b5 == BigEndian(size, 1)
<1>1. Run(b1, 6) /\ Run(b2, 2) /\ Run(b3, 2) /\ Run(b4, 4) /\ Run(b5, size)
    BY RunBigEndian
<1>2. MemberBytes(other, size) = b1 \o b2 \o b3 \o b4 \o b5
    BY Zenon DEF MemberBytes
<1> HIDE DEF b1, b2, b3, b4, b5
<1>3. Run(b1 \o b2, 8)
    <2>1. Run(b1 \o b2, 6 + 2)
        BY <1>1, RunBoth, Zenon
    <2>2. QED
        BY <2>1
<1>4. Run(b1 \o b2 \o b3, 10)
    <2>1. Run(b1 \o b2 \o b3, 8 + 2)
        BY <1>1, <1>3, RunBoth, Zenon
    <2>2. QED
        BY <2>1
<1>5. Run(b1 \o b2 \o b3 \o b4, 14)
    <2>1. Run(b1 \o b2 \o b3 \o b4, 10 + 4)
        BY <1>1, <1>4, RunBoth, Zenon
    <2>2. QED
        BY <2>1
<1>6. QED
    BY <1>1, <1>2, <1>5, RunBoth, Zenon

\* One member, and all of them.
LEMMA MemberThere ==
    ASSUME NEW data \in Seq(Nat), NEW a \in Nat, NEW other \in Nat, NEW size \in Nat,
           Holds(data, a, MemberBytes(other, size)), NEW c, Stands(c, a)
    PROVE  Stands(SkipAttributes(data, Skip(c, 6)), a + 14 + size)
<1> DEFINE b1 == BigEndian(6, 1)
           b2 == BigEndian(2, 1)
           b3 == BigEndian(2, other)
           b4 == BigEndian(4, size)
           b5 == BigEndian(size, 1)
           p2 == b1 \o b2
           p3 == p2 \o b3
           p4 == p3 \o b4
           p5 == p4 \o b5
<1>1. Run(b1, 6) /\ Run(b2, 2) /\ Run(b3, 2) /\ Run(b4, 4) /\ Run(b5, size)
    BY RunBigEndian
<1>2. Holds(data, a, p5)
    BY Zenon DEF MemberBytes
<1> HIDE DEF b1, b2, b3, b4, b5
<1>3. Run(p2, 8)
    <2>1. Run(p2, 6 + 2)
        BY <1>1, RunBoth, Zenon
    <2>2. QED
        BY <2>1
<1> HIDE DEF p2
<1>4. Run(p3, 10)
    <2>1. Run(p3, 8 + 2)
        BY <1>1, <1>3, RunBoth, Zenon
    <2>2. QED
        BY <2>1
<1> HIDE DEF p3
<1>5. Run(p4, 14)
    <2>1. Run(p4, 10 + 4)
        BY <1>1, <1>4, RunBoth, Zenon
    <2>2. QED
        BY <2>1
<1> HIDE DEF p4
<1>6. Holds(data, a, p4) /\ Holds(data, a + 14, b5)
    BY <1>1, <1>2, <1>5, RunHolds
<1>7. Holds(data, a, p3) /\ Holds(data, a + 10, b4)
    BY <1>1, <1>4, <1>6, RunHolds DEF p4
<1>8. Holds(data, a, p2) /\ Holds(data, a + 8, b3)
    BY <1>1, <1>3, <1>7, RunHolds DEF p3
<1>9. Holds(data, a, b1) /\ Holds(data, a + 6, b2)
    BY <1>1, <1>8, RunHolds DEF p2
<1> DEFINE d == Skip(c, 6)
           count == Read(data, d, 2)
           f == Attributes(data, count, 1)
           length == Read(data, Skip(count, 2), 4)
<1>10. Stands(d, a + 6) /\ a + 6 \in Nat /\ a + 6 + 2 + 2 = a + 10
    BY SkipThere
<1> HIDE DEF d
<1>11. Stands(count, a + 6 + 2) /\ Number(count.got) = 1
    <2>1. Counted(1)
        BY DEF Counted, Shifted
    <2>2. QED
        BY <1>9, <1>10, <2>1, CountThere DEF b2
<1>12. SkipAttributes(data, d) = f[1]
    <2> HIDE DEF count
    <2>1. Attributes(data, count, Number(count.got))[Number(count.got)] = f[1]
        BY <1>11
    <2>2. QED
        BY <2>1, Zenon DEF SkipAttributes, count
<1> HIDE DEF count
<1>13. f[0] = count /\ f[1] = SkipAttribute(data, f[0])
    <2>1. 1 \in Nat /\ 1 \in 1..1 /\ 1 - 1 = 0
        OBVIOUS
    <2>2. Attributes(data, count, 1)[1] = SkipAttribute(data, Attributes(data, count, 1)[1 - 1])
        BY <2>1, AttributesLoop
    <2>3. Attributes(data, count, 1)[0] = count
        BY <2>1, AttributesLoop
    <2>4. QED
        BY <2>1, <2>2, <2>3
<1> HIDE DEF f
<1>14. Stands(Skip(count, 2), a + 10)
    BY <1>10, <1>11, SkipThere
<1>15. Stands(length, a + 10 + 4) /\ Number(length.got) = size
    <2> DEFINE e == Skip(count, 2)
    <2> HIDE DEF e
    <2>1. Stands(e, a + 10) /\ a + 10 \in Nat /\ Holds(data, a + 10, BigEndian(4, size))
        BY <1>7, <1>14 DEF e, b4
    <2>2. Stands(Read(data, e, 4), a + 10 + 4) /\ Number(Read(data, e, 4).got) = size
        BY <2>1, LengthThere
    <2>3. QED
        BY <2>2 DEF e
<1>16. SkipAttribute(data, count) = Read(data, length, Number(length.got))
    BY Zenon DEF SkipAttribute
<1> HIDE DEF length
<1>17. Gives(Read(data, length, size), a + 14 + size, b5)
    <2>1. a + 10 + 4 = a + 14
        OBVIOUS
    <2>2. Stands(length, a + 14)
        BY <1>15, <2>1
    <2>3. QED
        BY <1>1, <1>6, <2>2, RunRead
<1>18. Stands(f[1], a + 14 + size)
    BY <1>13, <1>15, <1>16, <1>17, Zenon DEF Gives
<1>19. QED
    BY <1>12, <1>18 DEF d

\* Fields and methods are passed over, whatever their attributes hold.
LEMMA MembersThere ==
    ASSUME NEW data \in Seq(Nat), NEW a \in Nat, NEW other \in Nat, NEW sizes \in Seq(Nat),
           Counted(Len(sizes)), Holds(data, a, MembersBytes(other, sizes)), NEW c, Stands(c, a)
    PROVE  Stands(SkipMembers(data, c), a + Len(MembersBytes(other, sizes)))
<1> DEFINE n == Len(sizes)
           ss == [i \in DOMAIN sizes |-> MemberBytes(other, sizes[i])]
           flat == FlattenSeq(ss)
           b == BigEndian(2, n)
           count == Read(data, c, 2)
           f == Members(data, count, n)
<1>1. n \in Nat /\ DOMAIN sizes = 1..n /\ \A i \in 1..n : sizes[i] \in Nat
    OBVIOUS
<1>2. ss \in Seq(Seq(Nat)) /\ Len(ss) = n /\ \A i \in 1..n : ss[i] = MemberBytes(other, sizes[i])
    <2>1. ASSUME NEW i \in 1..n PROVE MemberBytes(other, sizes[i]) \in Seq(Nat)
        BY <1>1, MemberType DEF Run
    <2> HIDE DEF n
    <2>2. QED
        BY <1>1, <2>1
<1>3. Holds(data, a, b \o flat)
    BY Zenon DEF MembersBytes
<1>4. flat \in Seq(Nat)
    <2> HIDE DEF ss
    <2>1. QED
        BY <1>2, FlattenType
<1>5. Run(b, 2) /\ Run(flat, Len(flat))
    BY <1>1, <1>4, RunBigEndian, RunSeq
<1> HIDE DEF ss, b, flat
<1>6. Holds(data, a, b) /\ Holds(data, a + 2, flat) /\ a + 2 \in Nat
    BY <1>3, <1>5, RunHolds
<1>7. Len(MembersBytes(other, sizes)) = 2 + Len(flat)
    <2>1. MembersBytes(other, sizes) = b \o flat
        BY Zenon DEF MembersBytes, b, flat, ss
    <2>2. Run(b \o flat, 2 + Len(flat))
        BY <1>5, RunBoth, Zenon
    <2>3. QED
        BY <2>1, <2>2, Zenon DEF Run
<1>8. Stands(count, a + 2) /\ Number(count.got) = n
    <2> HIDE DEF n
    <2>1. Counted(n)
        BY DEF n
    <2>2. QED
        BY <1>6, <2>1, CountThere DEF b
<1>9. SkipMembers(data, c) = f[n]
    <2> DEFINE whole(m) == Members(data, count, m)[m]
    <2>1. SkipMembers(data, c) = whole(Number(count.got))
        BY Zenon DEF SkipMembers
    <2>2. whole(n) = f[n]
        OBVIOUS
    <2> HIDE DEF whole, count, n, f
    <2>3. QED
        BY <1>8, <2>1, <2>2, Zenon
<1> HIDE DEF count, n
<1>10. f[0] = count /\ \A i \in 1..n : f[i] = SkipAttributes(data, Skip(f[i - 1], 6))
    BY <1>1, MembersLoop
<1> HIDE DEF f
<1>11. PICK o : /\ Offsets(o, ss) /\ o[n] = Len(flat)
                /\ \A k \in 1..n : Holds(data, a + 2 + o[k - 1], ss[k])
    BY <1>2, <1>6, FlattenHolds DEF flat
<1>12. o[0] = 0 /\ \A k \in 1..n : o[k - 1] \in Nat /\ o[k] = o[k - 1] + Len(ss[k])
    BY <1>1, <1>2, <1>11 DEF Offsets
<1> DEFINE T == {i \in 0..n : Stands(f[i], a + 2 + o[i])}
<1>13. 0 \in T
    BY <1>1, <1>6, <1>8, <1>10, <1>12
<1>14. ASSUME NEW i \in 1..n, i - 1 \in T PROVE i \in T
    <2> DEFINE size == sizes[i]
               e == a + 2 + o[i - 1]
    <2>1. size \in Nat /\ e \in Nat /\ Stands(f[i - 1], e) /\ Holds(data, e, MemberBytes(other, size))
        <3>1. size \in Nat
            BY <1>1
        <3>2. o[i - 1] \in Nat
            BY <1>12
        <3>3. e \in Nat
            BY <1>6, <3>2
        <3>4. Stands(f[i - 1], a + 2 + o[i - 1])
            BY <1>14
        <3>5. Holds(data, a + 2 + o[i - 1], ss[i]) /\ ss[i] = MemberBytes(other, sizes[i])
            BY <1>2, <1>11
        <3>6. QED
            BY <3>1, <3>3, <3>4, <3>5, Zenon
    <2>2. Len(ss[i]) = 14 + size
        BY <1>1, <1>2, MemberType DEF Run
    <2>3. f[i] = SkipAttributes(data, Skip(f[i - 1], 6))
        BY <1>10
    <2>4. e + 14 + size = a + 2 + o[i]
        <3>1. o[i] = o[i - 1] + (14 + size) /\ o[i - 1] \in Nat
            BY <1>12, <2>2
        <3>2. PICK u \in Nat : o[i - 1] = u
            BY <3>1
        <3>3. size \in Nat
            BY <1>1
        <3> HIDE DEF size
        <3>4. QED
            BY <3>1, <3>2, <3>3
    <2> DEFINE d == f[i - 1]
    <2> HIDE DEF size, e, d
    <2>5. Stands(SkipAttributes(data, Skip(d, 6)), e + 14 + size)
        BY <2>1, MemberThere DEF d
    <2>6. Stands(f[i], a + 2 + o[i])
        BY <2>3, <2>4, <2>5, Zenon DEF d
    <2>7. QED
        BY <2>6
<1>15. n \in T
    <2> HIDE DEF T
    <2>1. 0..n \subseteq T
        BY <1>1, <1>13, <1>14, UpTo
    <2>2. n \in 0..n
        BY <1>1
    <2>3. QED
        BY <2>1, <2>2
<1>16. Stands(f[n], a + 2 + Len(flat))
    BY <1>11, <1>15
<1>17. a + 2 + Len(flat) = a + (2 + Len(flat))
    BY <1>4
<1>18. QED
    BY <1>7, <1>9, <1>16, <1>17, Zenon

LEMMA MembersType ==
    ASSUME NEW other \in Nat, NEW sizes \in Seq(Nat)
    PROVE  MembersBytes(other, sizes) \in Seq(Nat)
<1> DEFINE n == Len(sizes)
           ss == [i \in DOMAIN sizes |-> MemberBytes(other, sizes[i])]
           flat == FlattenSeq(ss)
           b == BigEndian(2, n)
<1>1. n \in Nat /\ DOMAIN sizes = 1..n /\ \A i \in 1..n : sizes[i] \in Nat
    OBVIOUS
<1>2. ss \in Seq(Seq(Nat))
    <2>1. ASSUME NEW i \in 1..n PROVE MemberBytes(other, sizes[i]) \in Seq(Nat)
        BY <1>1, MemberType DEF Run
    <2> HIDE DEF n
    <2>2. QED
        BY <1>1, <2>1
<1> HIDE DEF ss
<1>3. flat \in Seq(Nat) /\ b \in Seq(Nat)
    BY <1>1, <1>2, FlattenType, BigEndianType
<1> HIDE DEF flat, b
<1>4. b \o flat \in Seq(Nat)
    BY <1>3, ConcatProperties, Zenon
<1>5. QED
    BY <1>4, Zenon DEF MembersBytes, b, flat, ss

-----------------------------------------------------------------------------
(* Class files: the constant pool.                                         *)
LEMMA ConstantType ==
    ASSUME NEW tag \in KnownTags \ {7}
    PROVE  Run(ConstantBytes(tag), 1 + EntryWidth(tag)) /\ EntryWidth(tag) \in Nat /\ tag \in Nat
<1> DEFINE w == CASE tag \in {5, 6} -> 8
                  [] tag \in {8, 16, 19, 20} -> 2
                  [] tag = 15 -> 3
                  [] OTHER -> 4
           b == BigEndian(w, 1)
<1>1. w = EntryWidth(tag) /\ w \in Nat
    <2>1. tag \in {3, 4, 5, 6, 8, 9, 10, 11, 12, 15, 16, 17, 18, 19, 20}
        BY DEF KnownTags
    <2>2. CASE tag \in {3, 4}
        BY <2>2 DEF EntryWidth
    <2>3. CASE tag \in {5, 6}
        BY <2>3 DEF EntryWidth
    <2>4. CASE tag \in {8, 16, 19, 20}
        BY <2>4 DEF EntryWidth
    <2>5. CASE tag \in {9, 10, 11, 12, 17, 18}
        BY <2>5 DEF EntryWidth
    <2>6. CASE tag = 15
        BY <2>6 DEF EntryWidth
    <2>7. QED
        BY <2>1, <2>2, <2>3, <2>4, <2>5, <2>6
<1>2. ConstantBytes(tag) = <<tag>> \o b
    BY Zenon DEF ConstantBytes
<1> HIDE DEF w
<1>3. Run(b, w) /\ tag \in Nat
    BY <1>1, RunBigEndian DEF KnownTags
<1> HIDE DEF b
<1>4. Run(<<tag>>, 1)
    BY <1>3 DEF Run
<1>5. Run(<<tag>> \o b, 1 + w)
    BY <1>3, <1>4, RunBoth, Zenon
<1>6. QED
    BY <1>1, <1>2, <1>3, <1>5

\* What is known of the pool while it is read.
Filled(pool, index, a, utf8, class) ==
    pool.index = index /\ Stands(pool.cursor, a) /\ pool.utf8 = utf8 /\ pool.class = class

\* A constant that is of no use is passed over.
LEMMA ConstantThere ==
    ASSUME NEW data \in Seq(Nat), NEW a \in Nat, NEW tag \in KnownTags \ {7},
           Holds(data, a, ConstantBytes(tag)),
           NEW index \in Nat, NEW utf8, NEW class, NEW pool, Filled(pool, index, a, utf8, class)
    PROVE  Filled(ReadEntry(data, pool), index + Slots(tag), a + Len(ConstantBytes(tag)),
                  utf8, class)
<1> DEFINE x == <<tag>>
           w == EntryWidth(tag)
           y == BigEndian(w, 1)
           c == Read(data, pool.cursor, 1)
<1>1. Run(ConstantBytes(tag), 1 + w) /\ w \in Nat /\ tag \in Nat
    BY ConstantType
<1>2. c.got = x /\ Stands(c, a + 1)
    <2>1. Holds(data, a, x)
        <3>1. \A i \in 1..1 : x[i] = ConstantBytes(tag)[i]
            BY DEF ConstantBytes
        <3>2. Len(ConstantBytes(tag)) >= 1
            BY <1>1 DEF Run
        <3>3. Len(x) = 1 /\ Len(ConstantBytes(tag)) \in Nat
            BY <1>1 DEF Run
        <3> HIDE DEF x, w
        <3>4. QED
            BY <3>1, <3>2, <3>3 DEF Holds
    <2>2. Run(x, 1) /\ Stands(pool.cursor, a)
        BY <1>1 DEF Run, Filled
    <2> HIDE DEF x
    <2>3. Gives(c, a + 1, x)
        BY <2>1, <2>2, RunRead
    <2>4. QED
        BY <2>3, Zenon DEF Gives
<1>3. Number(c.got) = tag
    BY <1>1, <1>2, Number1
<1>4. tag # 1 /\ tag # 7 /\ tag \in KnownTags \ {7}
    BY DEF KnownTags
<1> DEFINE d == Skip(c, w)
<1>5. Stands(d, a + 1 + w)
    BY <1>2, SkipThere
<1>6. ReadEntry(data, pool) = [index |-> pool.index + Slots(tag), cursor |-> d,
                               utf8 |-> pool.utf8, class |-> pool.class]
    <2> HIDE DEF c, d
    <2>1. QED
        BY <1>3, <1>4 DEF ReadEntry, c, d
<1> HIDE DEF c, d, w
<1>7. a + 1 + w = a + Len(ConstantBytes(tag))
    BY <1>1 DEF Run
<1>8. QED
    BY <1>5, <1>6, <1>7 DEF Filled

\* A Utf8 constant.
LEMMA TextType ==
    ASSUME NEW s \in Seq(Nat)
    PROVE  Run(Text(s), 3 + Len(s))
<1> DEFINE b1 == << 1 >>
           b2 == BigEndian(2, Len(s))
<1>1. Run(b1, 1) /\ Run(b2, 2) /\ Run(s, Len(s))
    <2>1. Run(b1, 1)
        BY DEF Run
    <2>2. Run(b2, 2)
        BY RunBigEndian
    <2>3. QED
        BY <2>1, <2>2, RunSeq
<1> HIDE DEF b1, b2
<1>2. Run(b1 \o b2, 3)
    <2>1. Run(b1 \o b2, 1 + 2)
        BY <1>1, RunBoth, Zenon
    <2>2. QED
        BY <2>1
<1>3. Run(b1 \o b2 \o s, 3 + Len(s))
    BY <1>1, <1>2, RunBoth, Zenon
<1>4. QED
    BY <1>3, Zenon DEF Text, b1, b2

\* A name is entered in the pool,
LEMMA TextThere ==
    ASSUME NEW data \in Seq(Nat), NEW a \in Nat, NEW s \in Seq(Nat), Counted(Len(s)),
           IsUtf8(s), Holds(data, a, Text(s)),
           NEW index, NEW utf8, NEW class, NEW pool, Filled(pool, index, a, utf8, class)
    PROVE  Filled(ReadEntry(data, pool), index + 1, a + 3 + Len(s), Insert(utf8, index, s), class)
<1> DEFINE b1 == << 1 >>
           b2 == BigEndian(2, Len(s))
           p2 == b1 \o b2
           tag == Read(data, pool.cursor, 1)
           short == Read(data, tag, 2)
           text == Read(data, short, Len(s))
<1>1. Run(b1, 1) /\ Run(b2, 2) /\ Run(s, Len(s)) /\ Number(b1) = 1 /\ Len(s) \in Nat
    <2>1. Run(b1, 1) /\ Number(b1) = 1
        BY Number1 DEF Run
    <2>2. Run(b2, 2)
        BY RunBigEndian
    <2>3. QED
        BY <2>1, <2>2, RunSeq
<1>2. Holds(data, a, p2 \o s)
    BY Zenon DEF Text
<1> HIDE DEF b1, b2
<1>3. Run(p2, 3)
    <2>1. Run(p2, 1 + 2)
        BY <1>1, RunBoth, Zenon
    <2>2. QED
        BY <2>1
<1> HIDE DEF p2
<1>4. Holds(data, a, p2) /\ Holds(data, a + 3, s)
    BY <1>1, <1>2, <1>3, RunHolds
<1>5. Holds(data, a, b1) /\ Holds(data, a + 1, b2)
    BY <1>1, <1>4, RunHolds DEF p2
<1>6. Gives(tag, a + 1, b1)
    <2>1. Stands(pool.cursor, a)
        BY DEF Filled
    <2>2. QED
        BY <1>1, <1>5, <2>1, RunRead
<1>7. Number(tag.got) = 1 /\ Stands(tag, a + 1) /\ a + 1 \in Nat
    BY <1>1, <1>6 DEF Gives
<1> HIDE DEF tag
<1>8. Stands(short, a + 3) /\ Number(short.got) = Len(s)
    <2> DEFINE n == Len(s)
    <2>1. Counted(n) /\ Holds(data, a + 1, BigEndian(2, n))
        BY <1>5 DEF b2
    <2> HIDE DEF n
    <2>2. Stands(short, a + 1 + 2) /\ Number(short.got) = n
        BY <1>7, <2>1, CountThere
    <2>3. a + 1 + 2 = a + 3
        OBVIOUS
    <2>4. QED
        BY <2>2, <2>3 DEF n
<1> HIDE DEF short
<1>9. Gives(text, a + 3 + Len(s), s)
    <2>1. a + 3 \in Nat
        OBVIOUS
    <2>2. QED
        BY <1>1, <1>4, <1>8, <2>1, RunRead
<1> HIDE DEF text
<1>10. text = Read(data, short, Number(short.got))
    BY <1>8, Zenon DEF text
<1>11. ReadEntry(data, pool)
         = [index |-> pool.index + Slots(1), cursor |-> text,
            utf8 |-> Insert(pool.utf8, pool.index, Lossy(text.got)), class |-> pool.class]
    <2> DEFINE whole(t, got) ==
            [index |-> pool.index + Slots(t),
             cursor |-> CASE t = 1 -> Read(data, short, Number(short.got))
                          [] t = 7 -> short
                          [] t \in KnownTags \ {7} -> Skip(tag, EntryWidth(t))
                          [] OTHER -> Failed(tag),
             utf8 |-> IF t = 1 THEN got ELSE pool.utf8,
             class |-> IF t = 7 THEN Insert(pool.class, pool.index, Number(short.got))
                       ELSE pool.class]
               got == Insert(pool.utf8, pool.index, Lossy(text.got))
    <2>1. ReadEntry(data, pool) = whole(Number(tag.got), got)
        BY <1>10, Zenon DEF ReadEntry, tag, short
    <2>2. 1 \notin KnownTags \ {7} /\ 1 # 7
        BY DEF KnownTags
    <2> HIDE DEF got
    <2>3. whole(1, got) = [index |-> pool.index + Slots(1), cursor |-> text,
                           utf8 |-> got, class |-> pool.class]
        BY <1>10, <2>2
    <2> HIDE DEF whole
    <2>4. QED
        BY <1>7, <2>1, <2>3, Zenon DEF got
<1>12. Slots(1) = 1
    BY DEF Slots
<1> DEFINE u == Insert(pool.utf8, pool.index, Lossy(text.got))
<1>13. u = Insert(utf8, index, s)
    <2>1. Lossy(s) = s
        BY DEF Lossy
    <2>2. QED
        BY <1>9, <2>1, Zenon DEF Filled, Gives
<1> HIDE DEF u
<1>14. ReadEntry(data, pool) = [index |-> pool.index + 1, cursor |-> text, utf8 |-> u,
                                class |-> pool.class]
    BY <1>11, <1>12, Zenon DEF u
<1>15. Filled(ReadEntry(data, pool), index + 1, a + 3 + Len(s), u, class)
    BY <1>9, <1>14 DEF Filled, Gives
<1>16. QED
    BY <1>13, <1>15, Zenon

\* and so is the class.
LEMMA ClassThere ==
    ASSUME NEW data \in Seq(Nat), NEW a \in Nat, NEW n, Counted(n),
           Holds(data, a, << 7 >>), Holds(data, a + 1, BigEndian(2, n)),
           NEW index, NEW utf8, NEW class, NEW pool, Filled(pool, index, a, utf8, class)
    PROVE  Filled(ReadEntry(data, pool), index + 1, a + 3, utf8, Insert(class, index, n))
<1> DEFINE b1 == << 7 >>
           tag == Read(data, pool.cursor, 1)
           short == Read(data, tag, 2)
<1>1. Run(b1, 1) /\ Number(b1) = 7 /\ Holds(data, a, b1)
    BY Number1 DEF Run
<1> HIDE DEF b1
<1>2. Gives(tag, a + 1, b1)
    <2>1. Stands(pool.cursor, a)
        BY DEF Filled
    <2>2. QED
        BY <1>1, <2>1, RunRead
<1>3. Number(tag.got) = 7 /\ Stands(tag, a + 1) /\ a + 1 \in Nat
    BY <1>1, <1>2 DEF Gives
<1> HIDE DEF tag
<1>4. Stands(short, a + 3) /\ Number(short.got) = n
    <2>1. Stands(short, a + 1 + 2) /\ Number(short.got) = n
        BY <1>3, CountThere
    <2>2. a + 1 + 2 = a + 3
        OBVIOUS
    <2>3. QED
        BY <2>1, <2>2
<1> HIDE DEF short
<1>5. ReadEntry(data, pool)
         = [index |-> pool.index + Slots(7), cursor |-> short,
            utf8 |-> pool.utf8, class |-> Insert(pool.class, pool.index, Number(short.got))]
    <2> DEFINE whole(t, got) ==
            [index |-> pool.index + Slots(t),
             cursor |-> CASE t = 1 -> Read(data, short, Number(short.got))
                          [] t = 7 -> short
                          [] t \in KnownTags \ {7} -> Skip(tag, EntryWidth(t))
                          [] OTHER -> Failed(tag),
             utf8 |-> IF t = 1
                      THEN Insert(pool.utf8, pool.index,
                                  Lossy(Read(data, short, Number(short.got)).got))
                      ELSE pool.utf8,
             class |-> IF t = 7 THEN got ELSE pool.class]
               got == Insert(pool.class, pool.index, Number(short.got))
    <2>1. ReadEntry(data, pool) = whole(Number(tag.got), got)
        BY Zenon DEF ReadEntry, tag, short
    <2>2. 7 \notin KnownTags \ {7} /\ 1 # 7
        BY DEF KnownTags
    <2> HIDE DEF got
    <2>3. whole(7, got) = [index |-> pool.index + Slots(7), cursor |-> short,
                           utf8 |-> pool.utf8, class |-> got]
        BY <2>2
    <2> HIDE DEF whole
    <2>4. QED
        BY <1>3, <2>1, <2>3, Zenon DEF got
<1>6. Slots(7) = 1
    BY DEF Slots
<1> DEFINE u == Insert(pool.class, pool.index, Number(short.got))
<1>7. u = Insert(class, index, n)
    BY <1>4, Zenon DEF Filled
<1> HIDE DEF u
<1>8. ReadEntry(data, pool) = [index |-> pool.index + 1, cursor |-> short, utf8 |-> pool.utf8,
                               class |-> u]
    BY <1>5, <1>6, Zenon DEF u
<1>9. Filled(ReadEntry(data, pool), index + 1, a + 3, utf8, u)
    BY <1>4, <1>8 DEF Filled
<1>10. QED
    BY <1>7, <1>9, Zenon

\* The loop goes on below the count, and idles at it.
LEMMA TurnTaken ==
    ASSUME NEW data, NEW n \in Nat, NEW index \in Nat, NEW a, NEW utf8, NEW class, NEW pool,
           Filled(pool, index, a, utf8, class)
    PROVE  /\ index < n => PoolTurn(data, pool, n) = ReadEntry(data, pool)
           /\ index = n => PoolTurn(data, pool, n) = pool
    BY DEF PoolTurn, Filled, Stands

\* The constants before the names of a class file have their indices.
LEMMA IndicesRise ==
    ASSUME NEW extras, Len(extras) \in Nat
    PROVE  \A i \in 0..Len(extras) : /\ Indices(extras)[i] \in Nat
                                     /\ Indices(extras)[i] >= i + 1
                                     /\ Indices(extras)[i] <= Indices(extras)[Len(extras)]
                                          - (Len(extras) - i)
<1> DEFINE n == Len(extras)
           f == Indices(extras)
           step(i) == IF extras[i] \in {5, 6} THEN 2 ELSE 1
<1>1. f[0] = 1 /\ \A i \in 1..n : f[i] = f[i - 1] + step(i)
    BY IndicesLoop
<1>2. \A i \in 1..n : step(i) \in {1, 2}
    OBVIOUS
<1>3. n \in Nat
    OBVIOUS
<1> HIDE DEF f, n, step
<1> DEFINE T == {i \in 0..n : f[i] \in Nat /\ f[i] >= i + 1
                                /\ \A j \in 0..i : f[j] <= f[i] - (i - j) /\ f[j] \in Nat}
<1>4. 0 \in T
    BY <1>1, <1>3
<1>5. ASSUME NEW i \in 1..n, i - 1 \in T PROVE i \in T
    <2>1. PICK u \in Nat : f[i - 1] = u
        BY <1>5
    <2>2. u >= i - 1 + 1
        BY <1>5, <2>1
    <2>3. f[i] = u + step(i) /\ step(i) \in {1, 2}
        BY <1>1, <1>2, <2>1
    <2>4. f[i] \in Nat /\ f[i] >= i + 1
        BY <1>3, <2>2, <2>3
    <2>5. ASSUME NEW j \in 0..(i - 1) PROVE f[j] <= f[i] - (i - j) /\ f[j] \in Nat
        <3>1. f[j] <= f[i - 1] - ((i - 1) - j) /\ f[j] \in Nat
            BY <1>5
        <3>2. PICK v \in Nat : f[j] = v
            BY <3>1
        <3>3. v <= u - ((i - 1) - j)
            BY <2>1, <3>1, <3>2
        <3>4. QED
            BY <1>3, <2>3, <3>2, <3>3
    <2>6. f[i] <= f[i] - (i - i)
        BY <2>4
    <2>7. \A j \in 0..i : j \in 0..(i - 1) \/ j = i
        BY <1>3
    <2>8. QED
        BY <2>4, <2>5, <2>6, <2>7
<1>6. n \in T
    <2> HIDE DEF T
    <2>1. 0..n \subseteq T
        BY <1>3, <1>4, <1>5, UpTo
    <2>2. QED
        BY <1>3, <2>1
<1>7. ASSUME NEW i \in 0..n
      PROVE  f[i] \in Nat /\ f[i] >= i + 1 /\ f[i] <= f[n] - (n - i)
    <2>1. i \in T
        <3> HIDE DEF T
        <3>1. 0..n \subseteq T
            BY <1>3, <1>4, <1>5, UpTo
        <3>2. QED
            BY <3>1
    <2>2. QED
        BY <1>6, <2>1
<1>8. QED
    BY <1>7 DEF f, n

\* The constants that are of no use leave nothing in the pool.
LEMMA ConstantsThere ==
    ASSUME NEW data \in Seq(Nat), NEW a \in Nat, NEW extras \in Seq(KnownTags \ {7}),
           NEW n \in Nat, Indices(extras)[Len(extras)] + 5 = n,
           NEW ss, ss = [i \in DOMAIN extras |-> ConstantBytes(extras[i])],
           Holds(data, a, FlattenSeq(ss)), NEW c, Stands(c, a)
    PROVE  /\ Filled(Pools(data, c, n)[Len(extras)], Indices(extras)[Len(extras)],
                     a + Len(FlattenSeq(ss)), <<>>, <<>>)
           /\ Len(extras) + 5 < n
<1> DEFINE k == Len(extras)
           g == Indices(extras)
           f == Pools(data, c, n)
<1>1. k \in Nat /\ DOMAIN extras = 1..k /\ \A i \in 1..k : extras[i] \in KnownTags \ {7}
    OBVIOUS
<1>2. ss \in Seq(Seq(Nat)) /\ Len(ss) = k /\ \A i \in 1..k : ss[i] = ConstantBytes(extras[i])
    <2>1. ASSUME NEW i \in 1..k PROVE ConstantBytes(extras[i]) \in Seq(Nat)
        BY <1>1, ConstantType DEF Run
    <2> HIDE DEF k
    <2>2. QED
        BY <1>1, <2>1
<1>3. /\ \A i \in 0..k : g[i] \in Nat /\ g[i] >= i + 1 /\ g[i] <= g[k] - (k - i)
      /\ g[0] = 1 /\ \A i \in 1..k : g[i] = g[i - 1] + Slots(extras[i])
    <2>1. \A i \in 0..k : g[i] \in Nat /\ g[i] >= i + 1 /\ g[i] <= g[k] - (k - i)
        BY <1>1, IndicesRise
    <2>2. g[0] = 1 /\ \A i \in 1..k : g[i] = g[i - 1] + (IF extras[i] \in {5, 6} THEN 2 ELSE 1)
        BY <1>1, IndicesLoop
    <2>3. \A i \in 1..k : Slots(extras[i]) = IF extras[i] \in {5, 6} THEN 2 ELSE 1
        BY DEF Slots
    <2> HIDE DEF g, k
    <2>4. QED
        BY <2>1, <2>2, <2>3
<1>4. g[k] + 5 = n
    OBVIOUS
<1> HIDE DEF g, k
<1>5. f[0] = EmptyPool(c) /\ \A i \in 1..n : f[i] = PoolTurn(data, f[i - 1], n)
    BY PoolsLoop
<1> HIDE DEF f
<1>6. k + 5 < n
    <2>1. g[k] \in Nat /\ g[k] >= k + 1
        BY <1>1, <1>3
    <2>2. QED
        BY <1>1, <1>4, <2>1
<1>7. PICK o : /\ Offsets(o, ss) /\ o[k] = Len(FlattenSeq(ss))
               /\ \A i \in 1..k : Holds(data, a + o[i - 1], ss[i])
    BY <1>2, FlattenHolds
<1>8. o[0] = 0 /\ \A i \in 1..k : o[i - 1] \in Nat /\ o[i] = o[i - 1] + Len(ss[i])
    BY <1>1, <1>2, <1>7 DEF Offsets
<1> DEFINE T == {i \in 0..k : Filled(f[i], g[i], a + o[i], <<>>, <<>>)}
<1>9. 0 \in T
    <2>1. a + o[0] = a
        BY <1>8
    <2>2. Filled(f[0], 1, a, <<>>, <<>>)
        BY <1>5 DEF Filled, EmptyPool
    <2>3. QED
        BY <1>1, <1>3, <2>1, <2>2
<1>10. ASSUME NEW i \in 1..k, i - 1 \in T PROVE i \in T
    <2> DEFINE tag == extras[i]
               e == a + o[i - 1]
               index == g[i - 1]
               pool == f[i - 1]
    <2>1. tag \in KnownTags \ {7} /\ Len(ss[i]) \in Nat
        BY <1>1, <1>2
    <2>2. e \in Nat
        <3>1. o[i - 1] \in Nat
            BY <1>8
        <3>2. QED
            BY <3>1
    <2>3. Filled(pool, index, e, <<>>, <<>>)
        BY <1>10
    <2>4. index \in Nat /\ index < n
        <3>1. i - 1 \in 0..k
            BY <1>1
        <3>2. index \in Nat /\ index <= g[k] - (k - (i - 1)) /\ g[k] \in Nat
            BY <1>1, <1>3, <3>1
        <3> HIDE DEF index
        <3>3. QED
            BY <1>1, <1>4, <3>2
    <2>5. Holds(data, e, ConstantBytes(tag)) /\ ss[i] = ConstantBytes(tag)
        BY <1>2, <1>7
    <2>6. i \in 1..n
        BY <1>1, <1>6
    <2>7. f[i] = PoolTurn(data, pool, n)
        BY <1>5, <2>6
    <2>8. g[i] = index + Slots(tag)
        BY <1>3
    <2>9. a + o[i] = e + Len(ss[i])
        <3>1. o[i] = o[i - 1] + Len(ss[i]) /\ o[i - 1] \in Nat
            BY <1>8
        <3>2. PICK u \in Nat : o[i - 1] = u
            BY <3>1
        <3>3. PICK v \in Nat : Len(ss[i]) = v
            BY <2>1
        <3>4. o[i] = u + v /\ e = a + u
            BY <3>1, <3>2, <3>3
        <3> HIDE DEF e
        <3>5. a + (u + v) = (a + u) + v
            OBVIOUS
        <3>6. QED
            BY <3>3, <3>4, <3>5, Zenon
    <2> HIDE DEF tag, e, index, pool
    <2>10. PoolTurn(data, pool, n) = ReadEntry(data, pool)
        BY <2>3, <2>4, TurnTaken
    <2>11. Filled(ReadEntry(data, pool), index + Slots(tag), e + Len(ConstantBytes(tag)),
                  <<>>, <<>>)
        BY <2>1, <2>2, <2>3, <2>4, <2>5, ConstantThere
    <2>12. Filled(f[i], g[i], a + o[i], <<>>, <<>>)
        BY <2>5, <2>7, <2>8, <2>9, <2>10, <2>11, Zenon
    <2>13. QED
        BY <1>1, <2>12
<1>11. k \in T
    <2> HIDE DEF T
    <2>1. 0..k \subseteq T
        BY <1>1, <1>9, <1>10, UpTo
    <2>2. QED
        BY <1>1, <2>1
<1>12. Filled(f[k], g[k], a + Len(FlattenSeq(ss)), <<>>, <<>>)
    BY <1>7, <1>11
<1>13. QED
    BY <1>6, <1>12 DEF f, g, k

\* One more turn, and the idle ones.
LEMMA TurnsIdle ==
    ASSUME NEW data, NEW c, NEW n \in Nat, NEW k \in 0..n, NEW a, NEW utf8, NEW class,
           Filled(Pools(data, c, n)[k], n, a, utf8, class)
    PROVE  Filled(Pools(data, c, n)[n], n, a, utf8, class)
<1> DEFINE f == Pools(data, c, n)
           m == n - k
           T == {i \in 0..m : Filled(f[k + i], n, a, utf8, class)}
<1>1. m \in Nat
    OBVIOUS
<1>2. \A i \in 1..n : f[i] = PoolTurn(data, f[i - 1], n)
    BY PoolsLoop
<1>25. Filled(f[k], n, a, utf8, class)
    OBVIOUS
<1> HIDE DEF f
<1>3. 0 \in T
    <2>1. k + 0 = k
        OBVIOUS
    <2>2. QED
        BY <1>1, <1>25, <2>1
<1>4. ASSUME NEW i \in 1..m, i - 1 \in T PROVE i \in T
    <2>1. PICK j \in 1..n : j = k + i /\ j - 1 = k + (i - 1)
        BY <1>1
    <2>2. Filled(f[j - 1], n, a, utf8, class)
        BY <1>4, <2>1
    <2>3. f[j] = f[j - 1]
        <3> DEFINE pool == f[j - 1]
        <3>1. f[j] = PoolTurn(data, pool, n) /\ Filled(pool, n, a, utf8, class)
            BY <1>2, <2>2
        <3> HIDE DEF pool
        <3>2. PoolTurn(data, pool, n) = pool
            BY <3>1, TurnTaken
        <3>3. QED
            BY <3>1, <3>2, Zenon DEF pool
    <2>4. QED
        BY <2>1, <2>2, <2>3
<1>5. m \in T
    <2> HIDE DEF T
    <2>1. 0..m \subseteq T
        BY <1>1, <1>3, <1>4, UpTo
    <2>2. QED
        BY <1>1, <2>1
<1>6. k + m = n
    OBVIOUS
<1>7. QED
    BY <1>5, <1>6 DEF f

\* What a class file's own names are, in its pool.
Names(utf8, class, first) ==
    /\ DOMAIN utf8 = {first, first + 2, first + 3, first + 4}
    /\ utf8[first] = ClassName /\ utf8[first + 2] = SourceFile
    /\ utf8[first + 3] = FileName /\ utf8[first + 4] = << 67 >>
    /\ DOMAIN class = {first + 1} /\ class[first + 1] = first

\* What `HashMap::insert` does.
LEMMA InsertIs ==
    ASSUME NEW i, NEW s, NEW u
    PROVE  /\ DOMAIN Insert(u, i, s) = {i} \cup DOMAIN u
           /\ Insert(u, i, s)[i] = s
           /\ \A j \in DOMAIN u \ {i} : Insert(u, i, s)[j] = u[j]
    BY DEF Insert

\* A turn of the loop that enters a name, and the one that enters the class.
LEMMA TextTurn ==
    ASSUME NEW data \in Seq(Nat), NEW c, NEW n \in Nat, NEW i \in 1..n,
           NEW a \in Nat, NEW s \in Seq(Nat), Counted(Len(s)), IsUtf8(s),
           Holds(data, a, Text(s)), NEW index \in Nat, index < n, NEW utf8, NEW class,
           Filled(Pools(data, c, n)[i - 1], index, a, utf8, class),
           NEW b, b = a + 3 + Len(s)
    PROVE  Filled(Pools(data, c, n)[i], index + 1, b, Insert(utf8, index, s), class)
<1> DEFINE pool == Pools(data, c, n)[i - 1]
           next == Pools(data, c, n)[i]
<1>1. next = PoolTurn(data, pool, n)
    BY PoolsLoop
<1>2. Filled(pool, index, a, utf8, class)
    OBVIOUS
<1> HIDE DEF pool, next
<1>3. PoolTurn(data, pool, n) = ReadEntry(data, pool)
    BY <1>2, TurnTaken
<1>4. Filled(ReadEntry(data, pool), index + 1, a + 3 + Len(s), Insert(utf8, index, s), class)
    BY <1>2, TextThere
<1>5. QED
    BY <1>1, <1>3, <1>4, Zenon DEF next

LEMMA ClassTurn ==
    ASSUME NEW data \in Seq(Nat), NEW c, NEW n \in Nat, NEW i \in 1..n,
           NEW a \in Nat, NEW m, Counted(m), Holds(data, a, << 7 >>),
           Holds(data, a + 1, BigEndian(2, m)),
           NEW index \in Nat, index < n, NEW utf8, NEW class,
           Filled(Pools(data, c, n)[i - 1], index, a, utf8, class),
           NEW b, b = a + 3
    PROVE  Filled(Pools(data, c, n)[i], index + 1, b, utf8, Insert(class, index, m))
<1> DEFINE pool == Pools(data, c, n)[i - 1]
           next == Pools(data, c, n)[i]
<1>1. next = PoolTurn(data, pool, n)
    BY PoolsLoop
<1>2. Filled(pool, index, a, utf8, class)
    OBVIOUS
<1> HIDE DEF pool, next
<1>3. PoolTurn(data, pool, n) = ReadEntry(data, pool)
    BY <1>2, TurnTaken
<1>4. Filled(ReadEntry(data, pool), index + 1, a + 3, utf8, Insert(class, index, m))
    BY <1>2, ClassThere
<1>5. QED
    BY <1>1, <1>3, <1>4, Zenon DEF next

\* The five entries of a class file's own names.
OwnNames(first) ==
    Text(ClassName) \o << 7 >> \o BigEndian(2, first) \o Text(SourceFile) \o Text(FileName)
      \o Text(<< 67 >>)

\* Where each of these names is.
LEMMA OwnNamesAre ==
    ASSUME NEW first \in Nat
    PROVE  /\ Run(OwnNames(first), 21)
           /\ \A data \in Seq(Nat), a \in Nat : Holds(data, a, OwnNames(first)) =>
                /\ Holds(data, a, Text(ClassName)) /\ Holds(data, a + 5, << 7 >>)
                /\ Holds(data, a + 5 + 1, BigEndian(2, first))
                /\ Holds(data, a + 8, Text(SourceFile)) /\ Holds(data, a + 13, Text(FileName))
                /\ Holds(data, a + 17, Text(<< 67 >>))
<1> DEFINE t1 == Text(ClassName)
           t2 == Text(SourceFile)
           t3 == Text(FileName)
           t4 == Text(<< 67 >>)
           b == BigEndian(2, first)
           s == << 7 >>
           q2 == t1 \o s
           q3 == q2 \o b
           q4 == q3 \o t2
           q5 == q4 \o t3
           q6 == q5 \o t4
<1>1. Run(t1, 5) /\ Run(t2, 5) /\ Run(t3, 4) /\ Run(t4, 4) /\ Run(b, 2) /\ Run(s, 1)
    <2>1. /\ ClassName \in Seq(Nat) /\ Len(ClassName) = 2
          /\ SourceFile \in Seq(Nat) /\ Len(SourceFile) = 2
          /\ FileName \in Seq(Nat) /\ Len(FileName) = 1
          /\ << 67 >> \in Seq(Nat) /\ Len(<< 67 >>) = 1
        BY DEF ClassName, SourceFile, FileName
    <2> DEFINE z == << 67 >>
    <2> HIDE DEF z
    <2>2. Run(t1, 3 + 2) /\ Run(t2, 3 + 2) /\ Run(t3, 3 + 1)
        BY <2>1, TextType
    <2>3. Run(Text(z), 3 + 1)
        BY <2>1, TextType DEF z
    <2>4. Run(b, 2)
        BY RunBigEndian
    <2>5. Run(s, 1)
        BY DEF Run
    <2> HIDE DEF t1, t2, t3, b, s
    <2>6. QED
        BY <2>2, <2>3, <2>4, <2>5 DEF z
<1> HIDE DEF t1, t2, t3, t4, b, s
<1>2. Run(q2, 6)
    <2>1. Run(q2, 5 + 1)
        BY <1>1, RunBoth, Zenon
    <2>2. QED
        BY <2>1
<1> HIDE DEF q2
<1>3. Run(q3, 8)
    <2>1. Run(q3, 6 + 2)
        BY <1>1, <1>2, RunBoth, Zenon
    <2>2. QED
        BY <2>1
<1> HIDE DEF q3
<1>4. Run(q4, 13)
    <2>1. Run(q4, 8 + 5)
        BY <1>1, <1>3, RunBoth, Zenon
    <2>2. QED
        BY <2>1
<1> HIDE DEF q4
<1>5. Run(q5, 17)
    <2>1. Run(q5, 13 + 4)
        BY <1>1, <1>4, RunBoth, Zenon
    <2>2. QED
        BY <2>1
<1> HIDE DEF q5
<1>6. Run(q6, 21)
    <2>1. Run(q6, 17 + 4)
        BY <1>1, <1>5, RunBoth, Zenon
    <2>2. QED
        BY <2>1
<1>7. OwnNames(first) = q6
    BY Zenon DEF OwnNames, q5, q4, q3, q2, t1, t2, t3, t4, b, s
<1>8. ASSUME NEW data \in Seq(Nat), NEW a \in Nat, Holds(data, a, q6)
      PROVE  /\ Holds(data, a, t1) /\ Holds(data, a + 5, s) /\ Holds(data, a + 5 + 1, b)
             /\ Holds(data, a + 8, t2) /\ Holds(data, a + 13, t3) /\ Holds(data, a + 17, t4)
    <2>1. Holds(data, a, q5) /\ Holds(data, a + 17, t4)
        BY <1>1, <1>5, <1>8, RunHolds
    <2>2. Holds(data, a, q4) /\ Holds(data, a + 13, t3)
        BY <1>1, <1>4, <2>1, RunHolds DEF q5
    <2>3. Holds(data, a, q3) /\ Holds(data, a + 8, t2)
        BY <1>1, <1>3, <2>2, RunHolds DEF q4
    <2>4. Holds(data, a, q2) /\ Holds(data, a + 6, b)
        BY <1>1, <1>2, <2>3, RunHolds DEF q3
    <2>5. Holds(data, a, t1) /\ Holds(data, a + 5, s)
        BY <1>1, <2>4, RunHolds DEF q2
    <2>6. a + 6 = a + 5 + 1
        OBVIOUS
    <2>7. QED
        BY <2>1, <2>2, <2>3, <2>4, <2>5, <2>6, Zenon
<1> HIDE DEF q6
<1>9. \A data \in Seq(Nat), a \in Nat : Holds(data, a, OwnNames(first)) =>
                /\ Holds(data, a, t1) /\ Holds(data, a + 5, s) /\ Holds(data, a + 5 + 1, b)
                /\ Holds(data, a + 8, t2) /\ Holds(data, a + 13, t3) /\ Holds(data, a + 17, t4)
    BY <1>7, <1>8, Zenon
<1>10. QED
    BY <1>6, <1>7, <1>9, Zenon DEF t1, t2, t3, t4, b, s

\* What the turns of the loop enter are these names.
LEMMA NamesAre ==
    ASSUME NEW first \in Nat
    PROVE  Names(Insert(Insert(Insert(Insert(<<>>, first, ClassName), first + 2, SourceFile),
                               first + 3, FileName), first + 4, << 67 >>),
                 Insert(<<>>, first + 1, first), first)
<1> DEFINE i2 == first + 2
           i3 == first + 3
           i4 == first + 4
           u0 == <<>>
           s1 == ClassName
           s2 == SourceFile
           s3 == FileName
           s4 == << 67 >>
           u1 == Insert(u0, first, s1)
           u2 == Insert(u1, i2, s2)
           u3 == Insert(u2, i3, s3)
           u4 == Insert(u3, i4, s4)
<1>1. first # i2 /\ first # i3 /\ first # i4 /\ i2 # i3 /\ i2 # i4 /\ i3 # i4 /\ DOMAIN u0 = {}
    OBVIOUS
<1>2. /\ DOMAIN Insert(<<>>, first + 1, first) = {first + 1}
      /\ Insert(<<>>, first + 1, first)[first + 1] = first
    BY DEF Insert
<1> HIDE DEF i2, i3, i4, u0, s1, s2, s3, s4
<1>3. DOMAIN u1 = {first} /\ u1[first] = s1
    <2>1. DOMAIN u1 = {first} \cup DOMAIN u0 /\ u1[first] = s1
        BY InsertIs, Zenon
    <2>2. QED
        BY <1>1, <2>1
<1> HIDE DEF u1
<1>4. DOMAIN u2 = {first, i2} /\ u2[first] = s1 /\ u2[i2] = s2
    <2>1. /\ DOMAIN u2 = {i2} \cup DOMAIN u1 /\ u2[i2] = s2
          /\ \A j \in DOMAIN u1 \ {i2} : u2[j] = u1[j]
        BY DEF Insert
    <2> HIDE DEF u2
    <2>2. QED
        BY <1>1, <1>3, <2>1
<1> HIDE DEF u2
<1>5. DOMAIN u3 = {first, i2, i3} /\ u3[first] = s1 /\ u3[i2] = s2 /\ u3[i3] = s3
    <2>1. /\ DOMAIN u3 = {i3} \cup DOMAIN u2 /\ u3[i3] = s3
          /\ \A j \in DOMAIN u2 \ {i3} : u3[j] = u2[j]
        BY DEF Insert
    <2> HIDE DEF u3
    <2>2. QED
        BY <1>1, <1>4, <2>1
<1> HIDE DEF u3
<1>6. DOMAIN u4 = {first, i2, i3, i4} /\ u4[first] = s1 /\ u4[i2] = s2 /\ u4[i3] = s3
      /\ u4[i4] = s4
    <2>1. /\ DOMAIN u4 = {i4} \cup DOMAIN u3 /\ u4[i4] = s4
          /\ \A j \in DOMAIN u3 \ {i4} : u4[j] = u3[j]
        BY DEF Insert
    <2> HIDE DEF u4
    <2>2. QED
        BY <1>1, <1>5, <2>1
<1> DEFINE class == Insert(<<>>, first + 1, first)
<1> HIDE DEF u4, class
<1>7. Names(u4, class, first)
    BY <1>2, <1>6 DEF Names, i2, i3, i4, s1, s2, s3, s4, class
<1>8. QED
    BY <1>7, Zenon DEF u4, u3, u2, u1, u0, class, i2, i3, i4, s1, s2, s3, s4

\* The pool of a class file holds its names.
LEMMA PoolThere ==
    ASSUME NEW data \in Seq(Nat), NEW a \in Nat, NEW f \in ClassFileType,
           Counted(First(f) + 5), Holds(data, a, PoolBytes(f)), NEW c, Stands(c, a)
    PROVE  \E utf8, class : /\ Filled(ReadPool(data, c), First(f) + 5, a + Len(PoolBytes(f)),
                                      utf8, class)
                            /\ Names(utf8, class, First(f))
<1> DEFINE extras == f.extras
           k == Len(extras)
           first == First(f)
           n == first + 5
           ss == [i \in DOMAIN extras |-> ConstantBytes(extras[i])]
           flat == FlattenSeq(ss)
           b == BigEndian(2, n)
           own == OwnNames(first)
           head == b \o flat
           count == Read(data, c, 2)
           g == Pools(data, count, n)
<1>1. extras \in Seq(KnownTags \ {7}) /\ k \in Nat
    BY DEF ClassFileType
<1>2. first = Indices(extras)[k] /\ first \in Nat
    <2>1. first = Indices(extras)[k]
        BY DEF First
    <2>2. Indices(extras)[k] \in Nat
        <3> HIDE DEF extras
        <3>1. k \in 0..Len(extras)
            BY <1>1
        <3>2. QED
            BY <1>1, <3>1, IndicesRise
    <2>3. QED
        BY <2>1, <2>2, Zenon
<1>3. PoolBytes(f) = head \o own
    BY Zenon DEF PoolBytes, OwnNames
<1>4. flat \in Seq(Nat)
    <2> HIDE DEF extras
    <2>1. ASSUME NEW i \in 1..k PROVE ConstantBytes(extras[i]) \in Seq(Nat)
        <3>1. extras[i] \in KnownTags \ {7}
            BY <1>1
        <3>2. Run(ConstantBytes(extras[i]), 1 + EntryWidth(extras[i]))
            BY <3>1, ConstantType
        <3>3. QED
            BY <3>2 DEF Run
    <2>2. ss \in Seq(Seq(Nat))
        BY <1>1, <2>1
    <2> HIDE DEF ss
    <2>3. QED
        BY <2>2, FlattenType
<1> HIDE DEF first
<1>5. n \in Nat
    BY <1>2
<1> DEFINE l == Len(flat)
<1> HIDE DEF n, extras
<1>6. Run(b, 2) /\ Run(flat, l) /\ Run(own, 21) /\ l \in Nat
    <2>1. Run(b, 2)
        BY <1>5, RunBigEndian
    <2>2. Run(flat, l) /\ l \in Nat
        BY <1>4, RunSeq
    <2>3. Run(own, 21)
        BY <1>2, OwnNamesAre
    <2>4. QED
        BY <2>1, <2>2, <2>3
<1> HIDE DEF b, flat, own, l, ss
<1>7. Run(head, 2 + l)
    BY <1>6, RunBoth
<1> HIDE DEF head
<1>8. Holds(data, a, head) /\ Holds(data, a + (2 + l), own) /\ a + (2 + l) \in Nat
    BY <1>3, <1>6, <1>7, RunHolds
<1>9. Holds(data, a, b) /\ Holds(data, a + 2, flat) /\ a + 2 \in Nat
    BY <1>6, <1>8, RunHolds DEF head
<1>10. Len(PoolBytes(f)) = 2 + l + 21
    <2>1. Run(head \o own, 2 + l + 21)
        BY <1>6, <1>7, RunBoth
    <2>2. QED
        BY <1>3, <2>1, Zenon DEF Run
<1>11. Stands(count, a + 2) /\ Number(count.got) = n
    <2>1. Counted(n)
        BY DEF n, first
    <2>2. QED
        BY <1>9, <2>1, CountThere DEF b
<1>12. ReadPool(data, c) = g[n]
    <2> DEFINE whole(m) == Pools(data, count, m)[m]
    <2>1. ReadPool(data, c) = whole(Number(count.got))
        BY Zenon DEF ReadPool
    <2>2. whole(n) = g[n]
        OBVIOUS
    <2> HIDE DEF whole, count, g
    <2>3. QED
        BY <1>11, <2>1, <2>2, Zenon
<1> HIDE DEF count
<1>13. Filled(g[k], first, a + 2 + l, <<>>, <<>>) /\ k + 5 < n
    <2> DEFINE e == a + 2
    <2>1. Indices(extras)[Len(extras)] + 5 = n
        BY <1>2 DEF n
    <2>2. ss = [i \in DOMAIN extras |-> ConstantBytes(extras[i])] /\ Stands(count, e) /\ e \in Nat
          /\ Holds(data, e, FlattenSeq(ss))
        BY <1>9, <1>11 DEF ss, flat
    <2> HIDE DEF e
    <2>3. /\ Filled(Pools(data, count, n)[Len(extras)], Indices(extras)[Len(extras)],
                    e + Len(FlattenSeq(ss)), <<>>, <<>>)
          /\ Len(extras) + 5 < n
        BY <1>1, <1>5, <2>1, <2>2, ConstantsThere
    <2>4. QED
        BY <1>2, <2>3 DEF e, l, flat
<1> DEFINE e == a + (2 + l)
<1>14. Filled(g[k], first, e, <<>>, <<>>) /\ e \in Nat
    <2>1. a + 2 + l = a + (2 + l)
        BY <1>6
    <2>2. QED
        BY <1>8, <1>13, <2>1
<1>15. /\ Holds(data, e, Text(ClassName)) /\ Holds(data, e + 5, << 7 >>)
       /\ Holds(data, e + 5 + 1, BigEndian(2, first))
       /\ Holds(data, e + 8, Text(SourceFile)) /\ Holds(data, e + 13, Text(FileName))
       /\ Holds(data, e + 17, Text(<< 67 >>))
    <2> HIDE DEF e
    <2>1. Holds(data, e, OwnNames(first))
        BY <1>8 DEF own, e
    <2>2. QED
        BY <1>2, <1>14, <2>1, OwnNamesAre
<1> DEFINE u1 == Insert(<<>>, first, ClassName)
           u2 == Insert(u1, first + 2, SourceFile)
           u3 == Insert(u2, first + 3, FileName)
           u4 == Insert(u3, first + 4, << 67 >>)
           class == Insert(<<>>, first + 1, first)
<1> HIDE DEF e, k
<1>16. /\ \A j \in 1..5 : k + j \in 1..n /\ k + j - 1 = k + (j - 1)
       /\ n = first + 5 /\ first + 0 = first
    BY <1>1, <1>2, <1>5, <1>13 DEF n, k
<1>17. /\ ClassName \in Seq(Nat) /\ Len(ClassName) = 2
       /\ SourceFile \in Seq(Nat) /\ Len(SourceFile) = 2
       /\ FileName \in Seq(Nat) /\ Len(FileName) = 1
       /\ << 67 >> \in Seq(Nat) /\ Len(<< 67 >>) = 1
       /\ Counted(1) /\ Counted(2)
    BY DEF ClassName, SourceFile, FileName, Counted, Shifted
<1>175. IsUtf8(ClassName) /\ IsUtf8(SourceFile) /\ IsUtf8(FileName) /\ IsUtf8(<< 67 >>)
    BY AllAreUtf8 DEF ClassName, SourceFile, FileName
<1>18. Filled(g[k + 1], first + 1, e + 5, u1, <<>>)
    <2> DEFINE i == k + 1
               s == ClassName
               none == <<>>
    <2>1. i \in 1..n /\ i - 1 = k /\ first < n /\ e + 5 = e + 3 + Len(s)
        BY <1>1, <1>2, <1>14, <1>16, <1>17 DEF k
    <2>2. s \in Seq(Nat) /\ Counted(Len(s)) /\ IsUtf8(s) /\ Holds(data, e, Text(s))
          /\ Filled(Pools(data, count, n)[i - 1], first, e, none, none)
        BY <1>175, <1>14, <1>15, <1>17, <2>1
    <2> HIDE DEF i, s, none
    <2>3. Filled(Pools(data, count, n)[i], first + 1, e + 5, Insert(none, first, s), none)
        BY <1>2, <1>5, <1>14, <2>1, <2>2, TextTurn
    <2>4. QED
        BY <2>3 DEF i, s, none
<1> HIDE DEF u1
<1>19. Filled(g[k + 2], first + 2, e + 8, u1, class)
    <2> DEFINE i == k + 2
               none == <<>>
               d == e + 5
               index == first + 1
               h == g[i - 1]
    <2>1. i \in 1..n /\ i - 1 = k + 1 /\ index < n /\ e + 8 = d + 3 /\ d \in Nat /\ index \in Nat
          /\ index + 1 = first + 2
        BY <1>1, <1>2, <1>14, <1>16, SMTT(30) DEF k
    <2>2. Counted(first) /\ Holds(data, d, << 7 >>) /\ Holds(data, d + 1, BigEndian(2, first))
          /\ Filled(Pools(data, count, n)[i - 1], index, d, u1, none)
        <3>1. Counted(first)
            <4>1. Counted(n) /\ first <= n
                BY <1>2, <1>16 DEF n, first
            <4>2. QED
                BY <1>2, <4>1, CountedLess
        <3>2. QED
            BY <1>15, <1>18, <2>1, <3>1
    <2> HIDE DEF i, none, d, index
    <2> DEFINE z == e + 8
    <2>25. z = d + 3
        BY <2>1
    <2> HIDE DEF z
    <2>3. Filled(Pools(data, count, n)[i], index + 1, z, u1, Insert(none, index, first))
        BY <1>5, <2>1, <2>2, <2>25, ClassTurn
    <2>4. QED
        BY <2>1, <2>3, Zenon DEF i, none, index, z
<1> HIDE DEF class
<1>20. Filled(g[k + 3], first + 3, e + 13, u2, class)
    <2> DEFINE i == k + 3
               s == SourceFile
               d == e + 8
               index == first + 2
               z == e + 13
    <2>1. i \in 1..n /\ i - 1 = k + 2 /\ index < n /\ z = d + 3 + Len(s) /\ d \in Nat
          /\ index \in Nat /\ index + 1 = first + 3
        <3>1. Len(s) = 2
            BY <1>17
        <3> HIDE DEF s
        <3>2. QED
            BY <1>1, <1>2, <1>14, <1>16, <3>1, SMTT(30) DEF k
    <2>2. s \in Seq(Nat) /\ Counted(Len(s)) /\ IsUtf8(s) /\ Holds(data, d, Text(s))
          /\ Filled(Pools(data, count, n)[i - 1], index, d, u1, class)
        BY <1>175, <1>15, <1>17, <1>19, <2>1
    <2> HIDE DEF i, s, d, index, z
    <2>3. Filled(Pools(data, count, n)[i], index + 1, z, Insert(u1, index, s), class)
        BY <1>5, <2>1, <2>2, TextTurn
    <2>4. QED
        BY <2>1, <2>3, Zenon DEF i, s, index, z
<1> HIDE DEF u2
<1>21. Filled(g[k + 4], first + 4, e + 17, u3, class)
    <2> DEFINE i == k + 4
               s == FileName
               d == e + 13
               index == first + 3
               z == e + 17
    <2>1. i \in 1..n /\ i - 1 = k + 3 /\ index < n /\ z = d + 3 + Len(s) /\ d \in Nat
          /\ index \in Nat /\ index + 1 = first + 4
        <3>1. Len(s) = 1
            BY <1>17
        <3> HIDE DEF s
        <3>2. QED
            BY <1>1, <1>2, <1>14, <1>16, <3>1, SMTT(30) DEF k
    <2>2. s \in Seq(Nat) /\ Counted(Len(s)) /\ IsUtf8(s) /\ Holds(data, d, Text(s))
          /\ Filled(Pools(data, count, n)[i - 1], index, d, u2, class)
        BY <1>175, <1>15, <1>17, <1>20, <2>1
    <2> HIDE DEF i, s, d, index, z
    <2>3. Filled(Pools(data, count, n)[i], index + 1, z, Insert(u2, index, s), class)
        BY <1>5, <2>1, <2>2, TextTurn
    <2>4. QED
        BY <2>1, <2>3, Zenon DEF i, s, index, z
<1> HIDE DEF u3
<1>22. Filled(g[k + 5], first + 5, e + 21, u4, class)
    <2> DEFINE i == k + 5
               s == << 67 >>
               d == e + 17
               index == first + 4
               z == e + 21
    <2>1. i \in 1..n /\ i - 1 = k + 4 /\ index < n /\ z = d + 3 + Len(s) /\ d \in Nat
          /\ index \in Nat /\ index + 1 = first + 5
        <3>1. Len(s) = 1
            BY <1>17
        <3> HIDE DEF s
        <3>2. QED
            BY <1>1, <1>2, <1>14, <1>16, <3>1, SMTT(30) DEF k
    <2>2. s \in Seq(Nat) /\ Counted(Len(s)) /\ IsUtf8(s) /\ Holds(data, d, Text(s))
          /\ Filled(Pools(data, count, n)[i - 1], index, d, u3, class)
        BY <1>175, <1>15, <1>17, <1>21, <2>1
    <2> HIDE DEF i, s, d, index, z
    <2>3. Filled(Pools(data, count, n)[i], index + 1, z, Insert(u3, index, s), class)
        BY <1>5, <2>1, <2>2, TextTurn
    <2>4. QED
        BY <2>1, <2>3, Zenon DEF i, s, index, z
<1> HIDE DEF u4
<1>23. Filled(g[n], n, e + 21, u4, class)
    <2> DEFINE i == k + 5
               z == e + 21
    <2>1. i \in 0..n /\ Filled(Pools(data, count, n)[i], n, z, u4, class)
        BY <1>1, <1>5, <1>13, <1>16, <1>22 DEF k
    <2> HIDE DEF i, z
    <2>2. Filled(Pools(data, count, n)[n], n, z, u4, class)
        BY <1>5, <2>1, TurnsIdle
    <2>3. QED
        BY <2>2 DEF z
<1>24. Names(u4, class, first)
    BY <1>2, NamesAre, Zenon DEF u4, u3, u2, u1, class
<1>25. e + 21 = a + Len(PoolBytes(f))
    BY <1>6, <1>10 DEF e
<1>26. Filled(ReadPool(data, c), first + 5, a + Len(PoolBytes(f)), u4, class)
    BY <1>12, <1>16, <1>23, <1>25, Zenon
<1>27. QED
    BY <1>24, <1>26, Zenon DEF first


\* The pool is a run of bytes.
LEMMA PoolType ==
    ASSUME NEW f \in ClassFileType
    PROVE  PoolBytes(f) \in Seq(Nat) /\ First(f) \in Nat
<1> DEFINE extras == f.extras
           k == Len(extras)
           first == First(f)
           ss == [i \in DOMAIN extras |-> ConstantBytes(extras[i])]
           flat == FlattenSeq(ss)
           b == BigEndian(2, first + 5)
           own == OwnNames(first)
<1>1. extras \in Seq(KnownTags \ {7}) /\ k \in Nat
    BY DEF ClassFileType
<1>2. first \in Nat
    <2>1. first = Indices(extras)[k]
        BY DEF First
    <2>2. Indices(extras)[k] \in Nat
        <3> HIDE DEF extras
        <3>1. k \in 0..Len(extras)
            BY <1>1
        <3>2. QED
            BY <1>1, <3>1, IndicesRise
    <2>3. QED
        BY <2>1, <2>2, Zenon
<1>3. PoolBytes(f) = (b \o flat) \o own
    BY Zenon DEF PoolBytes, OwnNames
<1> HIDE DEF extras, first
<1>4. ASSUME NEW i \in 1..k PROVE ConstantBytes(extras[i]) \in Seq(Nat)
    <2>1. extras[i] \in KnownTags \ {7}
        BY <1>1
    <2>2. Run(ConstantBytes(extras[i]), 1 + EntryWidth(extras[i]))
        BY <2>1, ConstantType
    <2>3. QED
        BY <2>2 DEF Run
<1>5. ss \in Seq(Seq(Nat))
    BY <1>1, <1>4
<1> HIDE DEF ss
<1>6. flat \in Seq(Nat)
    BY <1>5, FlattenType
<1>7. Run(flat, Len(flat)) /\ Run(b, 2) /\ Run(own, 21)
    <2>1. first + 5 \in Nat
        BY <1>2
    <2>2. Run(b, 2)
        BY <2>1, RunBigEndian
    <2>3. QED
        BY <1>2, <1>6, <2>2, RunSeq, OwnNamesAre
<1> DEFINE l == Len(flat)
<1> HIDE DEF flat, b, own, l
<1>8. Run(b \o flat, 2 + l)
    BY <1>7, RunBoth DEF l
<1> DEFINE head == b \o flat
<1> HIDE DEF head
<1>9. Run(head \o own, 2 + l + 21)
    BY <1>7, <1>8, RunBoth DEF head
<1>10. QED
    BY <1>2, <1>3, <1>9, Zenon DEF Run, head, first

-----------------------------------------------------------------------------
(* Class files: the search for the file name.                              *)
LEMMA AttributeType ==
    ASSUME NEW first \in Nat, NEW a \in {"source", "other"}
    PROVE  Run(AttributeBytes(first, a), IF a = "source" THEN 8 ELSE 9)
<1>1. first + 2 \in Nat /\ first + 3 \in Nat /\ first + 4 \in Nat
    OBVIOUS
<1> DEFINE b2 == BigEndian(2, first + 2)
           b3 == BigEndian(2, first + 3)
           b4 == BigEndian(2, first + 4)
           l2 == BigEndian(4, 2)
           l3 == BigEndian(4, 3)
           r == BigEndian(3, 1)
<1>2. Run(b2, 2) /\ Run(b3, 2) /\ Run(b4, 2) /\ Run(l2, 4) /\ Run(l3, 4) /\ Run(r, 3)
    <2>1. Run(b2, 2) /\ Run(b3, 2) /\ Run(b4, 2)
        BY <1>1, RunBigEndian
    <2>2. Run(l2, 4) /\ Run(l3, 4) /\ Run(r, 3)
        BY RunBigEndian
    <2>3. QED
        BY <2>1, <2>2, Zenon
<1>3. /\ a = "source" => AttributeBytes(first, a) = (b2 \o l2) \o b3
      /\ a # "source" => AttributeBytes(first, a) = (b4 \o l3) \o r
    BY Zenon DEF AttributeBytes
<1> HIDE DEF b2, b3, b4, l2, l3, r
<1> DEFINE x == b2 \o l2
           y == b4 \o l3
<1>4. Run(x, 2 + 4) /\ Run(y, 2 + 4)
    BY <1>2, RunBoth
<1> HIDE DEF x, y
<1>5. Run(x \o b3, 2 + 4 + 2) /\ Run(y \o r, 2 + 4 + 3)
    BY <1>2, <1>4, RunBoth
<1>6. CASE a = "source"
    <2>1. AttributeBytes(first, a) = x \o b3
        BY <1>3, <1>6, Zenon DEF x
    <2>2. Run(AttributeBytes(first, a), 2 + 4 + 2)
        BY <1>5, <2>1, Zenon
    <2>3. QED
        BY <1>6, <2>2
<1>7. CASE a # "source"
    <2>1. AttributeBytes(first, a) = y \o r
        BY <1>3, <1>7, Zenon DEF y
    <2>2. Run(AttributeBytes(first, a), 2 + 4 + 3)
        BY <1>5, <2>1, Zenon
    <2>3. QED
        BY <1>7, <2>2
<1>8. QED
    BY <1>6, <1>7

\* Nothing was found up to here; the name was found.
Passed(search, a) == ~search.done /\ Stands(search.cursor, a) /\ search.source = NoSource
Found(search) == search.done /\ search.cursor.ok /\ search.source = FileName

\* An attribute of another name is passed over.
LEMMA OtherThere ==
    ASSUME NEW data \in Seq(Nat), NEW a \in Nat, NEW first \in Nat, Counted(first + 4),
           Holds(data, a, AttributeBytes(first, "other")),
           NEW utf8, NEW class, Names(utf8, class, first),
           NEW search, Passed(search, a)
    PROVE  Passed(Look(data, utf8, search), a + 9)
<1> DEFINE name   == Read(data, search.cursor, 2)
           length == Read(data, name, 4)
           b == BigEndian(2, first + 4)
           l == BigEndian(4, 3)
           r == BigEndian(3, 1)
           x == b \o l
<1>1. Run(b, 2) /\ Run(l, 4) /\ Run(r, 3) /\ first + 4 \in Nat
    <2>1. first + 4 \in Nat
        OBVIOUS
    <2>2. Run(b, 2) /\ Run(l, 4) /\ Run(r, 3)
        BY <2>1, RunBigEndian
    <2>3. QED
        BY <2>1, <2>2
<1>2. AttributeBytes(first, "other") = x \o r
    BY Zenon DEF AttributeBytes
<1> HIDE DEF b, l, r
<1>3. Run(x, 2 + 4)
    BY <1>1, RunBoth
<1> HIDE DEF x
<1>4. Holds(data, a, x)
    BY <1>1, <1>2, <1>3, RunHolds
<1>5. Holds(data, a, b) /\ Holds(data, a + 2, l) /\ a + 2 \in Nat
    BY <1>1, <1>4, RunHolds DEF x
<1>6. ~search.done /\ Stands(search.cursor, a)
    BY DEF Passed
<1>7. Stands(name, a + 2) /\ Number(name.got) = first + 4
    <2> DEFINE other == first + 4
               cursor == search.cursor
    <2>1. Counted(other) /\ Holds(data, a, BigEndian(2, other)) /\ Stands(cursor, a)
        BY <1>5, <1>6 DEF b
    <2> HIDE DEF other, cursor
    <2>2. Stands(Read(data, cursor, 2), a + 2) /\ Number(Read(data, cursor, 2).got) = other
        BY <2>1, CountThere
    <2>3. QED
        BY <2>2 DEF other, cursor
<1>8. Stands(length, a + 2 + 4) /\ Number(length.got) = 3
    <2> HIDE DEF name
    <2> DEFINE e == a + 2
    <2>1. e \in Nat /\ Holds(data, e, BigEndian(4, 3)) /\ Stands(name, e)
        BY <1>5, <1>7 DEF l
    <2> HIDE DEF e
    <2>2. Stands(Read(data, name, 4), e + 4) /\ Number(Read(data, name, 4).got) = 3
        BY <2>1, LengthThere
    <2>3. QED
        BY <2>2 DEF e
<1>9. utf8[Number(name.got)] # SourceFile
    <2>1. utf8[first + 4] = << 67 >>
        BY DEF Names
    <2>2. << 67 >> # SourceFile
        BY DEF SourceFile
    <2>3. QED
        BY <1>7, <2>1, <2>2, Zenon
<1>10. search.cursor.ok
    BY <1>6 DEF Stands
<1> DEFINE cursor == Skip(length, Number(length.got))
<1>11. Look(data, utf8, search) = [done |-> FALSE, cursor |-> cursor, source |-> NoSource]
    BY <1>6, <1>9, <1>10, Zenon DEF Look
<1> HIDE DEF length
<1>12. Stands(cursor, a + 2 + 4 + 3)
    BY <1>8, SkipThere, Zenon
<1>13. a + 2 + 4 + 3 = a + 9
    OBVIOUS
<1> HIDE DEF cursor
<1>14. Stands(cursor, a + 9)
    BY <1>12, <1>13, Zenon
<1>15. QED
    BY <1>11, <1>14 DEF Passed

\* The SourceFile attribute ends the search with the name of the file.
LEMMA SourceThere ==
    ASSUME NEW data \in Seq(Nat), NEW a \in Nat, NEW first \in Nat, Counted(first + 4),
           Holds(data, a, AttributeBytes(first, "source")),
           NEW utf8, NEW class, Names(utf8, class, first),
           NEW search, Passed(search, a)
    PROVE  Found(Look(data, utf8, search))
<1> DEFINE name   == Read(data, search.cursor, 2)
           length == Read(data, name, 4)
           index  == Read(data, length, 2)
           b == BigEndian(2, first + 2)
           l == BigEndian(4, 2)
           r == BigEndian(2, first + 3)
           x == b \o l
<1>1. /\ Run(b, 2) /\ Run(l, 4) /\ Run(r, 2)
      /\ first + 2 \in Nat /\ first + 3 \in Nat /\ first + 2 <= first + 4 /\ first + 3 <= first + 4
    <2>1. first + 2 \in Nat /\ first + 3 \in Nat /\ first + 2 <= first + 4 /\ first + 3 <= first + 4
        OBVIOUS
    <2>2. Run(b, 2) /\ Run(l, 4) /\ Run(r, 2)
        BY <2>1, RunBigEndian
    <2>3. QED
        BY <2>1, <2>2
<1>2. AttributeBytes(first, "source") = x \o r
    BY Zenon DEF AttributeBytes
<1> HIDE DEF b, l, r
<1>3. Run(x, 2 + 4)
    BY <1>1, RunBoth
<1> HIDE DEF x
<1>4. Holds(data, a, x) /\ Holds(data, a + (2 + 4), r) /\ a + (2 + 4) \in Nat
    <2> DEFINE w == 2 + 4
    <2>1. Holds(data, a, x \o r)
        BY <1>2, Zenon
    <2>2. Run(x, w)
        BY <1>3
    <2> HIDE DEF w
    <2>3. Holds(data, a, x) /\ Holds(data, a + w, r) /\ a + w \in Nat
        BY <1>1, <2>1, <2>2, RunHolds
    <2>4. QED
        BY <2>3 DEF w
<1>5. Holds(data, a, b) /\ Holds(data, a + 2, l) /\ a + 2 \in Nat
    BY <1>1, <1>4, RunHolds DEF x
<1>6. ~search.done /\ Stands(search.cursor, a)
    BY DEF Passed
<1>7. Counted(first + 2) /\ Counted(first + 3)
    <2> DEFINE i2 == first + 2
               i3 == first + 3
               i4 == first + 4
    <2>1. Counted(i4) /\ i2 \in Nat /\ i3 \in Nat /\ i2 <= i4 /\ i3 <= i4
        BY <1>1
    <2> HIDE DEF i2, i3, i4
    <2>2. Counted(i2) /\ Counted(i3)
        BY <2>1, CountedLess
    <2>3. QED
        BY <2>2 DEF i2, i3
<1>8. Stands(name, a + 2) /\ Number(name.got) = first + 2
    <2> DEFINE i == first + 2
               cursor == search.cursor
    <2>1. Counted(i) /\ Holds(data, a, BigEndian(2, i)) /\ Stands(cursor, a)
        BY <1>5, <1>6, <1>7 DEF b
    <2> HIDE DEF i, cursor
    <2>2. Stands(Read(data, cursor, 2), a + 2) /\ Number(Read(data, cursor, 2).got) = i
        BY <2>1, CountThere
    <2>3. QED
        BY <2>2 DEF i, cursor
<1>9. Stands(length, a + 2 + 4)
    <2> HIDE DEF name
    <2> DEFINE e == a + 2
    <2>1. e \in Nat /\ Holds(data, e, BigEndian(4, 2)) /\ Stands(name, e)
        BY <1>5, <1>8 DEF l
    <2> HIDE DEF e
    <2>2. Stands(Read(data, name, 4), e + 4)
        BY <2>1, LengthThere
    <2>3. QED
        BY <2>2 DEF e
<1>10. Stands(index, a + 6 + 2) /\ Number(index.got) = first + 3
    <2> HIDE DEF length
    <2> DEFINE i == first + 3
               e == a + 6
    <2>1. a + 2 + 4 = e /\ a + (2 + 4) = e
        OBVIOUS
    <2>2. e \in Nat /\ Counted(i) /\ Holds(data, e, BigEndian(2, i)) /\ Stands(length, e)
        BY <1>4, <1>7, <1>9, <2>1, Zenon DEF r
    <2> HIDE DEF e, i
    <2>3. Stands(Read(data, length, 2), e + 2) /\ Number(Read(data, length, 2).got) = i
        BY <2>2, CountThere
    <2>4. QED
        BY <2>3 DEF e, i
<1>11. /\ first + 2 \in DOMAIN utf8 /\ utf8[first + 2] = SourceFile
       /\ first + 3 \in DOMAIN utf8 /\ utf8[first + 3] = FileName
    BY DEF Names
<1>12. search.cursor.ok /\ length.ok
    BY <1>6, <1>9, Zenon DEF Stands
<1> DEFINE source == IF Number(index.got) \in DOMAIN utf8 THEN utf8[Number(index.got)]
                     ELSE NoSource
<1>13. Number(name.got) \in DOMAIN utf8 /\ utf8[Number(name.got)] = SourceFile
    BY <1>8, <1>11, Zenon
<1>14. Look(data, utf8, search) = [done |-> TRUE, cursor |-> index, source |-> source]
    BY <1>6, <1>12, <1>13, Zenon DEF Look
<1> HIDE DEF index
<1>15. source = FileName
    BY <1>10, <1>11, Zenon
<1> HIDE DEF source
<1>16. index.ok
    BY <1>10, Zenon DEF Stands
<1>17. QED
    BY <1>14, <1>15, <1>16 DEF Found


\* A search that is over stays as it is.
LEMMA LookFound ==
    ASSUME NEW data, NEW utf8, NEW search, Found(search)
    PROVE  Look(data, utf8, search) = search
    BY Zenon DEF Look, Found

\* The search takes the name of the first SourceFile attribute, if there is one.
LEMMA SearchThere ==
    ASSUME NEW data \in Seq(Nat), NEW a \in Nat, NEW first \in Nat, Counted(first + 4),
           NEW attributes \in Seq({"source", "other"}), Counted(Len(attributes)),
           Holds(data, a, BigEndian(2, Len(attributes)) \o
               FlattenSeq([i \in DOMAIN attributes |-> AttributeBytes(first, attributes[i])])),
           NEW utf8, NEW class, Names(utf8, class, first),
           NEW c, Stands(c, a)
    PROVE  /\ FindSourceFile(data, c, utf8).cursor.ok
           /\ FindSourceFile(data, c, utf8).source =
                  IF "source" \in Range(attributes) THEN FileName ELSE NoSource
<1> DEFINE n == Len(attributes)
           ss == [i \in DOMAIN attributes |-> AttributeBytes(first, attributes[i])]
           flat == FlattenSeq(ss)
           b == BigEndian(2, n)
           count == Read(data, c, 2)
           f == Searches(data, count, utf8, n)
<1>1. /\ n \in Nat /\ DOMAIN attributes = 1..n
      /\ \A i \in 1..n : attributes[i] \in {"source", "other"}
    OBVIOUS
<1>2. /\ ss \in Seq(Seq(Nat)) /\ Len(ss) = n
      /\ \A i \in 1..n : ss[i] = AttributeBytes(first, attributes[i])
    <2>1. ASSUME NEW i \in 1..n PROVE AttributeBytes(first, attributes[i]) \in Seq(Nat)
        BY <1>1, AttributeType DEF Run
    <2> HIDE DEF n
    <2>2. QED
        BY <1>1, <2>1
<1>3. flat \in Seq(Nat)
    <2> HIDE DEF ss
    <2>1. QED
        BY <1>2, FlattenType
<1>4. Run(b, 2) /\ Run(flat, Len(flat))
    BY <1>1, <1>3, RunBigEndian, RunSeq
<1>5. Holds(data, a, b \o flat)
    BY Zenon
<1> HIDE DEF ss, b, flat
<1>6. Holds(data, a, b) /\ Holds(data, a + 2, flat) /\ a + 2 \in Nat
    BY <1>4, <1>5, RunHolds
<1>7. Stands(count, a + 2) /\ Number(count.got) = n
    <2> HIDE DEF n
    <2>1. Counted(n)
        BY DEF n
    <2>2. QED
        BY <1>6, <2>1, CountThere DEF b
<1>8. FindSourceFile(data, c, utf8) = f[n]
    <2> DEFINE whole(m) == Searches(data, count, utf8, m)[m]
    <2>1. FindSourceFile(data, c, utf8) = whole(Number(count.got))
        BY Zenon DEF FindSourceFile
    <2>2. whole(n) = f[n]
        OBVIOUS
    <2> HIDE DEF whole, count, n, f
    <2>3. QED
        BY <1>7, <2>1, <2>2, Zenon
<1> HIDE DEF count, n
<1>9. f[0] = NewSearch(count) /\ \A i \in 1..n : f[i] = Look(data, utf8, f[i - 1])
    BY <1>1, SearchesLoop
<1> HIDE DEF f
<1>10. PICK o : /\ Offsets(o, ss) /\ o[n] = Len(flat)
                /\ \A k \in 1..n : Holds(data, a + 2 + o[k - 1], ss[k])
    BY <1>2, <1>6, FlattenHolds DEF flat
<1>11. o[0] = 0 /\ \A k \in 1..n : o[k - 1] \in Nat /\ o[k] = o[k - 1] + Len(ss[k])
    BY <1>1, <1>2, <1>10, SMTT(30) DEF Offsets
<1> DEFINE met(i) == \E j \in 1..i : attributes[j] = "source"
           T == {i \in 0..n : IF met(i) THEN Found(f[i]) ELSE Passed(f[i], a + 2 + o[i])}
<1>12. 0 \in T
    <2>1. ~met(0)
        OBVIOUS
    <2>2. Passed(NewSearch(count), a + 2)
        BY <1>7 DEF Passed, NewSearch, Stands
    <2>3. a + 2 + o[0] = a + 2 /\ 0 \in 0..n
        BY <1>1, <1>6, <1>11
    <2> HIDE DEF met
    <2>4. QED
        BY <1>9, <2>1, <2>2, <2>3, Zenon
<1>13. ASSUME NEW i \in 1..n, i - 1 \in T PROVE i \in T
    <2> DEFINE d == f[i - 1]
               e == a + 2 + o[i - 1]
               attribute == attributes[i]
    <2>1. f[i] = Look(data, utf8, d) /\ i \in 0..n
        BY <1>1, <1>9
    <2>2. met(i) <=> met(i - 1) \/ attribute = "source"
        BY <1>1
    <2>3. attribute \in {"source", "other"}
        BY <1>1
    <2>4. e \in Nat
        BY <1>6, <1>11
    <2>5. Holds(data, e, AttributeBytes(first, attribute))
        BY <1>2, <1>10
    <2>6. IF met(i - 1) THEN Found(d) ELSE Passed(d, e)
        BY <1>13
    <2>7. Run(ss[i], IF attribute = "source" THEN 8 ELSE 9)
        BY <1>2, <2>3, AttributeType
    <2>8. attribute = "other" => e + 9 = a + 2 + o[i]
        <3>1. o[i] = o[i - 1] + Len(ss[i]) /\ o[i - 1] \in Nat
            BY <1>11
        <3>2. PICK u \in Nat : o[i - 1] = u
            BY <3>1
        <3>3. attribute = "other" => Len(ss[i]) = 9
            BY <2>7 DEF Run
        <3>4. ASSUME attribute = "other" PROVE o[i] = u + 9
            BY <3>1, <3>2, <3>3, <3>4
        <3>5. e = a + 2 + u
            BY <3>2
        <3> DEFINE v == o[i]
        <3> HIDE DEF attribute, e, v
        <3>6. attribute = "other" => v = u + 9
            BY <3>4 DEF v
        <3>7. attribute = "other" => e + 9 = a + 2 + v
            BY <3>2, <3>5, <3>6
        <3>8. QED
            BY <3>7 DEF v
    <2> HIDE DEF met, d, e, attribute
    <2>9. CASE met(i - 1)
        <3>1. Look(data, utf8, d) = d /\ Found(d)
            BY <2>6, <2>9, LookFound
        <3>2. met(i) /\ Found(f[i])
            BY <2>1, <2>2, <2>9, <3>1, Zenon
        <3>3. QED
            BY <2>1, <3>2
    <2>10. CASE ~met(i - 1) /\ attribute = "source"
        <3>1. Found(Look(data, utf8, d))
            <4>1. Holds(data, e, AttributeBytes(first, "source")) /\ Passed(d, e)
                BY <2>5, <2>6, <2>10, Zenon
            <4>2. QED
                BY <2>4, <4>1, SourceThere
        <3>2. met(i) /\ Found(f[i])
            BY <2>1, <2>2, <2>10, <3>1, Zenon
        <3>3. QED
            BY <2>1, <3>2
    <2>11. CASE ~met(i - 1) /\ attribute = "other"
        <3>1. Passed(Look(data, utf8, d), e + 9)
            <4>1. Holds(data, e, AttributeBytes(first, "other")) /\ Passed(d, e)
                BY <2>5, <2>6, <2>11, Zenon
            <4>2. QED
                BY <2>4, <4>1, OtherThere
        <3>2. Passed(f[i], a + 2 + o[i])
            BY <2>1, <2>8, <2>11, <3>1, Zenon
        <3>3. ~met(i)
            BY <2>2, <2>11
        <3>4. QED
            BY <2>1, <3>2, <3>3
    <2>12. QED
        BY <2>3, <2>9, <2>10, <2>11
<1>14. n \in T
    <2> HIDE DEF T
    <2>1. 0..n \subseteq T
        BY <1>1, <1>12, <1>13, UpTo
    <2>2. n \in 0..n
        BY <1>1
    <2>3. QED
        BY <2>1, <2>2
<1>15. met(n) <=> "source" \in Range(attributes)
    BY <1>1 DEF Range
<1> HIDE DEF met
<1>16. IF met(n) THEN Found(f[n]) ELSE Passed(f[n], a + 2 + o[n])
    BY <1>14
<1>17. /\ Found(f[n]) => f[n].cursor.ok /\ f[n].source = FileName
       /\ Passed(f[n], a + 2 + o[n]) => f[n].cursor.ok /\ f[n].source = NoSource
    BY Zenon DEF Found, Passed, Stands
<1>18. QED
    BY <1>8, <1>15, <1>16, <1>17, Zenon

\* The attributes are a run of bytes.
LEMMA AttributesType ==
    ASSUME NEW first \in Nat, NEW attributes \in Seq({"source", "other"})
    PROVE  BigEndian(2, Len(attributes)) \o
               FlattenSeq([i \in DOMAIN attributes |-> AttributeBytes(first, attributes[i])])
                   \in Seq(Nat)
<1> DEFINE n == Len(attributes)
           ss == [i \in DOMAIN attributes |-> AttributeBytes(first, attributes[i])]
           flat == FlattenSeq(ss)
           b == BigEndian(2, n)
<1>1. /\ n \in Nat /\ DOMAIN attributes = 1..n
      /\ \A i \in 1..n : attributes[i] \in {"source", "other"}
    OBVIOUS
<1>2. ss \in Seq(Seq(Nat))
    <2>1. ASSUME NEW i \in 1..n PROVE AttributeBytes(first, attributes[i]) \in Seq(Nat)
        BY <1>1, AttributeType DEF Run
    <2> HIDE DEF n
    <2>2. QED
        BY <1>1, <2>1
<1> HIDE DEF ss
<1>3. flat \in Seq(Nat) /\ b \in Seq(Nat)
    BY <1>1, <1>2, FlattenType, BigEndianType
<1> HIDE DEF flat, b
<1>4. b \o flat \in Seq(Nat)
    BY <1>3, ConcatProperties, Zenon
<1>5. QED
    BY <1>4, Zenon DEF b, flat, ss


-----------------------------------------------------------------------------
(* Class files are understood.                                             *)
LEMMA RunStart ==
    ASSUME NEW data \in Seq(Nat), NEW x, NEW w, Run(x, w), NEW y, NEW v, Run(y, v),
           Holds(data, 0, x \o y)
    PROVE  Holds(data, 0, x) /\ Holds(data, w, y) /\ w \in Nat /\ v \in Nat
<1>1. Holds(data, 0, x) /\ Holds(data, 0 + w, y)
    BY RunHolds
<1>2. w \in Nat /\ v \in Nat
    BY RunBoth
<1>3. 0 + w = w
    BY <1>2
<1>4. QED
    BY <1>1, <1>2, <1>3, Zenon

\* The class file is its parts, one behind the other.
Parts(f) == <<Magic \o BigEndian(4, 65), PoolBytes(f),
              BigEndian(2, 33) \o BigEndian(2, First(f) + 1) \o BigEndian(2, First(f) + 1),
              BigEndian(2, f.interfaces) \o BigEndian(2 * f.interfaces, 1),
              MembersBytes(First(f) + 4, f.fields), MembersBytes(First(f) + 4, f.methods),
              BigEndian(2, Len(f.attributes)) \o
                  FlattenSeq([i \in DOMAIN f.attributes |->
                                 AttributeBytes(First(f), f.attributes[i])])>>

\* What the program counts fits into the two bytes of a count.
LEMMA ClassFileCounts ==
    ASSUME NEW f \in ClassFiles
    PROVE  /\ f \in ClassFileType /\ First(f) \in Nat /\ Counted(First(f) + 5)
           /\ f.interfaces \in Nat /\ Counted(f.interfaces)
           /\ f.fields \in Seq(Nat) /\ Counted(Len(f.fields))
           /\ f.methods \in Seq(Nat) /\ Counted(Len(f.methods))
           /\ f.attributes \in Seq({"source", "other"}) /\ Counted(Len(f.attributes))
<1>1. f \in ClassFileType
    BY BoundsAssumption
<1>2. /\ f.interfaces \in Nat /\ f.fields \in Seq(Nat) /\ f.methods \in Seq(Nat)
      /\ f.attributes \in Seq({"source", "other"})
    BY <1>1 DEF ClassFileType
<1>3. First(f) \in Nat
    BY <1>1, PoolType
<1> DEFINE a == First(f) + 5
           b == f.interfaces
           c == Len(f.fields)
           d == Len(f.methods)
           e == Len(f.attributes)
<1>4. a \in Nat /\ b \in Nat /\ c \in Nat /\ d \in Nat /\ e \in Nat
    BY <1>2, <1>3
<1>5. \A n \in {a, b, c, d, e} : Shifted(n) < 256
    BY BoundsAssumption, Zenon
<1> HIDE DEF a, b, c, d, e
<1>6. Counted(a) /\ Counted(b) /\ Counted(c) /\ Counted(d) /\ Counted(e)
    BY <1>4, <1>5, Zenon DEF Counted
<1>7. QED
    BY <1>1, <1>2, <1>3, <1>6, Zenon DEF a, b, c, d, e

\* How long each part is.
LEMMA PartsRun ==
    ASSUME NEW f \in ClassFiles
    PROVE  /\ Run(Parts(f)[1], 8)
           /\ Run(Parts(f)[2], Len(PoolBytes(f)))
           /\ Run(Parts(f)[3], 6)
           /\ Run(Parts(f)[4], 2 + 2 * f.interfaces)
           /\ Run(Parts(f)[5], Len(MembersBytes(First(f) + 4, f.fields)))
           /\ Run(Parts(f)[6], Len(MembersBytes(First(f) + 4, f.methods)))
           /\ Run(Parts(f)[7], Len(Parts(f)[7]))
           /\ ClassFileBytes(f) = (((((Parts(f)[1] \o Parts(f)[2]) \o Parts(f)[3]) \o Parts(f)[4])
                  \o Parts(f)[5]) \o Parts(f)[6]) \o Parts(f)[7]
<1> DEFINE first == First(f)
           n == f.interfaces
           fields == f.fields
           methods == f.methods
           attributes == f.attributes
           other == first + 4
<1>1. /\ first \in Nat /\ n \in Nat /\ 2 * n \in Nat /\ first + 1 \in Nat /\ other \in Nat
      /\ f \in ClassFileType /\ fields \in Seq(Nat) /\ methods \in Seq(Nat)
      /\ attributes \in Seq({"source", "other"})
    BY ClassFileCounts
<1>2. /\ Parts(f)[1] = Magic \o BigEndian(4, 65) /\ Parts(f)[2] = PoolBytes(f)
      /\ Parts(f)[3] = (BigEndian(2, 33) \o BigEndian(2, first + 1)) \o BigEndian(2, first + 1)
      /\ Parts(f)[4] = BigEndian(2, n) \o BigEndian(2 * n, 1)
      /\ Parts(f)[5] = MembersBytes(other, fields) /\ Parts(f)[6] = MembersBytes(other, methods)
      /\ Parts(f)[7] = BigEndian(2, Len(attributes)) \o
             FlattenSeq([i \in DOMAIN attributes |-> AttributeBytes(first, attributes[i])])
    BY DEF Parts
<1>3. ClassFileBytes(f) = (((((Parts(f)[1] \o Parts(f)[2]) \o Parts(f)[3]) \o Parts(f)[4])
                  \o Parts(f)[5]) \o Parts(f)[6]) \o Parts(f)[7]
    BY <1>2, Zenon DEF ClassFileBytes, Magic
<1> HIDE DEF first, n, fields, methods, attributes, other
<1>4. Run(Parts(f)[1], 8)
    <2>1. Run(Magic, 4)
        BY DEF Run, Magic
    <2>2. Run(BigEndian(4, 65), 4)
        BY RunBigEndian
    <2>3. Run(Magic \o BigEndian(4, 65), 4 + 4)
        BY <2>1, <2>2, RunBoth
    <2>4. QED
        BY <1>2, <2>3
<1>5. Run(Parts(f)[2], Len(PoolBytes(f)))
    BY <1>1, <1>2, PoolType, RunSeq
<1>6. Run(Parts(f)[3], 6)
    <2> DEFINE x == BigEndian(2, 33)
               y == BigEndian(2, first + 1)
               z == x \o y
    <2>1. Run(x, 2) /\ Run(y, 2)
        BY <1>1, RunBigEndian
    <2> HIDE DEF x, y
    <2>2. Run(z, 2 + 2)
        BY <2>1, RunBoth
    <2> HIDE DEF z
    <2>3. Run(z \o y, 2 + 2 + 2)
        BY <2>1, <2>2, RunBoth
    <2>4. Parts(f)[3] = z \o y
        BY <1>2, Zenon DEF x, y, z
    <2>5. 2 + 2 + 2 = 6
        OBVIOUS
    <2>6. QED
        BY <2>3, <2>4, <2>5, Zenon
<1>7. Run(Parts(f)[4], 2 + 2 * n)
    <2> DEFINE m == 2 * n
               x == BigEndian(2, n)
               y == BigEndian(m, 1)
    <2>1. m \in Nat
        BY <1>1
    <2> HIDE DEF m
    <2>2. Run(x, 2) /\ Run(y, m)
        BY <1>1, <2>1, RunBigEndian
    <2> HIDE DEF x, y
    <2>3. Run(x \o y, 2 + m)
        BY <2>2, RunBoth
    <2>4. Parts(f)[4] = x \o y
        BY <1>2, Zenon DEF x, y, m
    <2>5. QED
        BY <2>3, <2>4, Zenon DEF m
<1>8. Run(Parts(f)[5], Len(MembersBytes(other, fields)))
    BY <1>1, <1>2, MembersType, RunSeq
<1>9. Run(Parts(f)[6], Len(MembersBytes(other, methods)))
    BY <1>1, <1>2, MembersType, RunSeq
<1>10. Run(Parts(f)[7], Len(Parts(f)[7]))
    <2>1. Parts(f)[7] \in Seq(Nat)
        BY <1>1, <1>2, AttributesType, Zenon
    <2>2. QED
        BY <2>1, RunSeq
<1>11. QED
    BY <1>3, <1>4, <1>5, <1>6, <1>7, <1>8, <1>9, <1>10, Zenon DEF first, n, fields, methods, other


\* Where each part is.
LEMMA PartsThere ==
    ASSUME NEW f \in ClassFiles
    PROVE  /\ ClassFileBytes(f) \in Seq(Nat)
           /\ \E e2, e3, e4, e5, e6 \in Nat :
                  /\ e2 = 8 + Len(PoolBytes(f)) /\ e3 = e2 + 6 /\ e4 = e3 + (2 + 2 * f.interfaces)
                  /\ e5 = e4 + Len(MembersBytes(First(f) + 4, f.fields))
                  /\ e6 = e5 + Len(MembersBytes(First(f) + 4, f.methods))
                  /\ Holds(ClassFileBytes(f), 0, Parts(f)[1])
                  /\ Holds(ClassFileBytes(f), 8, Parts(f)[2])
                  /\ Holds(ClassFileBytes(f), e2, Parts(f)[3])
                  /\ Holds(ClassFileBytes(f), e3, Parts(f)[4])
                  /\ Holds(ClassFileBytes(f), e4, Parts(f)[5])
                  /\ Holds(ClassFileBytes(f), e5, Parts(f)[6])
                  /\ Holds(ClassFileBytes(f), e6, Parts(f)[7])
<1> DEFINE p1 == Parts(f)[1]
           p2 == Parts(f)[2]
           p3 == Parts(f)[3]
           p4 == Parts(f)[4]
           p5 == Parts(f)[5]
           p6 == Parts(f)[6]
           p7 == Parts(f)[7]
           w2 == Len(PoolBytes(f))
           w4 == 2 + 2 * f.interfaces
           w5 == Len(MembersBytes(First(f) + 4, f.fields))
           w6 == Len(MembersBytes(First(f) + 4, f.methods))
           w7 == Len(p7)
           q2 == p1 \o p2
           q3 == q2 \o p3
           q4 == q3 \o p4
           q5 == q4 \o p5
           q6 == q5 \o p6
           q7 == q6 \o p7
           e2 == 8 + w2
           e3 == e2 + 6
           e4 == e3 + w4
           e5 == e4 + w5
           e6 == e5 + w6
           data == ClassFileBytes(f)
<1>1. /\ Run(p1, 8) /\ Run(p2, w2) /\ Run(p3, 6) /\ Run(p4, w4) /\ Run(p5, w5) /\ Run(p6, w6)
      /\ Run(p7, w7) /\ data = q7
    BY PartsRun, Zenon
<1> HIDE DEF p1, p2, p3, p4, p5, p6, p7, w2, w4, w5, w6, w7, data
<1>2. Run(q2, e2)
    BY <1>1, RunBoth
<1> HIDE DEF q2, e2
<1>3. Run(q3, e3)
    BY <1>1, <1>2, RunBoth
<1> HIDE DEF q3, e3
<1>4. Run(q4, e4)
    BY <1>1, <1>3, RunBoth
<1> HIDE DEF q4, e4
<1>5. Run(q5, e5)
    BY <1>1, <1>4, RunBoth
<1> HIDE DEF q5, e5
<1>6. Run(q6, e6)
    BY <1>1, <1>5, RunBoth
<1> HIDE DEF q6, e6
<1>7. data \in Seq(Nat)
    <2>1. Run(q7, e6 + w7)
        BY <1>1, <1>6, RunBoth
    <2>2. QED
        BY <1>1, <2>1, Zenon DEF Run
<1>8. Holds(data, 0, q7)
    BY <1>1, <1>7, HoldsAll, Zenon
<1>9. Holds(data, 0, q6) /\ Holds(data, e6, p7) /\ e6 \in Nat
    BY <1>1, <1>6, <1>7, <1>8, RunStart
<1>10. Holds(data, 0, q5) /\ Holds(data, e5, p6) /\ e5 \in Nat
    BY <1>1, <1>5, <1>7, <1>9, RunStart DEF q6
<1>11. Holds(data, 0, q4) /\ Holds(data, e4, p5) /\ e4 \in Nat
    BY <1>1, <1>4, <1>7, <1>10, RunStart DEF q5
<1>12. Holds(data, 0, q3) /\ Holds(data, e3, p4) /\ e3 \in Nat
    BY <1>1, <1>3, <1>7, <1>11, RunStart DEF q4
<1>13. Holds(data, 0, q2) /\ Holds(data, e2, p3) /\ e2 \in Nat
    <2> DEFINE v == 6
    <2>1. Run(p3, v) /\ Holds(data, 0, q2 \o p3)
        BY <1>1, <1>12, Zenon DEF q3
    <2> HIDE DEF v
    <2>2. QED
        BY <1>2, <1>7, <2>1, RunStart
<1>14. Holds(data, 0, p1) /\ Holds(data, 8, p2)
    BY <1>1, <1>7, <1>13, RunStart DEF q2
<1>15. e2 = 8 + w2 /\ e3 = e2 + 6 /\ e4 = e3 + w4 /\ e5 = e4 + w5 /\ e6 = e5 + w6
    BY Zenon DEF e2, e3, e4, e5, e6
<1> HIDE DEF q7
<1>16. QED
    BY <1>7, <1>9, <1>10, <1>11, <1>12, <1>13, <1>14, <1>15, Zenon
       DEF p1, p2, p3, p4, p5, p6, p7, w2, w4, w5, w6, data

\* The class is named where the program looks for it.
LEMMA ThisClassThere ==
    ASSUME NEW data \in Seq(Nat), NEW a \in Nat, NEW first \in Nat, Counted(first + 5),
           Holds(data, a, (BigEndian(2, 33) \o BigEndian(2, first + 1)) \o BigEndian(2, first + 1)),
           NEW c, Stands(c, a)
    PROVE  /\ Stands(Read(data, Skip(c, 2), 2), a + 4)
           /\ Number(Read(data, Skip(c, 2), 2).got) = first + 1
<1> DEFINE i == first + 1
           n == first + 5
           x == BigEndian(2, 33)
           y == BigEndian(2, i)
           z == x \o y
           e == a + 2
           s == Skip(c, 2)
<1>1. i \in Nat /\ i <= n /\ e \in Nat /\ e + 2 = a + 4
    OBVIOUS
<1>2. Stands(s, e)
    BY SkipThere
<1>3. Counted(n) /\ Holds(data, a, z \o y)
    OBVIOUS
<1> HIDE DEF i, n, e, s
<1>4. Counted(i)
    BY <1>1, <1>3, CountedLess
<1>5. Run(x, 2) /\ Run(y, 2)
    BY <1>1, RunBigEndian
<1> HIDE DEF x, y
<1>6. Run(z, 2 + 2)
    BY <1>5, RunBoth
<1> HIDE DEF z
<1>7. Holds(data, a, z)
    BY <1>3, <1>5, <1>6, RunHolds
<1>8. Holds(data, e, y)
    BY <1>5, <1>7, RunHolds DEF z, e
<1>9. Stands(Read(data, s, 2), e + 2) /\ Number(Read(data, s, 2).got) = i
    BY <1>1, <1>2, <1>4, <1>8, CountThere DEF y
<1>10. QED
    BY <1>1, <1>9, Zenon DEF i, s

\* The interfaces are passed over.
LEMMA InterfacesThere ==
    ASSUME NEW data \in Seq(Nat), NEW a \in Nat, NEW n \in Nat, Counted(n),
           Holds(data, a, BigEndian(2, n) \o BigEndian(2 * n, 1)), NEW c, Stands(c, a)
    PROVE  Stands(Skip(Read(data, c, 2), 2 * Number(Read(data, c, 2).got)), a + (2 + 2 * n))
<1> DEFINE m == 2 * n
           x == BigEndian(2, n)
           y == BigEndian(m, 1)
           r == Read(data, c, 2)
<1>1. m \in Nat
    OBVIOUS
<1>2. Holds(data, a, x \o y)
    OBVIOUS
<1> HIDE DEF m
<1>3. Run(x, 2) /\ Run(y, m)
    BY <1>1, RunBigEndian
<1> HIDE DEF x, y
<1>4. Holds(data, a, x)
    BY <1>2, <1>3, RunHolds
<1>5. Stands(r, a + 2) /\ Number(r.got) = n
    BY <1>4, CountThere DEF x
<1> HIDE DEF r
<1>6. Stands(Skip(r, m), a + 2 + m)
    BY <1>5, SkipThere
<1>7. a + 2 + m = a + (2 + m)
    BY <1>1
<1>8. QED
    BY <1>5, <1>6, <1>7, Zenon DEF m, r

\* A class file that is all there is decoded to what its writer meant.
LEMMA ClassFileUnderstood ==
    ASSUME NEW f \in ClassFiles
    PROVE  /\ ClassFileBytes(f) \in Seq(Nat)
           /\ ParseClassInfo(ClassFileBytes(f)) = [ok |-> TRUE, value |-> ClassFileMeaning(f)]
<1> DEFINE data == ClassFileBytes(f)
           first == First(f)
           n == f.interfaces
           other == first + 4
           fs == f.fields
           ms == f.methods
           as == f.attributes
           magic == Read(data, Start, 4)
           pool == ReadPool(data, Skip(magic, 4))
           this == Read(data, Skip(pool.cursor, 2), 2)
           interfaces == Read(data, Skip(this, 2), 2)
           fields == SkipMembers(data, Skip(interfaces, 2 * Number(interfaces.got)))
           methods == SkipMembers(data, fields)
           found == FindSourceFile(data, methods, pool.utf8)
           table == BigEndian(2, Len(as)) \o
                        FlattenSeq([i \in DOMAIN as |-> AttributeBytes(first, as[i])])
<1>1. /\ f \in ClassFileType /\ first \in Nat /\ other \in Nat /\ Counted(first + 5)
      /\ Counted(other) /\ n \in Nat /\ Counted(n) /\ fs \in Seq(Nat) /\ Counted(Len(fs))
      /\ ms \in Seq(Nat) /\ Counted(Len(ms))
      /\ as \in Seq({"source", "other"}) /\ Counted(Len(as))
    <2>1. /\ f \in ClassFileType /\ first \in Nat /\ Counted(first + 5)
          /\ n \in Nat /\ Counted(n) /\ fs \in Seq(Nat) /\ Counted(Len(fs))
          /\ ms \in Seq(Nat) /\ Counted(Len(ms))
          /\ as \in Seq({"source", "other"}) /\ Counted(Len(as))
        BY ClassFileCounts
    <2>2. other \in Nat /\ other <= first + 5
        BY <2>1
    <2> DEFINE m == first + 5
    <2>3. Counted(m) /\ other <= m
        BY <2>1, <2>2
    <2> HIDE DEF m, other
    <2>4. Counted(other)
        BY <2>2, <2>3, CountedLess
    <2>5. QED
        BY <2>1, <2>2, <2>4
<1>2. data \in Seq(Nat)
    BY PartsThere
<1>3. PICK e2, e3, e4, e5, e6 \in Nat :
          /\ e2 = 8 + Len(PoolBytes(f)) /\ e3 = e2 + 6 /\ e4 = e3 + (2 + 2 * n)
          /\ e5 = e4 + Len(MembersBytes(other, fs)) /\ e6 = e5 + Len(MembersBytes(other, ms))
          /\ Holds(data, 0, Parts(f)[1]) /\ Holds(data, 8, Parts(f)[2])
          /\ Holds(data, e2, Parts(f)[3]) /\ Holds(data, e3, Parts(f)[4])
          /\ Holds(data, e4, Parts(f)[5]) /\ Holds(data, e5, Parts(f)[6])
          /\ Holds(data, e6, Parts(f)[7])
    BY PartsThere, Zenon
<1>4. /\ Parts(f)[1] = Magic \o BigEndian(4, 65) /\ Parts(f)[2] = PoolBytes(f)
      /\ Parts(f)[3] = (BigEndian(2, 33) \o BigEndian(2, first + 1)) \o BigEndian(2, first + 1)
      /\ Parts(f)[4] = BigEndian(2, n) \o BigEndian(2 * n, 1)
      /\ Parts(f)[5] = MembersBytes(other, fs) /\ Parts(f)[6] = MembersBytes(other, ms)
      /\ Parts(f)[7] = table
    BY DEF Parts
<1> HIDE DEF data, first, n, other, fs, ms, as, table
<1>5. Stands(magic, 4) /\ magic.got = Magic
    <2> DEFINE v == BigEndian(4, 65)
    <2>1. Run(Magic, 4)
        BY DEF Run, Magic
    <2>2. Run(v, 4)
        BY RunBigEndian
    <2>3. Holds(data, 0, Magic \o v)
        BY <1>3, <1>4, Zenon
    <2> HIDE DEF v
    <2>4. Holds(data, 0, Magic)
        BY <1>2, <2>1, <2>2, <2>3, RunStart
    <2>5. Stands(Start, 0)
        BY DEF Stands, Start
    <2>6. Gives(Read(data, Start, 4), 0 + 4, Magic)
        BY <1>2, <2>1, <2>4, <2>5, RunRead
    <2>7. QED
        BY <2>6 DEF Gives
<1> HIDE DEF magic
<1>6. Stands(Skip(magic, 4), 8)
    <2>1. Stands(Skip(magic, 4), 4 + 4)
        BY <1>5, SkipThere
    <2>2. QED
        BY <2>1
<1>7. PICK utf8, class : Filled(pool, first + 5, e2, utf8, class) /\ Names(utf8, class, first)
    <2> DEFINE c == Skip(magic, 4)
               w == 8
    <2>1. Holds(data, w, PoolBytes(f)) /\ Stands(c, w) /\ w \in Nat /\ Counted(First(f) + 5)
        BY <1>1, <1>3, <1>4, <1>6 DEF first
    <2> HIDE DEF c, w
    <2>2. \E utf8, class : /\ Filled(ReadPool(data, c), First(f) + 5, w + Len(PoolBytes(f)), utf8, class)
                           /\ Names(utf8, class, First(f))
        BY <1>1, <1>2, <2>1, PoolThere
    <2>3. QED
        BY <1>3, <2>2, Zenon DEF c, w, first
<1> HIDE DEF pool
<1>8. /\ Stands(pool.cursor, e2) /\ pool.utf8 = utf8 /\ pool.class = class
      /\ first \in DOMAIN utf8 /\ utf8[first] = ClassName
      /\ first + 1 \in DOMAIN class /\ class[first + 1] = first
    BY <1>7 DEF Filled, Names
<1>9. Stands(this, e2 + 4) /\ Number(this.got) = first + 1
    <2> DEFINE c == pool.cursor
    <2>1. /\ Holds(data, e2, (BigEndian(2, 33) \o BigEndian(2, first + 1)) \o BigEndian(2, first + 1))
          /\ Stands(c, e2)
        BY <1>3, <1>4, <1>8, Zenon
    <2> HIDE DEF c
    <2>2. /\ Stands(Read(data, Skip(c, 2), 2), e2 + 4)
          /\ Number(Read(data, Skip(c, 2), 2).got) = first + 1
        BY <1>1, <1>2, <2>1, ThisClassThere
    <2>3. QED
        BY <2>2 DEF c
<1> HIDE DEF this
<1>10. Stands(Skip(interfaces, 2 * Number(interfaces.got)), e4)
    <2> DEFINE c == Skip(this, 2)
    <2>1. Stands(c, e2 + 4 + 2)
        BY <1>9, SkipThere
    <2>2. e2 + 4 + 2 = e3
        BY <1>3
    <2>3. Stands(c, e3) /\ Holds(data, e3, BigEndian(2, n) \o BigEndian(2 * n, 1))
        BY <1>3, <1>4, <2>1, <2>2, Zenon
    <2> HIDE DEF c
    <2>4. Stands(Skip(Read(data, c, 2), 2 * Number(Read(data, c, 2).got)), e3 + (2 + 2 * n))
        BY <1>1, <1>2, <2>3, InterfacesThere
    <2>5. QED
        BY <1>3, <2>4, Zenon DEF c
<1>11. Stands(fields, e5)
    <2> DEFINE c == Skip(interfaces, 2 * Number(interfaces.got))
    <2>1. Stands(c, e4) /\ Holds(data, e4, MembersBytes(other, fs))
        BY <1>3, <1>4, <1>10, Zenon
    <2> HIDE DEF c, interfaces
    <2>2. Stands(SkipMembers(data, c), e4 + Len(MembersBytes(other, fs)))
        BY <1>1, <1>2, <2>1, MembersThere
    <2>3. QED
        BY <1>3, <2>2, Zenon DEF c
<1> HIDE DEF interfaces, fields
<1>12. Stands(methods, e6)
    <2>1. Holds(data, e5, MembersBytes(other, ms))
        BY <1>3, <1>4, Zenon
    <2>2. Stands(SkipMembers(data, fields), e5 + Len(MembersBytes(other, ms)))
        BY <1>1, <1>2, <1>11, <2>1, MembersThere
    <2>3. QED
        BY <1>3, <2>2, Zenon
<1> HIDE DEF methods
<1>13. /\ found.cursor.ok
       /\ found.source = IF "source" \in Range(as) THEN FileName ELSE NoSource
    <2>1. Holds(data, e6, table) /\ Counted(first + 4)
        BY <1>1, <1>3, <1>4, Zenon DEF other
    <2>2. /\ FindSourceFile(data, methods, utf8).cursor.ok
          /\ FindSourceFile(data, methods, utf8).source =
                 IF "source" \in Range(as) THEN FileName ELSE NoSource
        BY <1>1, <1>2, <1>7, <1>12, <2>1, SearchThere DEF table
    <2>3. QED
        BY <1>8, <2>2, Zenon
<1> HIDE DEF found
<1>14. this.ok
    BY <1>9 DEF Stands
<1>15. /\ Number(this.got) \in DOMAIN pool.class
       /\ pool.class[Number(this.got)] = first /\ first \in DOMAIN pool.utf8
       /\ pool.utf8[first] = ClassName
    BY <1>8, <1>9, Zenon
<1> DEFINE name == pool.utf8[pool.class[Number(this.got)]]
           source == found.source
<1>16. ParseClassInfo(data) = [ok |-> TRUE, value |-> [name |-> name, source |-> source]]
    BY <1>5, <1>13, <1>14, <1>15, Zenon
       DEF ParseClassInfo, magic, pool, this, interfaces, fields, methods, found
<1>17. name = ClassName /\ source = IF "source" \in Range(as) THEN FileName ELSE NoSource
    BY <1>13, <1>15, Zenon
<1> HIDE DEF name, source
<1>18. [name |-> name, source |-> source] = ClassFileMeaning(f)
    BY <1>17, Zenon DEF ClassFileMeaning, as
<1>19. QED
    BY <1>2, <1>16, <1>18, Zenon DEF data


-----------------------------------------------------------------------------
(* What is proved of the specification.                                    *)
\* Of the first bytes of a class file the program makes nothing, or what it
\* makes of the whole.
LEMMA ClassFileRight ==
    ASSUME document \in Documents, document.is = "class", NEW k \in 0..Len(Bytes(document))
    PROVE  Right(Decoded(SubSeq(Bytes(document), 1, k)), k = Len(Bytes(document)))
<1> DEFINE f == document.file
           data == Bytes(document)
           part == SubSeq(data, 1, k)
<1>1. f \in ClassFiles
    BY DEF Documents
<1>2. /\ data = ClassFileBytes(f) /\ Intended(document) = ClassFileMeaning(f) /\ ~IsError
      /\ Decoded(part) = ParseClassInfo(part)
    BY DEF Bytes, Intended, IsError, Decoded
<1> HIDE DEF f, data
<1>3. data \in Seq(Nat) /\ ParseClassInfo(data) = [ok |-> TRUE, value |-> ClassFileMeaning(f)]
    BY <1>1, <1>2, ClassFileUnderstood
<1>4. ParseClassInfo(data).ok /\ ParseClassInfo(data).value = ClassFileMeaning(f)
    BY <1>3
<1>5. k \in 0..Len(data)
    BY DEF data
<1>6. ParseClassInfo(part).ok => ParseClassInfo(part) = ParseClassInfo(data)
    BY <1>3, <1>5, ParseClassInfoAgrees
<1>7. k = Len(data) => part = data
    BY <1>3, WholeOf
<1> HIDE DEF part
<1>8. Right(ParseClassInfo(part), k = Len(data))
    BY <1>2, <1>4, <1>6, <1>7, Zenon DEF Right
<1>9. QED
    BY <1>2, <1>8, Zenon DEF part, data

LEMMA DocumentRight ==
    ASSUME document \in Documents, NEW k \in 0..Len(Bytes(document))
    PROVE  Right(Decoded(SubSeq(Bytes(document), 1, k)), k = Len(Bytes(document)))
    BY ClassFileRight, PacketRight

LEMMA BytesType ==
    ASSUME document \in Documents
    PROVE  Len(Bytes(document)) \in Nat
<1>1. CASE document.is = "class"
    <2>1. document.file \in ClassFiles
        BY <1>1 DEF Documents
    <2>2. Bytes(document) = ClassFileBytes(document.file)
        BY <1>1 DEF Bytes
    <2>3. ClassFileBytes(document.file) \in Seq(Nat)
        BY <2>1, ClassFileUnderstood
    <2>4. QED
        BY <2>2, <2>3
<1>2. CASE document.is # "class"
    BY <1>2, BytesLength
<1>3. QED
    BY <1>1, <1>2

\* What was decoded, if anything was since the last byte was written, is what
\* these bytes decode to.
THEOREM MadeInvariant == Spec => []Made
<1>1. Init => Made
    <2> SUFFICES ASSUME Init PROVE Made
        OBVIOUS
    <2>1. document \in Documents /\ written = 0 /\ outcome = <<>>
        BY DEF Init
    <2>2. Len(Bytes(document)) \in Nat
        BY <2>1, BytesType
    <2>3. QED
        BY <2>1, <2>2 DEF Made
<1>2. Made /\ [Next]_vars => Made'
    <2> SUFFICES ASSUME Made, [Next]_vars PROVE Made'
        OBVIOUS
    <2>1. document \in Documents /\ written \in 0..Len(Bytes(document))
        BY DEF Made
    <2>2. Len(Bytes(document)) \in Nat
        BY <2>1, BytesType
    <2>3. CASE Write
        <3> DEFINE n == Len(Bytes(document))
        <3>1. written < n /\ written' = written + 1 /\ outcome' = <<>> /\ document' = document
            BY <2>3 DEF Write
        <3>2. Bytes(document)' = Bytes(document)
            BY <3>1 DEF Bytes
        <3>3. n' = n
            BY <3>2
        <3>4. written' \in 0..n
            BY <2>1, <2>2, <3>1
        <3> HIDE DEF n
        <3>5. document' \in Documents /\ written' \in 0..n'
            BY <2>1, <3>1, <3>3, <3>4
        <3>6. QED
            BY <3>1, <3>5, Zenon DEF Made, n
    <2>4. CASE Decode
        <3> DEFINE data == SubSeq(Bytes(document), 1, written)
        <3>1. outcome' = <<Decoded(data)>> /\ document' = document /\ written' = written
            BY <2>4, Zenon DEF Decode, Decoded
        <3>2. Bytes(document)' = Bytes(document) /\ Decoded(data)' = Decoded(data)
            BY <3>1 DEF Bytes, Decoded, DecodePacket
        <3> HIDE DEF data
        <3>3. QED
            BY <2>1, <3>1, <3>2, Zenon DEF Made, data
    <2>5. CASE UNCHANGED vars
        BY <2>5 DEF Made, vars, Bytes, Decoded, DecodePacket
    <2>6. QED
        BY <2>3, <2>4, <2>5 DEF Next
<1>3. QED
    BY <1>1, <1>2, PTL DEF Spec

\* What was made of the bytes is what their writer meant.
LEMMA MadeAsMeant ==
    ASSUME Made
    PROVE  DecodesWhatWasMeant
<1> DEFINE n == Len(Bytes(document))
           result == Decoded(SubSeq(Bytes(document), 1, written))
<1>1. document \in Documents /\ written \in 0..n /\ outcome \in {<<>>, <<result>>}
    BY DEF Made
<1>2. Right(result, written = n)
    BY <1>1, DocumentRight
<1> HIDE DEF result, n
<1>3. ASSUME NEW i \in DOMAIN outcome PROVE outcome[i] = result
    BY <1>1
<1>4. QED
    BY <1>2, <1>3, Zenon DEF DecodesWhatWasMeant, Right, n

\* Every reply, composite event and request, of every length the bounds allow
\* and however much of it has arrived, is decoded to what its writer meant, or
\* to nothing (jdwp.rs, the commands and parse_composite_event).
THEOREM PacketsUnderstood == Spec => []PacketsAreUnderstood
<1>1. Made => PacketsAreUnderstood
    BY MadeAsMeant DEF PacketsAreUnderstood
<1>2. QED
    BY <1>1, MadeInvariant, PTL

\* A class file of any of these shapes, whole or in part, gives its own name and
\* its own file name, or nothing (source_map.rs, parse_class_info).
THEOREM ClassFilesUnderstood == Spec => []ClassFilesAreUnderstood
<1>1. Made => ClassFilesAreUnderstood
    BY MadeAsMeant DEF ClassFilesAreUnderstood
<1>2. QED
    BY <1>1, MadeInvariant, PTL

=============================================================================
