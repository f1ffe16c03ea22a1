----------------------------- MODULE MCDecoding -----------------------------
EXTENDS Decoding

Constants == {<<>>, <<5, 15>>} \cup {<<t>> : t \in (3..12 \cup 15..20) \ {7}}
AttributeLists == {<<>>, <<"source">>, <<"other">>, <<"source", "other">>,
               <<"other", "source">>}

Shapes == [extras : {<<>>}, interfaces : 0..1, fields : {<<>>, <<2>>},
           methods : {<<>>, <<3, 0>>}, attributes : AttributeLists]
            \cup [extras : Constants, interfaces : {1}, fields : {<<2>>},
                  methods : {<<>>}, attributes : {<<"other", "source">>}]

-----------------------------------------------------------------------------
\* UTF-8 by what it encodes, beside IsUtf8, which goes by the bytes: the number
\* of a character is no surrogate, and too large for fewer bytes.
Low(b) == b - 128
Encodes(s) ==
  /\ \A i \in 2..Len(s) : s[i] \in 128..191
  /\ CASE Len(s) = 1 -> s[1] < 128
       [] Len(s) = 2 -> 64 * (s[1] - 192) + Low(s[2]) \in 128..2047
       [] Len(s) = 3 -> 4096 * (s[1] - 224) + 64 * Low(s[2]) + Low(s[3])
                           \in (2048..55295) \cup (57344..65535)
       [] Len(s) = 4 -> 262144 * (s[1] - 240) + 4096 * Low(s[2]) + 64 * Low(s[3]) + Low(s[4])
                           \in 65536..1114111

\* Bytes at the limits of the ranges.
Limits == {65, 128, 143, 144, 159, 160, 191, 192, 194, 224, 237, 240, 244, 245}

Utf8[n \in 0..4] ==
    IF n = 0 THEN {<<>>}
    ELSE UNION {{a \o b : a \in {s \in [1..k -> Limits] : Encodes(s)}, b \in Utf8[n - k]} :
                   k \in 1..n}

ASSUME Utf8Assumption ==
    \A n \in 0..4 : LET valid == Utf8[n]
                    IN  \A s \in [1..n -> Limits] : IsUtf8(s) <=> s \in valid

\* A NUL and a character beyond U+FFFF, as class files have them, and characters
\* that break off.
ASSUME LossyAssumption ==
    LET r == ReplacementCharacter
    IN  /\ Lossy(<<65, 192, 128>>) = <<65>> \o r \o r
        /\ Lossy(<<237, 160, 189, 237, 184, 128>>) = r \o r \o r \o r \o r \o r
        /\ Lossy(<<226, 130, 65>>) = r \o <<65>>
        /\ Lossy(<<240, 159, 152, 195, 169, 128>>) = r \o <<195, 169>> \o r
=============================================================================
