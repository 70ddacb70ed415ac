---------------------------- MODULE JsonStrings ----------------------------
(***************************************************************************)
(* The strings of parse_json and dump_json (src/src/core/json_codec.cpp).  *)
(* A text is a sequence of marks: a byte as it is, an escape, a number or  *)
(* a literal, each of which the code reads or writes in one go; a string   *)
(* is the sequence of its bytes.                                           *)
(***************************************************************************)
EXTENDS Integers, Sequences

Mark(kind, code) == [kind |-> kind, code |-> code]
Byte(b) == Mark("byte", b)
Unicode(u) == Mark("unicode", u)
Quote == 34
Backslash == 92

\* append_utf8.
Tail6(c, n) == 128 + ((c \div n) % 64)
Utf8(c) == IF c <= 127 THEN <<c>>
           ELSE IF c <= 2047 THEN <<192 + (c \div 64), Tail6(c, 1)>>
           ELSE IF c <= 65535 THEN <<224 + (c \div 4096), Tail6(c, 64), Tail6(c, 1)>>
           ELSE <<240 + (c \div 262144), Tail6(c, 4096), Tail6(c, 64), Tail6(c, 1)>>

-----------------------------------------------------------------------------
(* Writing *)

Named == {8, 9, 10, 12, 13, Quote, Backslash}
\* Lead bytes of two, three and four, and the bytes that follow one.
Lead2 == 192..223
Lead3 == 224..239
Lead4 == 240..247
IsTail(b) == b \in 128..191

\* The length a lead byte promises; 1 if it is none or the string ends before.
Promised(s, i) == IF s[i] \in Lead2 /\ i + 1 <= Len(s) THEN 2
                  ELSE IF s[i] \in Lead3 /\ i + 2 <= Len(s) THEN 3
                  ELSE IF s[i] \in Lead4 /\ i + 3 <= Len(s) THEN 4 ELSE 1
Decodes(s, i) == /\ Promised(s, i) > 1
                 /\ \A k \in (i + 1)..(i + Promised(s, i) - 1) : IsTail(s[k])
\* The bits of the lead byte and six of every other.
Low6(b, n) == (b % 64) * n
Decoded(s, i) ==
    IF Promised(s, i) = 2 THEN 64 * (s[i] % 32) + Low6(s[i + 1], 1)
    ELSE IF Promised(s, i) = 3 THEN 4096 * (s[i] % 16) + Low6(s[i + 1], 64) + Low6(s[i + 2], 1)
    ELSE 262144 * (s[i] % 8) + Low6(s[i + 1], 4096) + Low6(s[i + 2], 64) + Low6(s[i + 3], 1)

\* One code point as one escape, or as a surrogate pair.
Escapes(c) == IF c <= 65535 THEN <<Unicode(c)>>
              ELSE <<Unicode(55296 + ((c - 65536) \div 1024)), Unicode(56320 + ((c - 65536) % 1024))>>

\* What is written of a byte that is no part of a code point.
Replacement == 65533

\* One turn of the loop in append_escaped: what it writes, and of how many bytes.
Piece(s, i, ascii) ==
    IF s[i] \in Named THEN <<Mark("short", s[i])>>
    ELSE IF s[i] < 32 THEN <<Unicode(s[i])>>
    ELSE IF ~ascii \/ s[i] < 128 THEN <<Byte(s[i])>>
    ELSE IF ~Decodes(s, i) THEN <<Unicode(Replacement)>> ELSE Escapes(Decoded(s, i))
Taken(s, i, ascii) == IF ascii /\ Decodes(s, i) THEN Promised(s, i) ELSE 1

\* append_escaped, between the quotes.
WriteTurn(s, w, ascii) ==
    IF w.from > Len(s) THEN w
    ELSE [from |-> w.from + Taken(s, w.from, ascii), marks |-> w.marks \o Piece(s, w.from, ascii)]
Escaped(s, ascii) ==
    LET written[n \in 0..Len(s)] ==
            IF n = 0 THEN [from |-> 1, marks |-> <<>>] ELSE WriteTurn(s, written[n - 1], ascii)
    IN  written[Len(s)].marks
Quoted(s, ascii) == <<Byte(Quote)>> \o Escaped(s, ascii) \o <<Byte(Quote)>>

-----------------------------------------------------------------------------
(* Reading *)

Null == [type |-> "null"]
String(s) == [type |-> "string", string |-> s]
NotRead == [value |-> Null, next |-> 0]
Got(v, i) == [value |-> v, next |-> i]

IsHigh(u) == 55296 <= u /\ u <= 56319
IsLow(u) == 56320 <= u /\ u <= 57343
LowFollows(t, i) == i < Len(t) /\ t[i + 1].kind = "unicode" /\ IsLow(t[i + 1].code)
Combined(high, low) == 65536 + 1024 * (high - 55296) + (low - 56320)

\* One turn of the loop in parse_string.
Reading(state, i, s) == [state |-> state, next |-> i, string |-> s]
ReadTurn(t, r) ==
    LET i == r.next
        u == t[i].code
    IN  IF r.state # "inside" THEN r
        ELSE IF i > Len(t) THEN Reading("failed", i, <<>>)
        ELSE IF t[i] = Byte(Quote) THEN Reading("closed", i + 1, r.string)
        ELSE IF t[i].kind = "unicode" THEN
                IF ~IsHigh(u) THEN Reading("inside", i + 1, r.string \o Utf8(u))
                ELSE IF LowFollows(t, i)
                THEN Reading("inside", i + 2, r.string \o Utf8(Combined(u, t[i + 1].code)))
                ELSE Reading("failed", i, <<>>)
        ELSE IF t[i].kind = "byte" /\ u < 32 THEN Reading("failed", i, <<>>)
        ELSE Reading("inside", i + 1, Append(r.string, u))

\* What parse_string returns: the string and the next position, as each function of
\* Parser does.
Outcome(r) == IF r.state = "closed" THEN Got(String(r.string), r.next) ELSE NotRead
\* parse_string from the mark after its opening quote on.
ReadString(t, i) ==
    LET read[n \in 0..Len(t)] ==
            IF n = 0 THEN Reading("inside", i, <<>>) ELSE ReadTurn(t, read[n - 1])
    IN  Outcome(read[Len(t)])

-----------------------------------------------------------------------------
(* Strings that are UTF-8 *)

\* Bytes i to i + n - 1 are one character, by the table of the Unicode standard.
IsCharacter(s, i, n) ==
    /\ i + n - 1 <= Len(s) /\ \A k \in (i + 1)..(i + n - 1) : IsTail(s[k])
    /\ \/ n = 1 /\ s[i] <= 127
       \/ n = 2 /\ s[i] \in 194..223
       \/ n = 3 /\ s[i] \in Lead3 /\ (s[i] = 224 => s[i + 1] >= 160) /\ (s[i] = 237 => s[i + 1] <= 159)
       \/ n = 4 /\ s[i] \in 240..244 /\ (s[i] = 240 => s[i + 1] >= 144) /\ (s[i] = 244 => s[i + 1] <= 143)
\* Characters begin at some positions, each where another ends.
WellFormed(s) == \E starts \in SUBSET DOMAIN s :
    /\ s = <<>> \/ 1 \in starts
    /\ \A i \in starts : \E n \in 1..4 : IsCharacter(s, i, n) /\ i + n \in starts \cup {Len(s) + 1}

\* A string with what decodes to a high surrogate, in three bytes or in four with
\* leading zeros; UTF-8 allows neither.
HoldsSurrogate(s) == \E i \in DOMAIN s : Decodes(s, i) /\ IsHigh(Decoded(s, i))
=============================================================================
