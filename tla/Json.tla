-------------------------------- MODULE Json --------------------------------
(***************************************************************************)
(* parse_json and dump_json (src/src/core/json_codec.cpp), which every     *)
(* document the program stores goes through: sessions, the files of a run, *)
(* and the columns of the database.  A document is written, may be cut off *)
(* or written over a longer one, and is read again.                        *)
(***************************************************************************)
EXTENDS JsonStrings, FiniteSets, SequencesExt

CONSTANTS Values, Layouts   \* what is written, and how

VARIABLES
    value, layout,   \* the arguments of dump_json or dump_compatible_json
    text,            \* what is stored
    torn,            \* is that not all of it, or more
    reading           \* what parse_json makes of it, in the end

jsonVars == <<value, layout, text, torn, reading>>

\* A layout says if it is indented, spaced after colons and commas, and ASCII.
ASSUME JsonAssumption ==
    \A l \in Layouts : l \in [pretty : BOOLEAN, spaced : BOOLEAN, ascii : BOOLEAN]

-----------------------------------------------------------------------------
(* Values and marks *)

\* A double counts halves, so that some have a point in their shortest form.
Bool(b) == [type |-> "bool", bool |-> b]
Number(n) == [type |-> "integer", number |-> n]
Double(h) == [type |-> "double", halves |-> h]
Array(items) == [type |-> "array", items |-> items]
Object(members) == [type |-> "object", members |-> members]

Comma == 44
Colon == 58
Space == 32
Newline == 10
OpenArray == 91
CloseArray == 93
OpenObject == 123
CloseObject == 125

-----------------------------------------------------------------------------
(* Writing *)

\* Bug: a double without a point is written as it is.
ShortestForm(h) == Mark(IF h % 2 = 0 THEN "integer" ELSE "double", IF h % 2 = 0 THEN h \div 2 ELSE h)
\* A double always has a point or an exponent, for it shall be read as a double.
DoubleForm(h) == Mark("double", h)

Break(l, depth) ==
    IF l.pretty THEN <<Byte(Newline)>> \o [i \in 1..(2 * depth) |-> Byte(Space)] ELSE <<>>
\* What a container's elements make of it, one per line if it is pretty.
Enclosed(first, last, elements, l, depth) ==
    <<Byte(first)>> \o
    FlattenSeq([i \in DOMAIN elements |->
        (IF i > 1 THEN <<Byte(Comma)>> ELSE <<>>) \o Break(l, depth + 1) \o elements[i]]) \o
    (IF elements # <<>> THEN Break(l, depth) ELSE <<>>) \o <<Byte(last)>>

\* append_json.
RECURSIVE Dump(_, _, _)
Dump(v, l, depth) ==
    CASE v.type = "null" -> <<Mark("null", 0)>>
      [] v.type = "bool" -> <<Mark(IF v.bool THEN "true" ELSE "false", 0)>>
      [] v.type = "integer" -> <<Mark("integer", v.number)>>
      [] v.type = "double" -> <<DoubleForm(v.halves)>>
      [] v.type = "string" -> Quoted(v.string, l.ascii)
      [] v.type = "array" ->
            Enclosed(OpenArray, CloseArray,
                     [i \in DOMAIN v.items |-> Dump(v.items[i], l, depth + 1)], l, depth)
      [] v.type = "object" ->
            Enclosed(OpenObject, CloseObject,
                     [i \in DOMAIN v.members |->
                         Quoted(v.members[i][1], l.ascii) \o <<Byte(Colon)>> \o
                         (IF l.pretty \/ l.spaced THEN <<Byte(Space)>> ELSE <<>>) \o
                         Dump(v.members[i][2], l, depth + 1)], l, depth)

\* dump_compatible_json: a space after each comma that is not in a string.
SpaceCommas(marks) ==
    FoldLeft(LAMBDA done, m :
                 [text |-> done.text \o <<m>> \o
                      (IF m = Byte(Comma) /\ ~done.quoted THEN <<Byte(Space)>> ELSE <<>>),
                  quoted |-> done.quoted # (m = Byte(Quote))],
             [text |-> <<>>, quoted |-> FALSE], marks).text

Document(v, l) == IF l.spaced THEN SpaceCommas(Dump(v, l, 0)) ELSE Dump(v, l, 0)

-----------------------------------------------------------------------------
(* Reading: each function of Parser returns a value and the next position *)

IsAt(t, i, b) == i <= Len(t) /\ t[i] = Byte(b)

RECURSIVE SkipSpace(_, _)
SkipSpace(t, i) == IF IsAt(t, i, Space) \/ IsAt(t, i, Newline) THEN SkipSpace(t, i + 1) ELSE i

RECURSIVE Precedes(_, _)
Precedes(a, b) == b # <<>> /\ (\/ a = <<>> \/ a[1] < b[1]
                               \/ a[1] = b[1] /\ Precedes(Tail(a), Tail(b)))
\* insert_or_assign on a std::map, whose members are in the order of their keys.
InsertOrAssign(members, key, v) ==
    SelectSeq(members, LAMBDA m : Precedes(m[1], key)) \o <<<<key, v>>>> \o
    SelectSeq(members, LAMBDA m : Precedes(key, m[1]))

RECURSIVE ReadValue(_, _), ReadItems(_, _, _), ReadMembers(_, _, _),
          AfterKey(_, _, _), AfterMember(_, _, _, _)
\* parse_value.
ReadValue(t, i) ==
    IF i > Len(t) THEN NotRead
    ELSE CASE t[i].kind = "null" -> Got(Null, i + 1)
           [] t[i].kind \in {"true", "false"} -> Got(Bool(t[i].kind = "true"), i + 1)
           [] t[i].kind = "integer" -> Got(Number(t[i].code), i + 1)
           [] t[i].kind = "double" -> Got(Double(t[i].code), i + 1)
           [] IsAt(t, i, Quote) -> ReadString(t, i + 1)
           [] IsAt(t, i, OpenArray) ->
                 IF IsAt(t, SkipSpace(t, i + 1), CloseArray)
                 THEN Got(Array(<<>>), SkipSpace(t, i + 1) + 1)
                 ELSE ReadItems(t, i + 1, <<>>)
           [] IsAt(t, i, OpenObject) ->
                 IF IsAt(t, SkipSpace(t, i + 1), CloseObject)
                 THEN Got(Object(<<>>), SkipSpace(t, i + 1) + 1)
                 ELSE ReadMembers(t, i + 1, <<>>)
           [] OTHER -> NotRead

\* parse_array, once an item is expected.
ReadItems(t, i, items) ==
    LET item == ReadValue(t, SkipSpace(t, i))
        after == SkipSpace(t, item.next)
        all == Append(items, item.value)
    IN  IF item = NotRead THEN NotRead
        ELSE IF IsAt(t, after, CloseArray) THEN Got(Array(all), after + 1)
        ELSE IF IsAt(t, after, Comma) THEN ReadItems(t, after + 1, all) ELSE NotRead

\* parse_object, once a key is expected: the key, its value, and what follows.
ReadMembers(t, i, members) ==
    IF IsAt(t, SkipSpace(t, i), Quote)
    THEN AfterKey(t, ReadString(t, SkipSpace(t, i) + 1), members) ELSE NotRead
AfterKey(t, key, members) ==
    LET colon == SkipSpace(t, key.next)
    IN  IF key = NotRead \/ ~IsAt(t, colon, Colon) THEN NotRead
        ELSE AfterMember(t, ReadValue(t, SkipSpace(t, colon + 1)), key.value.string, members)
AfterMember(t, v, key, members) ==
    LET after == SkipSpace(t, v.next)
        all == InsertOrAssign(members, key, v.value)
    IN  IF v = NotRead THEN NotRead
        ELSE IF IsAt(t, after, CloseObject) THEN Got(Object(all), after + 1)
        ELSE IF IsAt(t, after, Comma) THEN ReadMembers(t, after + 1, all) ELSE NotRead

\* Parser::parse: one value, and nothing after it.
Parsed(t) ==
    LET v == ReadValue(t, SkipSpace(t, 1))
    IN  IF v # NotRead /\ SkipSpace(t, v.next) > Len(t) THEN <<v.value>> ELSE <<>>

-----------------------------------------------------------------------------
(* A document is written and read *)

JsonInit == /\ value \in Values /\ layout \in Layouts
            /\ text = Document(value, layout) /\ torn = FALSE
            /\ reading = "none"

\* The write ends early, or overwrites the beginning of a longer document.
CutOff == /\ reading = "none" /\ ~torn /\ torn' = TRUE
          /\ \E n \in 0..(Len(text) - 1) : text' = SubSeq(text, 1, n)
          /\ UNCHANGED <<value, layout, reading>>

Overwrite == /\ reading = "none" /\ ~torn /\ torn' = TRUE
             /\ \E old \in Values :
                   /\ Len(Document(old, layout)) > Len(text)
                   /\ text' = text \o SubSeq(Document(old, layout), Len(text) + 1,
                                             Len(Document(old, layout)))
             /\ UNCHANGED <<value, layout, reading>>

Parse == /\ reading = "none"
         /\ reading' = IF Parsed(text) = <<>> THEN "invalid"
                      ELSE IF Parsed(text) = <<value>> THEN "same" ELSE "other"
         /\ UNCHANGED <<value, layout, text, torn>>

JsonNext == CutOff \/ Overwrite \/ Parse

JsonSpec == JsonInit /\ [][JsonNext]_jsonVars

-----------------------------------------------------------------------------
(* Properties *)

\* All strings of a value, the keys of objects included.
RECURSIVE Strings(_)
Strings(v) ==
    CASE v.type = "string" -> {v.string}
      [] v.type = "array" -> UNION {Strings(v.items[i]) : i \in DOMAIN v.items}
      [] v.type = "object" -> UNION {{v.members[i][1]} \cup Strings(v.members[i][2]) : i \in DOMAIN v.members}
      [] OTHER -> {}

\* A document reads back as the value it was written from, whatever its layout;
\* in ASCII only if its strings are UTF-8, and one that holds the encoding of a
\* surrogate may be refused.  An object or an array that was cut off, or written
\* over a longer one, is always refused.
DocumentsSurvive ==
    LET strange == layout.ascii /\ \E s \in Strings(value) : ~WellFormed(s) IN
    /\ torn => reading \in {"none", "invalid"}
    /\ ~torn => /\ reading \in {"none", "same"} \/ strange
                /\ reading = "invalid" => \E s \in Strings(value) : HoldsSurrogate(s)
=============================================================================
