---------------------------- MODULE ActionParser ----------------------------
(***************************************************************************)
(* ModelActionParser (src/src/agent/action_parser.cpp): what a model has   *)
(* replied becomes a tool call, a final answer or a request to try again.  *)
(* A reply is written in one of the forms the prompt asks for and may be   *)
(* cut off.  As in Json it is a sequence of marks; a tag is one mark, and  *)
(* so is a word that is a name.                                            *)
(***************************************************************************)
EXTENDS Json

CONSTANTS
    Attributes,   \* the members that the i-th kind of <tool ...> tag has
    Replies       \* [form, meant, text]: what the model wants and writes

VARIABLES
    reply, cut,   \* the reply, and is it cut off
    heard         \* what parse makes of it

parserVars == <<reply, cut, heard>>

\* Names are words, tags are marks.
NameKey == <<300>>
ArgsKey == <<301>>
WriteFile == <<302>>
Delegate == <<303>>
PatchFile == <<304>>
ArgKeys == 1..7          \* content, old_text, new_text, command, task, pattern, path
Key(k) == <<310 + k>>
ToolTag == 400
EndTool == 401
FinalTag == 402
EndFinal == 403
OpenKey(k) == 410 + k
CloseKey(k) == 420 + k
ToolWith(i) == 430 + i   \* <tool ...> with Attributes[i]
ToolTags == {ToolTag} \cup {ToolWith(i) : i \in DOMAIN Attributes}

Action(kind, name, args, said) == [kind |-> kind, name |-> name, args |-> args, text |-> said]
ToolCall(name, args) == Action("tool", name, args, <<>>)
FinalAnswer(said) == Action("final", <<>>, <<>>, said)
RetryRequest == Action("retry", <<>>, <<>>, <<>>)

-----------------------------------------------------------------------------
(* The forms of a reply *)

Bytes(s) == [i \in DOMAIN s |-> Byte(s[i])]
Tagged(open, marks, close) == <<Byte(open)>> \o marks \o <<Byte(close)>>
Plain == [pretty |-> FALSE, spaced |-> FALSE, ascii |-> FALSE]

\* Members in the order of a std::map, later ones first.
InOrder(members) == FoldLeft(LAMBDA all, m : InsertOrAssign(all, m[1], m[2]), <<>>, members)
ValueOf(members, key) == SelectSeq(members, LAMBDA m : m[1] = key)
Others(members, key) == SelectSeq(members, LAMBDA m : m[1] # key)

Reply(form, meant, marks) == [form |-> form, meant |-> meant, text |-> marks]
AsJson(name, args) ==
    Reply("json", ToolCall(name, args),
          Tagged(ToolTag, Dump(Object(<<<<NameKey, String(name)>>, <<ArgsKey, Object(args)>>>>), Plain, 0),
                 EndTool))
\* Some arguments are attributes, others are <<k, text>> between tags of their own.
AsTags(i, inner) ==
    Reply("tags",
          ToolCall(ValueOf(Attributes[i], NameKey)[1][2].string,
                   InOrder(Others(Attributes[i], NameKey) \o
                           [n \in DOMAIN inner |-> <<Key(inner[n][1]), String(inner[n][2])>>])),
          Tagged(ToolWith(i),
                 FlattenSeq([n \in DOMAIN inner |->
                     Tagged(OpenKey(inner[n][1]), Bytes(inner[n][2]), CloseKey(inner[n][1]))]),
                 EndTool))
AsFinal(said) == Reply("final", FinalAnswer(said), Tagged(FinalTag, Bytes(said), EndFinal))

-----------------------------------------------------------------------------
(* parse *)

\* The first of some tags from a mark on, or 0.
Find(t, tags, from) ==
    LET found == {i \in from..Len(t) : \E tag \in tags : t[i] = Byte(tag)} IN
    IF found = {} THEN 0 ELSE Min(found)
ActionPrecedesFinal(t, tags) ==
    LET action == Find(t, tags, 1)
        final == Find(t, {FinalTag}, 1)
    IN  action # 0 /\ (final = 0 \/ action < final)

\* trim, and trim_newlines.
Stripped(t, blanks) ==
    LET kept == {i \in DOMAIN t : t[i] \notin {Byte(b) : b \in blanks}} IN
    IF kept = {} THEN <<>> ELSE SubSeq(t, Min(kept), Max(kept))
Trim(t) == Stripped(t, {Space, Newline})
TrimNewlines(t) == Stripped(t, {Newline})

\* To the closing tag, or to the end if there is none.
ExtractRaw(t, open, close) ==
    LET start == Find(t, {open}, 1)
        end == Find(t, {close}, start + 1)
    IN  SubSeq(t, start + 1, IF end = 0 THEN Len(t) ELSE end - 1)
Codes(t) == [i \in DOMAIN t |-> t[i].code]
StringOr(members) == IF members # <<>> /\ members[1][2].type = "string" THEN members[1][2].string ELSE <<>>
Name(members) == Codes(Trim(Bytes(StringOr(ValueOf(members, NameKey)))))

\* The payload of <tool>.
ParseJsonTool(t) ==
    LET decoded == Parsed(Trim(ExtractRaw(t, ToolTag, EndTool)))
        members == decoded[1].members
        args == ValueOf(members, ArgsKey)
    IN  IF \/ decoded = <<>> \/ decoded[1].type # "object"
           \/ Name(members) = <<>>
           \/ args # <<>> /\ args[1][2].type \notin {"null", "object"}
        THEN RetryRequest
        ELSE ToolCall(Name(members),
                      IF args = <<>> \/ args[1][2] = Null THEN <<>> ELSE args[1][2].members)

\* Bug: arguments lose the blanks around them.
TrimmedArgument(body, k) == Trim(ExtractRaw(body, OpenKey(k), CloseKey(k)))
Argument(body, k) == ExtractRaw(body, OpenKey(k), CloseKey(k))

\* A body without tags is the content of a file, or the task of a child.
AllOfBody(name, body, args) ==
    LET all == Codes(TrimNewlines(body))
        Missing(tool, k) == name = tool /\ ValueOf(args, Key(k)) = <<>> /\ all # <<>>
    IN  IF Missing(WriteFile, 1) THEN <<<<Key(1), String(all)>>>>
        ELSE IF Missing(Delegate, 5) THEN <<<<Key(5), String(Codes(Trim(body)))>>>> ELSE <<>>

ParseXmlTool(t) ==
    LET start == Find(t, ToolTags, 1)
        end == Find(t, {EndTool}, start + 1)
        attrs == IF t[start] = Byte(ToolTag) THEN <<>> ELSE Attributes[t[start].code - ToolWith(0)]
        body == SubSeq(t, start + 1, end - 1)
        given == SetToSortSeq({k \in ArgKeys : Find(body, {OpenKey(k)}, 1) # 0}, <)
        args == InOrder(Others(attrs, NameKey) \o
                        [n \in DOMAIN given |->
                            <<Key(given[n]), String(Codes(Argument(body, given[n])))>>])
    IN  IF end = 0 \/ Name(attrs) = <<>> THEN RetryRequest
        ELSE ToolCall(Name(attrs), InOrder(args \o AllOfBody(Name(attrs), body, args)))

Answered(said) == IF said = <<>> THEN RetryRequest ELSE FinalAnswer(Codes(said))

ParseAction(t) ==
    IF ActionPrecedesFinal(t, {ToolTag}) THEN ParseJsonTool(t)
    ELSE IF ActionPrecedesFinal(t, ToolTags) THEN ParseXmlTool(t)
    ELSE IF Find(t, {FinalTag}, 1) # 0 THEN Answered(Trim(ExtractRaw(t, FinalTag, EndFinal)))
    ELSE Answered(Trim(t))

-----------------------------------------------------------------------------
(* The model replies, and is heard *)

ParserInit == reply \in Replies /\ cut = FALSE /\ heard = Action("none", <<>>, <<>>, <<>>)

\* The model reaches its limit of tokens, or its stream ends.
ReplyIsCut ==
    /\ heard.kind = "none" /\ ~cut /\ cut' = TRUE
    /\ \E n \in 0..(Len(reply.text) - 1) : reply' = [reply EXCEPT !.text = SubSeq(@, 1, n)]
    /\ UNCHANGED heard

Hear == heard.kind = "none" /\ heard' = ParseAction(reply.text) /\ UNCHANGED <<reply, cut>>

ParserNext == ReplyIsCut \/ Hear

ParserSpec == ParserInit /\ [][ParserNext]_parserVars

-----------------------------------------------------------------------------
(* Properties *)

Tags == ToolTags \cup {EndTool, FinalTag, EndFinal}
        \cup {OpenKey(k) : k \in ArgKeys} \cup {CloseKey(k) : k \in ArgKeys}
HasTag(s) == \E i \in DOMAIN s : s[i] \in Tags
IsPlain(meant) == ~HasTag(meant.text) /\ \A s \in Strings(Object(meant.args)) : ~HasTag(s)

\* A reply in one of the forms is heard as it was meant, and one that is cut off
\* makes no tool call but the one that was meant, if it quotes no tag of the
\* protocol.  In the JSON form it may quote them: at worst the model is asked
\* again, and no tool is called that it did not call.
ActionsAreHeard ==
    /\ heard.kind = "tool" /\ (reply.form = "json" \/ IsPlain(reply.meant)) => heard = reply.meant
    /\ heard.kind # "none" /\ ~cut /\ IsPlain(reply.meant) => heard = reply.meant
=============================================================================
