------------------------------ MODULE MCStores ------------------------------
(* What agents share beyond a run: the durable memory of a workspace, in use  *)
(* by a parent, its children and another process, the stored session, the     *)
(* documents in files and rows, and what is read in a model's replies.  They  *)
(* have no state in common, so a behaviour moves one of them only.            *)
EXTENDS Delegation, SessionStore, ActionParser

CONSTANTS A, B, w1

Line(t, n, r) == [topic |-> t, note |-> n, rejected |-> r]
Note(subject, words) == [about |-> subject, says |-> words]

\* A promotion to one topic; one to two topics, on the same subject in the first
\* and on none in the second, with a line that is rejected.
MCAnswers ==
    {<<Line(1, Note(A, "old"), FALSE)>>,
     <<Line(2, Note(NoSubject, "new"), FALSE), Line(1, Note(A, "new"), FALSE),
       Line(1, Note(B, "new"), TRUE)>>}

\* The first writer can overtake the four attempts of another.
MCMaxSaves == [w \in Writers |-> IF w = w1 THEN 5 ELSE 2]

-----------------------------------------------------------------------------
(* Documents: the bytes of a string are what matters *)

High == <<237, 160, 128>>   \* the encodings of two surrogates
Low == <<237, 176, 128>>
Texts == {Utf8(c) : c \in {65, Quote, Backslash, Newline, 1, 233, 8364, 128512}} \cup
         {<<>>, <<Backslash, Quote, Comma>>, High, Low, High \o Low, High \o High, Low \o High,
          <<195>>, <<195, 65>>, <<128>>, <<192, 128>>, <<240, 141, 160, 128>>, <<247, 191, 191, 191>>, <<255>>}
Leaves == {Null, Bool(FALSE), Number(-12), Double(3), Double(4),
           String(<<>>), String(<<Backslash, Quote, Comma>>)}
Members(keys, v) == Object([i \in DOMAIN keys |-> <<keys[i], v>>])
MCValues ==
    {Array(<<String(s)>>) : s \in Texts} \cup {Members(<<s>>, Null) : s \in Texts} \cup
    {Array(<<>>), Members(<<>>, Null),
     Members(<<High, Low>>, Null), Members(<<<<128>>, <<195>>>>, Null)} \cup
    {Object(<<<<<<65>>, a>>, <<<<66>>, Array(<<b, Members(<<<<65>>>>, a)>>)>>>>) :
        a, b \in Leaves}

Layout(pretty, spaced, ascii) == [pretty |-> pretty, spaced |-> spaced, ascii |-> ascii]
\* Rows, events of a trace, session files, and the compatible form.
MCLayouts == {Layout(FALSE, FALSE, FALSE), Layout(FALSE, FALSE, TRUE),
              Layout(TRUE, FALSE, TRUE), Layout(FALSE, TRUE, TRUE)}

-----------------------------------------------------------------------------
(* Replies: the forms of the prompt, with texts that quote them, and the cases of *)
(* the unit test of the parser                                                    *)

WithName(name, members) == <<<<NameKey, String(name)>>>> \o members
Path == <<Key(7), String(<<80>>)>>
MCAttributes == <<WithName(WriteFile, <<Path>>), WithName(Delegate, <<>>), <<Path>>, WithName(PatchFile, <<Path>>)>>

Said == {<<65>>, <<65, Newline>>, <<Quote, Backslash>>, <<FinalTag, 65, EndFinal>>, <<65, EndTool>>,
         <<OpenKey(7), 65, CloseKey(7)>>, <<ToolTag, 65, EndTool>>}
MCReplies ==
    {AsJson(WriteFile, <<>>)} \cup {AsJson(WriteFile, <<<<Key(1), String(s)>>, Path>>) : s \in Said} \cup
    {AsTags(1, <<<<1, s>>>>) : s \in Said} \cup {AsTags(4, <<<<2, s>>, <<3, u>>>>) : s, u \in Said} \cup
    {AsFinal(s) : s \in Said \ {<<65, Newline>>}} \cup
    {Reply("body", ToolCall(WriteFile, <<<<Key(1), String(<<65>>)>>, Path>>),
           Tagged(ToolWith(1), Bytes(<<Newline, 65, Newline>>), EndTool)),
     Reply("body", ToolCall(Delegate, <<<<Key(5), String(<<65>>)>>>>),
           Tagged(ToolWith(2), Bytes(<<Space, 65>>), EndTool)),
     Reply("body", RetryRequest, Tagged(ToolWith(3), Bytes(<<65>>), EndTool)),
     Reply("plain", FinalAnswer(<<65, 66>>), Bytes(<<65, 66>>)),
     Reply("both", AsJson(WriteFile, <<>>).meant, AsJson(WriteFile, <<>>).text \o AsFinal(<<65>>).text),
     Reply("empty", RetryRequest, Tagged(FinalTag, Bytes(<<Space>>), EndFinal)),
     Reply("empty", RetryRequest, <<>>)} \cup
    {Reply("payload", p[1], Tagged(ToolTag, Dump(p[2], Plain, 0), EndTool)) :
        p \in {<<RetryRequest, Array(<<>>)>>,
               <<RetryRequest, Object(<<<<ArgsKey, Object(<<>>)>>>>)>>,
               <<RetryRequest, Object(WithName(WriteFile, <<<<ArgsKey, Array(<<>>)>>>>))>>,
               <<ToolCall(WriteFile, <<>>), Object(WithName(WriteFile, <<<<ArgsKey, Null>>>>))>>}}

-----------------------------------------------------------------------------
VARIABLE scene

OneDocument == value = Array(<<>>) /\ layout = Layout(FALSE, FALSE, FALSE)
OneReply == reply.form = "plain"
MCInit == /\ JsonInit /\ ParserInit /\ (OneDocument \/ OneReply) /\ Init /\ SessionInit
          /\ \/ scene = "memory" /\ backend = "file" /\ OneDocument /\ OneReply
             \/ scene = "session" /\ workers = 1 /\ factory /\ OneDocument /\ OneReply
             \/ /\ workers = 1 /\ factory /\ backend = "file"
                /\ \/ scene = "document" /\ OneReply
                   \/ scene = "reply" /\ OneDocument
MCNext == /\ UNCHANGED scene
          /\ \/ scene = "memory" /\ Next /\ UNCHANGED <<sessionVars, jsonVars, parserVars>>
             \/ scene = "session" /\ SessionNext /\ UNCHANGED <<vars, jsonVars, parserVars>>
             \/ scene = "document" /\ JsonNext /\ UNCHANGED <<vars, sessionVars, parserVars>>
             \/ scene = "reply" /\ ParserNext /\ UNCHANGED <<vars, sessionVars, jsonVars>>
MCSpec == MCInit /\ [][MCNext]_<<vars, sessionVars, jsonVars, parserVars, scene>> /\ Fairness
=============================================================================
