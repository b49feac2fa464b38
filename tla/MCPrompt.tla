------------------------------ MODULE MCPrompt ------------------------------
(* Small instances of PromptPipeline for TLC: many bodies in one event each, *)
(* a few histories of three events, and two loads full of pictures.          *)
EXTENDS PromptPipeline

Body(type, tokens, elements) ==
    [type |-> type, author |-> "ann", tokens |-> tokens, mentions |-> <<>>,
     attachments |-> <<>>, listed |-> TRUE, elements |-> elements]
Forward(elements) == Body("forward", <<>>, elements)
Quote(elements) == Body("reply", <<>>, elements)

Hi == <<Token("text", "hi")>>
Text == Body("plain", Hi, <<>>)
Empty == Body("plain", <<>>, <<>>)
Junk == Body("junk", <<>>, <<>>)
Image(url) == Token("image", url)

\* One message: marks with and without a listed mention, every attachment.
Singles ==
    {[Text EXCEPT !.tokens = t, !.mentions = m, !.attachments = a] :
        t \in {<<>>, Hi, Unstructured, <<Token("at", "bob"), Hi[1], Token("at", "eve")>>},
        m \in {<<>>, <<"bob">>, <<"eve", "joe">>},
        a \in {<<>>, <<Image("u1"), Token("file", "f")>>, <<Token("other", "x")>>}}
Odd == {[Forward(<<>>) EXCEPT !.listed = FALSE], [Quote(<<>>) EXCEPT !.listed = FALSE]}

Small == {Text, Empty, Junk}
Lists(S) == {<<>>} \cup {<<x>> : x \in S} \cup {<<x, y>> : x, y \in S}
Wrap(S) == {Forward(s) : s \in S} \cup {Quote(s) : s \in S}
                \cup {Body("forward", Hi, s) : s \in S}
One == Wrap(Lists(Small)) \cup Odd
Two == Wrap({<<x>> : x \in One} \cup {<<x, Text>> : x \in One})
Three == Wrap({<<x>> : x \in Two})
Wide == Wrap({<<Text, Text, Text, Text>>, <<Quote(<<Text, Text>>), Text>>,
              <<Junk, Text, Text, Text>>, <<Forward(<<Text>>), Forward(<<Text, Text>>)>>})
TreeBodies == Singles \cup Wrap({<<x>> : x \in Singles}) \cup Odd \cup {Text, Empty}
            \cup One \cup Two \cup Three \cup Wide

At(group, at) == [group |-> group, at |-> at]
Sent(message, at, body) ==
    [message |-> message, body |-> body, older |-> At("g", at), current |-> At("g", at)]
Load(events, release, reparses, requests) ==
    [events |-> events, bot |-> release, reparses |-> reparses,
     filters |-> {0}, requests |-> requests, repeats |-> 0]

TreeLoads == {Load(<<Sent("m1", 1, b)>>, "current", 0, 0) : b \in TreeBodies}

Fwd == Forward(<<Text>>)
Moved == [Sent("m3", 1, Fwd) EXCEPT !.current = At("h", 1)]
Timeless == [Sent("m4", 2, Fwd) EXCEPT !.current = At("g", NoTime)]
HistoryLoads ==
    {Load(<<Sent("m1", 1, Fwd), Sent("m1", 1, Fwd), Sent("m2", 1, Text)>>, "current", 1, 0),
     Load(<<Sent(NoId, 1, Fwd), Sent(NoId, 1, Text), Sent("m2", 2, Text)>>, "older", 0, 0),
     Load(<<Sent("m1", 0, Text), Sent("m2", 1, Text), Sent("m3", 3, Text)>>, "current", 0, 1),
     Load(<<Sent("m1", 2, Fwd), Moved>>, "older", 1, 1),
     Load(<<Sent("m1", 1, Fwd), Timeless>>, "older", 2, 0),
     [Load(<<Sent("m1", 1, Fwd), Sent("m2", 1, Fwd)>>, "older", 1, 0) EXCEPT
        !.filters = {0, 1}],
     [Load(<<Sent("m1", 1, Fwd)>>, "older", 1, 1) EXCEPT !.repeats = 1]}

Line(url) == Token("line", url)
Display(urls) == Body("forward", [i \in DOMAIN urls |-> Line(urls[i])], <<>>)
Quoted(urls) ==
    Body("plain", <<Token("header", "")>> \o [i \in DOMAIN urls |-> Line(urls[i])], <<>>)
PictureLoads ==
    {Load(<<Sent("m1", 1, Display(<<"u1b">>)),
            Sent("m2", 2, Quote(<<Quoted(<<"u1", "u2", "u3">>)>>))>>, "current", 0, 1),
     Load(<<Sent("m1", 1, Display(<<"u1">>)), Sent("m2", 2, Display(<<"u2">>)),
            Sent("m3", 3, Quote(<<Quoted(<<"u3">>)>>))>>, "current", 0, 1),
     Load(<<Sent("m1", 1, Forward(<<[Quoted(<<"u1b", "u1", "u1c", "u2">>)
                                        EXCEPT !.attachments = <<Image("u2")>>]>>)),
            Sent("m2", 2, Quote(<<Quoted(<<"u1", "u3">>)>>))>>, "current", 0, 2)}

MCLoads == TreeLoads \cup HistoryLoads \cup PictureLoads
MCEncoded == EncodedBody
MCContainsForward == ForwardInBody
MCWindows == {<<0, 4, 2>>, <<1, 2, 2>>}
MCKey == [u \in {"u1", "u1b", "u1c", "u2", "u3"} |->
            IF u \in {"u1", "u1b", "u1c"} THEN "k1" ELSE IF u = "u2" THEN "k2" ELSE "k3"]
MCContent == [k \in {"k1", "k2", "k3"} |-> IF k = "k2" THEN "cat" ELSE "dog"]
===============================================================================
