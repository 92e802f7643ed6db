------------------------------ MODULE MCRequest ------------------------------
EXTENDS Request

Key(k) == Part(k, NoIndex)
Header(k, v) == [option |-> "WithHeader", key |-> k, value |-> v]

\* {"n": 129, "l": [4, "x"], "o": {"c": null}}
Doc(n) == Object("n" :> Number(n) @@ "l" :> Slice(<<Number(4), Str(<<"x">>)>>)
                 @@ "o" :> Object("c" :> Null))
Element(attrs, name) ==
  << Start("r", attrs), Start("i", NoHeaders), CharData(<<" ", "x">>), End,
     Start(name, NoHeaders), CharData(<<"y">>), End, End >>

MCOptions ==
  { [option |-> "WithMethod", method |-> ""], [option |-> "WithMethod", method |-> "BAD METHOD"],
    Header(ContentType, "text/plain"),
    Header("content-type", "text/xml"),
    [option |-> "WithHeaders", headers |-> ("X" :> "1" @@ ContentType :> "text/csv")],
    [option |-> "WithHeaders", headers |-> ("content-type" :> "a/b" @@ ContentType :> "a/c")],
    [option |-> "WithJSONBody", body |-> JSON(Doc(1))], [option |-> "WithJSONBody", body |-> Nil],
    [option |-> "WithXMLBody", body |-> Unmarshalable],
    [option |-> "WithXMLBody", body |-> XML(<<Start("r", NoHeaders), End>>)],
    [option |-> "WithBody", body |-> Other], [option |-> "WithIgnoreServerSSL", ignore |-> FALSE] }

MCServers == {[https |-> TRUE, trusted |-> FALSE], [https |-> FALSE, trusted |-> FALSE]}

Response(status, body) == [status |-> status, header |-> "X" :> "1", body |-> body]
MCReplies ==
  { Response(200, JSON(Doc(129))), Response(404, JSON(Slice(<<Doc(5)>>))), Response(500, NoBody),
    Response(200, JSON(Number(129))),
    Response(200, XML(Element("t" :> <<"7">>, "i"))), Response(200, XML(Element("u" :> <<>>, "j"))) }

L == <<Part("l", 0)>>
JsonField(path, e) == [expect |-> "JsonBodyField", path |-> path, e |-> e]
JsonCond(path, condition, e) ==
  [expect |-> "JsonBodyFieldCond", path |-> path, condition |-> condition, e |-> e]

MCExpectations ==
  { [expect |-> "StatusCode", status |-> 200], [expect |-> "Header", key |-> "X", value |-> "1"],
    [expect |-> "JsonBody", e |-> [kind |-> "json", v |-> Doc(128)]],
    [expect |-> "JsonBody", e |-> Number(12)],
    [expect |-> "JsonBody", e |-> Slice(<<Doc(5)>>)], [expect |-> "JsonBody", e |-> Str(<<"x">>)],
    JsonField(<<Key("n")>>, Number(129)), JsonField(<<Key("l")>>, Slice(<<Number(4), Str(<<"x">>)>>)),
    JsonField(<<Part("", 0), Key("n")>>, Float(5)), JsonField(<<Part("l", BadIndex)>>, Null),
    JsonField(<<Key("o"), Key("c")>>, Null), JsonField(<<Key("l")>>, Str(<<"x">>)),
    JsonCond(L, "NotIn", Ints(<<4, 5>>)), JsonCond(L, "In", Str(<<"4", ",", "x">>)),
    JsonCond(<<Part("l", 1)>>, "In", Slice(<<Str(<<"x">>)>>)), JsonCond(L, "Equals", Number(4)),
    [expect |-> "XmlBody", tokens |-> Element("t" :> <<"7">>, "i")],
    [expect |-> "XmlBody", tokens |-> Element("t" :> <<"7">>, "j")],
    [expect |-> "XmlBody", tokens |-> Element("t" :> <<"7">> @@ "u" :> <<"8">>, "i")],
    [expect |-> "XmlBodyField", path |-> <<Key("r"), Part("i", 1)>>, s |-> <<"y">>],
    [expect |-> "XmlBodyField", path |-> <<Part("i", BadIndex)>>, s |-> <<"x">>],
    [expect |-> "XmlBodyFieldCond", path |-> <<Key("r"), Attr("t")>>, condition |-> "Matches",
     s |-> <<"^", "7">>],
    [expect |-> "Condition", actual |-> Str(<<"7">>), condition |-> "GreaterThan", e |-> Number(3)] }
=============================================================================
