---------------------------- MODULE MCMockHandler ----------------------------
EXTENDS MockHandler, TLC

\* "/a/b", "/a/{x}", "/{x}/b", "/{x}/{x}/b", as sort.Strings orders them.
Under(segments) == <<Literal("")>> \o segments
MCPatterns ==
  << Under(<<Literal("a"), Literal("b")>>), Under(<<Literal("a"), Param("x")>>),
     Under(<<Param("x"), Literal("b")>>), Under(<<Param("x"), Param("x"), Literal("b")>>) >>

Key(k) == Part(k, NoIndex)
Request(path, header, json, xml) ==
  [path |-> path, header |-> header, query |-> header, json |-> json, xml |-> xml]

MCCalls ==
  { Request(<<"", "a", "b">>, "h" :> <<"7">>,
            Object("l" :> Slice(<<Number(4), Str(<<"x">>)>>) @@ "o" :> Object("n" :> Null)), <<>>),
    Request(<<"", "a", "c", "", "">>, NoFields, Null,
            << Start("r", "t" :> <<"7">>), Start("i", NoFields), CharData(<<" ", "x">>), End,
               Start("i", NoFields), CharData(<<"y">>), End, End >>),
    Request(<<"", "a", "", "b">>, NoFields, Null, <<>>),
    Request(<<"", "c", "d", "b">>, "h" :> <<"x">>, Str(<<"x">>), << CharData(<<"x">>) >>) }

Check(source, at, condition, value) == If(source, at, condition, value, "v", Ref("x"))

MCSteps ==
  { Check("Header", "h", "Contains", Str(<<"7">>)), Check("Variable", "v", "GreaterThan", Number(3)),
    Check("Path", "", "StartsWith", Str(<<"/", "a", "/">>)),
    Check("JsonArrayLength", <<Key("l")>>, "Equal", Number(2)),
    Check("JsonObjectLength", <<Key("o")>>, "NotEqual", Number(1)),
    IfSetCase("Query", "h", "In", Str(<<"7", ",", " ", "x">>), "A"),
    IfSetCase("PathParam", "x", "Matches", Str(<<"^", "b">>), "B"),
    IfSetCase("Variable", "v", "NotEmpty", Null, "A"),
    IfSetCase("Header", "h", "Equal", Ref("v"), "B"),
    IfSetCase("XmlBody", <<Key("r"), Part("i", 1)>>, "Equal", Str(<<"y">>), "A"),
    IfRequestJsonTypeSetCase(<<Key("o"), Key("n")>>, "null", "B"),
    Extract("JsonBody", <<Part("l", 0)>>, "v"), Extract("JsonBody", <<Part("l", BadIndex)>>, "v"),
    Extract("XmlBody", <<Part("r", 0), Attr("t")>>, "v"),
    [func |-> "GenerateRandomString", length |-> 1, var |-> "v"],
    [func |-> "GenerateRandomString", length |-> -1, var |-> "v"],
    [func |-> "GenerateRandomString", length |-> 3, var |-> "v"],
    [func |-> "GenerateRandomInt", min |-> 2, max |-> 3, var |-> "v"],
    [func |-> "GenerateRandomInt", min |-> 3, max |-> 2, var |-> "v"],
    [func |-> "GenerateRandomInt", min |-> 0, max |-> 2046, var |-> "v"],
    [func |-> "GenerateRandomIntFixLength", length |-> 0, var |-> "v"],
    [func |-> "GenerateRandomIntFixLength", length |-> 2, var |-> "v"],
    [func |-> "GenerateRandomIntFixLength", length |-> 4, var |-> "v"],
    [func |-> "GenerateRandomIntFixLength", length |-> 5, var |-> "v"],
    [func |-> "GenerateRandomDecimal", min |-> 2, max |-> 1, var |-> "v"],
    [func |-> "HashedString", algorithm |-> "MD5", from |-> "v", var |-> "v"],
    [func |-> "ConvertToString", var |-> "v"], [func |-> "ConvertToInt", var |-> "v"],
    [func |-> "DynamicVarSubstring", from |-> "v", start |-> -1, end |-> 1, var |-> "v"],
    [func |-> "DynamicVarSubstring", from |-> "v", start |-> 2, end |-> 9, var |-> "v"],
    [func |-> "DynamicVarJoin", parts |-> <<Ref("v"), Str(<<"x">>)>>, separator |-> <<",">>,
     var |-> "v"],
    [func |-> "Delete", var |-> "x"],
    [func |-> "SetBody", case |-> "", body |-> Ref("v")],
    [func |-> "SetBody", case |-> "A", body |-> Str(<<"x">>)],
    [func |-> "SetStatusCode", case |-> "", code |-> 404],
    [func |-> "SetStatusCode", case |-> "B", code |-> 0],
    [func |-> "SetWait", case |-> "B", ms |-> 800],
    [func |-> "SetRandomWait", case |-> "", min |-> 1, max |-> 3],
    [func |-> "SetRandomWait", case |-> "", min |-> -2, max |-> 2047],
    [func |-> "SetMethod", case |-> ""],
    [func |-> "SetHeader", case |-> "A", key |-> "k", value |-> Ref("v")],
    [func |-> "SetHeader", case |-> "", key |-> "h", value |-> Str(<<"y">>)],
    [func |-> "CopyHeaderFromRequest", case |-> "", key |-> "h"] }
=============================================================================
