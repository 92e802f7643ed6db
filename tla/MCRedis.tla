------------------------------- MODULE MCRedis -------------------------------
EXTENDS Redis, TLC

Key(k) == Part(k, NoIndex)
A == <<Key("a")>>
L1 == <<Part("l", 1)>>
L0C == <<Part("l", 0), Key("c")>>

\* {"a": "x", "l": [{"c": 1}, 2]}
Doc == Object("a" :> Str(<<"x">>) @@ "l" :> Slice(<<Object("c" :> Number(1)), Number(2)>>))

Name(n) == [name |-> n]
OnKey(n) == [name |-> n, key |-> "k"]
OnField(n) == [name |-> n, key |-> "k", field |-> "f"]
With(op, path, value) == ("path" :> path) @@ ("value" :> value) @@ op

MCKeys == {"k"}
MCFields == {"f", "g"}

MCHelpers ==
  { Name("ConnectRedis"), Name("FlushAll"),
    [name |-> "Set", key |-> "k", value |-> Doc, expiration |-> 1],
    [name |-> "Set", key |-> "k", value |-> Number(100), expiration |-> 0],
    OnKey("Get"), OnKey("Del"), OnKey("ExpectFound"), OnKey("ExpectNotFound"),
    [name |-> "ExpectValue", key |-> "k", value |-> Number(100)],
    With(OnKey("ExpectJsonField"), A, Str(<<"x">>)),
    With(OnKey("SetJsonField"), A, Number(129)), With(OnKey("SetJsonField"), L1, Str(<<"y">>)),
    With(OnKey("SetJsonField"), L1, Slice(<<Number(4), Null>>)),
    With(OnKey("SetJsonField"), <<Part("l", BadIndex)>>, Null),
    With(OnKey("SetJsonField"), <<Key("a"), Key("")>>, Str(<<"z">>)),
    [name |-> "HSet", key |-> "k", field |-> "f", value |-> Doc],
    OnField("HGet"), [name |-> "HIncrement", key |-> "k", field |-> "f", increment |-> 1],
    With(OnField("HExpectJsonField"), L0C, Number(1)),
    With(OnField("HSetJsonField"), A, Null), With(OnField("HSetJsonField"), L0C, Number(3)),
    With(OnField("HSetJsonField"), L1, Slice(<<Number(4), Object("d" :> Number(129))>>)) }

MCAppCommands ==
  { Set("k", Doc, 0), Set("k", PlainText(<<"x">>), -1), Del("k"),
    HSet("k", "f", Doc), HSet("k", "g", Number(1)) }
=============================================================================
