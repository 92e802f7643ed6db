----------------------------- MODULE MCDatabase -----------------------------
EXTENDS QueryResults

MCUpper == [id |-> "ID", name |-> "NAME", age |-> "AGE"]

All == <<"id", "name", "age">>
A == Str(<<"a">>)
B == Str(<<"b">>)

Setup(isReplace, columns, indexes) ==
  [do |-> "SetupTable", isReplace |-> isReplace, columns |-> columns, indexes |-> indexes]
DeleteRows(where, args, limit) ==
  [do |-> "DeleteWithLimit", where |-> where, args |-> args, limit |-> limit]
Change(updates, where, args) ==
  [do |-> "Update", updates |-> updates, where |-> where, args |-> args]
Row(values) == [do |-> "ReplaceData", values |-> values]
NoUpdates == [c \in {} |-> Null]

MCHelpers ==
  { Setup(TRUE, All, << <<"name">>, <<"age", "name">> >>), Setup(FALSE, All, << <<"age">> >>),
    [do |-> "DropTable"], [do |-> "CleanTable"],
    Row(<<Number(1), A, Number(5)>>), Row(<<Number(2), A, Number(129)>>), Row(<<Number(1)>>),
    [do |-> "InsertOne", fields |-> <<"id", "name">>, values |-> <<Number(3), B>>],
    [do |-> "InsertOne", fields |-> <<"id", "">>, values |-> <<Number(3), B>>],
    DeleteRows(<<"name">>, <<A>>, 1), DeleteRows(<<"name", "id">>, <<A, Number(3)>>, 1),
    DeleteRows(<<"age">>, <<Null>>, 0), DeleteRows(<<>>, <<>>, 1), DeleteRows(<<"name">>, <<>>, 0),
    Change("name" :> B @@ "age" :> Number(-129), <<"id">>, <<Number(1)>>),
    Change("name" :> Null, <<"name", "id">>, <<B, Number(2)>>), Change(NoUpdates, <<"id">>, <<B>>),
    [do |-> "Fetch", where |-> <<>>, args |-> <<>>],
    [do |-> "Fetch", where |-> <<"name">>, args |-> <<A>>] }

MCAppStatements ==
  { [sql |-> "DROP TABLE"], [sql |-> "CREATE TABLE", columns |-> <<"id", "age">>, quiet |-> FALSE],
    [sql |-> "INSERT", sets |-> << >>, args |-> <<>>],
    [sql |-> "DELETE", where |-> <<>>, args |-> <<>>, limit |-> 0, limited |-> {}] }

MCExpectations ==
  { [field |-> "AGE", value |-> Number(5)], [field |-> "age", value |-> Float(5)],
    [field |-> "age", value |-> Float(129)], [field |-> "age", value |-> Number(128)],
    [field |-> "age", value |-> Number(-128)],
    [field |-> "AGE", value |-> Str(<<"5">>)], [field |-> "name", value |-> A],
    [field |-> "name", value |-> Str(<<"<nil>">>)], [field |-> "name", value |-> Null] }
=============================================================================
