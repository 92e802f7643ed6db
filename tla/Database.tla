------------------------------ MODULE Database ------------------------------
(***************************************************************************)
(* The database helpers of a stage (pkg/v1/db.go) on one table, which the  *)
(* application under test uses at the same time.                           *)
(*                                                                         *)
(* A helper writes SQL for its driver and executes one statement after the *)
(* other, without a transaction around them; the database executes one     *)
(* statement at a time.  The client is connected, and it is no dry run     *)
(* (Handles has the rest).  A condition is a sequence of comparisons       *)
(* "column = ?" joined by OR, given by their columns.                      *)
(***************************************************************************)
EXTENDS Values, Integers, Sequences, SequencesExt, FiniteSets

CONSTANTS
  Drivers,        \* "oracle", "postgres", "sqlite3", "mysql"
  Helpers,        \* calls of helpers, as stages make them
  AppStatements,  \* statements of the application, in SQL that the database takes
  Upper,          \* [name of a column -> its name in upper case]
  MaxCalls, MaxApp, MaxRows    \* bounds on calls, on the application, on rows

ASSUME DatabaseAssumption == MaxCalls \in Nat /\ MaxApp \in Nat /\ MaxRows \in Nat

\* A name in upper case is that of one column, and in lower case gives its name.
ASSUME UpperAssumption ==
  /\ "" \notin DOMAIN Upper
  /\ \A c, d \in DOMAIN Upper : Upper[c] = Upper[d] => c = d
  /\ \A c \in DOMAIN Upper : Upper[c] \in DOMAIN Upper => Upper[c] = c

VARIABLES
  driver,    \* DBClient.DriverName
  table,     \* [columns, indexes, rows], rows by a row id, or NoTable
  h,         \* the helper under way: its call and the statements that are left
  outcome,   \* of the last helper: "returned" or "failed"
  result,    \* QueryResult of the last Fetch: the Data of its rows
  calls, appDone,   \* counters for the bounds
  before,    \* history: the table when the helper under way began
  alone,     \* history: nobody else has executed a statement since
  found      \* history: the rows that the last Fetch selected, and whether the connection
             \* broke while it read them

vars == <<driver, table, h, outcome, result, calls, appDone, before, alone, found>>

NoTable == [columns |-> <<>>, indexes |-> {}, rows |-> <<>>]
NoHelper == [call |-> "none"]

\* What database/sql stores for a helper; what it refuses, slices and maps, is left out.
IsStored(v) ==
  /\ v.kind \in {"null", "bool", "number", "string"} /\ IsScalar(v)
  /\ v.kind = "null" => v = Null
  /\ v.kind = "bool" => v \in {Bool(FALSE), Bool(TRUE)}
  /\ v.kind = "string" => v = Str(v.s)
IsSequence(s) == s \in Seq(ToSet(s))
AreValues(vs) == IsSequence(vs) /\ \A v \in ToSet(vs) : IsStored(v)

\* Calls as Go types them.
IsCall(call) ==
  CASE call.do = "SetupTable" ->
         call.isReplace \in BOOLEAN /\ call.columns \in Seq(DOMAIN Upper) /\ IsSequence(call.indexes)
    [] call.do \in {"DeleteWithLimit", "Fetch"} ->
         /\ IsSequence(call.where) /\ AreValues(call.args)
         /\ call.do = "DeleteWithLimit" => call.limit \in Int
    [] call.do = "InsertOne" ->
         /\ IsSequence(call.fields) /\ AreValues(call.values)
         /\ Len(call.fields) = Len(call.values)
    [] call.do = "ReplaceData" -> AreValues(call.values)
    [] call.do = "Update" ->
         /\ IsFiniteSet(DOMAIN call.updates) /\ \A c \in DOMAIN call.updates : IsStored(call.updates[c])
         /\ IsSequence(call.where) /\ AreValues(call.args)
    [] OTHER -> call.do \in {"DropTable", "CleanTable"}

ASSUME CallsAssumption == \A call \in Helpers : IsCall(call)

Bytes(s) == [kind |-> "bytes", s |-> s]

\* Names of columns come back in upper case from oracle; strings as bytes from mysql.
ToLower(c) == IF c \in DOMAIN Upper THEN c ELSE CHOOSE l \in DOMAIN Upper : Upper[l] = c
Reported(c) == IF driver = "oracle" THEN Upper[c] ELSE c
Raw(v) == IF driver = "mysql" /\ v.kind = "string" THEN Bytes(v.s) ELSE v
-----------------------------------------------------------------------------
(***************************************************************************)
(* The SQL that helpers write.                                             *)
(***************************************************************************)
Question == 0   \* a placeholder "?"; n stands for ":n"

\* Mutant: every list of placeholders is numbered from 1.
PlaceholdersFromOne(columns, first) ==
  [i \in DOMAIN columns |->
     [column |-> columns[i], ph |-> IF driver = "oracle" THEN i ELSE Question]]

\* Placeholders beside columns; those of oracle count on from first.
Placeholders(columns, first) ==
  [i \in DOMAIN columns |->
     [column |-> columns[i], ph |-> IF driver = "oracle" THEN first + i - 1 ELSE Question]]

IfNotExists == driver # "oracle"
DropTable == [sql |-> "DROP TABLE"]
CreateTable(columns) == [sql |-> "CREATE TABLE", columns |-> columns, quiet |-> IfNotExists]
CreateIndex(i, columns) ==
  [sql |-> "CREATE INDEX", index |-> [name |-> i, columns |-> columns], quiet |-> IfNotExists]

\* Mutant: all indexes of a table have the same name.
SetupTableOneName(call) ==
  (IF call.isReplace THEN <<DropTable>> ELSE <<>>) \o <<CreateTable(call.columns)>>
    \o [i \in DOMAIN call.indexes |-> CreateIndex(0, call.indexes[i])]

SetupTable(call) ==
  (IF call.isReplace THEN <<DropTable>> ELSE <<>>) \o <<CreateTable(call.columns)>>
    \o [i \in DOMAIN call.indexes |-> CreateIndex(i, call.indexes[i])]

CleanTable == [sql |-> "DELETE", where |-> <<>>, args |-> <<>>, limit |-> 0, limited |-> {}]

\* Mutant: oracle's AND ROWNUM <= n belongs to the last comparison only.
LimitedLast(where) == IF driver = "oracle" THEN {Len(where)} ELSE DOMAIN where

\* The comparisons that a limit is for: the condition is in parentheses before
\* AND ROWNUM <= n, in a subquery, or has LIMIT n behind it.
Limited(where) == DOMAIN where

DeleteWithLimit(call) ==
  [sql |-> "DELETE", where |-> Placeholders(call.where, 1), args |-> call.args,
   limit |-> call.limit, limited |-> IF call.limit > 0 THEN Limited(call.where) ELSE {}]

InsertOne(call) ==
  [sql |-> "INSERT", sets |-> Placeholders(call.fields, 1), args |-> call.values]

\* Without names: the values are for all columns, in their order.
ReplaceData(call) ==
  [sql |-> "INSERT", sets |-> Placeholders([i \in DOMAIN call.values |-> ""], 1),
   args |-> call.values]

\* The columns come in the order in which the map gives them.
Update(call, columns) ==
  [sql |-> "UPDATE", sets |-> Placeholders(columns, 1),
   where |-> Placeholders(call.where, Len(columns) + 1),
   args |-> [i \in DOMAIN columns |-> call.updates[columns[i]]] \o call.args]

QueryData(call) == [sql |-> "SELECT", where |-> Placeholders(call.where, 1), args |-> call.args]

\* The statements of a call; it fails at once where there are none.
Statements(call) ==
  CASE call.do = "SetupTable" -> {SetupTable(call)}
    [] call.do = "DropTable" -> {<<DropTable>>}
    [] call.do = "CleanTable" -> {<<CleanTable>>}
    [] call.do = "DeleteWithLimit" -> IF call.where = <<>> THEN {} ELSE {<<DeleteWithLimit(call)>>}
    [] call.do = "InsertOne" ->
         IF call.fields = <<>> \/ "" \in ToSet(call.fields) THEN {} ELSE {<<InsertOne(call)>>}
    [] call.do = "ReplaceData" -> {<<ReplaceData(call)>>}
    [] call.do = "Update" ->
         IF DOMAIN call.updates = {} THEN {<<>>}
         ELSE {<<Update(call, columns)>> : columns \in SetToSeqs(DOMAIN call.updates)}
    [] call.do = "Fetch" -> {<<QueryData(call)>>}
-----------------------------------------------------------------------------
(***************************************************************************)
(* What the database makes of a statement.                                 *)
(***************************************************************************)
Sets(s) == IF "sets" \in DOMAIN s THEN s.sets ELSE <<>>
Where(s) == IF "where" \in DOMAIN s THEN s.where ELSE <<>>
\* Statements whose placeholders stand for values among their arguments.
IsStatement(s) ==
  CASE s.sql = "CREATE TABLE" -> s.columns \in Seq(DOMAIN Upper)
    [] s.sql \in {"INSERT", "UPDATE"} ->
         /\ "args" \in DOMAIN s /\ AreValues(s.args)
         /\ IsSequence(Sets(s)) /\ IsSequence(Where(s))
         /\ \A x \in ToSet(Sets(s)) : {"column", "ph"} \subseteq DOMAIN x /\ x.ph \in 0 .. Len(s.args)
    [] OTHER -> s.sql \in {"DROP TABLE", "CREATE INDEX", "DELETE", "SELECT"}

ASSUME AppAssumption == \A s \in AppStatements : IsStatement(s)

ColumnsOf(s) == {x.column : x \in ToSet(Sets(s) \o Where(s))}

\* The k-th placeholder of a statement stands for its k-th argument, or for the one it names.
Argument(s, k) ==
  LET ph == (Sets(s) \o Where(s))[k].ph IN s.args[IF ph = Question THEN k ELSE ph]

\* Values without names, where there is one for each column.
Resolved(s) ==
  IF /\ s.sql = "INSERT" /\ Len(Sets(s)) = Len(table.columns)
     /\ \A x \in ToSet(Sets(s)) : x.column = ""
  THEN [s EXCEPT !.sets = [k \in DOMAIN Sets(s) |-> [@[k] EXCEPT !.column = table.columns[k]]]]
  ELSE s

\* A comparison with NULL holds of no row.
Satisfies(row, s, i) ==
  LET v == Argument(s, Len(Sets(s)) + i) IN v # Null /\ row[s.where[i].column] = v

SelectedBy(s, comparisons) ==
  {r \in DOMAIN table.rows : \E i \in comparisons : Satisfies(table.rows[r], s, i)}
Selected(s) == IF s.where = <<>> THEN DOMAIN table.rows ELSE SelectedBy(s, DOMAIN s.where)

WithSets(row, s) ==
  [c \in DOMAIN row |->
     LET here == {k \in DOMAIN Sets(s) : Sets(s)[k].column = c}
     IN  IF here = {} THEN row[c] ELSE Argument(s, CHOOSE k \in here : TRUE)]

\* The sets of rows that a DELETE may remove: with a limit, the database chooses.
Removals(s) ==
  LET few == SelectedBy(s, s.limited)
      all == IF s.limited = {} THEN Selected(s) ELSE SelectedBy(s, DOMAIN s.where \ s.limited)
      AtMost(n) == IF Cardinality(few) < n THEN Cardinality(few) ELSE n
  IN  {all \cup rows : rows \in {x \in SUBSET few : Cardinality(x) = AtMost(s.limit)}}

FreeIds == {i \in 1 .. MaxRows : i \notin DOMAIN table.rows}

\* There is one argument for each placeholder.  "?" means nothing to postgres.
IsAccepted(s) ==
  /\ table # NoTable /\ ColumnsOf(s) \subseteq ToSet(table.columns)
  /\ Len(s.args) = Len(Sets(s) \o Where(s))
  /\ s.sql = "UPDATE" => s.where # <<>>
  /\ driver = "postgres" => Sets(s) \o Where(s) = <<>>

NameIsUsed(s) ==
  \/ s.sql = "CREATE TABLE" /\ table # NoTable
  \/ s.sql = "CREATE INDEX" /\ \E x \in table.indexes : x.name = s.index.name

\* The tables that a statement may leave; none where it is refused.  Only mysql has no
\* CREATE INDEX IF NOT EXISTS.
After(s) ==
  CASE s.sql = "DROP TABLE" -> {NoTable}
    [] s.sql \in {"CREATE TABLE", "CREATE INDEX"} /\ NameIsUsed(s) -> IF s.quiet THEN {table} ELSE {}
    [] s.sql = "CREATE TABLE" /\ ~NameIsUsed(s) -> {[NoTable EXCEPT !.columns = s.columns]}
    [] s.sql = "CREATE INDEX" /\ ~NameIsUsed(s) ->
         IF driver = "mysql" \/ ~(ToSet(s.index.columns) \subseteq ToSet(table.columns)) THEN {}
         ELSE {[table EXCEPT !.indexes = @ \cup {s.index}]}
    [] OTHER ->
         IF ~IsAccepted(Resolved(s)) THEN {}
         ELSE CASE s.sql = "INSERT" ->
                     {[table EXCEPT !.rows = [r \in DOMAIN @ \cup {id} |->
                         IF r = id THEN WithSets([c \in ToSet(table.columns) |-> Null], Resolved(s))
                         ELSE @[r]]] :
                        id \in {i \in FreeIds : \A j \in FreeIds : i <= j}}
                [] s.sql = "DELETE" ->
                     {[table EXCEPT !.rows = [r \in DOMAIN @ \ gone |-> @[r]]] : gone \in Removals(s)}
                [] s.sql = "UPDATE" ->
                     {[table EXCEPT !.rows = [r \in DOMAIN @ |->
                         IF r \in Selected(s) THEN WithSets(@[r], s) ELSE @[r]]]}
                [] s.sql = "SELECT" -> {table}
-----------------------------------------------------------------------------
Init ==
  /\ driver \in Drivers
  /\ table = NoTable
  /\ h = NoHelper /\ outcome = "returned"
  /\ result = <<>>
  /\ calls = 0 /\ appDone = 0
  /\ before = NoTable /\ alone = TRUE
  /\ found = [rows |-> <<>>, broken |-> FALSE]

Begin ==
  /\ h = NoHelper /\ calls < MaxCalls
  /\ calls' = calls + 1
  /\ before' = table /\ alone' = TRUE
  /\ \E call \in Helpers :
       \/ \E left \in Statements(call) \ {<<>>} :
            h' = [call |-> call, left |-> left] /\ UNCHANGED outcome
       \/ <<>> \in Statements(call) /\ outcome' = "returned" /\ UNCHANGED h
       \/ Statements(call) = {} /\ outcome' = "failed" /\ UNCHANGED h
  /\ UNCHANGED <<driver, table, result, appDone, found>>

Goes(on) ==
  /\ h' = IF Tail(h.left) = <<>> \/ ~on THEN NoHelper ELSE [h EXCEPT !.left = Tail(@)]
  /\ outcome' = IF ~on THEN "failed" ELSE IF Tail(h.left) = <<>> THEN "returned" ELSE outcome

\* Exec.  ORA-00955 is ignored where the other drivers have IF NOT EXISTS.
Exec ==
  /\ h # NoHelper /\ Head(h.left).sql # "SELECT"
  /\ \/ Goes(TRUE) /\ table' \in After(Head(h.left))
     \/ Goes(TRUE) /\ driver = "oracle" /\ NameIsUsed(Head(h.left)) /\ UNCHANGED table
     \/ /\ After(Head(h.left)) = {} /\ ~(driver = "oracle" /\ NameIsUsed(Head(h.left)))
        /\ Goes(FALSE) /\ UNCHANGED table
  /\ UNCHANGED <<driver, result, calls, appDone, before, alone, found>>

\* The connection breaks before a statement, or the reply of one that is executed is lost.
Breaks ==
  /\ h # NoHelper
  /\ table' \in {table} \cup After(Head(h.left))
  /\ Goes(FALSE)
  /\ UNCHANGED <<driver, result, calls, appDone, before, alone, found>>

\* Mutant: names of columns are kept as they are reported.
DataAsReported(row) == [k \in {Reported(c) : c \in DOMAIN row} |-> row[ToLower(k)]]

\* A row: names in lower case, bytes as strings.
Data(row) ==
  [k \in {ToLower(Reported(c)) : c \in DOMAIN row} |->
     LET v == Raw(row[k]) IN IF v.kind = "bytes" THEN Str(v.s) ELSE v]

\* The rows come in any order.  Next is FALSE after the last and when the connection breaks,
\* and Fetch does not ask for the error.
Fetch ==
  /\ h # NoHelper /\ Head(h.left).sql = "SELECT"
  /\ IF ~IsAccepted(Head(h.left)) THEN Goes(FALSE) /\ UNCHANGED <<result, found>>
     ELSE LET ids == Selected(Head(h.left)) IN
          /\ \E order \in SetToSeqs(ids) : \E n \in 0 .. Len(order) :
               /\ result' = [i \in 1 .. n |-> Data(table.rows[order[i]])]
               /\ found' = [rows |-> [r \in ids |-> table.rows[r]], broken |-> n < Len(order)]
          /\ Goes(TRUE)
  /\ UNCHANGED <<driver, table, calls, appDone, before, alone>>

\* A statement of the application.
Application ==
  /\ appDone < MaxApp /\ appDone' = appDone + 1
  /\ \E s \in AppStatements : table' \in After(s)
  /\ alone' = FALSE
  /\ UNCHANGED <<driver, h, outcome, result, calls, before, found>>

Next == Begin \/ Exec \/ Breaks \/ Fetch \/ Application

Spec == Init /\ [][Next]_vars
-----------------------------------------------------------------------------
(***************************************************************************)
(* QueryResult and RowResult.                                              *)
(***************************************************************************)
ExpectCount(n) == Len(result) = n

Get(row, field) == IF ToLower(field) \in DOMAIN row THEN {row[ToLower(field)]} ELSE {}
-----------------------------------------------------------------------------
Returns(dos) == /\ h # NoHelper /\ h.call.do \in dos
                /\ h' = NoHelper /\ outcome' = "returned" /\ appDone' = appDone

IsSetUp ==
  LET given == {[name |-> i, columns |-> h.call.indexes[i]] : i \in DOMAIN h.call.indexes}
  IN  IF h.call.isReplace \/ before = NoTable
      THEN table' = [columns |-> h.call.columns, indexes |-> given, rows |-> <<>>]
      ELSE /\ table'.columns = before.columns /\ table'.rows = before.rows
           /\ {x.name : x \in given} \subseteq {x.name : x \in table'.indexes}

\* A SetupTable that passes, with nobody else at the database, leaves a table with an index
\* for each that it was given: a new one if it replaces or if there was none, else the one
\* there was, with its rows.
SetupGivesTheTable == [][Returns({"SetupTable"}) /\ alone => IsSetUp]_vars

\* The rows that a condition names: by the arguments that the stage gives, in their order.
Named(call, rows) ==
  {r \in DOMAIN rows : \E i \in DOMAIN call.where :
     call.args[i] # Null /\ rows[r][call.where[i]] = call.args[i]}

NamedRowsChange ==
  LET call == h.call
      named == IF call.where = <<>> THEN DOMAIN table.rows ELSE Named(call, table.rows)
      gone == DOMAIN table.rows \ DOMAIN table'.rows
      Updated(row) ==
        [c \in DOMAIN row |-> IF c \in DOMAIN call.updates THEN call.updates[c] ELSE row[c]]
  IN  CASE call.do = "Update" ->
             table'.rows = [r \in DOMAIN table.rows |->
               IF r \in named THEN Updated(table.rows[r]) ELSE table.rows[r]]
        [] call.do = "DeleteWithLimit" ->
             /\ gone \subseteq named
             /\ gone = named \/ (call.limit > 0 /\ Cardinality(gone) = call.limit)
             /\ call.limit > 0 => Cardinality(gone) <= call.limit
             /\ \A r \in DOMAIN table'.rows : table'.rows[r] = table.rows[r]
        [] call.do = "Fetch" -> table' = table /\ DOMAIN found'.rows = named

\* Whatever the driver and the order of the map: an update sets what it is given in the
\* rows that its condition names, and nothing else; a deletion removes them, or as many of
\* them as its limit; a fetch selects them.
OnlyNamedRowsChange == [][Returns({"Update", "DeleteWithLimit", "Fetch"}) => NamedRowsChange]_vars

Shows(data, row) ==
  \A c \in DOMAIN row : \A field \in {c, Upper[c]} : Get(data, field) = {row[c]}

\* Fetch gives the rows that its query selected, each once and by names of any case, as
\* many as ExpectCount is told; when the connection broke meanwhile, any number of them.
FetchGivesTheRows ==
  /\ ~found.broken => ExpectCount(Cardinality(DOMAIN found.rows))
  /\ \A i \in DOMAIN result :
       Cardinality({j \in DOMAIN result : result[j] = result[i]}) <=
         Cardinality({r \in DOMAIN found.rows : Shows(result[i], found.rows[r])})
-----------------------------------------------------------------------------
(***************************************************************************)
(* The inductive invariant.                                                *)
(***************************************************************************)
IsTable(t) ==
  /\ t = [columns |-> t.columns, indexes |-> t.indexes, rows |-> t.rows]
  /\ t.columns \in Seq(DOMAIN Upper)
  /\ DOMAIN t.rows \subseteq 1 .. MaxRows
  /\ \A r \in DOMAIN t.rows :
       /\ DOMAIN t.rows[r] = ToSet(t.columns)
       /\ \A c \in ToSet(t.columns) : IsStored(t.rows[r][c])

\* A helper under way has the last statements of its call left, and at least one.
IsUnderWay(call, left) ==
  /\ call \in Helpers
  /\ \E all \in Statements(call) : \E n \in DOMAIN all : left = SubSeq(all, n, Len(all))

TypeOK ==
  /\ driver \in Drivers
  /\ IsTable(table) /\ IsTable(before)
  /\ h = NoHelper \/ (h = [call |-> h.call, left |-> h.left] /\ IsUnderWay(h.call, h.left))
  /\ outcome \in {"returned", "failed"}
  /\ calls \in 0 .. MaxCalls /\ appDone \in 0 .. MaxApp
  /\ alone \in BOOLEAN

Index(call, i) == [name |-> i, columns |-> call.indexes[i]]

\* The table when a SetupTable, alone at the database, has executed n of its statements.
IsSetUpTo(call, n) ==
  LET first == IF call.isReplace THEN 1 ELSE 0   \* statements before CREATE TABLE
      done == n - first - 1                      \* indexes
  IN  IF n = 0 THEN table = before
      ELSE IF n = first THEN table = NoTable
      ELSE IF call.isReplace \/ before = NoTable
      THEN table = [columns |-> call.columns, indexes |-> {Index(call, i) : i \in 1 .. done},
                    rows |-> <<>>]
      ELSE /\ table.columns = before.columns /\ table.rows = before.rows
           /\ \A i \in 1 .. done : \E x \in table.indexes : x.name = i

SetupInv ==
  h # NoHelper /\ h.call.do = "SetupTable" /\ alone =>
    IsSetUpTo(h.call, Len(SetupTable(h.call)) - Len(h.left))

IInv == TypeOK /\ SetupInv /\ FetchGivesTheRows
===============================================================================
