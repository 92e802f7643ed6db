------------------------------ MODULE MCHandles ------------------------------
EXTENDS Handles

MCVars == {"app", "m", "n", "db", "mocks"}
MCPorts == {1, 2}

Kept1 == {1}

RunApp == Call("RunAppServer", "app", NoPort, NoMap)
StopApp == Call("AppStop", "app", NoPort, NoMap)
RunMock(var, port, map) == Call("RunMockServer", var, port, map)
Update(var, map) == Call("UpdateMockServer", var, NoPort, map)
StopMock(var) == Call("MockStop", var, NoPort, NoMap)
Dynamic(do) == Call(do, "mocks", NoPort, NoMap)
DB(do) == Call(do, "db", NoPort, NoMap)

\* A process and a database; two mocks, updated with one map; two mocks started with one,
\* and one with its own; nil rows before an assignment, with a client of the dynamic mock
\* server; a process that is started where it is first needed.
MCSuites ==
  { << <<DB("Connect"), DB("SetupTable"), RunApp>>, <<DB("Fetch")>>,
       <<StopApp, DB("DropTable")>> >>,
    << <<RunMock("m", 1, NoMap), RunMock("n", 2, NoMap)>>, <<Update("m", 1), Update("n", 1)>>,
       <<StopMock("m"), StopMock("n")>> >>,
    << <<RunMock("m", 1, 1), RunMock("n", 2, 1), Update("m", NewMap)>> >>,
    << <<RunMock("m", 1, NewMap), Update("m", 1)>> >>,
    << <<Dynamic("NewDynamicMockClient"), Dynamic("RegisterRoute"),
         DB("Connect"), DB("QueryData"), RunApp>>,
       <<StopApp>> >>,
    << <<Once(RunApp)>>, <<StopApp>> >> }
=============================================================================
