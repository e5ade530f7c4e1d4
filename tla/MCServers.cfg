\* Four connections for the accept loop, of which c1 sends an HTTP request and
\* c2 only connects; three connections for the echo server with two workers.
CONSTANTS
  c1 = c1  c2 = c2  c3 = c3  c4 = c4
  Clients = {c1, c2, c3, c4}
  None = None
  Browsers = {c1}
  Idlers = {c2}
  Urls = {"/", "/none"}
  Home = "/"
  HomePage = "/index.html"
  Present = {"/index.html"}
  MaxSize = 3
  PageSize = 2
  SocketBuffer = 3
  MaxEdits = 2
  main = main  w1 = w1  w2 = w2
  Callers = {main}
  Main = main
  Workers = {w1, w2}
  MaxTasks = 3
  Bad = {}
  NoThread = NoThread
  BufSize = 1
  MaxLine = 2
  MaxBytes <- BytesEntered
SPECIFICATION ServersSpec
INVARIANTS AcceptSafe HttpSafe EchoSafe
PROPERTIES AcceptLoopRuns HttpEnds EchoServed
\* All connections may have ended, and a server that cannot listen exits.
CHECK_DEADLOCK FALSE
