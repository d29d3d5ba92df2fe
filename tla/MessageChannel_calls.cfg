\* A client, the listener and a handler: every interleaving, a timeout at any
\* time, and the client may die once at any step.
SPECIFICATION FairSpec
CONSTANTS
  Clients = {c1}
  Process <- OneThreadEach
  Listener = Listener
  Handlers = {h1}
  Nobody = Nobody
  Kinds = {"transfer", "post"}
  MaxCalls = 2
  MaxDeaths = 1
INVARIANTS TypeOK LockExact UnreadIsKept ServedOnce OwnReply ProcessReply
PROPERTIES CallsReturn
CHECK_DEADLOCK FALSE
