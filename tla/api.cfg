SPECIFICATION FairSpec
CONSTANTS
  Clients = {k1}
  Server = server
  k1 = k1
  ask = ask
  back = back
  again = again
  Act = Act
  Greet = Greet
  own = own
  Db = Db
  Root = Root
  Newer = Newer
  NoHandler = NoHandler
  NoAction = NoAction
  Calls <- MCCalls
  Conn <- MCConn
  Callee <- MCCallee
  Parent <- MCParent
  Actions = {Act}
  Handlers = {Greet}
  Datas = {Db}
  ActionOf <- MCActionOf
  Args <- MCArgs
INVARIANTS ApiInv AnswerOfItsHandler
PROPERTIES EveryRequestEnds
CHECK_DEADLOCK FALSE
