CONSTANTS
  Servers = {s1, s2}
  Discord = Discord
  Local = Local
  Channels = {ooc}
  Tables <- MCTables
  AgentChannels <- MCAgentChannels
  Lines = {long, cut, hi, test, testClean, junk}
  Sayable <- MCSayable
  Blank = Blank
  Sanitize <- MCSanitize
  TestLine = test
  TestChannel = ooc
  Faulty = {s1}
  SeenWindow = 1
  EchoTTL = 2
  EchoLimit = 4
  QueueLimit = 1
  MaxHop = 1
  EchoDelay = 1
  DistinctLines = TRUE
  MaxTime = 3
  MaxEvents = 2
  MaxOwed = 1
  None = None
  TestFrame = TestFrame
  ooc = ooc
  long = long
  cut = cut
  hi = hi
  test = test
  testClean = testClean
  junk = junk
SPECIFICATION Spec
INVARIANTS TypeOK NeverToOrigin OneSuppressionPerInjection NoFeedback
PROPERTY DuplicatesRejected
CHECK_DEADLOCK FALSE
