SPECIFICATION FairSpec
CONSTANTS
  Channel = {"c1", "c2"}
  EmailChannels = {"c2"}
  Misconfigured = {}
  Key = {"k1"}
  Emitter = {"e1", "e2"}
  Pass = {"p1", "p2"}
  Request = {"q1"}
  ChannelLists = {{"c1"}, {"c1", "c2"}}
  EscalationLists = {{"c2"}}
  Links = {TRUE}
  Columns = {TRUE, FALSE}
  FlapThreshold = 3
  MaxAlerts = 2
  MaxEmits = 2
  MaxKeeperAlerts = 1
  MaxEvents = 1
  MaxSends = 5
INVARIANTS OneRowUnlessOverlap 
PROPERTIES TerminalLostToStaleWriter 
CHECK_DEADLOCK FALSE
