SPECIFICATION FairSpec
CONSTANTS
  s1 = s1
  Senders = {s1}
  Spooler = spooler
  Heartbeat = heartbeat
  ReadyValues = {TRUE, FALSE}
  Errors = {"push", "send", "worker"}
  PipeLimit = 1
  WireLimit = 1
  MaxLeftover = 1
  MaxSends = 2
  MaxBeats = 1
  ReportedStates = {"connected", "disconnected"}
  MaxEvents = 2
INVARIANTS
  Accounted
  SpooledNotOvertaken
PROPERTIES
  DrainedWhileConnected
  DestroyReturns
