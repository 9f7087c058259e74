\* Every outside call may fail; the queue is filled five times while Rx sleeps.
SPECIFICATION Spec
CONSTANTS
  MayFail = {"socket", "setsockopt", "bind", "recvfrom", "sendto", "record", "initialize", "malloc"}
  Period = 2
  Sleep = 10
  MaxLate = 1
INVARIANTS TypeOK SendFailsOnlyInSleep TracingSurvives
PROPERTIES BlinksAgain IoAgain
