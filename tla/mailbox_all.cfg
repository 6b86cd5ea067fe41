\* Two clients and two commands, any interleaving of the two tasks.
CONSTANTS
  Clients = {c1, c2}
  Commands = {m1, m2}
  Junk = Junk
  Torn = Torn
  None = None
SPECIFICATION FairSpec
INVARIANTS TypeOK LastFrameRuns
PROPERTIES ImplementsExchange AnswerComes
