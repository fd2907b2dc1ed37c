\* Three fair handlers contend for both locks; uuid always fails.
SPECIFICATION FairSpec
CONSTANTS
  Handlers = {h1, h2, h3}
  Names = {n1}
  Queues = {q1, q2, q3}
  Messages = {}
  Nil = Nil
PROPERTIES
  EveryRequestAnswered
