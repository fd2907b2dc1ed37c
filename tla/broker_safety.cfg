\* Three concurrent requests on one name, an object for each, two messages.
SPECIFICATION Spec
CONSTANTS
  Handlers = {h1, h2, h3}
  Names = {n1}
  Queues = {q1, q2, q3}
  Messages = {m1, m2}
  Nil = Nil
SYMMETRY Symmetry
INVARIANTS
  TypeOK
  Inductive
  Ledger
  StatsNotTorn
  FirstInFirstOut
PROPERTIES
  NeverReplaced
  ImplementsAtomicBroker
