\* Two concurrent requests on two names: Stats has two rows to collect.
SPECIFICATION Spec
CONSTANTS
  Handlers = {h1, h2}
  Names = {n1, n2}
  Queues = {q1, q2, q3}
  Messages = {m1, m2}
  Nil = Nil
SYMMETRY Symmetry
INVARIANTS
  StatsNotTorn
  DirectoryStable
