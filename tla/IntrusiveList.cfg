SPECIFICATION ListSpec
CONSTANTS
  Thread = {t1, t2, t3, t4}
  First = t1
  Null = null
INVARIANTS ReadyCounted GlobalLinked
PROPERTY QueuesImplemented
SYMMETRY Alike
