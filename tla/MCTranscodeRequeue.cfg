SPECIFICATION Spec
CONSTANTS
  Workers = {w1, w2}
  Dispatchers = {d1}
  Tasks = {t1, t2}
  NoTask = NoTask
  MaxRetries = 0
SYMMETRY Symmetry
CHECK_DEADLOCK FALSE
INVARIANT RowsAgree
PROPERTIES TerminalIsFinal ImplementsLifecycle
