SPECIFICATION Spec
CONSTANTS
  Tab = {t1, t2, t3, t4, t5}
  NoTab = NoTab
INVARIANTS CurrentExists BoundIsCurrent
PROPERTY CurrentKept
