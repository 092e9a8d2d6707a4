\* Eight numbers over a window of three: the window wraps twice, every slot is
\* shared by at least two numbers, and jumps shorter than, equal to and longer
\* than the window all happen.
SPECIFICATION Spec
CONSTANTS
  Width = 3
  HardLimit = 8
  MaxNumber = 11
INVARIANTS
  TypeOK
  OpenedAtMostOnce
  BitsTellOpened
PROPERTIES
  ImplementsAntiReplay
