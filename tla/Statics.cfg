SPECIFICATION Spec
CONSTANTS
  a = a
  b = b
  alike = alike
  broken = broken
  f = f
  g = g
  Name = {a, b, alike, broken}
  File = {f, g}
  Absent = Absent
  Unreadable = Unreadable
  ReadAs <- MCReadAs
  Programs <- MCPrograms
INVARIANTS CapturedKept RunsOnce MainIsPrepared
