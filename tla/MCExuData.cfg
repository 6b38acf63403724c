SPECIFICATION ExuSpec
CONSTANTS
  Depth = 2
  a = a
  x0 = x0
  u = u
  w = w
  Registers = {a}
  NoRegister = x0
  Values = {u, w}
  NoValue = NoValue
  NoInstr = NoInstr
  NoAccess = NoAccess
  MoreAccesses = 0
  NiceAccess = NiceAccess
  Program <- DataProgram
SYMMETRY ValueSymmetry
PROPERTIES RunsInOrder
