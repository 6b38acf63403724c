SPECIFICATION ExuSpec
CONSTANTS
  Depth = 2
  a = a
  x0 = x0
  u = u
  
  Registers = {a}
  NoRegister = x0
  Values = {u}
  NoValue = NoValue
  NoInstr = NoInstr
  NoAccess = NoAccess
  MoreAccesses = 1
  NiceAccess = NiceAccess
  Program <- ControlProgram
INVARIANT CHECK_1HOT_FLUSH_HALT
CONSTANT w = w
