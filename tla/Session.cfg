CONSTANTS
  PciObjects = {a, b}
  Requests <- MCRequests
  ForeignWords <- MCForeignWords
  MaxCreates = 2
  MaxForeign = 1
  MaxFds = 2
  Machines <- MCMachines
  Garbage <- MCGarbage
  RegisterNums <- MCRegisterNums
SYMMETRY Symmetry
SPECIFICATION Spec
CHECK_DEADLOCK FALSE
INVARIANTS
  TypeOK
  OwnerHasPrivilege
  PrivilegeReturned
  ReadsExact
  RegistersExact
  WindowsAccounted
  NoSignal
PROPERTIES
  ReservedKept
  WindowTrusted
