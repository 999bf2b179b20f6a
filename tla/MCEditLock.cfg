CONSTANTS
  t1 = t1
  t2 = t2
  t3 = t3
  p1 = p1
  p2 = p2
  None = None
  Threads = {t1, t2, t3}
  Procs = {p1, p2}
  ProcOf <- MCProcOf
  FileKeys = {file}
  ToolKeys = {}
  Sems = {s1, s2, s3}
  MaxFaults = 1

SPECIFICATION FairSpec

INVARIANTS
  TypeOK
  RegistryExact

PROPERTIES
  ImplementsKeyedLock
  FileLockReturns
  LockProgress
