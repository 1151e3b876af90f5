SPECIFICATION StoreSpec
CONSTANTS
  s1 = s1
  r1 = r1
  a1 = a1
  a2 = a2
  a3 = a3
  null = null
  Sessions <- OneSession
  OpIds <- ThreeOperations
  AdmissionIds <- Admissions
  NotAdmitted = null
  MaxLive = 2
  MaxGate = 4
SYMMETRY Symmetric
INVARIANTS
  StoreTypeOK
  WaitsBehindOpenGate
PROPERTIES
  OnlyForward
