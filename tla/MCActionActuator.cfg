SPECIFICATION Spec
CONSTANTS
  a1 = a1
  a2 = a2
  t1 = t1
  c1 = c1
  c2 = c2
  c3 = c3
  v0 = v0
  v1 = v1
  v2 = v2
  Actions = {a1, a2}
  Targets = {t1}
  Versions = {v0, v1, v2}
  Calls = {c1, c2, c3}
  NoCall = NoCall
  TargetOf <- MCTargetOf
  KnownGood <- MCKnownGood
  InitialVersion <- MCInitialVersion
SYMMETRY CallSymmetry
INVARIANTS
  TypeOK
  AtMostOneMutationCall
  OneOpenMutationPerTarget
  NoSupersededPlanMutates
  ReleaseIsJustified
  OutcomeRecordsAgree
PROPERTIES
  ReceiptIsFinal
  ImplementsFence
