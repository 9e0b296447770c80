CONSTANTS
  Writers = {a}
  Contents = {old, new, newer}
  Absent = Absent
  Partial = Partial
SPECIFICATION Spec
INVARIANTS
  NeverPartial
  OutcomeTold
  OldOrNew
  NoLitter
PROPERTIES
  ImplementsAtomicFile
