SPECIFICATION FairSpec
CONSTANTS
  Clients = {c1, c2, tail}
  Readonly = {}
  OneShot = {tail}
  MaxQuestions = 2
  None = None
INVARIANTS
  TypeOK
  GateSeesListener
PROPERTIES
  HeadlessNeverHangs
  KeepsPromise
