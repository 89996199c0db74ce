SPECIFICATION Spec
CONSTANTS
  NoAccount = NoAccount
  Accounts <- Fingerprints
  p1 = p1
  p2 = p2
  People = {p1, p2}
  MaxTokens = 3
  None = None
  Missing = Missing
  Garbage = Garbage
  SourceSet <- AllSources
CONSTRAINT
  FewLogins
SYMMETRY
  Symmetric
INVARIANTS
  TypeOK
  OneFingerprint
PROPERTIES
  RightAccount
  LoginAskedWhenNeeded
