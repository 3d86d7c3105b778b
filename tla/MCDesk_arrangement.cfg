CONSTANTS
  Session = {s1, s2, s3}
  NoSession = NoSession
  Kind = {status}
  MaxMoves = 5
SPECIFICATION Spec
SYMMETRY Symmetry
INVARIANTS
  TypeOK
  FocusOnDesk
  FileKeepsArrangement
PROPERTIES
  OnlyUserReorders
  MetadataKept
