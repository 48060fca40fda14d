SPECIFICATION ListSpec
CONSTANTS
  Clients = {c1, c2, c3}
  Null = Null
  AcceptLimit = 3
  SemMax = 2
SYMMETRY ClientSymmetry
INVARIANTS
  ListTypeOK
  NoThreadOnFreedNode
  UnlinkIsExact
  NewestFirst
  SoundUntilFirstFailure
  WalkMissesNone
