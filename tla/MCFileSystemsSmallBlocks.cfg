SPECIFICATION Spec
CHECK_DEADLOCK FALSE
CONSTANTS
  PageSize = 4
  BlockSize = 2
  PtrSize = 1
  NDIR = 2
  DentSize = 1
  TarDentSize = 2
  TarInodeSize = 2
  SectorSize = 2
  MaxU64 = 11
  GroupSize = 1
  SbOffset = 1
  MaxLog = 2
  GoodOldInode = 1
  GoodOldFirst = 3
  RootIno = 2
  MaxTaken = 3
  MaxBytes = 16
  Images <- MCSmallImages
  Bound <- MCBound
  Arguments <- MCArguments
  Rooms <- MCRooms
  Counts <- MCCounts
  Seeks <- MCSeeks
INVARIANTS
  ListedOnce
