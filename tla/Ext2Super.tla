------------------------------ MODULE Ext2Super ------------------------------
(***************************************************************************)
(* Mounting the ext2 sample and locating an inode (samples/ext2/ext2.rs,   *)
(* fill_super, check_descriptors and the first half of iget).  A device is *)
(* a record with the on-disk superblock's fields and `gd`, the group       *)
(* descriptors by device offset.  The error codes are not told apart.      *)
(***************************************************************************)
EXTENDS Mapper

CONSTANTS SbOffset,     \* SB_OFFSET and the smallest block size, 1024
          GroupSize,    \* size_of::<Group>()
          MaxLog,       \* EXT2_MAX_BLOCK_LOG_SIZE - 10
          GoodOldInode, \* EXT2_GOOD_OLD_INODE_SIZE
          GoodOldFirst, \* EXT2_GOOD_OLD_FIRST_INO
          RootIno       \* EXT2_ROOT_INO

Refused == [mounted |-> FALSE]

\* sb_min_blocksize: at least the device's logical block, 0 above a page.
MinBlocksize(d, size) ==
  LET b == IF size < d.logical THEN d.logical ELSE size
  IN IF b > PageSize THEN 0 ELSE b

PowersOfTwo == {2^k : k \in 0..16}

\* The checks of Ext2Fs::fill_super before the group descriptors are read.
SuperOk(d) ==
  LET bs == SbOffset * 2^d.log
  IN /\ MinBlocksize(d, PageSize) # 0
     /\ d.magic
     /\ d.rev >= 1 => d.incompat \subseteq {"FILETYPE"} /\ (d.rdonly \/ ~d.roCompat)
     /\ d.log <= MaxLog
     /\ MinBlocksize(d, bs) = bs
     /\ d.rev = 0 \/ (GoodOldInode <= d.inodeSize /\ d.inodeSize \in PowersOfTwo
                       /\ d.inodeSize <= bs)
     /\ d.inodesPerGroup # 0

\* Mutant of ReadGroups: the offset moves by one descriptor less per page.
RECURSIVE ReadGroupsOverlapping(_, _, _)
ReadGroupsOverlapping(d, gdOffset, remain) ==
  IF remain <= 0 THEN <<>>
  ELSE LET len == MappedFolio(gdOffset).len
           n == Less(remain, len \div GroupSize)
       IN [i \in 1..n |-> d.gd[gdOffset + (i - 1) * GroupSize]]
            \o ReadGroupsOverlapping(d, gdOffset + len - GroupSize, remain - n)

\* The loop that reads the group descriptors, a page at a time.
RECURSIVE ReadGroups(_, _, _)
ReadGroups(d, gdOffset, remain) ==
  IF remain <= 0 THEN <<>>
  ELSE LET len == MappedFolio(gdOffset).len
           n == Less(remain, len \div GroupSize)
       IN [i \in 1..n |-> d.gd[gdOffset + (i - 1) * GroupSize]]
            \o ReadGroups(d, gdOffset + len, remain - n)

\* Ext2Fs::check_descriptors: `last` of the last group is blocks_count itself.
CheckDescriptors(d, groups) ==
  \A i \in 1..Len(groups) :
    LET first == (i - 1) * d.blocksPerGroup + d.firstDataBlock
        last == IF i = Len(groups) THEN d.blocksCount
                ELSE first + d.blocksPerGroup - 1
    IN \A f \in {"blockBitmap", "inodeBitmap", "inodeTable"} :
         first <= groups[i][f] /\ groups[i][f] <= last

\* Ext2Fs::fill_super: the mounted state, or Refused.
FillSuper(d) ==
  LET bs == SbOffset * 2^d.log
      count == (d.blocksCount - d.firstDataBlock - 1) \div d.blocksPerGroup + 1
      groups == ReadGroups(d, (SbOffset \div bs + 1) * bs, count)
      isize == IF d.rev = 0 THEN GoodOldInode ELSE d.inodeSize
  IN IF SuperOk(d) /\ CheckDescriptors(d, groups)
     THEN [mounted |-> TRUE, blockSize |-> bs, inodeSize |-> isize,
           perBlock |-> bs \div isize, perGroup |-> d.inodesPerGroup,
           firstIno |-> IF d.rev = 0 THEN GoodOldFirst ELSE d.firstIno,
           inodeCount |-> d.inodesCount, groups |-> groups]
     ELSE Refused

\* The inode numbers Ext2Fs::iget does not answer with ENOENT.
Valid(s, ino) ==
  /\ ino = RootIno \/ ino >= s.firstIno
  /\ ino <= s.inodeCount
  /\ (ino - 1) \div s.perGroup < Len(s.groups)

\* Where Ext2Fs::iget reads the inode: the block it maps, the offset in it.
Slot(s, ino) ==
  LET group == s.groups[(ino - 1) \div s.perGroup + 1]
      offset == (ino - 1) % s.perGroup
  IN [base |-> (group.inodeTable + offset \div s.perBlock) * s.blockSize,
      off |-> (offset % s.perBlock) * s.inodeSize]
=============================================================================
