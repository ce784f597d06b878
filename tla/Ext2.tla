-------------------------------- MODULE Ext2 --------------------------------
(***************************************************************************)
(* The read-only ext2 sample, samples/ext2/ext2.rs.  Sizes are scaled      *)
(* down.  An image is a record with the inode's size, its data_blocks      *)
(* (indices 0 .. NDIR + 2), the pointer tables by block number, and the    *)
(* directory records by the device offset at which they start; a record    *)
(* has an inode number (0: deleted), a rec_len and a name.                 *)
(***************************************************************************)
EXTENDS Mapper, DirEmitter

CONSTANTS BlockSize,    \* s.block_size
          PtrSize,      \* size_of::<u32>()
          NDIR,         \* EXT2_NDIR_BLOCKS
          DentSize      \* size_of::<DirEntry>(), the fixed part of a record

Ptrs(blockSize) == blockSize \div PtrSize

\* ptrs.trailing_zeros() of a power of two.
PtrBits(blockSize) == CHOOSE b \in 0..Ptrs(blockSize) : 2^b = Ptrs(blockSize)

EIO == "EIO"

\* Mutant of Offsets: the double-indirect region does not skip the
\* single-indirect one.
OffsetsOverlap(blockSize, block) ==
  LET ptrs == Ptrs(blockSize)
      bits == PtrBits(blockSize)
      b1 == block - NDIR
      b2 == b1
      b3 == b2 - ptrs * ptrs
  IN IF block < NDIR THEN <<block>>
     ELSE IF b1 < ptrs THEN <<NDIR, b1>>
     ELSE IF b2 < 2^(2 * bits) THEN <<NDIR + 1, b2 \div 2^bits, b2 % ptrs>>
     ELSE IF b3 < ptrs * ptrs * ptrs
       THEN <<NDIR + 2, b3 \div 2^(2 * bits), (b3 \div 2^bits) % ptrs, b3 % ptrs>>
     ELSE EIO

\* Ext2Fs::offsets: the indices that lead to the block-th block of a file.
Offsets(blockSize, block) ==
  LET ptrs == Ptrs(blockSize)
      bits == PtrBits(blockSize)
      b1 == block - NDIR
      b2 == b1 - ptrs
      b3 == b2 - ptrs * ptrs
  IN IF block < NDIR THEN <<block>>
     ELSE IF b1 < ptrs THEN <<NDIR, b1>>
     ELSE IF b2 < 2^(2 * bits) THEN <<NDIR + 1, b2 \div 2^bits, b2 % ptrs>>
     ELSE IF b3 < ptrs * ptrs * ptrs
       THEN <<NDIR + 2, b3 \div 2^(2 * bits), (b3 \div 2^bits) % ptrs, b3 % ptrs>>
     ELSE EIO

\* Ext2Fs::offset_to_block.  A table that is not on the image reads as zeroes.
OffsetToBlock(img, block) ==
  LET path == Offsets(BlockSize, block)
      entry(b, i) == IF b \in DOMAIN img.tables THEN img.tables[b][i] ELSE 0
  IN FoldLeft(entry, img.blocks[path[1]], Tail(path))

-----------------------------------------------------------------------------
(* Directories.  The slice a walk sees runs to the end of the page. *)

EntryAt(img, addr) ==
  IF addr \in DOMAIN img.dents THEN img.dents[addr]
  ELSE [ino |-> 0, rec |-> 0, name |-> <<>>]

\* The inner loop of Ext2Fs::read_dir over the data mapped at `base`.
RECURSIVE WalkBlock(_, _, _, _)
WalkBlock(img, base, off, em) ==
  LET len == MappedFolio(base).len
      de == EntryAt(img, base + off)
      end == off + DentSize + Len(de.name)
  IN IF off >= len - DentSize \/ de.rec = 0 \/ off + de.rec > len THEN em
     ELSE IF de.ino = 0 \/ end > len THEN WalkBlock(img, base, off + de.rec, em)
     ELSE LET e == Emit(em, de.rec, de.ino)
          IN IF e.full THEN e ELSE WalkBlock(img, base, off + de.rec, e)

\* Mutant of Ext2ReadDir: a resumed call starts its block from the beginning.
RECURSIVE Ext2ReadDirRestarts(_, _, _)
Ext2ReadDirRestarts(img, pos, em) ==
  IF pos >= img.size \/ em.full THEN em
  ELSE LET idx == pos \div BlockSize
           b == OffsetToBlock(img, idx)
           next == idx * BlockSize + BlockSize
       IN IF b = 0 THEN Ext2ReadDirRestarts(img, pos + BlockSize, em)
          ELSE Ext2ReadDirRestarts(img, next, WalkBlock(img, b * BlockSize, 0, em))

\* Ext2Fs::read_dir from stream position `pos`.
RECURSIVE Ext2ReadDir(_, _, _)
Ext2ReadDir(img, pos, em) ==
  IF pos >= img.size \/ em.full THEN em
  ELSE LET idx == pos \div BlockSize
           b == OffsetToBlock(img, idx)
           next == idx * BlockSize + BlockSize
       IN IF b = 0 THEN Ext2ReadDir(img, pos + BlockSize, em)
          ELSE Ext2ReadDir(img, next,
                 WalkBlock(img, b * BlockSize, pos - idx * BlockSize, em))

\* The inner loop of Ext2Fs::lookup: the inode number, 0 when not found.
RECURSIVE FindInBlock(_, _, _, _)
FindInBlock(img, base, off, name) ==
  LET len == MappedFolio(base).len
      de == EntryAt(img, base + off)
  IN IF \/ off >= len - DentSize \/ de.rec = 0 \/ off + de.rec > len
        \/ off + DentSize + Len(de.name) > len THEN 0
     ELSE IF de.ino # 0 /\ de.name = name THEN de.ino
     ELSE FindInBlock(img, base, off + de.rec, name)

\* Ext2Fs::lookup.
RECURSIVE Ext2Lookup(_, _, _)
Ext2Lookup(img, pos, name) ==
  IF pos >= img.size THEN 0
  ELSE LET b == OffsetToBlock(img, pos \div BlockSize)
           found == IF b = 0 THEN 0 ELSE FindInBlock(img, b * BlockSize, 0, name)
       IN IF found # 0 THEN found ELSE Ext2Lookup(img, pos + BlockSize, name)

-----------------------------------------------------------------------------
(* Reading: iomap begin, through which the page cache fills a folio. *)

\* <Ext2Fs as iomap::Operations>::begin.
Begin(img, pos, length) ==
  IF pos >= img.size THEN [type |-> "Hole", offset |-> pos, length |-> length, addr |-> 0]
  ELSE LET block == pos \div BlockSize
       IN [type |-> "Mapped", offset |-> block * BlockSize, length |-> BlockSize,
           addr |-> OffsetToBlock(img, block) * BlockSize]

\* iomap_bio_read_folio: the folio at `pos`, one begin per block, zero in a
\* hole.  A device byte is its address.
IomapReadFolio(img, pos, size) ==
  [i \in 1..size |->
     LET p == pos + i - 1
         start == p - (p % BlockSize)
         m == Begin(img, start, pos + size - start)
     IN IF m.type = "Hole" THEN 0 ELSE m.addr + (p - m.offset)]
=============================================================================
