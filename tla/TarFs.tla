-------------------------------- MODULE TarFs --------------------------------
(***************************************************************************)
(* The tarfs sample, samples/tarfs/tarfs.rs.  An image is a record with    *)
(* the device's bytes `dev` (names and file data), the directory records   *)
(* `dents` by device offset, and the device offset and size of the file    *)
(* or directory at hand.  A record has an inode number and the place of    *)
(* its name.                                                               *)
(***************************************************************************)
EXTENDS Mapper, DirEmitter

CONSTANTS TarDentSize,  \* size_of::<DirEntry>()
          TarInodeSize, \* size_of::<Inode>()
          SectorSize,   \* SECTOR_SIZE
          MaxU64        \* u64::MAX, scaled down

\* Mutant of NameEq: every page is compared with the start of `name`.
NameEqRestarts(img, name, offset) ==
  LET cs == ForEachPage(offset, Len(name))
  IN \A i \in 1..Len(cs) : Bytes(img.dev, cs[i]) = SubSeq(name, 1, cs[i].len)

\* TarFs::name_eq: page by page, over as many bytes as `name` has.
NameEq(img, name, offset) ==
  LET cs == ForEachPage(offset, Len(name))
  IN \A i \in 1..Len(cs) :
       Bytes(img.dev, cs[i]) = SubSeq(name, cs[i].off - offset + 1,
                                      cs[i].off - offset + cs[i].len)

\* DirEntry::from_bytes_to_slice over one chunk; EIO leaves no records.
Records(img, c) ==
  IF c.len % TarDentSize # 0 THEN <<>>
  ELSE [i \in 1..(c.len \div TarDentSize) |-> img.dents[c.off + (i - 1) * TarDentSize]]

\* All records of a range, in the order the page callbacks see them.
RecordsOf(img, offset, len) ==
  FoldLeft(LAMBDA s, c : s \o Records(img, c), <<>>, ForEachPage(offset, len))

\* TarFs::lookup: the first record whose name compares equal, 0 for none.
TarLookup(img, name) ==
  LET rs == RecordsOf(img, img.offset, img.size)
      at == SelectInSeq(rs, LAMBDA r : NameEq(img, name, r.nameOff))
  IN IF at = 0 THEN 0 ELSE rs[at].ino

\* TarFs::read_dir; the early returns emit nothing.
TarReadDir(img, em) ==
  IF \/ em.pos % TarDentSize # 0
     \/ em.pos >= img.size
     \/ img.offset + img.size > Len(img.dev)
  THEN em
  ELSE FoldLeft(LAMBDA e, r : IF e.full THEN e ELSE Emit(e, TarDentSize, r.ino),
                em, RecordsOf(img, img.offset + em.pos, img.size - em.pos))

\* TarFs::read_folio: zero the folio, then copy each device page's bytes to
\* where the previous ones end.  A fresh folio holds garbage (-1).
TarReadFolio(img, pos, size) ==
  LET zeroed == FolioZeroOut([i \in 1..size |-> -1], 0, size)
      toRead == Less(size, img.size - pos)
      copy(a, c) == [folio |-> FolioWrite(a.folio, a.written, Bytes(img.dev, c)),
                     written |-> a.written + c.len]
  IN IF pos >= img.size THEN zeroed
     ELSE FoldLeft(copy, [folio |-> zeroed, written |-> 0],
                   ForEachPage(img.offset + pos, toRead)).folio

-----------------------------------------------------------------------------
\* TarFs::fill_super on a device of `sectors` sectors whose header names the
\* inode table: u64 overflow (ERANGE) and a table past the end (E2BIG) refuse.
TarMounts(sectors, table, count) ==
  LET size == sectors * SectorSize
  IN /\ sectors >= PageSize \div SectorSize
     /\ table < size
     /\ count * TarInodeSize <= MaxU64
     /\ count * TarInodeSize + table <= MaxU64
     /\ count * TarInodeSize + table <= size

\* Where TarFs::iget reads inode `ino`; ENOENT for the other numbers.
TarValid(count, ino) == ino # 0 /\ ino <= count

TarSlot(table, ino) == table + (ino - 1) * TarInodeSize
=============================================================================
