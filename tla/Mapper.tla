------------------------------- MODULE Mapper -------------------------------
(***************************************************************************)
(* Page-wise access to a block device and to a page-cache folio:           *)
(* rko-core/src/fs/mapper.rs and folio.rs.  A byte range is walked in      *)
(* chunks that never leave a page; a chunk is [off, len].  A device or a   *)
(* folio is a sequence of bytes, and byte offset o is its element o + 1.   *)
(***************************************************************************)
EXTENDS Integers, Sequences, SequencesExt

CONSTANT PageSize       \* PAGE_SIZE, scaled down

ASSUME PageAssumption == PageSize \in Nat \ {0}

Less(a, b) == IF a < b THEN a ELSE b

Chunk(o, l) == [off |-> o, len |-> l]

\* Mapper::mapped_folio: the bytes from `offset` to the end of its page.
MappedFolio(offset) == Chunk(offset, PageSize - (offset % PageSize))

\* Mapper::for_each_page: the chunks the callback is given, in order.
ForEachPage(next, remain) ==
  LET end == next + remain
      walk[r \in 0..remain] ==      \* with r bytes to go
        IF r = 0 THEN <<>>
        ELSE LET avail == Less(MappedFolio(end - r).len, r)
             IN <<Chunk(end - r, avail)>> \o walk[r - avail]
  IN IF remain <= 0 THEN <<>> ELSE walk[remain]

\* The bytes of a chunk of the device.
Bytes(dev, c) == SubSeq(dev, c.off + 1, c.off + c.len)

-----------------------------------------------------------------------------
\* LockedFolio::for_each_page over a folio whose first byte is page aligned:
\* nothing (EINVAL) when the range does not fit in the folio.
FolioForEachPage(folio, offset, len) ==
  IF offset + len > Len(folio) THEN <<>> ELSE ForEachPage(offset, len)

\* LockedFolio::write: each page slice takes the next bytes of `data`.
FolioWrite(folio, offset, data) ==
  LET copy(a, c) ==
        [folio |-> [i \in 1..Len(a.folio) |->
                      IF c.off < i /\ i <= c.off + c.len
                        THEN a.rest[i - c.off] ELSE a.folio[i]],
         rest |-> SubSeq(a.rest, c.len + 1, Len(a.rest))]
  IN FoldLeft(copy, [folio |-> folio, rest |-> data],
              FolioForEachPage(folio, offset, Len(data))).folio

\* LockedFolio::zero_out.
FolioZeroOut(folio, offset, len) ==
  LET fill(f, c) == [i \in 1..Len(f) |->
                       IF c.off < i /\ i <= c.off + c.len THEN 0 ELSE f[i]]
  IN FoldLeft(fill, folio, FolioForEachPage(folio, offset, len))
=============================================================================
