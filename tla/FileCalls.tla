------------------------------ MODULE FileCalls ------------------------------
(***************************************************************************)
(* A process that uses an open directory and an open file of one of the    *)
(* sample file systems through the callbacks rko-core/src/fs/vtable.rs     *)
(* wires.  The directory stream is read in getdents calls whose buffers    *)
(* take any number of entries; the file is read and sought in any order,   *)
(* while the page cache fills and drops folios on its own.                 *)
(*                                                                         *)
(*   img     the mounted image (constant after Init)                       *)
(*   dpos    f_pos of the directory; listed: what getdents returned;       *)
(*   eod     a call returned nothing although its buffer had room          *)
(*   rpos    f_pos of the file; since: f_pos after the last seek;          *)
(*   stream  what the reads since then returned                            *)
(*   cache   page index -> bytes, for the pages that are up to date        *)
(***************************************************************************)
EXTENDS Ext2, TarFs, RofsTest, FiniteSets

CONSTANTS Images,       \* directories to list, files to read, block maps
          Rooms,        \* buffer capacities, in entries
          Counts,       \* read sizes
          Seeks,        \* <<offset, whence>> arguments of lseek
          MaxBytes      \* s_maxbytes

VARIABLES img, dpos, listed, eod, rpos, since, stream, cache

dvars == <<dpos, listed, eod>>
rvars == <<rpos, since, stream, cache>>
fvars == <<img, dpos, listed, eod, rpos, since, stream, cache>>

FInit ==
  /\ img \in Images
  /\ dpos = 0 /\ listed = <<>> /\ eod = FALSE
  /\ rpos = 0 /\ since = 0 /\ stream = <<>> /\ cache = <<>>

-----------------------------------------------------------------------------
(* Directories. *)

\* iterate_shared_trampoline: the file system's read_dir on ctx.
ReadDir(room) ==
  CASE img.fs = "ext2" -> Ext2ReadDir(img, dpos, Emitter(dpos, room))
    [] img.fs = "tarfs" -> TarReadDir(img, Emitter(dpos, room))
    [] img.fs = "rofs" -> RofsReadDir(img, Emitter(dpos, room))

\* getdents: the position the call ends at is stored in the file.
Getdents(room) ==
  /\ img.kind = "dir" /\ ~eod
  /\ LET em == ReadDir(room)
     IN /\ dpos' = em.pos
        /\ listed' = listed \o em.out
        /\ eod' = (em.out = <<>> /\ ~em.full)
  /\ UNCHANGED <<img, rvars>>

\* lookup_trampoline.
LookupIn(name) ==
  CASE img.fs = "ext2" -> Ext2Lookup(img, 0, name)
    [] img.fs = "tarfs" -> TarLookup(img, name)
    [] img.fs = "rofs" -> RofsLookup(img, name)

-----------------------------------------------------------------------------
(* Files.  Tables::new wires read_iter to the file system's own when it    *)
(* has one, and to generic_file_read_iter over the page cache otherwise.   *)

HasReadIter == img.fs = "rofs"
HasSeek == img.fs = "rofs"

\* generic_file_read_iter asks the cache for pages below i_size only.
PagesOf(pos, count) ==
  {p \in 0..(img.size \div PageSize) :
     /\ p * PageSize < img.size
     /\ pos < (p + 1) * PageSize /\ p * PageSize < pos + count}

\* read_folio_trampoline, for a folio of `pages` pages: T::read_folio fills
\* it and folio_end_read marks it up to date.
ReadFolio(first, pages) ==
  LET pos == first * PageSize
      size == pages * PageSize
      folio == CASE img.fs = "ext2" -> IomapReadFolio(img, pos, size)
                 [] img.fs = "tarfs" -> TarReadFolio(img, pos, size)
                 [] img.fs = "rofs" -> RofsReadFolio(img, pos, size)
      filled == first .. (first + pages - 1)
  IN /\ img.kind = "file"
     /\ img.fs = "rofs" => pages = 1
     /\ filled \cap DOMAIN cache = {}
     /\ cache' = [p \in DOMAIN cache \cup filled |->
                    IF p \in filled
                      THEN SubSeq(folio, (p - first) * PageSize + 1,
                                  (p - first + 1) * PageSize)
                      ELSE cache[p]]
     /\ UNCHANGED <<img, dvars, rpos, since, stream>>

\* The page cache drops a clean page.
Reclaim(p) ==
  /\ p \in DOMAIN cache
  /\ cache' = [q \in DOMAIN cache \ {p} |-> cache[q]]
  /\ UNCHANGED <<img, dvars, rpos, since, stream>>

\* generic_file_read_iter once the pages are up to date.
CachedBytes(pos, count) ==
  LET end == Less(pos + count, img.size)
  IN [i \in 1..(IF end > pos THEN end - pos ELSE 0) |->
        cache[(pos + i - 1) \div PageSize][((pos + i - 1) % PageSize) + 1]]

\* read_iter_trampoline.
ReadCached(count) ==
  /\ img.kind = "file" /\ ~HasReadIter
  /\ PagesOf(rpos, count) \subseteq DOMAIN cache
  /\ LET bytes == CachedBytes(rpos, count)
     IN /\ stream' = stream \o bytes
        /\ rpos' = rpos + Len(bytes)
  /\ UNCHANGED <<img, dvars, since, cache>>

\* Mutant of ReadCustom: ki_pos is left where it was.
ReadCustomStays(count) ==
  /\ img.kind = "file" /\ HasReadIter
  /\ stream' = stream \o RofsReadIter(img, rpos, count)
  /\ UNCHANGED <<img, dvars, rpos, since, cache>>

\* custom_read_iter_trampoline: ki_pos moves by the bytes read.
ReadCustom(count) ==
  /\ img.kind = "file" /\ HasReadIter
  /\ LET bytes == RofsReadIter(img, rpos, count)
     IN /\ stream' = stream \o bytes
        /\ rpos' = rpos + Len(bytes)
  /\ UNCHANGED <<img, dvars, since, cache>>

\* generic_file_llseek: the new position, or the error.
GenericSeek(offset, whence) ==
  LET p == CASE whence = "Start" -> offset
             [] whence = "Current" -> rpos + offset
             [] whence = "End" -> img.size + offset
             [] whence = "Data" -> IF offset < img.size THEN offset ELSE -1
             [] whence = "Hole" -> IF offset < img.size THEN img.size ELSE -1
  IN [err |-> IF p < 0 \/ p > MaxBytes THEN "error" ELSE "none", pos |-> p]

\* generic_file_llseek_trampoline, and the fallback of seek_trampoline: the
\* generic seek moves f_pos.
SeekGeneric(offset, whence) ==
  LET r == GenericSeek(offset, whence)
  IN /\ img.kind = "file"
     /\ HasSeek => RofsSeek(img.size, offset, whence).err = "EINVAL"
     /\ r.err = "none"
     /\ rpos' = r.pos
     /\ since' = r.pos
     /\ stream' = <<>>
     /\ UNCHANGED <<img, dvars, cache>>

\* seek_trampoline when T::seek answers (or fails with another error): the
\* answer goes to the caller, f_pos is not written.
SeekCustom(offset, whence) ==
  /\ img.kind = "file" /\ HasSeek
  /\ RofsSeek(img.size, offset, whence).err # "EINVAL"
  /\ UNCHANGED fvars

FNext ==
  \/ \E r \in Rooms : Getdents(r)
  \/ \E p \in 0..(img.size \div PageSize), n \in 1..2 : ReadFolio(p, n)
  \/ \E p \in DOMAIN cache : Reclaim(p)
  \/ \E n \in Counts : ReadCached(n) \/ ReadCustom(n)
  \/ \E s \in Seeks : SeekGeneric(s[1], s[2]) \/ SeekCustom(s[1], s[2])

-----------------------------------------------------------------------------
(* Properties.  An image carries what it stands for: `entries`, the inode  *)
(* number of each name in directory order, and `content`.                  *)

Inos == [i \in 1..Len(img.entries) |-> img.entries[i].ino]

\* Reading a directory in any number of calls, each with a buffer of any
\* size, returns every live entry once and in directory order: the position
\* the emitter keeps when a call stops in the middle is the one the next
\* read_dir resumes from.
ListedOnce ==
  img.kind = "dir" =>
    /\ IsPrefix(listed, Inos)
    /\ eod => listed = Inos

\* A lookup finds the inode the directory gives the name, whatever block or
\* page the record and the name are in, and finds nothing for another name.
LookupExact ==
  img.kind = "dir" =>
    \A name \in img.probes :
      LookupIn(name) =
        LET at == SelectInSeq(img.entries, LAMBDA e : e.name = name)
        IN IF at = 0 THEN 0 ELSE img.entries[at].ino

\* Reads of any sizes, with seeks between them and pages coming and going
\* under them, return the bytes of the file in order and stop at its end,
\* whichever read path is wired; and a page that is up to date holds the
\* file's bytes, followed by zeroes (in ext2, by the rest of the disk block).
ReadsContent ==
  img.kind = "file" =>
    /\ rpos = since + Len(stream)
    /\ stream = SubSeq(img.content, since + 1, since + Len(stream))
    /\ \A p \in DOMAIN cache : \A i \in 1..PageSize :
         LET o == p * PageSize + i
         IN IF o <= img.size THEN cache[p][i] = img.content[o]
            ELSE img.fs # "ext2" => cache[p][i] = 0

\* The paths to a file's blocks, and the order in which they follow.
Paths(bs) ==
  LET I == 0..(Ptrs(bs) - 1)
  IN {<<d>> : d \in 0..(NDIR - 1)}
       \cup ({NDIR} \X I) \cup ({NDIR + 1} \X I \X I)
       \cup ({NDIR + 2} \X I \X I \X I)

Before(p, q) ==
  \E i \in 1..Less(Len(p), Len(q)) : p[i] < q[i] /\ \A j \in 1..(i - 1) : p[j] = q[j]

\* The four regions of Ext2Fs::offsets, with their shifts and masks, number
\* the blocks of a file one after the other: block k is the one with exactly
\* k paths before it, for every block size, up to the first block no path
\* reaches, which is refused.
BlockMapExact ==
  img.kind = "map" =>
    LET n == Cardinality(Paths(img.bs))
    IN /\ \A k \in 0..(n - 1) :
            LET p == Offsets(img.bs, k)
            IN p \in Paths(img.bs)
                 /\ Cardinality({q \in Paths(img.bs) : Before(q, p)}) = k
       /\ Offsets(img.bs, n) = EIO
=============================================================================
