------------------------------ MODULE RofsTest ------------------------------
(***************************************************************************)
(* The in-memory sample file system, samples/rofs_test/rofs_test.rs: a     *)
(* fixed root directory and file contents that live in the module.  An     *)
(* image has the inode numbers of the directory in order, the files that   *)
(* can be looked up, and the content of the file at hand.                  *)
(***************************************************************************)
EXTENDS Integers, Sequences, SequencesExt, DirEmitter

\* RofsTest::read_dir: skip the entries before `pos`, emit the others.
RofsReadDir(img, em) ==
  FoldLeft(LAMBDA e, ino : IF e.full THEN e ELSE Emit(e, 1, ino),
           em, SubSeq(img.inos, em.pos + 1, Len(img.inos)))

\* RofsTest::lookup in the root directory; `files` are the names it knows.
RofsLookup(img, name) ==
  LET at == SelectInSeq(img.files, LAMBDA e : e.name = name)
  IN IF at = 0 THEN 0 ELSE img.files[at].ino

\* RofsTest::read_folio on a one-page folio.
RofsReadFolio(img, pos, size) ==
  [i \in 1..size |-> IF pos + i <= Len(img.content) THEN img.content[pos + i] ELSE 0]

\* RofsTest::read_iter: the bytes handed to the iterator.
RofsReadIter(img, offset, count) ==
  LET end == IF offset + count < Len(img.content) THEN offset + count
             ELSE Len(img.content)
  IN IF offset >= Len(img.content) THEN <<>> ELSE SubSeq(img.content, offset + 1, end)

\* RofsTest::seek: only SEEK_DATA and SEEK_HOLE; the others are EINVAL.
RofsSeek(size, offset, whence) ==
  IF whence \notin {"Data", "Hole"} THEN [err |-> "EINVAL", pos |-> 0]
  ELSE IF offset < 0 \/ offset >= size THEN [err |-> "ENXIO", pos |-> 0]
  ELSE [err |-> "none", pos |-> IF whence = "Data" THEN offset ELSE size]
=============================================================================
