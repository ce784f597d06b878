----------------------------- MODULE DirEmitter -----------------------------
(***************************************************************************)
(* The directory stream of one iterate_shared call (rko-core/src/fs/       *)
(* dir.rs).  `room` is how many more entries the caller's buffer takes.    *)
(***************************************************************************)
EXTENDS Integers, Sequences

Emitter(pos, room) == [pos |-> pos, room |-> room, out |-> <<>>, full |-> FALSE]

\* DirEmitter::emit: the position moves only when dir_emit took the entry.
\* `full` records the FALSE it returned, on which every read_dir stops.
Emit(em, pos_inc, ino) ==
  IF em.room = 0 THEN [em EXCEPT !.full = TRUE]
  ELSE [em EXCEPT !.pos = @ + pos_inc, !.room = @ - 1, !.out = Append(@, ino)]
=============================================================================
