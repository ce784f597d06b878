---------------------------- MODULE BoundedMapper ----------------------------
(***************************************************************************)
(* A range-bounded view of a Mapper (rko-core/src/fs/mapper.rs): a caller  *)
(* splits prefixes off the view and caps it, and reads inside what it      *)
(* still holds.  `taken` is the history of the prefixes handed out, and    *)
(* `mapped` the last folio mapped through the view.                        *)
(***************************************************************************)
EXTENDS Mapper

CONSTANTS Bound,        \* the view Mapper::bounded hands out
          Arguments,    \* the Offset arguments of the calls
          MaxTaken      \* bound on the prefixes split off

ASSUME BoundAssumption ==
  Bound \in [off : Nat, len : Nat] /\ Arguments \subseteq Int

VARIABLES view, taken, mapped

bvars == <<view, taken, mapped>>

NoChunk == Chunk(0, 0)

\* Mapper::bounded.
BInit ==
  /\ view = Bound
  /\ taken = <<>>
  /\ mapped = NoChunk

\* Mutant of SplitAt: `mid` is not clamped to the view.
SplitAtUnclamped(mid) ==
  /\ Len(taken) < MaxTaken
  /\ taken' = Append(taken, Chunk(view.off, mid))
  /\ view' = Chunk(view.off + mid, view.len - mid)
  /\ mapped' = NoChunk

\* BoundedMapper::split_at: `mid` is clamped to 0..len.
SplitAt(mid) ==
  LET m == IF mid > view.len THEN view.len ELSE IF mid < 0 THEN 0 ELSE mid
  IN /\ Len(taken) < MaxTaken
     /\ taken' = Append(taken, Chunk(view.off, m))
     /\ view' = Chunk(view.off + m, view.len - m)
     /\ mapped' = NoChunk

\* BoundedMapper::cap_len.
CapLen(max) ==
  /\ max < view.len
  /\ view' = [view EXCEPT !.len = IF max < 0 THEN 0 ELSE max]
  /\ mapped' = NoChunk
  /\ UNCHANGED taken

\* BoundedMapper::mapped_folio with MappedFolio::cap; EINVAL outside the view.
BMappedFolio(rel) ==
  /\ 0 <= rel /\ rel < view.len
  /\ LET m == MappedFolio(view.off + rel)
     IN mapped' = [m EXCEPT !.len = Less(@, view.len - rel)]
  /\ UNCHANGED <<view, taken>>

BNext ==
  \E a \in Arguments : SplitAt(a) \/ CapLen(a) \/ BMappedFolio(a)

BSpec == BInit /\ [][BNext]_bvars

-----------------------------------------------------------------------------
\* The chunks cs follow one another without gap or overlap from `from` to `to`.
Tile(cs, from, to) ==
  /\ \A i \in 1..Len(cs) :
       /\ cs[i].len >= 0
       /\ cs[i].off = IF i = 1 THEN from ELSE cs[i - 1].off + cs[i - 1].len
  /\ to = IF cs = <<>> THEN from ELSE cs[Len(cs)].off + cs[Len(cs)].len

\* Whatever sequence of splits and caps, with arguments below zero or past
\* the end, the prefixes follow one another without gap or overlap, the view
\* starts where they end, nothing leaves the range the caller was given, and
\* both a mapped folio and the chunks BoundedMapper::for_each_page visits
\* stay inside the view, page by page, and cover it.
BoundedTiles ==
  /\ Tile(taken, Bound.off, view.off)
  /\ view.len >= 0 /\ view.off + view.len <= Bound.off + Bound.len
  /\ mapped # NoChunk =>
       view.off <= mapped.off /\ mapped.off + mapped.len <= view.off + view.len
  /\ LET cs == ForEachPage(view.off, view.len) IN
       /\ Tile(cs, view.off, view.off + view.len)
       /\ \A i \in 1..Len(cs) :
            /\ cs[i].len > 0
            /\ cs[i].off \div PageSize = (cs[i].off + cs[i].len - 1) \div PageSize
=============================================================================
