--------------------------- MODULE MCFileSystems ---------------------------
(***************************************************************************)
(* The sample file systems on small images, the bounded mapper, and the    *)
(* mounting checks, side by side: Init picks one image.  A page has four   *)
(* bytes.  Ext2 blocks are a page (two directory records, two pointers);   *)
(* a tarfs record is two bytes, and names and file data start anywhere.    *)
(***************************************************************************)
EXTENDS FileCalls, BoundedMapper, TLC

CONSTANTS GroupSize, SbOffset, MaxLog, GoodOldInode, GoodOldFirst, RootIno

Super == INSTANCE Ext2Super

Ent(n, i) == [name |-> n, ino |-> i]
Dent(n, i, r) == [name |-> n, ino |-> i, rec |-> r]
A == <<1>>
B == <<2>>
C == <<3>>
D == <<4>>
E == <<5>>

\* Three directory blocks, the third behind the indirect block 6; a record
\* that fills its block, and a deleted one at the end.
Ext2Dir ==
  [fs |-> "ext2", kind |-> "dir", size |-> 16,
   blocks |-> (0 :> 5) @@ (1 :> 3) @@ (2 :> 6) @@ (3 :> 0) @@ (4 :> 0),
   tables |-> (6 :> ((0 :> 7) @@ (1 :> 8))),
   dents |-> (20 :> Dent(A, 11, 2)) @@ (22 :> Dent(B, 12, 2))
             @@ (12 :> Dent(C, 13, 4))
             @@ (28 :> Dent(D, 14, 2)) @@ (30 :> Dent(E, 15, 2))
             @@ (32 :> Dent(<<2, 2>>, 0, 4)),
   entries |-> <<Ent(A, 11), Ent(B, 12), Ent(C, 13), Ent(D, 14),
                Ent(E, 15)>>,
   probes |-> {A, B, C, D, E, <<2, 2>>, <<3, 1>>}]

\* Two directory blocks in one page of the device.
Ext2DirSmall ==
  [fs |-> "ext2", kind |-> "dir", size |-> 4,
   blocks |-> (0 :> 2) @@ (1 :> 3) @@ (2 :> 0) @@ (3 :> 0) @@ (4 :> 0),
   tables |-> <<>>,
   dents |-> (4 :> Dent(A, 11, 2)) @@ (6 :> Dent(B, 12, 2)),
   entries |-> <<Ent(A, 11), Ent(B, 12)>>,
   probes |-> {A, B, C}]

Ext2File ==
  [fs |-> "ext2", kind |-> "file", size |-> 14,
   blocks |-> (0 :> 5) @@ (1 :> 3) @@ (2 :> 6) @@ (3 :> 0) @@ (4 :> 0),
   tables |-> (6 :> ((0 :> 7) @@ (1 :> 9))),
   content |-> <<20, 21, 22, 23, 12, 13, 14, 15, 28, 29, 30, 31, 36, 37>>]

\* Three records at device offset 6: a page boundary after the first one.
\* The names are at offsets 1, 3 and 15; the last one crosses a page.
TarDir ==
  [fs |-> "tarfs", kind |-> "dir", offset |-> 6, size |-> 6,
   dev |-> <<0, 1, 2, 2, 1, 0, 9, 9, 9, 9, 9, 9, 0, 0, 0, 1, 3, 0>>,
   dents |-> (6 :> [ino |-> 2, nameOff |-> 1])
             @@ (8 :> [ino |-> 3, nameOff |-> 3])
             @@ (10 :> [ino |-> 4, nameOff |-> 15]),
   entries |-> <<Ent(<<1, 2>>, 2), Ent(<<2, 1>>, 3), Ent(<<1, 3>>, 4)>>,
   probes |-> {<<1, 2>>, <<2, 1>>, <<1, 3>>, <<1, 1>>, <<2, 2>>}]

\* A file of six bytes at device offset 3.
TarFile ==
  [fs |-> "tarfs", kind |-> "file", offset |-> 3, size |-> 6,
   dev |-> <<0, 0, 0, 11, 12, 13, 14, 15, 16, 99, 99, 99>>,
   content |-> <<11, 12, 13, 14, 15, 16>>]

RofsDir ==
  [fs |-> "rofs", kind |-> "dir", size |-> 0,
   inos |-> <<1, 1, 2, 3, 4>>, files |-> <<Ent(A, 2), Ent(B, 3), Ent(C, 4)>>,
   entries |-> <<Ent(<<9>>, 1), Ent(<<9, 9>>, 1), Ent(A, 2), Ent(B, 3), Ent(C, 4)>>,
   probes |-> {A, B, C, D}]

RofsFile ==
  [fs |-> "rofs", kind |-> "file", size |-> 5, content |-> <<11, 12, 13, 14, 15>>]

\* Block maps with one, two and four pointers to a block.
Maps == {[kind |-> "map", size |-> 0, bs |-> PtrSize * p] : p \in {1, 2, 4}}

\* Superblocks: group i's inode table is its third block.
Ext2Device(log, rev, isize, perGroup, groups, logical, inodes) ==
  LET bs == SbOffset * 2^log
      start == (SbOffset \div bs + 1) * bs
      first == IF bs = SbOffset THEN 1 ELSE 0
  IN [log |-> log, rev |-> rev, inodeSize |-> isize, inodesPerGroup |-> perGroup,
      logical |-> logical, magic |-> TRUE, incompat |-> {"FILETYPE"},
      roCompat |-> TRUE, rdonly |-> TRUE, firstIno |-> 3, inodesCount |-> inodes,
      blocksPerGroup |-> 8, firstDataBlock |-> first, blocksCount |-> first + 8 * groups,
      gd |-> [o \in 0..(start + 12) |->
                LET at == IF o < start THEN 0 ELSE first + 8 * (o - start)
                IN [blockBitmap |-> at, inodeBitmap |-> at + 1, inodeTable |-> at + 2]]]

Supers ==
  {[kind |-> "ext2super", size |-> 0, d |-> Ext2Device(l, r, z, p, g, b, n),
    good |-> 2^l <= PageSize /\ b <= 2^l /\ p # 0 /\ (r = 0 \/ (z # 3 /\ z <= 2^l))] :
     l \in 0..3, r \in 0..1, z \in {1, 2, 3, 4}, p \in {0, 3, 4}, g \in {1, 3, 7},
     b \in {1, 2}, n \in {6, 13}}
  \cup
  {[kind |-> "tarsuper", size |-> 0, sectors |-> s, table |-> t, count |-> c] :
     s \in 1..5, t \in 0..10, c \in 0..6}

MCImages ==
  {Ext2Dir, Ext2File, TarDir, TarFile, RofsDir, RofsFile, [kind |-> "bounded", size |-> 0]}
    \cup Maps \cup Supers

MCSmallImages == {Ext2DirSmall}
MCBound == Chunk(3, 7)
MCArguments == -1..9
MCRooms == 0..3
MCCounts == {1, 3, 6}
MCSeeks == {<<2, "Start">>, <<1, "Current">>, <<-2, "End">>, <<-9, "End">>, <<3, "Data">>,
            <<3, "Hole">>, <<20, "Data">>}

Init == FInit /\ BInit

Next ==
  \/ FNext /\ UNCHANGED bvars
  \/ img.kind = "bounded" /\ BNext /\ UNCHANGED fvars

vars == <<fvars, bvars>>

Spec == Init /\ [][Next]_vars

\* fill_super accepts every well-formed device whose blocks fit in a page.  On
\* the devices it accepts, the group descriptors are the first group_count ones
\* of the table, in order, wherever the pages cut it; every inode number iget
\* accepts is read from bytes inside its block, and no two numbers from the same
\* bytes.  In tarfs, every accepted number lies inside the device.
InodesAddressable ==
  /\ img.kind = "ext2super" =>
       LET s == Super!FillSuper(img.d)
           bs == s.blockSize
           start == (SbOffset \div bs + 1) * bs
           valid == {i \in 1..s.inodeCount : Super!Valid(s, i)}
           addr(i) == Super!Slot(s, i).base + Super!Slot(s, i).off
       IN /\ img.good => s.mounted
          /\ s.mounted =>
            /\ s.groups = [i \in 1..Len(s.groups) |-> img.d.gd[start + (i - 1) * GroupSize]]
            /\ \A i \in valid :
                 Super!Slot(s, i).off + s.inodeSize <= MappedFolio(Super!Slot(s, i).base).len
            /\ \A i, j \in valid : i < j => addr(i) + s.inodeSize <= addr(j)
  /\ img.kind = "tarsuper" =>
       (TarMounts(img.sectors, img.table, img.count) =>
          \A i \in 1..img.count : TarValid(img.count, i) =>
            TarSlot(img.table, i) + TarInodeSize <= img.sectors * SectorSize)
=============================================================================
