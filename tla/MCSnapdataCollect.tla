-------------------------- MODULE MCSnapdataCollect --------------------------
(***************************************************************************)
(* Instances of SnapdataCollect for TLC.                                   *)
(***************************************************************************)
EXTENDS SnapdataCollect, SparseBitmap

(* The bitmaps are the trees of SparseBitmap: all that setting bits leads  *)
(* to, but for those in which the array of a block was lacking.  Each of   *)
(* them has to be well formed, as SnapdataCollect relies on bitmaps only.  *)
RECURSIVE Grown(_, _)
Grown(maps, l) ==
  LET set == {SetIndex(m, p, lack) : m \in maps, p \in 0 .. l - 1, lack \in Lacks(CalcLevel[l])}
      new == {s.map : s \in {t \in set : t.res # "array"}} \ maps
  IN IF new = {} THEN maps ELSE Grown(maps \cup new, l)

Trees ==
  [l \in Lengths |-> {m \in Grown({NewBlock(CalcLevel[l])}, l) : WellFormed(m, TRUE)}]

MCMaps(l) == Trees[l]
MCRoom(l) == Capacity(CalcLevel[l])
MCNewMap(l) == NewBlock(CalcLevel[l])
MCLacks(l) == Lacks(CalcLevel[l])

Seg(first, cnt, off, magic) == [first |-> first, cnt |-> cnt, off |-> off, magic |-> magic]

(* Two files, of two segments and of one; a segment that does not begin    *)
(* with its page; one too long for the map of bits.                        *)
MCWrites ==
  {<<Seg(0, 4, 0, {0, 1, 2, 3}), Seg(4, 2, 0, {0, 1})>>,
   <<Seg(3, 3, 0, {0, 2})>>,
   <<Seg(5, 3, 1, {0, 1})>>,
   <<Seg(2, 5, 0, {0})>>}

Symmetry == Permutations(Writers)

=============================================================================
