---------------------------- MODULE SparseBitmap ----------------------------
(***************************************************************************)
(* The set of sectors of a collector as sparse_bitmap.c keeps it: a tree   *)
(* of blocks of 2^Degree elements, in which an element that is not set     *)
(* anywhere below, or everywhere, is one of the pointers BLOCK_EMPTY and   *)
(* BLOCK_FULL.  A leaf (level 0) has a bit for each of its elements.       *)
(***************************************************************************)
EXTENDS Integers, Sequences, FiniteSets, SequencesExt

CONSTANTS
  Degree,      \* SPARSE_BITMAP_BLOCK_SIZE_DEGREE
  BLOCK_EMPTY,
  BLOCK_FULL

ASSUME BitmapAssumption == Degree \in Nat \ {0} /\ BLOCK_EMPTY # BLOCK_FULL

Size == 2 ^ Degree
Elements == 0 .. Size - 1

(* _calc_level: the shift drops what does not fill an element.             *)
CalcLevel[l \in Nat] ==
  IF l > Size THEN 1 + CalcLevel[l \div Size] ELSE 0

(* The indexes that a tree of this height tells apart.                     *)
Capacity(level) == Size ^ (level + 1)

(* _sparse_block_create and _sparse_block_init with BLOCK_EMPTY.           *)
NewBlock(level) ==
  [level |-> level, fill |-> 0, full |-> 0, sub |-> IF level = 0 THEN {} ELSE BLOCK_EMPTY]

(* sub of a block whose blocks_array is there.                             *)
Kids(block) ==
  IF block.sub = BLOCK_EMPTY THEN [e \in Elements |-> BLOCK_EMPTY] ELSE block.sub

-----------------------------------------------------------------------------
(* sparsebitmap_Set.  The allocation "lack" fails, if it is needed: <<l,   *)
(* "array">> or <<l, "block">>, at the block of level l.                   *)

SetLeaf(block, index) ==
  LET inx  == index % Size
      fill == IF inx \in block.sub THEN block.fill ELSE block.fill + 1
  IN [block |-> [block EXCEPT !.sub = @ \cup {inx}, !.fill = fill],
      state |-> IF fill = Size THEN "full" ELSE "use",
      res   |-> IF inx \in block.sub THEN "already" ELSE "ok"]

RECURSIVE SetIn(_, _, _)

(* A branch after the block below it was set: when that became full it is  *)
(* freed, and with the last of them the array.                             *)
SetBelow(block, index, inx, lack) ==
  LET kids == Kids(block)
      new  == kids[inx] = BLOCK_EMPTY
      sub  == SetIn(IF new THEN NewBlock(block.level - 1) ELSE kids[inx], index, lack)
      gone == sub.res = "ok" /\ sub.state = "full"
      full == IF gone THEN block.full + 1 ELSE block.full
      all  == gone /\ full = Size
  IN [block |-> [level |-> block.level,
                 fill  |-> IF new THEN block.fill + 1 ELSE block.fill,
                 full  |-> full,
                 sub   |-> IF all THEN BLOCK_FULL
                           ELSE [kids EXCEPT ![inx] = IF gone THEN BLOCK_FULL ELSE sub.block]],
      state |-> IF all THEN "full" ELSE "use",
      res   |-> sub.res]

SetBranch(block, index, lack) ==
  LET inx == (index \div Size ^ block.level) % Size
      Stay(kept, why) == [block |-> kept, state |-> "use", res |-> why]
  IN CASE block.sub = BLOCK_FULL -> Stay(block, "already")
       [] block.sub = BLOCK_EMPTY /\ lack = <<block.level, "array">> -> Stay(block, "nomem")
       [] OTHER ->
          CASE Kids(block)[inx] = BLOCK_FULL -> Stay(block, "already")
            [] Kids(block)[inx] = BLOCK_EMPTY /\ lack = <<block.level, "block">> ->
                 Stay([block EXCEPT !.sub = Kids(block)], "nomem")
            [] OTHER -> SetBelow(block, index, inx, lack)

SetIn(block, index, lack) ==
  IF block.level = 0 THEN SetLeaf(block, index) ELSE SetBranch(block, index, lack)

NoLack == <<0, "none">>
Lacks(level) == {NoLack} \cup ((1 .. level) \X {"array", "block"})

(* ... for its caller, with what it lacked.                                *)
SetIndex(block, index, lack) ==
  LET set == SetIn(block, index, lack)
  IN [map |-> set.block, res |-> IF set.res = "nomem" THEN lack[2] ELSE "ok"]

-----------------------------------------------------------------------------
(* sparsebitmap_convert2rangelist: a walk that carries the index, the open *)
(* range and the list.  rangelist_add fails the walk.failAt-th time.       *)

NoRange == [ofs |-> 0, cnt |-> 0]

(* rangelist_add of the range that was open, if there is one.              *)
AddOpen(walk) ==
  IF walk.rg.cnt = 0 THEN walk
  ELSE LET fails == walk.adds + 1 = walk.failAt
       IN [walk EXCEPT !.adds = @ + 1, !.rg = NoRange,
                       !.list = IF fails THEN @ ELSE Append(@, walk.rg),
                       !.res = IF fails THEN "nomem" ELSE "ok"]

Extend(walk, cnt) ==
  [walk EXCEPT !.rg = [ofs |-> IF @.cnt = 0 THEN walk.index ELSE @.ofs, cnt |-> @.cnt + cnt],
               !.index = @ + cnt]

RangesEmpty(block, walk) ==
  LET added == AddOpen(walk) IN [added EXCEPT !.index = @ + Size ^ block.level]

RangesFull(block, walk) == Extend(walk, Size ^ block.level)

RangesLeaf(block, walk) ==
  FoldLeft(LAMBDA w, e : IF e \in block.sub THEN Extend(w, 1)
                         ELSE LET added == AddOpen(w) IN [added EXCEPT !.index = @ + 1],
           walk, [n \in 1 .. Size |-> n - 1])

RECURSIVE RangesIn(_, _)

RangesBlock(block, walk) ==
  CASE block.sub = BLOCK_FULL  -> RangesFull(block, walk)
    [] block.sub = BLOCK_EMPTY -> RangesEmpty(block, walk)
    [] OTHER ->
       FoldLeft(LAMBDA w, kid : CASE w.res # "ok"       -> w
                                  [] kid = BLOCK_FULL   -> RangesFull(block, w)
                                  [] kid = BLOCK_EMPTY  -> RangesEmpty(block, w)
                                  [] OTHER              -> RangesIn(kid, w),
                walk, [n \in 1 .. Size |-> block.sub[n - 1]])

RangesIn(block, walk) ==
  IF block.level = 0 THEN RangesLeaf(block, walk) ELSE RangesBlock(block, walk)

Convert2Rangelist(block, failAt) ==
  LET walk == RangesIn(block, [index |-> 0, rg |-> NoRange, list |-> <<>>, adds |-> 0,
                               failAt |-> failAt, res |-> "ok"])
      end  == IF walk.res = "ok" THEN AddOpen(walk) ELSE walk
  IN [res |-> end.res, list |-> end.list]

-----------------------------------------------------------------------------
(* What a tree and a list of ranges stand for.                             *)

CoveredBy(list) == UNION {list[i].ofs .. list[i].ofs + list[i].cnt - 1 : i \in DOMAIN list}

RECURSIVE SetBelowOf(_, _)
SetBelowOf(block, first) ==
  LET From(e) == first + e * Size ^ block.level
  IN CASE block.level = 0           -> {first + e : e \in block.sub}
       [] block.sub = BLOCK_EMPTY   -> {}
       [] block.sub = BLOCK_FULL    -> first .. From(Size) - 1
       [] OTHER ->
          UNION {CASE block.sub[e] = BLOCK_EMPTY -> {}
                   [] block.sub[e] = BLOCK_FULL  -> From(e) .. From(e + 1) - 1
                   [] OTHER -> SetBelowOf(block.sub[e], From(e)) : e \in Elements}

IndexesOf(block) == SetBelowOf(block, 0)

(* The counts are those of the elements, and nothing full is left standing *)
(* as a block.                                                             *)
RECURSIVE WellFormed(_, _)
WellFormed(block, top) ==
  IF block.level = 0
  THEN block.sub \subseteq Elements /\ block.fill = Cardinality(block.sub) /\ (~top => block.fill < Size)
  ELSE \/ block.sub = BLOCK_EMPTY /\ block.fill = 0 /\ block.full = 0
       \/ block.sub = BLOCK_FULL /\ block.fill = Size /\ block.full = Size /\ top
       \/ /\ block.sub \notin {BLOCK_EMPTY, BLOCK_FULL}
          /\ block.fill = Cardinality({e \in Elements : block.sub[e] # BLOCK_EMPTY})
          /\ block.full = Cardinality({e \in Elements : block.sub[e] = BLOCK_FULL})
          /\ block.full < Size
          /\ \A e \in Elements : block.sub[e] \notin {BLOCK_EMPTY, BLOCK_FULL} =>
               block.sub[e].level = block.level - 1 /\ WellFormed(block.sub[e], FALSE)

=============================================================================
