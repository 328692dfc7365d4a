-------------------------- MODULE DeferredCopyProofs --------------------------
(***************************************************************************)
(* Theorems about DeferredCopy, for every number of blocks and pages, and  *)
(* every way to cut the blocks into ranges of the snapstore.               *)
(*                                                                         *)
(* No sum is needed: the pages of the bios of a stage do not meet, so the  *)
(* sectors counted are as many as the pages of the bios that were added.   *)
(***************************************************************************)
EXTENDS DeferredCopy, FiniteSetTheorems, SequenceTheorems, WellFoundedInduction, TLAPS

(* Where the thread is, and what it may have concluded.                    *)
Ended == {"copied", "freed", "parked", "left"}

PhaseInv ==
  /\ outcome # "none" <=> at \in Ended
  /\ at \in {"readWait", "storeMem", "storeWait"} => pos = Length
  /\ at \in {"read", "readWait", "storeMem"} => \A i \in DOMAIN bios : bios[i].stage = "read"
  /\ at \in {"store", "storeWait", "bug"} => store = "file"
  /\ at = "storeMem" => store = "mem"
  /\ store = "mem" => \A i \in DOMAIN bios : bios[i].stage = "read"
  /\ at \in {"parked", "left"} => outcome = "deadlock"
  /\ hurt => at = "freed"

(* The stage whose bios are being counted.                                 *)
Storing == at \in {"store", "storeWait", "bug"} \/ \E i \in DOMAIN bios : bios[i].stage = "store"

Stage == IF Storing THEN "store" ELSE "read"

(* The bios of a stage cover its pages, each of them once; those of the    *)
(* read were all added when the store begins.                              *)
Sent(stage) == IF stage = Stage THEN 1 .. pos ELSE IF Storing THEN Pages ELSE {}

CoverInv ==
  /\ \A i \in DOMAIN bios : PagesOf(bios[i]) \subseteq Sent(bios[i].stage)
  /\ \A i, j \in DOMAIN bios :
       bios[i].stage = bios[j].stage /\ PagesOf(bios[i]) \cap PagesOf(bios[j]) # {} => i = j
  /\ \A s \in Stages : \A p \in Sent(s) :
       \E i \in DOMAIN bios : bios[i].stage = s /\ p \in PagesOf(bios[i])
  /\ Storing => \A i \in DOMAIN bios : bios[i].stage = "read" => bios[i].at # "sent"

(* sect_processed                                                          *)
Added(i) == bios[i].stage = Stage /\ bios[i].at # "sent"

AddedPages == {p \in Pages : \E i \in DOMAIN bios : Added(i) /\ p \in PagesOf(bios[i])}

Counted == Cardinality(AddedPages)

CountInv == processed = Counted + IF store = "mem" /\ outcome = "ok" THEN Length ELSE 0

(* While a stage lasts, the full sum leads to a completion, and there is   *)
(* none before, but from a bio that was overtaken with the sum in hand.    *)
InStage == at \in {"read", "readWait", "store", "storeWait"}

WakeInv ==
  InStage =>
    /\ processed = Length => done > 0 \/ \E i \in DOMAIN bios : bios[i].at \in {"added", "all"}
    /\ done > 0 => processed = Length \/ \E i \in DOMAIN bios : bios[i].behind = "all"
    /\ \A i \in DOMAIN bios : bios[i].at = "all" => processed = Length \/ bios[i].behind = "all"

(* A bio that was overtaken, with something left to do in the request.     *)
BehindInv ==
  /\ \A i \in DOMAIN bios : bios[i].behind # "no" => bios[i].at # "sent"
  /\ at \in {"read", "readWait"} => \A i \in DOMAIN bios : bios[i].behind = "no"
  /\ at \in {"storeMem", "store", "storeWait"} =>
       \A i \in DOMAIN bios : bios[i].stage = "read" => bios[i].at = "over" \/ bios[i].behind # "no"

(* A copy that ended without a timeout leaves no bio that was not          *)
(* overtaken, unless it was cut off or the completion came from an earlier *)
(* stage; and so does one that was freed.                                  *)
SettledInv ==
  /\ at = "freed" \/ (at = "copied" /\ outcome # "deadlock") =>
       \/ cut \/ \E i \in DOMAIN bios : bios[i].behind = "all"
       \/ \A i \in DOMAIN bios : bios[i].at = "over" \/ bios[i].behind # "no"
  /\ FreedAlone

(* What the bios that did not fail have brought.                           *)
Exception ==
  \E i \in DOMAIN bios : bios[i].behind = "all" \/ (bios[i].behind # "no" /\ bios[i].err)

DataInv ==
  /\ \A i \in DOMAIN bios : bios[i].err /\ bios[i].at = "over" => result = "error"
  /\ \A i \in DOMAIN bios : bios[i].err => bios[i].at # "sent"
  /\ \A i \in DOMAIN bios :
       bios[i].stage = "read" /\ bios[i].at # "sent" /\ ~bios[i].err => PagesOf(bios[i]) \subseteq buffer
  /\ \A i \in DOMAIN bios :
       bios[i].stage = "store" /\ bios[i].at # "sent" /\ ~bios[i].err =>
         PagesOf(bios[i]) \subseteq stored \/ Exception
  /\ Storing \/ at = "storeMem" => buffer = Pages \/ Exception
  /\ SuccessIsHonest

IInv == PhaseInv /\ CoverInv /\ CountInv /\ WakeInv /\ BehindInv /\ SettledInv /\ DataInv

-----------------------------------------------------------------------------
(* Pages.                                                                  *)

Bio ==
  [stage : Stages, first : Pages, cnt : 1 .. BlockPages,
   at : {"sent", "added", "all", "compared", "over"}, err : BOOLEAN,
   behind : {"no", "added", "all", "compared"}]

LEMMA LengthType == Length \in Nat /\ Length # 0 /\ BlockPages \in Nat /\ Blocks \in Nat
<1>1. BlockPages \in Nat /\ BlockPages >= 1 /\ Blocks \in Nat /\ Blocks >= 1
  BY DeferredAssumption
<1>2. BlockPages * Blocks \in Nat /\ BlockPages * Blocks >= 1
  BY <1>1
<1>3. QED
  BY <1>1, <1>2 DEF Length

LEMMA FirstIn ==
  ASSUME NEW n \in Nat, NEW I \in SUBSET (1 .. n), I # {}
  PROVE  Min(I) \in I /\ \A i \in I : Min(I) <= i
<1> DEFINE R == {pair \in Nat \X Nat : pair[1] < pair[2]}
<1>1. IsWellFoundedOn(R, Nat)
  BY NatLessThanWellFounded DEF OpToRel
<1>2. I \subseteq Nat
  OBVIOUS
<1> HIDE DEF R
<1>3. PICK i \in I : \A j \in I : ~(<<j, i>> \in R)
  BY <1>1, <1>2, WFMin
<1>4. \A j \in I : i <= j
  <2>1. SUFFICES ASSUME NEW j \in I PROVE i <= j
    OBVIOUS
  <2>2. i \in Nat /\ j \in Nat
    BY <1>2
  <2>3. j < i => <<j, i>> \in R
    BY <2>2 DEF R
  <2>4. QED
    BY <1>3, <2>2, <2>3
<1>5. QED
  BY <1>4 DEF Min

(* A piece ends within the block that the next page is in.                 *)
LEMMA EndOfBlock ==
  ASSUME NEW k \in Nat, k < Length
  PROVE  \E b \in 1 .. Blocks : /\ BlockPages * b \in k + 1 .. Length
                                /\ BlockPages * b <= k + BlockPages
<1> DEFINE I == {b \in 1 .. Blocks : BlockPages * b > k}
<1>1. BlockPages \in Nat /\ BlockPages >= 1 /\ Blocks \in Nat /\ Blocks >= 1 /\ Length = BlockPages * Blocks
  BY DeferredAssumption DEF Length
<1>2. Blocks \in I
  BY <1>1
<1>3. I \in SUBSET (1 .. Blocks) /\ I # {}
  BY <1>2
<1>4. PICK b \in I : \A i \in I : b <= i
  BY <1>1, <1>3, FirstIn
<1>5. b \in Nat /\ b >= 1 /\ b <= Blocks /\ BlockPages * b > k /\ BlockPages * b \in Nat
  BY <1>1, <1>4
<1>6. BlockPages * b <= BlockPages * Blocks
  BY <1>1, <1>5
<1>7. BlockPages * b <= k + BlockPages
  <2>1. CASE b = 1
    BY <1>1, <2>1
  <2>2. CASE b # 1
    <3>1. b - 1 \in 1 .. Blocks /\ ~(b <= b - 1)
      BY <1>1, <1>5, <2>2
    <3>2. b - 1 \notin I
      BY <1>4, <3>1
    <3>3. ~(BlockPages * (b - 1) > k)
      BY <3>1, <3>2
    <3>4. BlockPages * (b - 1) = BlockPages * b - BlockPages
      BY <1>1, <1>5
    <3>5. QED
      BY <1>1, <1>5, <3>3, <3>4
  <2>3. QED
    BY <2>1, <2>2
<1>8. QED
  BY <1>1, <1>5, <1>6, <1>7

LEMMA EndOfExtentBounds ==
  ASSUME NEW stage \in Stages, pos \in Nat, pos < Length
  PROVE  EndOfExtent(stage) \in pos + 1 .. Length /\ EndOfExtent(stage) <= pos + BlockPages
<1> DEFINE I == {e \in Ends(stage) : e > pos}
<1>1. Length \in Nat /\ BlockPages \in Nat /\ BlockPages >= 1 /\ Blocks \in Nat /\ Length = BlockPages * Blocks
  BY LengthType, DeferredAssumption DEF Length
<1>2. PICK b \in 1 .. Blocks : BlockPages * b \in pos + 1 .. Length /\ BlockPages * b <= pos + BlockPages
  BY EndOfBlock
<1>3. Ends(stage) \subseteq 1 .. Length
  <2>1. ASSUME NEW c \in 1 .. Blocks PROVE BlockPages * c \in 1 .. Length
    <3>1. c \in Nat /\ c >= 1 /\ c <= Blocks
      BY <1>1
    <3>2. BlockPages * c \in Nat /\ BlockPages * c >= 1 /\ BlockPages * c <= BlockPages * Blocks
      BY <1>1, <3>1
    <3>3. QED
      BY <1>1, <3>2
  <2>2. Cuts \subseteq 1 .. Length
    BY <1>1, DeferredAssumption
  <2>3. QED
    BY <2>1, <2>2 DEF Ends
<1>4. BlockPages * b \in I
  BY <1>2 DEF Ends
<1>5. I \in SUBSET (1 .. Length) /\ I # {}
  BY <1>3, <1>4
<1>6. Min(I) \in I /\ Min(I) <= BlockPages * b
  BY <1>1, <1>4, <1>5, FirstIn
<1>7. EndOfExtent(stage) = Min(I)
  BY DEF EndOfExtent
<1> HIDE DEF I
<1>8. Min(I) \in 1 .. Length /\ Min(I) > pos
  BY <1>3, <1>6 DEF I
<1>9. QED
  BY <1>1, <1>2, <1>6, <1>7, <1>8

LEMMA IntervalSize ==
  ASSUME NEW a \in Nat, NEW n \in Nat, n >= 1
  PROVE  IsFiniteSet(a .. a + n - 1) /\ Cardinality(a .. a + n - 1) = n
<1>1. PICK b \in Int : b = a + n - 1
  OBVIOUS
<1>2. IsFiniteSet(a .. b) /\ Cardinality(a .. b) = IF a > b THEN 0 ELSE b - a + 1
  BY FS_Interval
<1>3. ~(a > b) /\ b - a + 1 = n
  BY <1>1
<1>4. QED
  BY <1>1, <1>2, <1>3

LEMMA BioTypes ==
  ASSUME TypeOK, NEW i \in DOMAIN bios
  PROVE  /\ bios[i] \in Bio /\ bios[i].stage \in Stages /\ bios[i].first \in Nat /\ bios[i].cnt \in Nat
         /\ bios[i].cnt >= 1 /\ bios[i].first \in PagesOf(bios[i])
         /\ bios[i].at \in {"sent", "added", "all", "compared", "over"} /\ bios[i].err \in BOOLEAN
         /\ bios[i].behind \in {"no", "added", "all", "compared"}
         /\ IsFiniteSet(PagesOf(bios[i])) /\ Cardinality(PagesOf(bios[i])) = bios[i].cnt
         /\ DOMAIN bios = 1 .. Len(bios) /\ Len(bios) \in Nat /\ bios \in Seq(Bio)
<1>1. bios \in Seq(Bio)
  BY DEF TypeOK, Bio
<1>2. DOMAIN bios = 1 .. Len(bios) /\ Len(bios) \in Nat
  BY <1>1, LenProperties
<1>3. bios[i] \in Bio
  BY <1>1, <1>2, ElementOfSeq
<1>4. /\ bios[i].stage \in Stages /\ bios[i].first \in Pages /\ bios[i].cnt \in 1 .. BlockPages
      /\ bios[i].at \in {"sent", "added", "all", "compared", "over"} /\ bios[i].err \in BOOLEAN
      /\ bios[i].behind \in {"no", "added", "all", "compared"}
  BY <1>3 DEF Bio
<1>5. bios[i].first \in Nat /\ bios[i].cnt \in Nat /\ bios[i].cnt >= 1
  BY <1>4, LengthType DEF Pages
<1>6. bios[i].first \in PagesOf(bios[i])
  BY <1>5 DEF PagesOf
<1>7. IsFiniteSet(PagesOf(bios[i])) /\ Cardinality(PagesOf(bios[i])) = bios[i].cnt
  BY <1>5, IntervalSize DEF PagesOf
<1>8. QED
  BY <1>1, <1>2, <1>3, <1>4, <1>5, <1>6, <1>7

LEMMA SentInPages ==
  ASSUME TypeOK, NEW s
  PROVE  Sent(s) \subseteq Pages /\ (at \in {"readWait", "storeWait"} /\ pos = Length => Sent(Stage) = Pages)
BY LengthType DEF TypeOK, Sent, Pages

LEMMA AddedFinite ==
  ASSUME TypeOK
  PROVE  /\ AddedPages \subseteq Pages /\ IsFiniteSet(AddedPages) /\ Counted \in 0 .. Length
         /\ Counted = Length => AddedPages = Pages
         /\ IsFiniteSet(Pages) /\ Cardinality(Pages) = Length
<1>1. Length \in Nat /\ Length # 0
  BY LengthType
<1>2. IsFiniteSet(Pages) /\ Cardinality(Pages) = Length
  BY <1>1, FS_Interval DEF Pages
<1>3. AddedPages \in SUBSET Pages
  BY DEF AddedPages
<1>4. /\ IsFiniteSet(AddedPages) /\ Counted <= Length
      /\ Length = Counted => Pages = AddedPages
  BY <1>2, <1>3, FS_Subset DEF Counted
<1>5. Counted \in Nat
  BY <1>4, FS_CardinalityType DEF Counted
<1>6. QED
  BY <1>1, <1>2, <1>3, <1>4, <1>5

(* When the sum is full, all bios were added, and the other way round.     *)
LEMMA FullSum ==
  ASSUME TypeOK, CoverInv, Counted = Length
  PROVE  \A i \in DOMAIN bios : bios[i].at # "sent"
<1>1. SUFFICES ASSUME NEW i \in DOMAIN bios, bios[i].at = "sent" PROVE FALSE
  OBVIOUS
<1>2. bios[i].stage \in Stages /\ bios[i].first \in PagesOf(bios[i])
  BY BioTypes
<1>3. CASE bios[i].stage = Stage
  <2>1. bios[i].first \in AddedPages
    BY <1>2, AddedFinite, SentInPages DEF CoverInv
  <2>2. PICK j \in DOMAIN bios : Added(j) /\ bios[i].first \in PagesOf(bios[j])
    BY <2>1 DEF AddedPages
  <2>3. i = j
    BY <1>2, <1>3, <2>2 DEF CoverInv, Added
  <2>4. QED
    BY <1>1, <2>2, <2>3 DEF Added
<1>4. CASE bios[i].stage # Stage
  BY <1>1, <1>2, <1>4 DEF CoverInv, Stage, Storing, Stages
<1>5. QED
  BY <1>3, <1>4

LEMMA SumIsFull ==
  ASSUME TypeOK, CoverInv, \A i \in DOMAIN bios : bios[i].at # "sent", Sent(Stage) = Pages
  PROVE  Counted = Length
<1>1. \A p \in Pages : p \in AddedPages
  BY DEF CoverInv, AddedPages, Added, Stage, Stages
<1>2. AddedPages = Pages
  BY <1>1, AddedFinite
<1>3. QED
  BY <1>2, AddedFinite DEF Counted

-----------------------------------------------------------------------------
(* Steps that send no bio: the bios keep their pages.                      *)

Shaped ==
  /\ DOMAIN bios' = DOMAIN bios /\ bios' \in Seq(Bio)
  /\ \A i \in DOMAIN bios : /\ bios'[i].stage = bios[i].stage
                            /\ bios'[i].first = bios[i].first
                            /\ bios'[i].cnt = bios[i].cnt
                            /\ PagesOf(bios'[i]) = PagesOf(bios[i])

SameStage == (Storing' <=> Storing) /\ Stage' = Stage

LEMMA StageKept ==
  ASSUME Shaped, at' \in {"store", "storeWait", "bug"} => Storing,
         Storing => at' \in {"store", "storeWait", "bug"} \/ \E i \in DOMAIN bios : bios[i].stage = "store"
  PROVE  SameStage
<1>1. Storing' <=> Storing
  BY DEF Shaped, Storing
<1>2. QED
  BY <1>1 DEF SameStage, Stage

LEMMA CoverKept ==
  ASSUME TypeOK, CoverInv, Shaped, SameStage, pos' = pos \/ (Storing /\ pos' = Length /\ pos = Length),
         \A i \in DOMAIN bios : bios'[i].at = "sent" => bios[i].at = "sent"
  PROVE  CoverInv'
<1>1. pos' = pos
  OBVIOUS
<1>2. \A s : Sent(s)' = Sent(s)
  BY <1>1 DEF SameStage, Sent, Pages, Length
<1>3. \A i \in DOMAIN bios : (PagesOf(bios[i]) \subseteq Sent(bios[i].stage))'
  <2>1. SUFFICES ASSUME NEW i \in DOMAIN bios PROVE (PagesOf(bios[i]) \subseteq Sent(bios[i].stage))'
    OBVIOUS
  <2>2. PagesOf(bios[i]) \subseteq Sent(bios[i].stage) /\ bios'[i].stage = bios[i].stage
    BY DEF CoverInv, Shaped
  <2>3. PagesOf(bios[i])' = PagesOf(bios[i])
    BY DEF Shaped
  <2>4. Sent(bios[i].stage)' = Sent(bios[i].stage)
    BY <1>1, <2>2 DEF SameStage, Sent, Pages, Length
  <2>5. QED
    BY <2>2, <2>3, <2>4
<1>4. \A i, j \in DOMAIN bios :
        bios'[i].stage = bios'[j].stage /\ PagesOf(bios'[i]) \cap PagesOf(bios'[j]) # {} => i = j
  BY DEF CoverInv, Shaped
<1>5. \A s \in Stages : \A p \in Sent(s)' :
        \E i \in DOMAIN bios : bios'[i].stage = s /\ p \in PagesOf(bios'[i])
  BY <1>2 DEF CoverInv, Shaped
<1>6. Storing' => \A i \in DOMAIN bios : bios'[i].stage = "read" => bios'[i].at # "sent"
  BY DEF CoverInv, Shaped, SameStage
<1>7. QED
  BY <1>3, <1>4, <1>5, <1>6 DEF CoverInv, Shaped

LEMMA CountedKept ==
  ASSUME Shaped, SameStage, \A i \in DOMAIN bios : bios'[i].at = "sent" <=> bios[i].at = "sent"
  PROVE  Counted' = Counted
<1>1. \A i \in DOMAIN bios : Added(i)' <=> Added(i)
  BY DEF Added, Shaped, SameStage
<1>2. AddedPages' = AddedPages
  <2>1. \A p \in Pages : (\E i \in DOMAIN bios' : Added(i)' /\ p \in PagesOf(bios'[i]))
                     <=> (\E i \in DOMAIN bios : Added(i) /\ p \in PagesOf(bios[i]))
    BY <1>1 DEF Shaped
  <2>2. Pages' = Pages
    BY DEF Pages, Length
  <2>3. QED
    BY <2>1, <2>2 DEF AddedPages
<1>3. QED
  BY <1>2 DEF Counted

(* While a bio is overtaken it keeps all but the mark.                     *)
LEMMA GoOnEffect ==
  ASSUME TypeOK, GoOn
  PROVE  /\ Shaped
         /\ \A i \in DOMAIN bios :
              /\ bios'[i].at = bios[i].at /\ bios'[i].err = bios[i].err
              /\ bios'[i].behind = IF Between(bios[i]) /\ bios[i].behind = "no" THEN bios[i].at ELSE bios[i].behind
<1>1. bios \in Seq(Bio) /\ DOMAIN bios = 1 .. Len(bios) /\ Len(bios) \in Nat
  BY LenProperties DEF TypeOK, Bio
<1>2. DOMAIN bios' = DOMAIN bios
  BY DEF GoOn
<1>3. ASSUME NEW i \in DOMAIN bios
      PROVE  /\ bios'[i] \in Bio
             /\ bios'[i].stage = bios[i].stage /\ bios'[i].first = bios[i].first /\ bios'[i].cnt = bios[i].cnt
             /\ bios'[i].at = bios[i].at /\ bios'[i].err = bios[i].err
             /\ bios'[i].behind = IF Between(bios[i]) /\ bios[i].behind = "no" THEN bios[i].at ELSE bios[i].behind
  <2>1. bios[i] \in Bio
    BY BioTypes
  <2>2. bios'[i] = IF Between(bios[i]) /\ bios[i].behind = "no"
                   THEN [bios[i] EXCEPT !.behind = bios[i].at] ELSE bios[i]
    BY DEF GoOn
  <2>3. CASE Between(bios[i]) /\ bios[i].behind = "no"
    <3>1. bios[i].at \in {"no", "added", "all", "compared"}
      BY <2>3 DEF Between
    <3>2. bios'[i] = [bios[i] EXCEPT !.behind = bios[i].at]
      BY <2>2, <2>3
    <3>3. QED
      BY <2>1, <2>3, <3>1, <3>2 DEF Bio
  <2>4. CASE ~(Between(bios[i]) /\ bios[i].behind = "no")
    BY <2>1, <2>2, <2>4
  <2>5. QED
    BY <2>3, <2>4
<1>4. bios' \in Seq(Bio)
  <2>1. bios' \in [1 .. Len(bios) -> Bio]
    BY <1>1, <1>3 DEF GoOn
  <2>2. QED
    BY <1>1, <2>1
<1>5. QED
  BY <1>2, <1>3, <1>4 DEF Shaped, PagesOf

LEMMA SameEffect ==
  ASSUME TypeOK, bios' = bios
  PROVE  Shaped
BY DEF TypeOK, Shaped, Bio, PagesOf

(* The end of bio i goes on to a place, with an error or without.          *)
EndsAt(i, place, err) == bios' = [bios EXCEPT ![i] = [@ EXCEPT !.at = place, !.err = err]]

(* A step in the end of a bio changes this bio.                            *)
LEMMA EndEffect ==
  ASSUME TypeOK, NEW i \in DOMAIN bios,
         NEW place \in {"added", "all", "compared", "over"}, NEW err \in BOOLEAN,
         EndsAt(i, place, err)
  PROVE  /\ Shaped
         /\ \A j \in DOMAIN bios :
              /\ bios'[j].at = IF j = i THEN place ELSE bios[j].at
              /\ bios'[j].err = IF j = i THEN err ELSE bios[j].err
              /\ bios'[j].behind = bios[j].behind
<1>1. bios \in Seq(Bio) /\ DOMAIN bios = 1 .. Len(bios) /\ Len(bios) \in Nat
  BY LenProperties DEF TypeOK, Bio
<1>2. bios[i] \in Bio
  BY BioTypes
<1> DEFINE new == [bios[i] EXCEPT !.at = place, !.err = err]
<1>3. /\ new \in Bio /\ new.stage = bios[i].stage /\ new.first = bios[i].first /\ new.cnt = bios[i].cnt
      /\ new.at = place /\ new.err = err /\ new.behind = bios[i].behind
  BY <1>2 DEF Bio
<1> HIDE DEF new
<1>4. bios' = [bios EXCEPT ![i] = new]
  BY DEF EndsAt, new
<1>5. \A j \in DOMAIN bios : bios'[j] = IF j = i THEN new ELSE bios[j]
  BY <1>4
<1>6. bios' \in [1 .. Len(bios) -> Bio]
  <2>1. \A j \in DOMAIN bios : bios'[j] \in Bio
    BY <1>3, <1>5, BioTypes
  <2>2. DOMAIN bios' = DOMAIN bios /\ bios' = [j \in DOMAIN bios |-> bios'[j]]
    BY <1>1, <1>4
  <2>3. QED
    BY <1>1, <2>1, <2>2
<1>7. bios' \in Seq(Bio)
  BY <1>1, <1>6
<1>8. QED
  BY <1>3, <1>4, <1>5, <1>7 DEF Shaped, PagesOf

LEMMA IInit == Init => TypeOK /\ IInv
<1> SUFFICES ASSUME Init PROVE TypeOK /\ IInv
  OBVIOUS
<1>1. /\ at = "read" /\ pos = 0 /\ bios = <<>> /\ DOMAIN bios = {} /\ bios \in Seq(Bio) /\ store \in Stores
      /\ processed = 0 /\ done = 0 /\ result = "ok" /\ outcome = "none"
      /\ buffer = {} /\ stored = {} /\ cut = FALSE /\ hurt = FALSE
  BY DEF Init
<1>2. TypeOK
  <2>1. 0 \in 0 .. Length /\ 0 \in 0 .. 2 * Length
    BY LengthType
  <2>2. QED
    BY <1>1, <2>1 DEF TypeOK, Stages, Bio
<1>3. ~Storing /\ Stage = "read"
  BY <1>1 DEF Storing, Stage
<1>4. PhaseInv
  BY <1>1, LengthType DEF PhaseInv, Ended
<1>5. CoverInv
  BY <1>1, <1>3 DEF CoverInv, Sent
<1>6. CountInv
  <2>1. AddedPages = {}
    BY <1>1 DEF AddedPages
  <2>2. QED
    BY <1>1, <2>1, FS_EmptySet DEF CountInv, Counted
<1>7. WakeInv
  BY <1>1, LengthType DEF WakeInv
<1>8. BehindInv /\ SettledInv
  BY <1>1 DEF BehindInv, SettledInv, FreedAlone
<1>9. DataInv
  BY <1>1, <1>3 DEF DataInv, SuccessIsHonest
<1>10. QED
  BY <1>2, <1>4, <1>5, <1>6, <1>7, <1>8, <1>9 DEF IInv

-----------------------------------------------------------------------------
(* The ends of the bios.                                                   *)

LEMMA EndKeeps ==
  ASSUME TypeOK, IInv, NEW i \in DOMAIN bios, bios[i].at # "over",
         NEW place \in {"added", "all", "compared", "over"}, NEW err \in BOOLEAN,
         EndsAt(i, place, err), bios[i].at = "sent" \/ err = bios[i].err,
         ~hurt, hurt' = (at = "freed"), UNCHANGED <<store, at, pos, outcome, cut>>
  PROVE  /\ Shaped /\ SameStage
         /\ \A j \in DOMAIN bios :
              /\ bios'[j].at = IF j = i THEN place ELSE bios[j].at
              /\ bios'[j].err = IF j = i THEN err ELSE bios[j].err
              /\ bios'[j].behind = bios[j].behind
         /\ PhaseInv' /\ CoverInv' /\ BehindInv' /\ SettledInv'
         /\ Exception => Exception'
<1>1. /\ Shaped
      /\ \A j \in DOMAIN bios :
           /\ bios'[j].at = IF j = i THEN place ELSE bios[j].at
           /\ bios'[j].err = IF j = i THEN err ELSE bios[j].err
           /\ bios'[j].behind = bios[j].behind
  BY EndEffect
<1>2. SameStage
  BY <1>1, StageKept DEF Storing
<1>3. PhaseInv'
  BY <1>1 DEF IInv, PhaseInv, Shaped, Length
<1>4. CoverInv'
  BY <1>1, <1>2, CoverKept DEF IInv
<1>5. BehindInv'
  BY <1>1 DEF IInv, BehindInv, Shaped
<1>6. SettledInv'
  <2>1. (at = "freed" \/ (at = "copied" /\ outcome # "deadlock") =>
          \/ cut \/ \E j \in DOMAIN bios : bios[j].behind = "all"
          \/ \A j \in DOMAIN bios : bios[j].at = "over" \/ bios[j].behind # "no")'
    BY <1>1 DEF IInv, SettledInv, Shaped
  <2>2. at = "freed" => cut \/ \E j \in DOMAIN bios : bios[j].behind # "no"
    BY DEF IInv, SettledInv
  <2>3. FreedAlone'
    BY <1>1, <2>2 DEF FreedAlone, Shaped
  <2>4. QED
    BY <2>1, <2>3 DEF SettledInv
<1>7. Exception => Exception'
  <2>1. SUFFICES ASSUME NEW j \in DOMAIN bios, bios[j].behind = "all" \/ (bios[j].behind # "no" /\ bios[j].err)
                 PROVE  Exception'
    BY DEF Exception
  <2>2. bios[j].at # "sent"
    BY <2>1 DEF IInv, BehindInv
  <2>3. bios'[j].behind = bios[j].behind /\ bios'[j].err = bios[j].err
    BY <1>1, <2>2
  <2>4. QED
    BY <1>1, <2>1, <2>3 DEF Exception, Shaped
<1>8. QED
  BY <1>1, <1>2, <1>3, <1>4, <1>5, <1>6, <1>7

(* What is left of an end that has added its sectors.                      *)
LEMMA LaterEndKeepsInv ==
  ASSUME TypeOK, IInv, NEW i \in DOMAIN bios, bios[i].at \notin {"sent", "over"},
         NEW place \in {"all", "compared", "over"}, EndsAt(i, place, bios[i].err),
         ~hurt, hurt' = (at = "freed"), UNCHANGED <<store, at, pos, outcome, cut, processed, dataVars>>,
         done' \in Nat, done' >= done, result' \in {"ok", "error"},
         result' = result \/ result' = "error",
         place = "over" /\ bios[i].err => result' = "error",
         WakeInv'
  PROVE  TypeOK' /\ IInv'
<1>1. bios[i].err \in BOOLEAN
  BY BioTypes
<1>2. /\ Shaped /\ SameStage
      /\ \A j \in DOMAIN bios :
           /\ bios'[j].at = IF j = i THEN place ELSE bios[j].at
           /\ bios'[j].err = bios[j].err
           /\ bios'[j].behind = bios[j].behind
      /\ PhaseInv' /\ CoverInv' /\ BehindInv' /\ SettledInv'
      /\ Exception => Exception'
  BY <1>1, EndKeeps
<1>3. CountInv'
  <2>1. Counted' = Counted
    BY <1>2, CountedKept
  <2>2. QED
    BY <2>1 DEF IInv, CountInv, Length
<1>4. buffer' = buffer /\ stored' = stored
  BY DEF dataVars
<1>5. DataInv'
  <2>1. \A j \in DOMAIN bios : bios'[j].err /\ bios'[j].at = "over" => result' = "error"
    BY <1>2 DEF IInv, DataInv
  <2>2. \A j \in DOMAIN bios : bios'[j].err => bios'[j].at # "sent"
    BY <1>2 DEF IInv, DataInv
  <2>3. \A j \in DOMAIN bios :
          bios'[j].stage = "read" /\ bios'[j].at # "sent" /\ ~bios'[j].err => PagesOf(bios'[j]) \subseteq buffer
    BY <1>2 DEF IInv, DataInv, Shaped
  <2>4. \A j \in DOMAIN bios :
          bios'[j].stage = "store" /\ bios'[j].at # "sent" /\ ~bios'[j].err =>
            PagesOf(bios'[j]) \subseteq stored \/ Exception'
    BY <1>2 DEF IInv, DataInv, Shaped
  <2>5. Storing' \/ at' = "storeMem" => buffer = Pages \/ Exception'
    BY <1>2 DEF IInv, DataInv, SameStage
  <2>6. SuccessIsHonest'
    <3>1. at \in {"copied", "freed"} /\ outcome = "ok" => stored = Pages \/ Exception
      BY DEF IInv, DataInv, SuccessIsHonest, Exception
    <3>2. at \in {"copied", "freed"} /\ outcome = "ok" => stored = Pages \/ Exception'
      BY <1>2, <3>1
    <3>3. QED
      BY <1>4, <3>2 DEF SuccessIsHonest, Exception, Pages, Length
  <2>7. QED
    BY <1>2, <1>4, <2>1, <2>2, <2>3, <2>4, <2>5, <2>6 DEF DataInv, Shaped, Pages, Length
<1>6. TypeOK'
  BY <1>2, <1>4 DEF TypeOK, Shaped, Bio, Pages, Length
<1>7. QED
  BY <1>2, <1>3, <1>5, <1>6 DEF IInv

LEMMA EndsAtForms ==
  ASSUME TypeOK, NEW i \in DOMAIN bios, NEW place, NEW err
  PROVE  /\ bios' = [bios EXCEPT ![i].at = place, ![i].err = err] => EndsAt(i, place, err)
         /\ bios' = [bios EXCEPT ![i].at = place] => EndsAt(i, place, bios[i].err)
<1>1. bios[i] \in Bio /\ bios \in Seq(Bio) /\ DOMAIN bios = 1 .. Len(bios)
  BY BioTypes
<1>2. bios \in [1 .. Len(bios) -> Bio]
  BY <1>1
<1>3. ASSUME bios' = [bios EXCEPT ![i].at = place, ![i].err = err] PROVE EndsAt(i, place, err)
  BY <1>1, <1>2, <1>3 DEF EndsAt, Bio
<1>4. ASSUME bios' = [bios EXCEPT ![i].at = place] PROVE EndsAt(i, place, bios[i].err)
  <2>1. [bios[i] EXCEPT !.at = place] = [bios[i] EXCEPT !.at = place, !.err = bios[i].err]
    BY <1>1 DEF Bio
  <2>2. bios' = [bios EXCEPT ![i] = [bios[i] EXCEPT !.at = place]]
    BY <1>4
  <2>3. QED
    BY <2>1, <2>2 DEF EndsAt
<1>5. QED
  BY <1>3, <1>4

(* The bios that were not added yet belong to the stage that is counted.   *)
LEMMA SentIsOfStage ==
  ASSUME TypeOK, CoverInv, NEW i \in DOMAIN bios, bios[i].at = "sent"
  PROVE  bios[i].stage = Stage
<1>1. bios[i].stage \in Stages
  BY BioTypes
<1>2. QED
  BY <1>1 DEF CoverInv, Stage, Storing, Stages

LEMMA AddingCounts ==
  ASSUME TypeOK, CoverInv, NEW i \in DOMAIN bios, bios[i].at = "sent", Shaped, SameStage,
         \A j \in DOMAIN bios : bios'[j].at = IF j = i THEN "added" ELSE bios[j].at
  PROVE  Counted' = Counted + bios[i].cnt /\ Counted' \in 0 .. Length
<1>1. /\ IsFiniteSet(PagesOf(bios[i])) /\ Cardinality(PagesOf(bios[i])) = bios[i].cnt
      /\ bios[i].cnt \in Nat
  BY BioTypes
<1>2. PagesOf(bios[i]) \subseteq Pages
  BY SentInPages DEF CoverInv
<1>3. \A j \in DOMAIN bios : Added(j)' <=> j = i \/ Added(j)
  BY SentIsOfStage DEF Added, Shaped, SameStage
<1>4. AddedPages' = AddedPages \cup PagesOf(bios[i])
  <2>1. \A p \in Pages : (\E j \in DOMAIN bios' : Added(j)' /\ p \in PagesOf(bios'[j]))
                     <=> p \in PagesOf(bios[i]) \/ (\E j \in DOMAIN bios : Added(j) /\ p \in PagesOf(bios[j]))
    BY <1>3 DEF Shaped
  <2>2. Pages' = Pages
    BY DEF Pages, Length
  <2>3. QED
    BY <1>2, <2>1, <2>2 DEF AddedPages
<1>5. AddedPages \cap PagesOf(bios[i]) = {}
  <2>1. SUFFICES ASSUME NEW p \in AddedPages, p \in PagesOf(bios[i]) PROVE FALSE
    OBVIOUS
  <2>2. PICK j \in DOMAIN bios : Added(j) /\ p \in PagesOf(bios[j])
    BY DEF AddedPages
  <2>3. bios[j].stage = bios[i].stage /\ PagesOf(bios[j]) \cap PagesOf(bios[i]) # {}
    BY <2>1, <2>2, SentIsOfStage DEF Added
  <2>4. j = i
    BY <2>3 DEF CoverInv
  <2>5. QED
    BY <2>2, <2>4 DEF Added
<1>6. /\ AddedPages \subseteq Pages /\ IsFiniteSet(AddedPages) /\ Counted \in Nat
      /\ IsFiniteSet(Pages) /\ Cardinality(Pages) = Length /\ Length \in Nat
  BY AddedFinite, LengthType
<1>7. Cardinality(AddedPages \cup PagesOf(bios[i])) = Counted + bios[i].cnt
  <2>1. Cardinality(AddedPages \cup PagesOf(bios[i]))
          = Cardinality(AddedPages) + Cardinality(PagesOf(bios[i])) - Cardinality(AddedPages \cap PagesOf(bios[i]))
    BY <1>1, <1>6, FS_Union
  <2>2. Cardinality(AddedPages \cap PagesOf(bios[i])) = 0
    BY <1>5, FS_EmptySet
  <2>3. QED
    BY <1>1, <1>6, <2>1, <2>2 DEF Counted
<1>8. Cardinality(AddedPages \cup PagesOf(bios[i])) <= Length
  BY <1>2, <1>6, FS_Subset
<1>9. QED
  BY <1>1, <1>4, <1>6, <1>7, <1>8 DEF Counted

LEMMA AddSectorsKeepsInv ==
  ASSUME TypeOK, IInv, NEW i \in DOMAIN bios, bios[i].at = "sent", NEW err \in BOOLEAN,
         EndsAt(i, "added", err),
         buffer' = IF err \/ bios[i].stage = "store" THEN buffer ELSE buffer \cup PagesOf(bios[i]),
         stored' = IF err \/ bios[i].stage = "read" THEN stored
                   ELSE stored \cup (PagesOf(bios[i]) \cap buffer),
         processed' = processed + bios[i].cnt,
         ~hurt, hurt' = (at = "freed"), UNCHANGED <<store, at, pos, outcome, cut, done, result>>
  PROVE  TypeOK' /\ IInv'
<1>1. /\ Shaped /\ SameStage
      /\ \A j \in DOMAIN bios :
           /\ bios'[j].at = IF j = i THEN "added" ELSE bios[j].at
           /\ bios'[j].err = IF j = i THEN err ELSE bios[j].err
           /\ bios'[j].behind = bios[j].behind
      /\ PhaseInv' /\ CoverInv' /\ BehindInv' /\ SettledInv'
      /\ Exception => Exception'
  BY EndKeeps
<1>2. /\ Counted' = Counted + bios[i].cnt /\ Counted' \in 0 .. Length /\ Counted \in Nat /\ Length \in Nat
      /\ bios[i].cnt \in Nat /\ bios[i].stage \in Stages /\ PagesOf(bios[i]) \subseteq Pages
  BY <1>1, AddingCounts, AddedFinite, LengthType, BioTypes, SentInPages DEF IInv, CoverInv
<1>3. CountInv' /\ processed' \in 0 .. 2 * Length
  <2>1. processed = Counted + IF store = "mem" /\ outcome = "ok" THEN Length ELSE 0
    BY DEF IInv, CountInv
  <2>2. processed' = Counted' + IF store = "mem" /\ outcome = "ok" THEN Length ELSE 0
    BY <1>2, <2>1
  <2>3. QED
    BY <1>2, <2>2 DEF CountInv, Length
<1>4. InStage => processed # Length
  <2>1. ASSUME InStage, processed = Length PROVE FALSE
    <3>1. outcome = "none"
      BY <2>1 DEF InStage, IInv, PhaseInv, Ended
    <3>2. Counted = Length
      BY <1>2, <2>1, <3>1 DEF IInv, CountInv
    <3>3. QED
      BY <3>2, FullSum DEF IInv
  <2>2. QED
    BY <2>1
<1>5. WakeInv'
  <2>1. InStage' => InStage
    BY DEF InStage
  <2>2. bios'[i].at = "added" /\ DOMAIN bios' = DOMAIN bios
    BY <1>1 DEF Shaped
  <2>3. InStage => (done > 0 => \E j \in DOMAIN bios : bios'[j].behind = "all")
    BY <1>1, <1>4 DEF IInv, WakeInv
  <2>4. InStage => \A j \in DOMAIN bios : bios'[j].at = "all" => bios'[j].behind = "all"
    BY <1>1, <1>4 DEF IInv, WakeInv
  <2>5. QED
    BY <2>1, <2>2, <2>3, <2>4 DEF WakeInv
<1>6. buffer \subseteq buffer' /\ stored \subseteq stored' /\ buffer' \subseteq Pages /\ stored' \subseteq Pages
  BY <1>2 DEF TypeOK
<1>7. DataInv'
  <2>1. \A j \in DOMAIN bios : bios'[j].err /\ bios'[j].at = "over" => result' = "error"
    BY <1>1 DEF IInv, DataInv
  <2>2. \A j \in DOMAIN bios : bios'[j].err => bios'[j].at # "sent"
    BY <1>1 DEF IInv, DataInv
  <2>3. \A j \in DOMAIN bios :
          bios'[j].stage = "read" /\ bios'[j].at # "sent" /\ ~bios'[j].err => PagesOf(bios'[j]) \subseteq buffer'
    <3>1. SUFFICES ASSUME NEW j \in DOMAIN bios, bios'[j].stage = "read", bios'[j].at # "sent", ~bios'[j].err
                   PROVE  PagesOf(bios[j]) \subseteq buffer'
      BY <1>1 DEF Shaped
    <3>2. CASE j = i
      BY <1>1, <3>1, <3>2 DEF Shaped
    <3>3. CASE j # i
      BY <1>1, <1>6, <3>1, <3>3 DEF Shaped, IInv, DataInv
    <3>4. QED
      BY <3>2, <3>3
  <2>4. \A j \in DOMAIN bios :
          bios'[j].stage = "store" /\ bios'[j].at # "sent" /\ ~bios'[j].err =>
            PagesOf(bios'[j]) \subseteq stored' \/ Exception'
    <3>1. SUFFICES ASSUME NEW j \in DOMAIN bios, bios'[j].stage = "store", bios'[j].at # "sent", ~bios'[j].err
                   PROVE  PagesOf(bios[j]) \subseteq stored' \/ Exception'
      BY <1>1 DEF Shaped
    <3>2. CASE j = i
      <4>1. bios[i].stage = "store" /\ ~err /\ Storing
        BY <1>1, <3>1, <3>2 DEF Shaped, Storing
      <4>2. buffer = Pages \/ Exception
        BY <4>1 DEF IInv, DataInv
      <4>3. QED
        BY <1>1, <1>2, <3>2, <4>1, <4>2
    <3>3. CASE j # i
      BY <1>1, <1>6, <3>1, <3>3 DEF Shaped, IInv, DataInv
    <3>4. QED
      BY <3>2, <3>3
  <2>5. Storing' \/ at' = "storeMem" => buffer' = Pages \/ Exception'
    BY <1>1, <1>6 DEF IInv, DataInv, SameStage
  <2>6. SuccessIsHonest'
    <3>1. at \in {"copied", "freed"} /\ outcome = "ok" => stored = Pages \/ Exception
      BY DEF IInv, DataInv, SuccessIsHonest, Exception
    <3>2. at \in {"copied", "freed"} /\ outcome = "ok" => stored' = Pages \/ Exception'
      BY <1>1, <1>6, <3>1
    <3>3. QED
      BY <3>2 DEF SuccessIsHonest, Exception, Pages, Length
  <2>7. QED
    BY <1>1, <2>1, <2>2, <2>3, <2>4, <2>5, <2>6 DEF DataInv, Shaped, Pages, Length
<1>8. TypeOK'
  BY <1>1, <1>3, <1>6 DEF TypeOK, Shaped, Bio, Pages, Length
<1>9. QED
  BY <1>1, <1>3, <1>5, <1>7, <1>8 DEF IInv

LEMMA BioEndKeepsInv ==
  ASSUME TypeOK, IInv, NEW i \in DOMAIN bios, BioEnd(i)
  PROVE  TypeOK' /\ IInv'
<1>1. ~hurt /\ hurt' = (at = "freed") /\ UNCHANGED <<store, at, pos, outcome, cut>>
  BY DEF BioEnd
<1>2. /\ bios[i].err \in BOOLEAN /\ DOMAIN bios = 1 .. Len(bios) /\ bios \in Seq(Bio)
      /\ Rest(bios[i]) \in {"compared", "over"} /\ (Rest(bios[i]) = "over" => ~bios[i].err)
  BY BioTypes DEF Rest
<1>3. done \in Nat /\ result \in {"ok", "error"}
  BY DEF TypeOK
<1>4. CASE AddSectors(i)
  <2>1. PICK err \in BOOLEAN :
          /\ bios' = [bios EXCEPT ![i].at = "added", ![i].err = err]
          /\ buffer' = IF err \/ bios[i].stage = "store" THEN buffer ELSE buffer \cup PagesOf(bios[i])
          /\ stored' = IF err \/ bios[i].stage = "read" THEN stored
                       ELSE stored \cup (PagesOf(bios[i]) \cap buffer)
    BY <1>4 DEF AddSectors
  <2>2. EndsAt(i, "added", err)
    BY <2>1, EndsAtForms
  <2>3. bios[i].at = "sent" /\ processed' = processed + bios[i].cnt /\ UNCHANGED <<done, result>>
    BY <1>4 DEF AddSectors
  <2>4. UNCHANGED <<store, at, pos, outcome, cut, done, result>>
    BY <1>1, <2>3
  <2>5. QED
    BY <1>1, <2>1, <2>2, <2>3, <2>4, AddSectorsKeepsInv
<1>5. CASE ReadSum(i)
  <2> DEFINE place == IF processed = Length THEN "all" ELSE Rest(bios[i])
  <2>1. /\ bios[i].at = "added" /\ UNCHANGED <<processed, done, result, dataVars>>
        /\ bios' = [bios EXCEPT ![i].at = place]
    BY <1>5 DEF ReadSum, requestVars
  <2>2. /\ place \in {"all", "compared", "over"} /\ (place = "over" => ~bios[i].err)
        /\ (processed = Length <=> place = "all")
    BY <1>2
  <2> HIDE DEF place
  <2>3. EndsAt(i, place, bios[i].err)
    BY <2>1, EndsAtForms
  <2>4. /\ DOMAIN bios' = DOMAIN bios
        /\ \A j \in DOMAIN bios : /\ bios'[j].at = IF j = i THEN place ELSE bios[j].at
                                  /\ bios'[j].behind = bios[j].behind
    BY <1>2, <2>2, <2>3, EndEffect DEF Shaped
  <2>5. WakeInv'
    BY <1>1, <2>1, <2>2, <2>4 DEF IInv, WakeInv, InStage, Length
  <2>6. /\ UNCHANGED <<store, at, pos, outcome, cut, processed, dataVars>>
        /\ done' \in Nat /\ done' >= done /\ result' \in {"ok", "error"} /\ result' = result
    BY <1>1, <1>3, <2>1
  <2>7. QED
    BY <1>1, <2>1, <2>2, <2>3, <2>5, <2>6, LaterEndKeepsInv
<1>6. CASE CallComplete(i)
  <2> DEFINE place == Rest(bios[i])
  <2>1. /\ bios[i].at = "all" /\ UNCHANGED <<processed, result, dataVars>> /\ done' = done + 1
        /\ bios' = [bios EXCEPT ![i].at = place]
    BY <1>6 DEF CallComplete
  <2>2. place \in {"compared", "over"} /\ (place = "over" => ~bios[i].err)
    BY <1>2
  <2> HIDE DEF place
  <2>3. EndsAt(i, place, bios[i].err)
    BY <2>1, EndsAtForms
  <2>4. /\ DOMAIN bios' = DOMAIN bios
        /\ \A j \in DOMAIN bios : /\ bios'[j].at = IF j = i THEN place ELSE bios[j].at
                                  /\ bios'[j].behind = bios[j].behind
    BY <1>2, <2>2, <2>3, EndEffect DEF Shaped
  <2>5. done' > 0
    BY <1>3, <2>1
  <2>6. WakeInv'
    BY <1>1, <2>1, <2>2, <2>4, <2>5 DEF IInv, WakeInv, InStage, Length
  <2>7. /\ UNCHANGED <<store, at, pos, outcome, cut, processed, dataVars>>
        /\ done' \in Nat /\ done' >= done /\ result' \in {"ok", "error"} /\ result' = result
    BY <1>1, <1>3, <2>1
  <2>8. QED
    BY <1>1, <2>1, <2>2, <2>3, <2>6, <2>7, LaterEndKeepsInv
<1>7. CASE LeaveError(i)
  <2>1. /\ bios[i].at = "compared" /\ UNCHANGED <<processed, done, dataVars>> /\ result' = "error"
        /\ bios' = [bios EXCEPT ![i].at = "over"]
    BY <1>7 DEF LeaveError
  <2>2. EndsAt(i, "over", bios[i].err)
    BY <2>1, EndsAtForms
  <2>3. /\ DOMAIN bios' = DOMAIN bios
        /\ \A j \in DOMAIN bios : /\ bios'[j].at = IF j = i THEN "over" ELSE bios[j].at
                                  /\ bios'[j].behind = bios[j].behind
    BY <1>2, <2>2, EndEffect DEF Shaped
  <2>4. WakeInv'
    BY <1>1, <2>1, <2>3 DEF IInv, WakeInv, InStage, Length
  <2>5. /\ UNCHANGED <<store, at, pos, outcome, cut, processed, dataVars>>
        /\ done' \in Nat /\ done' >= done /\ result' \in {"ok", "error"}
    BY <1>1, <1>3, <2>1
  <2>6. QED
    BY <1>1, <2>1, <2>2, <2>4, <2>5, LaterEndKeepsInv
<1>8. QED
  BY <1>4, <1>5, <1>6, <1>7 DEF BioEnd

-----------------------------------------------------------------------------
(* Steps of the thread that leave the bios as they are.                    *)

LEMMA QuietKeeps ==
  ASSUME TypeOK, IInv, UNCHANGED <<store, pos, bios, hurt>>,
         at \in {"store", "storeWait"} => at' \in {"store", "storeWait", "bug"} \/ pos = Length,
         at' \in {"store", "storeWait", "bug"} => at \in {"store", "storeWait", "bug"},
         at # "bug"
  PROVE  /\ Shaped /\ SameStage /\ CoverInv' /\ Counted' = Counted /\ (Exception' <=> Exception)
         /\ bios \in Seq(Bio)
<1>1. Shaped
  BY SameEffect
<1>2. SameStage
  <2>1. at' \in {"store", "storeWait", "bug"} => Storing
    BY DEF Storing
  <2>2. Storing => at' \in {"store", "storeWait", "bug"} \/ \E i \in DOMAIN bios : bios[i].stage = "store"
    <3>1. CASE at \in {"store", "storeWait"} /\ pos = Length
      <4>1. Storing /\ Stage = "store" /\ Sent("store") = 1 .. Length /\ 1 \in 1 .. Length
        BY <3>1, LengthType DEF Storing, Stage, Sent
      <4>2. \E i \in DOMAIN bios : bios[i].stage = "store"
        BY <4>1 DEF IInv, CoverInv, Stages
      <4>3. QED
        BY <4>2
    <3>2. CASE ~(at \in {"store", "storeWait"} /\ pos = Length)
      BY <3>2 DEF Storing
    <3>3. QED
      BY <3>1, <3>2
  <2>3. QED
    BY <1>1, <2>1, <2>2, StageKept
<1>3. CoverInv'
  BY <1>1, <1>2, CoverKept DEF IInv
<1>4. Counted' = Counted
  BY <1>1, <1>2, CountedKept
<1>5. Exception' <=> Exception
  BY DEF Exception
<1>6. QED
  BY <1>1, <1>2, <1>3, <1>4, <1>5 DEF TypeOK, Bio

LEMMA SubmitFailsKeepsInv ==
  ASSUME TypeOK, IInv, NEW stage \in Stages, SubmitFails(stage)
  PROVE  TypeOK' /\ IInv'
<1>1. /\ at = stage /\ UNCHANGED <<store, pos, bios, processed, done, result, buffer, stored, hurt>>
      /\ stage = "read" => /\ at' = "copied" /\ outcome' = "error"
                           /\ cut' = \E i \in DOMAIN bios : bios[i].at # "over"
      /\ stage = "store" => at' = "bug" /\ UNCHANGED <<outcome, cut>>
      /\ stage \in {"read", "store"}
  BY DEF SubmitFails, requestVars, dataVars, Stages
<1>2. SameStage /\ CoverInv' /\ Counted' = Counted /\ (Exception' <=> Exception)
  BY <1>1, QuietKeeps
<1>3. outcome = "none" /\ ~hurt
  BY <1>1 DEF IInv, PhaseInv, Ended
<1>4. TypeOK'
  BY <1>1 DEF TypeOK, Pages, Length
<1>5. PhaseInv'
  BY <1>1, <1>3 DEF IInv, PhaseInv, Ended, Length
<1>6. CountInv'
  BY <1>1, <1>2, <1>3 DEF IInv, CountInv, Length
<1>7. WakeInv' /\ BehindInv'
  BY <1>1 DEF IInv, WakeInv, BehindInv, InStage
<1>8. SettledInv'
  BY <1>1, <1>3 DEF IInv, SettledInv, FreedAlone
<1>9. DataInv'
  <2>1. ~(at' \in {"copied", "freed"} /\ outcome' = "ok")
    BY <1>1
  <2>2. SuccessIsHonest'
    BY <2>1 DEF SuccessIsHonest
  <2>3. Storing' \/ at' = "storeMem" => buffer = Pages \/ Exception
    BY <1>1, <1>2 DEF IInv, DataInv, SameStage
  <2>4. QED
    BY <1>1, <1>2, <2>2, <2>3 DEF IInv, DataInv, Pages, Length, PagesOf
<1>10. QED
  BY <1>2, <1>4, <1>5, <1>6, <1>7, <1>8, <1>9 DEF IInv

LEMMA SubmittedKeepsInv ==
  ASSUME TypeOK, IInv, NEW stage \in Stages, Submitted(stage)
  PROVE  TypeOK' /\ IInv'
<1>1. /\ at = stage /\ pos = Length
      /\ UNCHANGED <<store, pos, bios, processed, done, result, outcome, buffer, stored, cut, hurt>>
      /\ at' = IF stage = "read" THEN "readWait" ELSE "storeWait"
      /\ stage \in {"read", "store"}
  BY DEF Submitted, requestVars, dataVars, history, Stages
<1>2. SameStage /\ CoverInv' /\ Counted' = Counted /\ (Exception' <=> Exception)
  BY <1>1, QuietKeeps
<1>3. outcome = "none" /\ ~hurt
  BY <1>1 DEF IInv, PhaseInv, Ended
<1>4. TypeOK'
  BY <1>1 DEF TypeOK, Pages, Length
<1>5. PhaseInv'
  BY <1>1, <1>3 DEF IInv, PhaseInv, Ended, Length
<1>6. CountInv'
  BY <1>1, <1>2, <1>3 DEF IInv, CountInv, Length
<1>7. WakeInv' /\ BehindInv'
  BY <1>1 DEF IInv, WakeInv, BehindInv, InStage, Length
<1>8. SettledInv'
  BY <1>1, <1>3 DEF IInv, SettledInv, FreedAlone
<1>9. DataInv'
  <2>1. ~(at' \in {"copied", "freed"} /\ outcome' = "ok")
    BY <1>1
  <2>2. SuccessIsHonest'
    BY <2>1 DEF SuccessIsHonest
  <2>3. Storing' \/ at' = "storeMem" => buffer = Pages \/ Exception
    BY <1>1, <1>2 DEF IInv, DataInv, SameStage
  <2>4. QED
    BY <1>1, <1>2, <2>2, <2>3 DEF IInv, DataInv, Pages, Length, PagesOf
<1>10. QED
  BY <1>2, <1>4, <1>5, <1>6, <1>7, <1>8, <1>9 DEF IInv

LEMMA StoreMemKeepsInv ==
  ASSUME TypeOK, IInv, StoreMem
  PROVE  TypeOK' /\ IInv'
<1>1. /\ at = "storeMem" /\ at' = "copied" /\ outcome' = "ok" /\ stored' = buffer
      /\ processed' = processed + Length
      /\ done' = IF processed' = Length THEN done + 1 ELSE done
      /\ UNCHANGED <<store, pos, bios, result, buffer, cut, hurt>>
  BY DEF StoreMem, history
<1>2. SameStage /\ CoverInv' /\ Counted' = Counted /\ (Exception' <=> Exception)
  BY <1>1, QuietKeeps
<1>3. outcome = "none" /\ ~hurt /\ store = "mem" /\ \A i \in DOMAIN bios : bios[i].stage = "read"
  BY <1>1 DEF IInv, PhaseInv, Ended
<1>4. /\ processed = Counted /\ processed \in 0 .. Length /\ processed' \in 0 .. 2 * Length
      /\ done' \in Nat /\ Length \in Nat
  <2>1. processed = Counted
    BY <1>3, AddedFinite DEF IInv, CountInv
  <2>2. processed \in 0 .. Length /\ Length \in Nat /\ done \in Nat
    BY <2>1, AddedFinite, LengthType DEF TypeOK
  <2>3. QED
    BY <1>1, <2>1, <2>2
<1>5. TypeOK'
  BY <1>1, <1>4 DEF TypeOK, Pages, Length
<1>6. PhaseInv'
  BY <1>1, <1>3 DEF IInv, PhaseInv, Ended, Length
<1>7. CountInv'
  BY <1>1, <1>2, <1>3, <1>4 DEF CountInv, Length
<1>8. WakeInv' /\ BehindInv'
  BY <1>1 DEF IInv, WakeInv, BehindInv, InStage
<1>9. SettledInv'
  BY <1>1, <1>3 DEF IInv, SettledInv, FreedAlone, BehindInv
<1>10. DataInv'
  <2>1. buffer = Pages \/ Exception
    BY <1>1 DEF IInv, DataInv
  <2>2. SuccessIsHonest'
    BY <1>1, <2>1 DEF SuccessIsHonest, Exception, Pages, Length
  <2>3. QED
    BY <1>1, <1>2, <1>3, <2>1, <2>2 DEF IInv, DataInv, Pages, Length, PagesOf
<1>11. QED
  BY <1>2, <1>5, <1>6, <1>7, <1>8, <1>9, <1>10 DEF IInv

LEMMA TimeoutKeepsInv ==
  ASSUME TypeOK, IInv, Timeout
  PROVE  TypeOK' /\ IInv'
<1>1. /\ at \in {"readWait", "storeWait"} /\ at' = "copied" /\ outcome' = "deadlock"
      /\ UNCHANGED <<store, pos, bios, processed, done, result, buffer, stored, cut, hurt>>
  BY DEF Timeout, requestVars, dataVars, history
<1>2. pos = Length /\ outcome = "none" /\ ~hurt
  BY <1>1 DEF IInv, PhaseInv, Ended
<1>3. SameStage /\ CoverInv' /\ Counted' = Counted /\ (Exception' <=> Exception)
  BY <1>1, <1>2, QuietKeeps
<1>4. TypeOK'
  BY <1>1 DEF TypeOK, Pages, Length
<1>5. PhaseInv'
  BY <1>1, <1>2 DEF IInv, PhaseInv, Ended, Length
<1>6. CountInv'
  BY <1>1, <1>2, <1>3 DEF IInv, CountInv, Length
<1>7. WakeInv' /\ BehindInv'
  BY <1>1 DEF IInv, WakeInv, BehindInv, InStage
<1>8. SettledInv'
  BY <1>1, <1>2 DEF IInv, SettledInv, FreedAlone
<1>9. DataInv'
  <2>1. SuccessIsHonest'
    BY <1>1 DEF SuccessIsHonest
  <2>2. Storing' \/ at' = "storeMem" => buffer = Pages \/ Exception
    BY <1>1, <1>3 DEF IInv, DataInv, SameStage
  <2>3. QED
    BY <1>1, <1>3, <2>1, <2>2 DEF IInv, DataInv, Pages, Length, PagesOf
<1>10. QED
  BY <1>3, <1>4, <1>5, <1>6, <1>7, <1>8, <1>9 DEF IInv

LEMMA FreeKeepsInv ==
  ASSUME TypeOK, IInv, Free
  PROVE  TypeOK' /\ IInv'
<1>1. /\ at = "copied" /\ at' = IF outcome = "deadlock" THEN "parked" ELSE "freed"
      /\ UNCHANGED <<store, pos, bios, processed, done, result, outcome, buffer, stored, cut, hurt>>
  BY DEF Free, requestVars, dataVars, history
<1>2. ~hurt /\ outcome # "none"
  BY <1>1 DEF IInv, PhaseInv, Ended
<1>3. SameStage /\ CoverInv' /\ Counted' = Counted /\ (Exception' <=> Exception)
  BY <1>1, QuietKeeps
<1>4. TypeOK'
  BY <1>1 DEF TypeOK, Pages, Length
<1>5. PhaseInv'
  BY <1>1, <1>2 DEF IInv, PhaseInv, Ended, Length
<1>6. CountInv'
  BY <1>1, <1>3 DEF IInv, CountInv, Length
<1>7. WakeInv' /\ BehindInv'
  BY <1>1 DEF IInv, WakeInv, BehindInv, InStage
<1>8. SettledInv'
  BY <1>1, <1>2 DEF IInv, SettledInv, FreedAlone
<1>9. DataInv'
  <2>1. SuccessIsHonest'
    BY <1>1 DEF IInv, DataInv, SuccessIsHonest, Pages, Length
  <2>2. Storing' \/ at' = "storeMem" => buffer = Pages \/ Exception
    BY <1>1, <1>3 DEF IInv, DataInv, SameStage
  <2>3. QED
    BY <1>1, <1>3, <2>1, <2>2 DEF IInv, DataInv, Pages, Length, PagesOf
<1>10. QED
  BY <1>3, <1>4, <1>5, <1>6, <1>7, <1>8, <1>9 DEF IInv

-----------------------------------------------------------------------------
(* Steps with which the thread may overtake the ends of the bios.          *)

LEMMA Overtaking ==
  ASSUME TypeOK, IInv, GoOn, UNCHANGED <<result, buffer, stored>>
  PROVE  /\ Shaped
         /\ \A i \in DOMAIN bios :
              /\ bios'[i].at = bios[i].at /\ bios'[i].err = bios[i].err
              /\ bios[i].behind # "no" => bios'[i].behind = bios[i].behind
              /\ bios[i].behind = "no" /\ bios[i].at = "all" => bios'[i].behind = "all"
              /\ bios'[i].behind # "no" => bios[i].at # "sent"
              /\ bios[i].at # "sent" => bios[i].at = "over" \/ bios'[i].behind # "no"
         /\ Exception => Exception'
         /\ (\E i \in DOMAIN bios : bios[i].behind = "all") => \E i \in DOMAIN bios' : bios'[i].behind = "all"
         /\ \A i \in DOMAIN bios : bios'[i].err /\ bios'[i].at = "over" => result' = "error"
         /\ \A i \in DOMAIN bios : bios'[i].err => bios'[i].at # "sent"
         /\ \A i \in DOMAIN bios :
              bios'[i].stage = "read" /\ bios'[i].at # "sent" /\ ~bios'[i].err => PagesOf(bios'[i]) \subseteq buffer'
         /\ \A i \in DOMAIN bios :
              bios'[i].stage = "store" /\ bios'[i].at # "sent" /\ ~bios'[i].err =>
                PagesOf(bios'[i]) \subseteq stored' \/ Exception'
         /\ \A i \in DOMAIN bios : bios'[i].err => result' = "error" \/ Exception'
<1>1. /\ Shaped
      /\ \A i \in DOMAIN bios :
           /\ bios'[i].at = bios[i].at /\ bios'[i].err = bios[i].err
           /\ bios'[i].behind = IF Between(bios[i]) /\ bios[i].behind = "no" THEN bios[i].at ELSE bios[i].behind
  BY GoOnEffect
<1>2. ASSUME NEW i \in DOMAIN bios
      PROVE  /\ bios[i].behind # "no" => bios'[i].behind = bios[i].behind
             /\ bios[i].behind = "no" /\ bios[i].at = "all" => bios'[i].behind = "all"
             /\ bios'[i].behind # "no" => bios[i].at # "sent"
             /\ bios[i].at # "sent" => bios[i].at = "over" \/ bios'[i].behind # "no"
  <2>1. bios[i].at \in {"sent", "added", "all", "compared", "over"}
    BY BioTypes
  <2>2. bios[i].behind # "no" => bios[i].at # "sent"
    BY DEF IInv, BehindInv
  <2>3. QED
    BY <1>1, <2>1, <2>2 DEF Between
<1>3. Exception => Exception'
  BY <1>1, <1>2 DEF Exception, Shaped
<1>4. (\E i \in DOMAIN bios : bios[i].behind = "all") => \E i \in DOMAIN bios' : bios'[i].behind = "all"
  <2>1. ASSUME NEW i \in DOMAIN bios, bios[i].behind = "all" PROVE bios'[i].behind = "all" /\ i \in DOMAIN bios'
    BY <1>1, <2>1 DEF Shaped
  <2>2. QED
    BY <2>1
<1>5. \A i \in DOMAIN bios : bios'[i].err /\ bios'[i].at = "over" => result' = "error"
  BY <1>1 DEF IInv, DataInv
<1>6. \A i \in DOMAIN bios : bios'[i].err => bios'[i].at # "sent"
  BY <1>1 DEF IInv, DataInv
<1>7. \A i \in DOMAIN bios :
        bios'[i].stage = "read" /\ bios'[i].at # "sent" /\ ~bios'[i].err => PagesOf(bios'[i]) \subseteq buffer'
  BY <1>1 DEF IInv, DataInv, Shaped
<1>8. \A i \in DOMAIN bios :
        bios'[i].stage = "store" /\ bios'[i].at # "sent" /\ ~bios'[i].err =>
          PagesOf(bios'[i]) \subseteq stored' \/ Exception'
  BY <1>1, <1>3 DEF IInv, DataInv, Shaped
<1>9. \A i \in DOMAIN bios : bios'[i].err => result' = "error" \/ Exception'
  <2>1. SUFFICES ASSUME NEW i \in DOMAIN bios, bios'[i].err, result' # "error" PROVE Exception'
    OBVIOUS
  <2>2. bios'[i].behind # "no"
    BY <1>1, <1>2, <1>5, <1>6, <2>1
  <2>3. QED
    BY <1>1, <2>1, <2>2 DEF Exception, Shaped
<1>10. QED
  BY <1>1, <1>2, <1>3, <1>4, <1>5, <1>6, <1>7, <1>8, <1>9

(* The sum while the request counts one stage only.                        *)
LEMMA FullMeansAdded ==
  ASSUME TypeOK, IInv, processed = Length, outcome # "ok"
  PROVE  \A i \in DOMAIN bios : bios[i].at # "sent"
<1>1. Counted = Length
  BY AddedFinite DEF IInv, CountInv
<1>2. QED
  BY <1>1, FullSum DEF IInv

LEMMA UnloadKeepsInv ==
  ASSUME TypeOK, IInv, Unload
  PROVE  TypeOK' /\ IInv'
<1>1. /\ at = "parked" /\ at' = IF processed = Length THEN "freed" ELSE "left"
      /\ UNCHANGED <<store, pos, processed, done, result, outcome, buffer, stored, cut, hurt>>
      /\ GoOn
  BY DEF Unload, requestVars, dataVars, history
<1>2. Shaped /\ SameStage
  BY <1>1, Overtaking, StageKept DEF Storing
<1>3. ~hurt /\ outcome = "deadlock"
  BY <1>1 DEF IInv, PhaseInv
<1>4. CoverInv' /\ Counted' = Counted
  BY <1>1, <1>2, Overtaking, CoverKept, CountedKept DEF IInv
<1>5. TypeOK'
  BY <1>1, <1>2 DEF TypeOK, Shaped, Bio, Pages, Length
<1>6. PhaseInv'
  BY <1>1, <1>2, <1>3 DEF IInv, PhaseInv, Ended, Shaped, Length
<1>7. CountInv'
  BY <1>1, <1>4 DEF IInv, CountInv, Length
<1>8. WakeInv'
  BY <1>1 DEF WakeInv, InStage
<1>9. BehindInv'
  BY <1>1, <1>2, Overtaking DEF BehindInv, Shaped
<1>10. SettledInv'
  <2>1. at' = "freed" => \A i \in DOMAIN bios : bios[i].at # "sent"
    BY <1>1, <1>3, FullMeansAdded
  <2>2. at' = "freed" => \A i \in DOMAIN bios' : bios'[i].at = "over" \/ bios'[i].behind # "no"
    BY <1>1, <1>2, <2>1, Overtaking DEF Shaped
  <2>3. QED
    BY <1>1, <1>3, <2>2 DEF SettledInv, FreedAlone
<1>11. DataInv'
  <2>1. SuccessIsHonest'
    BY <1>1, <1>3 DEF SuccessIsHonest
  <2>2. Storing' \/ at' = "storeMem" => buffer' = Pages \/ Exception'
    BY <1>1, <1>2, Overtaking DEF IInv, DataInv, SameStage
  <2>3. QED
    BY <1>1, <1>2, <2>1, <2>2, Overtaking DEF DataInv, Shaped, Pages, Length
<1>12. QED
  BY <1>4, <1>5, <1>6, <1>7, <1>8, <1>9, <1>10, <1>11 DEF IInv

LEMMA StoreDoneKeepsInv ==
  ASSUME TypeOK, IInv, StoreDone
  PROVE  TypeOK' /\ IInv'
<1>1. /\ at = "storeWait" /\ done > 0 /\ at' = "copied" /\ outcome' = result /\ done' = done - 1
      /\ UNCHANGED <<store, pos, processed, result, buffer, stored, cut, hurt>>
      /\ GoOn
  BY DEF StoreDone, dataVars, history
<1>2. pos = Length /\ outcome = "none" /\ ~hurt /\ store = "file"
  BY <1>1 DEF IInv, PhaseInv, Ended
<1>3. Storing /\ Stage = "store" /\ Sent("store") = Pages /\ 1 \in Pages
  BY <1>1, <1>2, LengthType DEF Storing, Stage, Sent, Pages
<1>4. Shaped /\ SameStage
  <2>1. \E i \in DOMAIN bios : bios[i].stage = "store"
    BY <1>3 DEF IInv, CoverInv, Stages
  <2>2. QED
    BY <1>1, <1>3, <2>1, Overtaking, StageKept
<1>5. CoverInv' /\ Counted' = Counted
  BY <1>1, <1>4, Overtaking, CoverKept, CountedKept DEF IInv
<1>6. result \in {"ok", "error"} /\ done \in Nat /\ done - 1 \in Nat
  BY <1>1 DEF TypeOK
<1>7. TypeOK'
  BY <1>1, <1>4, <1>6 DEF TypeOK, Shaped, Bio, Pages, Length
<1>8. PhaseInv'
  BY <1>1, <1>2, <1>4, <1>6 DEF IInv, PhaseInv, Ended, Shaped, Length
<1>9. CountInv'
  BY <1>1, <1>2, <1>5 DEF IInv, CountInv, Length
<1>10. WakeInv'
  BY <1>1 DEF WakeInv, InStage
<1>11. BehindInv'
  BY <1>1, <1>4, Overtaking DEF BehindInv, Shaped
<1>12. (\E i \in DOMAIN bios : bios[i].behind = "all") \/ \A i \in DOMAIN bios : bios[i].at # "sent"
  <2>1. processed = Length \/ \E i \in DOMAIN bios : bios[i].behind = "all"
    BY <1>1 DEF IInv, WakeInv, InStage
  <2>2. QED
    BY <1>2, <2>1, FullMeansAdded
<1>13. SettledInv'
  <2>1. \/ \E i \in DOMAIN bios' : bios'[i].behind = "all"
        \/ \A i \in DOMAIN bios' : bios'[i].at = "over" \/ bios'[i].behind # "no"
    BY <1>1, <1>4, <1>12, Overtaking DEF Shaped
  <2>2. QED
    BY <1>1, <1>2, <2>1 DEF SettledInv, FreedAlone
<1>14. DataInv'
  <2>1. result = "ok" => stored = Pages \/ Exception'
    <3>1. SUFFICES ASSUME result = "ok", ~Exception' PROVE stored = Pages
      OBVIOUS
    <3>2. \A i \in DOMAIN bios : ~bios[i].err
      BY <1>1, <3>1, Overtaking
    <3>3. \A i \in DOMAIN bios : bios[i].at # "sent"
      BY <1>1, <1>12, <3>1, Overtaking DEF Exception
    <3>4. ~Exception
      BY <1>1, <3>1, Overtaking
    <3>5. \A i \in DOMAIN bios : bios[i].stage = "store" => PagesOf(bios[i]) \subseteq stored
      BY <3>2, <3>3, <3>4 DEF IInv, DataInv
    <3>6. \A p \in Pages : \E i \in DOMAIN bios : bios[i].stage = "store" /\ p \in PagesOf(bios[i])
      BY <1>3 DEF IInv, CoverInv, Stages
    <3>7. QED
      BY <3>5, <3>6 DEF TypeOK
  <2>2. SuccessIsHonest'
    BY <1>1, <2>1 DEF SuccessIsHonest, Exception, Pages, Length
  <2>3. Storing' \/ at' = "storeMem" => buffer' = Pages \/ Exception'
    BY <1>1, <1>4, Overtaking DEF IInv, DataInv, SameStage
  <2>4. QED
    BY <1>1, <1>4, <2>2, <2>3, Overtaking DEF DataInv, Shaped, Pages, Length
<1>15. QED
  BY <1>5, <1>7, <1>8, <1>9, <1>10, <1>11, <1>13, <1>14 DEF IInv

LEMMA ReadDoneKeepsInv ==
  ASSUME TypeOK, IInv, ReadDone
  PROVE  TypeOK' /\ IInv'
<1>1. /\ at = "readWait" /\ done > 0 /\ GoOn
      /\ UNCHANGED <<store, result, buffer, stored, cut, hurt>>
  BY DEF ReadDone, dataVars, history
<1>2. /\ pos = Length /\ outcome = "none" /\ ~hurt
      /\ \A i \in DOMAIN bios : bios[i].stage = "read" /\ bios[i].behind = "no"
  BY <1>1 DEF IInv, PhaseInv, BehindInv, Ended
<1>3. ~Storing /\ Stage = "read" /\ Sent("read") = Pages
  BY <1>1, <1>2 DEF Storing, Stage, Sent, Pages
<1>4. \A i \in DOMAIN bios : bios[i].at # "sent"
  <2>1. processed = Length
    BY <1>1, <1>2 DEF IInv, WakeInv, InStage
  <2>2. QED
    BY <1>2, <2>1, FullMeansAdded
<1>5. /\ Shaped
      /\ \A i \in DOMAIN bios' : /\ bios'[i].stage = "read" /\ bios'[i].at # "sent"
                                 /\ bios'[i].at = "over" \/ bios'[i].behind # "no"
                                 /\ bios'[i].at = "all" => bios'[i].behind = "all"
  BY <1>1, <1>2, <1>4, Overtaking DEF Shaped
<1>6. /\ result \in {"ok", "error"} /\ store \in {"file", "mem"} /\ done \in Nat /\ done - 1 \in Nat
      /\ Length \in Nat /\ Length # 0
  BY <1>1, LengthType, DeferredAssumption DEF TypeOK
<1>7. BehindInv'
  <2>1. at' \notin {"read", "readWait"}
    BY <1>1, <1>6 DEF ReadDone
  <2>2. QED
    BY <1>5, <2>1 DEF BehindInv
<1>8. result = "ok" => buffer = Pages \/ Exception'
  <2>1. SUFFICES ASSUME result = "ok", ~Exception' PROVE buffer = Pages
    OBVIOUS
  <2>2. \A i \in DOMAIN bios : ~bios[i].err
    BY <1>1, <2>1, Overtaking
  <2>3. \A i \in DOMAIN bios : PagesOf(bios[i]) \subseteq buffer
    BY <1>2, <1>4, <2>2 DEF IInv, DataInv
  <2>4. \A p \in Pages : \E i \in DOMAIN bios : p \in PagesOf(bios[i])
    BY <1>3 DEF IInv, CoverInv, Stages
  <2>5. QED
    BY <2>3, <2>4 DEF TypeOK
<1>9. ASSUME at' \in {"copied", "store", "storeMem"}, result = "ok" \/ at' = "copied",
             outcome' \in {"none", "error"}
      PROVE  SettledInv' /\ DataInv'
  <2>1. SettledInv'
    BY <1>1, <1>2, <1>5 DEF SettledInv, FreedAlone
  <2>2. SuccessIsHonest'
    BY <1>9 DEF SuccessIsHonest
  <2>3. Storing' \/ at' = "storeMem" => buffer' = Pages \/ Exception'
    <3>1. CASE at' = "copied"
      BY <1>5, <3>1 DEF Storing
    <3>2. CASE result = "ok"
      BY <1>1, <1>8, <3>2
    <3>3. QED
      BY <1>9, <3>1, <3>2
  <2>4. QED
    BY <1>1, <1>5, <2>1, <2>2, <2>3, Overtaking DEF DataInv, Shaped, Pages, Length
<1>10. ASSUME at' \in {"copied", "storeMem"}, pos' = pos, processed' = processed, done' = done - 1,
              (at' = "copied" /\ outcome' = "error") \/ (at' = "storeMem" /\ outcome' = outcome /\ store = "mem"),
              result = "ok" \/ at' = "copied"
       PROVE  TypeOK' /\ IInv'
  <2>1. SameStage
    BY <1>3, <1>5, <1>10, StageKept DEF Storing
  <2>2. CoverInv' /\ Counted' = Counted
    BY <1>1, <1>5, <1>10, <2>1, Overtaking, CoverKept, CountedKept DEF IInv
  <2>3. TypeOK'
    BY <1>1, <1>2, <1>5, <1>6, <1>10 DEF TypeOK, Shaped, Bio, Pages, Length
  <2>4. PhaseInv'
    BY <1>1, <1>2, <1>5, <1>10 DEF PhaseInv, Ended, Length
  <2>5. CountInv'
    BY <1>1, <1>2, <1>10, <2>2 DEF IInv, CountInv, Length
  <2>6. WakeInv'
    BY <1>10 DEF WakeInv, InStage
  <2>7. SettledInv' /\ DataInv'
    BY <1>2, <1>9, <1>10
  <2>8. QED
    BY <1>7, <2>2, <2>3, <2>4, <2>5, <2>6, <2>7 DEF IInv
<1>11. ASSUME at' = "store", pos' = 0, processed' = 0, done' = 0, outcome' = outcome, result = "ok", store = "file"
       PROVE  TypeOK' /\ IInv'
  <2>1. Storing' /\ Stage' = "store"
    BY <1>11 DEF Storing, Stage
  <2>2. Sent("read")' = Pages /\ Sent("store")' = {}
    BY <1>11, <2>1 DEF Sent, Pages, Length
  <2>3. CoverInv'
    <3>1. \A i \in DOMAIN bios : PagesOf(bios[i]) \subseteq Pages
      BY <1>2, <1>3 DEF IInv, CoverInv
    <3>2. \A i \in DOMAIN bios : (PagesOf(bios[i]) \subseteq Sent(bios[i].stage))'
      <4>1. SUFFICES ASSUME NEW i \in DOMAIN bios PROVE (PagesOf(bios[i]) \subseteq Sent(bios[i].stage))'
        OBVIOUS
      <4>2. (bios[i].stage)' = "read" /\ PagesOf(bios[i])' \subseteq Pages
        BY <1>5, <3>1 DEF Shaped
      <4>3. Sent(bios[i].stage)' = Pages
        BY <4>2, <2>1, <2>2, <1>11 DEF Sent, Pages, Length
      <4>4. QED
        BY <4>2, <4>3
    <3>3. \A i, j \in DOMAIN bios :
            bios'[i].stage = bios'[j].stage /\ PagesOf(bios'[i]) \cap PagesOf(bios'[j]) # {} => i = j
      BY <1>5 DEF IInv, CoverInv, Shaped
    <3>4. \A s \in Stages : \A p \in Sent(s)' :
            \E i \in DOMAIN bios : bios'[i].stage = s /\ p \in PagesOf(bios'[i])
      <4>1. \A p \in Pages : \E i \in DOMAIN bios : p \in PagesOf(bios[i])
        BY <1>3 DEF IInv, CoverInv, Stages
      <4>2. \A p \in Pages : \E i \in DOMAIN bios : bios'[i].stage = "read" /\ p \in PagesOf(bios'[i])
        BY <1>5, <4>1 DEF Shaped
      <4>3. QED
        BY <2>2, <4>2 DEF Stages
    <3>5. QED
      BY <1>5, <3>2, <3>3, <3>4 DEF CoverInv, Shaped
  <2>4. CountInv'
    <3>1. AddedPages' = {}
      BY <1>5, <2>1 DEF AddedPages, Added
    <3>2. Counted' = 0
      BY <3>1, FS_EmptySet DEF Counted
    <3>3. QED
      BY <1>1, <1>11, <3>2 DEF CountInv
  <2>5. TypeOK'
    <3>1. 0 \in 0 .. Length /\ 0 \in 0 .. 2 * Length
      BY <1>6
    <3>2. QED
      BY <1>1, <1>5, <1>11, <3>1 DEF TypeOK, Shaped, Bio, Pages, Length, Stages
  <2>6. PhaseInv'
    BY <1>1, <1>2, <1>5, <1>11 DEF PhaseInv, Ended
  <2>7. WakeInv'
    BY <1>5, <1>6, <1>11 DEF WakeInv, Length
  <2>8. SettledInv' /\ DataInv'
    BY <1>2, <1>9, <1>11
  <2>9. QED
    BY <1>7, <2>3, <2>4, <2>5, <2>6, <2>7, <2>8 DEF IInv
<1>12. CASE result = "error"
  <2>1. at' = "copied" /\ outcome' = "error" /\ done' = done - 1 /\ pos' = pos /\ processed' = processed
    BY <1>12 DEF ReadDone
  <2>2. /\ at' \in {"copied", "storeMem"} /\ (result = "ok" \/ at' = "copied")
        /\ (at' = "copied" /\ outcome' = "error") \/ (at' = "storeMem" /\ outcome' = outcome /\ store = "mem")
    BY <2>1
  <2>3. QED
    BY <1>10, <2>1, <2>2
<1>13. CASE result = "ok" /\ store = "file"
  <2>1. at' = "store" /\ pos' = 0 /\ processed' = 0 /\ done' = 0 /\ outcome' = outcome
    BY <1>13 DEF ReadDone
  <2>2. QED
    BY <1>11, <1>13, <2>1
<1>14. CASE result = "ok" /\ store = "mem"
  <2>1. at' = "storeMem" /\ done' = done - 1 /\ pos' = pos /\ processed' = processed /\ outcome' = outcome
    BY <1>14 DEF ReadDone
  <2>2. QED
    BY <1>10, <1>14, <2>1
<1>15. QED
  BY <1>6, <1>12, <1>13, <1>14

-----------------------------------------------------------------------------
(* A bio is sent.                                                          *)

LEMMA SubmitPagesKeepsInv ==
  ASSUME TypeOK, IInv, NEW stage \in Stages, SubmitPages(stage)
  PROVE  TypeOK' /\ IInv'
<1>1. /\ at = stage /\ stage \in {"read", "store"} /\ pos < Length
      /\ UNCHANGED <<store, at, processed, done, result, outcome, buffer, stored, cut, hurt>>
  BY DEF SubmitPages, requestVars, dataVars, history, Stages
<1>2. PICK cnt \in 1 .. EndOfExtent(stage) - pos :
        /\ bios' = Append(bios, [stage |-> stage, first |-> pos + 1, cnt |-> cnt,
                                 at |-> "sent", err |-> FALSE, behind |-> "no"])
        /\ pos' = pos + cnt
  BY DEF SubmitPages
<1> DEFINE new == [stage |-> stage, first |-> pos + 1, cnt |-> cnt,
                   at |-> "sent", err |-> FALSE, behind |-> "no"]
<1>3. /\ pos \in Nat /\ Length \in Nat /\ cnt \in 1 .. BlockPages /\ cnt \in Nat /\ cnt >= 1
      /\ pos + cnt <= Length /\ pos' = pos + cnt /\ pos + 1 \in Pages
  <2>1. pos \in Nat /\ Length \in Nat /\ BlockPages \in Nat
    BY LengthType DEF TypeOK
  <2>2. EndOfExtent(stage) \in pos + 1 .. Length /\ EndOfExtent(stage) <= pos + BlockPages
    BY <1>1, <2>1, EndOfExtentBounds
  <2>3. QED
    BY <1>1, <1>2, <2>1, <2>2 DEF Pages
<1>4. /\ new \in Bio /\ new.stage = stage /\ new.at = "sent" /\ new.err = FALSE /\ new.behind = "no"
      /\ PagesOf(new) = pos + 1 .. pos + cnt
  <2>1. new \in Bio
    BY <1>3 DEF Bio
  <2>2. pos + 1 + cnt - 1 = pos + cnt
    BY <1>3
  <2>3. QED
    BY <2>1, <2>2 DEF PagesOf
<1>5. PICK n \in Nat : bios \in Seq(Bio) /\ n = Len(bios) /\ DOMAIN bios = 1 .. n
  BY LenProperties DEF TypeOK, Bio
<1>6. bios' = Append(bios, new)
  BY <1>2
<1> HIDE DEF new
<1>7. /\ bios' \in Seq(Bio) /\ DOMAIN bios' = 1 .. n + 1
      /\ \A i \in 1 .. n : bios'[i] = bios[i] /\ i \in 1 .. n + 1 /\ i # n + 1
      /\ bios'[n + 1] = new /\ n + 1 \in 1 .. n + 1
      /\ \A i \in 1 .. n + 1 : i \in 1 .. n \/ i = n + 1
  BY <1>4, <1>5, <1>6, AppendProperties
<1>8. (Storing' <=> Storing) /\ Stage' = Stage /\ Stage = stage
  <2>1. CASE stage = "read"
    <3>1. \A i \in 1 .. n : bios[i].stage = "read"
      BY <1>1, <1>5, <2>1 DEF IInv, PhaseInv
    <3>2. \A i \in DOMAIN bios' : bios'[i].stage = "read"
      BY <1>4, <1>7, <2>1, <3>1
    <3>3. QED
      BY <1>1, <1>5, <2>1, <3>1, <3>2 DEF Storing, Stage
  <2>2. CASE stage = "store"
    BY <1>1, <2>2 DEF Storing, Stage
  <2>3. QED
    BY <1>1, <2>1, <2>2
<1>9. /\ Sent(stage) = 1 .. pos /\ Sent(stage)' = 1 .. pos + cnt
      /\ \A s : s # stage => Sent(s)' = Sent(s)
  BY <1>3, <1>8 DEF Sent, Pages, Length
<1>10. CoverInv'
  <2>1. \A i \in 1 .. n + 1 : (PagesOf(bios[i]) \subseteq Sent(bios[i].stage))'
    <3>1. SUFFICES ASSUME NEW i \in 1 .. n + 1 PROVE (PagesOf(bios[i]) \subseteq Sent(bios[i].stage))'
      OBVIOUS
    <3>2. CASE i = n + 1
      <4>1. PagesOf(bios[i])' = pos + 1 .. pos + cnt /\ (bios[i].stage)' = stage
        BY <1>4, <1>7, <3>2
      <4>2. Sent(bios[i].stage)' = 1 .. pos + cnt
        BY <1>8, <1>3, <4>1 DEF Sent
      <4>3. QED
        BY <1>3, <4>1, <4>2
    <3>3. CASE i \in 1 .. n
      <4>1. PagesOf(bios[i]) \subseteq Sent(bios[i].stage)
        BY <1>5, <3>3 DEF IInv, CoverInv
      <4>2. bios'[i] = bios[i]
        BY <1>7, <3>3
      <4>3. PagesOf(bios[i])' = PagesOf(bios[i])
        BY <4>2 DEF PagesOf
      <4>4. CASE bios[i].stage = stage
        <5>1. Sent(bios[i].stage)' = 1 .. pos + cnt
          BY <1>3, <1>8, <4>2, <4>4 DEF Sent
        <5>2. PagesOf(bios[i]) \subseteq 1 .. pos
          BY <1>9, <4>1, <4>4
        <5>3. QED
          BY <1>3, <4>3, <5>1, <5>2
      <4>5. CASE bios[i].stage # stage
        <5>1. Sent(bios[i].stage)' = Sent(bios[i].stage)
          BY <1>8, <4>2, <4>5 DEF Sent, Pages, Length
        <5>2. QED
          BY <4>1, <4>3, <5>1
      <4>6. QED
        BY <4>4, <4>5
    <3>4. QED
      BY <1>7, <3>2, <3>3
  <2>2. ASSUME NEW i \in 1 .. n, bios[i].stage = stage PROVE PagesOf(bios[i]) \cap PagesOf(new) = {}
    <3>1. PagesOf(bios[i]) \subseteq 1 .. pos
      BY <1>5, <1>9, <2>2 DEF IInv, CoverInv
    <3>2. QED
      BY <1>3, <1>4, <3>1
  <2>3. \A i, j \in 1 .. n + 1 :
          bios'[i].stage = bios'[j].stage /\ PagesOf(bios'[i]) \cap PagesOf(bios'[j]) # {} => i = j
    <3>1. SUFFICES ASSUME NEW i \in 1 .. n + 1, NEW j \in 1 .. n + 1, bios'[i].stage = bios'[j].stage,
                          PagesOf(bios'[i]) \cap PagesOf(bios'[j]) # {}
                   PROVE  i = j
      OBVIOUS
    <3>2. CASE i \in 1 .. n /\ j \in 1 .. n
      <4>1. bios'[i] = bios[i] /\ bios'[j] = bios[j]
        BY <1>7, <3>2
      <4>2. bios[i].stage = bios[j].stage /\ PagesOf(bios[i]) \cap PagesOf(bios[j]) # {}
        BY <3>1, <4>1
      <4>3. QED
        BY <1>5, <3>2, <4>2 DEF IInv, CoverInv
    <3>3. CASE i \in 1 .. n /\ j = n + 1
      <4>1. bios'[i] = bios[i] /\ bios'[j] = new
        BY <1>7, <3>3
      <4>2. bios[i].stage = stage /\ PagesOf(bios[i]) \cap PagesOf(new) # {}
        BY <1>4, <3>1, <4>1
      <4>3. QED
        BY <2>2, <3>3, <4>2
    <3>4. CASE i = n + 1 /\ j \in 1 .. n
      <4>1. bios'[i] = new /\ bios'[j] = bios[j]
        BY <1>7, <3>4
      <4>2. bios[j].stage = stage /\ PagesOf(bios[j]) \cap PagesOf(new) # {}
        BY <1>4, <3>1, <4>1
      <4>3. QED
        BY <2>2, <3>4, <4>2
    <3>5. QED
      BY <1>7, <3>2, <3>3, <3>4
  <2>4. \A s \in Stages : \A p \in Sent(s)' :
          \E i \in 1 .. n + 1 : bios'[i].stage = s /\ p \in PagesOf(bios'[i])
    <3>1. SUFFICES ASSUME NEW s \in Stages, NEW p \in Sent(s)'
                   PROVE  \E i \in 1 .. n + 1 : bios'[i].stage = s /\ p \in PagesOf(bios'[i])
      OBVIOUS
    <3>2. CASE p \in Sent(s)
      <4>1. PICK i \in 1 .. n : bios[i].stage = s /\ p \in PagesOf(bios[i])
        BY <1>5, <3>2 DEF IInv, CoverInv
      <4>2. bios'[i] = bios[i] /\ i \in 1 .. n + 1
        BY <1>7
      <4>3. QED
        BY <4>1, <4>2
    <3>3. CASE p \notin Sent(s)
      <4>1. s = stage
        BY <1>9, <3>1, <3>3
      <4>2. p \in pos + 1 .. pos + cnt
        BY <1>3, <1>9, <3>1, <3>3, <4>1
      <4>3. QED
        BY <1>4, <1>7, <4>1, <4>2
    <3>4. QED
      BY <3>2, <3>3
  <2>5. Storing' => \A i \in 1 .. n + 1 : bios'[i].stage = "read" => bios'[i].at # "sent"
    <3>1. SUFFICES ASSUME Storing, NEW i \in 1 .. n + 1, bios'[i].stage = "read" PROVE bios'[i].at # "sent"
      BY <1>8
    <3>2. i \in 1 .. n
      BY <1>4, <1>7, <1>8, <3>1 DEF Stage
    <3>3. QED
      BY <1>5, <1>7, <3>1, <3>2 DEF IInv, CoverInv
  <2>6. QED
    BY <1>7, <2>1, <2>3, <2>4, <2>5 DEF CoverInv
<1>11. Counted' = Counted
  <2>1. \A i \in 1 .. n : Added(i)' <=> Added(i)
    <3>1. SUFFICES ASSUME NEW i \in 1 .. n PROVE Added(i)' <=> Added(i)
      OBVIOUS
    <3>2. bios'[i] = bios[i]
      BY <1>7
    <3>3. QED
      BY <1>8, <3>2 DEF Added
  <2>2. ~Added(n + 1)'
    BY <1>4, <1>7 DEF Added
  <2>3. \A p : (\E i \in DOMAIN bios' : Added(i)' /\ p \in PagesOf(bios'[i]))
           <=> (\E i \in DOMAIN bios : Added(i) /\ p \in PagesOf(bios[i]))
    BY <1>5, <1>7, <2>1, <2>2
  <2>4. AddedPages' = AddedPages
    <3>1. Pages' = Pages
      BY DEF Pages, Length
    <3>2. QED
      BY <2>3, <3>1 DEF AddedPages
  <2>5. QED
    BY <2>4 DEF Counted
<1>12. Exception => Exception'
  <2>1. SUFFICES ASSUME NEW i \in 1 .. n, bios[i].behind = "all" \/ (bios[i].behind # "no" /\ bios[i].err)
                 PROVE  Exception'
    BY <1>5 DEF Exception
  <2>2. bios'[i] = bios[i] /\ i \in DOMAIN bios'
    BY <1>7
  <2>3. QED
    BY <2>1, <2>2 DEF Exception
<1>13. outcome = "none" /\ ~hurt
  BY <1>1 DEF IInv, PhaseInv, Ended
<1>14. TypeOK'
  <2>1. pos' \in 0 .. Length
    BY <1>3
  <2>2. QED
    BY <1>1, <1>7, <2>1 DEF TypeOK, Bio, Pages, Length
<1>15. PhaseInv'
  <2>1. at = "read" => \A i \in DOMAIN bios' : bios'[i].stage = "read"
    BY <1>1, <1>4, <1>5, <1>7 DEF IInv, PhaseInv
  <2>2. store = "mem" => \A i \in DOMAIN bios' : bios'[i].stage = "read"
    BY <1>1, <1>4, <1>5, <1>7 DEF IInv, PhaseInv
  <2>3. QED
    BY <1>1, <1>13, <2>1, <2>2 DEF IInv, PhaseInv, Ended
<1>16. CountInv'
  BY <1>1, <1>11, <1>13 DEF IInv, CountInv, Length
<1>17. WakeInv'
  <2>1. processed = Length => done > 0 \/ \E i \in DOMAIN bios' : bios'[i].at \in {"added", "all"}
    BY <1>1, <1>5, <1>7 DEF IInv, WakeInv, InStage
  <2>2. done > 0 => processed = Length \/ \E i \in DOMAIN bios' : bios'[i].behind = "all"
    BY <1>1, <1>5, <1>7 DEF IInv, WakeInv, InStage
  <2>3. \A i \in DOMAIN bios' : bios'[i].at = "all" => processed = Length \/ bios'[i].behind = "all"
    BY <1>1, <1>4, <1>5, <1>7 DEF IInv, WakeInv, InStage
  <2>4. QED
    BY <1>1, <2>1, <2>2, <2>3 DEF WakeInv, Length
<1>18. BehindInv'
  <2>1. \A i \in DOMAIN bios' : bios'[i].behind # "no" => bios'[i].at # "sent"
    BY <1>4, <1>5, <1>7 DEF IInv, BehindInv
  <2>2. at = "read" => \A i \in DOMAIN bios' : bios'[i].behind = "no"
    BY <1>4, <1>5, <1>7 DEF IInv, BehindInv
  <2>3. at = "store" =>
          \A i \in DOMAIN bios' : bios'[i].stage = "read" => bios'[i].at = "over" \/ bios'[i].behind # "no"
    BY <1>1, <1>4, <1>5, <1>7 DEF IInv, BehindInv
  <2>4. QED
    BY <1>1, <2>1, <2>2, <2>3 DEF BehindInv
<1>19. SettledInv'
  BY <1>1, <1>13 DEF SettledInv, FreedAlone
<1>20. DataInv'
  <2>1. \A i \in DOMAIN bios' : bios'[i].err /\ bios'[i].at = "over" => result = "error"
    BY <1>4, <1>5, <1>7 DEF IInv, DataInv
  <2>2. \A i \in DOMAIN bios' : bios'[i].err => bios'[i].at # "sent"
    BY <1>4, <1>5, <1>7 DEF IInv, DataInv
  <2>3. \A i \in DOMAIN bios' :
          bios'[i].stage = "read" /\ bios'[i].at # "sent" /\ ~bios'[i].err => PagesOf(bios'[i]) \subseteq buffer
    BY <1>4, <1>5, <1>7 DEF IInv, DataInv
  <2>4. \A i \in DOMAIN bios' :
          bios'[i].stage = "store" /\ bios'[i].at # "sent" /\ ~bios'[i].err =>
            PagesOf(bios'[i]) \subseteq stored \/ Exception'
    BY <1>4, <1>5, <1>7, <1>12 DEF IInv, DataInv
  <2>5. Storing' \/ at' = "storeMem" => buffer = Pages \/ Exception'
    BY <1>1, <1>8, <1>12 DEF IInv, DataInv
  <2>6. SuccessIsHonest'
    BY <1>1 DEF SuccessIsHonest
  <2>7. QED
    BY <1>1, <2>1, <2>2, <2>3, <2>4, <2>5, <2>6 DEF DataInv, Pages, Length
<1>21. QED
  BY <1>10, <1>14, <1>15, <1>16, <1>17, <1>18, <1>19, <1>20 DEF IInv

LEMMA IStutter == TypeOK /\ IInv /\ UNCHANGED vars => TypeOK' /\ IInv'
<1> SUFFICES ASSUME TypeOK, IInv, UNCHANGED vars PROVE TypeOK' /\ IInv'
  OBVIOUS
<1>1. UNCHANGED <<store, at, pos, bios, processed, done, result, outcome, buffer, stored, cut, hurt>>
  BY DEF vars, requestVars, dataVars, history
<1>2. TypeOK'
  BY <1>1 DEF TypeOK, Pages, Length
<1>3. (Storing' <=> Storing) /\ Stage' = Stage /\ Counted' = Counted /\ (Exception' <=> Exception)
      /\ \A s : Sent(s)' = Sent(s)
  BY <1>1 DEF Storing, Stage, Counted, AddedPages, Added, Exception, PagesOf, Sent, Pages, Length
<1>4. PhaseInv' /\ CountInv' /\ WakeInv' /\ BehindInv' /\ SettledInv'
  BY <1>1, <1>3 DEF IInv, PhaseInv, Ended, CountInv, WakeInv, InStage, BehindInv, SettledInv, FreedAlone, Length
<1>5. CoverInv'
  BY <1>1, <1>3 DEF IInv, CoverInv, PagesOf, Sent, Pages, Length
<1>6. DataInv'
  BY <1>1, <1>3 DEF IInv, DataInv, SuccessIsHonest, PagesOf, Pages, Length
<1>7. QED
  BY <1>2, <1>4, <1>5, <1>6 DEF IInv

LEMMA IStep == TypeOK /\ IInv /\ [Next]_vars => TypeOK' /\ IInv'
<1> SUFFICES ASSUME TypeOK, IInv, [Next]_vars PROVE TypeOK' /\ IInv'
  OBVIOUS
<1> "read" \in Stages /\ "store" \in Stages
  BY DEF Stages
<1>1. CASE \E stage \in Stages : SubmitPages(stage)
  BY <1>1, SubmitPagesKeepsInv
<1>2. CASE \E stage \in Stages : SubmitFails(stage)
  BY <1>2, SubmitFailsKeepsInv
<1>3. CASE \E stage \in Stages : Submitted(stage)
  BY <1>3, SubmittedKeepsInv
<1>4. CASE ReadDone
  BY <1>4, ReadDoneKeepsInv
<1>5. CASE StoreMem
  BY <1>5, StoreMemKeepsInv
<1>6. CASE StoreDone
  BY <1>6, StoreDoneKeepsInv
<1>7. CASE Timeout
  BY <1>7, TimeoutKeepsInv
<1>8. CASE Free
  BY <1>8, FreeKeepsInv
<1>9. CASE Unload
  BY <1>9, UnloadKeepsInv
<1>10. CASE \E i \in DOMAIN bios : BioEnd(i)
  BY <1>10, BioEndKeepsInv
<1>11. CASE UNCHANGED vars
  BY <1>11, IStutter
<1>12. QED
  BY <1>1, <1>2, <1>3, <1>4, <1>5, <1>6, <1>7, <1>8, <1>9, <1>10, <1>11 DEF Next, Copier

LEMMA Invariance == Spec => [](TypeOK /\ IInv)
BY IInit, IStep, PTL DEF Spec

-----------------------------------------------------------------------------

(* The state of a request stays in its types; above all the sum of the     *)
(* sectors never exceeds the request, but by the ones counted a second     *)
(* time when the copy goes to memory (blk_deferred_complete).              *)
THEOREM TypeCorrect == Spec => []TypeOK
BY Invariance, PTL

(* When the ends of all bios of a stage are over the waiter was woken,     *)
(* though each adds its sectors and reads the sum in two steps: the last   *)
(* to add is through with all of them (blk_deferred_complete).             *)
THEOREM WaiterIsWoken == Spec => []NoLostWakeup
<1>1. TypeOK /\ IInv => NoLostWakeup
  <2>1. SUFFICES ASSUME TypeOK, IInv, at \in {"readWait", "storeWait"},
                        \A i \in DOMAIN bios : bios[i].at = "over"
                 PROVE  done > 0
    BY DEF NoLostWakeup
  <2>2. pos = Length /\ outcome = "none"
    BY <2>1 DEF IInv, PhaseInv, Ended
  <2>3. Sent(Stage) = Pages
    BY <2>1, <2>2, SentInPages
  <2>4. Counted = Length
    BY <2>1, <2>3, SumIsFull DEF IInv
  <2>5. processed = Length
    BY <2>1, <2>2, <2>4, AddedFinite DEF IInv, CountInv
  <2>6. QED
    BY <2>1, <2>5 DEF IInv, WakeInv, InStage
<1>2. QED
  BY <1>1, Invariance, PTL

(* A request is freed while the end of a bio still needs it only when the  *)
(* thread overtook that end, or gave up in the middle of sending           *)
(* (blk_deferred_request_wait, blk_deferred_request_free).                 *)
THEOREM FreedWhenUnused == Spec => []FreedAlone
<1>1. IInv => FreedAlone
  BY DEF IInv, SettledInv
<1>2. QED
  BY <1>1, Invariance, PTL

(* A copy that is taken for good holds every page of the original, but     *)
(* after one of the two ways in which the thread overtakes the end of a    *)
(* bio (blk_deferred_complete, blk_deferred_request_store_file).           *)
THEOREM CopiesAreHonest == Spec => []SuccessIsHonest
<1>1. IInv => SuccessIsHonest
  BY DEF IInv, DataInv
<1>2. QED
  BY <1>1, Invariance, PTL
=============================================================================
