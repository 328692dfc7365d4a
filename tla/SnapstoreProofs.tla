-------------------------- MODULE SnapstoreProofs --------------------------
(***************************************************************************)
(* Theorems about the snapstore: SnapstoreStretch, for every set of        *)
(* devices, any limit and any portions, and however many commands find no  *)
(* memory; and SnapdataCollect, for any bitmap that does what is assumed   *)
(* of one, any writes, writers and lengths, and any number of collectors   *)
(* and writes.                                                             *)
(***************************************************************************)
EXTENDS SnapstoreStretch, SnapdataCollect, FiniteSetTheorems, SequenceTheorems,
        NaturalsInduction, WellFoundedInduction, TLAPS

One(b) == IF b THEN 1 ELSE 0

(* What the counters count: a snapstore device is held by the list and by  *)
(* the defer IO object, the pipe by its file and by the snapstore.  A      *)
(* copier at work has its device captured, and blocks left to take while   *)
(* it takes some.                                                          *)
HoldsInv ==
  /\ \A d \in Devices : devRefs[d] = One(d \in listed) + One(d \in captured)
  /\ pipeRefs = One(owner # "closed") + One(attached)
  /\ \A d \in Devices : pc[d] # "idle" => d \in captured
  /\ \A d \in Devices : pc[d] \in {"take", "pool"} => need[d] > 0
  /\ Len(holding) <= 1

(* Before the snapstore has its pipe.                                      *)
Young == owner \in {"new", "attach"} \/ (owner = "closed" /\ told = <<>>)

PhasesInv ==
  /\ Young => /\ told = <<>> /\ holding = <<>> /\ cmds = <<>>
              /\ ~attached /\ captured = {} /\ overflowed = 0 /\ halffilled = 0
  /\ owner \in {"failed", "refused", "new"} => ~attached /\ listed = {}
  /\ captured # {} => owner \in {"open", "adding", "closed"}
  /\ owner # "attach" => \A d \in Devices : Alive(d) => attached

(* What has been sent, and the end that is sent last.                      *)
LastTerminate ==
  \A i \in 1 .. Len(Sent) - 1 : Sent[i] = "terminate" => Sent[i + 1] = "closed"

SentInv ==
  /\ ~stale
  /\ Sends("acknowledge") => owner \in {"open", "adding", "closed"}
  /\ Sends("closed") => owner = "closed"
  /\ Sends("terminate") => /\ ~attached /\ owner \in {"open", "adding", "closed"}
                           /\ \A d \in Devices : devRefs[d] = 0
  /\ LastTerminate

(* Who reports an overflow, and that nobody does before there is one.      *)
Reporters == {d \in Devices : pc[d] = "report"}

NoOverflow ==
  overflowed = 0 => Reporters = {} /\ ~Sends("overflow") /\ "overflow" \notin dropped

NoticesInv == FlagMeansAsked /\ OverflowIsReported /\ NoOverflow

IInv == HoldsInv /\ PhasesInv /\ SentInv /\ NoticesInv

-----------------------------------------------------------------------------
(* Sequences of commands.                                                  *)

Kinds == CommandKinds \cup {"closed"}

Times(s, k) == Cardinality({i \in DOMAIN s : s[i] = k})

(* A number, and not zero when the sequence contains the command.          *)
LEMMA TimesIsNumber ==
  ASSUME NEW s \in Seq(Kinds), NEW k
  PROVE  Times(s, k) \in Nat /\ (Times(s, k) = 0 <=> ~Contains(s, k))
<1>1. DOMAIN s = 1 .. Len(s) /\ Len(s) \in Nat
  BY LenProperties
<1>2. IsFiniteSet({i \in DOMAIN s : s[i] = k})
  <2>1. IsFiniteSet(1 .. Len(s)) /\ {i \in DOMAIN s : s[i] = k} \in SUBSET (1 .. Len(s))
    BY <1>1, FS_Interval
  <2>2. QED
    BY <2>1, FS_Subset
<1>3. Times(s, k) \in Nat /\ (Times(s, k) = 0 <=> {i \in DOMAIN s : s[i] = k} = {})
  BY <1>2, FS_CardinalityType, FS_EmptySet DEF Times
<1>4. QED
  BY <1>1, <1>3 DEF Contains

LEMMA ContainsConcat ==
  ASSUME NEW s \in Seq(Kinds), NEW t \in Seq(Kinds), NEW k
  PROVE  Contains(s \o t, k) <=> Contains(s, k) \/ Contains(t, k)
<1>1. /\ Len(s) \in Nat /\ Len(t) \in Nat /\ Len(s \o t) = Len(s) + Len(t)
      /\ \A i \in 1 .. Len(s) + Len(t) : (s \o t)[i] = IF i <= Len(s) THEN s[i] ELSE t[i - Len(s)]
  BY LenProperties, ConcatProperties
<1>2. ASSUME Contains(s \o t, k) PROVE Contains(s, k) \/ Contains(t, k)
  <2>1. PICK i \in 1 .. Len(s) + Len(t) : (s \o t)[i] = k
    BY <1>1, <1>2 DEF Contains
  <2>2. i \in 1 .. Len(s) \/ i - Len(s) \in 1 .. Len(t)
    BY <1>1
  <2>3. QED
    BY <1>1, <2>1, <2>2 DEF Contains
<1>3. ASSUME Contains(s, k) PROVE Contains(s \o t, k)
  BY <1>1, <1>3 DEF Contains
<1>4. ASSUME Contains(t, k) PROVE Contains(s \o t, k)
  <2>1. PICK i \in 1 .. Len(t) : t[i] = k
    BY <1>4 DEF Contains
  <2>2. Len(s) + i \in 1 .. Len(s) + Len(t) /\ ~(Len(s) + i <= Len(s)) /\ (Len(s) + i) - Len(s) = i
    BY <1>1
  <2>3. (s \o t)[Len(s) + i] = k
    BY <1>1, <2>1, <2>2
  <2>4. QED
    BY <1>1, <2>2, <2>3 DEF Contains
<1>5. QED
  BY <1>2, <1>3, <1>4

LEMMA TimesConcat ==
  ASSUME NEW s \in Seq(Kinds), NEW t \in Seq(Kinds), NEW k
  PROVE  Times(s \o t, k) = Times(s, k) + Times(t, k)
<1> DEFINE m == Len(s)
           n == Len(t)
           S == {i \in 1 .. m : s[i] = k}
           T == {i \in 1 .. n : t[i] = k}
           U == {i \in 1 .. m + n : (s \o t)[i] = k}
           V == {i \in m + 1 .. m + n : (s \o t)[i] = k}
           move == [i \in T |-> i + m]
<1>1. /\ m \in Nat /\ n \in Nat /\ Len(s \o t) = m + n /\ s \o t \in Seq(Kinds)
      /\ \A i \in 1 .. m + n : (s \o t)[i] = IF i <= m THEN s[i] ELSE t[i - m]
  BY LenProperties, ConcatProperties
<1>2. Times(s, k) = Cardinality(S) /\ Times(t, k) = Cardinality(T) /\ Times(s \o t, k) = Cardinality(U)
  BY <1>1, LenProperties DEF Times
<1>3. IsFiniteSet(S) /\ IsFiniteSet(T) /\ IsFiniteSet(V)
  <2>1. IsFiniteSet(1 .. m) /\ IsFiniteSet(1 .. n) /\ IsFiniteSet(m + 1 .. m + n)
    BY <1>1, FS_Interval
  <2>2. S \in SUBSET (1 .. m) /\ T \in SUBSET (1 .. n) /\ V \in SUBSET (m + 1 .. m + n)
    OBVIOUS
  <2>3. QED
    BY <2>1, <2>2, FS_Subset
<1> HIDE DEF m, n
<1>4. U = S \cup V /\ S \cap V = {}
  <2>1. \A i \in 1 .. m : i \in 1 .. m + n /\ (s \o t)[i] = s[i]
    BY <1>1
  <2>2. \A i \in 1 .. m + n : i \in 1 .. m \/ i \in m + 1 .. m + n
    BY <1>1
  <2>3. \A i \in m + 1 .. m + n : i \in 1 .. m + n /\ i \notin 1 .. m
    BY <1>1
  <2>4. QED
    BY <2>1, <2>2, <2>3
<1>5. move \in Bijection(T, V)
  <2>1. \A i \in T : i + m \in m + 1 .. m + n /\ (s \o t)[i + m] = t[i]
    <3>1. ASSUME NEW i \in T
          PROVE  i + m \in m + 1 .. m + n /\ (s \o t)[i + m] = t[i]
      <4>1. i \in 1 .. n /\ i + m \in 1 .. m + n /\ ~(i + m <= m) /\ (i + m) - m = i
        BY <1>1
      <4>2. QED
        BY <1>1, <4>1
    <3>2. QED
      BY <3>1
  <2>2. move \in [T -> V]
    BY <2>1
  <2>3. \A i, j \in T : move[i] = move[j] => i = j
    BY <1>1
  <2>4. ASSUME NEW v \in V PROVE \E i \in T : move[i] = v
    <3>1. v - m \in 1 .. n /\ (v - m) + m = v /\ v \in 1 .. m + n /\ ~(v <= m)
      BY <1>1
    <3>2. v - m \in T
      BY <1>1, <3>1
    <3>3. QED
      BY <3>1, <3>2
  <2>5. QED
    BY <2>2, <2>3, <2>4 DEF Bijection, Injection, Surjection, IsInjective
<1>6. Cardinality(V) = Cardinality(T)
  <2>1. ExistsBijection(T, V)
    BY <1>5 DEF ExistsBijection
  <2>2. QED
    BY <1>3, <2>1, FS_Bijection
<1>7. /\ Cardinality(U) = Cardinality(S) + Cardinality(V) - Cardinality(S \cap V)
      /\ Cardinality(S) \in Nat /\ Cardinality(V) \in Nat
  BY <1>3, <1>4, FS_Union, FS_CardinalityType
<1>8. Cardinality(S \cap V) = 0
  BY <1>4, FS_EmptySet
<1> HIDE DEF S, T, U, V
<1>9. QED
  BY <1>2, <1>6, <1>7, <1>8

LEMMA TimesOne ==
  ASSUME NEW j \in Kinds, NEW k
  PROVE  /\ <<j>> \in Seq(Kinds) /\ Len(<<j>>) = 1 /\ <<j>>[1] = j
         /\ Times(<<j>>, k) = One(j = k)
         /\ Contains(<<j>>, k) <=> j = k
<1>1. <<j>> \in Seq(Kinds) /\ Len(<<j>>) = 1 /\ <<j>>[1] = j /\ DOMAIN <<j>> = 1 .. 1
  OBVIOUS
<1>2. Contains(<<j>>, k) <=> j = k
  BY <1>1 DEF Contains
<1>3. Times(<<j>>, k) = One(j = k)
  <2>1. CASE j = k
    <3>1. {i \in DOMAIN <<j>> : <<j>>[i] = k} = {1}
      BY <1>1, <2>1
    <3>2. QED
      BY <2>1, <3>1, FS_Singleton DEF Times, One
  <2>2. CASE j # k
    <3>1. {i \in DOMAIN <<j>> : <<j>>[i] = k} = {}
      BY <1>1, <2>2
    <3>2. QED
      BY <2>2, <3>1, FS_EmptySet DEF Times, One
  <2>3. QED
    BY <2>1, <2>2
<1>4. QED
  BY <1>1, <1>2, <1>3

LEMMA AppendedKinds ==
  ASSUME NEW s \in Seq(Kinds), NEW k \in Kinds
  PROVE  Append(s, k) = s \o <<k>> /\ Append(s, k) \in Seq(Kinds)
<1>1. <<k>> \in Seq(Kinds) /\ Len(<<k>>) = 1 /\ <<k>>[1] = k
  OBVIOUS
<1>2. /\ s \o <<k>> \in Seq(Kinds) /\ Len(s \o <<k>>) = Len(s) + 1 /\ Len(s) \in Nat
      /\ \A i \in 1 .. Len(s) + 1 : (s \o <<k>>)[i] = IF i <= Len(s) THEN s[i] ELSE <<k>>[i - Len(s)]
  BY <1>1, ConcatProperties, LenProperties
<1>3. /\ Append(s, k) \in Seq(Kinds) /\ Len(Append(s, k)) = Len(s) + 1
      /\ \A i \in 1 .. Len(s) : Append(s, k)[i] = s[i]
      /\ Append(s, k)[Len(s) + 1] = k
  BY AppendProperties
<1>4. ASSUME NEW i \in 1 .. Len(s) + 1 PROVE Append(s, k)[i] = (s \o <<k>>)[i]
  <2>1. CASE i <= Len(s)
    BY <1>2, <1>3, <2>1
  <2>2. CASE i = Len(s) + 1
    <3>1. ~(i <= Len(s)) /\ i - Len(s) = 1
      BY <1>2, <2>2
    <3>2. QED
      BY <1>1, <1>2, <1>3, <2>2, <3>1
  <2>3. QED
    BY <1>2, <2>1, <2>2
<1>5. QED
  BY <1>2, <1>3, <1>4, SeqEqual

LEMMA Regroup ==
  ASSUME NEW a \in Seq(Kinds), NEW b \in Seq(Kinds), NEW c \in Seq(Kinds)
  PROVE  a \o b \o c = a \o (b \o c)
  BY ConcatAssociative

LEMMA ThreeParts ==
  ASSUME NEW a \in Seq(Kinds), NEW b \in Seq(Kinds), NEW c \in Seq(Kinds)
  PROVE  /\ a \o b \in Seq(Kinds) /\ a \o b \o c \in Seq(Kinds) /\ b \o c \in Seq(Kinds)
         /\ a \o b \o c = a \o (b \o c)
         /\ \A k : Contains(a \o b \o c, k) <=> Contains(a, k) \/ Contains(b, k) \/ Contains(c, k)
         /\ \A k : Times(a \o b \o c, k) = Times(a, k) + Times(b, k) + Times(c, k)
<1>1. a \o b \in Seq(Kinds) /\ b \o c \in Seq(Kinds)
  BY ConcatProperties
<1>2. a \o b \o c \in Seq(Kinds) /\ a \o b \o c = a \o (b \o c)
  BY <1>1, ConcatProperties, ConcatAssociative
<1>3. ASSUME NEW k
      PROVE  /\ Contains(a \o b \o c, k) <=> Contains(a, k) \/ Contains(b, k) \/ Contains(c, k)
             /\ Times(a \o b \o c, k) = Times(a, k) + Times(b, k) + Times(c, k)
  <2>1. Contains(a \o b \o c, k) <=> Contains(a \o b, k) \/ Contains(c, k)
    BY <1>1, ContainsConcat
  <2>2. Contains(a \o b, k) <=> Contains(a, k) \/ Contains(b, k)
    BY ContainsConcat
  <2>3. Times(a \o b \o c, k) = Times(a \o b, k) + Times(c, k)
    <3>1. \A s, t \in Seq(Kinds) : Times(s \o t, k) = Times(s, k) + Times(t, k)
      BY TimesConcat
    <3>2. QED
      BY <1>1, <3>1, Zenon
  <2>4. Times(a \o b, k) = Times(a, k) + Times(b, k)
    BY TimesConcat
  <2>5. QED
    BY <2>1, <2>2, <2>3, <2>4
<1>4. QED
  BY <1>1, <1>2, <1>3

(* The three parts of what was sent.                                       *)
LEMMA SentParts ==
  ASSUME TypeOK
  PROVE  /\ told \in Seq(Kinds) /\ holding \in Seq(Kinds) /\ cmds \in Seq(Kinds) /\ Sent \in Seq(Kinds)
         /\ \A k : Sends(k) <=> Told(k) \/ Contains(holding, k) \/ Contains(cmds, k)
         /\ \A k : Copies(k) = Times(Sent, k)
<1>1. told \in Seq(Kinds) /\ holding \in Seq(Kinds) /\ cmds \in Seq(Kinds)
  <2>1. told \in Seq(CommandKinds \cup {"closed"}) /\ holding \in Seq(CommandKinds) /\ cmds \in Seq(CommandKinds)
    BY DEF TypeOK
  <2>2. CommandKinds \subseteq Kinds /\ CommandKinds \cup {"closed"} = Kinds
    BY DEF Kinds
  <2>3. QED
    BY <2>1, <2>2, SeqMonotonic
<1>2. QED
  BY <1>1, ThreeParts DEF Sent, Sends, Copies, Times, Told

(* Sent may as well be put together from its end.                          *)
LEMMA SentRegroups ==
  /\ told \in Seq(Kinds) /\ holding \in Seq(Kinds) /\ cmds \in Seq(Kinds) =>
       Sent = told \o (holding \o cmds)
  /\ told' \in Seq(Kinds) /\ holding' \in Seq(Kinds) /\ cmds' \in Seq(Kinds) =>
       Sent' = told' \o (holding' \o cmds')
<1>1. ASSUME told \in Seq(Kinds), holding \in Seq(Kinds), cmds \in Seq(Kinds)
      PROVE  Sent = told \o (holding \o cmds)
  BY <1>1, Regroup DEF Sent
<1>2. ASSUME told' \in Seq(Kinds), holding' \in Seq(Kinds), cmds' \in Seq(Kinds)
      PROVE  Sent' = told' \o (holding' \o cmds')
  BY <1>2, Regroup DEF Sent
<1> QED  BY <1>1, <1>2

-----------------------------------------------------------------------------
(* A command goes into the pipe, or is dropped.                            *)
LEMMA PushEffect ==
  ASSUME TypeOK, NEW kind \in CommandKinds, Push(kind), UNCHANGED <<told, holding>>, pipeRefs > 0
  PROVE  /\ stale' = stale
         /\ cmds' \in Seq(CommandKinds) /\ dropped' \subseteq CommandKinds
         /\ \/ Sent' = Sent \o <<kind>> /\ cmds' = cmds \o <<kind>> /\ dropped' = dropped
            \/ Sent' = Sent /\ cmds' = cmds /\ dropped' = dropped \cup {kind}
<1>1. pipeRefs \in Int /\ stale \in BOOLEAN /\ cmds \in Seq(CommandKinds) /\ dropped \subseteq CommandKinds
  BY DEF TypeOK
<1>2. stale' = stale
  BY <1>1 DEF Push
<1>3. cmds' \in Seq(CommandKinds) /\ dropped' \subseteq CommandKinds
  BY <1>1, AppendProperties DEF Push
<1>4. CASE cmds' = Append(cmds, kind) /\ dropped' = dropped
  <2>1. kind \in Kinds
    BY DEF Kinds
  <2>2. cmds' = cmds \o <<kind>> /\ <<kind>> \in Seq(Kinds)
    BY <1>4, <2>1, SentParts, AppendedKinds, TimesOne
  <2>3. told \o holding \in Seq(Kinds) /\ (told \o holding \o cmds) \o <<kind>> = (told \o holding) \o (cmds \o <<kind>>)
    <3>1. told \in Seq(Kinds) /\ holding \in Seq(Kinds) /\ cmds \in Seq(Kinds)
      BY SentParts
    <3>2. told \o holding \in Seq(Kinds)
      BY <3>1, ConcatProperties
    <3>3. QED
      BY <2>2, <3>1, <3>2, Regroup
  <2>4. QED
    BY <1>2, <1>3, <1>4, <2>2, <2>3 DEF Sent
<1>5. CASE cmds' = cmds /\ dropped' = dropped \cup {kind}
  BY <1>2, <1>3, <1>5 DEF Sent
<1>6. QED
  BY <1>4, <1>5 DEF Push

(* What that means for the order and the number of the commands: nothing   *)
(* was sent after the end.                                                 *)
LEMMA PushSends ==
  ASSUME TypeOK, SentInv, NEW kind \in CommandKinds, Push(kind), UNCHANGED <<told, holding>>,
         pipeRefs > 0, ~Sends("terminate")
  PROVE  /\ stale' = stale
         /\ cmds' \in Seq(CommandKinds) /\ dropped' \subseteq CommandKinds
         /\ \A k : Sends(k)' => Sends(k) \/ k = kind
         /\ \A k : k # kind => Copies(k)' = Copies(k) /\ (k \in dropped' <=> k \in dropped)
         /\ dropped \subseteq dropped'
         /\ kind \in dropped' \/ (Copies(kind)' = Copies(kind) + 1 /\ Contains(cmds', kind))
         /\ \A k : Contains(cmds, k) => Contains(cmds', k)
         /\ LastTerminate'
<1>1. /\ stale' = stale
      /\ cmds' \in Seq(CommandKinds) /\ dropped' \subseteq CommandKinds
      /\ \/ Sent' = Sent \o <<kind>> /\ cmds' = cmds \o <<kind>> /\ dropped' = dropped
         \/ Sent' = Sent /\ cmds' = cmds /\ dropped' = dropped \cup {kind}
  BY PushEffect
<1>2. /\ kind \in Kinds /\ Sent \in Seq(Kinds) /\ cmds \in Seq(Kinds)
      /\ \A k : Copies(k) = Times(Sent, k)
  BY SentParts DEF Kinds
<1>3. \A k : Copies(k)' = Times(Sent', k)
  BY DEF Copies, Times
<1>4. CASE Sent' = Sent \o <<kind>> /\ cmds' = cmds \o <<kind>> /\ dropped' = dropped
  <2>1. /\ <<kind>> \in Seq(Kinds) /\ Len(<<kind>>) = 1
        /\ \A k : Contains(<<kind>>, k) <=> kind = k
        /\ \A k : Times(<<kind>>, k) = One(kind = k)
    BY <1>2, TimesOne
  <2>2. ASSUME NEW k
        PROVE  /\ Sends(k)' <=> Sends(k) \/ k = kind
               /\ Contains(cmds', k) <=> Contains(cmds, k) \/ k = kind
               /\ Copies(k)' = Copies(k) + One(kind = k)
    <3>1. Times(Sent', k) = Times(Sent, k) + One(kind = k)
      <4>1. Times(Sent \o <<kind>>, k) = Times(Sent, k) + Times(<<kind>>, k)
        <5>1. \A s, t \in Seq(Kinds) : Times(s \o t, k) = Times(s, k) + Times(t, k)
          BY TimesConcat
        <5>2. QED
          BY <1>2, <2>1, <5>1, Zenon
      <4>2. QED
        BY <1>4, <2>1, <4>1
    <3>2. /\ Contains(Sent', k) <=> Contains(Sent, k) \/ k = kind
          /\ Contains(cmds', k) <=> Contains(cmds, k) \/ k = kind
      BY <1>2, <1>4, <2>1, ContainsConcat
    <3>3. QED
      BY <1>2, <1>3, <3>1, <3>2 DEF Sends
  <2>3. \A k : Copies(k) \in Nat
    BY <1>2, TimesIsNumber
  <2>4. LastTerminate'
    <3>1. /\ Len(Sent) \in Nat /\ Len(Sent') = Len(Sent) + 1
          /\ \A i \in 1 .. Len(Sent) + 1 : Sent'[i] = IF i <= Len(Sent) THEN Sent[i] ELSE <<kind>>[i - Len(Sent)]
      BY <1>2, <1>4, <2>1, ConcatProperties, LenProperties
    <3>2. \A i \in 1 .. Len(Sent) : Sent[i] # "terminate" /\ Sent'[i] = Sent[i]
      BY <3>1 DEF Sends, Contains
    <3>3. QED
      BY <3>1, <3>2 DEF LastTerminate
  <2>5. QED
    BY <1>1, <1>4, <2>2, <2>3, <2>4 DEF One
<1>5. CASE Sent' = Sent /\ cmds' = cmds /\ dropped' = dropped \cup {kind}
  BY <1>1, <1>3, <1>2, <1>5 DEF Sends, LastTerminate, SentInv
<1>6. QED
  BY <1>1, <1>4, <1>5

-----------------------------------------------------------------------------
(* The initial state.                                                      *)
LEMMA IInit == Init => TypeOK /\ IInv
<1> SUFFICES ASSUME Init PROVE TypeOK /\ IInv
  OBVIOUS
<1>1. told = <<>> /\ holding = <<>> /\ cmds = <<>> /\ Len(holding) = 0
  BY DEF Init
<1>2. TypeOK
  <2>1. /\ devRefs \in [Devices -> Nat] /\ need \in [Devices -> Nat]
        /\ pc \in [Devices -> {"idle", "take", "pool", "overflow", "report", "store",
                               "level", "mark", "ask"}]
        /\ cmds \in Seq(CommandKinds) /\ holding \in Seq(CommandKinds)
        /\ told \in Seq(CommandKinds \cup {"closed"})
    BY <1>1 DEF Init
  <2>2. portions \in 0 .. MaxPortions /\ pipeRefs \in 0 .. 2 /\ taken \in 0 .. total
    BY StretchAssumption DEF Init
  <2>3. QED
    BY <2>1, <2>2 DEF Init, TypeOK
<1>3. Sent = <<>> /\ Len(Sent) = 0 /\ \A k : ~Sends(k)
  <2>1. <<>> \o <<>> = <<>>
    BY EmptySeq, ConcatEmptySeq
  <2>2. Sent = <<>>
    BY <1>1, <2>1 DEF Sent
  <2>3. QED
    BY <2>2 DEF Sends, Contains
<1>4. HoldsInv
  BY <1>1 DEF Init, HoldsInv, One
<1>5. PhasesInv
  BY DEF Init, PhasesInv, Young, Alive
<1>6. SentInv
  BY <1>3 DEF Init, SentInv, LastTerminate
<1>7. NoticesInv
  BY <1>3 DEF Init, NoticesInv, FlagMeansAsked, OverflowIsReported, NoOverflow, Reporters
<1>8. QED
  BY <1>2, <1>4, <1>5, <1>6, <1>7 DEF IInv

-----------------------------------------------------------------------------
(* A copier at work has a device, and with it the snapstore and the pipe.  *)
LEMMA CopierHasPipe ==
  ASSUME TypeOK, IInv, NEW d \in captured
  PROVE  /\ d \in Devices /\ devRefs[d] > 0 /\ attached /\ pipeRefs > 0 /\ ~Young
         /\ owner \in {"open", "adding", "closed"} /\ ~Sends("terminate")
<1>1. d \in Devices /\ devRefs[d] > 0
  <2>1. d \in Devices
    BY DEF TypeOK
  <2>2. devRefs[d] = One(d \in listed) + One(d \in captured)
    BY <2>1 DEF IInv, HoldsInv
  <2>3. QED
    BY <2>1, <2>2 DEF One
<1>2. ~Young /\ owner \in {"open", "adding", "closed"}
  BY DEF IInv, PhasesInv
<1>3. attached
  BY <1>1, <1>2 DEF IInv, PhasesInv, Alive
<1>4. pipeRefs > 0
  BY <1>3 DEF IInv, HoldsInv, One
<1>5. ~Sends("terminate")
  BY <1>3 DEF IInv, SentInv
<1>6. QED
  BY <1>1, <1>2, <1>3, <1>4, <1>5

LEMMA CopierKeepsPhases ==
  ASSUME TypeOK, IInv, NEW d \in captured, UNCHANGED <<deviceVars, pipeRefs, ownerVars>>,
         \A e \in Devices \ {d} : pc'[e] = pc[e] /\ need'[e] = need[e],
         pc'[d] \in {"take", "pool"} => need'[d] > 0
  PROVE  HoldsInv' /\ PhasesInv'
<1>1. ~Young
  BY CopierHasPipe
<1>2. UNCHANGED <<attached, devRefs, listed, captured, owner, told, holding, pipeRefs>>
  BY DEF deviceVars, ownerVars
<1>3. HoldsInv'
  BY <1>2 DEF IInv, HoldsInv
<1>4. PhasesInv'
  BY <1>1, <1>2 DEF IInv, PhasesInv, Young, Alive
<1>5. QED
  BY <1>3, <1>4

(* One copier begins or ends to report an overflow.                        *)
LEMMA ReportersMove ==
  ASSUME NEW d \in Devices, \A e \in Devices \ {d} : pc'[e] = pc[e]
  PROVE  /\ Cardinality(Reporters) \in Nat /\ Cardinality(Reporters') \in Nat
         /\ pc[d] # "report" /\ pc'[d] # "report" => Reporters' = Reporters
         /\ pc[d] # "report" /\ pc'[d] = "report" => Cardinality(Reporters') = Cardinality(Reporters) + 1
         /\ pc[d] = "report" /\ pc'[d] # "report" => Cardinality(Reporters') = Cardinality(Reporters) - 1
<1>1. IsFiniteSet(Reporters) /\ IsFiniteSet(Reporters')
  BY StretchAssumption, FS_Subset DEF Reporters
<1>2. Cardinality(Reporters) \in Nat /\ Cardinality(Reporters') \in Nat
  BY <1>1, FS_CardinalityType
<1>3. pc[d] # "report" /\ pc'[d] # "report" => Reporters' = Reporters
  BY DEF Reporters
<1>4. ASSUME pc[d] # "report", pc'[d] = "report"
      PROVE  Cardinality(Reporters') = Cardinality(Reporters) + 1
  <2>1. Reporters' = Reporters \cup {d} /\ d \notin Reporters
    BY <1>4 DEF Reporters
  <2>2. QED
    BY <1>1, <2>1, FS_AddElement
<1>5. ASSUME pc[d] = "report", pc'[d] # "report"
      PROVE  Cardinality(Reporters') = Cardinality(Reporters) - 1
  <2>1. Reporters' = Reporters \ {d} /\ d \in Reporters
    BY <1>5 DEF Reporters
  <2>2. QED
    BY <1>1, <2>1, FS_RemoveElement
<1>6. QED
  BY <1>2, <1>3, <1>4, <1>5

(* The same in terms of OverflowIsReported.                                *)
LEMMA ReportedCount ==
  OverflowIsReported <=>
    /\ corrupted # {} => overflowed > 0
    /\ attached /\ overflowed > 0 /\ "overflow" \notin dropped =>
         Copies("overflow") + Cardinality(Reporters) = 1
  BY DEF OverflowIsReported, Reporters

(* Nothing is sent: what was sent stays.                                   *)
LEMMA SentStays ==
  ASSUME UNCHANGED <<told, holding, cmds>>
  PROVE  /\ Sent' = Sent /\ LastTerminate' = LastTerminate
         /\ \A k : Sends(k)' = Sends(k)
         /\ \A k : Copies(k)' = Copies(k)
  BY DEF Sent, LastTerminate, Sends, Copies

(* A step of a copier that sends nothing: the first to find the pool empty *)
(* is to report it, the first to find it low to ask.                       *)
LEMMA CopierKeepsNotices ==
  ASSUME TypeOK, IInv, NEW d \in captured, UNCHANGED <<deviceVars, pipeVars, ownerVars>>,
         \A e \in Devices \ {d} : pc'[e] = pc[e],
         pc[d] \notin {"report", "ask"},
         overflowed' \in Nat,
         \/ overflowed = 0 /\ overflowed' = 1 /\ pc'[d] = "report"
         \/ overflowed' = overflowed /\ pc'[d] # "report"
         \/ overflowed > 0 /\ overflowed' > 0 /\ pc'[d] # "report",
         corrupted' = corrupted \/ overflowed' > 0,
         halffilled' = halffilled \/ halffilled > 0 \/ pc'[d] = "ask"
  PROVE  SentInv' /\ NoticesInv'
<1>1. d \in Devices
  BY CopierHasPipe
<1>2. /\ UNCHANGED <<attached, devRefs, listed, captured, owner, told, holding, cmds, asked, dropped, stale>>
      /\ overflowed \in Nat
  BY DEF deviceVars, ownerVars, pipeVars, TypeOK
<1>3. /\ Sent' = Sent /\ LastTerminate' = LastTerminate
      /\ \A k : Sends(k)' = Sends(k)
      /\ \A k : Copies(k)' = Copies(k)
  BY <1>2, SentStays
<1>4. SentInv'
  BY <1>2, <1>3 DEF IInv, SentInv
<1>5. FlagMeansAsked'
  BY <1>1, <1>2 DEF IInv, NoticesInv, FlagMeansAsked
<1>6. /\ OverflowIsReported /\ NoOverflow /\ Copies("overflow") \in Nat
      /\ ~Sends("overflow") => Copies("overflow") = 0
  <2>1. Sent \in Seq(Kinds) /\ Copies("overflow") = Times(Sent, "overflow")
    BY SentParts
  <2>2. QED
    BY <2>1, TimesIsNumber DEF IInv, NoticesInv, Sends
<1>7. NoOverflow' /\ OverflowIsReported'
  <2>1. CASE overflowed = 0 /\ overflowed' = 1 /\ pc'[d] = "report"
    <3>1. Reporters = {} /\ Copies("overflow") = 0 /\ Cardinality(Reporters) = 0
      BY <1>6, <2>1, FS_EmptySet DEF NoOverflow
    <3>2. Cardinality(Reporters') = 1
      BY <1>1, <2>1, <3>1, ReportersMove
    <3>3. NoOverflow'
      BY <2>1 DEF NoOverflow
    <3>4. /\ corrupted' # {} => overflowed' > 0
          /\ Copies("overflow")' + Cardinality(Reporters') = 1
      BY <1>3, <2>1, <3>1, <3>2
    <3>5. QED
      BY <3>3, <3>4 DEF OverflowIsReported, Reporters
  <2>2. CASE pc'[d] # "report"
    <3>1. Reporters' = Reporters
      BY <1>1, <2>2, ReportersMove
    <3>2. overflowed' = overflowed \/ (overflowed > 0 /\ overflowed' > 0)
      BY <2>2
    <3>3. NoOverflow'
      BY <1>2, <1>3, <1>6, <3>1, <3>2 DEF NoOverflow
    <3>4. /\ corrupted # {} => overflowed > 0
          /\ attached /\ overflowed > 0 /\ "overflow" \notin dropped =>
               Copies("overflow") + Cardinality(Reporters) = 1
      BY <1>6, ReportedCount
    <3>5. /\ corrupted' # {} => overflowed' > 0
          /\ attached' /\ overflowed' > 0 /\ "overflow" \notin dropped' =>
               Copies("overflow")' + Cardinality(Reporters') = 1
      BY <1>2, <1>3, <3>1, <3>2, <3>4
    <3>6. QED
      BY <3>3, <3>5 DEF OverflowIsReported, Reporters
  <2>3. QED
    BY <2>1, <2>2
<1>8. QED
  BY <1>4, <1>5, <1>7 DEF NoticesInv

-----------------------------------------------------------------------------
(* The copiers.                                                            *)
LEMMA QuietCopierKeepsInv ==
  ASSUME TypeOK, IInv, NEW d \in Devices,
         \/ \E n \in Needs[d] : CopyBegin(d, n)
         \/ TakeBlock(d) \/ PoolTake(d) \/ MarkOverflow(d)
         \/ StoreCheck(d) \/ CheckLevel(d) \/ MarkHalffill(d)
  PROVE  TypeOK' /\ IInv'
<1> DEFINE States == {"idle", "take", "pool", "overflow", "report", "store", "level", "mark", "ask"}
           Quiet ==
             /\ UNCHANGED <<total, deviceVars, pipeVars, ownerVars>>
             /\ pc' \in [Devices -> States] /\ need' \in [Devices -> Nat]
             /\ \A e \in Devices \ {d} : pc'[e] = pc[e] /\ need'[e] = need[e]
             /\ pc'[d] \in {"take", "pool"} => need'[d] > 0
             /\ pc[d] \notin {"report", "ask"}
             /\ taken' \in 0 .. total /\ halffilled' \in Nat /\ overflowed' \in Nat
             /\ corrupted' \subseteq Devices
             /\ \/ overflowed = 0 /\ overflowed' = 1 /\ pc'[d] = "report"
                \/ overflowed' = overflowed /\ pc'[d] # "report"
                \/ overflowed > 0 /\ overflowed' > 0 /\ pc'[d] # "report"
             /\ corrupted' = corrupted \/ overflowed' > 0
             /\ halffilled' = halffilled \/ halffilled > 0 \/ pc'[d] = "ask"
<1>1. /\ pc \in [Devices -> States] /\ need \in [Devices -> Nat]
      /\ total \in Nat /\ taken \in 0 .. total /\ halffilled \in Nat /\ overflowed \in Nat
      /\ corrupted \subseteq Devices /\ attached \in BOOLEAN
  BY DEF TypeOK
<1>2. d \in captured
  BY DEF CopyBegin, TakeBlock, PoolTake, MarkOverflow, StoreCheck, CheckLevel, MarkHalffill, Goes,
         Refused, IInv, HoldsInv
<1>3. attached
  BY <1>2, CopierHasPipe
<1>4. pc[d] \in {"take", "pool"} => need[d] > 0
  BY DEF IInv, HoldsInv
<1>5. ASSUME NEW n \in Needs[d], CopyBegin(d, n) PROVE Quiet
  <2>1. n \in Nat /\ n > 0
    BY StretchAssumption
  <2>2. QED
    BY <1>1, <1>5, <2>1 DEF CopyBegin, Goes, poolVars
<1>6. ASSUME TakeBlock(d) PROVE Quiet
  BY <1>1, <1>4, <1>6 DEF TakeBlock, Goes, Refused, poolVars
<1>7. ASSUME PoolTake(d) PROVE Quiet
  <2>1. pc[d] = "pool" /\ need[d] \in Nat /\ need[d] > 0
        /\ UNCHANGED <<total, halffilled, overflowed, deviceVars, corrupted, pipeVars, ownerVars>>
    BY <1>1, <1>4, <1>7 DEF PoolTake, Goes
  <2>2. CASE taken < total
    BY <1>1, <1>7, <2>1, <2>2 DEF PoolTake, Goes
  <2>3. CASE ~(taken < total)
    BY <1>1, <1>7, <2>1, <2>3 DEF PoolTake, Goes
  <2>4. QED
    BY <2>2, <2>3
<1>8. ASSUME MarkOverflow(d) PROVE Quiet
  <2>1. overflowed' = overflowed + 1
    BY <1>8 DEF MarkOverflow
  <2>2. QED
    BY <1>1, <1>3, <1>8, <2>1 DEF MarkOverflow, Goes, Refused
<1>9. ASSUME StoreCheck(d) PROVE Quiet
  BY <1>1, <1>9 DEF StoreCheck, Goes, poolVars
<1>10. ASSUME CheckLevel(d) PROVE Quiet
  BY <1>1, <1>10 DEF CheckLevel, Goes, poolVars
<1>11. ASSUME MarkHalffill(d) PROVE Quiet
  BY <1>1, <1>11 DEF MarkHalffill, Goes
<1>12. Quiet
  BY <1>5, <1>6, <1>7, <1>8, <1>9, <1>10, <1>11
<1>13. UNCHANGED <<deviceVars, pipeRefs, pipeVars, ownerVars>>
  BY <1>12 DEF pipeVars
<1>14. HoldsInv' /\ PhasesInv'
  BY <1>2, <1>12, <1>13, CopierKeepsPhases
<1>15. SentInv' /\ NoticesInv'
  BY <1>2, <1>12, <1>13, CopierKeepsNotices
<1>16. TypeOK'
  BY <1>12 DEF TypeOK, deviceVars, pipeVars, ownerVars
<1>17. QED
  BY <1>14, <1>15, <1>16 DEF IInv

LEMMA SenderKeepsInv ==
  ASSUME TypeOK, IInv, NEW d \in Devices, ReportOverflow(d) \/ AskPortion(d)
  PROVE  TypeOK' /\ IInv'
<1>1. PICK kind \in {"overflow", "halffill"} :
        /\ Push(kind)
        /\ kind = "overflow" => pc[d] = "report"
        /\ kind = "halffill" => pc[d] = "ask" /\ UNCHANGED corrupted
        /\ pc' = [pc EXCEPT ![d] = "idle"] /\ corrupted' \in {corrupted, corrupted \cup {d}}
        /\ UNCHANGED <<poolVars, deviceVars, need, pipeRefs, ownerVars>>
  BY DEF ReportOverflow, AskPortion, Refused, Goes
<1>2. /\ d \in captured
      /\ pc' \in [Devices -> {"idle", "take", "pool", "overflow", "report", "store", "level", "mark", "ask"}]
      /\ pc'[d] = "idle" /\ \A e \in Devices \ {d} : pc'[e] = pc[e]
      /\ overflowed \in Nat /\ overflowed' = overflowed
  BY <1>1 DEF TypeOK, IInv, HoldsInv, poolVars
<1>3. /\ attached /\ pipeRefs > 0 /\ owner \in {"open", "adding", "closed"} /\ ~Sends("terminate")
  BY <1>2, CopierHasPipe
<1>4. /\ UNCHANGED <<attached, devRefs, listed, captured, owner, told, holding, asked, halffilled>>
      /\ kind \in CommandKinds /\ SentInv
  BY <1>1 DEF deviceVars, ownerVars, poolVars, CommandKinds, IInv
<1>5. /\ stale' = stale
      /\ cmds' \in Seq(CommandKinds) /\ dropped' \subseteq CommandKinds
      /\ \A k : Sends(k)' => Sends(k) \/ k = kind
      /\ \A k : k # kind => Copies(k)' = Copies(k) /\ (k \in dropped' <=> k \in dropped)
      /\ dropped \subseteq dropped'
      /\ kind \in dropped' \/ (Copies(kind)' = Copies(kind) + 1 /\ Contains(cmds', kind))
      /\ \A k : Contains(cmds, k) => Contains(cmds', k)
      /\ LastTerminate'
  BY <1>1, <1>3, <1>4, PushSends
<1>6. HoldsInv' /\ PhasesInv'
  BY <1>1, <1>2, CopierKeepsPhases
<1>7. SentInv'
  BY <1>1, <1>3, <1>4, <1>5 DEF SentInv
<1>8. FlagMeansAsked'
  <2>1. FlagMeansAsked /\ ("halffill" \in dropped => "halffill" \in dropped')
    BY <1>5 DEF IInv, NoticesInv
  <2>2. /\ holding \in Seq(Kinds) /\ cmds \in Seq(Kinds) /\ cmds' \in Seq(Kinds)
    <3>1. CommandKinds \subseteq Kinds
      BY DEF Kinds
    <3>2. QED
      BY <1>5, <3>1, SentParts, SeqMonotonic
  <2>3. \A k : Contains(holding \o cmds, k) => Contains(holding \o cmds', k)
    BY <1>5, <2>2, ContainsConcat
  <2>4. Contains(cmds', "halffill") => Contains(holding \o cmds', "halffill")
    BY <2>2, ContainsConcat
  <2>5. CASE kind = "halffill"
    BY <1>4, <1>5, <2>4, <2>5 DEF FlagMeansAsked
  <2>6. CASE kind = "overflow"
    <3>1. \A e \in Devices : pc[e] = "ask" => pc'[e] = "ask"
      BY <1>1, <1>2, <2>6
    <3>2. QED
      BY <1>4, <2>1, <2>3, <3>1 DEF FlagMeansAsked
  <2>7. QED
    BY <1>1, <2>5, <2>6
<1>9. NoOverflow' /\ OverflowIsReported'
  <2>1. /\ OverflowIsReported /\ NoOverflow /\ Copies("overflow") \in Nat
    <3>1. Sent \in Seq(Kinds) /\ Copies("overflow") = Times(Sent, "overflow")
      BY SentParts
    <3>2. QED
      BY <3>1, TimesIsNumber DEF IInv, NoticesInv
  <2>2. /\ corrupted # {} => overflowed > 0
        /\ attached /\ overflowed > 0 /\ "overflow" \notin dropped =>
             Copies("overflow") + Cardinality(Reporters) = 1
    BY <2>1, ReportedCount
  <2>3. CASE kind = "halffill"
    <3>1. Reporters' = Reporters /\ corrupted' = corrupted
      BY <1>1, <1>2, <2>3, ReportersMove
    <3>2. Copies("overflow")' = Copies("overflow") /\ ("overflow" \in dropped' <=> "overflow" \in dropped)
      BY <1>5, <2>3
    <3>3. NoOverflow'
      BY <1>2, <1>5, <2>1, <2>3, <3>1, <3>2 DEF NoOverflow
    <3>4. /\ corrupted' # {} => overflowed' > 0
          /\ attached' /\ overflowed' > 0 /\ "overflow" \notin dropped' =>
               Copies("overflow")' + Cardinality(Reporters') = 1
      BY <1>2, <1>4, <2>2, <3>1, <3>2
    <3>5. QED
      BY <3>3, <3>4 DEF OverflowIsReported, Reporters
  <2>4. CASE kind = "overflow"
    <3>1. overflowed > 0
      BY <1>1, <1>2, <2>1, <2>4 DEF NoOverflow, Reporters
    <3>2. Cardinality(Reporters') = Cardinality(Reporters) - 1 /\ Cardinality(Reporters) \in Nat
      BY <1>1, <1>2, <2>4, ReportersMove
    <3>3. "overflow" \in dropped' \/ ("overflow" \notin dropped /\ Copies("overflow")' = Copies("overflow") + 1)
      BY <1>5, <2>4
    <3>4. /\ corrupted' # {} => overflowed' > 0
          /\ attached' /\ overflowed' > 0 /\ "overflow" \notin dropped' =>
               Copies("overflow")' + Cardinality(Reporters') = 1
      BY <1>2, <1>3, <2>1, <2>2, <3>1, <3>2, <3>3
    <3>5. NoOverflow'
      BY <1>2, <3>1 DEF NoOverflow
    <3>6. QED
      BY <3>4, <3>5 DEF OverflowIsReported, Reporters
  <2>5. QED
    BY <1>1, <2>3, <2>4
<1>10. TypeOK'
  <2>1. corrupted' \subseteq Devices
    BY <1>1 DEF TypeOK
  <2>2. QED
    BY <1>1, <1>2, <1>5, <2>1 DEF TypeOK, poolVars, deviceVars, ownerVars
<1>11. QED
  BY <1>6, <1>7, <1>8, <1>9, <1>10 DEF IInv, NoticesInv

-----------------------------------------------------------------------------
(* The devices are captured, released and taken off the list.              *)
LEMMA CaptureKeepsInv ==
  ASSUME TypeOK, IInv, NEW d \in Devices, Capture(d)
  PROVE  TypeOK' /\ IInv'
<1>1. /\ Told("acknowledge") /\ d \in listed /\ d \notin captured
      /\ captured' = captured \cup {d}
      /\ devRefs' = [devRefs EXCEPT ![d] = @ + 1]
      /\ UNCHANGED <<poolVars, attached, listed, copierVars, pipeVars, ownerVars>>
  BY DEF Capture
<1>2. devRefs \in [Devices -> Nat] /\ captured \subseteq Devices
  BY DEF TypeOK
<1>3. Sends("acknowledge") /\ owner \in {"open", "adding", "closed"} /\ told # <<>>
  <2>1. Sends("acknowledge")
    BY <1>1, SentParts
  <2>2. told # <<>>
    BY <1>1 DEF Told, Contains
  <2>3. QED
    BY <2>1, <2>2 DEF IInv, SentInv
<1>4. devRefs[d] > 0 /\ attached
  <2>1. devRefs[d] > 0
    <3>1. devRefs[d] = One(d \in listed) + One(d \in captured)
      BY DEF IInv, HoldsInv
    <3>2. QED
      BY <1>1, <3>1 DEF One
  <2>2. QED
    BY <1>3, <2>1 DEF IInv, PhasesInv, Alive
<1>5. HoldsInv'
  <2>1. HoldsInv /\ UNCHANGED <<pc, need, pipeRefs, owner, attached, holding, listed>>
    BY <1>1 DEF IInv, copierVars, pipeVars, ownerVars
  <2>2. ASSUME NEW e \in Devices
        PROVE  devRefs'[e] = One(e \in listed') + One(e \in captured')
    BY <1>1, <1>2, <2>1 DEF HoldsInv, One
  <2>3. QED
    BY <1>1, <2>1, <2>2 DEF HoldsInv
<1>6. PhasesInv'
  BY <1>1, <1>3, <1>4 DEF IInv, PhasesInv, Young, ownerVars, poolVars, pipeVars
<1>7. /\ UNCHANGED <<told, holding, cmds, owner, stale, asked, dropped, overflowed, halffilled, pc, corrupted>>
      /\ Sent' = Sent /\ LastTerminate' = LastTerminate
      /\ \A k : Sends(k)' = Sends(k)
      /\ \A k : Copies(k)' = Copies(k)
  BY <1>1, SentStays DEF ownerVars, pipeVars, poolVars, copierVars
<1>8. SentInv'
  BY <1>1, <1>4, <1>7 DEF IInv, SentInv
<1>9. NoticesInv'
  BY <1>1, <1>7 DEF IInv, NoticesInv, FlagMeansAsked, OverflowIsReported, NoOverflow, Reporters
<1>10. TypeOK'
  BY <1>1, <1>2 DEF TypeOK, poolVars, copierVars, pipeVars, ownerVars
<1>11. QED
  BY <1>5, <1>6, <1>8, <1>9, <1>10 DEF IInv

(* A reference of a device is put, and with the last one the snapstore.    *)
LEMMA PutKeepsInv ==
  ASSUME TypeOK, IInv, NEW d \in Devices, Release(d) \/ CleanupDevice(d)
  PROVE  TypeOK' /\ IInv'
<1>1. /\ PutDevice(d) /\ UNCHANGED <<poolVars, copierVars, ownerVars>>
      /\ \/ d \in captured /\ pc[d] = "idle" /\ captured' = captured \ {d} /\ listed' = listed
         \/ /\ d \in listed /\ listed' = listed \ {d} /\ captured' = captured
            /\ Told("acknowledge") \/ Told("closed")
  BY DEF Release, CleanupDevice
<1>2. devRefs \in [Devices -> Nat] /\ captured \subseteq Devices /\ listed \subseteq Devices /\ attached \in BOOLEAN
  BY DEF TypeOK
<1>3. \A e \in Devices : devRefs[e] = One(e \in listed) + One(e \in captured)
  BY DEF IInv, HoldsInv
<1>4. /\ devRefs' = [devRefs EXCEPT ![d] = @ - 1] /\ devRefs[d] > 0
      /\ \A e \in Devices : devRefs'[e] = One(e \in listed') + One(e \in captured')
      /\ \A e \in Devices : devRefs'[e] <= devRefs[e]
      /\ devRefs' \in [Devices -> Nat]
  <2>1. devRefs' = [devRefs EXCEPT ![d] = @ - 1]
    BY <1>1 DEF PutDevice
  <2>2. devRefs[d] > 0
    BY <1>1, <1>3 DEF One
  <2>3. ASSUME NEW e \in Devices
        PROVE  devRefs'[e] = One(e \in listed') + One(e \in captured') /\ devRefs'[e] <= devRefs[e]
    BY <1>1, <1>2, <1>3, <2>1 DEF One
  <2>4. QED
    BY <1>2, <2>1, <2>2, <2>3
<1>5. owner \in {"open", "adding", "closed"} /\ ~Young
  <2>1. CASE d \in captured
    BY <2>1 DEF IInv, PhasesInv
  <2>2. CASE Told("acknowledge") \/ Told("closed")
    <3>1. Sends("acknowledge") \/ Sends("closed")
      BY <2>2, SentParts
    <3>2. told # <<>>
      BY <2>2 DEF Told, Contains
    <3>3. QED
      BY <3>1, <3>2 DEF IInv, SentInv, Young
  <2>3. QED
    BY <1>1, <2>1, <2>2
<1>6. attached /\ pipeRefs > 0 /\ ~Sends("terminate") /\ pipeRefs \in Int
  <2>1. attached
    BY <1>4, <1>5 DEF IInv, PhasesInv, Alive
  <2>2. pipeRefs = One(owner # "closed") + One(attached)
    BY DEF IInv, HoldsInv
  <2>3. QED
    BY <2>1, <2>2 DEF One, IInv, SentInv
<1>7. /\ UNCHANGED <<total, taken, halffilled, overflowed, owner, told, holding, asked, pc, need, corrupted, adding, portions>>
      /\ Len(holding) <= 1 /\ pipeRefs = One(owner # "closed") + One(attached)
      /\ pipeRefs \in 0 .. 2
  BY <1>1 DEF poolVars, copierVars, ownerVars, IInv, HoldsInv, TypeOK
<1>8. /\ \A e \in Devices : pc'[e] # "idle" => e \in captured'
      /\ \A e \in Devices : pc'[e] \in {"take", "pool"} => need'[e] > 0
  BY <1>1, <1>7 DEF IInv, HoldsInv
<1>9. CASE \A e \in Devices : devRefs'[e] = 0
  <2>1. /\ attached' = FALSE /\ Push("terminate") /\ pipeRefs' = pipeRefs - 1
    BY <1>1, <1>6, <1>9 DEF PutDevice
  <2>2. /\ stale' = stale
        /\ cmds' \in Seq(CommandKinds) /\ dropped' \subseteq CommandKinds
        /\ \A k : Sends(k)' => Sends(k) \/ k = "terminate"
        /\ \A k : k # "terminate" => (k \in dropped' <=> k \in dropped)
        /\ LastTerminate'
    <3>1. "terminate" \in CommandKinds
      BY DEF CommandKinds
    <3>2. QED
      BY <1>6, <1>7, <2>1, <3>1, PushSends DEF IInv
  <2>3. pipeRefs' = One(owner' # "closed") + One(attached') /\ pipeRefs' \in 0 .. 2
    BY <1>6, <1>7, <2>1 DEF One
  <2>4. HoldsInv'
    BY <1>4, <1>7, <1>8, <2>3 DEF HoldsInv
  <2>5. PhasesInv'
    BY <1>1, <1>5, <1>7, <1>9, <2>1 DEF IInv, PhasesInv, Young, Alive
  <2>6. SentInv'
    BY <1>5, <1>7, <1>9, <2>1, <2>2 DEF IInv, SentInv
  <2>7. NoticesInv'
    BY <1>7, <2>1, <2>2 DEF IInv, NoticesInv, FlagMeansAsked, OverflowIsReported, NoOverflow, Reporters
  <2>8. TypeOK'
    BY <1>1, <1>2, <1>4, <1>7, <2>1, <2>2, <2>3 DEF TypeOK, IInv, SentInv
  <2>9. QED
    BY <2>4, <2>5, <2>6, <2>7, <2>8 DEF IInv
<1>10. CASE ~(\A e \in Devices : devRefs'[e] = 0)
  <2>1. UNCHANGED <<attached, pipeRefs, cmds, dropped, stale>>
    BY <1>1, <1>6, <1>10 DEF PutDevice, pipeVars
  <2>2. HoldsInv'
    BY <1>4, <1>7, <1>8, <2>1 DEF HoldsInv
  <2>3. PhasesInv'
    BY <1>1, <1>5, <1>6, <1>7, <2>1 DEF IInv, PhasesInv, Young, Alive
  <2>4. /\ Sent' = Sent /\ LastTerminate' = LastTerminate
        /\ \A k : Sends(k)' = Sends(k)
        /\ \A k : Copies(k)' = Copies(k)
    BY <1>7, <2>1, SentStays
  <2>5. SentInv'
    BY <1>6, <1>7, <2>1, <2>4 DEF IInv, SentInv
  <2>6. NoticesInv'
    BY <1>7, <2>1, <2>4 DEF IInv, NoticesInv, FlagMeansAsked, OverflowIsReported, NoOverflow, Reporters
  <2>7. TypeOK'
    BY <1>1, <1>2, <1>4, <1>7, <2>1 DEF TypeOK
  <2>8. QED
    BY <2>2, <2>3, <2>5, <2>6, <2>7 DEF IInv
<1>11. QED
  BY <1>9, <1>10

-----------------------------------------------------------------------------
(* The thread that owns the pipe: it makes the snapstore, ...              *)
LEMMA CreationKeepsInv ==
  ASSUME TypeOK, IInv, Open \/ Create \/ CreateFails \/ Attach
  PROVE  TypeOK' /\ IInv'
<1>1. /\ UNCHANGED <<poolVars, captured, copierVars, cmds, dropped, stale, adding, portions, holding, told, asked>>
      /\ \/ /\ owner = "closed" /\ told = <<>> /\ pipeRefs = 0 /\ owner' = "new" /\ pipeRefs' = 1
            /\ UNCHANGED <<attached, devRefs, listed>>
         \/ /\ owner = "new" /\ owner' = "attach" /\ UNCHANGED <<attached, pipeRefs>>
            /\ devRefs' = [e \in Devices |-> 1] /\ listed' = Devices
         \/ /\ owner = "new" /\ owner' = "failed" /\ UNCHANGED <<attached, devRefs, listed, pipeRefs>>
         \/ /\ owner = "attach" /\ owner' = "acknowledge" /\ attached' = TRUE /\ pipeRefs' = pipeRefs + 1
            /\ UNCHANGED <<devRefs, listed>>
  BY DEF Open, Create, CreateFails, Attach, OwnerGoes, deviceVars, pipeVars
<1>2. Young
  BY <1>1 DEF Young
<1>3. /\ told = <<>> /\ holding = <<>> /\ cmds = <<>>
      /\ ~attached /\ captured = {} /\ overflowed = 0 /\ halffilled = 0 /\ attached \in BOOLEAN
  BY <1>2 DEF IInv, PhasesInv, TypeOK
<1>4. /\ UNCHANGED <<total, taken, overflowed, halffilled, captured, pc, need, corrupted, cmds, dropped, stale, adding,
                     portions, holding, told, asked>>
      /\ devRefs \in [Devices -> Nat]
  BY <1>1 DEF poolVars, copierVars, TypeOK
<1>5. \A k : ~Sends(k)
  BY <1>3, SentParts DEF Told, Contains
<1>6. /\ Sent' = Sent /\ LastTerminate' = LastTerminate
      /\ \A k : Sends(k)' = Sends(k)
      /\ \A k : Copies(k)' = Copies(k)
  BY <1>4, SentStays
<1>7. HoldsInv'
  <2>1. HoldsInv
    BY DEF IInv
  <2>2. ASSUME NEW e \in Devices PROVE devRefs'[e] = One(e \in listed') + One(e \in captured')
    <3>1. devRefs[e] = One(e \in listed) + One(e \in captured)
      BY <2>1 DEF HoldsInv
    <3>2. QED
      BY <1>1, <1>3, <1>4, <3>1 DEF One
  <2>3. pipeRefs' = One(owner' # "closed") + One(attached')
    <3>1. pipeRefs = One(owner # "closed") + One(attached)
      BY <2>1 DEF HoldsInv
    <3>2. QED
      BY <1>1, <1>3, <3>1 DEF One
  <2>4. QED
    BY <1>4, <2>1, <2>2, <2>3 DEF HoldsInv
<1>8. PhasesInv'
  <2>1. PhasesInv /\ owner \in {"closed", "new", "attach"}
    BY <1>1 DEF IInv
  <2>2. \A e \in Devices : owner # "attach" => ~Alive(e)
    BY <1>3, <2>1 DEF PhasesInv
  <2>3. owner = "closed" => listed = {}
    <3>1. ASSUME owner = "closed", NEW e \in listed PROVE FALSE
      <4>1. e \in Devices /\ devRefs[e] = One(e \in listed) + One(e \in captured)
        BY <3>1 DEF TypeOK, IInv, HoldsInv
      <4>2. Alive(e)
        BY <1>3, <3>1, <4>1 DEF One, Alive
      <4>3. QED
        BY <2>2, <3>1, <4>1, <4>2
    <3>2. QED
      BY <3>1
  <2>4. QED
    BY <1>1, <1>3, <1>4, <2>1, <2>2, <2>3 DEF PhasesInv, Young, Alive
<1>9. SentInv'
  BY <1>4, <1>5, <1>6 DEF IInv, SentInv
<1>10. NoticesInv'
  BY <1>3, <1>4, <1>6 DEF IInv, NoticesInv, FlagMeansAsked, OverflowIsReported, NoOverflow, Reporters
<1>11. TypeOK'
  <2>1. /\ pipeRefs' \in 0 .. 2 /\ attached' \in BOOLEAN /\ listed' \subseteq Devices
        /\ devRefs' \in [Devices -> Nat]
    <3>1. pipeRefs' = One(owner' # "closed") + One(attached')
      BY <1>7 DEF HoldsInv
    <3>2. attached \in BOOLEAN /\ listed \subseteq Devices
      BY DEF TypeOK
    <3>3. pipeRefs' \in 0 .. 2
      BY <3>1 DEF One
    <3>4. attached' \in BOOLEAN /\ listed' \subseteq Devices
      BY <1>1, <3>2
    <3>5. devRefs' \in [Devices -> Nat]
      <4>1. [e \in Devices |-> 1] \in [Devices -> Nat]
        OBVIOUS
      <4>2. devRefs' = devRefs \/ devRefs' = [e \in Devices |-> 1]
        BY <1>1
      <4>3. QED
        BY <1>4, <4>1, <4>2
    <3>6. QED
      BY <3>3, <3>4, <3>5
  <2>2. owner' \in {"closed", "new", "attach", "acknowledge", "failed", "refused", "open", "adding"}
    BY <1>1
  <2>3. QED
    BY <1>4, <2>1, <2>2 DEF TypeOK
<1>12. QED
  BY <1>7, <1>8, <1>9, <1>10, <1>11 DEF IInv

(* ... acknowledges it, ...                                                *)
LEMMA AcknowledgeKeepsInv ==
  ASSUME TypeOK, IInv, Acknowledge
  PROVE  TypeOK' /\ IInv'
<1>1. PICK kind \in {"acknowledge", "refuse"} :
        /\ Push(kind)
        /\ UNCHANGED <<poolVars, deviceVars, copierVars, pipeRefs, adding, portions, holding, told, asked>>
        /\ \/ kind = "acknowledge" /\ owner = "acknowledge" /\ owner' = "open"
           \/ kind = "refuse" /\ owner = "failed" /\ owner' = "refused"
  BY DEF Acknowledge, OwnerGoes
<1>2. UNCHANGED <<total, taken, overflowed, halffilled, attached, devRefs, listed, captured, pc, need, corrupted,
                  pipeRefs, adding, portions, holding, told, asked>>
  BY <1>1 DEF poolVars, deviceVars, copierVars
<1>3. ~Young /\ pipeRefs > 0 /\ ~Sends("terminate") /\ kind \in CommandKinds
  <2>1. pipeRefs = One(owner # "closed") + One(attached)
    BY DEF IInv, HoldsInv
  <2>2. QED
    BY <1>1, <2>1 DEF Young, One, IInv, SentInv, CommandKinds
<1>4. /\ stale' = stale
      /\ cmds' \in Seq(CommandKinds) /\ dropped' \subseteq CommandKinds
      /\ \A k : Sends(k)' => Sends(k) \/ k = kind
      /\ \A k : k # kind => Copies(k)' = Copies(k) /\ (k \in dropped' <=> k \in dropped)
      /\ \A k : Contains(cmds, k) => Contains(cmds', k)
      /\ LastTerminate'
  BY <1>1, <1>2, <1>3, PushSends DEF IInv
<1>5. HoldsInv'
  <2>1. HoldsInv /\ (owner # "closed") = (owner' # "closed")
    BY <1>1 DEF IInv
  <2>2. QED
    BY <1>2, <2>1 DEF HoldsInv
<1>6. PhasesInv'
  BY <1>1, <1>2, <1>3 DEF IInv, PhasesInv, Young, Alive
<1>7. SentInv'
  BY <1>1, <1>2, <1>3, <1>4 DEF IInv, SentInv
<1>8. NoticesInv'
  <2>1. holding \in Seq(Kinds) /\ cmds \in Seq(Kinds) /\ cmds' \in Seq(Kinds)
    <3>1. CommandKinds \subseteq Kinds
      BY DEF Kinds
    <3>2. QED
      BY <1>4, <3>1, SentParts, SeqMonotonic
  <2>2. \A k : Contains(holding \o cmds, k) => Contains(holding \o cmds', k)
    BY <1>4, <2>1, ContainsConcat
  <2>3. /\ Copies("overflow")' = Copies("overflow")
        /\ "overflow" \in dropped' <=> "overflow" \in dropped
        /\ "halffill" \in dropped' <=> "halffill" \in dropped
        /\ Sends("overflow")' => Sends("overflow")
    BY <1>1, <1>4
  <2>4. FlagMeansAsked'
    BY <1>1, <1>2, <2>2, <2>3 DEF IInv, NoticesInv, FlagMeansAsked
  <2>5. QED
    BY <1>2, <2>3, <2>4 DEF IInv, NoticesInv, OverflowIsReported, NoOverflow, Reporters
<1>9. TypeOK'
  BY <1>1, <1>2, <1>4 DEF TypeOK, IInv, SentInv
<1>10. QED
  BY <1>5, <1>6, <1>7, <1>8, <1>9 DEF IInv

(* ... reads the pipe, ...                                                 *)
LEMMA ReadKeepsInv ==
  ASSUME TypeOK, IInv, ReadFirst \/ ReadCopies \/ ReadPutsBack
  PROVE  TypeOK' /\ IInv'
<1>1. UNCHANGED <<poolVars, deviceVars, copierVars, pipeRefs, dropped, stale, owner, adding, portions>>
  BY DEF ReadFirst, ReadCopies, ReadPutsBack, pipeVars
<1>2. UNCHANGED <<total, taken, overflowed, halffilled, attached, devRefs, listed, captured, pc, need, corrupted,
                  pipeRefs, dropped, stale, owner, adding, portions>>
  BY <1>1 DEF poolVars, deviceVars, copierVars
<1>3. /\ told \in Seq(Kinds) /\ holding \in Seq(Kinds) /\ cmds \in Seq(Kinds) /\ Sent \in Seq(Kinds)
      /\ told \in Seq(CommandKinds \cup {"closed"})
      /\ holding \in Seq(CommandKinds) /\ cmds \in Seq(CommandKinds)
      /\ CommandKinds \subseteq CommandKinds \cup {"closed"}
  BY SentParts DEF TypeOK
<1>4. Len(holding) <= 1 /\ asked \in BOOLEAN
  BY DEF IInv, HoldsInv, TypeOK
<1>5. ~Young
  <2>1. ASSUME Young PROVE holding = <<>> /\ cmds = <<>>
    BY <2>1 DEF IInv, PhasesInv
  <2>2. QED
    BY <2>1 DEF ReadFirst, ReadCopies, ReadPutsBack
<1> DEFINE Moved ==
      /\ told' \in Seq(CommandKinds \cup {"closed"}) /\ holding' \in Seq(CommandKinds) /\ cmds' \in Seq(CommandKinds)
      /\ Len(holding') <= 1 /\ asked' \in BOOLEAN /\ Sent' = Sent
      /\ told' = <<>> => told = <<>>
      /\ Contains(holding \o cmds, "halffill") \/ asked => Contains(holding' \o cmds', "halffill") \/ asked'
<1>6. ASSUME ReadFirst PROVE Moved
  <2>1. /\ holding = <<>> /\ cmds # <<>> /\ holding' = <<Head(cmds)>> /\ cmds' = Tail(cmds)
        /\ told' = told /\ asked' = asked
    BY <1>6 DEF ReadFirst
  <2>2. Head(cmds) \in CommandKinds /\ Tail(cmds) \in Seq(CommandKinds) /\ cmds = <<Head(cmds)>> \o Tail(cmds)
    BY <1>3, <2>1, HeadTailProperties
  <2>3. holding' \in Seq(CommandKinds) /\ Len(holding') = 1
    BY <2>1, <2>2
  <2>4. holding' \in Seq(Kinds) /\ cmds' \in Seq(Kinds)
    BY <1>3, <2>1, <2>2, <2>3, SeqMonotonic DEF Kinds
  <2>5. holding \o cmds = holding' \o cmds'
    BY <1>3, <2>1, <2>2, ConcatEmptySeq
  <2>6. Sent' = told' \o (holding' \o cmds') /\ Sent = told \o (holding \o cmds)
    <3>1. told \in Seq(Kinds) /\ holding \in Seq(Kinds) /\ cmds \in Seq(Kinds) /\ told' \in Seq(Kinds)
      BY <1>3, <2>1
    <3>2. QED
      BY <2>4, <3>1, SentRegroups
  <2>7. Sent' = Sent
    BY <2>1, <2>5, <2>6
  <2>8. told' \in Seq(CommandKinds \cup {"closed"}) /\ cmds' \in Seq(CommandKinds) /\ asked' \in BOOLEAN
    BY <1>3, <1>4, <2>1, <2>2
  <2>9. Contains(holding \o cmds, "halffill") \/ asked => Contains(holding' \o cmds', "halffill") \/ asked'
    BY <2>1, <2>5
  <2>10. Len(holding') <= 1
    BY <2>3
  <2>11. told' = <<>> => told = <<>>
    BY <2>1
  <2>12. QED
    BY <2>3, <2>7, <2>8, <2>9, <2>10, <2>11
<1>7. ASSUME ReadCopies PROVE Moved
  <2>1. /\ holding # <<>> /\ holding' = <<>> /\ told' = told \o holding /\ cmds' = cmds
        /\ asked' = (asked \/ holding[1] = "halffill")
    BY <1>7 DEF ReadCopies, pipeVars
  <2>2. holding \in Seq(CommandKinds \cup {"closed"}) /\ told' \in Seq(CommandKinds \cup {"closed"})
    BY <1>3, <2>1, SeqMonotonic, ConcatProperties
  <2>3. told' \in Seq(Kinds)
    BY <2>2 DEF Kinds
  <2>4. holding' \in Seq(CommandKinds) /\ Len(holding') = 0
    BY <2>1
  <2>5. told' \o holding' = told \o holding
    BY <2>1, <2>3, ConcatEmptySeq
  <2>6. Sent' = Sent
    BY <2>1, <2>5 DEF Sent
  <2>7. told' = <<>> => told = <<>>
    <3>1. Len(told) \in Nat /\ Len(holding) \in Nat /\ Len(told \o holding) = Len(told) + Len(holding)
      BY <1>3, LenProperties, ConcatProperties
    <3>2. Len(told') = 0 => Len(told) = 0
      BY <2>1, <3>1
    <3>3. told' = <<>> => Len(told') = 0
      OBVIOUS
    <3>4. Len(told) = 0 => told = <<>>
      BY <1>3, EmptySeq
    <3>5. QED
      BY <3>2, <3>3, <3>4
  <2>8. Contains(holding \o cmds, "halffill") => Contains(holding' \o cmds', "halffill") \/ asked'
    <3>1. holding' \o cmds' = cmds
      BY <1>3, <2>1, ConcatEmptySeq
    <3>2. Contains(holding, "halffill") => holding[1] = "halffill"
      BY <1>3, <1>4, LenProperties DEF Contains
    <3>3. Contains(holding \o cmds, "halffill") <=> Contains(holding, "halffill") \/ Contains(cmds, "halffill")
      BY <1>3, ContainsConcat
    <3>4. Contains(holding, "halffill") => asked'
      BY <2>1, <3>2
    <3>5. QED
      BY <3>1, <3>3, <3>4
  <2>9. asked' \in BOOLEAN /\ (asked => asked')
    BY <1>4, <2>1
  <2>10. QED
    BY <1>3, <2>1, <2>2, <2>4, <2>6, <2>7, <2>8, <2>9
<1>8. ASSUME ReadPutsBack PROVE Moved
  <2>1. /\ holding' = <<>> /\ cmds' = holding \o cmds /\ told' = told /\ asked' = asked
    BY <1>8 DEF ReadPutsBack
  <2>2. cmds' \in Seq(CommandKinds) /\ holding' \in Seq(CommandKinds) /\ Len(holding') = 0
    BY <1>3, <2>1, ConcatProperties
  <2>3. holding \o cmds \in Seq(Kinds)
    BY <1>3, ConcatProperties
  <2>4. holding' \o cmds' = holding \o cmds /\ told' \o holding' = told
    BY <1>3, <2>1, <2>3, ConcatEmptySeq
  <2>5. told \o holding \o cmds = told \o (holding \o cmds)
    BY <1>3, ConcatAssociative
  <2>6. Sent' = Sent
    BY <2>1, <2>4, <2>5 DEF Sent
  <2>7. QED
    BY <1>3, <1>4, <2>1, <2>2, <2>4, <2>6
<1>9. Moved
  BY <1>6, <1>7, <1>8
<1> HIDE DEF Moved
<1>10. /\ \A k : Sends(k)' = Sends(k)
       /\ \A k : Copies(k)' = Copies(k)
       /\ LastTerminate' = LastTerminate
  BY <1>9 DEF Moved, Sends, Copies, LastTerminate
<1>11. HoldsInv'
  BY <1>2, <1>9 DEF IInv, HoldsInv, Moved
<1>12. PhasesInv'
  BY <1>2, <1>5, <1>9 DEF IInv, PhasesInv, Young, Alive, Moved
<1>13. SentInv'
  BY <1>2, <1>10 DEF IInv, SentInv
<1>14. NoticesInv'
  <2>1. FlagMeansAsked'
    BY <1>2, <1>9 DEF IInv, NoticesInv, FlagMeansAsked, Moved
  <2>2. QED
    BY <1>2, <1>10, <2>1 DEF IInv, NoticesInv, OverflowIsReported, NoOverflow, Reporters
<1>15. TypeOK'
  BY <1>2, <1>9 DEF TypeOK, Moved
<1>16. QED
  BY <1>11, <1>12, <1>13, <1>14, <1>15 DEF IInv

(* ... adds the portions to the pool ...                                   *)
LEMMA PortionKeepsInv ==
  ASSUME TypeOK, IInv, (\E n \in Portions : PortionBegin(n)) \/ AddBlock \/ AddFails \/ PortionEnd
  PROVE  TypeOK' /\ IInv'
<1>1. /\ UNCHANGED <<deviceVars, copierVars, pipeRefs, cmds, stale, holding, told, taken,
                     overflowed>>
      /\ dropped' \in {dropped, dropped \ {"halffill"}}
      /\ owner \in {"open", "adding"} /\ owner' \in {"open", "adding"}
      /\ owner' = "adding" \/ (asked' = TRUE /\ asked' # FALSE) \/ halffilled' = 0
      /\ halffilled' \in {0, halffilled}
      /\ owner = "open" => owner' = "adding"
  BY DEF PortionBegin, AddBlock, AddFails, PortionEnd, OwnerGoes, poolVars, pipeVars
<1>2. total' \in Nat /\ taken' \in 0 .. total' /\ adding' \in Nat /\ portions' \in 0 .. MaxPortions /\ asked' \in BOOLEAN
  <2>1. /\ total \in Nat /\ taken \in 0 .. total /\ adding \in Nat /\ portions \in 0 .. MaxPortions
        /\ asked \in BOOLEAN
    BY DEF TypeOK
  <2>2. CASE \E n \in Portions : PortionBegin(n)
    <3>1. PICK n \in Portions : PortionBegin(n)
      BY <2>2
    <3>2. /\ adding' = n /\ portions < MaxPortions /\ portions' = portions + 1 /\ asked' = FALSE
          /\ total' = total /\ taken' = taken
      BY <3>1 DEF PortionBegin, poolVars
    <3>3. n \in Nat /\ MaxPortions \in Nat
      BY StretchAssumption
    <3>4. portions' \in 0 .. MaxPortions
      BY <2>1, <3>2, <3>3
    <3>5. QED
      BY <2>1, <3>2, <3>3, <3>4
  <2>3. CASE AddBlock
    BY <2>1, <2>3 DEF AddBlock
  <2>4. CASE AddFails
    BY <2>1, <2>4 DEF AddFails, poolVars
  <2>5. CASE PortionEnd
    BY <2>1, <2>5 DEF PortionEnd
  <2>6. QED
    BY <2>2, <2>3, <2>4, <2>5
<1>3. /\ UNCHANGED <<overflowed, attached, devRefs, listed, captured, pc, need, corrupted, cmds,
                     stale, pipeRefs, holding, told>>
      /\ dropped' \in {dropped, dropped \ {"halffill"}}
  BY <1>1 DEF deviceVars, copierVars
<1>4. /\ Sent' = Sent /\ LastTerminate' = LastTerminate
      /\ \A k : Sends(k)' = Sends(k)
      /\ \A k : Copies(k)' = Copies(k)
  BY <1>3, SentStays
<1>5. HoldsInv'
  <2>1. HoldsInv /\ (owner # "closed") = (owner' # "closed")
    BY <1>1 DEF IInv
  <2>2. QED
    BY <1>3, <2>1 DEF HoldsInv
<1>6. PhasesInv'
  BY <1>1, <1>3 DEF IInv, PhasesInv, Young, Alive
<1>7. SentInv'
  BY <1>1, <1>3, <1>4 DEF IInv, SentInv
<1>8. FlagMeansAsked'
  <2>1. CASE owner' = "adding"
    BY <2>1 DEF FlagMeansAsked
  <2>2. CASE asked' = TRUE
    BY <2>2 DEF FlagMeansAsked
  <2>3. CASE halffilled' = 0
    BY <2>3 DEF FlagMeansAsked
  <2>4. QED
    BY <1>1, <2>1, <2>2, <2>3
<1>9. NoticesInv'
  BY <1>3, <1>4, <1>8 DEF IInv, NoticesInv, OverflowIsReported, NoOverflow, Reporters
<1>10. TypeOK'
  <2>1. halffilled' \in Nat
    BY <1>1 DEF TypeOK
  <2>2. QED
    BY <1>1, <1>2, <1>3, <2>1 DEF TypeOK
<1>11. QED
  BY <1>5, <1>6, <1>7, <1>9, <1>10 DEF IInv

(* ... and closes it: what nobody can read any more is lost, unless the    *)
(* snapstore still holds the pipe.                                         *)
LEMMA CloseKeepsInv ==
  ASSUME TypeOK, IInv, Close
  PROVE  TypeOK' /\ IInv'
<1> DEFINE end == <<"closed">>
<1>1. /\ holding = <<>> /\ owner \in {"new", "open", "refused"} /\ owner' = "closed"
      /\ pipeRefs' = pipeRefs - 1 /\ told' = Append(told, "closed")
      /\ cmds' = IF pipeRefs = 1 THEN <<>> ELSE cmds
      /\ UNCHANGED <<poolVars, deviceVars, copierVars, dropped, stale, adding, portions, holding, asked>>
  BY DEF Close
<1>2. UNCHANGED <<total, taken, overflowed, halffilled, attached, devRefs, listed, captured, pc, need, corrupted,
                  dropped, stale, adding, portions, holding, asked>>
  BY <1>1 DEF poolVars, deviceVars, copierVars
<1>3. /\ told \in Seq(Kinds) /\ cmds \in Seq(Kinds) /\ Sent \in Seq(Kinds) /\ Sent = told \o cmds
      /\ "closed" \in Kinds /\ CommandKinds \cup {"closed"} = Kinds
  <2>1. told \in Seq(Kinds) /\ cmds \in Seq(Kinds) /\ Sent \in Seq(Kinds)
    BY SentParts
  <2>2. told \o holding = told
    BY <1>1, <2>1, ConcatEmptySeq
  <2>3. QED
    BY <2>1, <2>2 DEF Sent, Kinds
<1>4. /\ end \in Seq(Kinds) /\ Len(end) = 1 /\ end[1] = "closed"
      /\ \A k : Times(end, k) = One(k = "closed")
      /\ \A k : Contains(end, k) <=> k = "closed"
  BY <1>3, TimesOne
<1> HIDE DEF end
<1>5. told' = told \o end /\ told' \in Seq(Kinds)
  BY <1>1, <1>3, AppendedKinds DEF end
<1>6. cmds' \in Seq(Kinds) /\ cmds' \in Seq(CommandKinds) /\ (cmds' = <<>> \/ cmds' = cmds)
  BY <1>1, <1>3 DEF TypeOK
<1>7. Sent' = told \o end \o cmds'
  <2>1. told' \o holding' = told'
    BY <1>1, <1>2, <1>5, ConcatEmptySeq
  <2>2. QED
    BY <1>5, <2>1 DEF Sent
<1>8. pipeRefs = 1 + One(attached) /\ pipeRefs \in Int /\ attached \in BOOLEAN
  BY <1>1 DEF IInv, HoldsInv, One, TypeOK
<1>9. \A k : Sends(k)' => Sends(k) \/ k = "closed"
  <2>1. \A k : Contains(cmds', k) => Contains(cmds, k)
    BY <1>6 DEF Contains
  <2>2. \A k : Contains(told \o end \o cmds', k) <=> Contains(told, k) \/ Contains(end, k) \/ Contains(cmds', k)
    BY <1>3, <1>4, <1>6, ThreeParts
  <2>3. \A k : Contains(told \o cmds, k) <=> Contains(told, k) \/ Contains(cmds, k)
    BY <1>3, ContainsConcat
  <2>4. QED
    BY <1>3, <1>4, <1>7, <2>1, <2>2, <2>3 DEF Sends
<1>10. attached => Copies("overflow")' = Copies("overflow") /\ ~Sends("terminate")
  <2> SUFFICES ASSUME attached PROVE Copies("overflow")' = Copies("overflow") /\ ~Sends("terminate")
    OBVIOUS
  <2>1. cmds' = cmds
    BY <1>1, <1>8 DEF One
  <2>2. Times(told \o end \o cmds, "overflow") = Times(told, "overflow") + Times(end, "overflow") + Times(cmds, "overflow")
    BY <1>3, <1>4, ThreeParts
  <2>3. Times(told \o cmds, "overflow") = Times(told, "overflow") + Times(cmds, "overflow")
    BY <1>3, TimesConcat
  <2>4. Times(told, "overflow") \in Nat /\ Times(cmds, "overflow") \in Nat /\ Times(end, "overflow") = 0
    BY <1>3, <1>4, TimesIsNumber DEF One
  <2>5. Times(told \o end \o cmds, "overflow") = Times(told \o cmds, "overflow")
    BY <2>2, <2>3, <2>4
  <2>6. Copies("overflow")' = Times(Sent', "overflow") /\ Copies("overflow") = Times(Sent, "overflow")
    BY DEF Copies, Times
  <2>7. QED
    BY <1>3, <1>7, <2>1, <2>5, <2>6 DEF IInv, SentInv
<1>11. LastTerminate'
  <2>1. CASE attached
    <3>1. ~Sends("terminate")'
      BY <1>9, <1>10, <2>1
    <3>2. Sent' \in Seq(Kinds) /\ Len(Sent') \in Nat
      BY <1>3, <1>4, <1>6, <1>7, ThreeParts, LenProperties
    <3>3. \A i \in 1 .. Len(Sent') : Sent'[i] # "terminate"
      BY <3>1 DEF Sends, Contains
    <3>4. QED
      BY <3>2, <3>3 DEF LastTerminate
  <2>2. CASE ~attached
    <3>1. cmds' = <<>>
      BY <1>1, <1>8, <2>2 DEF One
    <3>2. Sent' = told \o end
      BY <1>5, <1>7, <3>1, ConcatEmptySeq
    <3>3. /\ Len(told) \in Nat /\ Len(cmds) \in Nat /\ Len(Sent) = Len(told) + Len(cmds) /\ Len(Sent') = Len(told) + 1
          /\ \A i \in 1 .. Len(told) + 1 : Sent'[i] = IF i <= Len(told) THEN told[i] ELSE end[i - Len(told)]
          /\ \A i \in 1 .. Len(told) + Len(cmds) : Sent[i] = IF i <= Len(told) THEN told[i] ELSE cmds[i - Len(told)]
      <4>1. /\ Len(told) \in Nat /\ Len(cmds) \in Nat
            /\ Len(told \o end) = Len(told) + 1 /\ Len(told \o cmds) = Len(told) + Len(cmds)
        <5>1. Len(told \o end) = Len(told) + Len(end) /\ Len(told \o cmds) = Len(told) + Len(cmds)
          <6>1. Len(told \o end) = Len(told) + Len(end)
            BY <1>3, <1>4, ConcatProperties
          <6>2. Len(told \o cmds) = Len(told) + Len(cmds)
            BY <1>3, ConcatProperties
          <6>3. QED
            BY <6>1, <6>2
        <5>2. Len(told) \in Nat /\ Len(cmds) \in Nat
          BY <1>3, LenProperties
        <5>3. QED
          BY <1>4, <5>1, <5>2
      <4>2. \A i \in 1 .. Len(told) + Len(end) : (told \o end)[i] = IF i <= Len(told) THEN told[i] ELSE end[i - Len(told)]
        BY <1>3, <1>4, ConcatProperties
      <4>3. \A i \in 1 .. Len(told) + Len(cmds) : (told \o cmds)[i] = IF i <= Len(told) THEN told[i] ELSE cmds[i - Len(told)]
        BY <1>3, ConcatProperties
      <4>4. QED
        BY <1>3, <1>4, <3>2, <4>1, <4>2, <4>3
    <3>4. ASSUME NEW i \in 1 .. Len(Sent') - 1, Sent'[i] = "terminate" PROVE Sent'[i + 1] = "closed"
      <4>1. i \in 1 .. Len(told) /\ i \in 1 .. Len(Sent) /\ Sent[i] = "terminate" /\ i \in 1 .. Len(told) + 1
        BY <3>3, <3>4
      <4>2. CASE i = Len(told)
        <5>1. Sent'[i + 1] = end[1]
          BY <3>3, <4>2
        <5>2. QED
          BY <1>4, <5>1
      <4>3. CASE i < Len(told)
        <5>1. i \in 1 .. Len(Sent) - 1 /\ Sent'[i + 1] = told[i + 1] /\ Sent[i + 1] = told[i + 1]
          BY <3>3, <4>3
        <5>2. QED
          BY <4>1, <5>1 DEF IInv, SentInv, LastTerminate
      <4>4. QED
        BY <3>3, <4>1, <4>2, <4>3
    <3>5. QED
      BY <3>4 DEF LastTerminate
  <2>3. QED
    BY <2>1, <2>2
<1>12. told' # <<>>
  <2>1. Contains(told', "closed")
    BY <1>3, <1>4, <1>5, ContainsConcat
  <2>2. QED
    BY <2>1 DEF Contains
<1>13. HoldsInv'
  <2>1. pipeRefs' = One(owner' # "closed") + One(attached')
    BY <1>1, <1>2, <1>8 DEF One
  <2>2. QED
    BY <1>2, <2>1 DEF IInv, HoldsInv
<1>14. PhasesInv'
  BY <1>1, <1>2, <1>12 DEF IInv, PhasesInv, Young, Alive
<1>15. SentInv'
  BY <1>1, <1>2, <1>9, <1>11 DEF IInv, SentInv
<1>16. FlagMeansAsked'
  BY <1>1 DEF FlagMeansAsked
<1>17. NoticesInv'
  BY <1>2, <1>9, <1>10, <1>16 DEF IInv, NoticesInv, OverflowIsReported, NoOverflow, Reporters
<1>18. TypeOK'
  <2>1. pipeRefs' \in 0 .. 2 /\ told' \in Seq(CommandKinds \cup {"closed"})
    BY <1>1, <1>3, <1>5, <1>8 DEF One
  <2>2. QED
    BY <1>1, <1>2, <1>6, <2>1 DEF TypeOK
<1>19. QED
  BY <1>13, <1>14, <1>15, <1>17, <1>18 DEF IInv

-----------------------------------------------------------------------------
LEMMA StutterKeepsInv ==
  ASSUME TypeOK, IInv, UNCHANGED vars
  PROVE  TypeOK' /\ IInv'
<1>1. UNCHANGED <<total, taken, halffilled, overflowed, attached, devRefs, listed, captured, corrupted, pc, need,
                  pipeRefs, cmds, dropped, stale, owner, adding, portions, holding, told, asked>>
  BY DEF vars, poolVars, deviceVars, copierVars, pipeVars, ownerVars
<1>2. /\ Sent' = Sent /\ LastTerminate' = LastTerminate
      /\ \A k : Sends(k)' = Sends(k)
      /\ \A k : Copies(k)' = Copies(k)
  BY <1>1, SentStays
<1>3. TypeOK'
  BY <1>1 DEF TypeOK
<1>4. HoldsInv' /\ PhasesInv'
  BY <1>1 DEF IInv, HoldsInv, PhasesInv, Young, Alive
<1>5. SentInv' /\ NoticesInv'
  BY <1>1, <1>2 DEF IInv, SentInv, NoticesInv, FlagMeansAsked, OverflowIsReported, NoOverflow, Reporters
<1>6. QED
  BY <1>3, <1>4, <1>5 DEF IInv

LEMMA IStep == TypeOK /\ IInv /\ [Next]_vars => TypeOK' /\ IInv'
<1> SUFFICES ASSUME TypeOK, IInv, [Next]_vars PROVE TypeOK' /\ IInv'
  OBVIOUS
<1>1. ASSUME NEW d \in Devices, NEW n \in Needs[d], CopyBegin(d, n) PROVE TypeOK' /\ IInv'
  BY <1>1, QuietCopierKeepsInv
<1>2. ASSUME NEW d \in Devices, Copier(d) PROVE TypeOK' /\ IInv'
  BY <1>2, QuietCopierKeepsInv, SenderKeepsInv DEF Copier
<1>3. ASSUME NEW d \in Devices, Capture(d) PROVE TypeOK' /\ IInv'
  BY <1>3, CaptureKeepsInv
<1>4. ASSUME NEW d \in Devices, Release(d) \/ CleanupDevice(d) PROVE TypeOK' /\ IInv'
  BY <1>4, PutKeepsInv
<1>5. CASE Open \/ Create \/ CreateFails \/ Attach
  BY <1>5, CreationKeepsInv
<1>6. CASE Acknowledge
  BY <1>6, AcknowledgeKeepsInv
<1>7. CASE ReadFirst \/ ReadCopies \/ ReadPutsBack
  BY <1>7, ReadKeepsInv
<1>8. CASE (\E n \in Portions : PortionBegin(n)) \/ AddBlock \/ AddFails \/ PortionEnd
  BY <1>8, PortionKeepsInv
<1>9. CASE Close
  BY <1>9, CloseKeepsInv
<1>10. CASE UNCHANGED vars
  BY <1>10, StutterKeepsInv
<1>11. QED
  BY <1>1, <1>2, <1>3, <1>4, <1>5, <1>6, <1>7, <1>8, <1>9, <1>10 DEF Next, Owner

LEMMA Invariance == Spec => [](TypeOK /\ IInv)
<1>1. Init => TypeOK /\ IInv
  BY IInit
<1>2. TypeOK /\ IInv /\ [Next]_vars => (TypeOK /\ IInv)'
  BY IStep
<1>3. QED
  BY <1>1, <1>2, PTL DEF Spec

-----------------------------------------------------------------------------
(* Every variable keeps its type, and no block is taken that is not there. *)
THEOREM TypeCorrect == Spec => []TypeOK
BY Invariance, PTL

(* The service is told the truth about how full the snapstore is, as far   *)
(* as there is memory to tell it: whenever the flag that keeps copiers     *)
(* from asking is up, and no request for a portion was dropped since it    *)
(* was last lowered, a portion was asked for and is on its way; and an     *)
(* overflow that is not dropped is reported exactly once, whichever        *)
(* copiers run into it and whatever becomes of the pipe in the meantime.   *)
THEOREM NoticesRight == Spec => []NoticesAreRight
<1>1. IInv => NoticesAreRight
  BY DEF IInv, NoticesInv, NoticesAreRight
<1>2. QED
  BY <1>1, Invariance, PTL

(* The report of the end is the last thing that the snapstore sends, none  *)
(* of its devices is captured by then, and nothing is sent into a pipe     *)
(* that is no longer there.                                                *)
THEOREM TerminateLast == Spec => []TerminateIsLast
<1>1. TypeOK /\ IInv => TerminateIsLast
  <2> SUFFICES ASSUME TypeOK, IInv PROVE TerminateIsLast
    OBVIOUS
  <2>1. Sends("terminate") => captured = {}
    <3>1. ASSUME Sends("terminate"), NEW d \in captured PROVE FALSE
      <4>1. d \in Devices /\ devRefs[d] > 0
        BY CopierHasPipe
      <4>2. devRefs[d] = 0
        BY <3>1, <4>1 DEF IInv, SentInv
      <4>3. QED
        BY <4>1, <4>2
    <3>2. QED
      BY <3>1
  <2>2. QED
    BY <2>1 DEF IInv, SentInv, LastTerminate, TerminateIsLast
<1>2. QED
  BY <1>1, Invariance, PTL

-----------------------------------------------------------------------------
(* The collectors (SnapdataCollect).                                       *)

(* The collectors on a list.                                               *)
On(list) == {list[i] : i \in DOMAIN list}

CallSet ==
  [op : {"none", "start", "find", "done"},
   at : {"idle", "start", "startFrozen", "thaw", "find", "done", "look",
         "stop", "stopFrozen", "stopPut", "stopThaw", "gone"},
   c : Collectors \cup {NoOne}]

(* Each variable is what its name says.  Of a map nothing is known when    *)
(* the array of one of its blocks was lacking.                             *)
ShapeInv ==
  /\ length \in Lengths /\ hasFs \in BOOLEAN
  /\ active \in Seq(Collectors) /\ stopped \in Seq(Collectors)
  /\ collector = [c \in Collectors |-> collector[c]]
  /\ \A c \in Collectors :
       /\ collector[c] = [live |-> collector[c].live, ref |-> collector[c].ref,
                          fail |-> collector[c].fail, map |-> collector[c].map]
       /\ collector[c].live \in {"no", "yes", "freed"}
       /\ collector[c].ref \in BOOLEAN /\ collector[c].fail \in BOOLEAN
  /\ call \in CallSet
  /\ frozen \in BOOLEAN /\ bare \in BOOLEAN /\ hurt \in BOOLEAN
  /\ at \in [Writers -> {"idle", "find", "segments", "submit"}]
  /\ write \in [Writers -> Seq(Segments)]
  /\ found \in [Writers -> Collectors \cup {NoOne}]
  /\ must \in [Writers -> [c : Collectors \cup {NoOne}, what : SUBSET Nat]]
  /\ due \in [Collectors -> SUBSET Nat] /\ seen \in [Collectors -> SUBSET Nat]
  /\ flaw = [c \in Collectors |-> flaw[c]]

(* The collector that is started, before it is on a list.                  *)
Starting == IF call.at \in {"start", "startFrozen"} THEN {call.c} ELSE {}

(* The lists hold every collector there is, once, and the hook is held for *)
(* those that are active; what is stopped is the first of them.            *)
ListsInv ==
  /\ IsInjective(active) /\ IsInjective(stopped)
  /\ On(active) \cap On(stopped) = {}
  /\ Starting \subseteq Collectors /\ Starting \cap (On(active) \cup On(stopped)) = {}
  /\ \A c \in Collectors : Live(c) <=> c \in On(active) \cup On(stopped) \cup Starting
  /\ \A c \in Collectors :
       collector[c].ref <=> c \in On(active) /\ ~(call.at = "stopPut" /\ c = call.c)
  /\ call.at \in {"stop", "stopFrozen", "stopPut"} => active # <<>> /\ call.c = Head(active)
  /\ call.at = "idle" => call = Idle

(* A write that found a collector keeps it on the list of the active ones: *)
(* once its hook is put, the device is frozen and no write is in the hook. *)
HookInv ==
  /\ \A u \in Writers : at[u] \in {"find", "segments"} => write[u] # <<>>
  /\ \A u \in Writers : at[u] = "segments" =>
       /\ found[u] \in Collectors
       /\ bare \/ found[u] \in On(active)
       /\ collector[found[u]].live = "freed" \/ found[u] \in On(active) \cup On(stopped)
  /\ call.at \in {"stopPut", "stopThaw"} /\ ~bare =>
       frozen /\ \A u \in Writers : at[u] = "idle"
  /\ hurt => bare
  /\ \A u \in Writers : \A i \in DOMAIN write[u] :
       /\ write[u][i].magic \subseteq 0 .. write[u][i].cnt - 1
       /\ write[u][i].first + write[u][i].cnt <= length

(* The collector that a write has to meet is the first one as long as it   *)
(* is active, as others are put behind it, and it is never used again.     *)
MustInv ==
  \A u \in Writers :
    /\ must[u].c # NoOne => collector[must[u].c].live = "freed" \/ must[u].c \in On(active) \cup On(stopped)
    /\ must[u].c \in On(active) => must[u].c = Head(active)
    /\ at[u] = "idle" => must[u] = Nothing
    /\ at[u] = "find" => must[u].what = MagicOf(write[u])
    /\ at[u] = "segments" /\ must[u].c \in On(active) => found[u] = must[u].c

(* What a write has yet to set was seen by its collector.                  *)
SeenInv ==
  /\ \A c \in Collectors :
       /\ seen[c] \subseteq Sectors
       /\ c \notin On(active) \cup On(stopped) => due[c] = {}
       /\ "array" \notin flaw[c] => collector[c].map \in Maps(length)
  /\ \A u \in Writers : at[u] = "segments" /\ Live(found[u]) => MagicOf(write[u]) \subseteq seen[found[u]]

Pure(c) == flaw[c] = {} /\ ~collector[c].fail

(* The bits lie between what the collector had to see, with what writes    *)
(* have yet to set, and what it saw.                                       *)
BitsInv ==
  length <= Room(length) =>
    /\ \A c \in Collectors : Live(c) =>
         /\ flaw[c] \cap {"array", "offset"} = {} => Bits(collector[c].map) \subseteq seen[c]
         /\ Pure(c) => due[c] \subseteq Bits(collector[c].map)
    /\ \A u \in Writers : must[u].c \in On(active) /\ Pure(must[u].c) =>
         /\ at[u] = "segments" =>
              must[u].what \subseteq Bits(collector[must[u].c].map) \cup MagicOf(write[u])
         /\ at[u] = "submit" => must[u].what \subseteq Bits(collector[must[u].c].map)

CollectInv == ShapeInv /\ ListsInv /\ HookInv /\ MustInv /\ SeenInv /\ BitsInv

-----------------------------------------------------------------------------
(* Lists and writes.                                                       *)

LEMMA OnAppend ==
  ASSUME NEW S, NEW s \in Seq(S), NEW x \in S
  PROVE  /\ Append(s, x) \in Seq(S)
         /\ On(Append(s, x)) = On(s) \cup {x}
         /\ Append(s, x) # <<>>
         /\ Head(Append(s, x)) = IF s = <<>> THEN x ELSE Head(s)
         /\ IsInjective(s) /\ x \notin On(s) => IsInjective(Append(s, x))
<1> DEFINE t == Append(s, x)
<1>1. /\ t \in Seq(S) /\ Len(t) = Len(s) + 1 /\ DOMAIN t = 1 .. Len(s) + 1
      /\ \A i \in 1 .. Len(s) : t[i] = s[i]
      /\ t[Len(s) + 1] = x
  OBVIOUS
<1>2. Len(s) \in Nat /\ DOMAIN s = 1 .. Len(s)  OBVIOUS
<1>3. On(t) = On(s) \cup {x}
  <2>1. ASSUME NEW y \in On(t) PROVE y \in On(s) \cup {x}
    <3>1. PICK i \in 1 .. Len(s) + 1 : y = t[i]  BY <1>1 DEF On
    <3>2. CASE i = Len(s) + 1  BY <3>1, <3>2, <1>1
    <3>3. CASE i \in 1 .. Len(s)  BY <3>1, <3>3, <1>1, <1>2 DEF On
    <3> QED  BY <3>2, <3>3, <1>2
  <2>2. ASSUME NEW y \in On(s) \cup {x} PROVE y \in On(t)
    <3>1. CASE y = x  BY <3>1, <1>1, <1>2 DEF On
    <3>2. CASE y \in On(s)
      <4>1. PICK i \in 1 .. Len(s) : y = s[i]  BY <3>2, <1>2 DEF On
      <4>2. i \in DOMAIN t /\ t[i] = y  BY <4>1, <1>1, <1>2
      <4> QED  BY <4>2 DEF On
    <3> QED  BY <3>1, <3>2, <2>2
  <2> QED  BY <2>1, <2>2
<1>4. t # <<>> /\ Head(t) = IF s = <<>> THEN x ELSE Head(s)
  <2>1. Head(t) = t[1] /\ t # <<>>  BY <1>1, <1>2
  <2>2. s = <<>> => Len(s) = 0  OBVIOUS
  <2>3. s # <<>> => Len(s) >= 1 /\ Head(s) = s[1]  OBVIOUS
  <2> QED  BY <2>1, <2>2, <2>3, <1>1, <1>2
<1>5. ASSUME IsInjective(s), x \notin On(s)  PROVE IsInjective(t)
  <2>1. ASSUME NEW i \in DOMAIN t, NEW j \in DOMAIN t, t[i] = t[j]  PROVE i = j
    <3>1. \A k \in 1 .. Len(s) : s[k] \in On(s)  BY <1>2 DEF On
    <3>2. \A k \in 1 .. Len(s), m \in 1 .. Len(s) : s[k] = s[m] => k = m  BY <1>5, <1>2 DEF IsInjective
    <3>3. \A k \in DOMAIN t : k = Len(s) + 1 \/ k \in 1 .. Len(s)  BY <1>1, <1>2
    <3> QED  BY <3>1, <3>2, <3>3, <2>1, <1>1, <1>5
  <2> QED  BY <2>1 DEF IsInjective
<1> HIDE DEF t
<1> QED  BY <1>1, <1>3, <1>4, <1>5 DEF t

LEMMA OnTail ==
  ASSUME NEW S, NEW s \in Seq(S), s # <<>>, IsInjective(s)
  PROVE  /\ Head(s) \in On(s) /\ Head(s) \in S
         /\ Tail(s) \in Seq(S)
         /\ On(Tail(s)) = On(s) \ {Head(s)}
         /\ IsInjective(Tail(s))
<1>1. /\ Len(s) \in Nat /\ Len(s) >= 1 /\ DOMAIN s = 1 .. Len(s) /\ Head(s) = s[1]
      /\ Tail(s) \in Seq(S) /\ Len(Tail(s)) = Len(s) - 1 /\ DOMAIN Tail(s) = 1 .. Len(s) - 1
      /\ \A i \in 1 .. Len(s) - 1 : Tail(s)[i] = s[i + 1]
  OBVIOUS
<1>2. \A k \in 1 .. Len(s), m \in 1 .. Len(s) : s[k] = s[m] => k = m  BY <1>1 DEF IsInjective
<1>3. ASSUME NEW y \in On(Tail(s))  PROVE y \in On(s) \ {Head(s)}
  <2>1. PICK i \in 1 .. Len(s) - 1 : y = s[i + 1]  BY <1>1 DEF On
  <2>2. i + 1 \in 1 .. Len(s) /\ i + 1 # 1 /\ 1 \in 1 .. Len(s)  BY <1>1
  <2> QED  BY <2>1, <2>2, <1>1, <1>2 DEF On
<1>4. ASSUME NEW y \in On(s), y # Head(s)  PROVE y \in On(Tail(s))
  <2>1. PICK i \in 1 .. Len(s) : y = s[i]  BY <1>1 DEF On
  <2>2. i # 1 /\ i - 1 \in 1 .. Len(s) - 1 /\ i - 1 + 1 = i  BY <2>1, <1>1, <1>4
  <2>3. Tail(s)[i - 1] = s[i]  BY <2>2, <1>1
  <2> QED  BY <2>1, <2>2, <2>3, <1>1 DEF On
<1>5. IsInjective(Tail(s))
  <2>1. ASSUME NEW i \in 1 .. Len(s) - 1, NEW j \in 1 .. Len(s) - 1, Tail(s)[i] = Tail(s)[j]
        PROVE  i = j
    <3>1. i + 1 \in 1 .. Len(s) /\ j + 1 \in 1 .. Len(s) /\ s[i + 1] = s[j + 1]  BY <2>1, <1>1
    <3>2. i + 1 = j + 1  BY <3>1, <1>2
    <3> QED  BY <3>2, <1>1
  <2> QED  BY <2>1, <1>1 DEF IsInjective
<1>6. Head(s) \in On(s) /\ Head(s) \in S  BY <1>1 DEF On
<1>7. On(Tail(s)) = On(s) \ {Head(s)}  BY <1>3, <1>4
<1> QED  BY <1>1, <1>5, <1>6, <1>7

(* The first one is taken away.                                            *)
LEMMA FirstRemoved ==
  ASSUME NEW S, NEW s \in Seq(S), s # <<>>, IsInjective(s), NEW i \in 1 .. Len(s), s[i] = Head(s)
  PROVE  RemoveAt(s, i) = Tail(s)
<1>0. Len(s) \in Nat /\ DOMAIN s = 1 .. Len(s)  OBVIOUS
<1>1. Len(s) >= 1 /\ Head(s) = s[1]  BY <1>0
<1>2. i = 1  BY <1>0, <1>1 DEF IsInjective
<1>3. RemoveAt(s, i) = SubSeq(s, 1, 0) \o SubSeq(s, 2, Len(s))  BY <1>2 DEF RemoveAt
<1>4. SubSeq(s, 1, 0) = <<>> /\ SubSeq(s, 2, Len(s)) = Tail(s)  OBVIOUS
<1>5. Tail(s) \in Seq(S)  OBVIOUS
<1>6. <<>> \o Tail(s) = Tail(s)  BY <1>5, ConcatEmptySeq
<1> QED  BY <1>3, <1>4, <1>6

LEMMA OnEmpty == On(<<>>) = {} /\ IsInjective(<<>>)
  BY DEF On, IsInjective

LEMMA ContainsOn ==
  ASSUME NEW S, NEW s \in Seq(S), NEW x
  PROVE  Contains(s, x) <=> x \in On(s)
<1>1. DOMAIN s = 1 .. Len(s)  OBVIOUS
<1> QED  BY <1>1 DEF Contains, On

LEMMA MagicSplit ==
  ASSUME NEW w \in Seq(Segments), w # <<>>
  PROVE  /\ Head(w) \in Segments
         /\ Tail(w) \in Seq(Segments)
         /\ MagicOf(w) = {Head(w).first + s : s \in Head(w).magic} \cup MagicOf(Tail(w))
<1>1. /\ Len(w) \in Nat /\ Len(w) >= 1 /\ DOMAIN w = 1 .. Len(w) /\ Head(w) = w[1]
      /\ Head(w) \in Segments /\ Tail(w) \in Seq(Segments) /\ DOMAIN Tail(w) = 1 .. Len(w) - 1
      /\ \A i \in 1 .. Len(w) - 1 : Tail(w)[i] = w[i + 1]
  OBVIOUS
<1> DEFINE P(i) == {w[i].first + s : s \in w[i].magic}
           Q(i) == {Tail(w)[i].first + s : s \in Tail(w)[i].magic}
<1>2. MagicOf(w) = UNION {P(i) : i \in 1 .. Len(w)}  BY <1>1 DEF MagicOf
<1>3. MagicOf(Tail(w)) = UNION {Q(i) : i \in 1 .. Len(w) - 1}  BY <1>1 DEF MagicOf
<1>4. \A i \in 1 .. Len(w) - 1 : Q(i) = P(i + 1)  BY <1>1
<1>5. {Head(w).first + s : s \in Head(w).magic} = P(1)  BY <1>1
<1> HIDE DEF P, Q
<1>6. ASSUME NEW x \in MagicOf(w)  PROVE x \in P(1) \cup MagicOf(Tail(w))
  <2>1. PICK i \in 1 .. Len(w) : x \in P(i)  BY <1>2
  <2>2. CASE i = 1  BY <2>1, <2>2
  <2>3. CASE i # 1
    <3>1. i - 1 \in 1 .. Len(w) - 1 /\ i - 1 + 1 = i  BY <2>3, <1>1
    <3>2. x \in Q(i - 1)  BY <3>1, <1>4, <2>1
    <3> QED  BY <3>1, <3>2, <1>3
  <2> QED  BY <2>2, <2>3
<1>7. ASSUME NEW x \in P(1) \cup MagicOf(Tail(w))  PROVE x \in MagicOf(w)
  <2>1. CASE x \in P(1)  BY <2>1, <1>1, <1>2
  <2>2. CASE x \in MagicOf(Tail(w))
    <3>1. PICK i \in 1 .. Len(w) - 1 : x \in Q(i)  BY <2>2, <1>3
    <3>2. i + 1 \in 1 .. Len(w) /\ x \in P(i + 1)  BY <3>1, <1>1, <1>4
    <3> QED  BY <3>2, <1>2
  <2> QED  BY <2>1, <2>2, <1>7
<1> QED  BY <1>1, <1>5, <1>6, <1>7

LEMMA MagicEmpty == MagicOf(<<>>) = {}
  BY DEF MagicOf

LEMMA MagicBound ==
  ASSUME NEW w \in Seq(Segments), length \in Nat,
         \A i \in DOMAIN w : w[i].magic \subseteq 0 .. w[i].cnt - 1 /\ w[i].first + w[i].cnt <= length
  PROVE  MagicOf(w) \subseteq Sectors
<1> SUFFICES ASSUME NEW x \in MagicOf(w) PROVE x \in 0 .. length - 1  BY DEF Sectors
<1>1. PICK i \in DOMAIN w : x \in {w[i].first + s : s \in w[i].magic}  BY DEF MagicOf
<1>2. PICK s \in w[i].magic : x = w[i].first + s  BY <1>1
<1>3. w[i] \in Segments  BY <1>1
<1>4. w[i].first \in Nat /\ w[i].cnt \in Nat  BY <1>3 DEF Segments
<1>5. s \in 0 .. w[i].cnt - 1 /\ w[i].first + w[i].cnt <= length  BY <1>2
<1> QED  BY <1>2, <1>4, <1>5

-----------------------------------------------------------------------------
(* The bits of a segment.                                                  *)

(* The order of the numbers is well-founded.                               *)
NatLess == {p \in Nat \X Nat : p[1] < p[2]}

LEMMA NatLessIsWellFounded == IsWellFoundedOn(NatLess, Nat)
  BY NatLessThanWellFounded, Zenon DEF OpToRel, NatLess

(* A set of numbers has a least one: what stands here for induction.       *)
LEMMA LeastNumber ==
  ASSUME NEW T \in SUBSET Nat, T # {}
  PROVE  \E n \in T : \A m \in T : n <= m
<1>1. PICK n \in T : \A m \in T : ~ (<<m, n>> \in NatLess)
  BY NatLessIsWellFounded, WFMin
<1>2. ASSUME NEW m \in T, ~ (n <= m)  PROVE FALSE
  <2>1. m \in Nat /\ n \in Nat /\ m < n  BY <1>2
  <2>2. <<m, n>> \in Nat \X Nat  BY <2>1
  <2>3. <<m, n>> \in NatLess  BY <2>1, <2>2 DEF NatLess
  <2> QED  BY <2>3, <1>1
<1> QED  BY <1>2

(* The n-th step of SetAll, and a sequence of k steps.                     *)
SetNext(set, seg, lack, n) ==
  IF n - 1 \in seg.magic /\ set.res = "ok"
  THEN IF seg.first + seg.off + n - 1 >= length THEN [map |-> set.map, res |-> "inval"]
       ELSE SetBit(set.map, seg.first + seg.off + n - 1, lack)
  ELSE set

SetSteps(f, tree, seg, lack, k) ==
  /\ f[0] = [map |-> tree, res |-> "ok"]
  /\ \A i \in 1 .. k : f[i] = SetNext(f[i - 1], seg, lack, i)

LEMMA SetStepsExist ==
  ASSUME NEW tree, NEW seg, NEW lack, NEW cnt \in Nat
  PROVE  \E f : SetSteps(f, tree, seg, lack, cnt)
<1> DEFINE T == {k \in 0 .. cnt : ~ \E f : SetSteps(f, tree, seg, lack, k)}
<1> SUFFICES ASSUME T # {} PROVE FALSE  OBVIOUS
<1>1. PICK k \in T : \A m \in T : k <= m
  <2>1. T \in SUBSET Nat  OBVIOUS
  <2> HIDE DEF T
  <2> QED  BY <2>1, LeastNumber
<1>2. k \in 0 .. cnt /\ ~ \E f : SetSteps(f, tree, seg, lack, k)  BY <1>1
<1> DEFINE start == [i \in 0 .. 0 |-> [map |-> tree, res |-> "ok"]]
<1>3. k # 0
  <2>1. start[0] = [map |-> tree, res |-> "ok"]  OBVIOUS
  <2> HIDE DEF start
  <2>2. SetSteps(start, tree, seg, lack, 0)  BY <2>1 DEF SetSteps
  <2> QED  BY <2>2, <1>2
<1>4. k - 1 \in 0 .. cnt /\ ~ (k <= k - 1)  BY <1>2, <1>3
<1>5. PICK f : SetSteps(f, tree, seg, lack, k - 1)
  <2>1. k - 1 \notin T  BY <1>1, <1>4
  <2> QED  BY <2>1, <1>4
<1> DEFINE g == [i \in 0 .. k |-> IF i = k THEN SetNext(f[k - 1], seg, lack, k) ELSE f[i]]
<1>6. SetSteps(g, tree, seg, lack, k)
  <2>1. g[0] = [map |-> tree, res |-> "ok"]  BY <1>2, <1>3, <1>5 DEF SetSteps
  <2>2. ASSUME NEW i \in 1 .. k  PROVE g[i] = SetNext(g[i - 1], seg, lack, i)
    <3>1. i - 1 \in 0 .. k /\ i - 1 # k /\ i \in 0 .. k  BY <1>2
    <3>2. g[i - 1] = f[i - 1]  BY <3>1
    <3>3. CASE i = k  BY <3>1, <3>2, <3>3
    <3>4. CASE i # k
      <4>1. i \in 1 .. k - 1  BY <3>4, <1>2
      <4>2. g[i] = f[i]  BY <3>4, <3>1
      <4>3. f[i] = SetNext(f[i - 1], seg, lack, i)  BY <4>1, <1>5 DEF SetSteps
      <4> QED  BY <4>2, <4>3, <3>2
    <3> QED  BY <3>3, <3>4
  <2> HIDE DEF g
  <2> QED  BY <2>1, <2>2 DEF SetSteps
<1> QED  BY <1>2, <1>6

(* SetAll is the last of such steps.                                       *)
LEMMA SetAllSteps ==
  ASSUME NEW tree, NEW seg, NEW lack, seg.cnt \in Nat, seg.first \in Nat, seg.off \in Nat
  PROVE  \E f : SetSteps(f, tree, seg, lack, seg.cnt) /\ SetAll(tree, seg, lack) = f[seg.cnt]
<1>1. PICK f : SetSteps(f, tree, seg, lack, seg.cnt)  BY SetStepsExist
<1> DEFINE Put(st, p) == IF p >= length THEN [map |-> st.map, res |-> "inval"]
                                        ELSE SetBit(st.map, p, lack)
           set[n \in 0 .. seg.cnt] ==
             IF n = 0 THEN [map |-> tree, res |-> "ok"]
             ELSE LET before == set[n - 1]
                  IN IF n - 1 \in seg.magic /\ before.res = "ok"
                     THEN Put(before, seg.first + seg.off + n - 1) ELSE before
           h == [n \in 0 .. seg.cnt |-> f[n]]
<1>2. SetAll(tree, seg, lack) = set[seg.cnt]  BY DEF SetAll
<1>3. h = [n \in 0 .. seg.cnt |->
             IF n = 0 THEN [map |-> tree, res |-> "ok"]
             ELSE IF n - 1 \in seg.magic /\ h[n - 1].res = "ok"
                  THEN Put(h[n - 1], seg.first + seg.off + n - 1) ELSE h[n - 1]]
  <2>1. ASSUME NEW n \in 0 .. seg.cnt
        PROVE  f[n] = IF n = 0 THEN [map |-> tree, res |-> "ok"]
                      ELSE IF n - 1 \in seg.magic /\ h[n - 1].res = "ok"
                           THEN Put(h[n - 1], seg.first + seg.off + n - 1) ELSE h[n - 1]
    <3>1. CASE n = 0  BY <3>1, <1>1 DEF SetSteps
    <3>2. CASE n # 0
      <4>1. n \in 1 .. seg.cnt /\ n - 1 \in 0 .. seg.cnt  BY <3>2
      <4>2. h[n - 1] = f[n - 1]  BY <4>1
      <4>3. f[n] = SetNext(f[n - 1], seg, lack, n)  BY <4>1, <1>1 DEF SetSteps
      <4> QED  BY <4>2, <4>3, <3>2 DEF SetNext
    <3> QED  BY <3>1, <3>2
  <2> QED  BY <2>1
<1> HIDE DEF h
<1>4. set = [n \in 0 .. seg.cnt |->
               IF n = 0 THEN [map |-> tree, res |-> "ok"]
               ELSE IF n - 1 \in seg.magic /\ set[n - 1].res = "ok"
                    THEN Put(set[n - 1], seg.first + seg.off + n - 1) ELSE set[n - 1]]
  BY <1>3
<1> HIDE DEF set
<1>5. SetSteps(set, tree, seg, lack, seg.cnt)
  <2>1. set[0] = [map |-> tree, res |-> "ok"]  BY <1>4
  <2>2. ASSUME NEW i \in 1 .. seg.cnt  PROVE set[i] = SetNext(set[i - 1], seg, lack, i)
    <3>1. i \in 0 .. seg.cnt /\ i # 0  OBVIOUS
    <3> QED  BY <3>1, <1>4 DEF SetNext
  <2> QED  BY <2>1, <2>2 DEF SetSteps
<1> QED  BY <1>2, <1>5

(* The places of the sectors with the pattern among the first n.           *)
PlacesOf(seg, n) == {seg.first + seg.off + s : s \in {t \in seg.magic : t < n}}

(* What the bits of a segment do to a bitmap.                              *)
SetWell(set, tree, seg, n) ==
  /\ set.res # "array" => set.map \in Maps(length)
  /\ length <= Room(length) /\ set.res # "array" =>
       Bits(set.map) \subseteq Bits(tree) \cup PlacesOf(seg, n)
  /\ length <= Room(length) /\ set.res = "ok" =>
       Bits(tree) \cup PlacesOf(seg, n) \subseteq Bits(set.map)

(* One bit after those before it.                                          *)
LEMMA SetOneMore ==
  ASSUME NEW seg \in Segments, NEW lack \in LacksIn(length), NEW tree, NEW set,
         length \in Lengths, NEW n \in 1 .. seg.cnt, SetWell(set, tree, seg, n - 1)
  PROVE  SetWell(SetNext(set, seg, lack, n), tree, seg, n)
<1> DEFINE p == seg.first + seg.off + n - 1
<1>1. /\ seg.first \in Nat /\ seg.off \in Nat /\ seg.cnt \in Nat /\ length \in Nat
      /\ seg.magic \subseteq Nat /\ n \in Nat
  BY CollectAssumption DEF Segments
<1>2. p \in Nat  BY <1>1
<1>3. n - 1 \in seg.magic => PlacesOf(seg, n) = PlacesOf(seg, n - 1) \cup {p}
  <2> SUFFICES ASSUME n - 1 \in seg.magic PROVE PlacesOf(seg, n) = PlacesOf(seg, n - 1) \cup {p}
    OBVIOUS
  <2>1. {t \in seg.magic : t < n} = {t \in seg.magic : t < n - 1} \cup {n - 1}  BY <1>1
  <2> QED  BY <2>1, <1>1 DEF PlacesOf
<1>4. n - 1 \notin seg.magic => PlacesOf(seg, n) = PlacesOf(seg, n - 1)
  <2> SUFFICES ASSUME n - 1 \notin seg.magic PROVE PlacesOf(seg, n) = PlacesOf(seg, n - 1)
    OBVIOUS
  <2>1. {t \in seg.magic : t < n} = {t \in seg.magic : t < n - 1}  BY <1>1
  <2> QED  BY <2>1 DEF PlacesOf
<1>5. PlacesOf(seg, n - 1) \subseteq PlacesOf(seg, n)  BY <1>3, <1>4
<1>6. CASE n - 1 \notin seg.magic
  <2>1. SetNext(set, seg, lack, n) = set  BY <1>6 DEF SetNext
  <2> QED  BY <2>1, <1>4, <1>6 DEF SetWell
<1>7. CASE n - 1 \in seg.magic /\ set.res # "ok"
  <2>1. SetNext(set, seg, lack, n) = set  BY <1>7 DEF SetNext
  <2> QED  BY <2>1, <1>5, <1>7 DEF SetWell
<1>8. CASE n - 1 \in seg.magic /\ set.res = "ok" /\ p >= length
  <2>1. SetNext(set, seg, lack, n) = [map |-> set.map, res |-> "inval"]  BY <1>8 DEF SetNext
  <2> QED  BY <2>1, <1>5, <1>8 DEF SetWell
<1>9. CASE n - 1 \in seg.magic /\ set.res = "ok" /\ ~ (p >= length)
  <2> DEFINE next == SetBit(set.map, p, lack)
  <2>1. SetNext(set, seg, lack, n) = next  BY <1>9 DEF SetNext
  <2>2. p \in 0 .. length - 1  BY <1>2, <1>1, <1>9
  <2>3. set.map \in Maps(length)  BY <1>9 DEF SetWell
  <2>4. /\ next.res # "array" => next.map \in Maps(length)
        /\ length <= Room(length) /\ next.res # "array" => Bits(next.map) \subseteq Bits(set.map) \cup {p}
        /\ length <= Room(length) /\ next.res = "ok" => Bits(set.map) \cup {p} \subseteq Bits(next.map)
    <3> HIDE DEF p
    <3> QED  BY <2>2, <2>3, MapAssumption
  <2> HIDE DEF next, p
  <2> QED  BY <2>1, <2>4, <1>3, <1>9 DEF SetWell
<1> QED  BY <1>6, <1>7, <1>8, <1>9

LEMMA SetAllWell ==
  ASSUME NEW seg \in Segments, NEW lack \in LacksIn(length), NEW tree \in Maps(length),
         length \in Lengths, seg.magic \subseteq 0 .. seg.cnt - 1
  PROVE  SetWell(SetAll(tree, seg, lack), tree, seg, seg.cnt)
<1>1. seg.first \in Nat /\ seg.off \in Nat /\ seg.cnt \in Nat  BY DEF Segments
<1>2. PICK f : SetSteps(f, tree, seg, lack, seg.cnt) /\ SetAll(tree, seg, lack) = f[seg.cnt]
  BY <1>1, SetAllSteps
<1> DEFINE T == {n \in 0 .. seg.cnt : ~ SetWell(f[n], tree, seg, n)}
<1>3. T = {}
  <2> SUFFICES ASSUME T # {} PROVE FALSE  OBVIOUS
  <2>1. PICK n \in T : \A m \in T : n <= m
    <3>1. T \in SUBSET Nat  BY <1>1
    <3> HIDE DEF T
    <3> QED  BY <3>1, LeastNumber
  <2>2. n \in 0 .. seg.cnt /\ ~ SetWell(f[n], tree, seg, n)  BY <2>1
  <2>3. n # 0
    <3>1. f[0] = [map |-> tree, res |-> "ok"]  BY <1>2 DEF SetSteps
    <3>2. seg.magic \subseteq Nat  BY DEF Segments
    <3>3. PlacesOf(seg, 0) = {}  BY <3>2 DEF PlacesOf
    <3>4. SetWell(f[0], tree, seg, 0)  BY <3>1, <3>3 DEF SetWell
    <3> QED  BY <3>4, <2>2
  <2>4. n \in 1 .. seg.cnt /\ n - 1 \in 0 .. seg.cnt /\ ~ (n <= n - 1)  BY <2>2, <2>3, <1>1
  <2>5. SetWell(f[n - 1], tree, seg, n - 1)
    <3>1. n - 1 \notin T  BY <2>1, <2>4
    <3> QED  BY <3>1, <2>4
  <2>6. f[n] = SetNext(f[n - 1], seg, lack, n)  BY <2>4, <1>2 DEF SetSteps
  <2>7. SetWell(SetNext(f[n - 1], seg, lack, n), tree, seg, n)  BY <2>4, <2>5, SetOneMore
  <2> QED  BY <2>2, <2>6, <2>7
<1>4. seg.cnt \in 0 .. seg.cnt  BY <1>1
<1> QED  BY <1>2, <1>3, <1>4

-----------------------------------------------------------------------------
(* The steps.                                                              *)

LEMMA LengthNat == ASSUME ShapeInv PROVE length \in Nat /\ length > 0
  BY CollectAssumption DEF ShapeInv

LEMMA CollectInitInv == CollectInit => CollectInv
<1> SUFFICES ASSUME CollectInit PROVE CollectInv  OBVIOUS
<1> USE DEF CollectInit
<1>1. ShapeInv
  <2>1. active \in Seq(Collectors) /\ stopped \in Seq(Collectors)  OBVIOUS
  <2>2. write \in [Writers -> Seq(Segments)]  OBVIOUS
  <2>3. \A c \in Collectors : collector[c] = NoCollector  OBVIOUS
  <2>4. call \in CallSet  BY DEF Idle, CallSet
  <2>5. must \in [Writers -> [c : Collectors \cup {NoOne}, what : SUBSET Nat]]  BY DEF Nothing
  <2>6. collector = [c \in Collectors |-> collector[c]]  OBVIOUS
  <2>7. flaw = [c \in Collectors |-> flaw[c]]  OBVIOUS
  <2> QED  BY <2>1, <2>2, <2>3, <2>4, <2>5, <2>6, <2>7 DEF ShapeInv, NoCollector
<1>2. On(active) = {} /\ On(stopped) = {}  BY OnEmpty
<1>3. \A c \in Collectors : collector[c] = NoCollector  OBVIOUS
<1>4. Starting = {}  BY DEF Starting, Idle
<1>5. ListsInv
  BY <1>2, <1>3, <1>4, OnEmpty DEF ListsInv, NoCollector, Live, Idle
<1>6. HookInv  BY DEF HookInv, Idle
<1>7. MustInv  BY <1>2 DEF MustInv, Nothing, NoOne
<1>8. SeenInv
  <2>1. NewMap(length) \in Maps(length)  BY MapAssumption
  <2> QED  BY <1>2, <1>3, <2>1 DEF SeenInv, NoCollector
<1>9. BitsInv  BY <1>2, <1>3 DEF BitsInv, NoCollector, Live
<1> QED  BY <1>1, <1>5, <1>6, <1>7, <1>8, <1>9 DEF CollectInv

(* A step that leaves the writes, the lists and what is in the maps alone. *)
Aside ==
  /\ UNCHANGED <<length, active, stopped, at, write, found, must, due, seen, flaw>>
  /\ \A c \in Collectors : /\ collector'[c].live = collector[c].live
                           /\ collector'[c].fail = collector[c].fail
                           /\ collector'[c].map = collector[c].map

LEMMA AsideKeeps ==
  ASSUME CollectInv, Aside
  PROVE  MustInv' /\ SeenInv' /\ BitsInv'
<1> USE DEF CollectInv
<1>1. MustInv'
  <2>1. \A u \in Writers : must[u].c \in Collectors \cup {NoOne}  BY DEF ShapeInv
  <2> QED  BY <2>1 DEF MustInv, Aside, On, MagicOf, Nothing, NoOne
<1>2. SeenInv'
  <2>1. \A c \in Collectors : Live(c)' <=> Live(c)  BY DEF Aside, Live
  <2>2. \A u \in Writers : at[u] = "segments" => found[u] \in Collectors  BY DEF HookInv
  <2>3. \A c \in Collectors : /\ seen'[c] \subseteq Sectors'
                              /\ c \notin On(active') \cup On(stopped') => due'[c] = {}
                              /\ "array" \notin flaw'[c] => collector'[c].map \in Maps(length')
    BY DEF SeenInv, Aside, On, Sectors
  <2>4. \A u \in Writers : at'[u] = "segments" /\ Live(found[u])' => MagicOf(write'[u]) \subseteq seen'[found'[u]]
    BY <2>1, <2>2 DEF SeenInv, Aside
  <2>5. found' = found  BY DEF Aside
  <2> QED  BY <2>3, <2>4, <2>5 DEF SeenInv, Live
<1>3. BitsInv'
  <2>1. \A c \in Collectors : Live(c)' <=> Live(c)  BY DEF Aside, Live
  <2>2. \A c \in Collectors : Pure(c)' <=> Pure(c)  BY DEF Aside, Pure
  <2>3. On(active) \subseteq Collectors  BY DEF ShapeInv, On
  <2>4. \A u \in Writers : must'[u] = must[u] /\ at'[u] = at[u] /\ write'[u] = write[u]  BY DEF Aside
  <2>5. active' = active /\ length' = length /\ due' = due /\ seen' = seen /\ flaw' = flaw  BY DEF Aside
  <2>6. \A c \in Collectors : collector'[c].map = collector[c].map  BY DEF Aside
  <2>7. ASSUME length <= Room(length)
        PROVE  \A c \in Collectors : Live(c)' =>
                 /\ flaw'[c] \cap {"array", "offset"} = {} => Bits(collector'[c].map) \subseteq seen'[c]
                 /\ Pure(c)' => due'[c] \subseteq Bits(collector'[c].map)
    BY <2>1, <2>2, <2>5, <2>6, <2>7 DEF BitsInv
  <2>8. ASSUME length <= Room(length), NEW u \in Writers, must[u].c \in On(active), Pure(must[u].c)'
        PROVE  /\ at'[u] = "segments" =>
                    must'[u].what \subseteq Bits(collector'[must'[u].c].map) \cup MagicOf(write'[u])
               /\ at'[u] = "submit" => must'[u].what \subseteq Bits(collector'[must'[u].c].map)
    BY <2>2, <2>3, <2>4, <2>6, <2>8 DEF BitsInv
  <2>9. \A u \in Writers : must'[u].c = must[u].c  BY <2>4
  <2> QED  BY <2>5, <2>7, <2>8, <2>9 DEF BitsInv, Pure, Live, On, MagicOf
<1> QED  BY <1>1, <1>2, <1>3

(* What such a step may do to the call.                                    *)
GoesRight ==
  /\ call' \in CallSet /\ frozen' \in BOOLEAN
  /\ Starting' = Starting
  /\ call'.at = "idle" => call' = Idle
  /\ call'.at \in {"stop", "stopFrozen", "stopPut"} => active # <<>> /\ call'.c = Head(active)
  /\ call.at = "stopPut" \/ call'.at = "stopPut" => call' = call
  /\ call'.at \in {"stopPut", "stopThaw"} => call'.at = call.at /\ frozen' = frozen

(* The steps of the calls that only go on, or freeze and thaw.             *)
LEMMA CallsGoRight ==
  ASSUME CollectInv,
         \/ Calls \/ StartFreeze \/ Thaw \/ Look
         \/ StopFreeze \/ StopNotFrozen \/ StopThaw \/ Get
         \/ (Complete \/ Done) /\ stopped = <<>>
         \/ UNCHANGED collectVars
  PROVE  /\ GoesRight
         /\ UNCHANGED <<blockDevice, listVars, writeVars, historyVars>>
<1> USE DEF CollectInv
<1>1. call \in CallSet /\ frozen \in BOOLEAN /\ hasFs \in BOOLEAN /\ active \in Seq(Collectors)
  BY DEF ShapeInv, CallSet
<1>2. /\ call.at \in {"stop", "stopFrozen", "stopPut"} => active # <<>> /\ call.c = Head(active)
      /\ call.at = "idle" => call = Idle
  BY DEF ListsInv
<1>3. active # <<>> => Head(active) \in Collectors  BY <1>1
<1>4. Idle \in CallSet /\ Idle.at = "idle"  BY DEF Idle, CallSet
<1> USE DEF GoesRight, Starting
<1>5. CASE Calls
  <2>1. PICK op \in {"find", "done"} : call = Idle /\ call' = [op |-> op, at |-> op, c |-> NoOne]
    BY <1>5 DEF Calls, Call
  <2>2. call' \in CallSet /\ call'.at = op  BY <2>1 DEF CallSet
  <2>3. frozen' = frozen /\ UNCHANGED <<blockDevice, listVars, writeVars, historyVars>>
    BY <1>5 DEF Calls, Call
  <2> QED  BY <2>1, <2>2, <2>3, <1>1, <1>4
<1>6. CASE StartFreeze
  <2>1. call.at = "start" /\ call' = [call EXCEPT !.at = "startFrozen"] /\ frozen' = hasFs
    BY <1>6 DEF StartFreeze, Blocks, GoesOn
  <2>2. call' \in CallSet /\ call'.at = "startFrozen" /\ call'.c = call.c  BY <2>1, <1>1 DEF CallSet
  <2>3. UNCHANGED <<blockDevice, listVars, writeVars, historyVars>>
    BY <1>6 DEF StartFreeze, Blocks
  <2> QED  BY <2>1, <2>2, <2>3, <1>1
<1>7. CASE Thaw
  <2>1. call.at = "thaw" /\ call' = Idle /\ frozen' = FALSE
        /\ UNCHANGED <<blockDevice, listVars, writeVars, historyVars>>
    BY <1>7 DEF Thaw, Thaws, Returns
  <2> QED  BY <2>1, <1>4
<1>8. CASE Look
  <2>1. call.at \in {"find", "done"} /\ frozen' = frozen
        /\ UNCHANGED <<blockDevice, listVars, writeVars, historyVars>>
    BY <1>8 DEF Look
  <2>2. CASE active = <<>>
    <3>1. call' = [call EXCEPT !.at = "look"]  BY <1>8, <2>2 DEF Look
    <3>2. call' \in CallSet /\ call'.at = "look"  BY <3>1, <1>1 DEF CallSet
    <3> QED  BY <3>2, <2>1, <1>1
  <2>3. CASE active # <<>>
    <3>1. call' = [call EXCEPT !.at = "stop", !.c = Head(active)]  BY <1>8, <2>3 DEF Look
    <3>2. call' \in CallSet /\ call'.at = "stop" /\ call'.c = Head(active)
      BY <3>1, <1>1, <1>3, <2>3 DEF CallSet
    <3> QED  BY <3>2, <2>1, <2>3, <1>1
  <2> QED  BY <2>2, <2>3
<1>9. CASE StopFreeze \/ StopNotFrozen
  <2>1. /\ call.at = "stop" /\ call' = [call EXCEPT !.at = "stopFrozen"]
        /\ frozen' \in {hasFs, frozen}
        /\ UNCHANGED <<blockDevice, listVars, writeVars, historyVars>>
    BY <1>9 DEF StopFreeze, StopNotFrozen, Blocks, GoesOn
  <2>2. call' \in CallSet /\ call'.at = "stopFrozen" /\ call'.c = call.c  BY <2>1, <1>1 DEF CallSet
  <2> QED  BY <2>1, <2>2, <1>1, <1>2
<1>10. CASE StopThaw
  <2>1. /\ call.at = "stopThaw" /\ frozen' = FALSE
        /\ UNCHANGED <<blockDevice, listVars, writeVars, historyVars>>
    BY <1>10 DEF StopThaw
  <2>2. PICK to \in {"done", "look"} : call' = [call EXCEPT !.at = to, !.c = NoOne]
    BY <1>10 DEF StopThaw
  <2>3. call' \in CallSet /\ call'.at = to  BY <2>2, <1>1 DEF CallSet
  <2> QED  BY <2>1, <2>3
<1>11. CASE Get
  <2>1. call.at = "look" /\ call' = Idle /\ frozen' = frozen
        /\ UNCHANGED <<blockDevice, listVars, writeVars, historyVars>>
    BY <1>11 DEF Get, Returns
  <2> QED  BY <2>1, <1>1, <1>4
<1>12. CASE UNCHANGED collectVars
  <2>1. call' = call /\ frozen' = frozen
        /\ UNCHANGED <<blockDevice, listVars, writeVars, historyVars>>
    BY <1>12 DEF collectVars
  <2> QED  BY <2>1, <1>1, <1>2
<1>13. CASE Complete /\ stopped = <<>>
  <2>1. call.at = "look" /\ call' = Idle /\ frozen' = frozen
        /\ UNCHANGED <<blockDevice, listVars, writeVars, historyVars>>
    BY <1>13 DEF Complete, Returns, listVars, historyVars
  <2> QED  BY <2>1, <1>1, <1>4
<1>14. CASE Done /\ stopped = <<>>
  <2>1. call.at = "look" /\ call' = [call EXCEPT !.at = "gone"] /\ frozen' = frozen
        /\ UNCHANGED <<blockDevice, listVars, writeVars, historyVars>>
    BY <1>14 DEF Done, listVars, historyVars
  <2>2. call' \in CallSet /\ call'.at = "gone"  BY <2>1, <1>1 DEF CallSet
  <2> QED  BY <2>1, <2>2, <1>1
<1> QED  BY <1>5, <1>6, <1>7, <1>8, <1>9, <1>10, <1>11, <1>12, <1>13, <1>14

LEMMA CallsKeep ==
  ASSUME CollectInv, GoesRight, UNCHANGED <<blockDevice, listVars, writeVars, historyVars>>
  PROVE  CollectInv'
<1> USE DEF CollectInv
<1>2. /\ length' = length /\ hasFs' = hasFs /\ active' = active /\ stopped' = stopped
      /\ collector' = collector /\ at' = at /\ write' = write /\ found' = found /\ must' = must
      /\ due' = due /\ seen' = seen /\ flaw' = flaw /\ bare' = bare /\ hurt' = hurt
  BY DEF blockDevice, listVars, writeVars, historyVars
<1>5. ShapeInv'  BY <1>2 DEF ShapeInv, GoesRight, CallSet
<1>7. ListsInv'
  <2>1. \A c \in Collectors :
          collector[c].ref <=> c \in On(active) /\ ~(call'.at = "stopPut" /\ c = call'.c)
    BY DEF ListsInv, GoesRight
  <2> HIDE DEF CollectInv
  <2> QED  BY <1>2, <2>1 DEF ListsInv, Live, On, GoesRight, CollectInv
<1>8. HookInv'  BY <1>2 DEF HookInv, On, GoesRight
<1>9. Aside  BY <1>2 DEF Aside
<1> QED  BY <1>5, <1>7, <1>8, <1>9, AsideKeeps DEF CollectInv

(* Nothing in a write changes.                                             *)
WritesRest == UNCHANGED <<length, hasFs, at, write, found, must>>

(* A collector comes or goes that is on no list before or after: what else *)
(* there is does not notice.                                               *)
LEMMA OthersRest ==
  ASSUME CollectInv, WritesRest, UNCHANGED <<active, stopped>>, NEW c \in Collectors,
         c \notin On(active) \cup On(stopped), collector[c].live # "freed",
         UNCHANGED <<due, seen, flaw>>,
         collector'[c].map = NewMap(length),
         \A d \in Collectors : d # c => collector'[d] = collector[d]
  PROVE  MustInv' /\ SeenInv' /\ BitsInv'
<1> USE DEF CollectInv
<1>0. length \in Lengths  BY DEF ShapeInv
<1>1. NewMap(length) \in Maps(length) /\ Bits(NewMap(length)) = {}  BY <1>0, MapAssumption
<1>2. \A u \in Writers : must[u].c # c /\ must[u].c \in Collectors \cup {NoOne}
  BY DEF MustInv, ShapeInv, NoOne, Collectors
<1>3. \A u \in Writers : at[u] = "segments" => found[u] # c /\ found[u] \in Collectors
  BY DEF HookInv
<1>4. /\ length' = length /\ at' = at /\ write' = write /\ found' = found /\ must' = must
      /\ active' = active /\ stopped' = stopped /\ due' = due /\ seen' = seen /\ flaw' = flaw
  BY DEF WritesRest
<1>5. due[c] = {}  BY DEF SeenInv
<1>6. MustInv'  BY <1>2, <1>4 DEF MustInv, On, MagicOf, Nothing, NoOne
<1>7. SeenInv'
  <2>1. \A d \in Collectors : "array" \notin flaw[d] => collector'[d].map \in Maps(length)
    BY <1>1 DEF SeenInv
  <2>2. \A u \in Writers : at[u] = "segments" => collector'[found[u]] = collector[found[u]]
    BY <1>3
  <2> QED  BY <1>4, <2>1, <2>2 DEF SeenInv, Live, On, Sectors, MagicOf
<1>8. BitsInv'
  <2>1. ASSUME length <= Room(length), NEW d \in Collectors, Live(d)'
        PROVE  /\ flaw[d] \cap {"array", "offset"} = {} => Bits(collector'[d].map) \subseteq seen[d]
               /\ Pure(d)' => due[d] \subseteq Bits(collector'[d].map)
    <3>1. CASE d = c  BY <3>1, <1>1, <1>5
    <3>2. CASE d # c
      <4>1. collector'[d] = collector[d]  BY <3>2
      <4> QED  BY <4>1, <1>4, <2>1 DEF BitsInv, Live, Pure
    <3> QED  BY <3>1, <3>2
  <2>2. On(active) \subseteq Collectors  BY DEF ShapeInv, On
  <2>3. \A u \in Writers : must[u].c \in On(active) => collector'[must[u].c] = collector[must[u].c]
    BY <2>2, <1>2
  <2> QED  BY <1>4, <2>1, <2>3 DEF BitsInv, Live, Pure, On, MagicOf
<1> QED  BY <1>6, <1>7, <1>8

LEMMA StartKeeps ==
  ASSUME CollectInv, NEW c \in Collectors, Start(c)
  PROVE  CollectInv'
<1> USE DEF CollectInv
<1>1. /\ call = Idle /\ collector[c].live = "no"
      /\ call' = [op |-> "start", at |-> "start", c |-> c]
      /\ collector' = [collector EXCEPT ![c].live = "yes", ![c].map = NewMap(length)]
      /\ WritesRest /\ UNCHANGED <<active, stopped, frozen, due, seen, flaw, bare, hurt>>
  BY DEF Start, WritesRest, blockDevice, writeVars, historyVars
<1>2. /\ collector = [d \in Collectors |-> collector[d]]
      /\ collector[c] = [live |-> collector[c].live, ref |-> collector[c].ref,
                         fail |-> collector[c].fail, map |-> collector[c].map]
  BY DEF ShapeInv
<1>3. /\ collector' = [d \in Collectors |-> collector'[d]]
      /\ collector'[c] = [live |-> "yes", ref |-> collector[c].ref,
                          fail |-> collector[c].fail, map |-> NewMap(length)]
      /\ \A d \in Collectors : d # c => collector'[d] = collector[d]
  BY <1>1, <1>2
<1>4. Starting = {} /\ Starting' = {c} /\ call'.at = "start" /\ call'.c = c  BY <1>1 DEF Starting, Idle
<1>5. ~Live(c) /\ c \notin On(active) \cup On(stopped)  BY <1>1 DEF Live, ListsInv
<1>6. ShapeInv'
  <2>1. call' \in CallSet  BY <1>1 DEF CallSet
  <2> QED  BY <1>1, <1>3, <2>1 DEF ShapeInv, WritesRest
<1>7. ListsInv'
  <2>1. \A d \in Collectors : Live(d)' <=> d \in On(active) \cup On(stopped) \cup {c}
    BY <1>3, <1>4, <1>5 DEF ListsInv, Live
  <2>2. \A d \in Collectors : collector'[d].ref <=> d \in On(active)
    <3>1. \A d \in Collectors : collector[d].ref <=> d \in On(active)
      BY <1>1 DEF ListsInv, Idle
    <3>2. \A d \in Collectors : collector'[d].ref = collector[d].ref
      <4> TAKE d \in Collectors
      <4>1. CASE d = c  BY <4>1, <1>3
      <4>2. CASE d # c  BY <4>2, <1>3
      <4> QED  BY <4>1, <4>2
    <3> QED  BY <3>1, <3>2
  <2>3. active' = active /\ stopped' = stopped  BY <1>1
  <2>4. IsInjective(active) /\ IsInjective(stopped) /\ On(active) \cap On(stopped) = {}
    BY DEF ListsInv
  <2> HIDE DEF CollectInv
  <2> QED  BY <1>4, <1>5, <2>1, <2>2, <2>3, <2>4 DEF ListsInv, Live
<1>8. HookInv'
  <2>1. \A u \in Writers : at[u] = "segments" => found[u] # c  BY <1>1, <1>5 DEF HookInv
  <2>2. /\ length' = length /\ at' = at /\ write' = write /\ found' = found
        /\ active' = active /\ stopped' = stopped /\ bare' = bare /\ hurt' = hurt
    BY <1>1 DEF WritesRest
  <2> QED  BY <1>3, <1>4, <2>1, <2>2 DEF HookInv
<1>9. MustInv' /\ SeenInv' /\ BitsInv'
  <2>1. collector[c].live # "freed" /\ collector'[c].map = NewMap(length)  BY <1>1, <1>3
  <2> QED  BY <1>1, <1>3, <1>5, <2>1, OthersRest
<1> QED  BY <1>6, <1>7, <1>8, <1>9

LEMMA StartFailsKeeps ==
  ASSUME CollectInv, StartFails
  PROVE  CollectInv'
<1> USE DEF CollectInv
<1> DEFINE c == call.c
<1>1. /\ call.at \in {"start", "startFrozen"} /\ call' = Idle /\ frozen' = FALSE
      /\ collector' = [collector EXCEPT ![c] = NoCollector]
      /\ WritesRest /\ UNCHANGED <<active, stopped, due, seen, flaw, bare, hurt>>
  BY DEF StartFails, WritesRest, blockDevice, writeVars, historyVars
<1>2. collector = [d \in Collectors |-> collector[d]]  BY DEF ShapeInv
<1>3. /\ Starting = {c} /\ Starting' = {} /\ call'.at = "idle"
      /\ c \in Collectors /\ c \notin On(active) \cup On(stopped) /\ Live(c)
  BY <1>1 DEF Starting, Idle, ListsInv
<1> HIDE DEF c
<1>4. /\ collector' = [d \in Collectors |-> collector'[d]]
      /\ collector'[c] = [live |-> "no", ref |-> FALSE, fail |-> FALSE, map |-> NewMap(length)]
      /\ \A d \in Collectors : d # c => collector'[d] = collector[d]
  BY <1>1, <1>2, <1>3 DEF NoCollector
<1>6. ShapeInv'
  <2>1. call' \in CallSet  BY <1>1 DEF CallSet, Idle
  <2>2. \A d \in Collectors :
       /\ collector'[d] = [live |-> collector'[d].live, ref |-> collector'[d].ref,
                          fail |-> collector'[d].fail, map |-> collector'[d].map]
       /\ collector'[d].live \in {"no", "yes", "freed"}
       /\ collector'[d].ref \in BOOLEAN /\ collector'[d].fail \in BOOLEAN
    <3> TAKE d \in Collectors
    <3>1. CASE d = c  BY <3>1, <1>4
    <3>2. CASE d # c
      <4>1. collector'[d] = collector[d]  BY <3>2, <1>4
      <4> QED  BY <4>1 DEF ShapeInv
    <3> QED  BY <3>1, <3>2
  <2> QED  BY <1>1, <1>4, <2>1, <2>2 DEF ShapeInv, WritesRest
<1>7. ListsInv'
  <2>1. \A d \in Collectors : Live(d)' <=> d \in On(active) \cup On(stopped)
    BY <1>3, <1>4 DEF ListsInv, Live
  <2>2. \A d \in Collectors : collector'[d].ref <=> d \in On(active)
    BY <1>1, <1>3, <1>4 DEF ListsInv
  <2> QED  BY <1>1, <1>3, <2>1, <2>2 DEF ListsInv, On, Live
<1>8. HookInv'
  <2>1. \A u \in Writers : at[u] = "segments" => found[u] # c  BY <1>3 DEF HookInv, Live
  <2> QED  BY <1>1, <1>3, <1>4, <2>1 DEF HookInv, On, WritesRest
<1>9. MustInv' /\ SeenInv' /\ BitsInv'
  <2>1. collector[c].live # "freed"  BY <1>3 DEF Live
  <2> QED  BY <1>1, <1>3, <1>4, <2>1, OthersRest
<1> QED  BY <1>6, <1>7, <1>8, <1>9

LEMMA StartPushKeeps ==
  ASSUME CollectInv, StartPush
  PROVE  CollectInv'
<1> USE DEF CollectInv
<1> DEFINE c == call.c
<1>1. /\ call.at = "startFrozen" /\ call' = [call EXCEPT !.at = "thaw"]
      /\ collector' = [collector EXCEPT ![c].ref = TRUE]
      /\ active' = Append(active, c)
      /\ WritesRest /\ UNCHANGED <<stopped, frozen, due, seen, flaw, bare, hurt>>
  BY DEF StartPush, GoesOn, WritesRest, blockDevice, writeVars, historyVars
<1>2. /\ collector = [d \in Collectors |-> collector[d]] /\ call \in CallSet
      /\ active \in Seq(Collectors)
  BY DEF ShapeInv
<1>3. /\ Starting = {c} /\ c \in Collectors /\ c \notin On(active) \cup On(stopped) /\ Live(c)
  BY <1>1 DEF Starting, Idle, ListsInv
<1>4. call' \in CallSet /\ call'.at = "thaw" /\ Starting' = {}
  BY <1>1, <1>2 DEF CallSet, Starting
<1> HIDE DEF c
<1>5. collector[c] = [live |-> collector[c].live, ref |-> collector[c].ref,
                      fail |-> collector[c].fail, map |-> collector[c].map]
  BY <1>3 DEF ShapeInv
<1>6. /\ collector' = [d \in Collectors |-> collector'[d]]
      /\ collector'[c] = [live |-> collector[c].live, ref |-> TRUE,
                          fail |-> collector[c].fail, map |-> collector[c].map]
      /\ \A d \in Collectors : d # c => collector'[d] = collector[d]
  BY <1>1, <1>2, <1>3, <1>5
<1>7. /\ active' \in Seq(Collectors) /\ On(active') = On(active) \cup {c} /\ IsInjective(active')
      /\ active # <<>> => Head(active') = Head(active)
  BY <1>1, <1>2, <1>3, OnAppend DEF ListsInv
<1>8. /\ length' = length /\ at' = at /\ write' = write /\ found' = found /\ must' = must /\ hasFs' = hasFs
      /\ stopped' = stopped /\ due' = due /\ seen' = seen /\ flaw' = flaw /\ frozen' = frozen
      /\ bare' = bare /\ hurt' = hurt
  BY <1>1 DEF WritesRest
<1>9. \A d \in Collectors : collector'[d].live = collector[d].live
        /\ collector'[d].fail = collector[d].fail /\ collector'[d].map = collector[d].map
  BY <1>6
<1>10. ShapeInv'
  <2>1. \A d \in Collectors :
       /\ collector'[d] = [live |-> collector'[d].live, ref |-> collector'[d].ref,
                          fail |-> collector'[d].fail, map |-> collector'[d].map]
       /\ collector'[d].live \in {"no", "yes", "freed"}
       /\ collector'[d].ref \in BOOLEAN /\ collector'[d].fail \in BOOLEAN
    <3> TAKE d \in Collectors
    <3>1. CASE d = c
      <4>1. collector[c].live \in {"no", "yes", "freed"} /\ collector[c].fail \in BOOLEAN
        BY <1>3 DEF ShapeInv
      <4> QED  BY <3>1, <1>6, <4>1
    <3>2. CASE d # c
      <4>1. collector'[d] = collector[d]  BY <3>2, <1>6
      <4> QED  BY <4>1 DEF ShapeInv
    <3> QED  BY <3>1, <3>2
  <2> QED  BY <1>4, <1>6, <1>7, <1>8, <2>1 DEF ShapeInv
<1>11. ListsInv'
  <2>1. \A d \in Collectors : Live(d)' <=> d \in On(active') \cup On(stopped)
    BY <1>3, <1>7, <1>9 DEF ListsInv, Live
  <2>2. \A d \in Collectors : collector'[d].ref <=> d \in On(active')
    BY <1>1, <1>3, <1>6, <1>7 DEF ListsInv
  <2>3. On(active') \cap On(stopped) = {}  BY <1>3, <1>7 DEF ListsInv
  <2>4. IsInjective(stopped)  BY DEF ListsInv
  <2> QED  BY <1>4, <1>7, <1>8, <2>1, <2>2, <2>3, <2>4 DEF ListsInv, Live
<1>12. HookInv'  BY <1>4, <1>7, <1>8, <1>9 DEF HookInv
<1>13. \A u \in Writers : must[u].c # c /\ must[u].c \in Collectors \cup {NoOne}
  BY <1>3 DEF MustInv, ShapeInv, Live, NoOne, Collectors
<1>14. \A u \in Writers : must[u].c \in On(active') => must[u].c \in On(active)
  BY <1>7, <1>13
<1>15. MustInv'
  <2>1. \A u \in Writers : must[u].c \in On(active) => must[u].c = Head(active')
    BY <1>7, OnEmpty DEF MustInv
  <2> QED  BY <1>7, <1>8, <1>9, <1>13, <1>14, <2>1 DEF MustInv, MagicOf, Nothing, NoOne
<1>16. SeenInv'
  <2>1. \A u \in Writers : at[u] = "segments" => found[u] \in Collectors  BY DEF HookInv
  <2>2. SeenInv  OBVIOUS
  <2> HIDE DEF CollectInv
  <2>3. \A d \in Collectors : /\ seen[d] \subseteq Sectors
                              /\ d \notin On(active') \cup On(stopped) => due[d] = {}
                              /\ "array" \notin flaw[d] => collector'[d].map \in Maps(length)
    <3> TAKE d \in Collectors
    <3>1. collector'[d].map = collector[d].map  BY <1>9
    <3> QED  BY <1>7, <2>2, <3>1 DEF SeenInv
  <2>4. ASSUME NEW u \in Writers, at[u] = "segments", collector'[found[u]].live = "yes"
        PROVE  MagicOf(write[u]) \subseteq seen[found[u]]
    <3>1. Live(found[u])  BY <1>9, <2>1, <2>4 DEF Live
    <3> QED  BY <2>2, <2>4, <3>1 DEF SeenInv
  <2> QED  BY <1>8, <2>3, <2>4 DEF SeenInv, Live, Sectors
<1>17. BitsInv'
  <2>1. On(active) \subseteq Collectors  BY <1>2 DEF On
  <2> QED  BY <1>8, <1>9, <1>14, <2>1 DEF BitsInv, Live, Pure, MagicOf
<1> QED  BY <1>10, <1>11, <1>12, <1>15, <1>16, <1>17

LEMMA StopPutKeeps ==
  ASSUME CollectInv, StopPut
  PROVE  CollectInv'
<1> USE DEF CollectInv
<1> DEFINE c == call.c
<1>1. /\ Drained /\ call.at = "stopFrozen" /\ call' = [call EXCEPT !.at = "stopPut"]
      /\ collector' = [collector EXCEPT ![c].ref = FALSE]
      /\ bare' = (bare \/ ~frozen)
      /\ WritesRest /\ UNCHANGED <<active, stopped, frozen, due, seen, flaw, hurt>>
  BY DEF StopPut, GoesOn, WritesRest, blockDevice, writeVars
<1>2. /\ collector = [d \in Collectors |-> collector[d]] /\ call \in CallSet
      /\ active \in Seq(Collectors)
  BY DEF ShapeInv
<1>3. active # <<>> /\ c = Head(active) /\ Starting = {}
  BY <1>1 DEF ListsInv, Starting
<1>4. call' \in CallSet /\ call'.at = "stopPut" /\ call'.c = c /\ Starting' = {}
  BY <1>1, <1>2 DEF CallSet, Starting
<1>5. c \in On(active) /\ c \in Collectors  BY <1>2, <1>3, OnTail DEF ListsInv
<1> HIDE DEF c
<1>6. collector[c] = [live |-> collector[c].live, ref |-> collector[c].ref,
                      fail |-> collector[c].fail, map |-> collector[c].map]
  BY <1>5 DEF ShapeInv
<1>7. /\ collector' = [d \in Collectors |-> collector'[d]]
      /\ collector'[c] = [live |-> collector[c].live, ref |-> FALSE,
                          fail |-> collector[c].fail, map |-> collector[c].map]
      /\ \A d \in Collectors : d # c => collector'[d] = collector[d]
  BY <1>1, <1>2, <1>5, <1>6
<1>8. /\ length' = length /\ at' = at /\ write' = write /\ found' = found /\ must' = must /\ hasFs' = hasFs
      /\ active' = active /\ stopped' = stopped /\ due' = due /\ seen' = seen /\ flaw' = flaw
      /\ frozen' = frozen /\ hurt' = hurt
  BY <1>1 DEF WritesRest
<1>9. \A d \in Collectors : collector'[d].live = collector[d].live
        /\ collector'[d].fail = collector[d].fail /\ collector'[d].map = collector[d].map
  BY <1>7
<1>10. ShapeInv'
  <2>1. \A d \in Collectors :
       /\ collector'[d] = [live |-> collector'[d].live, ref |-> collector'[d].ref,
                          fail |-> collector'[d].fail, map |-> collector'[d].map]
       /\ collector'[d].live \in {"no", "yes", "freed"}
       /\ collector'[d].ref \in BOOLEAN /\ collector'[d].fail \in BOOLEAN
    <3> TAKE d \in Collectors
    <3>1. CASE d = c
      <4>1. collector[c].live \in {"no", "yes", "freed"} /\ collector[c].fail \in BOOLEAN
        BY <1>5 DEF ShapeInv
      <4> QED  BY <3>1, <1>7, <4>1
    <3>2. CASE d # c
      <4>1. collector'[d] = collector[d]  BY <3>2, <1>7
      <4> QED  BY <4>1 DEF ShapeInv
    <3> QED  BY <3>1, <3>2
  <2>2. bare' \in BOOLEAN  BY <1>1 DEF ShapeInv
  <2> QED  BY <1>4, <1>7, <1>8, <2>1, <2>2 DEF ShapeInv
<1>11. ListsInv'
  <2>1. \A d \in Collectors : Live(d)' <=> d \in On(active) \cup On(stopped)
    BY <1>3, <1>9 DEF ListsInv, Live
  <2>2. \A d \in Collectors : collector'[d].ref <=> d \in On(active) /\ d # c
    BY <1>1, <1>7 DEF ListsInv
  <2>3. IsInjective(active) /\ IsInjective(stopped) /\ On(active) \cap On(stopped) = {}
    BY DEF ListsInv
  <2> HIDE DEF CollectInv
  <2> QED  BY <1>3, <1>4, <1>8, <2>1, <2>2, <2>3 DEF ListsInv, Live
<1>12. HookInv'
  <2>1. frozen => \A u \in Writers : at[u] = "idle"  BY <1>1 DEF Drained
  <2>2. ~bare' => frozen /\ ~bare  BY <1>1
  <2>3. \A u \in Writers : at[u] = "segments" =>
          collector'[found[u]].live = "freed" \/ found[u] \in On(active) \cup On(stopped)
    BY <1>9 DEF HookInv
  <2>4. bare => bare'  BY <1>1
  <2> QED  BY <1>8, <2>1, <2>2, <2>3, <2>4 DEF HookInv
<1>13. Aside  BY <1>8, <1>9 DEF Aside
<1> QED  BY <1>10, <1>11, <1>12, <1>13, AsideKeeps

LEMMA StopPullKeeps ==
  ASSUME CollectInv, StopPull
  PROVE  CollectInv'
<1> USE DEF CollectInv
<1> DEFINE c == call.c
<1>1. /\ call.at = "stopPut" /\ call' = [call EXCEPT !.at = "stopThaw"]
      /\ stopped' = Append(stopped, c)
      /\ WritesRest /\ UNCHANGED <<collector, frozen, due, seen, flaw, bare, hurt>>
  BY DEF StopPull, GoesOn, WritesRest, blockDevice, writeVars, historyVars
<1>2. /\ call \in CallSet /\ active \in Seq(Collectors) /\ stopped \in Seq(Collectors)
  BY DEF ShapeInv
<1>3. /\ active # <<>> /\ c = Head(active) /\ Starting = {}
      /\ IsInjective(active) /\ IsInjective(stopped) /\ On(active) \cap On(stopped) = {}
  BY <1>1 DEF ListsInv, Starting
<1>4. call' \in CallSet /\ call'.at = "stopThaw" /\ Starting' = {}
  BY <1>1, <1>2 DEF CallSet, Starting
<1>5. active' = Tail(active)
  <2>1. PICK i \in 1 .. Len(active) : active[i] = c /\ active' = RemoveAt(active, i)
    BY <1>2 DEF StopPull
  <2> QED  BY <2>1, <1>2, <1>3, FirstRemoved
<1>6. /\ c \in On(active) /\ c \in Collectors
      /\ active' \in Seq(Collectors) /\ On(active') = On(active) \ {c} /\ IsInjective(active')
  BY <1>2, <1>3, <1>5, OnTail
<1> HIDE DEF c
<1>7. /\ stopped' \in Seq(Collectors) /\ On(stopped') = On(stopped) \cup {c} /\ IsInjective(stopped')
  <2>1. c \notin On(stopped)  BY <1>3, <1>6
  <2> QED  BY <2>1, <1>1, <1>2, <1>3, <1>6, OnAppend
<1>8. /\ length' = length /\ at' = at /\ write' = write /\ found' = found /\ must' = must /\ hasFs' = hasFs
      /\ collector' = collector /\ due' = due /\ seen' = seen /\ flaw' = flaw
      /\ frozen' = frozen /\ hurt' = hurt /\ bare' = bare
  BY <1>1 DEF WritesRest
<1>9. On(active') \cup On(stopped') = On(active) \cup On(stopped)  BY <1>6, <1>7
<1>10. ShapeInv'  BY <1>4, <1>6, <1>7, <1>8 DEF ShapeInv
<1>11. ListsInv'
  <2>1. \A d \in Collectors : Live(d)' <=> d \in On(active') \cup On(stopped')
    BY <1>3, <1>8, <1>9 DEF ListsInv, Live
  <2>2. \A d \in Collectors : collector'[d].ref <=> d \in On(active')
    BY <1>1, <1>6, <1>8 DEF ListsInv, c
  <2>3. On(active') \cap On(stopped') = {}  BY <1>3, <1>6, <1>7
  <2> HIDE DEF CollectInv
  <2> QED  BY <1>4, <1>6, <1>7, <2>1, <2>2, <2>3 DEF ListsInv, Live
<1>12. HookInv'
  <2>1. ~bare => frozen /\ \A u \in Writers : at[u] = "idle"  BY <1>1 DEF HookInv
  <2>2. \A u \in Writers : at[u] = "segments" =>
          collector[found[u]].live = "freed" \/ found[u] \in On(active') \cup On(stopped')
    BY <1>9 DEF HookInv
  <2> QED  BY <1>8, <2>1, <2>2 DEF HookInv
<1>13. \A u \in Writers : must[u].c \notin On(active')
  <2>1. \A u \in Writers : must[u].c \in On(active) => must[u].c = c  BY <1>3 DEF MustInv
  <2> QED  BY <2>1, <1>6
<1>14. MustInv'
  BY <1>8, <1>9, <1>13 DEF MustInv, MagicOf, Nothing, NoOne
<1>15. SeenInv'  BY <1>8, <1>9 DEF SeenInv, Live, Sectors, MagicOf
<1>16. BitsInv'  BY <1>8, <1>13 DEF BitsInv, Live, Pure
<1> QED  BY <1>10, <1>11, <1>12, <1>14, <1>15, <1>16

LEMMA FreeKeeps ==
  ASSUME CollectInv, stopped # <<>>, Complete \/ Done
  PROVE  CollectInv'
<1> USE DEF CollectInv
<1> DEFINE c == Head(stopped)
<1>1. /\ call.at = "look" /\ call' \in {Idle, call}
      /\ stopped' = Tail(stopped)
      /\ collector' = [collector EXCEPT ![c] = [NoCollector EXCEPT !.live = "freed"]]
      /\ due' = [due EXCEPT ![c] = {}]
      /\ seen' = [seen EXCEPT ![c] = {}]
      /\ flaw' = [flaw EXCEPT ![c] = {}]
      /\ WritesRest /\ UNCHANGED <<active, frozen, bare, hurt>>
  BY DEF Complete, Done, Returns, FreeFirst, WritesRest, blockDevice, writeVars
<1>2. /\ call \in CallSet /\ stopped \in Seq(Collectors)
      /\ collector = [d \in Collectors |-> collector[d]] /\ flaw = [d \in Collectors |-> flaw[d]]
      /\ due \in [Collectors -> SUBSET Nat] /\ seen \in [Collectors -> SUBSET Nat]
      /\ length \in Lengths
  BY DEF ShapeInv
<1>3. /\ IsInjective(active) /\ IsInjective(stopped) /\ On(active) \cap On(stopped) = {}
      /\ Starting = {}
  BY <1>1 DEF ListsInv, Starting
<1>4. call' \in CallSet /\ call'.at \in {"idle", "look"} /\ (call'.at = "idle" => call' = Idle)
      /\ Starting' = {}
  BY <1>1, <1>2 DEF CallSet, Starting, Idle
<1>5. /\ c \in On(stopped) /\ c \in Collectors
      /\ stopped' \in Seq(Collectors) /\ On(stopped') = On(stopped) \ {c} /\ IsInjective(stopped')
  BY <1>1, <1>2, <1>3, OnTail
<1>6. c \notin On(active)  BY <1>3, <1>5
<1> HIDE DEF c
<1>7. /\ collector' = [d \in Collectors |-> collector'[d]]
      /\ collector'[c] = [live |-> "freed", ref |-> FALSE, fail |-> FALSE, map |-> NewMap(length)]
      /\ \A d \in Collectors : d # c => collector'[d] = collector[d]
  BY <1>1, <1>2, <1>5 DEF NoCollector
<1>8. /\ due' \in [Collectors -> SUBSET Nat] /\ seen' \in [Collectors -> SUBSET Nat]
      /\ flaw' = [d \in Collectors |-> flaw'[d]]
      /\ due'[c] = {} /\ seen'[c] = {} /\ flaw'[c] = {}
      /\ \A d \in Collectors : d # c => due'[d] = due[d] /\ seen'[d] = seen[d] /\ flaw'[d] = flaw[d]
  BY <1>1, <1>2, <1>5
<1>9. /\ length' = length /\ at' = at /\ write' = write /\ found' = found /\ must' = must /\ hasFs' = hasFs
      /\ active' = active /\ frozen' = frozen /\ hurt' = hurt /\ bare' = bare
  BY <1>1 DEF WritesRest
<1>10. ShapeInv'
  <2>1. \A d \in Collectors :
       /\ collector'[d] = [live |-> collector'[d].live, ref |-> collector'[d].ref,
                          fail |-> collector'[d].fail, map |-> collector'[d].map]
       /\ collector'[d].live \in {"no", "yes", "freed"}
       /\ collector'[d].ref \in BOOLEAN /\ collector'[d].fail \in BOOLEAN
    <3> TAKE d \in Collectors
    <3>1. CASE d = c  BY <3>1, <1>7
    <3>2. CASE d # c
      <4>1. collector'[d] = collector[d]  BY <3>2, <1>7
      <4> QED  BY <4>1 DEF ShapeInv
    <3> QED  BY <3>1, <3>2
  <2> QED  BY <1>4, <1>5, <1>7, <1>8, <1>9, <2>1 DEF ShapeInv
<1>11. ListsInv'
  <2>1. \A d \in Collectors : Live(d)' <=> d \in On(active) \cup On(stopped')
    BY <1>3, <1>5, <1>6, <1>7 DEF ListsInv, Live
  <2>2. \A d \in Collectors : collector'[d].ref <=> d \in On(active)
    BY <1>1, <1>6, <1>7 DEF ListsInv
  <2>3. On(active) \cap On(stopped') = {}  BY <1>3, <1>5
  <2> HIDE DEF CollectInv
  <2> QED  BY <1>3, <1>4, <1>5, <1>9, <2>1, <2>2, <2>3 DEF ListsInv, Live
<1>12. \A u \in Writers : at[u] = "segments" =>
         /\ collector'[found[u]].live = "freed" \/ found[u] \in On(active) \cup On(stopped')
         /\ Live(found[u])' => found[u] # c /\ Live(found[u])
  <2> TAKE u \in Writers
  <2> HAVE at[u] = "segments"
  <2>1. /\ found[u] \in Collectors
        /\ collector[found[u]].live = "freed" \/ found[u] \in On(active) \cup On(stopped)
    BY DEF HookInv
  <2>2. CASE found[u] = c
    <3>1. collector'[found[u]].live = "freed"  BY <2>2, <1>7
    <3>2. found' = found  BY <1>9
    <3> QED  BY <3>1, <3>2 DEF Live
  <2>3. CASE found[u] # c  BY <2>1, <2>3, <1>5, <1>7, <1>9 DEF Live
  <2> QED  BY <2>2, <2>3
<1>13. HookInv'
  BY <1>4, <1>9, <1>12 DEF HookInv
<1>14. MustInv'
  <2>1. \A u \in Writers : must[u].c # NoOne =>
          collector'[must[u].c].live = "freed" \/ must[u].c \in On(active) \cup On(stopped')
    <3> TAKE u \in Writers
    <3> HAVE must[u].c # NoOne
    <3>1. /\ must[u].c \in Collectors
          /\ collector[must[u].c].live = "freed" \/ must[u].c \in On(active) \cup On(stopped)
      BY DEF MustInv, ShapeInv
    <3> QED  BY <3>1, <1>5, <1>7
  <2> QED  BY <1>9, <2>1 DEF MustInv, MagicOf, Nothing, NoOne
<1>15. NewMap(length) \in Maps(length)  BY <1>2, MapAssumption
<1>16. SeenInv'
  <2>1. \A d \in Collectors :
       /\ seen'[d] \subseteq Sectors
       /\ d \notin On(active) \cup On(stopped') => due'[d] = {}
       /\ "array" \notin flaw'[d] => collector'[d].map \in Maps(length)
    <3> TAKE d \in Collectors
    <3>1. CASE d = c  BY <3>1, <1>7, <1>8, <1>15
    <3>2. CASE d # c  BY <3>2, <1>5, <1>7, <1>8 DEF SeenInv
    <3> QED  BY <3>1, <3>2
  <2>2. ASSUME NEW u \in Writers, at[u] = "segments", Live(found[u])'
        PROVE  MagicOf(write[u]) \subseteq seen'[found[u]]
    <3>1. found[u] # c /\ Live(found[u]) /\ found[u] \in Collectors
      BY <2>2, <1>12 DEF HookInv
    <3>2. seen'[found[u]] = seen[found[u]]  BY <3>1, <1>8
    <3> QED  BY <3>1, <3>2, <2>2 DEF SeenInv
  <2>3. found' = found  BY <1>9
  <2> QED  BY <1>9, <2>1, <2>2, <2>3 DEF SeenInv, Sectors, Live
<1>17. BitsInv'
  <2>1. On(active) \subseteq Collectors  BY DEF On, ShapeInv
  <2>2. ASSUME length <= Room(length), NEW d \in Collectors, Live(d)'
        PROVE  /\ flaw'[d] \cap {"array", "offset"} = {} => Bits(collector'[d].map) \subseteq seen'[d]
               /\ Pure(d)' => due'[d] \subseteq Bits(collector'[d].map)
    <3>1. d # c  BY <2>2, <1>7 DEF Live
    <3>2. /\ collector'[d] = collector[d] /\ due'[d] = due[d] /\ seen'[d] = seen[d]
          /\ flaw'[d] = flaw[d]
      BY <3>1, <1>7, <1>8
    <3> QED  BY <3>2, <2>2 DEF BitsInv, Live, Pure
  <2>3. \A u \in Writers : must[u].c \in On(active) =>
          collector'[must[u].c] = collector[must[u].c] /\ flaw'[must[u].c] = flaw[must[u].c]
    BY <2>1, <1>6, <1>7, <1>8
  <2> QED  BY <1>9, <2>2, <2>3 DEF BitsInv, Live, Pure, MagicOf
<1> QED  BY <1>10, <1>11, <1>13, <1>14, <1>16, <1>17

-----------------------------------------------------------------------------
(* The steps of a write.                                                   *)

(* What no step of a write touches.                                        *)
ListsRest == UNCHANGED <<length, hasFs, active, stopped, call, frozen, bare>>

(* The lists stay as they are when a write changes what is in a map.       *)
LEMMA ListsStay ==
  ASSUME ListsInv, ListsRest,
         \A c \in Collectors : /\ collector'[c].live = collector[c].live
                               /\ collector'[c].ref = collector[c].ref
  PROVE  ListsInv'
<1>1. active' = active /\ stopped' = stopped /\ call' = call  BY DEF ListsRest
<1>2. \A c \in Collectors : Live(c)' <=> Live(c)  BY DEF Live
<1>3. Starting' = Starting  BY <1>1 DEF Starting
<1>4. \A c \in Collectors : Live(c)' <=> c \in On(active) \cup On(stopped) \cup Starting
  BY <1>2 DEF ListsInv
<1>5. \A c \in Collectors :
        collector'[c].ref <=> c \in On(active) /\ ~(call.at = "stopPut" /\ c = call.c)
  BY DEF ListsInv
<1> QED  BY <1>1, <1>3, <1>4, <1>5 DEF ListsInv, Live

LEMMA EnterKeeps ==
  ASSUME CollectInv, NEW u \in Writers, Enter(u)
  PROVE  CollectInv'
<1> USE DEF CollectInv
<1>1. PICK w \in Writes : /\ \A i \in DOMAIN w : w[i].first + w[i].cnt <= length
                          /\ write' = [write EXCEPT ![u] = w]
  BY DEF Enter
<1>2. /\ at[u] = "idle" /\ ~frozen /\ at' = [at EXCEPT ![u] = "find"]
      /\ must' = [must EXCEPT ![u] = [c |-> IF active = <<>> THEN NoOne ELSE Head(active),
                                      what |-> MagicOf(write'[u])]]
      /\ UNCHANGED <<collector, found, due, seen, flaw, hurt>> /\ ListsRest
  BY DEF Enter, ListsRest, blockDevice, listVars, historyVars
<1>3. /\ at \in [Writers -> {"idle", "find", "segments", "submit"}]
      /\ write \in [Writers -> Seq(Segments)]
      /\ must \in [Writers -> [c : Collectors \cup {NoOne}, what : SUBSET Nat]]
      /\ active \in Seq(Collectors) /\ stopped \in Seq(Collectors)
  BY DEF ShapeInv
<1>4. /\ w \in Seq(Segments) /\ w # <<>>
      /\ \A i \in DOMAIN w : w[i].magic \subseteq 0 .. w[i].cnt - 1
  BY CollectAssumption
<1>5. /\ write'[u] = w /\ at'[u] = "find"
      /\ \A v \in Writers : v # u => write'[v] = write[v] /\ at'[v] = at[v] /\ must'[v] = must[v]
      /\ must'[u] = [c |-> IF active = <<>> THEN NoOne ELSE Head(active), what |-> MagicOf(w)]
      /\ write' \in [Writers -> Seq(Segments)]
      /\ at' \in [Writers -> {"idle", "find", "segments", "submit"}]
  BY <1>1, <1>2, <1>3, <1>4
<1>6. MagicOf(w) \subseteq Nat
  <2>1. length \in Nat  BY LengthNat
  <2>2. MagicOf(w) \subseteq Sectors  BY <1>1, <1>4, <2>1, MagicBound
  <2> QED  BY <2>1, <2>2 DEF Sectors
<1>7. active # <<>> => Head(active) \in On(active) /\ Head(active) \in Collectors
  BY <1>3, OnTail DEF ListsInv
<1>8. /\ length' = length /\ hasFs' = hasFs /\ active' = active /\ stopped' = stopped
      /\ collector' = collector /\ call' = call /\ frozen' = frozen /\ bare' = bare /\ hurt' = hurt
      /\ found' = found /\ due' = due /\ seen' = seen /\ flaw' = flaw
  BY <1>2 DEF ListsRest
<1>9. must' \in [Writers -> [c : Collectors \cup {NoOne}, what : SUBSET Nat]]
  <2>1. must'[u] \in [c : Collectors \cup {NoOne}, what : SUBSET Nat]  BY <1>5, <1>6, <1>7
  <2> QED  BY <2>1, <1>2, <1>3
<1>10. ShapeInv'  BY <1>5, <1>8, <1>9 DEF ShapeInv
<1>11. ListsInv'  BY <1>2, <1>8, ListsStay
<1>12. HookInv'
  <2>1. \A v \in Writers : at'[v] = "segments" => at[v] = "segments" /\ write'[v] = write[v]
    BY <1>5
  <2>2. call.at \in {"stopPut", "stopThaw"} => bare  BY <1>2 DEF HookInv
  <2>3. \A v \in Writers : \A i \in DOMAIN write'[v] :
          /\ write'[v][i].magic \subseteq 0 .. write'[v][i].cnt - 1
          /\ write'[v][i].first + write'[v][i].cnt <= length
    <3> TAKE v \in Writers
    <3>1. CASE v = u  BY <3>1, <1>1, <1>4, <1>5
    <3>2. CASE v # u
      <4>1. write'[v] = write[v]  BY <3>2, <1>5
      <4> QED  BY <4>1 DEF HookInv
    <3> QED  BY <3>1, <3>2
  <2>4. \A v \in Writers : at'[v] \in {"find", "segments"} => write'[v] # <<>>
    <3> TAKE v \in Writers
    <3>1. CASE v = u  BY <3>1, <1>4, <1>5
    <3>2. CASE v # u  BY <3>2, <1>5 DEF HookInv
    <3> QED  BY <3>1, <3>2
  <2> QED  BY <1>8, <2>1, <2>2, <2>3, <2>4 DEF HookInv
<1>13. MustInv'
  <2> SUFFICES ASSUME NEW v \in Writers
               PROVE  /\ must'[v].c # NoOne => collector[must'[v].c].live = "freed"
                                                \/ must'[v].c \in On(active) \cup On(stopped)
                      /\ must'[v].c \in On(active) => must'[v].c = Head(active)
                      /\ at'[v] = "idle" => must'[v] = Nothing
                      /\ at'[v] = "find" => must'[v].what = MagicOf(write'[v])
                      /\ at'[v] = "segments" /\ must'[v].c \in On(active) => found[v] = must'[v].c
    BY <1>8 DEF MustInv, MagicOf, Nothing, NoOne
  <2>1. CASE v = u
    <3>1. active = <<>> => must'[u].c = NoOne /\ NoOne \notin On(active)
      BY <1>5, OnEmpty
    <3> QED  BY <2>1, <3>1, <1>5, <1>7
  <2>2. CASE v # u
    <3>1. must'[v] = must[v] /\ at'[v] = at[v] /\ write'[v] = write[v]  BY <2>2, <1>5
    <3> QED  BY <3>1 DEF MustInv
  <2> QED  BY <2>1, <2>2
<1>14. SeenInv'
  <2>1. \A v \in Writers : at'[v] = "segments" => at[v] = "segments" /\ write'[v] = write[v]
    BY <1>5
  <2> QED  BY <1>8, <2>1 DEF SeenInv, Live, Sectors
<1>15. BitsInv'
  <2>1. \A v \in Writers : at'[v] \in {"segments", "submit"} =>
          at'[v] = at[v] /\ write'[v] = write[v] /\ must'[v] = must[v]
    BY <1>5
  <2> HIDE DEF CollectInv
  <2>2. BitsInv  BY DEF CollectInv
  <2> QED  BY <1>8, <2>1, <2>2 DEF BitsInv, Live, Pure
<1> QED  BY <1>10, <1>11, <1>12, <1>13, <1>14, <1>15

LEMMA FindKeeps ==
  ASSUME CollectInv, NEW u \in Writers, Find(u)
  PROVE  CollectInv'
<1> USE DEF CollectInv
<1> DEFINE c == Head(active)
<1>1. /\ at[u] = "find"
      /\ write' = write /\ must' = must /\ due' = due /\ flaw' = flaw /\ hurt' = hurt
      /\ collector' = collector /\ ListsRest
  BY DEF Find, ListsRest, blockDevice, listVars
<1>2. /\ at \in [Writers -> {"idle", "find", "segments", "submit"}]
      /\ found \in [Writers -> Collectors \cup {NoOne}]
      /\ write \in [Writers -> Seq(Segments)]
      /\ seen \in [Collectors -> SUBSET Nat]
      /\ active \in Seq(Collectors)
      /\ length \in Nat
  BY LengthNat DEF ShapeInv
<1>3. /\ length' = length /\ hasFs' = hasFs /\ active' = active /\ stopped' = stopped
      /\ call' = call /\ frozen' = frozen /\ bare' = bare
  BY <1>1 DEF ListsRest
<1>4. MagicOf(write[u]) \subseteq Sectors  BY <1>2, MagicBound DEF HookInv
<1>5. Sectors \subseteq Nat  BY <1>2 DEF Sectors
<1>6. active # <<>> => c \in On(active) /\ c \in Collectors
  BY <1>2, OnTail DEF ListsInv
<1>7. CASE active = <<>> \/ collector[c].fail
  <2>1. at' = [at EXCEPT ![u] = "submit"] /\ found' = found /\ seen' = seen
    BY <1>7 DEF Find
  <2>2. /\ at' \in [Writers -> {"idle", "find", "segments", "submit"}] /\ at'[u] = "submit"
        /\ \A v \in Writers : v # u => at'[v] = at[v]
    BY <2>1, <1>2
  <2>3. ShapeInv'  BY <1>1, <1>3, <2>1, <2>2 DEF ShapeInv
  <2>4. ListsInv'  BY <1>1, ListsStay
  <2>5. HookInv'
    <3>1. \A v \in Writers : at'[v] \in {"find", "segments"} => at'[v] = at[v]  BY <2>2
    <3>2. call.at \in {"stopPut", "stopThaw"} => bare  BY <1>1 DEF HookInv
    <3> QED  BY <1>1, <1>3, <2>1, <3>1, <3>2 DEF HookInv
  <2>6. MustInv'
    <3>1. \A v \in Writers : at'[v] \in {"idle", "find", "segments"} => at'[v] = at[v]  BY <2>2
    <3> QED  BY <1>1, <1>3, <2>1, <3>1 DEF MustInv, MagicOf, Nothing, NoOne
  <2>7. SeenInv'
    <3>1. \A v \in Writers : at'[v] = "segments" => at[v] = "segments"  BY <2>2
    <3> QED  BY <1>1, <1>3, <2>1, <3>1 DEF SeenInv, Live, Sectors
  <2>8. BitsInv'
    <3>1. must[u].c \in On(active) => ~Pure(must[u].c)
      <4>1. must[u].c \in On(active) => must[u].c = c /\ active # <<>>  BY OnEmpty DEF MustInv
      <4> QED  BY <4>1, <1>7 DEF Pure
    <3>2. \A v \in Writers : v # u => at'[v] = at[v]  BY <2>2
    <3>3. at'[u] = "submit"  BY <2>2
    <3>4. BitsInv  OBVIOUS
    <3> HIDE DEF CollectInv, c
    <3>5. ASSUME length <= Room(length), NEW v \in Writers, must[v].c \in On(active), Pure(must[v].c)
          PROVE  /\ at'[v] = "segments" =>
                      must[v].what \subseteq Bits(collector[must[v].c].map) \cup MagicOf(write[v])
                 /\ at'[v] = "submit" => must[v].what \subseteq Bits(collector[must[v].c].map)
      <4>1. v # u  BY <3>1, <3>5
      <4> QED  BY <4>1, <3>2, <3>4, <3>5 DEF BitsInv
    <3>6. length <= Room(length) => \A d \in Collectors : Live(d) =>
            /\ flaw[d] \cap {"array", "offset"} = {} => Bits(collector[d].map) \subseteq seen[d]
            /\ Pure(d) => due[d] \subseteq Bits(collector[d].map)
      BY <3>4 DEF BitsInv
    <3> QED  BY <1>1, <1>3, <2>1, <3>5, <3>6 DEF BitsInv, Live, Pure
  <2> QED  BY <2>3, <2>4, <2>5, <2>6, <2>7, <2>8
<1>8. CASE active # <<>> /\ ~collector[c].fail
  <2>1. /\ at' = [at EXCEPT ![u] = "segments"] /\ found' = [found EXCEPT ![u] = c]
        /\ seen' = [seen EXCEPT ![c] = @ \cup MagicOf(write[u])]
    BY <1>8 DEF Find
  <2>2. c \in On(active) /\ c \in Collectors  BY <1>6, <1>8
  <2> HIDE DEF c
  <2>3. /\ at' \in [Writers -> {"idle", "find", "segments", "submit"}] /\ at'[u] = "segments"
        /\ \A v \in Writers : v # u => at'[v] = at[v] /\ found'[v] = found[v]
        /\ found' \in [Writers -> Collectors \cup {NoOne}] /\ found'[u] = c
        /\ seen' \in [Collectors -> SUBSET Nat]
        /\ \A d \in Collectors : seen[d] \subseteq seen'[d]
        /\ seen'[c] = seen[c] \cup MagicOf(write[u])
        /\ \A d \in Collectors : d # c => seen'[d] = seen[d]
    BY <2>1, <2>2, <1>2, <1>4, <1>5
  <2>4. ShapeInv'  BY <1>1, <1>3, <2>3 DEF ShapeInv
  <2>5. ListsInv'  BY <1>1, ListsStay
  <2>6. HookInv'
    <3>1. write[u] # <<>>  BY <1>1 DEF HookInv
    <3>2. call.at \in {"stopPut", "stopThaw"} => bare  BY <1>1 DEF HookInv
    <3>3. \A v \in Writers : at'[v] = "segments" =>
            /\ found'[v] \in Collectors
            /\ bare \/ found'[v] \in On(active)
            /\ collector[found'[v]].live = "freed" \/ found'[v] \in On(active) \cup On(stopped)
      <4> TAKE v \in Writers
      <4>1. CASE v = u  BY <4>1, <3>1, <2>2, <2>3
      <4>2. CASE v # u
        <5>1. at'[v] = at[v] /\ found'[v] = found[v]  BY <4>2, <2>3
        <5> QED  BY <5>1 DEF HookInv
      <4> QED  BY <4>1, <4>2
    <3>4. \A v \in Writers : at'[v] \in {"find", "segments"} => write[v] # <<>>
      BY <3>1, <2>3 DEF HookInv
    <3> QED  BY <1>1, <1>3, <3>2, <3>3, <3>4 DEF HookInv
  <2>7. MustInv'
    <3>1. must[u].c \in On(active) => must[u].c = c  BY DEF MustInv, c
    <3>2. \A v \in Writers : at'[v] \in {"idle", "find"} => at'[v] = at[v]  BY <2>3
    <3>3. \A v \in Writers : at'[v] = "segments" /\ must[v].c \in On(active) => found'[v] = must[v].c
      <4> TAKE v \in Writers
      <4>1. CASE v = u  BY <4>1, <3>1, <2>3
      <4>2. CASE v # u
        <5>1. at'[v] = at[v] /\ found'[v] = found[v]  BY <4>2, <2>3
        <5> QED  BY <5>1 DEF MustInv
      <4> QED  BY <4>1, <4>2
    <3> QED  BY <1>1, <1>3, <3>2, <3>3 DEF MustInv, MagicOf, Nothing, NoOne
  <2>8. SeenInv'
    <3>1. \A d \in Collectors : /\ seen'[d] \subseteq Sectors
                                /\ d \notin On(active) \cup On(stopped) => due[d] = {}
                                /\ "array" \notin flaw[d] => collector[d].map \in Maps(length)
      <4> TAKE d \in Collectors
      <4>1. CASE d = c  BY <4>1, <2>3, <1>4 DEF SeenInv
      <4>2. CASE d # c
        <5>1. seen'[d] = seen[d]  BY <4>2, <2>3
        <5> QED  BY <5>1 DEF SeenInv
      <4> QED  BY <4>1, <4>2
    <3>2. \A v \in Writers : at'[v] = "segments" /\ Live(found'[v]) => MagicOf(write[v]) \subseteq seen'[found'[v]]
      <4> TAKE v \in Writers
      <4>1. CASE v = u  BY <4>1, <2>3
      <4>2. CASE v # u
        <5>1. at'[v] = at[v] /\ found'[v] = found[v]  BY <4>2, <2>3
        <5>2. at[v] = "segments" => found[v] \in Collectors  BY DEF HookInv
        <5>3. at[v] = "segments" /\ Live(found[v]) => MagicOf(write[v]) \subseteq seen[found[v]]
          BY DEF SeenInv
        <5> QED  BY <5>1, <5>2, <5>3, <2>3
      <4> QED  BY <4>1, <4>2
    <3> QED  BY <1>1, <1>3, <3>1, <3>2 DEF SeenInv, Live, Sectors
  <2>9. BitsInv'
    <3>1. BitsInv  OBVIOUS
    <3>2. must[u].what = MagicOf(write[u])  BY <1>1 DEF MustInv
    <3> HIDE DEF CollectInv, c
    <3>3. ASSUME length <= Room(length), NEW v \in Writers, must[v].c \in On(active), Pure(must[v].c)
          PROVE  /\ at'[v] = "segments" =>
                      must[v].what \subseteq Bits(collector[must[v].c].map) \cup MagicOf(write[v])
                 /\ at'[v] = "submit" => must[v].what \subseteq Bits(collector[must[v].c].map)
      <4>1. CASE v = u  BY <4>1, <2>3, <3>2
      <4>2. CASE v # u
        <5>1. at'[v] = at[v]  BY <4>2, <2>3
        <5> QED  BY <5>1, <3>1, <3>3 DEF BitsInv
      <4> QED  BY <4>1, <4>2
    <3>4. length <= Room(length) => \A d \in Collectors : Live(d) =>
            /\ flaw[d] \cap {"array", "offset"} = {} => Bits(collector[d].map) \subseteq seen'[d]
            /\ Pure(d) => due[d] \subseteq Bits(collector[d].map)
      BY <3>1, <2>3 DEF BitsInv
    <3> QED  BY <1>1, <1>3, <3>3, <3>4 DEF BitsInv, Live, Pure
  <2> QED  BY <2>4, <2>5, <2>6, <2>7, <2>8, <2>9
<1> QED  BY <1>7, <1>8

(* What a write leaves alone that works on a segment.                      *)
SegmentRest ==
  ListsRest /\ UNCHANGED <<found, must, due, seen>>

(* A write comes to its next segment.                                      *)
LEMMA Advances ==
  ASSUME CollectInv, NEW u \in Writers, at[u] = "segments", Advance(u)
  PROVE  /\ write' \in [Writers -> Seq(Segments)]
         /\ at' \in [Writers -> {"idle", "find", "segments", "submit"}]
         /\ write'[u] = Tail(write[u])
         /\ \A v \in Writers : v # u => write'[v] = write[v] /\ at'[v] = at[v]
         /\ at'[u] \in {"segments", "submit"}
         /\ at'[u] = "segments" => write'[u] # <<>>
         /\ at'[u] = "submit" => write'[u] = <<>>
         /\ \A i \in DOMAIN write'[u] :
              /\ write'[u][i].magic \subseteq 0 .. write'[u][i].cnt - 1
              /\ write'[u][i].first + write'[u][i].cnt <= length
<1> DEFINE w == write[u]
<1>1. /\ write \in [Writers -> Seq(Segments)]
      /\ at \in [Writers -> {"idle", "find", "segments", "submit"}]
      /\ w # <<>>
  BY DEF CollectInv, ShapeInv, HookInv
<1>2. /\ write' = [write EXCEPT ![u] = Tail(write[u])]
      /\ at' = [at EXCEPT ![u] = IF Len(write[u]) = 1 THEN "submit" ELSE "segments"]
  BY DEF Advance
<1>3. w \in Seq(Segments)  BY <1>1
<1>4. \A i \in DOMAIN w : /\ w[i].magic \subseteq 0 .. w[i].cnt - 1
                          /\ w[i].first + w[i].cnt <= length
  BY DEF CollectInv, HookInv
<1> HIDE DEF w
<1>5. /\ Tail(w) \in Seq(Segments)
      /\ Len(w) = 1 => Tail(w) = <<>>
      /\ Len(w) # 1 => Tail(w) # <<>>
  <2>1. /\ Len(w) \in Nat /\ Len(w) >= 1 /\ Tail(w) \in Seq(Segments) /\ Len(Tail(w)) = Len(w) - 1
    BY <1>1, <1>3
  <2>2. Tail(w) = <<>> <=> Len(Tail(w)) = 0  BY <2>1, EmptySeq
  <2> QED  BY <2>1, <2>2
<1>6. \A i \in DOMAIN Tail(w) : i + 1 \in DOMAIN w /\ Tail(w)[i] = w[i + 1]
  BY <1>1, <1>3
<1>7. write'[u] = Tail(w) /\ \A v \in Writers : v # u => write'[v] = write[v] /\ at'[v] = at[v]
  BY <1>1, <1>2 DEF w
<1>8. /\ write' \in [Writers -> Seq(Segments)]
      /\ at' \in [Writers -> {"idle", "find", "segments", "submit"}]
      /\ at'[u] = IF Len(w) = 1 THEN "submit" ELSE "segments"
  BY <1>1, <1>2, <1>5 DEF w
<1>9. \A i \in DOMAIN Tail(w) : /\ Tail(w)[i].magic \subseteq 0 .. Tail(w)[i].cnt - 1
                                /\ Tail(w)[i].first + Tail(w)[i].cnt <= length
  BY <1>4, <1>6
<1> QED  BY <1>5, <1>7, <1>8, <1>9 DEF w

(* What the hook and the lists say holds after a step of a write that is   *)
(* at its segments.                                                        *)
LEMMA SegmentKeeps ==
  ASSUME CollectInv, NEW u \in Writers, at[u] = "segments", SegmentRest,
         at' \in [Writers -> {"idle", "find", "segments", "submit"}],
         write' \in [Writers -> Seq(Segments)],
         at'[u] \in {"segments", "submit"}, at'[u] = "segments" => write'[u] # <<>>,
         \A v \in Writers : v # u => write'[v] = write[v] /\ at'[v] = at[v],
         \A i \in DOMAIN write'[u] :
              /\ write'[u][i].magic \subseteq 0 .. write'[u][i].cnt - 1
              /\ write'[u][i].first + write'[u][i].cnt <= length,
         \A c \in Collectors : /\ collector'[c].live = collector[c].live
                               /\ collector'[c].ref = collector[c].ref,
         hurt' \in BOOLEAN, hurt' => hurt \/ ~Live(found[u])
  PROVE  ListsInv' /\ HookInv' /\ MustInv'
<1> USE DEF CollectInv
<1>1. /\ length' = length /\ hasFs' = hasFs /\ active' = active /\ stopped' = stopped
      /\ call' = call /\ frozen' = frozen /\ bare' = bare
      /\ found' = found /\ must' = must /\ due' = due /\ seen' = seen
  BY DEF SegmentRest, ListsRest
<1>2. ListsInv'
  <2>1. ListsRest  BY DEF SegmentRest
  <2>2. ListsInv  OBVIOUS
  <2> HIDE DEF CollectInv
  <2> QED  BY <2>1, <2>2, ListsStay
<1>3. HookInv'
  <2>1. \A v \in Writers : at'[v] = "segments" => at[v] = "segments"  OBVIOUS
  <2>2. call.at \in {"stopPut", "stopThaw"} => bare  BY DEF HookInv
  <2>3. hurt' => bare
    <3>1. hurt => bare  BY DEF HookInv
    <3>2. bare \/ found[u] \in On(active)  BY DEF HookInv
    <3>3. found[u] \in Collectors  BY DEF HookInv
    <3>4. found[u] \in On(active) => Live(found[u])  BY <3>3 DEF ListsInv
    <3> QED  BY <3>1, <3>2, <3>4
  <2>4. \A v \in Writers : at'[v] \in {"find", "segments"} => write'[v] # <<>>
    <3> TAKE v \in Writers
    <3>1. CASE v = u  BY <3>1
    <3>2. CASE v # u  BY <3>2 DEF HookInv
    <3> QED  BY <3>1, <3>2
  <2>5. \A v \in Writers : \A i \in DOMAIN write'[v] :
          /\ write'[v][i].magic \subseteq 0 .. write'[v][i].cnt - 1
          /\ write'[v][i].first + write'[v][i].cnt <= length
    <3> TAKE v \in Writers
    <3>1. CASE v = u  BY <3>1
    <3>2. CASE v # u
      <4>1. write'[v] = write[v]  BY <3>2
      <4> QED  BY <4>1 DEF HookInv
    <3> QED  BY <3>1, <3>2
  <2>6. \A v \in Writers : at[v] = "segments" =>
       /\ found[v] \in Collectors
       /\ bare \/ found[v] \in On(active)
       /\ collector'[found[v]].live = "freed" \/ found[v] \in On(active) \cup On(stopped)
    BY DEF HookInv
  <2> HIDE DEF CollectInv
  <2> QED  BY <1>1, <2>1, <2>2, <2>3, <2>4, <2>5, <2>6 DEF HookInv
<1>4. MustInv'
  <2>1. \A v \in Writers : must[v].c \in Collectors \cup {NoOne}  BY DEF ShapeInv
  <2>2. \A v \in Writers : must[v].c # NoOne => collector'[must[v].c].live = collector[must[v].c].live
    BY <2>1
  <2>3. \A v \in Writers : at'[v] \in {"idle", "find"} => at'[v] = at[v] /\ write'[v] = write[v]
    OBVIOUS
  <2>4. \A v \in Writers : at'[v] = "segments" => at[v] = "segments"  OBVIOUS
  <2>5. MustInv  OBVIOUS
  <2> HIDE DEF CollectInv
  <2>6. ASSUME NEW v \in Writers
        PROVE  /\ must[v].c # NoOne => collector'[must[v].c].live = "freed"
                                        \/ must[v].c \in On(active) \cup On(stopped)
               /\ must[v].c \in On(active) => must[v].c = Head(active)
               /\ at'[v] = "idle" => must[v] = Nothing
               /\ at'[v] = "find" => must[v].what = MagicOf(write'[v])
               /\ at'[v] = "segments" /\ must[v].c \in On(active) => found[v] = must[v].c
    BY <2>2, <2>3, <2>4, <2>5 DEF MustInv
  <2> QED  BY <1>1, <2>6 DEF MustInv, MagicOf, Nothing, NoOne
<1> QED  BY <1>2, <1>3, <1>4

(* The collector is gone: a collector that has to see the write is not.    *)
LEMMA LostKeeps ==
  ASSUME CollectInv, NEW u \in Writers, Collect(u), ~Live(found[u])
  PROVE  CollectInv'
<1> USE DEF CollectInv
<1>1. /\ at[u] = "segments" /\ SegmentRest /\ hurt' = TRUE /\ Advance(u)
      /\ collector' = collector /\ flaw' = flaw
  BY DEF Collect, SegmentRest, ListsRest, blockDevice
<1>2. /\ write' \in [Writers -> Seq(Segments)]
      /\ at' \in [Writers -> {"idle", "find", "segments", "submit"}]
      /\ write'[u] = Tail(write[u])
      /\ \A v \in Writers : v # u => write'[v] = write[v] /\ at'[v] = at[v]
      /\ at'[u] \in {"segments", "submit"}
      /\ at'[u] = "segments" => write'[u] # <<>>
      /\ \A i \in DOMAIN write'[u] :
              /\ write'[u][i].magic \subseteq 0 .. write'[u][i].cnt - 1
              /\ write'[u][i].first + write'[u][i].cnt <= length
  BY <1>1, Advances
<1>3. /\ length' = length /\ hasFs' = hasFs /\ active' = active /\ stopped' = stopped
      /\ call' = call /\ frozen' = frozen /\ bare' = bare
      /\ found' = found /\ must' = must /\ due' = due /\ seen' = seen
  BY <1>1 DEF SegmentRest, ListsRest
<1>4. ShapeInv'  BY <1>1, <1>2, <1>3 DEF ShapeInv
<1>5. ListsInv' /\ HookInv' /\ MustInv'
  BY <1>1, <1>2, SegmentKeeps
<1>6. \A v \in Writers : at'[v] = "segments" /\ v # u => at[v] = "segments" /\ write'[v] = write[v]
  BY <1>2
<1>7. SeenInv'
  <2>1. SeenInv  OBVIOUS
  <2> HIDE DEF CollectInv
  <2> QED  BY <1>1, <1>3, <1>6, <2>1 DEF SeenInv, Live, Sectors
<1>8. must[u].c \notin On(active)
  <2>1. must[u].c \in On(active) => found[u] = must[u].c  BY <1>1 DEF MustInv
  <2>2. found[u] \in Collectors  BY <1>1 DEF HookInv
  <2>3. found[u] \in On(active) => Live(found[u])  BY <2>2 DEF ListsInv
  <2> QED  BY <2>1, <2>3
<1>9. BitsInv'
  <2>1. BitsInv  OBVIOUS
  <2>2. \A v \in Writers : must[v].c \in On(active) => v # u  BY <1>8
  <2> HIDE DEF CollectInv
  <2> QED  BY <1>1, <1>2, <1>3, <2>1, <2>2 DEF BitsInv, Live, Pure
<1> QED  BY <1>4, <1>5, <1>7, <1>9

(* A segment is too long: the collector fails.                             *)
LEMMA TooLongKeeps ==
  ASSUME CollectInv, NEW u \in Writers, Collect(u), Live(found[u]), Head(write[u]).cnt > MapBits
  PROVE  CollectInv'
<1> USE DEF CollectInv
<1> DEFINE c == found[u]
<1>1. /\ at[u] = "segments" /\ SegmentRest
      /\ collector' = [collector EXCEPT ![c].fail = TRUE]
      /\ at' = [at EXCEPT ![u] = "submit"]
      /\ write' = write /\ flaw' = flaw /\ hurt' = hurt
  BY DEF Collect, SegmentRest, ListsRest, blockDevice
<1>2. /\ at \in [Writers -> {"idle", "find", "segments", "submit"}]
      /\ write \in [Writers -> Seq(Segments)]
      /\ collector = [d \in Collectors |-> collector[d]]
      /\ hurt \in BOOLEAN
  BY DEF ShapeInv
<1>3. /\ length' = length /\ hasFs' = hasFs /\ active' = active /\ stopped' = stopped
      /\ call' = call /\ frozen' = frozen /\ bare' = bare
      /\ found' = found /\ must' = must /\ due' = due /\ seen' = seen
  BY <1>1 DEF SegmentRest, ListsRest
<1>4. c \in Collectors  BY <1>1 DEF HookInv
<1>5. must[u].c \in On(active) => must[u].c = c  BY <1>1 DEF MustInv
<1> HIDE DEF c
<1>6. /\ collector[c] = [live |-> collector[c].live, ref |-> collector[c].ref,
                         fail |-> collector[c].fail, map |-> collector[c].map]
  BY <1>4 DEF ShapeInv
<1>7. /\ collector' = [d \in Collectors |-> collector'[d]]
      /\ collector'[c] = [live |-> collector[c].live, ref |-> collector[c].ref,
                          fail |-> TRUE, map |-> collector[c].map]
      /\ \A d \in Collectors : d # c => collector'[d] = collector[d]
  BY <1>1, <1>2, <1>4, <1>6
<1>8. \A d \in Collectors : /\ collector'[d].live = collector[d].live
                            /\ collector'[d].ref = collector[d].ref
                            /\ collector'[d].map = collector[d].map
                            /\ ~collector'[d].fail => ~collector[d].fail /\ d # c
  <2> TAKE d \in Collectors
  <2>1. CASE d = c  BY <2>1, <1>7
  <2>2. CASE d # c  BY <2>2, <1>7
  <2> QED  BY <2>1, <2>2
<1>9. /\ at' \in [Writers -> {"idle", "find", "segments", "submit"}] /\ at'[u] = "submit"
      /\ \A v \in Writers : v # u => at'[v] = at[v]
  BY <1>1, <1>2
<1>10. ShapeInv'
  <2>1. \A d \in Collectors :
       /\ collector'[d] = [live |-> collector'[d].live, ref |-> collector'[d].ref,
                          fail |-> collector'[d].fail, map |-> collector'[d].map]
       /\ collector'[d].live \in {"no", "yes", "freed"}
       /\ collector'[d].ref \in BOOLEAN /\ collector'[d].fail \in BOOLEAN
    <3> TAKE d \in Collectors
    <3>1. CASE d = c
      <4>1. collector[c].live \in {"no", "yes", "freed"} /\ collector[c].ref \in BOOLEAN
        BY <1>4 DEF ShapeInv
      <4> QED  BY <3>1, <1>7, <4>1
    <3>2. CASE d # c
      <4>1. collector'[d] = collector[d]  BY <3>2, <1>7
      <4> QED  BY <4>1 DEF ShapeInv
    <3> QED  BY <3>1, <3>2
  <2> QED  BY <1>1, <1>3, <1>7, <1>9, <2>1 DEF ShapeInv
<1>11. \A i \in DOMAIN write'[u] :
              /\ write'[u][i].magic \subseteq 0 .. write'[u][i].cnt - 1
              /\ write'[u][i].first + write'[u][i].cnt <= length
  BY <1>1 DEF HookInv
<1>12. ListsInv' /\ HookInv' /\ MustInv'
  BY <1>1, <1>2, <1>8, <1>9, <1>11, SegmentKeeps
<1>13. \A d \in Collectors : /\ Live(d)' <=> Live(d)
                             /\ Pure(d)' => Pure(d) /\ d # c
  BY <1>1, <1>8 DEF Live, Pure
<1>14. SeenInv'
  <2>1. SeenInv  OBVIOUS
  <2>2. \A v \in Writers : at'[v] = "segments" => at[v] = "segments" /\ found[v] \in Collectors
    BY <1>9 DEF HookInv
  <2>3. \A d \in Collectors : collector'[d].live = collector[d].live /\ collector'[d].map = collector[d].map
    BY <1>8
  <2> HIDE DEF CollectInv
  <2>4. \A d \in Collectors : /\ seen[d] \subseteq Sectors
                              /\ d \notin On(active) \cup On(stopped) => due[d] = {}
                              /\ "array" \notin flaw[d] => collector'[d].map \in Maps(length)
    BY <2>1, <2>3 DEF SeenInv
  <2>5. ASSUME NEW v \in Writers, at'[v] = "segments", collector'[found[v]].live = "yes"
        PROVE  MagicOf(write[v]) \subseteq seen[found[v]]
    <3>1. at[v] = "segments" /\ Live(found[v])  BY <2>2, <2>3, <2>5 DEF Live
    <3> QED  BY <2>1, <3>1 DEF SeenInv
  <2> QED  BY <1>1, <1>3, <2>4, <2>5 DEF SeenInv, Live, Sectors
<1>15. BitsInv'
  <2>1. BitsInv  OBVIOUS
  <2>2. On(active) \subseteq Collectors  BY DEF ShapeInv, On
  <2> HIDE DEF CollectInv
  <2>3. ASSUME length <= Room(length), NEW d \in Collectors, Live(d)'
        PROVE  /\ flaw[d] \cap {"array", "offset"} = {} => Bits(collector'[d].map) \subseteq seen[d]
               /\ Pure(d)' => due[d] \subseteq Bits(collector'[d].map)
    <3>1. Live(d) /\ (Pure(d)' => Pure(d)) /\ collector'[d].map = collector[d].map
      BY <2>3, <1>8, <1>13
    <3> QED  BY <3>1, <2>1, <2>3 DEF BitsInv
  <2>4. ASSUME length <= Room(length), NEW v \in Writers, must[v].c \in On(active), Pure(must[v].c)'
        PROVE  /\ v # u /\ must[v].c \in Collectors /\ Pure(must[v].c)
               /\ at[v] = "segments" =>
                    must[v].what \subseteq Bits(collector'[must[v].c].map) \cup MagicOf(write[v])
               /\ at[v] = "submit" => must[v].what \subseteq Bits(collector'[must[v].c].map)
    <3>1. must[v].c \in Collectors  BY <2>2, <2>4
    <3>2. Pure(must[v].c) /\ must[v].c # c /\ collector'[must[v].c].map = collector[must[v].c].map
      <4>1. PICK d \in Collectors : d = must[v].c  BY <3>1
      <4>2. must' = must  BY <1>3
      <4>3. Pure(d)'  BY <2>4, <4>1, <4>2 DEF Pure
      <4> QED  BY <4>1, <4>3, <1>8, <1>13
    <3>3. v # u  BY <2>4, <3>2, <1>5
    <3> QED  BY <3>1, <3>2, <3>3, <2>1, <2>4 DEF BitsInv
  <2>5. \A v \in Writers : v # u => at'[v] = at[v]  BY <1>9
  <2> QED  BY <1>1, <1>3, <2>3, <2>4, <2>5 DEF BitsInv, Live, Pure
<1> QED  BY <1>10, <1>12, <1>14, <1>15

(* The sectors of a segment are set in the bitmap.                         *)
LEMMA SetKeeps ==
  ASSUME CollectInv, NEW u \in Writers, Collect(u), Live(found[u]), ~(Head(write[u]).cnt > MapBits)
  PROVE  CollectInv'
<1> DEFINE c == found[u]
           seg == Head(write[u])
           tree == collector[c].map
<1>1. PICK lack \in LacksIn(length) :
        /\ collector' = [collector EXCEPT ![c].map = SetAll(collector[c].map, seg, lack).map]
        /\ flaw' = [flaw EXCEPT ![c] = @ \cup ({SetAll(collector[c].map, seg, lack).res} \ {"ok"})
                                         \cup (IF seg.off > 0 THEN {"offset"} ELSE {})]
        /\ Advance(u) /\ hurt' = hurt
  BY DEF Collect
<1> DEFINE set == SetAll(tree, seg, lack)
<1>2. at[u] = "segments" /\ SegmentRest
  BY DEF Collect, SegmentRest, ListsRest, blockDevice
<1> USE DEF CollectInv
<1>3. /\ at \in [Writers -> {"idle", "find", "segments", "submit"}]
      /\ write \in [Writers -> Seq(Segments)]
      /\ collector = [d \in Collectors |-> collector[d]]
      /\ flaw = [d \in Collectors |-> flaw[d]]
      /\ length \in Lengths /\ length \in Nat
      /\ hurt \in BOOLEAN
  BY LengthNat DEF ShapeInv
<1>4. /\ length' = length /\ hasFs' = hasFs /\ active' = active /\ stopped' = stopped
      /\ call' = call /\ frozen' = frozen /\ bare' = bare
      /\ found' = found /\ must' = must /\ due' = due /\ seen' = seen
  BY <1>2 DEF SegmentRest, ListsRest
<1>5. c \in Collectors /\ Live(c)  BY <1>2 DEF HookInv
<1>6. must[u].c \in On(active) => must[u].c = c  BY <1>2 DEF MustInv
<1>7. write[u] \in Seq(Segments) /\ write[u] # <<>>  BY <1>2, <1>3 DEF HookInv
<1>8. /\ seg \in Segments
      /\ MagicOf(write[u]) = {seg.first + s : s \in seg.magic} \cup MagicOf(Tail(write[u]))
  BY <1>7, MagicSplit
<1>9. seg.magic \subseteq 0 .. seg.cnt - 1
  <2>1. 1 \in DOMAIN write[u] /\ seg = write[u][1]  BY <1>7
  <2> QED  BY <2>1 DEF HookInv
<1>10. /\ write' \in [Writers -> Seq(Segments)]
       /\ at' \in [Writers -> {"idle", "find", "segments", "submit"}]
       /\ write'[u] = Tail(write[u])
       /\ \A v \in Writers : v # u => write'[v] = write[v] /\ at'[v] = at[v]
       /\ at'[u] \in {"segments", "submit"}
       /\ at'[u] = "segments" => write'[u] # <<>>
       /\ at'[u] = "submit" => write'[u] = <<>>
       /\ \A i \in DOMAIN write'[u] :
              /\ write'[u][i].magic \subseteq 0 .. write'[u][i].cnt - 1
              /\ write'[u][i].first + write'[u][i].cnt <= length
  BY <1>1, <1>2, Advances
<1>11. /\ "array" \notin flaw[c] => tree \in Maps(length)
       /\ MagicOf(write[u]) \subseteq seen[c]
  BY <1>2, <1>5 DEF SeenInv
<1>12. collector[c] = [live |-> collector[c].live, ref |-> collector[c].ref,
                       fail |-> collector[c].fail, map |-> collector[c].map]
  BY <1>5 DEF ShapeInv
<1>13. "array" \notin flaw[c] => SetWell(set, tree, seg, seg.cnt)
  BY <1>3, <1>8, <1>9, <1>11, SetAllWell
<1>14. PlacesOf(seg, seg.cnt) = {seg.first + seg.off + s : s \in seg.magic}
  <2>1. seg.cnt \in Nat  BY <1>8 DEF Segments
  <2>2. {t \in seg.magic : t < seg.cnt} = seg.magic  BY <1>9, <2>1
  <2> QED  BY <2>2 DEF PlacesOf
<1>15. seg.off = 0 => PlacesOf(seg, seg.cnt) = {seg.first + s : s \in seg.magic}
  <2>1. seg.first \in Nat /\ seg.off \in Nat  BY <1>8 DEF Segments
  <2> QED  BY <1>14, <2>1
<1>16. seg.off \in Nat  BY <1>8 DEF Segments
<1> HIDE DEF c, seg, set, tree
<1>17. /\ collector' = [d \in Collectors |-> collector'[d]]
       /\ collector'[c] = [live |-> collector[c].live, ref |-> collector[c].ref,
                           fail |-> collector[c].fail, map |-> set.map]
       /\ \A d \in Collectors : d # c => collector'[d] = collector[d]
  <2>1. collector' = [collector EXCEPT ![c].map = set.map]  BY <1>1 DEF set, tree
  <2> QED  BY <2>1, <1>3, <1>5, <1>12
<1>18. /\ flaw' = [d \in Collectors |-> flaw'[d]]
       /\ flaw'[c] = flaw[c] \cup ({set.res} \ {"ok"}) \cup (IF seg.off > 0 THEN {"offset"} ELSE {})
       /\ \A d \in Collectors : d # c => flaw'[d] = flaw[d]
  <2>1. flaw' = [flaw EXCEPT ![c] = flaw[c] \cup ({set.res} \ {"ok"})
                                            \cup (IF seg.off > 0 THEN {"offset"} ELSE {})]
    BY <1>1 DEF set, tree
  <2> QED  BY <2>1, <1>3, <1>5
(* What the bits of the segment do.                                        *)
<1>19. /\ "array" \notin flaw'[c] => set.map \in Maps(length)
       /\ length <= Room(length) /\ flaw'[c] \cap {"array", "offset"} = {} =>
            Bits(set.map) \subseteq Bits(tree) \cup {seg.first + s : s \in seg.magic}
       /\ length <= Room(length) /\ flaw'[c] = {} =>
            Bits(tree) \cup {seg.first + s : s \in seg.magic} \subseteq Bits(set.map)
       /\ flaw[c] \subseteq flaw'[c]
  <2>1. "array" \notin flaw'[c] => "array" \notin flaw[c] /\ set.res # "array"  BY <1>18
  <2>2. "offset" \notin flaw'[c] => seg.off = 0  BY <1>16, <1>18
  <2>3. flaw'[c] = {} => set.res = "ok"  BY <1>18
  <2>4. flaw[c] \subseteq flaw'[c]  BY <1>18
  <2> HIDE DEF CollectInv
  <2> QED  BY <2>1, <2>2, <2>3, <2>4, <1>13, <1>15 DEF SetWell
<1>20. \A d \in Collectors : /\ collector'[d].live = collector[d].live
                             /\ collector'[d].ref = collector[d].ref
                             /\ collector'[d].fail = collector[d].fail
                             /\ flaw[d] \subseteq flaw'[d]
  <2> TAKE d \in Collectors
  <2>1. CASE d = c  BY <2>1, <1>17, <1>19
  <2>2. CASE d # c  BY <2>2, <1>17, <1>18
  <2> QED  BY <2>1, <2>2
<1>21. ShapeInv'
  <2>1. \A d \in Collectors :
       /\ collector'[d] = [live |-> collector'[d].live, ref |-> collector'[d].ref,
                          fail |-> collector'[d].fail, map |-> collector'[d].map]
       /\ collector'[d].live \in {"no", "yes", "freed"}
       /\ collector'[d].ref \in BOOLEAN /\ collector'[d].fail \in BOOLEAN
    <3> TAKE d \in Collectors
    <3>1. CASE d = c
      <4>1. /\ collector[c].live \in {"no", "yes", "freed"}
            /\ collector[c].ref \in BOOLEAN /\ collector[c].fail \in BOOLEAN
        BY <1>5 DEF ShapeInv
      <4> QED  BY <3>1, <1>17, <4>1
    <3>2. CASE d # c
      <4>1. collector'[d] = collector[d]  BY <3>2, <1>17
      <4> QED  BY <4>1 DEF ShapeInv
    <3> QED  BY <3>1, <3>2
  <2>2. hurt' = hurt  BY <1>1
  <2> QED  BY <1>4, <1>10, <1>17, <1>18, <2>1, <2>2 DEF ShapeInv
<1>22. ListsInv' /\ HookInv' /\ MustInv'
  <2>1. hurt' \in BOOLEAN /\ (hurt' => hurt \/ ~Live(found[u]))  BY <1>1, <1>3
  <2> QED  BY <1>2, <1>10, <1>20, <2>1, SegmentKeeps
<1>23. \A d \in Collectors : /\ Live(d)' <=> Live(d)
                             /\ Pure(d)' => Pure(d)
  BY <1>20 DEF Live, Pure
<1>24. SeenInv'
  <2>1. \A d \in Collectors : /\ seen[d] \subseteq Sectors
                              /\ d \notin On(active) \cup On(stopped) => due[d] = {}
                              /\ "array" \notin flaw'[d] => collector'[d].map \in Maps(length)
    <3> TAKE d \in Collectors
    <3>1. seen[d] \subseteq Sectors /\ (d \notin On(active) \cup On(stopped) => due[d] = {})
      BY DEF SeenInv
    <3>2. CASE d = c  BY <3>1, <3>2, <1>17, <1>19
    <3>3. CASE d # c
      <4>1. collector'[d] = collector[d] /\ flaw'[d] = flaw[d]  BY <3>3, <1>17, <1>18
      <4>2. "array" \notin flaw[d] => collector[d].map \in Maps(length)  BY DEF SeenInv
      <4> QED  BY <3>1, <4>1, <4>2
    <3> QED  BY <3>2, <3>3
  <2>2. ASSUME NEW v \in Writers, at'[v] = "segments", Live(found[v])
        PROVE  MagicOf(write'[v]) \subseteq seen[found[v]]
    <3>1. CASE v = u
      <4>1. MagicOf(write'[u]) \subseteq MagicOf(write[u])  BY <1>8, <1>10
      <4> QED  BY <3>1, <4>1, <1>11 DEF c
    <3>2. CASE v # u
      <4>1. at[v] = "segments" /\ write'[v] = write[v]  BY <3>2, <2>2, <1>10
      <4> QED  BY <4>1, <2>2 DEF SeenInv
    <3> QED  BY <3>1, <3>2
  <2>3. \A v \in Writers : at'[v] = "segments" => at[v] = "segments"  BY <1>2, <1>10
  <2>4. \A v \in Writers : at[v] = "segments" => found[v] \in Collectors  BY DEF HookInv
  <2>5. \A v \in Writers : at'[v] = "segments" /\ collector'[found[v]].live = "yes" => Live(found[v])
    BY <2>3, <2>4, <1>20 DEF Live
  <2> HIDE DEF CollectInv
  <2> QED  BY <1>4, <2>1, <2>2, <2>5 DEF SeenInv, Live, Sectors
<1>25. BitsInv'
  <2>1. BitsInv  OBVIOUS
  <2>2. On(active) \subseteq Collectors  BY DEF ShapeInv, On
  <2>3. \A d \in Collectors : d # c => collector'[d] = collector[d] /\ flaw'[d] = flaw[d]
    <3>1. \A d \in Collectors : d # c => collector'[d] = collector[d]  BY <1>17
    <3>2. \A d \in Collectors : d # c => flaw'[d] = flaw[d]  BY <1>18
    <3> QED  BY <3>1, <3>2
  <2>4. collector'[c].map = set.map  BY <1>17
  <2> HIDE DEF CollectInv
  <2>5. ASSUME length <= Room(length), NEW d \in Collectors, Live(d)'
        PROVE  /\ flaw'[d] \cap {"array", "offset"} = {} => Bits(collector'[d].map) \subseteq seen[d]
               /\ Pure(d)' => due[d] \subseteq Bits(collector'[d].map)
    <3>1. Live(d) /\ (Pure(d)' => Pure(d)) /\ flaw[d] \subseteq flaw'[d]
      BY <2>5, <1>20, <1>23
    <3>2. /\ flaw[d] \cap {"array", "offset"} = {} => Bits(collector[d].map) \subseteq seen[d]
          /\ Pure(d) => due[d] \subseteq Bits(collector[d].map)
      BY <2>1, <2>5, <3>1 DEF BitsInv
    <3>3. CASE d = c
      <4>1. Pure(d)' => flaw'[c] = {}  BY <3>3 DEF Pure
      <4>2. {seg.first + s : s \in seg.magic} \subseteq seen[c]  BY <1>8, <1>11
      <4>3. tree = collector[c].map  BY DEF tree
      <4>4. ASSUME flaw'[d] \cap {"array", "offset"} = {}
            PROVE  Bits(collector'[d].map) \subseteq seen[d]
        <5>1. Bits(set.map) \subseteq Bits(tree) \cup {seg.first + s : s \in seg.magic}
          BY <1>19, <2>5, <3>3, <4>4
        <5>2. Bits(tree) \subseteq seen[c]  BY <3>1, <3>2, <3>3, <4>3, <4>4
        <5> QED  BY <5>1, <5>2, <4>2, <3>3, <2>4
      <4>5. ASSUME Pure(d)'  PROVE due[d] \subseteq Bits(collector'[d].map)
        <5>1. Bits(tree) \subseteq Bits(set.map)  BY <1>19, <2>5, <4>1, <4>5
        <5>2. due[c] \subseteq Bits(tree)  BY <3>1, <3>2, <3>3, <4>3, <4>5
        <5> QED  BY <5>1, <5>2, <3>3, <2>4
      <4> QED  BY <4>4, <4>5
    <3>4. CASE d # c  BY <3>1, <3>2, <3>4, <2>3
    <3> QED  BY <3>3, <3>4
  <2>6. ASSUME length <= Room(length), NEW v \in Writers, must[v].c \in On(active), Pure(must[v].c)'
        PROVE  /\ at'[v] = "segments" =>
                    must[v].what \subseteq Bits(collector'[must[v].c].map) \cup MagicOf(write'[v])
               /\ at'[v] = "submit" => must[v].what \subseteq Bits(collector'[must[v].c].map)
    <3>1. PICK d \in Collectors : d = must[v].c  BY <2>2, <2>6
    <3>2. flaw'[d] = {} /\ ~collector'[d].fail  BY <2>6, <3>1, <1>4 DEF Pure
    <3>3. Pure(d)  BY <3>2, <1>20 DEF Pure
    <3>4. /\ at[v] = "segments" => must[v].what \subseteq Bits(collector[d].map) \cup MagicOf(write[v])
          /\ at[v] = "submit" => must[v].what \subseteq Bits(collector[d].map)
      BY <2>1, <2>6, <3>1, <3>3 DEF BitsInv
    <3>5. d = c => Bits(collector[d].map) \cup {seg.first + s : s \in seg.magic}
                     \subseteq Bits(collector'[d].map)
      BY <1>19, <2>4, <2>6, <3>2 DEF tree
    <3>6. Bits(collector[d].map) \subseteq Bits(collector'[d].map)  BY <3>5, <2>3
    <3>7. CASE v = u
      <4>1. d = c  BY <3>1, <3>7, <1>6, <2>6
      <4>2. must[u].what \subseteq Bits(collector[d].map) \cup MagicOf(write[u])
        BY <3>4, <3>7, <1>2
      <4>3. must[u].what \subseteq Bits(collector'[d].map) \cup MagicOf(write'[u])
        BY <4>1, <4>2, <3>5, <1>8, <1>10
      <4>4. at'[u] = "submit" => MagicOf(write'[u]) = {}  BY <1>10, MagicEmpty
      <4> QED  BY <4>3, <4>4, <3>1, <3>7
    <3>8. CASE v # u
      <4>1. at'[v] = at[v] /\ write'[v] = write[v]  BY <3>8, <1>10
      <4> QED  BY <4>1, <3>1, <3>4, <3>6
    <3> QED  BY <3>7, <3>8
  <2> QED  BY <1>4, <2>5, <2>6 DEF BitsInv, Live, Pure
<1> QED  BY <1>21, <1>22, <1>24, <1>25

LEMMA CollectKeeps ==
  ASSUME CollectInv, NEW u \in Writers, Collect(u)
  PROVE  CollectInv'
<1>1. CASE ~Live(found[u])  BY <1>1, LostKeeps
<1>2. CASE Live(found[u]) /\ Head(write[u]).cnt > MapBits  BY <1>2, TooLongKeeps
<1>3. CASE Live(found[u]) /\ ~(Head(write[u]).cnt > MapBits)  BY <1>3, SetKeeps
<1> QED  BY <1>1, <1>2, <1>3

LEMMA SubmitKeeps ==
  ASSUME CollectInv, NEW u \in Writers, Submit(u)
  PROVE  CollectInv'
<1> USE DEF CollectInv
<1> DEFINE c == must[u].c
<1>1. /\ at[u] = "submit"
      /\ at' = [at EXCEPT ![u] = "idle"]
      /\ write' = [write EXCEPT ![u] = <<>>]
      /\ found' = [found EXCEPT ![u] = NoOne]
      /\ must' = [must EXCEPT ![u] = Nothing]
      /\ due' = IF Contains(active, c) THEN [due EXCEPT ![c] = @ \cup must[u].what] ELSE due
      /\ collector' = collector /\ seen' = seen /\ flaw' = flaw /\ hurt' = hurt
      /\ ListsRest
  BY DEF Submit, ListsRest, blockDevice, listVars
<1>2. /\ at \in [Writers -> {"idle", "find", "segments", "submit"}]
      /\ write \in [Writers -> Seq(Segments)]
      /\ found \in [Writers -> Collectors \cup {NoOne}]
      /\ must \in [Writers -> [c : Collectors \cup {NoOne}, what : SUBSET Nat]]
      /\ due \in [Collectors -> SUBSET Nat]
      /\ active \in Seq(Collectors)
  BY DEF ShapeInv
<1>3. /\ length' = length /\ hasFs' = hasFs /\ active' = active /\ stopped' = stopped
      /\ call' = call /\ frozen' = frozen /\ bare' = bare
  BY <1>1 DEF ListsRest
<1>4. Contains(active, c) <=> c \in On(active)
  BY <1>2, ContainsOn
<1>5. On(active) \subseteq Collectors  BY <1>2 DEF On
<1>6. must[u].what \subseteq Nat  BY <1>2
<1>7. /\ at' \in [Writers -> {"idle", "find", "segments", "submit"}] /\ at'[u] = "idle"
      /\ write' \in [Writers -> Seq(Segments)] /\ write'[u] = <<>>
      /\ found' \in [Writers -> Collectors \cup {NoOne}]
      /\ must' \in [Writers -> [c : Collectors \cup {NoOne}, what : SUBSET Nat]]
      /\ must'[u] = Nothing
      /\ \A v \in Writers : v # u => /\ at'[v] = at[v] /\ write'[v] = write[v]
                                     /\ found'[v] = found[v] /\ must'[v] = must[v]
  <2>1. Nothing \in [c : Collectors \cup {NoOne}, what : SUBSET Nat]  BY DEF Nothing
  <2>2. <<>> \in Seq(Segments)  OBVIOUS
  <2> QED  BY <1>1, <1>2, <2>1, <2>2
<1>8. /\ due' \in [Collectors -> SUBSET Nat]
      /\ \A d \in Collectors :
           due'[d] = due[d] \cup (IF d = c /\ d \in On(active) THEN must[u].what ELSE {})
  <2>1. CASE c \in On(active)  BY <2>1, <1>1, <1>2, <1>4, <1>5, <1>6
  <2>2. CASE c \notin On(active)  BY <2>2, <1>1, <1>2, <1>4
  <2> QED  BY <2>1, <2>2
<1> HIDE DEF c
<1>9. ShapeInv'  BY <1>1, <1>3, <1>7, <1>8 DEF ShapeInv
<1>10. ListsInv'
  <2>1. ListsInv  OBVIOUS
  <2> HIDE DEF CollectInv
  <2> QED  BY <2>1, <1>1, ListsStay
<1>11. HookInv'
  <2>1. call.at \in {"stopPut", "stopThaw"} => bare  BY <1>1 DEF HookInv
  <2>2. \A v \in Writers : at'[v] \in {"find", "segments"} => v # u  BY <1>7
  <2>3. \A v \in Writers : \A i \in DOMAIN write'[v] :
          /\ write'[v][i].magic \subseteq 0 .. write'[v][i].cnt - 1
          /\ write'[v][i].first + write'[v][i].cnt <= length
    <3> TAKE v \in Writers
    <3>1. CASE v = u  BY <3>1, <1>7
    <3>2. CASE v # u
      <4>1. write'[v] = write[v]  BY <3>2, <1>7
      <4> QED  BY <4>1 DEF HookInv
    <3> QED  BY <3>1, <3>2
  <2> QED  BY <1>1, <1>3, <1>7, <2>1, <2>2, <2>3 DEF HookInv
<1>12. MustInv'
  <2> SUFFICES ASSUME NEW v \in Writers
               PROVE  /\ must'[v].c # NoOne => collector[must'[v].c].live = "freed"
                                                \/ must'[v].c \in On(active) \cup On(stopped)
                      /\ must'[v].c \in On(active) => must'[v].c = Head(active)
                      /\ at'[v] = "idle" => must'[v] = Nothing
                      /\ at'[v] = "find" => must'[v].what = MagicOf(write'[v])
                      /\ at'[v] = "segments" /\ must'[v].c \in On(active) => found'[v] = must'[v].c
    BY <1>1, <1>3 DEF MustInv, MagicOf, Nothing, NoOne
  <2>1. CASE v = u
    <3>1. must'[u].c = NoOne  BY <1>7 DEF Nothing
    <3>2. NoOne \notin On(active)  BY <1>5 DEF NoOne, Collectors
    <3> QED  BY <2>1, <3>1, <3>2, <1>7
  <2>2. CASE v # u
    <3>1. must'[v] = must[v] /\ at'[v] = at[v] /\ write'[v] = write[v] /\ found'[v] = found[v]
      BY <2>2, <1>7
    <3> QED  BY <3>1 DEF MustInv
  <2> QED  BY <2>1, <2>2
<1>13. SeenInv'
  <2>1. SeenInv  OBVIOUS
  <2>2. \A v \in Writers : at'[v] = "segments" =>
          at[v] = "segments" /\ write'[v] = write[v] /\ found'[v] = found[v]
    BY <1>7
  <2>3. \A d \in Collectors : d \notin On(active) \cup On(stopped) => due'[d] = due[d]
    BY <1>8
  <2> HIDE DEF CollectInv
  <2> QED  BY <1>1, <1>3, <2>1, <2>2, <2>3 DEF SeenInv, Live, Sectors
<1>14. BitsInv'
  <2>1. BitsInv  OBVIOUS
  <2>2. \A v \in Writers : at'[v] \in {"segments", "submit"} =>
          at'[v] = at[v] /\ write'[v] = write[v] /\ must'[v] = must[v]
    BY <1>7
  <2> HIDE DEF CollectInv
  <2>3. ASSUME length <= Room(length), NEW d \in Collectors, Live(d)
        PROVE  /\ flaw[d] \cap {"array", "offset"} = {} => Bits(collector[d].map) \subseteq seen[d]
               /\ Pure(d) => due'[d] \subseteq Bits(collector[d].map)
    <3>1. /\ flaw[d] \cap {"array", "offset"} = {} => Bits(collector[d].map) \subseteq seen[d]
          /\ Pure(d) => due[d] \subseteq Bits(collector[d].map)
      BY <2>1, <2>3 DEF BitsInv
    <3>2. d = c /\ d \in On(active) /\ Pure(d) => must[u].what \subseteq Bits(collector[d].map)
      BY <2>1, <2>3, <1>1 DEF BitsInv, c
    <3> QED  BY <3>1, <3>2, <1>8
  <2>4. ASSUME length <= Room(length), NEW v \in Writers, at'[v] \in {"segments", "submit"},
               must'[v].c \in On(active), Pure(must'[v].c)
        PROVE  /\ at'[v] = "segments" =>
                    must'[v].what \subseteq Bits(collector[must'[v].c].map) \cup MagicOf(write'[v])
               /\ at'[v] = "submit" => must'[v].what \subseteq Bits(collector[must'[v].c].map)
    BY <2>1, <2>2, <2>4 DEF BitsInv
  <2> QED  BY <1>1, <1>3, <2>3, <2>4 DEF BitsInv, Live, Pure
<1> QED  BY <1>9, <1>10, <1>11, <1>12, <1>13, <1>14

-----------------------------------------------------------------------------
(* The theorems.                                                           *)

LEMMA CollectStepKeeps == CollectInv /\ [CollectNext]_collectVars => CollectInv'
<1> SUFFICES ASSUME CollectInv, [CollectNext]_collectVars PROVE CollectInv'  OBVIOUS
<1>1. CASE \E u \in Writers : Writer(u)
  <2>1. PICK u \in Writers : Enter(u) \/ Find(u) \/ Collect(u) \/ Submit(u)
    BY <1>1 DEF Writer
  <2> QED  BY <2>1, EnterKeeps, FindKeeps, CollectKeeps, SubmitKeeps
<1>2. CASE \E c \in Collectors : Start(c)  BY <1>2, StartKeeps
<1>3. CASE StartPush  BY <1>3, StartPushKeeps
<1>4. CASE StartFails  BY <1>4, StartFailsKeeps
<1>5. CASE StopPut  BY <1>5, StopPutKeeps
<1>6. CASE StopPull  BY <1>6, StopPullKeeps
<1>7. CASE (Complete \/ Done) /\ stopped # <<>>  BY <1>7, FreeKeeps
<1>8. CASE \/ Calls \/ StartFreeze \/ Thaw \/ Look
           \/ StopFreeze \/ StopNotFrozen \/ StopThaw \/ Get
           \/ (Complete \/ Done) /\ stopped = <<>>
           \/ UNCHANGED collectVars
  <2>1. GoesRight /\ UNCHANGED <<blockDevice, listVars, writeVars, historyVars>>
    BY <1>8, CallsGoRight
  <2> QED  BY <2>1, CallsKeep
<1> QED  BY <1>1, <1>2, <1>3, <1>4, <1>5, <1>6, <1>7, <1>8 DEF CollectNext, Caller

(* The inductive invariant of the collectors holds in every state.         *)
THEOREM CollectInvariant == CollectSpec => []CollectInv
<1>1. CollectInit => CollectInv  BY CollectInitInv
<1>2. CollectInv /\ [CollectNext]_collectVars => CollectInv'  BY CollectStepKeeps
<1> QED  BY <1>1, <1>2, PTL DEF CollectSpec

(* The collectors, their lists and the writes in the hook stay what they   *)
(* are declared to be, and a map is one, unless the array of one of its    *)
(* blocks was lacking.                                                     *)
THEOREM CollectTypeCorrect == CollectSpec => []CollectTypeOK
<1>1. CollectInv => CollectTypeOK
  <2> SUFFICES ASSUME CollectInv PROVE CollectTypeOK  OBVIOUS
  <2>1. call.c \in Collectors \cup {NoOne}  BY DEF CollectInv, ShapeInv, CallSet
  <2> QED  BY <2>1 DEF CollectInv, ShapeInv, SeenInv, CollectTypeOK
<1> QED  BY <1>1, CollectInvariant, PTL

LEMMA ExactOfInv == CollectInv => LocationIsExact
<1> SUFFICES ASSUME CollectInv, call.op = "find", call.at = "look", length <= Room(length),
                    NEW failAt \in 0 .. MaxRanges, Answer(failAt).res = "ok"
             PROVE  /\ flaw[Head(stopped)] \cap {"array", "offset"} = {} =>
                         Covered(Answer(failAt).list) \subseteq seen[Head(stopped)]
                    /\ flaw[Head(stopped)] = {} /\ failAt = 0 /\ seen[Head(stopped)] # Sectors =>
                         due[Head(stopped)] \subseteq Covered(Answer(failAt).list)
  BY DEF LocationIsExact
<1> DEFINE c == Head(stopped)
           tree == collector[c].map
           got == Ranges(tree, failAt)
<1>1. stopped # <<>> /\ ~collector[c].fail /\ Answer(failAt) = got
  BY DEF Answer
<1>2. stopped \in Seq(Collectors) /\ length \in Lengths  BY DEF CollectInv, ShapeInv
<1>3. c \in On(stopped) /\ c \in Collectors
  BY <1>1, <1>2, OnTail DEF CollectInv, ListsInv
<1>4. Live(c)  BY <1>3 DEF CollectInv, ListsInv
<1>5. /\ "array" \notin flaw[c] => tree \in Maps(length)
      /\ seen[c] \subseteq Sectors
  BY <1>3 DEF CollectInv, SeenInv
<1>6. /\ flaw[c] \cap {"array", "offset"} = {} => Bits(tree) \subseteq seen[c]
      /\ flaw[c] = {} => due[c] \subseteq Bits(tree)
  BY <1>1, <1>3, <1>4 DEF CollectInv, BitsInv, Pure
<1>7. "array" \notin flaw[c] =>
        /\ Covered(got.list) \subseteq Bits(tree)
        /\ failAt = 0 /\ Bits(tree) # Sectors => Bits(tree) \subseteq Covered(got.list)
  <2>1. got.res = "ok"  BY <1>1
  <2> QED  BY <1>2, <1>5, <2>1, MapAssumption DEF Sectors
<1>8. flaw[c] = {} /\ seen[c] # Sectors => Bits(tree) # Sectors
  BY <1>5, <1>6
<1> HIDE DEF c, tree, got
<1> QED  BY <1>1, <1>6, <1>7, <1>8 DEF c

(* The list that the service gets is that of the sectors at which the      *)
(* pattern went by, no more and no less, for any bitmap that does what is  *)
(* assumed of one: the calls may come between any steps of the writes.     *)
THEOREM LocationExact == CollectSpec => []LocationIsExact
  BY ExactOfInv, CollectInvariant, PTL

(* Two lists, each without repetition and with nothing in common.          *)
LEMMA ListsJoined ==
  ASSUME NEW S, NEW s \in Seq(S), NEW t \in Seq(S), IsInjective(s), IsInjective(t),
         On(s) \cap On(t) = {}
  PROVE  /\ s \o t \in Seq(S)
         /\ On(s \o t) = On(s) \cup On(t)
         /\ IsInjective(s \o t)
<1> DEFINE r == s \o t
<1>1. /\ r \in Seq(S) /\ Len(r) = Len(s) + Len(t) /\ Len(s) \in Nat /\ Len(t) \in Nat
      /\ DOMAIN r = 1 .. Len(s) + Len(t) /\ DOMAIN s = 1 .. Len(s) /\ DOMAIN t = 1 .. Len(t)
      /\ \A i \in 1 .. Len(s) : r[i] = s[i]
      /\ \A i \in 1 .. Len(t) : r[Len(s) + i] = t[i]
  OBVIOUS
<1> HIDE DEF r
<1>2. \A i \in DOMAIN r : \/ i \in 1 .. Len(s) /\ r[i] = s[i]
                          \/ i - Len(s) \in 1 .. Len(t) /\ r[i] = t[i - Len(s)]
  <2> TAKE i \in DOMAIN r
  <2>1. CASE i <= Len(s)  BY <1>1, <2>1
  <2>2. CASE ~(i <= Len(s))
    <3>1. i - Len(s) \in 1 .. Len(t) /\ Len(s) + (i - Len(s)) = i  BY <1>1, <2>2
    <3> QED  BY <1>1, <3>1
  <2> QED  BY <2>1, <2>2
<1>3. /\ \A i \in 1 .. Len(s) : s[i] \in On(s)
      /\ \A i \in 1 .. Len(t) : t[i] \in On(t)
  BY <1>1 DEF On
<1>4. ASSUME NEW x \in On(r)  PROVE x \in On(s) \cup On(t)
  <2>1. PICK i \in DOMAIN r : x = r[i]  BY DEF On
  <2> QED  BY <2>1, <1>2, <1>3
<1>5. ASSUME NEW x \in On(s) \cup On(t)  PROVE x \in On(r)
  <2>1. CASE x \in On(s)
    <3>1. PICK i \in 1 .. Len(s) : x = s[i]  BY <2>1, <1>1 DEF On
    <3>2. i \in DOMAIN r /\ r[i] = x  BY <3>1, <1>1
    <3> QED  BY <3>2 DEF On
  <2>2. CASE x \in On(t)
    <3>1. PICK i \in 1 .. Len(t) : x = t[i]  BY <2>2, <1>1 DEF On
    <3>2. Len(s) + i \in DOMAIN r /\ r[Len(s) + i] = x  BY <3>1, <1>1
    <3> QED  BY <3>2 DEF On
  <2> QED  BY <2>1, <2>2
<1>6. ASSUME NEW i \in DOMAIN r, NEW j \in DOMAIN r, r[i] = r[j]  PROVE i = j
  <2>1. /\ \A k \in 1 .. Len(s), m \in 1 .. Len(s) : s[k] = s[m] => k = m
        /\ \A k \in 1 .. Len(t), m \in 1 .. Len(t) : t[k] = t[m] => k = m
    BY <1>1 DEF IsInjective
  <2>2. CASE i \in 1 .. Len(s) /\ r[i] = s[i]
    <3>1. CASE j \in 1 .. Len(s) /\ r[j] = s[j]  BY <2>1, <2>2, <3>1, <1>6
    <3>2. CASE j - Len(s) \in 1 .. Len(t) /\ r[j] = t[j - Len(s)]
      BY <2>2, <3>2, <1>3, <1>6
    <3> QED  BY <3>1, <3>2, <1>2
  <2>3. CASE i - Len(s) \in 1 .. Len(t) /\ r[i] = t[i - Len(s)]
    <3>1. CASE j \in 1 .. Len(s) /\ r[j] = s[j]  BY <2>3, <3>1, <1>3, <1>6
    <3>2. CASE j - Len(s) \in 1 .. Len(t) /\ r[j] = t[j - Len(s)]
      <4>1. i - Len(s) = j - Len(s)  BY <2>1, <2>3, <3>2, <1>6
      <4> QED  BY <4>1, <1>1
    <3> QED  BY <3>1, <3>2, <1>2
  <2> QED  BY <2>2, <2>3, <1>2
<1>7. IsInjective(r)  BY <1>6 DEF IsInjective
<1> QED  BY <1>1, <1>4, <1>5, <1>7 DEF r

LEMMA KeptOfInv == CollectInv => CollectorsAreKept
<1> SUFFICES ASSUME CollectInv PROVE CollectorsAreKept  OBVIOUS
<1>1. hurt => bare  BY DEF CollectInv, HookInv
<1>2. active \in Seq(Collectors) /\ stopped \in Seq(Collectors)  BY DEF CollectInv, ShapeInv
<1>3. /\ IsInjective(active) /\ IsInjective(stopped) /\ On(active) \cap On(stopped) = {}
  BY DEF CollectInv, ListsInv
<1>4. /\ active \o stopped \in Seq(Collectors)
      /\ On(active \o stopped) = On(active) \cup On(stopped)
      /\ IsInjective(active \o stopped)
  BY <1>2, <1>3, ListsJoined
<1>5. \A c \in Collectors : /\ Contains(active, c) <=> c \in On(active)
                            /\ Contains(active \o stopped, c) <=> c \in On(active) \cup On(stopped)
  BY <1>2, <1>4, ContainsOn
<1>6. ASSUME call = Idle, NEW c \in Collectors
      PROVE  /\ Live(c) <=> Contains(active \o stopped, c)
             /\ collector[c].ref <=> Contains(active, c)
  <2>1. Starting = {} /\ call.at # "stopPut"  BY <1>6 DEF Starting, Idle
  <2>2. Live(c) <=> c \in On(active) \cup On(stopped)  BY <2>1 DEF CollectInv, ListsInv
  <2>3. collector[c].ref <=> c \in On(active)  BY <2>1 DEF CollectInv, ListsInv
  <2> QED  BY <2>2, <2>3, <1>5
<1> QED  BY <1>1, <1>4, <1>6 DEF CollectorsAreKept

(* A write that found a collector meets it until it is through, unless     *)
(* nothing was frozen to stop it; between calls the two lists hold all the *)
(* collectors there are, and those at work hold the hook of the disk.      *)
THEOREM CollectorsKept == CollectSpec => []CollectorsAreKept
  BY KeptOfInv, CollectInvariant, PTL

=============================================================================
