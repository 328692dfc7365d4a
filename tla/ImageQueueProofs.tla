--------------------------- MODULE ImageQueueProofs ---------------------------
(***************************************************************************)
(* Theorems about ImageQueue, for every set of requests, any number of     *)
(* parts and of open files, and each kind of kernel.                       *)
(***************************************************************************)
EXTENDS ImageQueue, FiniteSetTheorems, SequenceTheorems, TLAPS

(* What is known of a request at each place: its parts add up to the count *)
(* of the ends that are due, an error of one of them is kept, and it is    *)
(* answered when it is at its last place only.                             *)
RequestOK(r) ==
  /\ parts[r].unsent + parts[r].flying + parts[r].ending = parts[r].count
  /\ parts[r].err <=> r \in broken
  /\ place[r] \in {"user", "queue", "callback", "answered"} => parts[r].count = 0
  /\ place[r] = "thread" => parts[r].count = parts[r].unsent
  /\ place[r] = "device" => parts[r].count > 0
  /\ place[r] \in {"user", "queue", "thread"} => r \notin broken
  /\ place[r] \in {"callback", "answered"} /\ r \in broken => answer[r] = "error"
  /\ answers[r] = IF place[r] = "answered" THEN 1 ELSE 0
  /\ submit[r] \in {"active", "throttle", "push"} => place[r] = "user"
  /\ place[r] = "thread" \/ parts[r].unsent > 0 => current = r

RequestInv == \A r \in Requests : RequestOK(r)

(* The queue has the requests that are in it, each once.                   *)
QueueInv ==
  /\ \A i, j \in 1 .. Len(queue) : queue[i] = queue[j] => i = j
  /\ \A i \in 1 .. Len(queue) : place[queue[i]] = "queue"

(* The requests with a content; those that are inside submit_bio; those    *)
(* that surely hold the image besides, and those that may do so: a content *)
(* that could not be pushed leaves its hold behind.                        *)
Content == {r \in Requests : submit[r] = "push" \/ place[r] \in {"queue", "thread", "device"}}
Insiders == {r \in Requests : Inside(r)}
Holders == {r \in Requests : r \in Content \/ place[r] = "callback"}
Begun == {r \in Requests : submit[r] = "push" \/ place[r] # "user"}

CountsInv ==
  /\ alloc = Cardinality(Content)
  /\ Cardinality(Insiders) + Cardinality(Holders) <= own
  /\ own <= Cardinality(Insiders) + Cardinality(Begun)

(* The counters that nobody waits for.                                     *)
BoundsInv ==
  /\ Listed => open_cnt = files
  /\ defer <= deferred

(* How far the thread and the destruction are, and who may still come in.  *)
PhasesInv ==
  /\ active <=> admin = "idle"
  /\ should => admin \notin {"idle", "stopThread"}
  /\ thread \in {"delete", "deleting", "drain"} => should
  /\ thread = "created" => disk = "none"
  /\ thread \in {"loop", "wait", "delete"} => disk = "added"
  /\ thread \in {"deleting", "drain"} => disk = "deleted"
  /\ thread = "done" => /\ disk # "added" /\ queue = <<>>
                        /\ disk = "none" \/ ~active
  /\ disk = "none" => \A r \in Requests : place[r] = "user" /\ ~Inside(r)
  /\ thread \in {"drain", "done"} /\ kernel.waits = "delete" => \A r \in Requests : ~Inside(r)
  /\ admin \in {"unactive", "release", "remove", "cleanup", "done"} => thread = "done"
  /\ admin \in {"release", "remove", "cleanup", "done"} =>
       \A r \in Requests : place[r] \in {"user", "callback", "answered"}
  /\ admin = "done" => \A r \in Requests : ~Inside(r)

IInv == RequestInv /\ QueueInv /\ CountsInv /\ BoundsInv /\ PhasesInv

-----------------------------------------------------------------------------
(* Counting.                                                               *)

One(b) == IF b THEN 1 ELSE 0

(* Two sets of requests that differ in one request at most.                *)
LEMMA OneDiffers ==
  ASSUME NEW S \in SUBSET Requests, NEW T \in SUBSET Requests, NEW r \in Requests,
         \A q \in Requests \ {r} : q \in T <=> q \in S
  PROVE  /\ Cardinality(S) \in Nat /\ Cardinality(T) \in Nat
         /\ Cardinality(T) = Cardinality(S) + One(r \in T) - One(r \in S)
<1>1. IsFiniteSet(S) /\ IsFiniteSet(T) /\ Cardinality(S) \in Nat /\ Cardinality(T) \in Nat
  BY ImageAssumption, FS_Subset, FS_CardinalityType
<1>2. CASE r \in T /\ r \notin S
  <2>1. T = S \cup {r}
    BY <1>2
  <2>2. QED
    BY <1>1, <1>2, <2>1, FS_AddElement DEF One
<1>3. CASE r \notin T /\ r \in S
  <2>1. T = S \ {r}
    BY <1>3
  <2>2. QED
    BY <1>1, <1>3, <2>1, FS_RemoveElement DEF One
<1>4. CASE (r \in T /\ r \in S) \/ (r \notin T /\ r \notin S)
  <2>1. T = S
    BY <1>4
  <2>2. QED
    BY <1>1, <1>4, <2>1 DEF One
<1>5. QED
  BY <1>2, <1>3, <1>4

LEMMA SetsAreBounded ==
  ASSUME NEW S \in SUBSET Requests
  PROVE  /\ Cardinality(S) \in Nat /\ Cardinality(Requests) \in Nat
         /\ Cardinality(S) <= Cardinality(Requests)
  BY ImageAssumption, FS_Subset, FS_CardinalityType

LEMMA HoldsAddUp ==
  ASSUME NEW x \in Int, NEW y \in Int, NEW i \in Int, NEW h \in Int, NEW b \in Int,
         NEW i0 \in Int, NEW i1 \in Int, NEW h0 \in Int, NEW h1 \in Int,
         NEW b0 \in Int, NEW b1 \in Int,
         i + h <= x, x <= i + b,
         y - x >= i1 - i0 + h1 - h0, y - x <= i1 - i0 + b1 - b0
  PROVE  (i + i1 - i0) + (h + h1 - h0) <= y /\ y <= (i + i1 - i0) + (b + b1 - b0)
  OBVIOUS

(* A step of one request, which takes and gives back what it holds.        *)
LEMMA CountsMove ==
  ASSUME TypeOK, CountsInv, NEW r \in Requests,
         \A q \in Requests \ {r} : submit'[q] = submit[q] /\ place'[q] = place[q],
         alloc' = alloc + One(r \in Content') - One(r \in Content),
         own' \in Int,
         own' - own >= One(r \in Insiders') - One(r \in Insiders)
                     + One(r \in Holders') - One(r \in Holders),
         own' - own <= One(r \in Insiders') - One(r \in Insiders)
                     + One(r \in Begun') - One(r \in Begun)
  PROVE  /\ CountsInv'
         /\ alloc' \in 0 .. Cardinality(Requests) /\ own' \in 0 .. 2 * Cardinality(Requests)
<1>1. /\ Content \in SUBSET Requests /\ Insiders \in SUBSET Requests
      /\ Holders \in SUBSET Requests /\ Begun \in SUBSET Requests
      /\ Content' \in SUBSET Requests /\ Insiders' \in SUBSET Requests
      /\ Holders' \in SUBSET Requests /\ Begun' \in SUBSET Requests
  BY DEF Content, Insiders, Holders, Begun
<1>2. \A q \in Requests \ {r} :
        /\ q \in Content' <=> q \in Content
        /\ q \in Insiders' <=> q \in Insiders
        /\ q \in Holders' <=> q \in Holders
        /\ q \in Begun' <=> q \in Begun
  BY DEF Content, Insiders, Holders, Begun, Inside
<1>3. /\ Cardinality(Content) \in Nat /\ Cardinality(Content') \in Nat
      /\ Cardinality(Content') = Cardinality(Content) + One(r \in Content') - One(r \in Content)
  BY <1>1, <1>2, OneDiffers
<1>4. /\ Cardinality(Insiders) \in Nat /\ Cardinality(Insiders') \in Nat
      /\ Cardinality(Insiders') = Cardinality(Insiders) + One(r \in Insiders') - One(r \in Insiders)
  BY <1>1, <1>2, OneDiffers
<1>5. /\ Cardinality(Holders) \in Nat /\ Cardinality(Holders') \in Nat
      /\ Cardinality(Holders') = Cardinality(Holders) + One(r \in Holders') - One(r \in Holders)
  BY <1>1, <1>2, OneDiffers
<1>6. /\ Cardinality(Begun) \in Nat /\ Cardinality(Begun') \in Nat
      /\ Cardinality(Begun') = Cardinality(Begun) + One(r \in Begun') - One(r \in Begun)
  BY <1>1, <1>2, OneDiffers
<1>7. /\ One(r \in Content') \in Int /\ One(r \in Content) \in Int
      /\ One(r \in Insiders') \in Int /\ One(r \in Insiders) \in Int
      /\ One(r \in Holders') \in Int /\ One(r \in Holders) \in Int
      /\ One(r \in Begun') \in Int /\ One(r \in Begun) \in Int
  BY DEF One
<1>8. own \in Int
  BY ImageAssumption, FS_CardinalityType DEF TypeOK
<1>9. alloc' = Cardinality(Content')
  BY <1>3, <1>7 DEF CountsInv
<1>10. /\ Cardinality(Insiders') + Cardinality(Holders') <= own'
       /\ own' <= Cardinality(Insiders') + Cardinality(Begun')
  <2>1. Cardinality(Insiders) + Cardinality(Holders) <= own /\ own <= Cardinality(Insiders) + Cardinality(Begun)
    BY DEF CountsInv
  <2> DEFINE i0 == One(r \in Insiders)
             i1 == One(r \in Insiders')
             h0 == One(r \in Holders)
             h1 == One(r \in Holders')
             b0 == One(r \in Begun)
             b1 == One(r \in Begun')
  <2>2. i0 \in Int /\ i1 \in Int /\ h0 \in Int /\ h1 \in Int /\ b0 \in Int /\ b1 \in Int
    BY <1>7
  <2>3. own' - own >= i1 - i0 + h1 - h0 /\ own' - own <= i1 - i0 + b1 - b0
    OBVIOUS
  <2>4. /\ Cardinality(Insiders') = Cardinality(Insiders) + i1 - i0
        /\ Cardinality(Holders') = Cardinality(Holders) + h1 - h0
        /\ Cardinality(Begun') = Cardinality(Begun) + b1 - b0
    BY <1>4, <1>5, <1>6
  <2>5. Cardinality(Insiders) \in Int /\ Cardinality(Holders) \in Int /\ Cardinality(Begun) \in Int
    BY <1>4, <1>5, <1>6
  <2> HIDE DEF i0, i1, h0, h1, b0, b1
  <2>6. /\ (Cardinality(Insiders) + i1 - i0) + (Cardinality(Holders) + h1 - h0) <= own'
        /\ own' <= (Cardinality(Insiders) + i1 - i0) + (Cardinality(Begun) + b1 - b0)
    BY <1>8, <2>1, <2>2, <2>3, <2>5, HoldsAddUp
  <2>7. QED
    BY <2>4, <2>6
<1>11. CountsInv'
  BY <1>9, <1>10 DEF CountsInv
<1>12. /\ Cardinality(Content') <= Cardinality(Requests)
       /\ Cardinality(Insiders') <= Cardinality(Requests)
       /\ Cardinality(Begun') <= Cardinality(Requests) /\ Cardinality(Requests) \in Nat
  BY <1>1, SetsAreBounded
<1>13. QED
  BY <1>3, <1>4, <1>5, <1>6, <1>9, <1>10, <1>11, <1>12

(* A step that leaves the requests where they are.                         *)
LEMMA CountsStay ==
  ASSUME TypeOK, CountsInv, UNCHANGED <<submit, place, alloc, own>>
  PROVE  /\ CountsInv'
         /\ alloc' \in 0 .. Cardinality(Requests) /\ own' \in 0 .. 2 * Cardinality(Requests)
<1>1. Content' = Content /\ Insiders' = Insiders /\ Begun' = Begun
  BY DEF Content, Insiders, Begun, Inside
<1>2. Holders' = Holders
  BY DEF Holders, Content
<1>3. QED
  BY <1>1, <1>2 DEF CountsInv, TypeOK

(* A step that concerns one request leaves the others as they are.         *)
LEMMA RequestMoves ==
  ASSUME RequestInv, NEW r \in Requests, RequestOK(r)',
         \A q \in Requests \ {r} :
           /\ parts'[q] = parts[q] /\ (q \in broken' <=> q \in broken)
           /\ place'[q] = place[q] /\ answer'[q] = answer[q] /\ answers'[q] = answers[q]
           /\ submit'[q] = submit[q]
           /\ current = q => current' = q
  PROVE  RequestInv'
<1>1. ASSUME NEW q \in Requests, q # r PROVE RequestOK(q)'
  BY <1>1 DEF RequestInv, RequestOK
<1>2. QED
  BY <1>1 DEF RequestInv

LEMMA RequestsStay ==
  ASSUME RequestInv, UNCHANGED <<requestVars, current>>
  PROVE  RequestInv'
  BY DEF RequestInv, RequestOK, requestVars

-----------------------------------------------------------------------------
(* The initial states.                                                     *)
LEMMA IInit == Init => TypeOK /\ IInv
<1> SUFFICES ASSUME Init PROVE TypeOK /\ IInv
  OBVIOUS
<1>1. \A r \in Requests : submit[r] = "out" /\ place[r] = "user"
  BY DEF Init
<1>2. Content = {} /\ Insiders = {} /\ Holders = {} /\ Begun = {}
  BY <1>1 DEF Content, Insiders, Holders, Begun, Inside
<1>3. queue = <<>> /\ Len(queue) = 0
  BY DEF Init
<1>4. CountsInv
  BY <1>2, FS_EmptySet DEF CountsInv, Init
<1>5. alloc \in 0 .. Cardinality(Requests) /\ own \in 0 .. 2 * Cardinality(Requests)
  BY ImageAssumption, FS_CardinalityType DEF Init
<1>6. NoParts \in PartsOf
  BY ImageAssumption DEF NoParts, PartsOf
<1>7. TypeOK
  <2>1. /\ files \in 0 .. MaxOpens /\ open_cnt \in 0 .. MaxOpens
        /\ defer \in 0 .. MaxDefer /\ deferred \in 0 .. MaxDefer
        /\ answers \in [Requests -> 0 .. MaxParts + 1]
    BY ImageAssumption DEF Init
  <2>2. /\ submit \in [Requests -> {"out", "active", "throttle", "push", "leave"}]
        /\ place \in [Requests -> {"user", "queue", "thread", "device", "callback", "answered"}]
        /\ answer \in [Requests -> {"none", "ok", "error"}]
        /\ parts \in [Requests -> PartsOf]
    BY <1>6 DEF Init
  <2>3. queue \in Seq(Requests)
    BY <1>3
  <2>4. QED
    BY <1>5, <2>1, <2>2, <2>3 DEF Init, TypeOK
<1>8. RequestInv
  BY DEF Init, RequestInv, RequestOK, NoParts
<1>9. QueueInv
  BY <1>3 DEF QueueInv
<1>10. BoundsInv
  BY ImageAssumption DEF Init, BoundsInv
<1>11. PhasesInv
  BY DEF Init, PhasesInv, Inside
<1>12. QED
  BY <1>4, <1>7, <1>8, <1>9, <1>10, <1>11 DEF IInv

-----------------------------------------------------------------------------
(* The disk is opened and closed.                                          *)
LEMMA FilesKeepInv ==
  ASSUME TypeOK, IInv, Open \/ Close
  PROVE  TypeOK' /\ IInv'
<1>1. UNCHANGED <<kernel, requestVars, queueVars, threadVars, deferVars, adminVars>>
  BY DEF Open, Close
<1>2. CountsInv'
  BY <1>1, CountsStay DEF IInv, requestVars, queueVars
<1>3. RequestInv'
  BY <1>1, RequestsStay DEF IInv, threadVars
<1>4. QueueInv' /\ PhasesInv'
  BY <1>1 DEF IInv, QueueInv, PhasesInv, Inside, requestVars, queueVars, threadVars, adminVars
<1>5. files' \in 0 .. MaxOpens /\ open_cnt' \in 0 .. MaxOpens /\ BoundsInv'
  <2>1. /\ files \in 0 .. MaxOpens /\ open_cnt \in 0 .. MaxOpens /\ MaxOpens \in Nat
        /\ Listed => open_cnt = files
        /\ defer' <= deferred' /\ Listed' = Listed
    BY <1>1, ImageAssumption DEF TypeOK, IInv, BoundsInv, Listed, deferVars, adminVars
  <2>2. CASE Open
    <3>1. Listed
      BY <2>2 DEF TypeOK, IInv, PhasesInv, Open, Locked, Listed
    <3>2. QED
      BY <2>1, <2>2, <3>1 DEF Open, BoundsInv
  <2>3. CASE Close
    BY <2>1, <2>3 DEF Close, BoundsInv
  <2>4. QED
    BY <2>2, <2>3
<1>6. TypeOK'
  BY <1>1, <1>5 DEF TypeOK, requestVars, queueVars, threadVars, deferVars, adminVars
<1>7. QED
  BY <1>2, <1>3, <1>4, <1>5, <1>6 DEF IInv

(* What the steps of one request have in common: the files, the deferred   *)
(* writes and the destruction stay.                                        *)
LEMMA BoundsStay ==
  ASSUME TypeOK, BoundsInv, UNCHANGED <<userVars, admin, defer, deferred>>
  PROVE  BoundsInv'
  BY DEF BoundsInv, Listed, userVars

-----------------------------------------------------------------------------
(* The step of one request, whoever takes it: it leaves the phases of the  *)
(* thread and of the destruction, and the other requests, ...              *)
Alone(r) ==
  /\ UNCHANGED <<kernel, userVars, active, thread, disk, defer, deferred, adminVars>>
  /\ \A q \in Requests \ {r} :
       /\ parts'[q] = parts[q] /\ (q \in broken' <=> q \in broken)
       /\ place'[q] = place[q] /\ answer'[q] = answer[q] /\ answers'[q] = answers[q]
       /\ submit'[q] = submit[q]
       /\ current = q => current' = q

(* ... counts what it takes and gives back, ...                            *)
Counted(r) ==
  /\ alloc' = alloc + One(r \in Content') - One(r \in Content)
  /\ own' - own >= One(r \in Insiders') - One(r \in Insiders)
                 + One(r \in Holders') - One(r \in Holders)
  /\ own' - own <= One(r \in Insiders') - One(r \in Insiders)
                 + One(r \in Begun') - One(r \in Begun)

(* ... comes in only where the block layer lets it through, and gets a     *)
(* content into the queue only while that is active.                       *)
MayMove(r) ==
  /\ Inside(r)' => Inside(r) \/ LetsThrough
  /\ place'[r] # place[r] => disk # "none"
  /\ place'[r] \in {"queue", "thread", "device"} =>
       place[r] \in {"queue", "thread", "device"} \/ active

RequestTypes ==
  /\ submit \in [Requests -> {"out", "active", "throttle", "push", "leave"}]
  /\ place \in [Requests -> {"user", "queue", "thread", "device", "callback", "answered"}]
  /\ answer \in [Requests -> {"none", "ok", "error"}]
  /\ parts \in [Requests -> PartsOf]
  /\ broken \subseteq Requests
  /\ answers \in [Requests -> 0 .. MaxParts + 1]
  /\ queue \in Seq(Requests)
  /\ current \in Requests \cup {NoRequest}
  /\ corrupted \in BOOLEAN
  /\ own \in Int

LEMMA RequestStep ==
  ASSUME TypeOK, IInv, NEW r \in Requests, Alone(r), Counted(r), MayMove(r),
         RequestTypes', RequestOK(r)', QueueInv', queue' = queue \/ active
  PROVE  TypeOK' /\ IInv'
<1>1. /\ CountsInv'
      /\ alloc' \in 0 .. Cardinality(Requests) /\ own' \in 0 .. 2 * Cardinality(Requests)
  BY CountsMove DEF IInv, Alone, Counted, RequestTypes
<1>2. RequestInv'
  BY RequestMoves DEF IInv, Alone
<1>3. BoundsInv'
  BY BoundsStay DEF IInv, Alone, adminVars
<1>4. TypeOK'
  BY <1>1 DEF RequestTypes, TypeOK, Alone, userVars, adminVars
<1>5. PhasesInv'
  <2>1. PhasesInv /\ kernel.waits \in {"delete", "cleanup"}
    BY ImageAssumption DEF IInv, TypeOK
  <2>2. /\ UNCHANGED <<kernel, active, thread, disk, stopped, should, admin>>
        /\ \A q \in Requests \ {r} : submit'[q] = submit[q] /\ place'[q] = place[q]
    BY DEF Alone, adminVars
  <2>3. disk = "none" => \A q \in Requests : place'[q] = "user" /\ ~Inside(q)'
    BY <2>1, <2>2 DEF PhasesInv, MayMove, LetsThrough, Inside
  <2>4. thread \in {"drain", "done"} /\ kernel.waits = "delete" => \A q \in Requests : ~Inside(q)'
    BY <2>1, <2>2 DEF PhasesInv, MayMove, LetsThrough, Inside
  <2>5. admin = "done" => \A q \in Requests : ~Inside(q)'
    BY <2>1, <2>2 DEF PhasesInv, MayMove, LetsThrough, Inside, Listed
  <2>6. place'[r] \in {"user", "queue", "thread", "device", "callback", "answered"}
    BY DEF RequestTypes
  <2>7. admin \in {"release", "remove", "cleanup", "done"} =>
          \A q \in Requests : place'[q] \in {"user", "callback", "answered"}
    BY <2>1, <2>2, <2>6 DEF PhasesInv, MayMove
  <2>8. thread = "done" => queue' = <<>>
    <3>1. ASSUME thread = "done", active PROVE disk = "none"
      BY <2>1, <3>1 DEF PhasesInv
    <3>2. ASSUME disk = "none" PROVE queue' = <<>>
      <4>1. \A i \in 1 .. Len(queue') : place'[queue'[i]] = "queue" /\ queue'[i] \in Requests
        BY ElementOfSeq DEF QueueInv, RequestTypes
      <4>2. Len(queue') = 0
        BY <2>3, <3>2, <4>1, LenProperties DEF RequestTypes
      <4>3. QED
        BY <4>2, EmptySeq DEF RequestTypes
    <3>3. QED
      BY <2>1, <3>1, <3>2 DEF PhasesInv
  <2>9. QED
    BY <2>1, <2>2, <2>3, <2>4, <2>5, <2>7, <2>8 DEF PhasesInv
<1>6. QED
  BY <1>1, <1>2, <1>3, <1>4, <1>5 DEF IInv

LEMMA QueueStays ==
  ASSUME TypeOK, QueueInv, queue' = queue,
         \A q \in Requests : place[q] = "queue" => place'[q] = "queue"
  PROVE  QueueInv'
<1>1. \A i \in 1 .. Len(queue) : queue[i] \in Requests
  BY ElementOfSeq DEF TypeOK
<1>2. QED
  BY <1>1 DEF QueueInv

-----------------------------------------------------------------------------
(* The steps of a submitter.                                               *)
LEMMA EnterKeepsInv ==
  ASSUME TypeOK, IInv, NEW r \in Requests, Enter(r) \/ EnterStopped(r)
  PROVE  TypeOK' /\ IInv'
<1>1. /\ UNCHANGED <<kernel, userVars, parts, broken, queue, active, alloc, threadVars, deferVars, adminVars>>
      /\ LetsThrough /\ place[r] = "user" /\ submit[r] = "out" /\ own \in Int /\ alloc \in Int
  BY ImageAssumption, FS_CardinalityType DEF Enter, EnterStopped, TypeOK, queueVars, Inside
<1>2. \A q \in Requests \ {r} :
        submit'[q] = submit[q] /\ place'[q] = place[q] /\ answer'[q] = answer[q] /\ answers'[q] = answers[q]
  BY DEF Enter, EnterStopped, Answer, Goes, TypeOK
<1>3. \/ own' = own + 1 /\ submit'[r] = "active" /\ place'[r] = "user" /\ answers'[r] = answers[r]
      \/ /\ own' = own + 1 /\ submit'[r] = "leave"
         /\ place'[r] = "answered" /\ answers'[r] = answers[r] + 1 /\ answer'[r] = "error"
      \/ /\ own' = own /\ submit'[r] = "out"
         /\ place'[r] = "answered" /\ answers'[r] = answers[r] + 1 /\ answer'[r] = "error"
  BY <1>1 DEF Enter, EnterStopped, Answer, Goes, TypeOK, queueVars
<1>4. RequestOK(r)'
  BY <1>1, <1>3 DEF IInv, RequestInv, RequestOK, threadVars
<1>5. RequestTypes'
  <2>1. /\ submit' \in [Requests -> {"out", "active", "throttle", "push", "leave"}]
        /\ place' \in [Requests -> {"user", "queue", "thread", "device", "callback", "answered"}]
        /\ answer' \in [Requests -> {"none", "ok", "error"}]
    BY DEF Enter, EnterStopped, Answer, Goes, TypeOK
  <2>2. answers' \in [Requests -> 0 .. MaxParts + 1]
    <3>1. answers[r] = 0
      BY <1>1 DEF IInv, RequestInv, RequestOK
    <3>2. answers' = answers \/ answers' = [answers EXCEPT ![r] = @ + 1]
      BY DEF Enter, EnterStopped, Answer
    <3>3. answers \in [Requests -> 0 .. MaxParts + 1] /\ 0 + 1 \in 0 .. MaxParts + 1
      BY ImageAssumption DEF TypeOK
    <3>4. QED
      BY <3>1, <3>2, <3>3
  <2>3. own' \in Int
    BY <1>1, <1>3
  <2>4. QED
    BY <1>1, <2>1, <2>2, <2>3 DEF RequestTypes, TypeOK, threadVars, deferVars
<1>6. Counted(r)
  <2>1. r \notin Content /\ r \notin Insiders /\ r \notin Holders /\ r \notin Begun
    BY <1>1 DEF Content, Insiders, Holders, Begun, Inside
  <2>2. r \notin Content' /\ r \notin Holders'
    BY <1>3 DEF Content, Holders
  <2>3. CASE own' = own + 1 /\ r \in Insiders'
    BY <1>1, <2>1, <2>2, <2>3 DEF Counted, One
  <2>4. CASE own' = own /\ r \notin Insiders' /\ r \in Begun'
    BY <1>1, <2>1, <2>2, <2>4 DEF Counted, One
  <2>5. QED
    BY <1>3, <2>3, <2>4 DEF Insiders, Begun, Inside
<1>7. MayMove(r)
  BY <1>1, <1>3 DEF MayMove, LetsThrough
<1>8. Alone(r)
  BY <1>1, <1>2 DEF Alone, threadVars, deferVars
<1>9. QueueInv'
  BY <1>1, <1>2, QueueStays DEF IInv
<1>10. QED
  BY <1>1, <1>4, <1>5, <1>6, <1>7, <1>8, <1>9, RequestStep

LEMMA CountersAreNumbers ==
  ASSUME TypeOK
  PROVE  own \in Int /\ alloc \in Int
  BY ImageAssumption, FS_CardinalityType DEF TypeOK

(* An answer is the first one.                                             *)
LEMMA AnswerType ==
  ASSUME TypeOK, NEW r \in Requests, NEW how \in {"ok", "error"}, Answer(r, how), answers[r] = 0
  PROVE  /\ place' \in [Requests -> {"user", "queue", "thread", "device", "callback", "answered"}]
         /\ answer' \in [Requests -> {"none", "ok", "error"}]
         /\ answers' \in [Requests -> 0 .. MaxParts + 1]
         /\ place'[r] = "answered" /\ answer'[r] = how /\ answers'[r] = 1
<1>1. /\ place' \in [Requests -> {"user", "queue", "thread", "device", "callback", "answered"}]
      /\ answer' \in [Requests -> {"none", "ok", "error"}]
      /\ place'[r] = "answered" /\ answer'[r] = how
  BY DEF Answer, TypeOK
<1>2. answers \in [Requests -> 0 .. MaxParts + 1] /\ 0 + 1 \in 0 .. MaxParts + 1
  BY ImageAssumption DEF TypeOK
<1>3. answers' \in [Requests -> 0 .. MaxParts + 1] /\ answers'[r] = 1
  BY <1>2 DEF Answer
<1>4. QED
  BY <1>1, <1>3

LEMMA SubmitterKeepsInv ==
  ASSUME TypeOK, IInv, NEW r \in Requests, Submitter(r)
  PROVE  TypeOK' /\ IInv'
<1>1. /\ UNCHANGED <<kernel, userVars, parts, broken, active, threadVars, deferVars, adminVars>>
      /\ Inside(r)
      /\ own \in Int /\ alloc \in Int
  BY CountersAreNumbers
     DEF Submitter, SeeTrusted, Throttled, Refused, Refuse, Push, PushFails, Leave, Goes, Inside, queueVars
<1>2. \A q \in Requests \ {r} :
        submit'[q] = submit[q] /\ place'[q] = place[q] /\ answer'[q] = answer[q] /\ answers'[q] = answers[q]
  BY DEF Submitter, SeeTrusted, Throttled, Refused, Refuse, Push, PushFails, Leave, Goes, Answer, TypeOK
<1>3. Alone(r)
  BY <1>1, <1>2 DEF Alone, threadVars, deferVars
<1>4. RequestOK(r)
  BY DEF IInv, RequestInv
<1>5. ASSUME RequestTypes', RequestOK(r)', Counted(r), QueueInv', queue' = queue \/ active,
             place'[r] \in {"queue", "thread", "device"} => place[r] \in {"queue", "thread", "device"} \/ active
      PROVE  TypeOK' /\ IInv'
  <2>1. disk # "none"
    BY <1>1 DEF IInv, PhasesInv
  <2>2. MayMove(r)
    BY <1>1, <1>5, <2>1 DEF MayMove
  <2>3. QED
    BY <1>3, <1>5, <2>2, RequestStep
<1>6. ASSUME submit' \in [Requests -> {"out", "active", "throttle", "push", "leave"}],
             place' \in [Requests -> {"user", "queue", "thread", "device", "callback", "answered"}],
             answer' \in [Requests -> {"none", "ok", "error"}],
             answers' \in [Requests -> 0 .. MaxParts + 1],
             queue' \in Seq(Requests), own' \in Int
      PROVE  RequestTypes'
  BY <1>1, <1>6 DEF RequestTypes, TypeOK, threadVars, deferVars
<1>7. CASE SeeTrusted(r)
  <2>1. /\ submit[r] = "active" /\ submit'[r] = "throttle" /\ UNCHANGED <<place, answer, answers, queueVars>>
        /\ submit' \in [Requests -> {"out", "active", "throttle", "push", "leave"}]
    BY <1>7 DEF SeeTrusted, Goes, TypeOK
  <2>2. RequestOK(r)'
    BY <1>1, <1>4, <2>1 DEF RequestOK, threadVars
  <2>3. /\ r \in Content' <=> r \in Content
        /\ r \in Insiders' <=> r \in Insiders
        /\ r \in Holders' <=> r \in Holders
        /\ r \in Begun' <=> r \in Begun
    BY <2>1 DEF Content, Insiders, Holders, Begun, Inside
  <2>4. Counted(r)
    BY <1>1, <2>1, <2>3 DEF Counted, One, queueVars
  <2>5. RequestTypes' /\ QueueInv'
    BY <1>1, <1>6, <2>1, QueueStays DEF TypeOK, queueVars, IInv
  <2>6. QED
    BY <1>5, <2>1, <2>2, <2>4, <2>5 DEF queueVars
<1>8. CASE Throttled(r)
  <2>1. /\ submit[r] = "throttle" /\ submit'[r] = "push" /\ UNCHANGED <<place, answer, answers, queue>>
        /\ alloc' = alloc + 1 /\ own' = own + 1 /\ place[r] = "user"
        /\ submit' \in [Requests -> {"out", "active", "throttle", "push", "leave"}]
    BY <1>4, <1>8 DEF Throttled, Goes, TypeOK, RequestOK
  <2>2. RequestOK(r)'
    BY <1>1, <1>4, <2>1 DEF RequestOK, threadVars
  <2>3. /\ r \in Content' /\ r \notin Content
        /\ r \in Insiders' /\ r \in Insiders
        /\ r \in Holders' /\ r \notin Holders
        /\ r \in Begun' /\ r \notin Begun
    BY <2>1 DEF Content, Insiders, Holders, Begun, Inside
  <2>4. Counted(r)
    BY <1>1, <2>1, <2>3 DEF Counted, One
  <2>5. RequestTypes' /\ QueueInv'
    BY <1>1, <1>6, <2>1, QueueStays DEF TypeOK, IInv
  <2>6. QED
    BY <1>5, <2>1, <2>2, <2>4, <2>5
<1>9. CASE Refused(r)
  <2>1. /\ submit[r] \in {"active", "throttle"} /\ submit'[r] = "leave"
        /\ Answer(r, "error") /\ UNCHANGED queueVars
        /\ submit' \in [Requests -> {"out", "active", "throttle", "push", "leave"}]
    BY <1>9 DEF Refused, Refuse, Goes, TypeOK
  <2>2. place[r] = "user" /\ answers[r] = 0
    BY <1>4, <2>1 DEF RequestOK
  <2>3. /\ place' \in [Requests -> {"user", "queue", "thread", "device", "callback", "answered"}]
        /\ answer' \in [Requests -> {"none", "ok", "error"}]
        /\ answers' \in [Requests -> 0 .. MaxParts + 1]
        /\ place'[r] = "answered" /\ answer'[r] = "error" /\ answers'[r] = 1
    BY <2>1, <2>2, AnswerType
  <2>4. RequestOK(r)'
    BY <1>1, <1>4, <2>1, <2>2, <2>3 DEF RequestOK, threadVars
  <2>5. /\ r \notin Content' /\ r \notin Content
        /\ r \in Insiders' /\ r \in Insiders
        /\ r \notin Holders' /\ r \notin Holders
        /\ r \in Begun' /\ r \notin Begun
    BY <2>1, <2>2, <2>3 DEF Content, Insiders, Holders, Begun, Inside
  <2>6. Counted(r)
    BY <1>1, <2>1, <2>5 DEF Counted, One, queueVars
  <2>7. RequestTypes' /\ QueueInv'
    BY <1>1, <1>2, <1>6, <2>1, <2>2, <2>3, QueueStays DEF TypeOK, IInv, queueVars
  <2>8. QED
    BY <1>5, <2>1, <2>3, <2>4, <2>6, <2>7 DEF queueVars
<1>10. CASE Push(r)
  <2>1. /\ submit[r] = "push" /\ submit'[r] = "leave" /\ place'[r] = "queue" /\ active
        /\ queue' = Append(queue, r) /\ UNCHANGED <<answer, answers, alloc, own>>
        /\ submit' \in [Requests -> {"out", "active", "throttle", "push", "leave"}]
        /\ place' \in [Requests -> {"user", "queue", "thread", "device", "callback", "answered"}]
    BY <1>10 DEF Push, Goes, TypeOK
  <2>2. place[r] = "user" /\ answers[r] = 0
    BY <1>4, <2>1 DEF RequestOK
  <2>3. RequestOK(r)'
    BY <1>1, <1>4, <2>1, <2>2 DEF RequestOK, threadVars
  <2>4. /\ r \in Content' /\ r \in Content
        /\ r \in Insiders' /\ r \in Insiders
        /\ r \in Holders' /\ r \in Holders
        /\ r \in Begun' /\ r \in Begun
    BY <2>1, <2>2 DEF Content, Insiders, Holders, Begun, Inside
  <2>5. Counted(r)
    BY <1>1, <2>1, <2>4 DEF Counted, One
  <2>6. /\ queue \in Seq(Requests) /\ queue' \in Seq(Requests)
        /\ Len(queue') = Len(queue) + 1 /\ Len(queue) \in Nat
        /\ \A i \in 1 .. Len(queue) : queue'[i] = queue[i] /\ queue[i] \in Requests
        /\ queue'[Len(queue) + 1] = r
    BY <2>1, AppendProperties, ElementOfSeq, LenProperties DEF TypeOK
  <2>7. QueueInv'
    <3>1. QueueInv /\ \A i \in 1 .. Len(queue) : queue[i] # r
      BY <2>2 DEF IInv, QueueInv
    <3>2. \A i \in 1 .. Len(queue) : place'[queue[i]] = "queue"
      BY <1>2, <2>6, <3>1 DEF QueueInv
    <3>3. \A i \in 1 .. Len(queue') : i \in 1 .. Len(queue) \/ i = Len(queue) + 1
      BY <2>6
    <3>4. QED
      BY <2>1, <2>6, <3>1, <3>2, <3>3 DEF QueueInv
  <2>8. RequestTypes'
    BY <1>1, <1>6, <2>1, <2>6 DEF TypeOK
  <2>9. QED
    BY <1>5, <2>1, <2>3, <2>5, <2>7, <2>8
<1>11. CASE PushFails(r)
  <2>1. /\ submit[r] = "push" /\ submit'[r] = "leave"
        /\ Answer(r, "error") /\ UNCHANGED <<queue, own>> /\ alloc' = alloc - 1
        /\ submit' \in [Requests -> {"out", "active", "throttle", "push", "leave"}]
    BY <1>11 DEF PushFails, Goes, TypeOK
  <2>2. place[r] = "user" /\ answers[r] = 0
    BY <1>4, <2>1 DEF RequestOK
  <2>3. /\ place' \in [Requests -> {"user", "queue", "thread", "device", "callback", "answered"}]
        /\ answer' \in [Requests -> {"none", "ok", "error"}]
        /\ answers' \in [Requests -> 0 .. MaxParts + 1]
        /\ place'[r] = "answered" /\ answer'[r] = "error" /\ answers'[r] = 1
    BY <2>1, <2>2, AnswerType
  <2>4. RequestOK(r)'
    BY <1>1, <1>4, <2>1, <2>2, <2>3 DEF RequestOK, threadVars
  <2>5. /\ r \notin Content' /\ r \in Content
        /\ r \in Insiders' /\ r \in Insiders
        /\ r \notin Holders' /\ r \in Holders
        /\ r \in Begun' /\ r \in Begun
    BY <2>1, <2>2, <2>3 DEF Content, Insiders, Holders, Begun, Inside
  <2>6. Counted(r)
    BY <1>1, <2>1, <2>5 DEF Counted, One
  <2>7. RequestTypes' /\ QueueInv'
    BY <1>1, <1>2, <1>6, <2>1, <2>2, <2>3, QueueStays DEF TypeOK, IInv
  <2>8. QED
    BY <1>5, <2>1, <2>3, <2>4, <2>6, <2>7
<1>12. CASE Leave(r)
  <2>1. /\ submit[r] = "leave" /\ submit'[r] = "out" /\ UNCHANGED <<place, answer, answers, queue, alloc>>
        /\ own' = own - 1
        /\ submit' \in [Requests -> {"out", "active", "throttle", "push", "leave"}]
    BY <1>12 DEF Leave, Goes, TypeOK
  <2>2. RequestOK(r)'
    BY <1>1, <1>4, <2>1 DEF RequestOK, threadVars
  <2>3. /\ r \in Content' <=> r \in Content
        /\ r \notin Insiders' /\ r \in Insiders
        /\ r \in Holders' <=> r \in Holders
        /\ r \in Begun' <=> r \in Begun
    BY <2>1 DEF Content, Insiders, Holders, Begun, Inside
  <2>4. Counted(r)
    BY <1>1, <2>1, <2>3 DEF Counted, One
  <2>5. RequestTypes' /\ QueueInv'
    BY <1>1, <1>6, <2>1, QueueStays DEF TypeOK, IInv
  <2>6. QED
    BY <1>5, <2>1, <2>2, <2>4, <2>5
<1>13. QED
  BY <1>7, <1>8, <1>9, <1>10, <1>11, <1>12 DEF Submitter

-----------------------------------------------------------------------------
(* The steps of the bios of a request, and of the thread that sends them.  *)

PartTypes ==
  /\ place \in [Requests -> {"user", "queue", "thread", "device", "callback", "answered"}]
  /\ answer \in [Requests -> {"none", "ok", "error"}]
  /\ parts \in [Requests -> PartsOf]
  /\ broken \subseteq Requests
  /\ answers \in [Requests -> 0 .. MaxParts + 1]
  /\ corrupted \in BOOLEAN
  /\ own \in Int

(* The request is past its submission: only its place and its parts move.  *)
Past(r) ==
  /\ UNCHANGED <<kernel, userVars, submit, queue, active, thread, disk, defer, deferred, adminVars>>
  /\ \A q \in Requests \ {r} :
       /\ parts'[q] = parts[q] /\ (q \in broken' <=> q \in broken)
       /\ place'[q] = place[q] /\ answer'[q] = answer[q] /\ answers'[q] = answers[q]
  /\ place[r] \in {"thread", "device", "callback"} /\ place'[r] # "user"
  /\ place'[r] \in {"queue", "thread", "device"} => place[r] \in {"queue", "thread", "device"}
  /\ current' = current \/ (current' = NoRequest /\ current = r)

LEMMA PartsStep ==
  ASSUME TypeOK, IInv, NEW r \in Requests, Past(r), PartTypes', RequestOK(r)', Counted(r)
  PROVE  TypeOK' /\ IInv'
<1>1. Alone(r)
  BY ImageAssumption DEF Alone, Past
<1>2. MayMove(r)
  <2>1. disk # "none"
    BY DEF Past, IInv, PhasesInv
  <2>2. QED
    BY <2>1 DEF MayMove, Past, Inside
<1>3. QueueInv'
  BY QueueStays DEF IInv, Past
<1>4. RequestTypes'
  BY DEF RequestTypes, PartTypes, TypeOK, Past
<1>5. queue' = queue
  BY DEF Past
<1>6. QED
  BY <1>1, <1>2, <1>3, <1>4, <1>5, RequestStep

(* The parts of a request, and its count, stay in their range.             *)
LEMMA PartsType ==
  ASSUME TypeOK, NEW r \in Requests
  PROVE  /\ parts \in [Requests -> PartsOf] /\ parts[r] \in PartsOf
         /\ parts[r].unsent \in Nat /\ parts[r].flying \in Nat /\ parts[r].ending \in Nat
         /\ parts[r].count \in Nat /\ parts[r].count <= MaxParts /\ parts[r].err \in BOOLEAN
         /\ MaxParts \in Nat
         /\ place[r] \in {"user", "queue", "thread", "device", "callback", "answered"}
<1>1. parts \in [Requests -> PartsOf] /\ parts[r] \in PartsOf /\ MaxParts \in Nat
  BY ImageAssumption DEF TypeOK
<1>2. place[r] \in {"user", "queue", "thread", "device", "callback", "answered"}
  BY DEF TypeOK
<1>3. QED
  BY <1>1, <1>2 DEF PartsOf

LEMMA EndioKeepsInv ==
  ASSUME TypeOK, IInv, NEW r \in Requests, Endio(r)
  PROVE  TypeOK' /\ IInv'
<1>1. /\ UNCHANGED <<kernel, userVars, submit, queue, active, thread, disk, defer, deferred, adminVars>>
      /\ own \in Int /\ alloc \in Int
      /\ corrupted' \in BOOLEAN
  BY CountersAreNumbers
     DEF Endio, PartEnds, PartCounted, LastCounted, Callback, TypeOK, queueVars, threadVars, deferVars
<1>2. \A q \in Requests \ {r} :
        /\ parts'[q] = parts[q] /\ (q \in broken' <=> q \in broken)
        /\ place'[q] = place[q] /\ answer'[q] = answer[q] /\ answers'[q] = answers[q]
  BY DEF Endio, PartEnds, PartCounted, LastCounted, Callback, FreeContent, Answer, TypeOK
<1>3. RequestOK(r)
  BY DEF IInv, RequestInv
<1>4. /\ parts \in [Requests -> PartsOf] /\ parts[r] \in PartsOf
      /\ parts[r].unsent \in Nat /\ parts[r].flying \in Nat /\ parts[r].ending \in Nat
      /\ parts[r].count \in Nat /\ parts[r].count <= MaxParts /\ parts[r].err \in BOOLEAN
      /\ MaxParts \in Nat
      /\ place[r] \in {"user", "queue", "thread", "device", "callback", "answered"}
  BY PartsType
<1>5. CASE PartEnds(r)
  <2>1. PICK ok \in BOOLEAN :
          /\ parts[r].flying > 0
          /\ broken' = IF ok THEN broken ELSE broken \cup {r}
          /\ parts' = [parts EXCEPT ![r].flying = @ - 1, ![r].ending = @ + 1, ![r].err = @ \/ ~ok]
    BY <1>5 DEF PartEnds
  <2>2. UNCHANGED <<place, answer, answers, queueVars, current>>
    BY <1>5 DEF PartEnds, threadVars
  <2>3. place[r] = "device"
    BY <1>3, <1>4, <2>1 DEF RequestOK
  <2>4. /\ parts'[r].unsent = parts[r].unsent /\ parts'[r].flying = parts[r].flying - 1
        /\ parts'[r].ending = parts[r].ending + 1 /\ parts'[r].count = parts[r].count
        /\ parts'[r].err = (parts[r].err \/ ~ok)
    BY <1>4, <2>1 DEF PartsOf
  <2>5. parts' \in [Requests -> PartsOf]
    <3>1. parts[r].flying - 1 \in 0 .. MaxParts /\ parts[r].ending + 1 \in 0 .. MaxParts
      BY <1>3, <1>4, <2>1 DEF RequestOK
    <3>2. (parts[r].err \/ ~ok) \in BOOLEAN
      OBVIOUS
    <3>3. QED
      BY <1>4, <2>1, <3>1, <3>2 DEF PartsOf
  <2>6. parts'[r].err <=> r \in broken'
    <3>1. parts[r].err <=> r \in broken
      BY <1>3 DEF RequestOK
    <3>2. QED
      BY <2>1, <2>4, <3>1
  <2>7. RequestOK(r)'
    BY <1>1, <1>3, <1>4, <2>2, <2>3, <2>4, <2>6 DEF RequestOK
  <2>8. /\ r \in Content' <=> r \in Content
        /\ r \in Insiders' <=> r \in Insiders
        /\ r \in Holders' <=> r \in Holders
        /\ r \in Begun' <=> r \in Begun
    BY <1>1, <2>2 DEF Content, Insiders, Holders, Begun, Inside
  <2>9. Counted(r)
    BY <1>1, <2>2, <2>8 DEF Counted, One, queueVars
  <2>10. broken' \subseteq Requests
    BY <2>1 DEF TypeOK
  <2>11. PartTypes'
    BY <1>1, <2>2, <2>5, <2>10 DEF PartTypes, TypeOK, queueVars
  <2>12. Past(r)
    BY <1>1, <1>2, <2>2, <2>3 DEF Past
  <2>13. QED
    BY <2>7, <2>9, <2>11, <2>12, PartsStep
<1>6. CASE PartCounted(r)
  <2>1. /\ parts[r].ending > 0 /\ parts[r].count > 1
        /\ parts' = [parts EXCEPT ![r].ending = @ - 1, ![r].count = @ - 1]
        /\ UNCHANGED <<place, answer, answers, broken, queueVars, current>>
    BY <1>6 DEF PartCounted, threadVars
  <2>2. place[r] = "device"
    BY <1>3, <1>4, <2>1 DEF RequestOK
  <2>3. /\ parts'[r].unsent = parts[r].unsent /\ parts'[r].flying = parts[r].flying
        /\ parts'[r].ending = parts[r].ending - 1 /\ parts'[r].count = parts[r].count - 1
        /\ parts'[r].err = parts[r].err
    BY <1>4, <2>1 DEF PartsOf
  <2>4. parts' \in [Requests -> PartsOf]
    <3>1. parts[r].ending - 1 \in 0 .. MaxParts /\ parts[r].count - 1 \in 0 .. MaxParts
      BY <1>3, <1>4, <2>1 DEF RequestOK
    <3>2. QED
      BY <1>4, <2>1, <3>1 DEF PartsOf
  <2>5. RequestOK(r)'
    BY <1>1, <1>3, <1>4, <2>1, <2>2, <2>3 DEF RequestOK
  <2>6. /\ r \in Content' <=> r \in Content
        /\ r \in Insiders' <=> r \in Insiders
        /\ r \in Holders' <=> r \in Holders
        /\ r \in Begun' <=> r \in Begun
    BY <1>1, <2>1 DEF Content, Insiders, Holders, Begun, Inside
  <2>7. Counted(r)
    BY <1>1, <2>1, <2>6 DEF Counted, One, queueVars
  <2>8. PartTypes'
    BY <1>1, <2>1, <2>4 DEF PartTypes, TypeOK, queueVars
  <2>9. Past(r)
    BY <1>1, <1>2, <2>1, <2>2 DEF Past
  <2>10. QED
    BY <2>5, <2>7, <2>8, <2>9, PartsStep
<1>7. CASE LastCounted(r)
  <2>1. /\ parts[r].ending > 0 /\ parts[r].count = 1
        /\ parts' = [parts EXCEPT ![r].ending = @ - 1, ![r].count = 0]
        /\ UNCHANGED <<answers, broken, own, current>> /\ alloc' = alloc - 1
        /\ place'[r] = "callback" /\ answer'[r] = IF parts[r].err THEN "error" ELSE "ok"
        /\ place' \in [Requests -> {"user", "queue", "thread", "device", "callback", "answered"}]
        /\ answer' \in [Requests -> {"none", "ok", "error"}]
    BY <1>7 DEF LastCounted, FreeContent, threadVars, TypeOK
  <2>2. place[r] = "device"
    BY <1>3, <1>4, <2>1 DEF RequestOK
  <2>3. /\ parts'[r].unsent = parts[r].unsent /\ parts'[r].flying = parts[r].flying
        /\ parts'[r].ending = parts[r].ending - 1 /\ parts'[r].count = 0
        /\ parts'[r].err = parts[r].err
    BY <1>4, <2>1 DEF PartsOf
  <2>4. parts' \in [Requests -> PartsOf]
    <3>1. parts[r].ending - 1 \in 0 .. MaxParts /\ 0 \in 0 .. MaxParts
      BY <1>3, <1>4, <2>1 DEF RequestOK
    <3>2. QED
      BY <1>4, <2>1, <3>1 DEF PartsOf
  <2>5. RequestOK(r)'
    BY <1>1, <1>3, <1>4, <2>1, <2>2, <2>3 DEF RequestOK
  <2>6. /\ r \in Content /\ r \notin Content'
        /\ r \in Insiders' <=> r \in Insiders
        /\ r \in Holders' /\ r \in Holders
        /\ r \in Begun' /\ r \in Begun
    <3>1. submit'[r] = submit[r] /\ submit[r] # "push"
      BY <1>1, <1>3, <2>2 DEF RequestOK
    <3>2. QED
      BY <2>1, <2>2, <3>1 DEF Content, Insiders, Holders, Begun, Inside
  <2>7. Counted(r)
    BY <1>1, <2>1, <2>6 DEF Counted, One
  <2>8. PartTypes'
    BY <1>1, <2>1, <2>4 DEF PartTypes, TypeOK
  <2>9. Past(r)
    BY <1>1, <1>2, <2>1, <2>2 DEF Past
  <2>10. QED
    BY <2>5, <2>7, <2>8, <2>9, PartsStep
<1>8. CASE Callback(r)
  <2>1. /\ place[r] = "callback" /\ Answer(r, answer[r]) /\ own' = own - 1
        /\ current' = IF current = r THEN NoRequest ELSE current
        /\ UNCHANGED <<parts, broken, alloc>>
    BY <1>8 DEF Callback
  <2>2. answers[r] = 0 /\ parts[r].count = 0 /\ (r \in broken => answer[r] = "error")
    BY <1>3, <2>1 DEF RequestOK
  <2>3. /\ place' \in [Requests -> {"user", "queue", "thread", "device", "callback", "answered"}]
        /\ answer' \in [Requests -> {"none", "ok", "error"}]
        /\ place'[r] = "answered" /\ answer'[r] = answer[r]
    BY <2>1 DEF Answer, TypeOK
  <2>4. answers' \in [Requests -> 0 .. MaxParts + 1] /\ answers'[r] = 1
    <3>1. answers \in [Requests -> 0 .. MaxParts + 1] /\ 0 + 1 \in 0 .. MaxParts + 1
      BY <1>4 DEF TypeOK
    <3>2. QED
      BY <2>1, <2>2, <3>1 DEF Answer
  <2>5. RequestOK(r)'
    BY <1>1, <1>3, <1>4, <2>1, <2>2, <2>3, <2>4 DEF RequestOK
  <2>6. /\ r \notin Content /\ r \notin Content'
        /\ r \in Insiders' <=> r \in Insiders
        /\ r \notin Holders' /\ r \in Holders
        /\ r \in Begun' /\ r \in Begun
    <3>1. submit'[r] = submit[r] /\ submit[r] # "push"
      BY <1>1, <1>3, <2>1 DEF RequestOK
    <3>2. QED
      BY <2>1, <2>3, <3>1 DEF Content, Insiders, Holders, Begun, Inside
  <2>7. Counted(r)
    BY <1>1, <2>1, <2>6 DEF Counted, One
  <2>8. PartTypes'
    BY <1>1, <2>1, <2>3, <2>4 DEF PartTypes, TypeOK
  <2>9. Past(r)
    BY <1>1, <1>2, <2>1, <2>3 DEF Past
  <2>10. QED
    BY <2>5, <2>7, <2>8, <2>9, PartsStep
<1>9. QED
  BY <1>5, <1>6, <1>7, <1>8 DEF Endio

(* What the thread does with the request at hand.                          *)
LEMMA ProcessKeepsInv ==
  ASSUME TypeOK, IInv, Redirect \/ Served \/ NotServed \/ Send
  PROVE  TypeOK' /\ IInv'
<1>1. own \in Int /\ alloc \in Int
  BY CountersAreNumbers
<1>2. CASE Redirect
  <2>1. PICK r \in Requests, n \in 1 .. MaxParts :
          /\ current = r /\ place[r] = "thread" /\ parts[r].count = 0
          /\ parts' = [parts EXCEPT ![r].unsent = n, ![r].count = n]
    BY <1>2 DEF Redirect
  <2>2. UNCHANGED <<kernel, userVars, submit, place, answer, broken, answers, queueVars, threadVars, deferVars, adminVars>>
    BY <1>2 DEF Redirect
  <2>3. /\ RequestOK(r)
        /\ parts \in [Requests -> PartsOf] /\ parts[r] \in PartsOf
        /\ parts[r].unsent \in Nat /\ parts[r].flying \in Nat /\ parts[r].ending \in Nat
        /\ n \in Nat /\ n > 0 /\ MaxParts \in Nat
    BY PartsType DEF IInv, RequestInv
  <2>4. /\ parts'[r].unsent = n /\ parts'[r].flying = parts[r].flying
        /\ parts'[r].ending = parts[r].ending /\ parts'[r].count = n /\ parts'[r].err = parts[r].err
        /\ \A q \in Requests \ {r} : parts'[q] = parts[q]
    BY <2>1, <2>3 DEF PartsOf
  <2>5. parts' \in [Requests -> PartsOf]
    <3>1. n \in 0 .. MaxParts
      BY <2>3
    <3>2. QED
      BY <2>1, <2>3, <3>1 DEF PartsOf
  <2>6. RequestOK(r)'
    <3>1. parts[r].flying = 0 /\ parts[r].ending = 0
      BY <2>1, <2>3 DEF RequestOK
    <3>2. place' = place /\ broken' = broken /\ answers' = answers /\ submit' = submit /\ current' = r
      BY <2>1, <2>2 DEF threadVars
    <3>3. QED
      BY <2>1, <2>3, <2>4, <3>1, <3>2 DEF RequestOK
  <2>7. /\ r \in Content' <=> r \in Content
        /\ r \in Insiders' <=> r \in Insiders
        /\ r \in Holders' <=> r \in Holders
        /\ r \in Begun' <=> r \in Begun
    BY <2>2 DEF Content, Insiders, Holders, Begun, Inside
  <2>8. Counted(r)
    BY <1>1, <2>2, <2>7 DEF Counted, One, queueVars
  <2>9. PartTypes'
    BY <1>1, <2>2, <2>5 DEF PartTypes, TypeOK, queueVars, deferVars
  <2>10. Past(r)
    BY <2>1, <2>2, <2>4 DEF Past, queueVars, threadVars, deferVars
  <2>11. QED
    BY <2>6, <2>8, <2>9, <2>10, PartsStep
<1>3. CASE Served \/ NotServed
  <2>1. PICK r \in Requests, how \in {"ok", "error"} :
          current = r /\ place[r] = "thread" /\ parts[r].count = 0 /\ FreeContent(r, how)
    BY <1>3 DEF Served, NotServed
  <2>2. /\ UNCHANGED <<kernel, userVars, submit, parts, broken, answers, queue, active, own, threadVars, defer, deferred, adminVars>>
        /\ corrupted' \in BOOLEAN
    BY <1>3 DEF Served, NotServed, TypeOK, deferVars
  <2>3. RequestOK(r)
    BY DEF IInv, RequestInv
  <2>4. /\ place'[r] = "callback" /\ answer'[r] = how /\ alloc' = alloc - 1
        /\ \A q \in Requests \ {r} : place'[q] = place[q] /\ answer'[q] = answer[q]
        /\ place' \in [Requests -> {"user", "queue", "thread", "device", "callback", "answered"}]
        /\ answer' \in [Requests -> {"none", "ok", "error"}]
    BY <2>1 DEF FreeContent, TypeOK
  <2>5. RequestOK(r)'
    BY <2>1, <2>2, <2>3, <2>4 DEF RequestOK, threadVars
  <2>6. /\ r \in Content /\ r \notin Content'
        /\ r \in Insiders' <=> r \in Insiders
        /\ r \in Holders' /\ r \in Holders
        /\ r \in Begun' /\ r \in Begun
    <3>1. submit'[r] = submit[r] /\ submit[r] # "push"
      BY <2>1, <2>2, <2>3 DEF RequestOK
    <3>2. QED
      BY <2>1, <2>4, <3>1 DEF Content, Insiders, Holders, Begun, Inside
  <2>7. Counted(r)
    BY <1>1, <2>2, <2>4, <2>6 DEF Counted, One
  <2>8. PartTypes'
    BY <1>1, <2>2, <2>4 DEF PartTypes, TypeOK
  <2>9. Past(r)
    BY <2>1, <2>2, <2>4 DEF Past, threadVars
  <2>10. QED
    BY <2>5, <2>7, <2>8, <2>9, PartsStep
<1>4. CASE Send
  <2>1. PICK r \in Requests :
          /\ current = r /\ parts[r].unsent > 0
          /\ place' = [place EXCEPT ![r] = "device"]
          /\ parts' = [parts EXCEPT ![r].unsent = @ - 1, ![r].flying = @ + 1]
          /\ current' = IF parts[r].unsent = 1 THEN NoRequest ELSE r
    BY <1>4 DEF Send
  <2>2. UNCHANGED <<kernel, userVars, submit, answer, broken, answers, queueVars, thread, disk, deferVars, adminVars>>
    BY <1>4 DEF Send
  <2>3. /\ RequestOK(r)
        /\ parts \in [Requests -> PartsOf] /\ parts[r] \in PartsOf
        /\ parts[r].unsent \in Nat /\ parts[r].flying \in Nat /\ parts[r].ending \in Nat
        /\ parts[r].count \in Nat /\ parts[r].count <= MaxParts /\ MaxParts \in Nat
        /\ place[r] \in {"user", "queue", "thread", "device", "callback", "answered"}
    BY PartsType DEF IInv, RequestInv
  <2>4. place[r] \in {"thread", "device"} /\ parts[r].count > 0
    BY <2>1, <2>3 DEF RequestOK
  <2>5. /\ parts'[r].unsent = parts[r].unsent - 1 /\ parts'[r].flying = parts[r].flying + 1
        /\ parts'[r].ending = parts[r].ending /\ parts'[r].count = parts[r].count
        /\ parts'[r].err = parts[r].err
        /\ \A q \in Requests \ {r} : parts'[q] = parts[q]
    BY <2>1, <2>3 DEF PartsOf
  <2>6. /\ place'[r] = "device"
        /\ \A q \in Requests \ {r} : place'[q] = place[q]
        /\ place' \in [Requests -> {"user", "queue", "thread", "device", "callback", "answered"}]
    BY <2>1 DEF TypeOK
  <2>7. parts' \in [Requests -> PartsOf]
    <3>1. parts[r].unsent - 1 \in 0 .. MaxParts /\ parts[r].flying + 1 \in 0 .. MaxParts
      BY <2>1, <2>3 DEF RequestOK
    <3>2. QED
      BY <2>1, <2>3, <3>1 DEF PartsOf
  <2>8. RequestOK(r)'
    BY <2>1, <2>2, <2>3, <2>4, <2>5, <2>6 DEF RequestOK
  <2>9. /\ r \in Content /\ r \in Content'
        /\ r \in Insiders' <=> r \in Insiders
        /\ r \in Holders' /\ r \in Holders
        /\ r \in Begun' /\ r \in Begun
    BY <2>2, <2>4, <2>6 DEF Content, Insiders, Holders, Begun, Inside
  <2>10. Counted(r)
    BY <1>1, <2>2, <2>9 DEF Counted, One, queueVars
  <2>11. PartTypes'
    BY <1>1, <2>2, <2>6, <2>7 DEF PartTypes, TypeOK, queueVars, deferVars
  <2>12. Past(r)
    BY <2>1, <2>2, <2>4, <2>5, <2>6 DEF Past, queueVars, deferVars
  <2>13. QED
    BY <2>8, <2>10, <2>11, <2>12, PartsStep
<1>5. QED
  BY <1>2, <1>3, <1>4

(* The thread takes the first request of the queue.                        *)
LEMMA TakeKeepsInv ==
  ASSUME TypeOK, IInv, Take
  PROVE  TypeOK' /\ IInv'
<1>0. PICK r \in Requests : r = Head(queue)
  <2>1. queue # <<>> /\ queue \in Seq(Requests)
    BY DEF Take, TypeOK
  <2>2. QED
    BY <2>1, HeadTailProperties
<1>1. /\ thread \in {"wait", "drain"} /\ current = NoRequest /\ queue # <<>>
      /\ current' = r /\ queue' = Tail(queue)
      /\ place' = [place EXCEPT ![r] = "thread"]
      /\ thread' = IF thread = "wait" THEN "loop" ELSE thread
      /\ UNCHANGED <<kernel, userVars, submit, answer, parts, broken, answers, active, alloc, own, disk, deferVars, adminVars>>
  BY <1>0 DEF Take
<1>2. /\ queue \in Seq(Requests) /\ r \in Requests /\ r = queue[1] /\ 1 \in 1 .. Len(queue)
      /\ Tail(queue) \in Seq(Requests) /\ Len(queue') = Len(queue) - 1 /\ Len(queue) \in Nat
      /\ \A i \in 1 .. Len(queue) - 1 : queue'[i] = queue[i + 1] /\ i + 1 \in 1 .. Len(queue)
  BY <1>0, <1>1, HeadTailProperties, LenProperties, EmptySeq DEF TypeOK
<1>3. place[r] = "queue" /\ RequestOK(r)
  BY <1>2 DEF IInv, QueueInv, RequestInv
<1>4. /\ place' \in [Requests -> {"user", "queue", "thread", "device", "callback", "answered"}]
      /\ place'[r] = "thread" /\ \A q \in Requests \ {r} : place'[q] = place[q]
  BY <1>1, <1>2 DEF TypeOK
<1>5. RequestInv'
  <2>1. RequestOK(r)'
    <3>1. /\ parts[r].unsent \in Nat /\ parts[r].flying \in Nat /\ parts[r].ending \in Nat
          /\ parts[r].count = 0
      BY <1>2, <1>3, PartsType DEF RequestOK
    <3>2. parts[r].unsent = 0 /\ parts[r].flying = 0 /\ parts[r].ending = 0
      BY <1>3, <3>1 DEF RequestOK
    <3>3. parts' = parts /\ broken' = broken /\ answers' = answers /\ submit' = submit /\ current' = r
      BY <1>1
    <3>4. QED
      BY <1>3, <1>4, <3>1, <3>2, <3>3 DEF RequestOK
  <2>2. ASSUME NEW q \in Requests \ {r}
        PROVE  /\ parts'[q] = parts[q] /\ (q \in broken' <=> q \in broken)
               /\ place'[q] = place[q] /\ answer'[q] = answer[q] /\ answers'[q] = answers[q]
               /\ submit'[q] = submit[q]
               /\ current = q => current' = q
    BY <1>1, <1>4, ImageAssumption
  <2>3. QED
    <3>1. RequestInv /\ r \in Requests
      BY <1>2 DEF IInv
    <3>2. QED
      BY <2>1, <2>2, <3>1, RequestMoves
<1>6. QueueInv'
  <2>1. QueueInv
    BY DEF IInv
  <2>2. \A i \in 1 .. Len(queue') : queue'[i] \in Requests \ {r} /\ place[queue'[i]] = "queue"
    BY <1>2, <2>1, ElementOfSeq DEF QueueInv
  <2>3. \A i, j \in 1 .. Len(queue') : queue'[i] = queue'[j] => i = j
    BY <1>2, <2>1 DEF QueueInv
  <2>4. QED
    BY <1>4, <2>2, <2>3 DEF QueueInv
<1>7. /\ CountsInv'
      /\ alloc' \in 0 .. Cardinality(Requests) /\ own' \in 0 .. 2 * Cardinality(Requests)
  <2>1. /\ r \in Content /\ r \in Content' /\ r \in Holders /\ r \in Holders'
        /\ r \in Begun /\ r \in Begun' /\ (r \in Insiders' <=> r \in Insiders)
    BY <1>1, <1>2, <1>3, <1>4 DEF Content, Insiders, Holders, Begun, Inside
  <2>2. own \in Int /\ alloc \in Int
    BY CountersAreNumbers
  <2>3. QED
    BY <1>1, <1>2, <1>4, <2>1, <2>2, CountsMove DEF IInv, One
<1>8. BoundsInv'
  BY <1>1, BoundsStay DEF IInv, deferVars, adminVars
<1>9. PhasesInv'
  <2>1. PhasesInv
    BY DEF IInv
  <2>2. disk # "none" /\ admin \notin {"unactive", "release", "remove", "cleanup", "done"}
    BY <1>2, <1>3, <1>1, <2>1 DEF PhasesInv
  <2>3. QED
    BY <1>1, <2>1, <2>2 DEF PhasesInv, Inside, adminVars
<1>10. TypeOK'
  <2>1. queue' \in Seq(Requests) /\ current' \in Requests \cup {NoRequest}
    BY <1>1, <1>2
  <2>2. thread' \in {"created", "loop", "wait", "delete", "deleting", "drain", "done"}
    BY <1>1
  <2>3. QED
    BY <1>1, <1>4, <1>7, <2>1, <2>2 DEF TypeOK, userVars, deferVars, adminVars
<1>11. QED
  BY <1>5, <1>6, <1>7, <1>8, <1>9, <1>10 DEF IInv

(* The thread goes on, with no request at hand.                            *)
LEMMA ThreadKeepsInv ==
  ASSUME TypeOK, IInv,
         AddDisk \/ Loop \/ WaitEnds \/ DeleteDisk \/ Deleted \/ ThreadEnds
  PROVE  TypeOK' /\ IInv'
<1>1. /\ UNCHANGED <<kernel, userVars, requestVars, queueVars, current, deferVars, adminVars>>
      /\ thread' \in {"created", "loop", "wait", "delete", "deleting", "drain", "done"}
      /\ disk' \in {"none", "added", "deleted"}
  BY DEF AddDisk, Loop, WaitEnds, DeleteDisk, Deleted, ThreadEnds, Runs, TypeOK
<1>2. RequestInv'
  BY <1>1, RequestsStay DEF IInv
<1>3. QueueInv'
  BY <1>1, QueueStays DEF IInv, requestVars, queueVars
<1>4. /\ CountsInv'
      /\ alloc' \in 0 .. Cardinality(Requests) /\ own' \in 0 .. 2 * Cardinality(Requests)
  BY <1>1, CountsStay DEF IInv, requestVars, queueVars
<1>5. BoundsInv'
  BY <1>1, BoundsStay DEF IInv, deferVars, adminVars
<1>6. TypeOK'
  BY <1>1, <1>4 DEF TypeOK, userVars, requestVars, queueVars, deferVars, adminVars
<1>7. PhasesInv'
  <2>1. PhasesInv
    BY DEF IInv
  <2>2. UNCHANGED <<kernel, submit, place, queue, active, should, admin>>
    BY <1>1 DEF requestVars, queueVars, adminVars
  <2>3. ASSUME disk = "none" PROVE queue = <<>>
    <3>1. \A i \in 1 .. Len(queue) : place[queue[i]] = "queue" /\ queue[i] \in Requests
      BY ElementOfSeq DEF IInv, QueueInv, TypeOK
    <3>2. Len(queue) = 0
      BY <2>1, <2>3, <3>1, LenProperties DEF PhasesInv, TypeOK
    <3>3. QED
      BY <3>2, EmptySeq DEF TypeOK
  <2>4. CASE AddDisk
    BY <2>1, <2>2, <2>3, <2>4 DEF AddDisk, Runs, PhasesInv, Inside
  <2>5. CASE Loop
    BY <2>1, <2>2, <2>5 DEF Loop, Runs, PhasesInv, Inside
  <2>6. CASE WaitEnds
    BY <2>1, <2>2, <2>6 DEF WaitEnds, Runs, PhasesInv, Inside
  <2>7. CASE DeleteDisk
    BY <2>1, <2>2, <2>7 DEF DeleteDisk, Runs, PhasesInv, Inside
  <2>8. CASE Deleted
    BY <2>1, <2>2, <2>8 DEF Deleted, Runs, PhasesInv, Inside
  <2>9. CASE ThreadEnds
    BY <2>1, <2>2, <2>9 DEF ThreadEnds, Runs, PhasesInv, Inside
  <2>10. QED
    BY <2>4, <2>5, <2>6, <2>7, <2>8, <2>9
<1>8. QED
  BY <1>2, <1>3, <1>4, <1>5, <1>6, <1>7 DEF IInv

-----------------------------------------------------------------------------
(* The destruction, and the writes of the original device.                 *)

(* When no content is left no request waits or is under way.               *)
LEMMA NoContentLeft ==
  ASSUME TypeOK, CountsInv, alloc = 0
  PROVE  \A r \in Requests : place[r] \in {"user", "callback", "answered"}
<1>1. IsFiniteSet(Content)
  BY ImageAssumption, FS_Subset DEF Content
<1>2. Content = {}
  BY <1>1, FS_EmptySet DEF CountsInv
<1>3. \A r \in Requests : place[r] \in {"user", "queue", "thread", "device", "callback", "answered"}
  BY DEF TypeOK
<1>4. QED
  BY <1>2, <1>3 DEF Content

LEMMA DestroyKeepsInv ==
  ASSUME TypeOK, IInv, CloseQueue \/ Destroy
  PROVE  TypeOK' /\ IInv'
<1>1. /\ UNCHANGED <<kernel, userVars, requestVars, queue, alloc, own, threadVars, deferVars>>
      /\ admin' \in {"idle", "stopThread", "join", "unactive", "release", "remove", "cleanup", "done"}
  BY DEF CloseQueue, Destroy, StopThread, Join, Unactive, Release, Remove, CleanUp, Admin
<1>2. active' \in BOOLEAN /\ stopped' \in BOOLEAN /\ should' \in BOOLEAN
  <2>1. kernel.stops \in BOOLEAN
    BY ImageAssumption DEF TypeOK
  <2>2. QED
    BY <2>1 DEF CloseQueue, Destroy, StopThread, Join, Unactive, Release, Remove, CleanUp, Admin, TypeOK
<1>3. RequestInv'
  BY <1>1, RequestsStay DEF IInv, threadVars
<1>4. QueueInv'
  BY <1>1, QueueStays DEF IInv, requestVars
<1>5. /\ CountsInv'
      /\ alloc' \in 0 .. Cardinality(Requests) /\ own' \in 0 .. 2 * Cardinality(Requests)
  BY <1>1, CountsStay DEF IInv, requestVars
<1>6. TypeOK'
  BY <1>1, <1>2, <1>5 DEF TypeOK, userVars, requestVars, threadVars, deferVars
<1>7. BoundsInv'
  <2>1. Listed' => Listed
    BY DEF CloseQueue, Destroy, StopThread, Join, Unactive, Release, Remove, CleanUp, Admin, Listed
  <2>2. QED
    BY <1>1, <2>1 DEF IInv, BoundsInv, userVars, deferVars
<1>8. PhasesInv'
  <2>1. PhasesInv /\ kernel.waits \in {"delete", "cleanup"}
    BY ImageAssumption DEF IInv, TypeOK
  <2>2. UNCHANGED <<kernel, submit, place, queue, thread, disk>>
    BY <1>1 DEF requestVars, threadVars
  <2>3. CASE CloseQueue
    BY <2>1, <2>2, <2>3 DEF CloseQueue, Admin, PhasesInv, Inside
  <2>4. CASE StopThread
    BY <2>1, <2>2, <2>4 DEF StopThread, Admin, PhasesInv, Inside
  <2>5. CASE Join
    BY <2>1, <2>2, <2>5 DEF Join, Admin, PhasesInv, Inside
  <2>6. CASE Unactive
    <3>1. \A r \in Requests : place[r] \in {"user", "callback", "answered"}
      BY <2>6, NoContentLeft DEF Unactive, IInv
    <3>2. QED
      BY <2>1, <2>2, <2>6, <3>1 DEF Unactive, Admin, PhasesInv, Inside
  <2>7. CASE Release
    BY <2>1, <2>2, <2>7 DEF Release, Admin, PhasesInv, Inside
  <2>8. CASE Remove
    BY <2>1, <2>2, <2>8 DEF Remove, Admin, PhasesInv, Inside
  <2>9. CASE CleanUp
    <3>1. \A r \in Requests : ~Inside(r)
      BY <2>1, <2>9 DEF CleanUp, Admin, PhasesInv
    <3>2. QED
      BY <2>1, <2>2, <2>9, <3>1 DEF CleanUp, Admin, PhasesInv, Inside
  <2>10. QED
    BY <2>3, <2>4, <2>5, <2>6, <2>7, <2>8, <2>9 DEF Destroy
<1>9. QED
  BY <1>3, <1>4, <1>5, <1>6, <1>7, <1>8 DEF IInv

LEMMA DeferKeepsInv ==
  ASSUME TypeOK, IInv, DeferWrite \/ DeferDone \/ Overflow
  PROVE  TypeOK' /\ IInv'
<1>1. UNCHANGED <<kernel, userVars, requestVars, queueVars, threadVars, adminVars>>
  BY DEF DeferWrite, DeferDone, Overflow
<1>2. RequestInv'
  BY <1>1, RequestsStay DEF IInv, threadVars
<1>3. QueueInv'
  BY <1>1, QueueStays DEF IInv, requestVars, queueVars
<1>4. /\ CountsInv'
      /\ alloc' \in 0 .. Cardinality(Requests) /\ own' \in 0 .. 2 * Cardinality(Requests)
  BY <1>1, CountsStay DEF IInv, requestVars, queueVars
<1>5. PhasesInv'
  BY <1>1 DEF IInv, PhasesInv, Inside, requestVars, queueVars, threadVars, adminVars
<1>6. /\ defer' \in 0 .. MaxDefer /\ deferred' \in 0 .. MaxDefer /\ defer' <= deferred'
      /\ corrupted' \in BOOLEAN
  <2>1. /\ defer \in 0 .. MaxDefer /\ deferred \in 0 .. MaxDefer /\ defer <= deferred
        /\ MaxDefer \in Nat /\ corrupted \in BOOLEAN
    BY ImageAssumption DEF TypeOK, IInv, BoundsInv
  <2>2. CASE DeferWrite
    BY <2>1, <2>2 DEF DeferWrite
  <2>3. CASE DeferDone
    BY <2>1, <2>3 DEF DeferDone
  <2>4. CASE Overflow
    BY <2>1, <2>4 DEF Overflow
  <2>5. QED
    BY <2>2, <2>3, <2>4
<1>7. BoundsInv'
  BY <1>1, <1>6 DEF IInv, BoundsInv, Listed, userVars, adminVars
<1>8. TypeOK'
  BY <1>1, <1>4, <1>6 DEF TypeOK, userVars, requestVars, queueVars, threadVars, adminVars
<1>9. QED
  BY <1>2, <1>3, <1>4, <1>5, <1>7, <1>8 DEF IInv

-----------------------------------------------------------------------------
LEMMA IStep == TypeOK /\ IInv /\ [Next]_vars => TypeOK' /\ IInv'
<1> SUFFICES ASSUME TypeOK, IInv, [Next]_vars PROVE TypeOK' /\ IInv'
  OBVIOUS
<1>1. ASSUME NEW r \in Requests, Enter(r) \/ EnterStopped(r) \/ Submitter(r) \/ Endio(r)
      PROVE  TypeOK' /\ IInv'
  BY <1>1, EnterKeepsInv, SubmitterKeepsInv, EndioKeepsInv
<1>2. CASE Thread
  BY <1>2, ThreadKeepsInv, TakeKeepsInv, ProcessKeepsInv DEF Thread
<1>3. CASE Open \/ Close
  BY <1>3, FilesKeepInv
<1>4. CASE CloseQueue \/ Destroy
  BY <1>4, DestroyKeepsInv
<1>5. CASE DeferWrite \/ DeferDone \/ Overflow
  BY <1>5, DeferKeepsInv
<1>6. CASE UNCHANGED vars
  <2>1. UNCHANGED <<kernel, userVars, requestVars, queueVars, threadVars, deferVars, adminVars>>
    BY <1>6 DEF vars
  <2>2. RequestInv'
    BY <2>1, RequestsStay DEF IInv, threadVars
  <2>3. QueueInv' /\ CountsInv'
    BY <2>1, QueueStays, CountsStay DEF IInv, requestVars, queueVars
  <2>4. BoundsInv' /\ PhasesInv'
    BY <2>1 DEF IInv, BoundsInv, PhasesInv, Listed, Inside, userVars, requestVars, queueVars,
                threadVars, deferVars, adminVars
  <2>5. TypeOK'
    BY <2>1 DEF TypeOK, userVars, requestVars, queueVars, threadVars, deferVars, adminVars
  <2>6. QED
    BY <2>2, <2>3, <2>4, <2>5 DEF IInv
<1>7. QED
  BY <1>1, <1>2, <1>3, <1>4, <1>5, <1>6 DEF Next

(* The invariant of the image holds in every reachable state.              *)
LEMMA ImageInvariant == Spec => [](TypeOK /\ IInv)
<1>1. Init => TypeOK /\ IInv
  BY IInit
<1>2. TypeOK /\ IInv /\ [Next]_vars => (TypeOK /\ IInv)'
  BY IStep
<1>3. QED
  BY <1>1, <1>2, PTL DEF Spec

(* Every variable keeps its type: the contents never outnumber the         *)
(* requests, and own_cnt stays a number, although it is not always given   *)
(* back.                                                                   *)
THEOREM TypeCorrect == Spec => []TypeOK
<1>1. QED
  BY ImageInvariant, PTL

(* _snapimage_bio_complete is called once for each request, with an error  *)
(* if a bio of it failed, whatever the order in which they end.            *)
THEOREM AnswersHonest == Spec => []AnswersAreHonest
<1>1. TypeOK /\ IInv => AnswersAreHonest
  BY DEF IInv, RequestInv, RequestOK, AnswersAreHonest
<1>2. QED
  BY <1>1, ImageInvariant, PTL

(* _snapimage_free finds the thread gone, the queue empty, nobody in       *)
(* submit_bio and no request between its push and its last bio.            *)
THEOREM ImageIsFreedLast == Spec => []ImageOutlivesRequests
<1>1. TypeOK /\ IInv => ImageOutlivesRequests
  BY DEF IInv, PhasesInv, ImageOutlivesRequests
<1>2. QED
  BY <1>1, ImageInvariant, PTL

=============================================================================
