---------------------------- MODULE FrontendProofs ----------------------------
(***************************************************************************)
(* The ring of Fifo keeps its pointers and count in agreement and is a     *)
(* bounded queue, for every depth of at least two and every type of word;  *)
(* the frontend, which uses that queue, gives one path, for every address  *)
(* space, queue depth and set of predicted control flow without returns.   *)
(***************************************************************************)
EXTENDS Frontend, Fifo, SequenceTheorems, TLAPS

LEMMA AdvanceType ==
  ASSUME NEW p \in Index, NEW n \in 0 .. Depth
  PROVE  Advance(p, n) \in Index
BY DepthAssumption DEF Advance, Index

LEMMA AdvanceTwice ==
  ASSUME NEW p \in Index, NEW n \in 0 .. Depth, NEW k \in 0 .. Depth, n + k <= Depth
  PROVE  Advance(Advance(p, n), k) = Advance(p, n + k)
BY DepthAssumption DEF Advance, Index

(* Two slots less than Depth apart are different slots.                    *)
LEMMA AdvanceApart ==
  ASSUME NEW p \in Index, NEW n \in 0 .. Depth - 1, NEW k \in 0 .. Depth - 1, n # k
  PROVE  Advance(p, n) # Advance(p, k)
BY DepthAssumption DEF Advance, Index

LEMMA PushesFit ==
  ASSUME PointersAgree, NEW push0 \in BOOLEAN, NEW push1 \in BOOLEAN
  PROVE  Pushes(push0, push1) \in 0 .. 2 /\ cnt + Pushes(push0, push1) <= Depth
BY DepthAssumption DEF PointersAgree, Pushes

LEMMA TurnKeepsPointers ==
  ASSUME PointersAgree, NEW push0 \in BOOLEAN, NEW push1 \in BOOLEAN, NEW pop \in BOOLEAN,
         NEW d0 \in Data, NEW d1 \in Data, Turn(push0, d0, push1, d1, pop)
  PROVE  PointersAgree'
<1> DEFINE n == Pushes(push0, push1)
<1>1. n \in 0 .. 2 /\ cnt + n <= Depth
  BY PushesFit
<1> HIDE DEF n
<1>2. wr' = Advance(wr, n) /\ rd' = (IF Pops(pop) THEN Advance(rd, 1) ELSE rd)
      /\ cnt' = cnt + n - (IF Pops(pop) THEN 1 ELSE 0)
  BY DEF Turn, n
<1>3. slots' \in [Index -> Data]
  BY PushesFit, DepthAssumption DEF Turn, Filled, PointersAgree, Pushes
<1>4. wr' \in Index /\ rd' \in Index /\ cnt' \in 0 .. Depth
  BY <1>1, <1>2, DepthAssumption DEF PointersAgree, Advance, Index, Pops, Empty
<1>5. wr' = Advance(rd', cnt')
  BY <1>1, <1>2, DepthAssumption DEF PointersAgree, Advance, Index, Pops, Empty
<1> QED BY <1>3, <1>4, <1>5 DEF PointersAgree

(* The pointers and the count agree in every reachable state (fifo.sv).    *)
THEOREM PointersSound == FifoSpec => []PointersAgree
<1>1. FifoInit => PointersAgree
  BY DepthAssumption DEF FifoInit, PointersAgree, Advance, Index
<1>2. PointersAgree /\ [FifoNext]_fifoVars => PointersAgree'
  <2> SUFFICES ASSUME PointersAgree, [FifoNext]_fifoVars PROVE PointersAgree'
    OBVIOUS
  <2>1. CASE Flush
    BY <2>1, DepthAssumption DEF Flush, PointersAgree, Advance, Index
  <2>2. ASSUME NEW push0 \in BOOLEAN, NEW push1 \in BOOLEAN, NEW pop \in BOOLEAN,
               NEW d0 \in Data, NEW d1 \in Data, Turn(push0, d0, push1, d1, pop)
        PROVE  PointersAgree'
    BY <2>2, TurnKeepsPointers
  <2>3. CASE UNCHANGED fifoVars
    BY <2>3 DEF fifoVars, PointersAgree, Advance, Index
  <2> QED BY <2>1, <2>2, <2>3 DEF FifoNext
<1> QED BY <1>1, <1>2, PTL DEF FifoSpec

-----------------------------------------------------------------------------
LEMMA ContentsType ==
  ASSUME PointersAgree
  PROVE  /\ Contents \in Seq(Data)
         /\ Len(Contents) = cnt
         /\ \A i \in 1 .. cnt : Contents[i] = slots[Advance(rd, i - 1)]
<1>1. cnt \in Nat /\ cnt <= Depth /\ Depth \in Nat
  BY DepthAssumption DEF PointersAgree
<1>2. \A i \in 1 .. cnt : slots[Advance(rd, i - 1)] \in Data
  <2> TAKE i \in 1 .. cnt
  <2>1. i - 1 \in 0 .. Depth
    BY <1>1
  <2>2. Advance(rd, i - 1) \in Index
    BY <2>1, AdvanceType DEF PointersAgree
  <2> QED BY <2>2 DEF PointersAgree
<1> QED BY <1>1, <1>2, IsASeq DEF Contents

LEMMA ContentsTypeNext ==
  ASSUME PointersAgree'
  PROVE  /\ Contents' \in Seq(Data)
         /\ Len(Contents') = cnt'
         /\ \A i \in 1 .. cnt' : Contents'[i] = slots'[Advance(rd', i - 1)]
<1>1. cnt' \in Nat /\ cnt' <= Depth /\ Depth \in Nat
  BY DepthAssumption DEF PointersAgree
<1>2. \A i \in 1 .. cnt' : slots'[Advance(rd', i - 1)] \in Data
  <2> TAKE i \in 1 .. cnt'
  <2>1. i - 1 \in 0 .. Depth
    BY <1>1
  <2>2. Advance(rd', i - 1) \in Index
    BY <2>1, AdvanceType DEF PointersAgree
  <2> QED BY <2>2 DEF PointersAgree
<1> QED BY <1>1, <1>2, IsASeq DEF Contents, Advance

(* What the two ports offer, port 0 first.                                 *)
OfferedWords(push0, d0, push1, d1) ==
    IF push0 /\ push1 THEN <<d0, d1>>
    ELSE IF push0 THEN <<d0>> ELSE IF push1 THEN <<d1>> ELSE <<>>

(* The abstract queue keeps what the pop leaves, at the new read pointer.  *)
LEMMA RestOfContents ==
  ASSUME PointersAgree, NEW pop \in BOOLEAN
  PROVE  LET p == IF Pops(pop) THEN Advance(rd, 1) ELSE rd
             left == cnt - (IF Pops(pop) THEN 1 ELSE 0)
         IN  /\ Bounded!Rest(pop) \in Seq(Data)
             /\ Len(Bounded!Rest(pop)) = left
             /\ left \in 0 .. cnt
             /\ \A i \in 1 .. left : Bounded!Rest(pop)[i] = slots[Advance(p, i - 1)]
<1>1. cnt \in Nat /\ cnt <= Depth /\ Depth \in Nat /\ rd \in Index
  BY DepthAssumption DEF PointersAgree
<1>2. CASE Pops(pop)
  <2>1. pop /\ cnt # 0 /\ Contents # <<>>
    BY <1>1, <1>2, ContentsType DEF Pops, Empty
  <2>2. Bounded!Rest(pop) = Tail(Contents)
    BY <2>1 DEF Bounded!Rest
  <2>3. /\ Tail(Contents) \in Seq(Data) /\ Len(Tail(Contents)) = cnt - 1
        /\ \A i \in 1 .. cnt - 1 : Tail(Contents)[i] = Contents[i + 1]
    BY <2>1, ContentsType, HeadTailProperties
  <2>4. ASSUME NEW i \in 1 .. cnt - 1
        PROVE  Tail(Contents)[i] = slots[Advance(Advance(rd, 1), i - 1)]
    <3>1. Contents[i + 1] = slots[Advance(rd, i)]
      BY <1>1, ContentsType
    <3>2. Advance(Advance(rd, 1), i - 1) = Advance(rd, i)
      BY <1>1, DepthAssumption, AdvanceTwice
    <3> QED BY <2>3, <3>1, <3>2
  <2> DEFINE tail == Tail(Contents)
  <2> HIDE DEF tail
  <2>5. /\ tail \in Seq(Data) /\ Len(tail) = cnt - 1
        /\ \A i \in 1 .. cnt - 1 : tail[i] = slots[Advance(Advance(rd, 1), i - 1)]
    BY <2>3, <2>4 DEF tail
  <2>6. Bounded!Rest(pop) = tail
    BY <2>2 DEF tail
  <2>7. cnt - 1 \in 0 .. cnt
    BY <1>1, <2>1
  <2> QED BY <1>2, <2>5, <2>6, <2>7
<1>3. CASE ~Pops(pop)
  <2>1. Bounded!Rest(pop) = Contents
    BY <1>1, <1>3, ContentsType DEF Bounded!Rest, Pops, Empty
  <2> QED BY <1>1, <1>3, <2>1, ContentsType
<1> QED BY <1>2, <1>3

(* It takes as many words as the ring writes, port 0's first.              *)
LEMMA TakenIsPushed ==
  ASSUME PointersAgree, NEW push0 \in BOOLEAN, NEW push1 \in BOOLEAN,
         NEW d0 \in Data, NEW d1 \in Data
  PROVE  LET taken == Bounded!Taken(OfferedWords(push0, d0, push1, d1))
             n == Pushes(push0, push1)
         IN  /\ taken \in Seq(Data) /\ Len(taken) = n
             /\ n = 1 => taken = <<IF push0 THEN d0 ELSE d1>>
             /\ n = 2 => taken = <<d0, d1>>
<1>1. cnt \in Nat /\ cnt <= Depth /\ Depth \in Nat /\ Depth >= 2 /\ Len(Contents) = cnt
  BY DepthAssumption, ContentsType DEF PointersAgree
<1>2. CASE push0 /\ push1
  BY <1>1, <1>2 DEF Bounded!Taken, OfferedWords, Pushes
<1>3. CASE push0 /\ ~push1
  BY <1>1, <1>3 DEF Bounded!Taken, OfferedWords, Pushes
<1>4. CASE ~push0 /\ push1
  BY <1>1, <1>4 DEF Bounded!Taken, OfferedWords, Pushes
<1>5. CASE ~push0 /\ ~push1
  BY <1>1, <1>5 DEF Bounded!Taken, OfferedWords, Pushes
<1> QED BY <1>2, <1>3, <1>4, <1>5

(* A cycle of the ring is the same cycle of the abstract queue.            *)
LEMMA TurnIsTurn ==
  ASSUME PointersAgree, NEW push0 \in BOOLEAN, NEW push1 \in BOOLEAN, NEW pop \in BOOLEAN,
         NEW d0 \in Data, NEW d1 \in Data, Turn(push0, d0, push1, d1, pop)
  PROVE  Bounded!Turn(OfferedWords(push0, d0, push1, d1), pop)
<1> DEFINE n == Pushes(push0, push1)
           gone == IF Pops(pop) THEN 1 ELSE 0
           left == cnt - gone
           rest == Bounded!Rest(pop)
           taken == Bounded!Taken(OfferedWords(push0, d0, push1, d1))
<1>1. /\ n \in 0 .. 2 /\ cnt + n <= Depth /\ cnt \in 0 .. Depth /\ Depth \in Nat
      /\ gone \in 0 .. 1 /\ left \in 0 .. cnt /\ left = cnt - gone
  BY PushesFit, RestOfContents, DepthAssumption DEF PointersAgree
<1>2. /\ rest \in Seq(Data) /\ Len(rest) = left
      /\ \A i \in 1 .. left : rest[i] = slots[Advance(rd', i - 1)]
  BY RestOfContents DEF Turn
<1>3. /\ taken \in Seq(Data) /\ Len(taken) = n
      /\ n = 1 => taken = <<IF push0 THEN d0 ELSE d1>>
      /\ n = 2 => taken = <<d0, d1>>
  BY TakenIsPushed
<1>4. cnt' = left + n /\ rd' = Advance(rd, gone) /\ rd \in Index /\ wr = Advance(rd, cnt)
  BY DepthAssumption, <1>1 DEF Turn, PointersAgree, Advance, Index
<1>5. /\ slots \in [Index -> Data]
      /\ n = 0 => slots' = slots
      /\ n = 1 => slots' = [slots EXCEPT ![wr] = IF push0 THEN d0 ELSE d1]
      /\ n = 2 => slots' = [slots EXCEPT ![wr] = d0, ![Advance(wr, 1)] = d1]
  BY DEF Turn, Filled, PointersAgree
<1>6. PointersAgree'
  BY TurnKeepsPointers
<1>7. Contents' \in Seq(Data) /\ Len(Contents') = cnt'
      /\ \A i \in 1 .. cnt' : Contents'[i] = slots'[Advance(rd', i - 1)]
  BY <1>6, ContentsTypeNext
<1> HIDE DEF n, gone, left, rest, taken
<1>8. ASSUME NEW i \in 1 .. cnt'
      PROVE  Advance(rd', i - 1) = Advance(rd, i - 1 + gone)
  BY <1>1, <1>4, DepthAssumption DEF Advance, Index
<1>9. n = 2 => Advance(wr, 1) = Advance(rd, cnt + 1)
  BY <1>1, <1>4, AdvanceTwice
<1>10. ASSUME NEW i \in 1 .. left
       PROVE  Contents'[i] = rest[i]
  <2>1. i \in 1 .. cnt' /\ i - 1 + gone \in 0 .. cnt - 1 /\ i - 1 + gone \in 0 .. Depth - 1
    BY <1>1, <1>4
  <2>2. n # 0 => Advance(rd, i - 1 + gone) # wr
    BY <2>1, <1>1, <1>4, AdvanceApart
  <2>3. n = 2 => Advance(rd, i - 1 + gone) # Advance(wr, 1)
    BY <2>1, <1>1, <1>4, <1>9, AdvanceApart
  <2>4. Advance(rd, i - 1 + gone) \in Index
    BY <2>1, <1>1, <1>4, AdvanceType
  <2>5. slots'[Advance(rd, i - 1 + gone)] = slots[Advance(rd, i - 1 + gone)]
    BY <2>2, <2>3, <2>4, <1>1, <1>5
  <2> QED BY <2>1, <2>5, <1>2, <1>7, <1>8
<1>11. ASSUME NEW i \in 1 .. cnt', i > left
       PROVE  Contents'[i] = taken[i - left]
  <2> DEFINE k == i - left
  <2>1. k \in 1 .. n /\ i - 1 + gone = cnt + (k - 1)
    BY <1>1, <1>4, <1>11
  <2>2. Contents'[i] = slots'[Advance(rd, i - 1 + gone)]
    BY <1>7, <1>8
  <2>3. wr \in Index /\ (n = 2 => Advance(wr, 1) \in Index /\ Advance(wr, 1) # wr)
    BY <1>1, DepthAssumption DEF PointersAgree, Advance, Index
  <2> HIDE DEF k
  <2>4. CASE k = 1
    <3>1. i - 1 + gone = cnt
      BY <2>1, <2>4, <1>1
    <3>2. Contents'[i] = slots'[wr]
      BY <2>2, <3>1, <1>4
    <3>3. taken[k] = slots'[wr]
      BY <2>1, <2>3, <2>4, <1>1, <1>3, <1>5
    <3> QED BY <3>2, <3>3 DEF k
  <2>5. CASE k = 2
    <3>1. n = 2 /\ i - 1 + gone = cnt + 1
      BY <2>1, <2>5, <1>1
    <3>2. Contents'[i] = slots'[Advance(wr, 1)]
      BY <2>2, <3>1, <1>9
    <3>3. taken[k] = slots'[Advance(wr, 1)]
      BY <3>1, <2>3, <2>5, <1>3, <1>5
    <3> QED BY <3>2, <3>3 DEF k
  <2> QED BY <2>1, <2>4, <2>5, <1>1
<1>12. /\ rest \o taken \in Seq(Data) /\ Len(rest \o taken) = left + n
       /\ \A i \in 1 .. left + n : (rest \o taken)[i] =
             IF i <= left THEN rest[i] ELSE taken[i - left]
  <2> HIDE DEF rest, taken, left, n
  <2>1. /\ rest \o taken \in Seq(Data) /\ Len(rest \o taken) = Len(rest) + Len(taken)
        /\ \A i \in 1 .. Len(rest) + Len(taken) : (rest \o taken)[i] =
              IF i <= Len(rest) THEN rest[i] ELSE taken[i - Len(rest)]
    BY <1>2, <1>3, ConcatProperties
  <2> QED
    BY <1>2, <1>3, <2>1
<1>13. ASSUME NEW i \in 1 .. cnt'
       PROVE  Contents'[i] = (rest \o taken)[i]
  <2>1. CASE i <= left
    <3>1. i \in 1 .. left
      BY <2>1, <1>1, <1>4
    <3> QED BY <3>1, <2>1, <1>4, <1>10, <1>12
  <2>2. CASE ~(i <= left)
    <3>1. i > left
      BY <2>2, <1>1, <1>4
    <3> QED BY <2>2, <3>1, <1>4, <1>11, <1>12
  <2> QED BY <2>1, <2>2
<1>14. Contents' = rest \o taken
  BY <1>4, <1>7, <1>12, <1>13, SeqEqual
<1> QED BY <1>14 DEF Bounded!Turn, rest, taken

(* The ring implements the bounded queue (fifo.sv:38-99).                  *)
THEOREM FifoRefinement == FifoSpec => IsBoundedQueue
<1>1. FifoInit => Bounded!Init
  <2> SUFFICES ASSUME FifoInit PROVE Bounded!Init
    OBVIOUS
  <2>1. PointersAgree /\ cnt = 0
    BY DepthAssumption DEF FifoInit, PointersAgree, Advance, Index
  <2>2. Contents \in Seq(Data) /\ Len(Contents) = 0
    BY <2>1, ContentsType
  <2> QED BY <2>2, EmptySeq DEF Bounded!Init
<1>2. PointersAgree /\ [FifoNext]_fifoVars => [Bounded!Next]_Contents
  <2> SUFFICES ASSUME PointersAgree, [FifoNext]_fifoVars PROVE [Bounded!Next]_Contents
    OBVIOUS
  <2>1. CASE Flush
    <3>1. PointersAgree' /\ cnt' = 0
      BY <2>1, DepthAssumption DEF Flush, PointersAgree, Advance, Index
    <3>2. Contents' \in Seq(Data) /\ Len(Contents') = 0
      BY <3>1, ContentsTypeNext
    <3> QED BY <3>2, EmptySeq DEF Bounded!Next, Bounded!Flush
  <2>2. ASSUME NEW push0 \in BOOLEAN, NEW push1 \in BOOLEAN, NEW pop \in BOOLEAN,
               NEW d0 \in Data, NEW d1 \in Data, Turn(push0, d0, push1, d1, pop)
        PROVE  Bounded!Next
    <3>1. Bounded!Turn(OfferedWords(push0, d0, push1, d1), pop)
      BY <2>2, TurnIsTurn
    <3>2. OfferedWords(push0, d0, push1, d1) \in Bounded!Offers
      BY DEF OfferedWords, Bounded!Offers
    <3> QED BY <3>1, <3>2 DEF Bounded!Next
  <2>3. CASE UNCHANGED fifoVars
    BY <2>3 DEF fifoVars, Contents, Advance
  <2> QED BY <2>1, <2>2, <2>3 DEF FifoNext
<1>3. FifoSpec => []PointersAgree
  BY PointersSound
<1> QED BY <1>1, <1>2, <1>3, PTL DEF FifoSpec, IsBoundedQueue, Bounded!Spec

-----------------------------------------------------------------------------
LEMMA SequelType == \A a \in Address : Sequel(a) \in Address
BY WordsAssumption DEF Address, Sequel

LEMMA TargetType == \A c \in CommitRequest : CommitTarget(c) \in Address
BY SequelType DEF CommitRequest, CommitTarget

LEMMA RedirectType ==
  ASSUME NEW request \in Requests, Flushes(request)
  PROVE  Redirect(request) \in Address
<1>1. request.mispredict \in Address \cup {None} /\ request.commit \in CommitRequest \cup {None}
  BY DEF Requests
<1>2. request.mispredict # None \/ request.commit # None
  BY DEF Flushes, Nothing, Requests
<1> QED BY <1>1, <1>2, TargetType DEF Redirect

LEMMA BaseType == ASSUME TypeOK PROVE Base \in Address
BY BootAssumption DEF TypeOK, Base, Address

LEMMA PredictionType ==
  ASSUME NEW p \in Predictions
  PROVE  p.target \in Address /\ p.cf \in Flows \cup {"NoCF"}
BY WordsAssumption DEF Predictions, NoPrediction, Address

LEMMA SeenType == ASSUME NEW p \in Seen PROVE p \in Predictions
BY DEF Seen, Predictions

LEMMA FetchAddressType ==
  ASSUME TypeOK, NEW p \in Predictions
  PROVE  FetchAddress(p) \in Address
BY BaseType, PredictionType DEF FetchAddress

LEMMA OfferedType ==
  ASSUME TypeOK, NEW p \in Seen
  PROVE  /\ Offered(p) \in Seq(Entry)
         /\ Offered(p) # <<>> => Offered(p) = <<[addr |-> fetched, cf |-> p.cf, target |-> p.target]>>
         /\ Offered(p) # <<>> <=> fetched # None /\ ~QueueFull
<1>1. p.target \in Address /\ p.cf \in Flows \cup {"NoCF"}
  BY SeenType, PredictionType
<1>2. CASE fetched # None /\ ~QueueFull
  <2>1. [addr |-> fetched, cf |-> p.cf, target |-> p.target] \in Entry
    BY <1>1, <1>2 DEF Entry, TypeOK
  <2> QED BY <2>1, <1>2 DEF Offered
<1>3. CASE ~(fetched # None /\ ~QueueFull)
  BY <1>3 DEF Offered
<1> QED BY <1>2, <1>3

-----------------------------------------------------------------------------
(* An edge of the queue in a cycle without a flush.                        *)
LEMMA QueueTurn ==
  ASSUME TypeOK, NEW p \in Seen, NEW pop \in BOOLEAN, Queue!Turn(Offered(p), pop)
  PROVE  /\ queue' = Queue!Rest(pop) \o Offered(p)
         /\ Queue!Rest(pop) \in Seq(Entry)
         /\ queue' \in Seq(Entry)
         /\ Len(queue') <= QueueDepth
<1>1. Len(queue) \in Nat /\ Len(queue) <= QueueDepth /\ QueueDepth \in Nat /\ queue \in Seq(Entry)
  BY QueueDepthAssumption DEF TypeOK
<1>2. Queue!Taken(Offered(p)) = Offered(p)
  BY <1>1, OfferedType DEF Queue!Taken, QueueFull
<1>3. Queue!Rest(pop) \in Seq(Entry) /\ Len(Queue!Rest(pop)) <= Len(queue)
      /\ Len(Queue!Rest(pop)) \in Nat
  BY <1>1 DEF Queue!Rest
<1>4. queue' = Queue!Rest(pop) \o Offered(p)
  BY <1>2 DEF Queue!Turn
<1>5. Len(queue') = Len(Queue!Rest(pop)) + Len(Offered(p))
  BY <1>3, <1>4, OfferedType
<1>6. Offered(p) # <<>> => Len(Offered(p)) = 1 /\ Len(queue) < QueueDepth
  BY <1>1, OfferedType DEF QueueFull
<1>7. Len(queue') <= QueueDepth
  <2>1. CASE Offered(p) = <<>>
    BY <2>1, <1>1, <1>3, <1>5
  <2>2. CASE Offered(p) # <<>>
    <3>1. Len(queue') = Len(Queue!Rest(pop)) + 1 /\ Len(queue) < QueueDepth
      BY <2>2, <1>5, <1>6
    <3> QED BY <3>1, <1>1, <1>3
  <2> QED BY <2>1, <2>2
<1> QED BY <1>3, <1>4, <1>7, OfferedType

LEMMA GivenType == ASSUME TypeOK, NEW pop PROVE Give(pop) \in Entry \cup {None}
BY DEF TypeOK, Give

LEMMA TypeInit == Init => TypeOK
BY WordsAssumption, QueueDepthAssumption
   DEF Init, TypeOK, Queue!Init, Address, Nothing, Requests

LEMMA TypeNext == TypeOK /\ [Next]_vars => TypeOK'
<1> SUFFICES ASSUME TypeOK, [Next]_vars PROVE TypeOK'
  OBVIOUS
<1>1. ASSUME NEW p \in Seen, NEW request \in Requests, NEW ready \in BOOLEAN,
             NEW answer \in BOOLEAN, NEW halt \in BOOLEAN, NEW pop \in BOOLEAN,
             Cycle(p, ready, answer, halt, pop, request)
      PROVE  TypeOK'
  <2>1. p \in Predictions
    BY SeenType
  <2>2. FetchAddress(p) \in Address /\ Sequel(FetchAddress(p)) \in Address
    BY <2>1, FetchAddressType, SequelType
  <2>3. npcRst' \in BOOLEAN /\ npc' \in Address
    BY <1>1, <2>2, RedirectType DEF Cycle, NpcD, TypeOK, Replay
  <2>4. fetched' \in Address \cup {None} /\ pending' \in Address \cup {None}
    BY <1>1, <2>2 DEF Cycle, Fetched, Pending, TypeOK
  <2>5. queue' \in Seq(Entry) /\ Len(queue') <= QueueDepth
    <3>1. CASE Flushes(request)
      BY <1>1, <3>1, QueueDepthAssumption DEF Cycle, QueueEdge, Queue!Flush
    <3>2. CASE ~Flushes(request)
      BY <1>1, <3>2, QueueTurn DEF Cycle, QueueEdge
    <3> QED BY <3>1, <3>2
  <2>6. given' \in Entry \cup {None} /\ asked' \in Requests
    BY <1>1, GivenType DEF Cycle
  <2> QED BY <2>3, <2>4, <2>5, <2>6 DEF TypeOK
<1>2. CASE UNCHANGED vars
  BY <1>2 DEF vars, frontVars, TypeOK
<1> QED BY <1>1, <1>2 DEF Next

(* The registers stay in range (frontend.sv:372-402, instr_queue.sv).      *)
THEOREM FrontendTyped == Spec => []TypeOK
BY TypeInit, TypeNext, PTL DEF Spec

-----------------------------------------------------------------------------
(* Registers only: what will be given after the queue is, when the cycle   *)
(* offers nothing, what it was, and otherwise what the offered instruction *)
(* leads to.                                                               *)
LEMMA StagesStep ==
  ASSUME "Return" \notin Flows, TypeOK, OnePath,
         NEW p \in Seen, NEW request \in Requests, NEW ready \in BOOLEAN,
         NEW answer \in BOOLEAN, NEW halt \in BOOLEAN, NEW pop \in BOOLEAN,
         Cycle(p, ready, answer, halt, pop, request), ~Flushes(request)
  PROVE  /\ Offered(p) = <<>> => FetchedDue' = FetchedDue
         /\ Offered(p) # <<>> => FetchedDue' = Follower(Offered(p)[1])
         /\ fetched' # None => PendingDue' = Sequel(fetched')
         /\ pending' # None => Base' = Sequel(pending')
<1>1. Base' = npc'
  BY DEF Cycle, Base
<1>2. npc' = NpcD(p, ready, halt, request) /\ fetched' = Fetched(p, answer, request)
      /\ pending' = Pending(p, ready, halt, answer, request)
      /\ (ready => pending = None \/ answer)
  BY DEF Cycle
<1>3. FetchAddress(p) \in Address /\ FetchAddress(p) # None /\ Base \in Address
  BY SeenType, FetchAddressType, BaseType, NoneAssumption
<1>4. /\ fetched # None => PendingDue = Sequel(fetched)
      /\ pending # None => Base = Sequel(pending)
  BY DEF OnePath
<1>5. CASE QueueFull /\ fetched # None
  <2>1. Replay /\ KillS1(request) /\ KillS2(p, request) /\ Offered(p) = <<>>
    BY <1>5 DEF Replay, KillS1, KillS2, Offered
  <2>2. fetched' = None /\ pending' = None /\ npc' = fetched
    BY <1>2, <2>1 DEF Fetched, Pending, Takes, NpcD
  <2> QED BY <1>1, <1>5, <2>1, <2>2 DEF FetchedDue, PendingDue
<1>6. CASE QueueFull /\ fetched = None
  <2>1. ~Replay /\ ~BpValid(p) /\ ~KillS1(request) /\ ~KillS2(p, request) /\ Offered(p) = <<>>
    BY <1>6 DEF Replay, KillS1, KillS2, Offered, Seen, NoPrediction, BpValid
  <2>2. ~IfReady(ready, halt) /\ ~Takes(p, ready, halt, request) /\ FetchAddress(p) = Base
    BY <1>6, <2>1 DEF IfReady, Asks, Takes, FetchAddress
  <2>3. npc' = Base
        /\ fetched' = (IF Answers(answer) THEN pending ELSE None)
        /\ pending' = (IF Answers(answer) THEN None ELSE pending)
    BY <1>2, <2>1, <2>2 DEF Fetched, Pending, NpcD
  <2> QED BY <1>1, <1>4, <1>6, <2>1, <2>3 DEF FetchedDue, PendingDue, Answers
<1>7. CASE ~QueueFull /\ ~BpValid(p)
  <2>1. ~Replay /\ ~KillS1(request) /\ ~KillS2(p, request) /\ FetchAddress(p) = Base
    BY <1>7 DEF Replay, KillS1, KillS2, FetchAddress
  <2>2. /\ npc' = (IF IfReady(ready, halt) THEN Sequel(Base) ELSE Base)
        /\ fetched' = (IF Answers(answer) THEN pending ELSE None)
        /\ pending' = (IF IfReady(ready, halt) THEN Base
                       ELSE IF Answers(answer) THEN None ELSE pending)
        /\ IfReady(ready, halt) => pending = None \/ answer
    BY <1>2, <2>1 DEF Fetched, Pending, Takes, NpcD, IfReady
  <2>3. FetchedDue' = PendingDue
    BY <1>1, <1>3, <2>2, NoneAssumption DEF FetchedDue, PendingDue, Answers
  <2>4. /\ fetched' # None => PendingDue' = Sequel(fetched')
        /\ pending' # None => Base' = Sequel(pending')
    BY <1>1, <1>3, <1>4, <2>2, NoneAssumption DEF PendingDue, Answers
  <2>5. fetched # None => Offered(p)[1].cf = "NoCF" /\ Offered(p)[1].addr = fetched
    <3>1. p.cf = "NoCF"
      BY <1>7, SeenType, PredictionType, FlowsAssumption DEF BpValid
    <3> QED BY <1>7, <3>1 DEF Offered
  <2> QED BY <1>4, <1>7, <2>3, <2>4, <2>5, OfferedType DEF FetchedDue, Follower
<1>8. CASE ~QueueFull /\ BpValid(p)
  <2>1. fetched # None /\ p.cf # "NoCF"
    BY <1>8 DEF Seen, NoPrediction, BpValid
  <2>2. ~Replay /\ ~KillS1(request) /\ KillS2(p, request) /\ FetchAddress(p) = p.target
    BY <1>8 DEF Replay, KillS1, KillS2, FetchAddress
  <2>3. /\ npc' = (IF IfReady(ready, halt) THEN Sequel(p.target) ELSE p.target)
        /\ fetched' = None
        /\ pending' = (IF IfReady(ready, halt) THEN p.target ELSE None)
    BY <1>2, <2>2 DEF Fetched, Pending, Takes, NpcD
  <2>4. FetchedDue' = p.target
    BY <1>1, <1>3, <2>2, <2>3 DEF FetchedDue, PendingDue
  <2>5. Offered(p) # <<>> /\ Follower(Offered(p)[1]) = p.target
    BY <1>8, <2>1 DEF Offered, Follower
  <2> QED BY <1>1, <2>3, <2>4, <2>5
<1> QED BY <1>5, <1>6, <1>7, <1>8

(* A flush leaves one address, the one that was asked for.                 *)
LEMMA FlushStep ==
  ASSUME NEW p \in Seen, NEW request \in Requests, NEW ready \in BOOLEAN,
         NEW answer \in BOOLEAN, NEW halt \in BOOLEAN, NEW pop \in BOOLEAN,
         Cycle(p, ready, answer, halt, pop, request), Flushes(request)
  PROVE  /\ queue' = <<>> /\ fetched' = None /\ pending' = None
         /\ Due' = Redirect(request)
<1>1. queue' = <<>> /\ fetched' = None /\ pending' = None
  BY DEF Cycle, QueueEdge, Queue!Flush, Fetched, Pending, Takes, KillS1, KillS2
<1>2. Base' = Redirect(request)
  BY DEF Cycle, Base, NpcD
<1> QED BY <1>1, <1>2 DEF Due, FetchedDue, PendingDue

-----------------------------------------------------------------------------
(* Sequences of entries that lead to one another.                          *)
LEMMA ChainedTail ==
  ASSUME NEW q \in Seq(Entry), q # <<>>, Chained(q)
  PROVE  /\ Chained(Tail(q))
         /\ Tail(q) # <<>> => /\ Tail(q)[1].addr = Follower(q[1])
                             /\ Tail(q)[Len(Tail(q))] = q[Len(q)]
<1>1. Len(Tail(q)) = Len(q) - 1 /\ Len(q) \in Nat \ {0}
      /\ \A i \in 1 .. Len(Tail(q)) : Tail(q)[i] = q[i + 1]
  OBVIOUS
<1>2. ASSUME NEW i \in 1 .. Len(Tail(q)) - 1
      PROVE  Tail(q)[i + 1].addr = Follower(Tail(q)[i])
  <2>1. q[(i + 1) + 1].addr = Follower(q[i + 1])
    BY <1>1 DEF Chained
  <2> QED BY <1>1, <2>1
<1>3. ASSUME Tail(q) # <<>> PROVE Len(q) > 1
  BY <1>1, <1>3
<1>4. ASSUME Tail(q) # <<>>
      PROVE  Tail(q)[1].addr = Follower(q[1]) /\ Tail(q)[Len(Tail(q))] = q[Len(q)]
  <2>1. 1 \in 1 .. Len(q) - 1 /\ 1 \in 1 .. Len(Tail(q)) /\ Len(q) - 1 \in 1 .. Len(Tail(q))
    BY <1>1, <1>3, <1>4
  <2>2. q[1 + 1].addr = Follower(q[1])
    BY <2>1 DEF Chained
  <2>3. Tail(q)[1] = q[1 + 1] /\ Tail(q)[Len(q) - 1] = q[(Len(q) - 1) + 1]
    BY <1>1, <2>1
  <2>4. (Len(q) - 1) + 1 = Len(q) /\ Len(Tail(q)) = Len(q) - 1
    BY <1>1
  <2>5. Tail(q)[1].addr = Follower(q[1])
    BY <2>2, <2>3
  <2>6. Tail(q)[Len(Tail(q))] = q[Len(q)]
    BY <2>3, <2>4
  <2> QED BY <2>5, <2>6
<1> QED BY <1>2, <1>4 DEF Chained

LEMMA ChainedAppend ==
  ASSUME NEW q \in Seq(Entry), NEW e \in Entry, Chained(q),
         q # <<>> => Follower(q[Len(q)]) = e.addr
  PROVE  /\ Chained(q \o <<e>>)
         /\ (q \o <<e>>)[Len(q \o <<e>>)] = e
         /\ (q \o <<e>>)[1] = IF q # <<>> THEN q[1] ELSE e
<1> DEFINE r == q \o <<e>>
<1>1. /\ Len(q) \in Nat /\ Len(r) = Len(q) + 1
      /\ \A i \in 1 .. Len(q) : r[i] = q[i]
      /\ r[Len(q) + 1] = e
      /\ q # <<>> <=> Len(q) # 0
  OBVIOUS
<1> HIDE DEF r
<1>2. ASSUME NEW i \in 1 .. Len(r) - 1
      PROVE  r[i + 1].addr = Follower(r[i])
  <2>1. CASE i = Len(q)
    BY <1>1, <2>1
  <2>2. CASE i # Len(q)
    <3>1. i \in 1 .. Len(q) - 1 /\ i + 1 \in 1 .. Len(q)
      BY <1>1, <2>2
    <3> QED BY <1>1, <3>1 DEF Chained
  <2> QED BY <2>1, <2>2
<1>3. r[1] = IF q # <<>> THEN q[1] ELSE e
  BY <1>1
<1> QED BY <1>1, <1>2, <1>3 DEF Chained, r

LEMMA LastOne ==
  ASSUME NEW q \in Seq(Entry), q # <<>>, Tail(q) = <<>>
  PROVE  Len(q) = 1
<1>1. Len(q) = Len(Tail(q)) + 1
  <2>1. Len(Tail(q)) = Len(q) - 1 /\ Len(q) \in Nat
    OBVIOUS
  <2>2. \A m, n \in Int : m = n - 1 => n = m + 1
    OBVIOUS
  <2>3. Len(q) \in Int /\ Len(Tail(q)) \in Int
    BY <2>1
  <2> QED BY <2>1, <2>2, <2>3, Zenon
<1>2. Len(<<>>) + 1 = 1
  OBVIOUS
<1> QED BY <1>1, <1>2, Zenon

(* What the pop leaves of the queue.                                       *)
LEMMA RestStep ==
  ASSUME TypeOK, OnePath, NEW pop \in BOOLEAN
  PROVE  LET rest == Queue!Rest(pop)
             after == IF rest # <<>> THEN rest[1].addr ELSE FetchedDue
         IN  /\ Chained(rest)
             /\ rest # <<>> => Follower(rest[Len(rest)]) = FetchedDue
             /\ Give(pop) = None => after = Due
             /\ Give(pop) # None => Give(pop).addr = Due /\ after = Follower(Give(pop))
<1>1. queue \in Seq(Entry) /\ Chained(queue)
      /\ (queue # <<>> => FetchedDue = Follower(queue[Len(queue)]))
      /\ (queue # <<>> => Head(queue) = queue[1] /\ Head(queue) \in Entry)
  BY DEF TypeOK, OnePath
<1>2. CASE pop /\ queue # <<>>
  <2>1. Queue!Rest(pop) = Tail(queue) /\ Give(pop) = Head(queue) /\ Give(pop) # None
    BY <1>1, <1>2, NoEntryAssumption DEF Queue!Rest, Give
  <2>2. CASE Tail(queue) # <<>>
    BY <1>1, <1>2, <2>1, <2>2, ChainedTail DEF Due
  <2>3. CASE Tail(queue) = <<>>
    <3>1. Len(queue) = 1
      BY <1>1, <1>2, <2>3, LastOne
    <3> QED BY <1>1, <1>2, <2>1, <2>3, <3>1, ChainedTail DEF Due
  <2> QED BY <2>2, <2>3
<1>3. CASE ~(pop /\ queue # <<>>)
  <2>1. Queue!Rest(pop) = queue /\ Give(pop) = None
    BY <1>3 DEF Queue!Rest, Give
  <2> QED BY <1>1, <2>1 DEF Due
<1> QED BY <1>2, <1>3

(* A cycle without a flush keeps one path and gives the next of it.        *)
LEMMA QuietStep ==
  ASSUME "Return" \notin Flows, TypeOK, OnePath,
         NEW p \in Seen, NEW request \in Requests, NEW ready \in BOOLEAN,
         NEW answer \in BOOLEAN, NEW halt \in BOOLEAN, NEW pop \in BOOLEAN,
         Cycle(p, ready, answer, halt, pop, request), ~Flushes(request)
  PROVE  /\ OnePath'
         /\ Give(pop) = None => Due' = Due
         /\ Give(pop) # None => Give(pop).addr = Due /\ Due' = Follower(Give(pop))
<1> DEFINE rest == Queue!Rest(pop)
           after == IF rest # <<>> THEN rest[1].addr ELSE FetchedDue
<1>1. /\ Chained(rest)
      /\ rest # <<>> => Follower(rest[Len(rest)]) = FetchedDue
      /\ Give(pop) = None => after = Due
      /\ Give(pop) # None => Give(pop).addr = Due /\ after = Follower(Give(pop))
  BY RestStep
<1>2. rest \in Seq(Entry) /\ queue' = rest \o Offered(p)
  BY QueueTurn DEF Cycle, QueueEdge
<1>3. /\ Offered(p) = <<>> => FetchedDue' = FetchedDue
      /\ Offered(p) # <<>> => FetchedDue' = Follower(Offered(p)[1])
      /\ fetched' # None => PendingDue' = Sequel(fetched')
      /\ pending' # None => Base' = Sequel(pending')
  BY StagesStep
<1> HIDE DEF rest
<1>4. Chained(queue')
      /\ (queue' # <<>> => FetchedDue' = Follower(queue'[Len(queue')]))
      /\ (IF queue' # <<>> THEN queue'[1].addr ELSE FetchedDue') = after
  <2>1. CASE Offered(p) = <<>>
    <3>1. queue' = rest
      BY <1>2, <2>1
    <3> QED BY <1>1, <1>3, <2>1, <3>1
  <2>2. CASE Offered(p) # <<>>
    <3> DEFINE e == [addr |-> fetched, cf |-> p.cf, target |-> p.target]
    <3>1. Offered(p) = <<e>> /\ e.addr = FetchedDue /\ e \in Entry
      <4>1. Offered(p) \in Seq(Entry) /\ Offered(p) = <<e>> /\ fetched # None
        BY <2>2, OfferedType
      <4>2. Offered(p)[1] \in Entry
        BY <4>1
      <4> QED BY <4>1, <4>2 DEF FetchedDue
    <3> HIDE DEF e
    <3>2. /\ Chained(rest \o <<e>>)
          /\ (rest \o <<e>>)[Len(rest \o <<e>>)] = e
          /\ (rest \o <<e>>)[1] = IF rest # <<>> THEN rest[1] ELSE e
      BY <1>1, <1>2, <3>1, ChainedAppend
    <3>3. queue' = rest \o <<e>> /\ queue' # <<>>
      BY <1>2, <3>1
    <3>4. FetchedDue' = Follower(e)
      BY <1>3, <2>2, <3>1
    <3> QED BY <3>1, <3>2, <3>3, <3>4
  <2> QED BY <2>1, <2>2
<1>5. Due' = after
  <2>1. queue' \in Seq(Entry)
    BY <1>2, OfferedType
  <2> QED BY <1>4, <2>1 DEF Due
<1>6. OnePath'
  BY <1>3, <1>4 DEF OnePath, Chained
<1> QED BY <1>1, <1>5, <1>6

LEMMA OnePathInit == Init => OnePath
BY DEF Init, OnePath, Chained, Queue!Init

LEMMA OnePathNext ==
  ASSUME "Return" \notin Flows, TypeOK, OnePath, [Next]_vars
  PROVE  OnePath'
<1>1. ASSUME NEW p \in Seen, NEW request \in Requests, NEW ready \in BOOLEAN,
             NEW answer \in BOOLEAN, NEW halt \in BOOLEAN, NEW pop \in BOOLEAN,
             Cycle(p, ready, answer, halt, pop, request)
      PROVE  OnePath'
  <2>1. CASE Flushes(request)
    BY <1>1, <2>1, FlushStep DEF OnePath, Chained
  <2>2. CASE ~Flushes(request)
    BY <1>1, <2>2, QuietStep
  <2> QED BY <2>1, <2>2
<1>2. CASE UNCHANGED vars
  BY <1>2 DEF vars, frontVars, OnePath, Chained, FetchedDue, PendingDue, Base
<1> QED BY <1>1, <1>2 DEF Next

(* One path runs through the queue and the fetch registers in every        *)
(* reachable state, with any predictions but returns (frontend.sv:296-370).*)
THEOREM OnePathSound ==
  ASSUME "Return" \notin Flows PROVE Spec => []OnePath
BY TypeInit, TypeNext, OnePathInit, OnePathNext, PTL DEF Spec

-----------------------------------------------------------------------------
(* FetchPath speaks of the same addresses, entries and requests.           *)
LEMMA SameTypes ==
  /\ Path!Nothing = Nothing /\ Path!Requests = Requests /\ Path!Entry = Entry
  /\ \A e : Path!Follower(e) = Follower(e)
  /\ \A c : Path!CommitTarget(c) = CommitTarget(c)
BY DEF Path!Nothing, Nothing, Path!Requests, Requests, Path!Entry, Entry, Path!Follower,
       Follower, Path!CommitTarget, CommitTarget, Path!Sequel, Sequel, Path!Address, Address,
       Path!CommitRequest, CommitRequest

LEMMA PathInit == Init => Path!Init
BY SameTypes DEF Init, Path!Init, Queue!Init, Due, FetchedDue, PendingDue, Base

LEMMA PathNext ==
  ASSUME "Return" \notin Flows, TypeOK, TypeOK', OnePath, [Next]_vars
  PROVE  [Path!Next]_(Path!pathVars)
<1>1. ASSUME NEW p \in Seen, NEW request \in Requests, NEW ready \in BOOLEAN,
             NEW answer \in BOOLEAN, NEW halt \in BOOLEAN, NEW pop \in BOOLEAN,
             Cycle(p, ready, answer, halt, pop, request)
      PROVE  Path!Next
  <2>1. given' = Give(pop) /\ asked' = request /\ given' \in Entry \cup {None}
        /\ asked' \in Requests
    BY <1>1 DEF Cycle, TypeOK
  <2>2. CASE Flushes(request)
    <3>1. Due' = Redirect(request)
      BY <1>1, <2>2, FlushStep
    <3>2. Give(pop) = None \/ Give(pop).addr = Due
      BY RestStep
    <3> QED BY <2>1, <2>2, <3>1, <3>2, SameTypes
            DEF Path!Next, Path!Leave, Path!Wanted, Redirect, Flushes
  <2>3. CASE ~Flushes(request)
    <3>1. /\ Give(pop) = None => Due' = Due
          /\ Give(pop) # None => Give(pop).addr = Due /\ Due' = Follower(Give(pop))
      BY <1>1, <2>3, QuietStep
    <3> QED BY <2>1, <2>3, <3>1, SameTypes DEF Path!Next, Path!Stay, Flushes
  <2> QED BY <2>2, <2>3
<1>2. CASE UNCHANGED vars
  BY <1>2 DEF vars, frontVars, Path!pathVars, Due, FetchedDue, PendingDue, Base
<1> QED BY <1>1, <1>2 DEF Next

(* The backend is given one path until it asks for another, for queues of  *)
(* every depth and with any predictions but returns.                       *)
THEOREM GivesOnePathSound ==
  ASSUME "Return" \notin Flows PROVE Spec => GivesOnePath
<1>1. TypeOK /\ OnePath /\ [Next]_vars => TypeOK' /\ OnePath'
  BY TypeNext, OnePathNext
<1>2. TypeOK /\ TypeOK' /\ OnePath /\ [Next]_vars => [Path!Next]_(Path!pathVars)
  BY PathNext
<1>3. Init => TypeOK /\ OnePath /\ Path!Init
  BY TypeInit, OnePathInit, PathInit
<1> QED BY <1>1, <1>2, <1>3, PTL DEF Spec, GivesOnePath, Path!Spec
=============================================================================
