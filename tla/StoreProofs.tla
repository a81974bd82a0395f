----------------------------- MODULE StoreProofs -----------------------------
(***************************************************************************)
(* The safety of the store path for rings of every depth and any number of *)
(* stores, when the translation of a store raises no exception (with one,  *)
(* a younger store takes the place of the faulting one).                   *)
(***************************************************************************)
EXTENDS StoreProps, SequenceTheorems, TLAPS

(* The slot k places after p in a ring of n.                               *)
After(p, k, n) == IF p + k < n THEN p + k ELSE p + k - n
SpecAt(k) == specQueue[After(specRd, k, SpecDepth)]
ComAt(k) == comQueue[After(comRd, k, CommitDepth)]

(* The last store that left the scoreboard, and the first in the bypass.    *)
Base == issued - Len(inFlight)

First == Base + specCnt + Busy + 1
Accepting(hit, go) == Accepts(hit, FALSE, Commits(go), FALSE)

Slots == [store : Nat, valid : BOOLEAN]
Scored == [id : Nat, res : {"none", "done"}]
SpecTypes ==
  /\ specQueue \in [0 .. SpecDepth - 1 -> Slots] /\ specRd \in 0 .. SpecDepth - 1
  /\ specWr \in 0 .. SpecDepth - 1 /\ specCnt \in 0 .. SpecDepth
ComTypes ==
  /\ comQueue \in [0 .. CommitDepth - 1 -> Slots] /\ comRd \in 0 .. CommitDepth - 1
  /\ comWr \in 0 .. CommitDepth - 1 /\ comCnt \in 0 .. CommitDepth
UnitTypes ==
  /\ byMem \in [0 .. 1 -> Nat] /\ byRd \in 0 .. 1 /\ byWr \in 0 .. 1 /\ byCnt \in 0 .. 2
  /\ state \in States /\ held \in Nat /\ request \in Nat
  /\ issued \in 0 .. MaxStores /\ inFlight \in Seq(Scored)
  /\ retired \in Seq(Ids) /\ written \in Seq(Ids)

(* The scoreboard holds the last stores issued; those whose result it has  *)
(* come first and are the contents of the speculative ring.                *)
SpecRing ==
  /\ specCnt <= Len(inFlight) /\ Len(inFlight) <= issued
  /\ specWr = After(specRd, specCnt, SpecDepth)
  /\ \A k \in 0 .. SpecDepth - 1 : SpecAt(k).valid <=> k < specCnt
  /\ \A k \in 0 .. specCnt - 1 : SpecAt(k) = Entry(Base + k + 1)
InIssueOrder ==
  \A i \in 1 .. Len(inFlight) :
    inFlight[i] = [id |-> Base + i, res |-> IF i <= specCnt THEN "done" ELSE "none"]

(* The others are in the unit's registers, in the bypass and arriving.     *)
BypassRing ==
  /\ Len(inFlight) = specCnt + Busy + byCnt + Arriving
  /\ byWr = IF byCnt = 1 THEN 1 - byRd ELSE byRd
  /\ byMem[byRd] = IF byCnt >= 1 THEN First ELSE 0
  /\ byMem[1 - byRd] = IF byCnt = 2 THEN First + 1 ELSE 0
  /\ request # 0 => request = issued /\ byCnt <= 1
  /\ state = "VALID_STORE" => held = Base + specCnt + 1 /\ specCnt < SpecDepth

(* The committed ring holds what retired and is not written, and no more.  *)
CommitRing ==
  /\ Len(retired) = Len(written) + comCnt
  /\ \A i \in 1 .. Len(written) : written[i] = retired[i]
  /\ comWr = After(comRd, comCnt, CommitDepth)
  /\ \A k \in 0 .. CommitDepth - 1 : ComAt(k).valid <=> k < comCnt
  /\ \A k \in 0 .. comCnt - 1 : ComAt(k) = Entry(retired[Len(written) + k + 1])
StoreInv == SpecTypes /\ ComTypes /\ UnitTypes /\ SpecRing /\ InIssueOrder /\ BypassRing /\ CommitRing

(* Going round a ring.                                                     *)
Depths == {2, 4, 8, 16}
LEMMA AfterType ==
  ASSUME NEW n \in Depths, NEW p \in 0 .. n - 1, NEW k \in 0 .. n
  PROVE  After(p, k, n) \in 0 .. n - 1
BY DEF After, Depths

LEMMA AfterTwice ==
  ASSUME NEW n \in Depths, NEW p \in 0 .. n - 1, NEW j \in 0 .. n, NEW k \in 0 .. n, j + k <= n
  PROVE  After(After(p, j, n), k, n) = After(p, j + k, n)
BY DEF After, Depths

LEMMA AfterApart ==
  ASSUME NEW n \in Depths, NEW p \in 0 .. n - 1, NEW j \in 0 .. n - 1, NEW k \in 0 .. n - 1, j # k
  PROVE  After(p, j, n) # After(p, k, n)
BY DEF After, Depths

(* What the counters and pointers of the code compute.                     *)
LEMMA Wraps ==
  ASSUME NEW n \in Depths, NEW p \in 0 .. n - 1, NEW b \in BOOLEAN
  PROVE  (p + One(b)) % n = After(p, One(b), n)
<1>1. CASE n = 2
  BY <1>1 DEF After, One
<1>2. CASE n = 4
  BY <1>2 DEF After, One
<1>3. CASE n = 8
  BY <1>3 DEF After, One
<1>4. CASE n = 16
  BY <1>4 DEF After, One
<1> QED
  BY <1>1, <1>2, <1>3, <1>4 DEF Depths

LEMMA Counts ==
  ASSUME NEW n \in Depths, NEW c \in 0 .. n, NEW a \in BOOLEAN, NEW b \in BOOLEAN, b => c > 0
  PROVE  (c + One(a) + 2 * n - One(b)) % (2 * n) = c + One(a) - One(b)
<1>1. CASE n = 2
  BY <1>1 DEF One
<1>2. CASE n = 4
  BY <1>2 DEF One
<1>3. CASE n = 8
  BY <1>3 DEF One
<1>4. CASE n = 16
  BY <1>4 DEF One
<1> QED
  BY <1>1, <1>2, <1>3, <1>4 DEF Depths

(* Both rings are empty at reset.                                          *)
LEMMA StoreStarts == ASSUME Init PROVE StoreInv
<1>0. SpecDepth \in Depths /\ CommitDepth \in Depths
  BY DepthsArePowersOfTwo DEF Depths
<1> USE <1>0 DEF Init, InitBuffer, InitBypass, Depths
<1>1. SpecTypes /\ ComTypes
  BY DEF SpecTypes, ComTypes, Slots, NoEntry
<1>2. UnitTypes
  BY StoresAssumption DEF UnitTypes, States
<1>3. SpecRing /\ InIssueOrder
  BY DEF SpecRing, InIssueOrder, SpecAt, After, NoEntry
<1>4. BypassRing
  BY DEF BypassRing, Busy, Arriving, One, First
<1>5. CommitRing
  BY DEF CommitRing, ComAt, After, NoEntry
<1> QED
  BY <1>1, <1>2, <1>3, <1>4, <1>5 DEF StoreInv

(* One cycle of the speculative ring without a flush.                        *)
LEMMA SpeculateStep ==
  ASSUME StoreInv, NEW push \in BOOLEAN, NEW commit \in BOOLEAN, NEW s \in Nat,
         push => specCnt < SpecDepth, commit => specCnt >= 1, Speculate(push, s, commit, FALSE)
  PROVE  /\ SpecTypes' /\ specCnt' = specCnt + One(push) - One(commit)
         /\ specWr' = After(specRd', specCnt', SpecDepth)
         /\ \A k \in 0 .. SpecDepth - 1 : SpecAt(k)'.valid <=> k < specCnt'
         /\ \A k \in 0 .. specCnt' - 1 :
              SpecAt(k)' = IF k + One(commit) < specCnt THEN SpecAt(k + One(commit)) ELSE Entry(s)
<1> DEFINE n == SpecDepth
           c == One(commit)
           p == One(push)
           at(j) == After(specRd, j, n)
           pushed == IF push THEN [specQueue EXCEPT ![specWr] = Entry(s)] ELSE specQueue
<1>0. n \in Depths /\ n \in Nat /\ n >= 2 /\ c \in 0 .. 1 /\ p \in 0 .. 1
  BY DepthsArePowersOfTwo DEF Depths, One
<1>1. SpecTypes /\ specWr = at(specCnt) /\ \A k \in 0 .. n - 1 : SpecAt(k).valid <=> k < specCnt
  BY DEF StoreInv, SpecRing
<1>2. /\ specQueue' = IF commit THEN [pushed EXCEPT ![specRd].valid = FALSE] ELSE pushed
      /\ specRd' = (specRd + c) % n /\ specWr' = (specWr + p) % n
      /\ specCnt' = (specCnt + p + 2 * n - c) % (2 * n)
  BY DEF Speculate, SpecCount
<1>3. specRd' = at(c) /\ specWr' = After(at(specCnt), p, n) /\ specCnt' = specCnt + p - c
  BY <1>0, <1>1, <1>2, Wraps, Counts DEF SpecTypes
<1>4. specCnt' \in 0 .. n /\ specCnt + p \in 0 .. n
  BY <1>0, <1>1, <1>3 DEF SpecTypes, One
<1>5. specWr' = at(specCnt + p)
  BY <1>0, <1>1, <1>3, <1>4, AfterTwice DEF SpecTypes
<1>6. specWr' = After(specRd', specCnt', n)
  <2>1. specRd \in 0 .. n - 1 /\ c \in 0 .. n /\ c + specCnt' = specCnt + p /\ c + specCnt' <= n
    BY <1>0, <1>1, <1>3, <1>4 DEF SpecTypes
  <2>2. After(After(specRd, c, n), specCnt', n) = After(specRd, c + specCnt', n)
    BY <1>0, <1>4, <2>1, AfterTwice
  <2> QED
    BY <1>3, <1>5, <2>1, <2>2
<1>7. pushed \in [0 .. n - 1 -> Slots] /\ specQueue' \in [0 .. n - 1 -> Slots]
  BY <1>1, <1>2 DEF SpecTypes, Slots, Entry
<1>8. SpecTypes'
  <2>0. c \in 0 .. n /\ specRd \in 0 .. n - 1
    BY <1>0, <1>1 DEF SpecTypes
  <2>1. at(c) \in 0 .. n - 1 /\ at(specCnt + p) \in 0 .. n - 1
    BY <2>0, <1>0, <1>4, AfterType
  <2> QED
    BY <2>1, <1>3, <1>4, <1>5, <1>7 DEF SpecTypes
<1>9. ASSUME NEW k \in 0 .. n - 1
      PROVE  /\ SpecAt(k)'.valid <=> k < specCnt'
             /\ k < specCnt' => SpecAt(k)' = IF k + c < specCnt THEN SpecAt(k + c) ELSE Entry(s)
  <2>1. k + c \in 0 .. n /\ k \in 0 .. n /\ specCnt \in 0 .. n
    BY <1>0, <1>1 DEF SpecTypes
  <2>2. SpecAt(k)' = specQueue'[at(k + c)] /\ at(k + c) \in 0 .. n - 1
    <3>1. c + k = k + c /\ c + k <= n /\ c \in 0 .. n /\ k + c \in 0 .. n /\ specRd \in 0 .. n - 1
      BY <1>0, <1>1, <2>1 DEF SpecTypes
    <3>2. After(at(c), k, n) = at(k + c) /\ at(k + c) \in 0 .. n - 1
      BY <3>1, <1>0, <2>1, AfterTwice, AfterType
    <3> QED
      BY <3>2, <1>3 DEF SpecAt
  <2>3. specRd = at(0) /\ 0 \in 0 .. n - 1 /\ specRd \in 0 .. n - 1
    BY <1>0, <1>1 DEF After, SpecTypes
  <2>4. CASE k + c = n
    <3>1. at(k + c) = specRd /\ commit /\ ~(k < specCnt')
      BY <2>1, <2>4, <1>0, <1>1, <1>3, <1>4 DEF After, SpecTypes, One
    <3>2. specQueue'[specRd].valid = FALSE
      BY <3>1, <2>3, <1>2, <1>7 DEF Slots
    <3> QED
      BY <3>1, <3>2, <2>2
  <2>5. CASE k + c < n
    <3>1. commit => at(k + c) # specRd
      BY <2>5, <2>1, <2>3, <1>0, AfterApart DEF One
    <3>2. push => (at(k + c) = specWr <=> k + c = specCnt)
      BY <2>5, <2>1, <2>3, <1>0, <1>1, AfterApart
    <3> HIDE DEF at
    <3>3. SpecAt(k)' = pushed[at(k + c)]
      BY <3>1, <2>2, <1>2, <1>7
    <3>4. pushed[at(k + c)] = IF push /\ k + c = specCnt THEN Entry(s) ELSE specQueue[at(k + c)]
      BY <3>2, <2>2, <1>1 DEF SpecTypes
    <3>5. specQueue[at(k + c)] = SpecAt(k + c) /\ (SpecAt(k + c).valid <=> k + c < specCnt)
      BY <2>5, <2>1, <1>0, <1>1 DEF SpecAt, at
    <3>6. k < specCnt' <=> k + c < specCnt \/ (push /\ k + c = specCnt)
      BY <2>1, <1>0, <1>3 DEF One
    <3> QED
      BY <3>3, <3>4, <3>5, <3>6, <2>1 DEF Entry
  <2> QED
    BY <2>1, <2>4, <2>5, <1>0
<1> QED
  BY <1>0, <1>3, <1>4, <1>6, <1>8, <1>9

(* One cycle of the committed ring, to which e comes with a commit.          *)
LEMMA DrainStep ==
  ASSUME StoreInv, NEW grant \in BOOLEAN, NEW commit \in BOOLEAN, NEW e \in Slots, e.valid,
         commit => comCnt < CommitDepth /\ specQueue[specRd] = e, Drain(grant, commit)
  PROVE  /\ Drains(grant) \in BOOLEAN
         /\ Drains(grant) => comCnt >= 1
         /\ ComTypes' /\ comCnt' = comCnt + One(commit) - One(Drains(grant))
         /\ comWr' = After(comRd', comCnt', CommitDepth)
         /\ \A k \in 0 .. CommitDepth - 1 : ComAt(k)'.valid <=> k < comCnt'
         /\ \A k \in 0 .. comCnt' - 1 :
              ComAt(k)' = IF k + One(Drains(grant)) < comCnt THEN ComAt(k + One(Drains(grant))) ELSE e
<1> DEFINE n == CommitDepth
           c == One(commit)
           drains == Drains(grant)
           g == One(drains)
           at(j) == After(comRd, j, n)
           drained == IF drains THEN [comQueue EXCEPT ![comRd].valid = FALSE] ELSE comQueue
<1>0. n \in Depths /\ n \in Nat /\ n >= 2 /\ c \in 0 .. 1 /\ g \in 0 .. 1
  BY DepthsArePowersOfTwo DEF Depths, One
<1>1. ComTypes /\ comWr = at(comCnt) /\ \A k \in 0 .. n - 1 : ComAt(k).valid <=> k < comCnt
  BY DEF StoreInv, CommitRing
<1>2. comRd = at(0) /\ 0 \in 0 .. n - 1 /\ comQueue[comRd] = ComAt(0) /\ comQueue[comRd] \in Slots
  BY <1>0, <1>1 DEF After, ComTypes, ComAt
<1>3. drains \in BOOLEAN /\ (drains => comCnt >= 1)
  BY <1>0, <1>1, <1>2 DEF Drains, Slots, ComTypes
<1> HIDE DEF drains
<1>4. /\ comQueue' = IF commit THEN [drained EXCEPT ![comWr] = e] ELSE drained
      /\ comRd' = (comRd + g) % n /\ comWr' = (comWr + c) % n
      /\ comCnt' = (comCnt + c + 2 * n - g) % (2 * n)
  BY DEF Drain, drains
<1>5. comRd' = at(g) /\ comWr' = After(at(comCnt), c, n) /\ comCnt' = comCnt + c - g
  BY <1>0, <1>1, <1>3, <1>4, Wraps, Counts DEF ComTypes
<1>6. comCnt' \in 0 .. n /\ comCnt + c \in 0 .. n
  BY <1>0, <1>1, <1>3, <1>5 DEF ComTypes, One
<1>7. comWr' = at(comCnt + c)
  BY <1>0, <1>1, <1>5, <1>6, AfterTwice DEF ComTypes
<1>8. comWr' = After(comRd', comCnt', n)
  <2>1. comRd \in 0 .. n - 1 /\ g \in 0 .. n /\ g + comCnt' = comCnt + c /\ g + comCnt' <= n
    BY <1>0, <1>1, <1>5, <1>6 DEF ComTypes
  <2>2. After(After(comRd, g, n), comCnt', n) = After(comRd, g + comCnt', n)
    BY <1>0, <1>6, <2>1, AfterTwice
  <2> QED
    BY <1>5, <1>7, <2>1, <2>2
<1>9. drained \in [0 .. n - 1 -> Slots] /\ comQueue' \in [0 .. n - 1 -> Slots]
  BY <1>1, <1>4 DEF ComTypes, Slots
<1>10. ComTypes'
  <2>0. g \in 0 .. n /\ comRd \in 0 .. n - 1
    BY <1>0, <1>1 DEF ComTypes
  <2>1. at(g) \in 0 .. n - 1 /\ at(comCnt + c) \in 0 .. n - 1
    BY <2>0, <1>0, <1>6, AfterType
  <2> QED
    BY <2>1, <1>5, <1>6, <1>7, <1>9 DEF ComTypes
<1>11. ASSUME NEW k \in 0 .. n - 1
       PROVE  /\ ComAt(k)'.valid <=> k < comCnt'
              /\ k < comCnt' => ComAt(k)' = IF k + g < comCnt THEN ComAt(k + g) ELSE e
  <2>1. k + g \in 0 .. n /\ k \in 0 .. n /\ comCnt \in 0 .. n
    BY <1>0, <1>1 DEF ComTypes
  <2>2. ComAt(k)' = comQueue'[at(k + g)] /\ at(k + g) \in 0 .. n - 1
    <3>1. g + k = k + g /\ g + k <= n /\ g \in 0 .. n /\ k + g \in 0 .. n /\ comRd \in 0 .. n - 1
      BY <1>0, <1>1, <2>1 DEF ComTypes
    <3>2. After(at(g), k, n) = at(k + g) /\ at(k + g) \in 0 .. n - 1
      <4>1. After(After(comRd, g, n), k, n) = After(comRd, g + k, n)
        BY <3>1, <1>0, <2>1, AfterTwice
      <4>2. After(comRd, k + g, n) \in 0 .. n - 1
        BY <3>1, <1>0, AfterType
      <4> QED
        BY <3>1, <4>1, <4>2
    <3> QED
      BY <3>2, <1>5 DEF ComAt
  <2>3. CASE k + g = n
    <3>1. at(k + g) = comRd /\ drains /\ ~(k < comCnt')
      BY <2>1, <2>3, <1>0, <1>1, <1>5, <1>6 DEF After, ComTypes, One
    <3>2. commit => comWr # comRd
      BY <3>1, <1>0, <1>1, <1>2, <1>3, AfterApart DEF ComTypes
    <3>3. comQueue'[comRd].valid = FALSE
      BY <3>1, <3>2, <1>1, <1>4, <1>9 DEF ComTypes, Slots
    <3> QED
      BY <3>1, <3>3, <2>2
  <2>4. CASE k + g < n
    <3>1. drains => at(k + g) # comRd
      BY <2>4, <2>1, <1>0, <1>1, <1>2, AfterApart DEF ComTypes, One
    <3>2. commit => (at(k + g) = comWr <=> k + g = comCnt)
      BY <2>4, <2>1, <1>0, <1>1, AfterApart DEF ComTypes
    <3> HIDE DEF at
    <3>3. drained[at(k + g)] = comQueue[at(k + g)]
      BY <3>1, <2>2, <1>1 DEF ComTypes
    <3>5. ComAt(k)' = IF commit /\ k + g = comCnt THEN e ELSE comQueue[at(k + g)]
      <4> HIDE DEF drained
      <4>1. CASE commit
        BY <4>1, <3>2, <3>3, <2>2, <1>4, <1>9
      <4>2. CASE ~commit
        BY <4>2, <3>3, <2>2, <1>4
      <4> QED
        BY <4>1, <4>2
    <3>4. comQueue[at(k + g)] = ComAt(k + g) /\ (ComAt(k + g).valid <=> k + g < comCnt)
      BY <2>4, <2>1, <1>0, <1>1 DEF ComAt, at
    <3> QED
      BY <3>4, <3>5, <2>1, <1>0, <1>5 DEF One
  <2> QED
    BY <2>1, <2>3, <2>4, <1>0
<1> QED
  BY <1>3, <1>5, <1>6, <1>8, <1>10, <1>11, <1>0 DEF drains

(* The commit stage takes the store at the reader of the speculative ring.   *)
LEMMA CommitsHead ==
  ASSUME StoreInv, NEW go \in BOOLEAN
  PROVE  /\ ~Excepts(go) /\ Commits(go) \in BOOLEAN /\ (Retires(go) <=> Commits(go))
         /\ Base \in Nat /\ Entry(Base + 1) \in Slots
         /\ Commits(go) => /\ specCnt >= 1 /\ comCnt < CommitDepth /\ Base + 1 \in Ids
                           /\ inFlight[1].id = Base + 1 /\ specQueue[specRd] = Entry(Base + 1)
<1>0. SpecTypes /\ ComTypes /\ UnitTypes /\ SpecRing /\ InIssueOrder
  BY DEF StoreInv
<1>1. Len(inFlight) \in Nat /\ Base \in Nat /\ Base + Len(inFlight) = issued
  BY <1>0 DEF SpecRing, UnitTypes, Base
<1>2. Entry(Base + 1) \in Slots
  BY <1>1 DEF Entry, Slots
<1>3. inFlight # <<>> => /\ 1 \in 1 .. Len(inFlight) /\ inFlight[1].id = Base + 1
                        /\ inFlight[1].res = IF 1 <= specCnt THEN "done" ELSE "none"
  <2>1. inFlight # <<>> => 1 \in 1 .. Len(inFlight)
    BY <1>0 DEF UnitTypes
  <2>2. inFlight # <<>> =>
          inFlight[1] = [id |-> Base + 1, res |-> IF 1 <= specCnt THEN "done" ELSE "none"]
    BY <2>1, <1>0 DEF InIssueOrder
  <2> QED
    BY <2>1, <2>2
<1>4. ~AtHead("fault") /\ (AtHead("done") => specCnt >= 1 /\ inFlight # <<>>)
  BY <1>0, <1>3 DEF AtHead, SpecTypes
<1>5. specCnt >= 1 => specQueue[specRd] = Entry(Base + 1)
  <2>1. specCnt >= 1 => SpecAt(0) = Entry(Base + 0 + 1)
    BY <1>0 DEF SpecRing, SpecTypes
  <2>2. After(specRd, 0, SpecDepth) = specRd
    BY <1>0, DepthsArePowersOfTwo DEF After, SpecTypes
  <2> QED
    BY <2>1, <2>2, <1>1 DEF SpecAt
<1>6. inFlight # <<>> => Base + 1 \in Ids
  <2>1. inFlight # <<>> => Base + 1 <= issued /\ issued <= MaxStores
    BY <1>0, <1>1, <1>3, StoresAssumption DEF UnitTypes
  <2> QED
    BY <2>1, <1>1, StoresAssumption DEF Ids
<1> QED
  BY <1>0, <1>1, <1>2, <1>3, <1>4, <1>5, <1>6 DEF Excepts, Commits, Retires, CommitReady, AtHead

(* What retires and what is written stay in step with the committed ring,    *)
(* and a cycle is a step of StoreOrder.                                      *)
LEMMA WrittenStep ==
  ASSUME StoreInv, NEW go \in BOOLEAN, NEW grant \in BOOLEAN,
         Drain(grant, Commits(go)), Writes(grant),
         retired' = IF Commits(go) THEN Append(retired, Base + 1) ELSE retired
  PROVE  /\ ComTypes' /\ CommitRing' /\ retired' \in Seq(Ids) /\ written' \in Seq(Ids)
         /\ [Order!Next]_<<retired, written>>
<1> DEFINE commit == Commits(go)
           drains == Drains(grant)
           c == One(commit)
           g == One(drains)
           r == Len(retired)
           w == Len(written)
<1>0. UnitTypes /\ ComTypes /\ CommitRing
  BY DEF StoreInv
<1>1. /\ commit \in BOOLEAN /\ Entry(Base + 1) \in Slots /\ Entry(Base + 1).valid
      /\ commit => comCnt < CommitDepth /\ specQueue[specRd] = Entry(Base + 1) /\ Base + 1 \in Ids
  BY CommitsHead DEF Entry
<1> HIDE DEF commit
<1>2. /\ drains \in BOOLEAN
      /\ drains => comCnt >= 1
      /\ ComTypes' /\ comCnt' = comCnt + c - g /\ comWr' = After(comRd', comCnt', CommitDepth)
      /\ \A k \in 0 .. CommitDepth - 1 : ComAt(k)'.valid <=> k < comCnt'
      /\ \A k \in 0 .. comCnt' - 1 :
           ComAt(k)' = IF k + g < comCnt THEN ComAt(k + g) ELSE Entry(Base + 1)
  BY <1>1, DrainStep DEF commit
<1>3. retired \in Seq(Ids) /\ written \in Seq(Ids) /\ r \in Nat /\ w \in Nat /\ r = w + comCnt
  BY <1>0 DEF UnitTypes, CommitRing
<1>4. drains => comQueue[comRd].store = retired[w + 1] /\ w + 1 \in 1 .. r /\ retired[w + 1] \in Ids
  <2>1. comRd = After(comRd, 0, CommitDepth)
    BY <1>0, DepthsArePowersOfTwo DEF After, ComTypes
  <2>2. ASSUME drains PROVE ComAt(0) = Entry(retired[w + 0 + 1]) /\ w + 1 \in 1 .. r
    BY <2>2, <1>0, <1>2, <1>3 DEF CommitRing, ComTypes
  <2> QED
    BY <2>1, <2>2, <1>3 DEF ComAt, Entry
<1>5. /\ retired' \in Seq(Ids) /\ Len(retired') = r + c /\ \A i \in 1 .. r : retired'[i] = retired[i]
      /\ commit => retired'[r + 1] = Base + 1
  <2>1. CASE commit
    BY <2>1, <1>1, <1>3 DEF commit, One
  <2>2. CASE ~commit
    BY <2>2, <1>3 DEF commit, One
  <2> QED
    BY <2>1, <2>2
<1>6. /\ written' = IF drains THEN Append(written, retired[w + 1]) ELSE written
      /\ written' \in Seq(Ids) /\ Len(written') = w + g
      /\ \A i \in 1 .. w : written'[i] = written[i]
      /\ drains => written'[w + 1] = retired[w + 1]
  <2>1. CASE drains
    BY <2>1, <1>3, <1>4 DEF Writes, One
  <2>2. CASE ~drains
    BY <2>2, <1>3 DEF Writes, One
  <2> QED
    BY <2>1, <2>2
<1> HIDE DEF drains, r, w
<1>7. c \in 0 .. 1 /\ g \in 0 .. 1 /\ (commit <=> c = 1) /\ (drains <=> g = 1) /\ comCnt \in Nat
  BY <1>0, <1>1, <1>2 DEF One, ComTypes
<1> HIDE DEF c, g
<1>8. CommitRing'
  <2>0. /\ Len(written') = w + g /\ Len(retired') = r + c /\ comCnt' = comCnt + c - g
        /\ w \in Nat /\ comCnt \in Nat /\ c \in 0 .. 1 /\ g \in 0 .. 1 /\ r = w + comCnt
    BY <1>2, <1>3, <1>5, <1>6, <1>7
  <2>1. Len(retired') = Len(written') + comCnt'
    BY <2>0
  <2>2. ASSUME NEW i \in 1 .. Len(written') PROVE written'[i] = retired'[i]
    <3>1. CASE i \in 1 .. w
      BY <3>1, <1>0, <1>3, <1>5, <1>6, <1>7 DEF CommitRing, r, w
    <3>2. CASE i = w + 1 /\ drains
      BY <3>2, <1>4, <1>5, <1>6
    <3>3. i \in 1 .. w \/ (i = w + 1 /\ drains)
      BY <2>0, <1>7
    <3> QED
      BY <3>1, <3>2, <3>3
  <2>3. ASSUME NEW k \in 0 .. comCnt' - 1
        PROVE  ComAt(k)' = Entry(retired'[Len(written') + k + 1])
    <3>0. k \in Nat /\ k < comCnt + c - g
      BY <2>0
    <3>1. Len(written') + k + 1 = w + (k + g) + 1 /\ k + g \in Nat
      BY <2>0, <3>0
    <3>2. CASE k + g < comCnt
      <4>1. ComAt(k)' = ComAt(k + g) /\ ComAt(k + g) = Entry(retired[w + (k + g) + 1])
        BY <3>1, <3>2, <1>0, <1>2, <1>7 DEF CommitRing, w
      <4>2. w + (k + g) + 1 \in 1 .. r
        BY <3>1, <3>2, <1>3, <1>7
      <4> QED
        BY <4>1, <4>2, <3>1, <1>5
    <3>3. CASE ~(k + g < comCnt)
      <4>1. c = 1 /\ k + g = comCnt /\ w + (k + g) + 1 = r + 1
        BY <2>0, <3>0, <3>3
      <4> QED
        BY <4>1, <3>1, <3>3, <1>2, <1>5, <1>7
    <3> QED
      BY <3>2, <3>3
  <2> QED
    BY <2>1, <2>2, <2>3, <1>2 DEF CommitRing
<1>9. [Order!Next]_<<retired, written>>
  <2>1. drains => Order!Write
    BY <1>3, <1>4, <1>6 DEF Order!Write, r, w
  <2>2. commit => Order!Retire(Base + 1) /\ Base + 1 \in Ids
    BY <1>1 DEF Order!Retire, commit
  <2>3. (~drains => written' = written) /\ (~commit => retired' = retired)
    BY <1>6 DEF commit
  <2> QED
    BY <2>1, <2>2, <2>3 DEF Order!Next
<1> QED
  BY <1>2, <1>5, <1>6, <1>8, <1>9

(* A flush empties the scoreboard, the speculative ring and the bypass.      *)
LEMMA FlushStep ==
  ASSUME StoreInv, NEW send \in BOOLEAN, NEW hit \in BOOLEAN, NEW go \in BOOLEAN,
         NEW grant \in BOOLEAN, Cycle(send, hit, FALSE, go, TRUE, grant)
  PROVE  /\ SpecTypes' /\ UnitTypes' /\ SpecRing' /\ InIssueOrder' /\ BypassRing'
         /\ Drain(grant, Commits(go)) /\ Writes(grant) /\ ~Commits(go) /\ retired' = retired
<1>0. SpecTypes /\ UnitTypes
  BY DEF StoreInv
<1>1. ~Commits(go) /\ ~Retires(go) /\ ~Excepts(go) /\ ~Push(FALSE, TRUE) /\ ~Sends(send, TRUE)
  BY DEF Cycle, Commits, Retires, Excepts, Push, Sends
<1>2. /\ Speculate(FALSE, held, FALSE, TRUE) /\ Drain(grant, FALSE) /\ Writes(grant)
      /\ BypassEdge(request, Pops(hit, FALSE, FALSE, TRUE), TRUE)
      /\ UnitEdge(hit, FALSE, FALSE, TRUE) /\ Bookkeep(send, FALSE, go, TRUE)
  <2>1. Commits(go) = FALSE /\ Push(FALSE, TRUE) = FALSE /\ (TRUE \/ Excepts(go)) = TRUE
    BY DEF Cycle, Commits, Push
  <2> QED
    BY <2>1 DEF Cycle, BufferEdge
<1>3. specRd' = specRd /\ specWr' = specRd /\ specCnt' = 0
  <2>1. SpecDepth \in Depths /\ specRd \in 0 .. SpecDepth - 1
    BY <1>0, DepthsArePowersOfTwo DEF SpecTypes, Depths
  <2>2. (specRd + One(FALSE)) % SpecDepth = After(specRd, One(FALSE), SpecDepth)
    BY <2>1, Wraps
  <2>3. After(specRd, One(FALSE), SpecDepth) = specRd
    BY <2>1 DEF After, One, Depths
  <2> QED
    BY <1>2, <2>2, <2>3 DEF Speculate
<1>4. specQueue' \in [0 .. SpecDepth - 1 -> Slots]
  BY <1>0, <1>2 DEF Speculate, SpecTypes, Slots
<1>5. SpecTypes'
  BY <1>0, <1>3, <1>4, DepthsArePowersOfTwo DEF SpecTypes
<1>6. /\ inFlight' = <<>> /\ issued' = issued /\ request' = 0 /\ retired' = retired
      /\ state' = "IDLE" /\ byMem' = [i \in 0 .. 1 |-> 0] /\ byRd' = 0 /\ byWr' = 0 /\ byCnt' = 0
      /\ held' = Ctrl
  BY <1>0, <1>1, <1>2 DEF Bookkeep, UnitEdge, NextState, BypassEdge, One, UnitTypes
<1>7. Ctrl \in Nat
  BY <1>0 DEF Ctrl, Served, UnitTypes
<1>8. written' \in Seq(Ids) /\ retired' \in Seq(Ids)
  <2>1. retired' = IF Commits(go) THEN Append(retired, Base + 1) ELSE retired
    BY <1>1, <1>6
  <2>2. Drain(grant, Commits(go))
    BY DEF Cycle, BufferEdge
  <2> QED
    BY <1>2, <2>1, <2>2, WrittenStep
<1>9. UnitTypes'
  BY <1>0, <1>6, <1>7, <1>8 DEF UnitTypes, States
<1>10. SpecRing' /\ InIssueOrder' /\ BypassRing'
  <2>1. Len(inFlight') = 0 /\ issued' \in Nat
    BY <1>0, <1>6 DEF UnitTypes
  <2>2. specRd' = After(specRd', 0, SpecDepth)
    BY <1>0, <1>3, DepthsArePowersOfTwo DEF After, SpecTypes
  <2>3. ASSUME NEW k \in 0 .. SpecDepth - 1 PROVE ~SpecAt(k)'.valid
    <3>1. After(specRd, k, SpecDepth) \in 0 .. SpecDepth - 1
      BY <1>0, DepthsArePowersOfTwo DEF After, SpecTypes
    <3>2. \A i \in 0 .. SpecDepth - 1 : specQueue'[i].valid = FALSE
      BY <1>0, <1>2 DEF Speculate, SpecTypes, Slots
    <3> QED
      BY <3>1, <3>2, <1>3 DEF SpecAt
  <2>4. SpecRing'
    BY <2>1, <2>2, <2>3, <1>3, DepthsArePowersOfTwo DEF SpecRing
  <2> QED
    BY <2>1, <2>4, <1>3, <1>6 DEF InIssueOrder, BypassRing, Busy, Arriving, One
<1> QED
  BY <1>1, <1>2, <1>5, <1>6, <1>9, <1>10 DEF Cycle, BufferEdge

(* The wires of a cycle without a flush or an exception.                     *)
LEMMA CycleWires ==
  ASSUME StoreInv, NEW send \in BOOLEAN, NEW hit \in BOOLEAN, NEW go \in BOOLEAN,
         NEW grant \in BOOLEAN, Cycle(send, hit, FALSE, go, FALSE, grant)
  PROVE  /\ Speculate(state = "VALID_STORE", held, Commits(go), FALSE)
         /\ Drain(grant, Commits(go)) /\ Writes(grant)
         /\ BypassEdge(request, Accepting(hit, go), FALSE)
         /\ Bookkeep(send, FALSE, go, FALSE)
         /\ Accepting(hit, go) \in BOOLEAN
         /\ Accepting(hit, go) => Ctrl # 0 /\ specCnt' < SpecDepth
         /\ held' = Ctrl /\ state' \in States /\ (state' = "VALID_STORE" <=> Accepting(hit, go))
<1> DEFINE commit == Commits(go)
           push == state = "VALID_STORE"
           accept == Accepting(hit, go)
<1>0. SpecTypes /\ BypassRing /\ SpecDepth \in Depths /\ SpecDepth \in Nat /\ state \in States
  BY DepthsArePowersOfTwo DEF StoreInv, Depths, UnitTypes
<1>1. ~Excepts(go) /\ commit \in BOOLEAN /\ (commit => specCnt >= 1) /\ ~Faults(FALSE)
      /\ (Push(FALSE, FALSE) <=> push)
  BY CommitsHead DEF Faults, Push
<1> HIDE DEF commit
<1>2. /\ Speculate(push, held, commit, FALSE) /\ Drain(grant, commit) /\ Writes(grant)
      /\ BypassEdge(request, accept, FALSE)
      /\ UnitEdge(hit, FALSE, commit, FALSE) /\ Bookkeep(send, FALSE, go, FALSE)
  <2>1. /\ Push(FALSE, FALSE) = push /\ (FALSE \/ Excepts(go)) = FALSE
        /\ Pops(hit, FALSE, commit, FALSE) = accept
    BY <1>1 DEF Pops, Faults, Push, commit, Accepting, Accepts, Looks, Excepts
  <2> HIDE DEF push
  <2> QED
    BY <2>1 DEF Cycle, BufferEdge, commit
<1>3. specCnt' = SpecCount(push, commit) /\ SpecCount(push, commit) = specCnt + One(push) - One(commit)
  <2>1. push \in BOOLEAN /\ specCnt \in 0 .. SpecDepth
    BY <1>0 DEF SpecTypes
  <2> HIDE DEF push
  <2> QED
    BY <2>1, <1>0, <1>1, <1>2, Counts DEF Speculate, SpecCount
<1>4. Room(FALSE, commit, FALSE) => specCnt' < SpecDepth
  BY <1>0, <1>1, <1>3 DEF Room, Ready, Push, Faults, One, SpecTypes, BypassRing
<1>5. /\ accept <=> Looks /\ hit /\ Room(FALSE, commit, FALSE)
      /\ Looks => Ctrl # 0
  BY DEF Accepting, Accepts, Looks, commit
<1>6. state' \in States /\ (state' = "VALID_STORE" <=> accept) /\ held' = Ctrl
  BY <1>0, <1>1, <1>2, <1>5 DEF UnitEdge, NextState, States, Faults, Looks
<1> QED
  BY <1>1, <1>2, <1>4, <1>5, <1>6 DEF commit, Accepting, Accepts, Looks

(* A function on 1 .. n is a sequence of length n.                           *)
LEMMA FunctionSeq ==
  ASSUME NEW n \in Nat, NEW S, NEW f \in [1 .. n -> S]
  PROVE  f \in Seq(S) /\ Len(f) = n
<1>1. f \in Seq(S)
  OBVIOUS
<1>2. Len(f) \in Nat /\ DOMAIN f = 1 .. Len(f) /\ DOMAIN f = 1 .. n
  BY <1>1
<1> QED
  BY <1>1, <1>2

(* The result that comes is that of the oldest store without one.            *)
LEMMA ResultStep ==
  ASSUME StoreInv
  PROVE  /\ WithResult(FALSE) \in Seq(Scored) /\ Len(WithResult(FALSE)) = Len(inFlight)
         /\ \A i \in 1 .. Len(inFlight) : WithResult(FALSE)[i] =
              [id |-> Base + i, res |-> IF i <= specCnt + Busy THEN "done" ELSE "none"]
<1> DEFINE L == Len(inFlight)
           new(i) == [id |-> Base + i, res |-> IF i <= specCnt + Busy THEN "done" ELSE "none"]
<1>0. UnitTypes /\ SpecTypes /\ SpecRing /\ InIssueOrder /\ BypassRing
  BY DEF StoreInv
<1>1. L \in Nat /\ Base \in Nat /\ DOMAIN inFlight = 1 .. L /\ specCnt \in Nat /\ Busy \in 0 .. 1
  BY <1>0 DEF UnitTypes, SpecTypes, SpecRing, Base, Busy, One
<1>2. ASSUME NEW i \in 1 .. L PROVE WithResult(FALSE)[i] = new(i)
  <2>1. /\ inFlight[i].id = Base + i
        /\ inFlight[i].res = IF i <= specCnt THEN "done" ELSE "none"
        /\ inFlight[i] = [id |-> Base + i, res |-> IF i <= specCnt THEN "done" ELSE "none"]
    BY <1>0 DEF InIssueOrder
  <2>2. Results(FALSE) <=> state = "VALID_STORE"
    BY DEF Results, Faults
  <2>3. WithResult(FALSE)[i] =
          IF state = "VALID_STORE" /\ Base + i = held /\ ~(i <= specCnt)
          THEN [inFlight[i] EXCEPT !.res = "done"] ELSE inFlight[i]
    BY <1>1, <2>1, <2>2 DEF WithResult
  <2>4. CASE state = "VALID_STORE"
    <3>1. held = Base + specCnt + 1 /\ Busy = 1
      BY <2>4, <1>0 DEF BypassRing, Busy, One
    <3>2. Base + i = held <=> i = specCnt + 1
      BY <3>1, <1>1
    <3>3. i <= specCnt + Busy <=> i <= specCnt \/ i = specCnt + 1
      BY <3>1, <1>1
    <3>4. [inFlight[i] EXCEPT !.res = "done"] = [id |-> Base + i, res |-> "done"]
      BY <2>1
    <3> QED
      BY <2>1, <2>3, <2>4, <3>2, <3>3, <3>4
  <2>5. CASE state # "VALID_STORE"
    <3>1. i <= specCnt + Busy <=> i <= specCnt
      BY <2>5, <1>1 DEF Busy, One
    <3> QED
      BY <3>1, <2>1, <2>3, <2>5
  <2> QED
    BY <2>4, <2>5
<1>3. ASSUME NEW i \in 1 .. L PROVE new(i) \in Scored
  BY <1>1 DEF Scored
<1>4. WithResult(FALSE) \in [1 .. L -> Scored]
  <2> HIDE DEF new
  <2>1. ASSUME NEW i \in 1 .. L PROVE WithResult(FALSE)[i] \in Scored
    BY <1>2, <1>3
  <2> QED
    BY <2>1, <1>1 DEF WithResult
<1>5. WithResult(FALSE) \in Seq(Scored) /\ Len(WithResult(FALSE)) = L
  <2>1. L \in Nat
    BY <1>1
  <2> HIDE DEF L
  <2> QED
    BY <2>1, <1>4, FunctionSeq
<1> QED
  BY <1>2, <1>5

(* The scoreboard after a cycle without a flush: the oldest store gone if it *)
(* retires, the store that is sent at the end.                               *)
LEMMA ScoreboardStep ==
  ASSUME StoreInv, NEW send \in BOOLEAN, NEW go \in BOOLEAN,
         Bookkeep(send, FALSE, go, FALSE)
  PROVE  /\ Sends(send, FALSE) \in BOOLEAN
         /\ Sends(send, FALSE) => byCnt = 0 /\ issued < MaxStores
         /\ request' = IF Sends(send, FALSE) THEN issued + 1 ELSE 0
         /\ issued' = issued + One(Sends(send, FALSE))
         /\ retired' = IF Commits(go) THEN Append(retired, Base + 1) ELSE retired
         /\ inFlight' \in Seq(Scored)
         /\ Len(inFlight') = Len(inFlight) - One(Commits(go)) + One(Sends(send, FALSE))
         /\ \A i \in 1 .. Len(inFlight') : inFlight'[i] =
              [id |-> Base + One(Commits(go)) + i,
               res |-> IF i + One(Commits(go)) <= specCnt + Busy THEN "done" ELSE "none"]
<1> DEFINE sends == Sends(send, FALSE)
           L == Len(inFlight)
           commit == Commits(go)
           c == One(commit)
           result == WithResult(FALSE)
           kept == IF commit THEN Tail(result) ELSE result
           last == [id |-> issued + 1, res |-> "none"]
           new(i) == [id |-> Base + c + i, res |-> IF i + c <= specCnt + Busy THEN "done" ELSE "none"]
<1>0. UnitTypes /\ SpecTypes /\ SpecRing /\ BypassRing
  BY DEF StoreInv
<1>1. /\ L \in Nat /\ Base \in Nat /\ Base + L = issued /\ issued \in Nat
      /\ specCnt \in Nat /\ Busy \in 0 .. 1 /\ specCnt + Busy <= L
  BY <1>0, StoresAssumption DEF UnitTypes, SpecTypes, SpecRing, BypassRing, Base, Busy, Arriving, One
<1>2. /\ commit \in BOOLEAN /\ (Retires(go) <=> commit)
      /\ commit => specCnt >= 1 /\ inFlight[1].id = Base + 1
  BY CommitsHead
<1>3. /\ result \in Seq(Scored) /\ Len(result) = L
      /\ \A i \in 1 .. L : result[i] =
           [id |-> Base + i, res |-> IF i <= specCnt + Busy THEN "done" ELSE "none"]
  BY ResultStep
<1>4. /\ sends \in BOOLEAN
      /\ sends => byCnt = 0 /\ issued < MaxStores
  BY DEF Sends, BypassReady
<1>5. /\ request' = IF sends THEN issued + 1 ELSE 0
      /\ issued' = issued + One(sends)
      /\ retired' = IF commit THEN Append(retired, Base + 1) ELSE retired
      /\ inFlight' = IF sends THEN Append(kept, last) ELSE kept
  BY <1>2, <1>4 DEF Bookkeep
<1> HIDE DEF commit, result, sends
<1>6. c \in 0 .. 1 /\ (commit => c = 1) /\ (~commit => c = 0) /\ L - c \in Nat
  BY <1>1, <1>2 DEF One
<1> HIDE DEF c
<1>7. /\ kept \in Seq(Scored) /\ Len(kept) = L - c
      /\ \A i \in 1 .. (L - c) : kept[i] = new(i)
  <2>1. CASE commit
    <3>1. result # <<>>
      BY <2>1, <1>1, <1>2, <1>3
    <3>2. /\ Tail(result) \in Seq(Scored) /\ Len(Tail(result)) = L - 1
          /\ \A i \in 1 .. Len(Tail(result)) : Tail(result)[i] = result[i + 1]
      BY <3>1, <1>3, HeadTailProperties
    <3>3. ASSUME NEW i \in 1 .. (L - 1) PROVE Tail(result)[i] = new(i)
      <4>1. i + 1 \in 1 .. L /\ Base + (i + 1) = Base + c + i /\ i + c = i + 1
        BY <2>1, <1>1, <1>6
      <4> QED
        BY <4>1, <3>2, <1>3
    <3> QED
      BY <2>1, <3>2, <3>3, <1>6
  <2>2. CASE ~commit
    <3>1. c = 0 /\ L - c = L /\ kept = result
      BY <2>2, <1>1, <1>6
    <3>2. ASSUME NEW i \in 1 .. L PROVE result[i] = new(i)
      <4>1. Base + i = Base + c + i /\ i + c = i
        BY <3>1, <1>1
      <4> QED
        BY <4>1, <1>3
    <3> QED
      BY <3>1, <3>2, <1>3
  <2> QED
    BY <2>1, <2>2, <1>2
<1> HIDE DEF kept, L
<1>8. last \in Scored /\ (sends => last = new(L - c + 1))
  <2>1. last \in Scored
    BY <1>1 DEF Scored
  <2>2. Base + c + (L - c + 1) = issued + 1 /\ ~((L - c + 1) + c <= specCnt + Busy)
    BY <1>1, <1>6
  <2> QED
    BY <2>1, <2>2
<1> HIDE DEF last, new
<1>9. /\ inFlight' \in Seq(Scored) /\ Len(inFlight') = L - c + One(sends)
      /\ \A i \in 1 .. Len(inFlight') : inFlight'[i] = new(i)
  <2>1. CASE sends
    <3>1. /\ Append(kept, last) \in Seq(Scored) /\ Len(Append(kept, last)) = L - c + 1
          /\ Append(kept, last)[L - c + 1] = last
          /\ \A i \in 1 .. (L - c) : Append(kept, last)[i] = kept[i]
      BY <1>7, <1>8
    <3>2. ASSUME NEW i \in 1 .. (L - c + 1) PROVE Append(kept, last)[i] = new(i)
      <4>1. i \in 1 .. (L - c) \/ i = L - c + 1
        BY <1>6
      <4> QED
        BY <4>1, <3>1, <1>7, <1>8, <2>1
    <3> QED
      BY <3>1, <3>2, <2>1, <1>5 DEF One
  <2>2. CASE ~sends
    BY <2>2, <1>5, <1>6, <1>7 DEF One
  <2> QED
    BY <2>1, <2>2, <1>4
<1> QED
  BY <1>4, <1>5, <1>9 DEF new, L, c, commit, sends

(* One cycle of the bypass without a flush: it shows the stores in the order *)
(* in which they were issued.                                                *)
LEMMA BypassStep ==
  ASSUME StoreInv, NEW accept \in BOOLEAN, accept => Ctrl # 0,
         BypassEdge(request, accept, FALSE)
  PROVE  /\ First \in Nat /\ (accept => Ctrl = First) /\ Ctrl \in Nat
         /\ byMem' \in [0 .. 1 -> Nat] /\ byRd' \in 0 .. 1 /\ byWr' \in 0 .. 1 /\ byCnt' \in 0 .. 2
         /\ byCnt' = byCnt + Arriving - One(accept)
         /\ byWr' = IF byCnt' = 1 THEN 1 - byRd' ELSE byRd'
         /\ byMem'[byRd'] = IF byCnt' >= 1 THEN First + One(accept) ELSE 0
         /\ byMem'[1 - byRd'] = IF byCnt' = 2 THEN First + One(accept) + 1 ELSE 0
<1>0. /\ byMem \in [0 .. 1 -> Nat] /\ byRd \in 0 .. 1 /\ byWr \in 0 .. 1 /\ byCnt \in 0 .. 2
      /\ request \in Nat
  BY DEF StoreInv, UnitTypes
<1>1. /\ First \in Nat /\ First > 0
      /\ byWr = IF byCnt = 1 THEN 1 - byRd ELSE byRd
      /\ byMem[byRd] = IF byCnt >= 1 THEN First ELSE 0
      /\ byMem[1 - byRd] = IF byCnt = 2 THEN First + 1 ELSE 0
      /\ request # 0 => request = First + byCnt /\ byCnt <= 1
  <2>0. BypassRing /\ UnitTypes /\ SpecTypes /\ SpecRing
    BY DEF StoreInv
  <2>1. /\ specCnt \in Nat /\ Busy \in 0 .. 1 /\ Len(inFlight) \in Nat /\ issued \in Nat
        /\ Base \in Nat /\ issued = Base + Len(inFlight)
    BY <2>0, StoresAssumption DEF SpecTypes, UnitTypes, SpecRing, Busy, Base, One
  <2>2. request # 0 => request = Base + (specCnt + Busy + byCnt + 1) /\ byCnt <= 1
    BY <2>0, <2>1 DEF BypassRing, Arriving, One
  <2> QED
    BY <2>0, <2>1, <2>2, <1>0 DEF BypassRing, First
<1>2. Ctrl = (IF byCnt = 0 THEN request ELSE byMem[byRd])
  BY DEF Ctrl, Served
<1>3. (accept => Ctrl = First) /\ Ctrl \in Nat
  BY <1>0, <1>1, <1>2
<1>4. accept => byCnt >= 1 \/ request # 0
  BY <1>0, <1>2
<1> DEFINE stored == IF request # 0 THEN [byMem EXCEPT ![byWr] = request] ELSE byMem
<1>5. /\ byMem' = IF accept THEN [stored EXCEPT ![byRd] = 0] ELSE stored
      /\ byWr' = IF request # 0 THEN 1 - byWr ELSE byWr
      /\ byRd' = IF accept THEN 1 - byRd ELSE byRd
      /\ byCnt' = (byCnt + Arriving + (IF accept THEN 3 ELSE 0)) % 4
  BY DEF BypassEdge, Arriving, One
<1>6. byCnt' = byCnt + Arriving - One(accept)
  BY <1>0, <1>1, <1>4, <1>5 DEF Arriving, One
<1>7. stored \in [0 .. 1 -> Nat] /\ byMem' \in [0 .. 1 -> Nat]
  BY <1>0, <1>5
<1>8. byRd' \in 0 .. 1 /\ byWr' \in 0 .. 1 /\ byCnt' \in 0 .. 2
  BY <1>0, <1>1, <1>4, <1>5, <1>6 DEF Arriving, One
<1>9. byWr' = IF byCnt' = 1 THEN 1 - byRd' ELSE byRd'
  BY <1>0, <1>1, <1>4, <1>5, <1>6 DEF Arriving, One
<1>10. /\ stored[byRd] = IF byCnt + Arriving >= 1 THEN First ELSE 0
       /\ stored[1 - byRd] = IF byCnt + Arriving = 2 THEN First + 1 ELSE 0
  BY <1>0, <1>1 DEF Arriving, One
<1> HIDE DEF stored
<1>11. /\ byMem'[byRd'] = IF byCnt' >= 1 THEN First + One(accept) ELSE 0
       /\ byMem'[1 - byRd'] = IF byCnt' = 2 THEN First + One(accept) + 1 ELSE 0
  BY <1>0, <1>1, <1>4, <1>5, <1>6, <1>7, <1>10 DEF Arriving, One
<1> QED
  BY <1>1, <1>3, <1>6, <1>7, <1>8, <1>9, <1>11

(* A cycle without a flush or an exception keeps the invariant.              *)
LEMMA RunStep ==
  ASSUME StoreInv, NEW send \in BOOLEAN, NEW hit \in BOOLEAN, NEW go \in BOOLEAN,
         NEW grant \in BOOLEAN, Cycle(send, hit, FALSE, go, FALSE, grant)
  PROVE  StoreInv' /\ [Order!Next]_<<retired, written>>
<1> DEFINE commit == Commits(go)
           push == state = "VALID_STORE"
           accept == Accepting(hit, go)
           sends == Sends(send, FALSE)
           c == One(commit)
           a == One(accept)
           z == One(sends)
           L == Len(inFlight)
<1>0. SpecTypes /\ UnitTypes /\ SpecRing /\ BypassRing
  BY DEF StoreInv
<1>1. /\ Speculate(push, held, commit, FALSE) /\ Drain(grant, commit) /\ Writes(grant)
      /\ BypassEdge(request, accept, FALSE) /\ Bookkeep(send, FALSE, go, FALSE)
      /\ accept \in BOOLEAN
      /\ accept => Ctrl # 0 /\ specCnt' < SpecDepth
      /\ held' = Ctrl /\ state' \in States /\ (state' = "VALID_STORE" <=> accept)
  BY CycleWires
<1>2. commit \in BOOLEAN /\ (commit => specCnt >= 1) /\ Base \in Nat
  BY CommitsHead
<1>3. push \in BOOLEAN /\ One(push) = Busy /\ (push => held = Base + specCnt + 1 /\ specCnt < SpecDepth)
  BY <1>0 DEF BypassRing, Busy, One
<1> HIDE DEF commit, accept
<1>4. /\ SpecTypes' /\ specCnt' = specCnt + Busy - c
      /\ specWr' = After(specRd', specCnt', SpecDepth)
      /\ \A k \in 0 .. SpecDepth - 1 : SpecAt(k)'.valid <=> k < specCnt'
      /\ \A k \in 0 .. specCnt' - 1 :
           SpecAt(k)' = IF k + c < specCnt THEN SpecAt(k + c) ELSE Entry(held)
  <2>1. held \in Nat
    BY <1>0 DEF UnitTypes
  <2> HIDE DEF push
  <2>2. /\ push \in BOOLEAN /\ commit \in BOOLEAN /\ (push => specCnt < SpecDepth)
        /\ (commit => specCnt >= 1) /\ Speculate(push, held, commit, FALSE)
    BY <1>1, <1>2, <1>3
  <2>3. /\ SpecTypes' /\ specCnt' = specCnt + One(push) - One(commit)
        /\ specWr' = After(specRd', specCnt', SpecDepth)
        /\ \A k \in 0 .. SpecDepth - 1 : SpecAt(k)'.valid <=> k < specCnt'
        /\ \A k \in 0 .. specCnt' - 1 :
             SpecAt(k)' = IF k + One(commit) < specCnt THEN SpecAt(k + One(commit)) ELSE Entry(held)
    BY <2>1, <2>2, SpeculateStep
  <2>4. One(push) = Busy /\ One(commit) = c
    BY <1>3
  <2> HIDE DEF c
  <2> QED
    BY <2>3, <2>4
<1>5. /\ sends \in BOOLEAN
      /\ sends => byCnt = 0 /\ issued < MaxStores
      /\ request' = IF sends THEN issued + 1 ELSE 0
      /\ issued' = issued + z
      /\ retired' = IF commit THEN Append(retired, Base + 1) ELSE retired
      /\ inFlight' \in Seq(Scored) /\ Len(inFlight') = L - c + z
      /\ \A i \in 1 .. Len(inFlight') : inFlight'[i] =
           [id |-> Base + c + i, res |-> IF i + c <= specCnt + Busy THEN "done" ELSE "none"]
  BY <1>1, ScoreboardStep DEF commit
<1>6. /\ First \in Nat /\ (accept => Ctrl = First) /\ Ctrl \in Nat
      /\ byMem' \in [0 .. 1 -> Nat] /\ byRd' \in 0 .. 1 /\ byWr' \in 0 .. 1 /\ byCnt' \in 0 .. 2
      /\ byCnt' = byCnt + Arriving - a
      /\ byWr' = IF byCnt' = 1 THEN 1 - byRd' ELSE byRd'
      /\ byMem'[byRd'] = IF byCnt' >= 1 THEN First + a ELSE 0
      /\ byMem'[1 - byRd'] = IF byCnt' = 2 THEN First + a + 1 ELSE 0
  BY <1>1, BypassStep
<1>7. /\ ComTypes' /\ CommitRing' /\ retired' \in Seq(Ids) /\ written' \in Seq(Ids)
      /\ [Order!Next]_<<retired, written>>
  BY <1>1, <1>5, WrittenStep DEF commit
<1> HIDE DEF sends, push
<1>8. /\ c \in 0 .. 1 /\ a \in 0 .. 1 /\ z \in 0 .. 1 /\ Busy \in 0 .. 1 /\ Arriving \in 0 .. 1
      /\ (commit <=> c = 1) /\ (accept <=> a = 1) /\ (sends <=> z = 1)
      /\ L \in Nat /\ specCnt \in Nat /\ issued \in Nat /\ byCnt \in Nat
      /\ issued = Base + L /\ L = specCnt + Busy + byCnt + Arriving
  <2>1. c \in 0 .. 1 /\ a \in 0 .. 1 /\ z \in 0 .. 1 /\ Busy \in 0 .. 1 /\ Arriving \in 0 .. 1
    BY DEF One, Busy, Arriving
  <2>2. (commit <=> c = 1) /\ (accept <=> a = 1) /\ (sends <=> z = 1)
    BY <1>1, <1>2, <1>5 DEF One
  <2>3. /\ L \in Nat /\ specCnt \in Nat /\ issued \in Nat /\ byCnt \in Nat
        /\ L = specCnt + Busy + byCnt + Arriving
    BY <1>0, StoresAssumption DEF UnitTypes, SpecTypes, BypassRing
  <2>4. issued = Base + L
    BY <2>3 DEF Base
  <2> QED
    BY <2>1, <2>2, <2>3, <2>4
<1>9. Busy' = a /\ Arriving' = z
  <2>1. Busy' = a
    BY <1>1 DEF Busy, One
  <2>2. request' # 0 <=> sends
    BY <1>5, <1>8
  <2> QED
    BY <2>1, <2>2, <1>5 DEF Arriving, One
<1> HIDE DEF c, a, z, L
<1>10. Base' = Base + c
  <2>1. issued' = issued + z /\ Len(inFlight') = L - c + z /\ Base = issued - L
    BY <1>5 DEF Base, L
  <2> QED
    BY <2>1, <1>8 DEF Base
<1>11. UnitTypes'
  <2>1. request' \in Nat /\ issued' \in 0 .. MaxStores
    <3>1. issued \in 0 .. MaxStores /\ MaxStores \in Nat
      BY <1>0, StoresAssumption DEF UnitTypes
    <3>2. CASE sends
      <4>1. z = 1 /\ issued < MaxStores /\ request' = issued + 1 /\ issued' = issued + z
        BY <3>2, <1>5, <1>8
      <4> QED
        BY <3>1, <4>1
    <3>3. CASE ~sends
      <4>1. z = 0 /\ request' = 0 /\ issued' = issued + z
        BY <3>3, <1>5, <1>8
      <4> QED
        BY <3>1, <4>1
    <3> QED
      BY <3>2, <3>3
  <2> QED
    BY <2>1, <1>1, <1>5, <1>6, <1>7 DEF UnitTypes
<1>12. SpecRing'
  <2>1. specCnt' <= Len(inFlight') /\ Len(inFlight') <= issued'
    BY <1>2, <1>4, <1>5, <1>8
  <2>2. ASSUME NEW k \in 0 .. specCnt' - 1 PROVE SpecAt(k)' = Entry(Base' + k + 1)
    <3>1. Base' + k + 1 = Base + (k + c) + 1 /\ k + c \in Nat /\ k + c < specCnt + Busy
      BY <1>2, <1>4, <1>8, <1>10
    <3>2. CASE k + c < specCnt
      BY <3>1, <3>2, <1>0, <1>4, <1>8 DEF SpecRing
    <3>3. CASE ~(k + c < specCnt)
      <4>1. k + c = specCnt /\ Busy = 1
        BY <3>1, <3>3, <1>8
      <4>2. Entry(held) = Entry(Base + (k + c) + 1)
        BY <4>1, <1>3 DEF Busy, push, One
      <4> QED
        BY <4>2, <3>1, <3>3, <1>4
    <3> QED
      BY <3>2, <3>3
  <2> QED
    BY <2>1, <2>2, <1>4 DEF SpecRing
<1>13. InIssueOrder'
  <2>1. ASSUME NEW i \in 1 .. Len(inFlight')
        PROVE  inFlight'[i] = [id |-> Base' + i, res |-> IF i <= specCnt' THEN "done" ELSE "none"]
    <3>1. i + c <= specCnt + Busy <=> i <= specCnt'
      BY <1>4, <1>5, <1>8
    <3> QED
      BY <3>1, <1>5, <1>10
  <2> QED
    BY <2>1 DEF InIssueOrder
<1>14. BypassRing'
  <2>1. Len(inFlight') = specCnt' + Busy' + byCnt' + Arriving'
    BY <1>4, <1>5, <1>6, <1>8, <1>9
  <2>2. First' = First + a /\ Base' + specCnt' + 1 = First
    BY <1>2, <1>4, <1>8, <1>9, <1>10 DEF First
  <2>3. byMem'[byRd'] = IF byCnt' >= 1 THEN First' ELSE 0
    BY <2>2, <1>6
  <2>4. byMem'[1 - byRd'] = IF byCnt' = 2 THEN First' + 1 ELSE 0
    BY <2>2, <1>6
  <2>5. request' # 0 => request' = issued' /\ byCnt' <= 1
    BY <1>5, <1>6, <1>8
  <2>6. state' = "VALID_STORE" => held' = Base' + specCnt' + 1 /\ specCnt' < SpecDepth
    BY <2>2, <1>1, <1>6
  <2> QED
    BY <2>1, <2>3, <2>4, <2>5, <2>6, <1>6 DEF BypassRing
<1> QED
  BY <1>4, <1>7, <1>11, <1>12, <1>13, <1>14 DEF StoreInv

(* Every step of the store path.                                             *)
LEMMA StoreStep ==
  ASSUME Exceptions = {FALSE}, StoreInv, [Next]_vars
  PROVE  StoreInv' /\ [Order!Next]_<<retired, written>>
<1>1. CASE UNCHANGED vars
  BY <1>1 DEF vars, bufferVars, bypassVars, unitVars, StoreInv, SpecTypes, ComTypes, UnitTypes,
              SpecRing, InIssueOrder, BypassRing, CommitRing, SpecAt, ComAt, Base, First, Busy, Arriving
<1>2. ASSUME NEW send \in BOOLEAN, NEW hit \in BOOLEAN, NEW go \in BOOLEAN, NEW other \in BOOLEAN,
             NEW grant \in BOOLEAN, Cycle(send, hit, FALSE, go, other, grant)
      PROVE  StoreInv' /\ [Order!Next]_<<retired, written>>
  <2>1. CASE other = FALSE
    BY <1>2, <2>1, RunStep
  <2>2. CASE other = TRUE
    <3>1. /\ SpecTypes' /\ UnitTypes' /\ SpecRing' /\ InIssueOrder' /\ BypassRing'
          /\ Drain(grant, Commits(go)) /\ Writes(grant) /\ ~Commits(go) /\ retired' = retired
      BY <1>2, <2>2, FlushStep
    <3>2. ComTypes' /\ CommitRing' /\ [Order!Next]_<<retired, written>>
      BY <3>1, WrittenStep
    <3> QED
      BY <3>1, <3>2 DEF StoreInv
  <2> QED
    BY <2>1, <2>2
<1> QED
  BY <1>1, <1>2 DEF Next

(* The invariant in every state.                                             *)
LEMMA StoreAlways == ASSUME Exceptions = {FALSE} PROVE Spec => []StoreInv
<1>1. StoreInv /\ [Next]_vars => StoreInv'
  BY StoreStep
<1> QED
  BY <1>1, StoreStarts, PTL DEF Spec

(* The slots as the code's pointers reach them.                             *)
LEMMA Modulo ==
  ASSUME NEW n \in Depths, NEW p \in 0 .. n - 1, NEW k \in 0 .. n
  PROVE  (p + k) % n = After(p, k, n)
<1>1. CASE n = 2
  BY <1>1 DEF After
<1>2. CASE n = 4
  BY <1>2 DEF After
<1>3. CASE n = 8
  BY <1>3 DEF After
<1>4. CASE n = 16
  BY <1>4 DEF After
<1> QED
  BY <1>1, <1>2, <1>3, <1>4 DEF Depths

(* The stores without a result by their places in the scoreboard.           *)
LEMMA Scoreboard ==
  ASSUME StoreInv
  PROVE  /\ Done = 1 .. specCnt /\ specCnt \in 0 .. SpecDepth /\ Base \in Nat
         /\ Len(inFlight) \in Nat /\ specCnt <= Len(inFlight)
         /\ \A i \in 1 .. Len(inFlight) : inFlight[i].id = Base + i
<1>1. UnitTypes /\ SpecTypes /\ SpecRing /\ InIssueOrder
  BY DEF StoreInv
<1>2. /\ Len(inFlight) \in Nat /\ DOMAIN inFlight = 1 .. Len(inFlight) /\ specCnt \in 0 .. SpecDepth
      /\ specCnt <= Len(inFlight) /\ Base \in Nat /\ specCnt \in Nat
  BY <1>1 DEF UnitTypes, SpecTypes, SpecRing, Base
<1>3. \A i \in 1 .. Len(inFlight) :
         inFlight[i].id = Base + i /\ (inFlight[i].res = "done" <=> i <= specCnt)
  <2> TAKE i \in 1 .. Len(inFlight)
  <2>1. inFlight[i] = [id |-> Base + i, res |-> IF i <= specCnt THEN "done" ELSE "none"]
    BY <1>1 DEF InIssueOrder
  <2>2. inFlight[i].id = Base + i /\ inFlight[i].res = IF i <= specCnt THEN "done" ELSE "none"
    BY <2>1
  <2>3. CASE i <= specCnt
    BY <2>2, <2>3
  <2>4. CASE ~(i <= specCnt)
    BY <2>2, <2>4
  <2> QED
    BY <2>3, <2>4
<1> QED
  BY <1>2, <1>3 DEF Done

(* The speculative ring holds the stores with a result, in order, and never  *)
(* more than it has room for (store_buffer.sv:97), for every depth.          *)
THEOREM SpeculativeSoundHolds ==
  ASSUME Exceptions = {FALSE} PROVE Spec => []SpeculativeSound
<1>1. ASSUME StoreInv PROVE SpeculativeSound
  <2>0. SpecTypes /\ SpecRing /\ SpecDepth \in Depths /\ SpecDepth \in Nat
    BY <1>1, DepthsArePowersOfTwo DEF StoreInv, Depths
  <2>1. Done = 1 .. specCnt /\ specCnt <= SpecDepth /\ specCnt \in 0 .. SpecDepth /\ Base \in Nat
    BY <1>1, <2>0, Scoreboard
  <2>2. specWr = (specRd + specCnt) % SpecDepth
    BY <2>0, <2>1, Modulo DEF SpecTypes, SpecRing
  <2>3. ASSUME NEW k \in 0 .. SpecDepth - 1
        PROVE  IF k < specCnt THEN specQueue[(specRd + k) % SpecDepth] = Entry(inFlight[k + 1].id)
               ELSE ~specQueue[(specRd + k) % SpecDepth].valid
    <3>0. specRd \in 0 .. SpecDepth - 1 /\ k \in 0 .. SpecDepth
      BY <2>0 DEF SpecTypes
    <3>1. specQueue[(specRd + k) % SpecDepth] = SpecAt(k)
      <4>1. (specRd + k) % SpecDepth = After(specRd, k, SpecDepth)
        BY <3>0, <2>0, Modulo
      <4> QED
        BY <4>1 DEF SpecAt
    <3>2. CASE k < specCnt
      <4>1. k + 1 \in 1 .. Len(inFlight) /\ Base + (k + 1) = Base + k + 1 /\ k \in 0 .. specCnt - 1
        BY <3>2, <2>0, <2>1, <1>1, Scoreboard
      <4>2. inFlight[k + 1].id = Base + k + 1
        BY <4>1, <1>1, Scoreboard
      <4> QED
        BY <4>1, <4>2, <3>1, <3>2, <2>0 DEF SpecRing
    <3>3. CASE ~(k < specCnt)
      BY <3>1, <3>3, <2>0 DEF SpecRing
    <3> QED
      BY <3>2, <3>3
  <2> QED
    BY <2>1, <2>2, <2>3 DEF SpeculativeSound
<1> QED
  BY <1>1, StoreAlways, PTL

(* The committed ring holds the stores that retired and are not written, in  *)
(* order, and its counter is zero only when all are (no_st_pending_o), for   *)
(* every depth.                                                              *)
THEOREM CommittedSoundHolds ==
  ASSUME Exceptions = {FALSE} PROVE Spec => []CommittedSound
<1>1. ASSUME StoreInv PROVE CommittedSound
  <2>0. ComTypes /\ UnitTypes /\ CommitRing /\ CommitDepth \in Depths /\ CommitDepth \in Nat
    BY <1>1, DepthsArePowersOfTwo DEF StoreInv, Depths
  <2>1. comCnt <= CommitDepth /\ comWr = (comRd + comCnt) % CommitDepth
    BY <2>0, Modulo DEF ComTypes, CommitRing
  <2>2. ASSUME NEW k \in 0 .. CommitDepth - 1
        PROVE  IF k < comCnt
               THEN comQueue[(comRd + k) % CommitDepth] = Entry(retired[Len(written) + k + 1])
               ELSE ~comQueue[(comRd + k) % CommitDepth].valid
    <3>0. comRd \in 0 .. CommitDepth - 1 /\ k \in 0 .. CommitDepth
      BY <2>0 DEF ComTypes
    <3>1. comQueue[(comRd + k) % CommitDepth] = ComAt(k)
      <4>1. (comRd + k) % CommitDepth = After(comRd, k, CommitDepth)
        BY <3>0, <2>0, Modulo
      <4> QED
        BY <4>1 DEF ComAt
    <3>2. k < comCnt => k \in 0 .. comCnt - 1
      BY <2>0 DEF ComTypes
    <3> QED
      BY <3>1, <3>2, <2>0 DEF CommitRing
  <2>3. DOMAIN written = 1 .. Len(written)
    BY <2>0 DEF UnitTypes
  <2> QED
    BY <2>0, <2>1, <2>2, <2>3 DEF CommittedSound, CommitRing
<1> QED
  BY <1>1, StoreAlways, PTL

(* Between issue and the store buffer no store is lost, served twice or out  *)
(* of order, for every depth (lsu_bypass.sv).                                *)
THEOREM BypassSoundHolds ==
  ASSUME Exceptions = {FALSE} PROVE Spec => []BypassSound
<1>1. ASSUME StoreInv PROVE BypassSound
  <2>0. BypassRing /\ UnitTypes
    BY <1>1 DEF StoreInv
  <2>1. /\ Base \in Nat /\ specCnt \in Nat /\ Len(inFlight) \in Nat /\ byCnt \in 0 .. 2
        /\ Busy \in 0 .. 1 /\ Arriving \in 0 .. 1 /\ issued = Base + Len(inFlight)
        /\ Len(inFlight) = specCnt + Busy + byCnt + Arriving
    <3>1. issued \in Nat
      BY <2>0, StoresAssumption DEF UnitTypes
    <3>2. specCnt \in Nat
      BY <1>1, DepthsArePowersOfTwo DEF StoreInv, SpecTypes
    <3> QED
      BY <3>1, <3>2, <2>0, <1>1, Scoreboard DEF UnitTypes, BypassRing, Busy, Arriving, One, Base
  <2>2. ASSUME NEW i \in 1 .. Len(inFlight) - specCnt PROVE inFlight[specCnt + i].id = Base + specCnt + i
    <3>1. specCnt + i \in 1 .. Len(inFlight) /\ Base + (specCnt + i) = Base + specCnt + i
      BY <2>1
    <3> QED
      BY <3>1, <1>1, Scoreboard
  <2>3. Busy = 1 => Waits(held, 1)
    <3>1. Busy = 1 => held = Base + specCnt + 1 /\ 1 \in 1 .. Len(inFlight) - specCnt
      BY <2>0, <2>1 DEF BypassRing, Busy, One
    <3> QED
      BY <3>1, <2>2 DEF Waits
  <2>4. byCnt >= 1 => Waits(First, Busy + 1)
    <3>1. byCnt >= 1 => Busy + 1 \in 1 .. Len(inFlight) - specCnt /\ First = Base + specCnt + (Busy + 1)
      BY <2>1 DEF First
    <3> QED
      BY <3>1, <2>2 DEF Waits
  <2>5. byCnt = 2 => Waits(First + 1, Busy + 2)
    <3>1. byCnt = 2 => /\ Busy + 2 \in 1 .. Len(inFlight) - specCnt
                      /\ First + 1 = Base + specCnt + (Busy + 2)
      BY <2>1 DEF First
    <3> QED
      BY <3>1, <2>2 DEF Waits
  <2>6. Arriving = 1 => Waits(request, Busy + byCnt + 1)
    <3>1. Arriving = 1 => request = Base + specCnt + (Busy + byCnt + 1)
      BY <2>0, <2>1 DEF BypassRing, Arriving, One
    <3>2. Arriving = 1 => Busy + byCnt + 1 \in 1 .. Len(inFlight) - specCnt
      BY <2>1
    <3> QED
      BY <3>1, <3>2, <2>2 DEF Waits
  <2> QED
    BY <2>0, <2>1, <2>3, <2>4, <2>5, <2>6 DEF BypassSound, BypassRing
<1> QED
  BY <1>1, StoreAlways, PTL

(* The page-offset check of a load (store_buffer.sv:144-163) finds every     *)
(* store that has left the bypass and is not written, whatever the depths of *)
(* the rings, while no translation raises an exception.                      *)
THEOREM LoadsSeeStoresHolds ==
  ASSUME Exceptions = {FALSE} PROVE Spec => []LoadsSeeStores
<1>1. ASSUME StoreInv PROVE LoadsSeeStores
  <2>0. SpecTypes /\ ComTypes /\ UnitTypes /\ SpecRing /\ InIssueOrder /\ CommitRing
    BY <1>1 DEF StoreInv
  <2>1. SpecDepth \in Depths /\ SpecDepth \in Nat /\ CommitDepth \in Depths /\ CommitDepth \in Nat
    BY DepthsArePowersOfTwo DEF Depths
  <2>2. ASSUME NEW i \in DOMAIN inFlight, inFlight[i].res = "done"
        PROVE  \E k \in DOMAIN specQueue : specQueue[k] = Entry(inFlight[i].id)
    <3>0. i \in 1 .. Len(inFlight) /\ Len(inFlight) \in Nat /\ Base \in Nat
      BY <2>0 DEF UnitTypes, SpecRing, Base
    <3>1. inFlight[i] = [id |-> Base + i, res |-> IF i <= specCnt THEN "done" ELSE "none"]
      BY <3>0, <2>0 DEF InIssueOrder
    <3>2. i - 1 \in 0 .. specCnt - 1 /\ i - 1 \in 0 .. SpecDepth
      BY <3>0, <3>1, <2>0, <2>1, <2>2 DEF SpecTypes
    <3>3. SpecAt(i - 1) = Entry(Base + (i - 1) + 1) /\ Base + (i - 1) + 1 = Base + i
      BY <3>0, <3>2, <2>0 DEF SpecRing
    <3>4. After(specRd, i - 1, SpecDepth) \in DOMAIN specQueue
      BY <3>2, <2>0, <2>1, AfterType DEF SpecTypes
    <3> QED
      BY <3>1, <3>3, <3>4 DEF SpecAt
  <2>3. ASSUME NEW i \in Len(written) + 1 .. Len(retired)
        PROVE  \E k \in DOMAIN comQueue : comQueue[k] = Entry(retired[i])
    <3> DEFINE k == i - Len(written) - 1
    <3>1. /\ k \in 0 .. comCnt - 1 /\ k \in 0 .. CommitDepth
          /\ Len(written) + k + 1 = i
      BY <2>0, <2>1 DEF UnitTypes, CommitRing, ComTypes
    <3> HIDE DEF k
    <3>2. ComAt(k) = Entry(retired[i])
      BY <3>1, <2>0 DEF CommitRing
    <3>3. After(comRd, k, CommitDepth) \in DOMAIN comQueue
      BY <3>1, <2>0, <2>1, AfterType DEF ComTypes
    <3> QED
      BY <3>2, <3>3 DEF ComAt
  <2> QED
    BY <2>2, <2>3 DEF LoadsSeeStores, Matches, Done
<1> QED
  BY <1>1, StoreAlways, PTL

(* Whatever the depths of the rings and the number of stores, while no       *)
(* translation raises an exception the cache is written by the stores that   *)
(* retire, each once and in order (store_buffer.sv, commit_stage.sv:44).     *)
THEOREM StoresInOrderHolds ==
  ASSUME Exceptions = {FALSE} PROVE Spec => StoresInOrder
<1>1. Init => Order!Init
  BY DEF Init, Order!Init
<1>2. StoreInv /\ [Next]_vars => [Order!Next]_<<retired, written>>
  BY StoreStep
<1> QED
  BY <1>1, <1>2, StoreAlways, PTL DEF Spec, StoresInOrder, Order!Spec
=============================================================================
