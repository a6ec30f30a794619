--------------------------- MODULE TaskRingProofs ---------------------------
(***************************************************************************)
(* Proofs about TaskRing, for rings of every size and any items.           *)
(*                                                                         *)
(* TypeOK holds whatever the order of the accesses.  The rest needs        *)
(* ProgramOrder and the invariant RInv: it says which of its accesses a    *)
(* call has made and what they have put where, and that a call past its    *)
(* check may rely on the check although the other thread has gone on since *)
(* (the slot a push writes stays free, the slot a pop reads stays taken).  *)
(***************************************************************************)
EXTENDS TaskRing, SequenceTheorems, TLAPS

\* The next slot, without the division.
LEMMA AdvanceIs ==
  ASSUME NEW i \in Slots
  PROVE  /\ Advance(i) = IF i = Size - 1 THEN 0 ELSE i + 1
         /\ Advance(i) \in Slots
<1>1. Size \in Nat \ {0} /\ i \in 0 .. Size - 1
  BY RingAssumption DEF Slots
<1>2. CASE i = Size - 1
  <2>1. (i + 1) % Size = 0
    BY <1>1, <1>2
  <2> QED BY <1>1, <1>2, <2>1 DEF Advance, Slots
<1>3. CASE i # Size - 1
  <2>1. i + 1 \in 0 .. Size - 1
    BY <1>1, <1>3
  <2>2. (i + 1) % Size = i + 1
    BY <1>1, <2>1
  <2> QED BY <1>1, <1>3, <2>1, <2>2 DEF Advance, Slots
<1> QED BY <1>2, <1>3

-----------------------------------------------------------------------------
LEMMA TypeInitially == Init => TypeOK
<1>1. 0 \in Slots
  BY RingAssumption DEF Slots
<1> QED BY <1>1 DEF Init, TypeOK, Word, Nothing

LEMMA TypeNext == TypeOK /\ [Next]_vars => TypeOK'
<1> SUFFICES ASSUME TypeOK, [Next]_vars PROVE TypeOK'
  OBVIOUS
<1> USE DEF TypeOK, Word, ring, producer, consumer
<1>0. 0 \in Slots
  BY RingAssumption DEF Slots
<1>1. ASSUME NEW v \in Items, PushCall(v) PROVE TypeOK'
  BY <1>1 DEF PushCall
<1>2. CASE PushRefused
  BY <1>2 DEF PushRefused
<1>3. CASE PushAdmitted
  BY <1>3 DEF PushAdmitted
<1>4. CASE StoreTask
  BY <1>0, <1>4 DEF StoreTask, PushDone
<1>5. CASE StoreData
  BY <1>0, <1>5 DEF StoreData, PushDone
<1>6. CASE StoreHead
  BY <1>0, <1>6, AdvanceIs DEF StoreHead, PushDone
<1>7. CASE PopCall
  BY <1>7 DEF PopCall
<1>8. CASE PopRefused
  BY <1>8 DEF PopRefused, Nothing
<1>9. CASE PopAdmitted
  BY <1>9 DEF PopAdmitted
<1>10. CASE LoadTask
  BY <1>0, <1>10 DEF LoadTask, PopDone, Nothing
<1>11. CASE LoadData
  BY <1>0, <1>11 DEF LoadData, PopDone, Nothing
<1>12. CASE StoreTail
  BY <1>0, <1>12, AdvanceIs DEF StoreTail, PopDone, Nothing
<1>13. CASE UNCHANGED vars
  BY <1>13 DEF vars
<1> QED
  BY <1>1, <1>2, <1>3, <1>4, <1>5, <1>6, <1>7, <1>8, <1>9, <1>10, <1>11,
     <1>12, <1>13 DEF Next, Push, Pop

\* The indices never leave the arrays, in whatever order the accesses reach
\* memory.
THEOREM TypeCorrect == Spec => []TypeOK
BY TypeInitially, TypeNext, PTL DEF Spec

-----------------------------------------------------------------------------
(***************************************************************************)
(* The invariant under program order.                                      *)
(***************************************************************************)

\* A push under way works on slot head, which stays free, and has made its
\* stores from the first on.
PushInv ==
  /\ pushPc = "store" <=> toStore # {}
  /\ toStore \in {{}, {"task", "data", "head"}, {"data", "head"}, {"head"}}
  /\ toStore # {} =>
       /\ wslot = head
       /\ Advance(head) # tail
       /\ "task" \notin toStore => tasks[head] = item
       /\ "data" \notin toStore => data[head] = item

\* A pop under way works on slot tail, which stays taken, and has filled in
\* what it has loaded.
PopInv ==
  /\ popPc = "load" <=> toLoad # {}
  /\ toLoad \in {{}, {"task", "data", "tail"}, {"task", "tail"},
                 {"data", "tail"}, {"tail"}}
  /\ toLoad = {} => got = Nothing
  /\ toLoad # {} =>
       /\ rslot = tail
       /\ tail # head
       /\ "task" \notin toLoad => got.task = tasks[tail]
       /\ got.data # Blank => "task" \notin toLoad /\ got.data = data[tail]

\* Every slot between tail and head holds the two words of one push.
Whole == \A s \in Occupied : tasks[s] = data[s]

RInv == TypeOK /\ PushInv /\ PopInv /\ Whole /\ PopsWhole

\* What moving an index does to the occupied slots.
LEMMA HeadMoves ==
  ASSUME TypeOK, Advance(head) # tail, head' = Advance(head), tail' = tail
  PROVE  Occupied' = Occupied \cup {head} /\ head' # tail
<1>1. /\ Size \in Nat \ {0} /\ head \in 0 .. Size - 1 /\ tail \in 0 .. Size - 1
      /\ head' = IF head = Size - 1 THEN 0 ELSE head + 1
  BY AdvanceIs, RingAssumption DEF TypeOK, Slots
<1>2. \A s \in Slots : s \in Occupied' <=> s \in Occupied \/ s = head
  BY <1>1 DEF Occupied, Slots
<1>3. Occupied \subseteq Slots /\ Occupied' \subseteq Slots /\ head \in Slots
  BY <1>1 DEF Occupied, Slots
<1> QED BY <1>2, <1>3

LEMMA TailMoves ==
  ASSUME TypeOK, tail # head, tail' = Advance(tail), head' = head
  PROVE  /\ Occupied' = Occupied \ {tail} /\ tail \in Occupied
         /\ Advance(head) # tail'
<1>1. /\ Size \in Nat \ {0} /\ head \in 0 .. Size - 1 /\ tail \in 0 .. Size - 1
      /\ tail' = IF tail = Size - 1 THEN 0 ELSE tail + 1
      /\ Advance(head) = IF head = Size - 1 THEN 0 ELSE head + 1
  BY AdvanceIs, RingAssumption DEF TypeOK, Slots
<1>2. \A s \in Slots : s \in Occupied' <=> s \in Occupied /\ s # tail
  BY <1>1 DEF Occupied, Slots
<1>3. Occupied \subseteq Slots /\ Occupied' \subseteq Slots /\ tail \in Occupied
  BY <1>1 DEF Occupied, Slots
<1>4. Advance(head) # tail'
  BY <1>1
<1> QED BY <1>2, <1>3, <1>4

LEMMA Ends ==
  ASSUME TypeOK
  PROVE  head \notin Occupied /\ (tail # head => tail \in Occupied)
BY DEF TypeOK, Occupied, Slots

LEMMA RingInitially == Init => RInv
<1> SUFFICES ASSUME Init PROVE RInv
  OBVIOUS
<1>1. TypeOK
  BY TypeInitially
<1>2. Whole
  BY <1>1, Ends DEF Init, Whole, Occupied, Slots
<1> QED BY <1>1, <1>2 DEF Init, RInv, PushInv, PopInv, PopsWhole, Nothing

LEMMA RingNext ==
  ASSUME ProgramOrder, RInv, [Next]_vars
  PROVE  RInv'
<1> USE DEF RInv
<1>0. TypeOK'
  BY TypeNext
<1>w. ASSUME UNCHANGED <<head, tail, tasks, data>> PROVE Whole'
  BY <1>w DEF Whole, Occupied
<1>q. ASSUME UNCHANGED <<head, tail, tasks, data, producer>> PROVE PushInv'
  BY <1>q DEF PushInv, producer
<1>p. ASSUME UNCHANGED <<head, tail, tasks, data, consumer>> PROVE PopInv'
  BY <1>p DEF PopInv, consumer
<1>t. ASSUME UNCHANGED taken PROVE PopsWhole'
  BY <1>t DEF PopsWhole
<1>1. ASSUME NEW v \in Items, PushCall(v) PROVE RInv'
  <2>1. toStore = {}
    BY <1>1 DEF PushCall, PushInv
  <2>2. PushInv'
    BY <1>1, <2>1 DEF PushCall, PushInv
  <2> QED BY <1>0, <1>w, <1>p, <1>t, <1>1, <2>2 DEF PushCall, ring, consumer
<1>2. CASE PushRefused
  <2>1. toStore = {}
    BY <1>2 DEF PushRefused, PushInv
  <2>2. PushInv'
    BY <1>2, <2>1 DEF PushRefused, PushInv
  <2> QED BY <1>0, <1>w, <1>p, <1>t, <1>2, <2>2 DEF PushRefused, ring, consumer
<1>3. CASE PushAdmitted
  <2>1. PushInv'
    BY <1>3 DEF PushAdmitted, IsFull, ring, PushInv, Advance
  <2> QED BY <1>0, <1>w, <1>p, <1>t, <1>3, <2>1 DEF PushAdmitted, ring, consumer
<1>4. CASE StoreTask
  <2>1. /\ toStore = {"task", "data", "head"} /\ toStore' = {"data", "head"}
        /\ wslot = head
    BY <1>4 DEF StoreTask, PushDone, Earliest, PushInv
  <2>2. toStore # {"task"}
    BY <2>1
  <2>3. /\ tasks' = [tasks EXCEPT ![head] = item]
        /\ UNCHANGED <<pushPc, wslot, item, head, tail, data>>
    BY <1>4, <2>1, <2>2 DEF StoreTask, PushDone
  <2>4. PushInv'
    BY <2>1, <2>3 DEF PushInv, TypeOK, Advance
  <2>5. \A s \in Slots : s # head => tasks'[s] = tasks[s]
    BY <2>3 DEF TypeOK
  <2>6. Whole'
    BY <2>3, <2>5, Ends DEF Whole, Occupied
  <2>7. PopInv'
    BY <1>4, <2>3, <2>5 DEF StoreTask, PushDone, PopInv, consumer, TypeOK
  <2> QED BY <1>0, <1>t, <1>4, <2>4, <2>6, <2>7 DEF StoreTask, PushDone, consumer
<1>5. CASE StoreData
  <2>1. toStore = {"data", "head"} /\ wslot = head /\ tasks[head] = item
    BY <1>5 DEF StoreData, Earliest, Rank, PushInv
  <2>2. toStore # {"data"} /\ toStore' = {"head"}
    BY <1>5, <2>1 DEF StoreData, PushDone
  <2>3. /\ data' = [data EXCEPT ![head] = item]
        /\ UNCHANGED <<pushPc, wslot, item, head, tail, tasks>>
    BY <1>5, <2>1, <2>2 DEF StoreData, PushDone
  <2>4. PushInv'
    BY <2>1, <2>2, <2>3 DEF PushInv, TypeOK, Advance
  <2>5. \A s \in Slots : s # head => data'[s] = data[s]
    BY <2>3 DEF TypeOK
  <2>6. Whole'
    BY <2>3, <2>5, Ends DEF Whole, Occupied
  <2>7. PopInv'
    BY <1>5, <2>3, <2>5 DEF StoreData, PushDone, PopInv, consumer, TypeOK
  <2> QED BY <1>0, <1>t, <1>5, <2>4, <2>6, <2>7 DEF StoreData, PushDone, consumer
<1>6. CASE StoreHead
  <2>1. toStore = {"head"} /\ wslot = head
    BY <1>6 DEF StoreHead, Earliest, Rank, PushInv
  <2>2. /\ toStore' = {} /\ pushPc' = "idle" /\ head' = Advance(head)
        /\ UNCHANGED <<tail, tasks, data>>
    BY <1>6, <2>1 DEF StoreHead, PushDone
  <2>3. tasks[head] = data[head] /\ Advance(head) # tail
    BY <2>1 DEF PushInv
  <2>4. Occupied' = Occupied \cup {head} /\ head' # tail
    BY <2>2, <2>3, HeadMoves
  <2>5. Whole'
    BY <2>2, <2>3, <2>4 DEF Whole
  <2>6. PushInv'
    BY <2>2 DEF PushInv
  <2>7. PopInv'
    BY <1>6, <2>2, <2>4 DEF StoreHead, PushDone, PopInv, consumer
  <2> QED BY <1>0, <1>t, <1>6, <2>5, <2>6, <2>7 DEF StoreHead, PushDone, consumer
<1>7. CASE PopCall
  <2>1. PopInv'
    BY <1>7 DEF PopCall, PopInv, ring, producer
  <2> QED BY <1>0, <1>w, <1>q, <1>t, <1>7, <2>1 DEF PopCall, ring
<1>8. CASE PopRefused
  <2>1. PopInv'
    BY <1>8 DEF PopRefused, PopInv, ring, producer
  <2>2. PopsWhole'
    BY <1>8 DEF PopRefused, PopsWhole, Nothing
  <2> QED BY <1>0, <1>w, <1>q, <1>8, <2>1, <2>2 DEF PopRefused, ring
<1>9. CASE PopAdmitted
  <2>1. toLoad = {} /\ got = Nothing
    BY <1>9 DEF PopAdmitted, PopInv
  <2>2. PopInv'
    BY <1>9, <2>1 DEF PopAdmitted, IsEmpty, PopInv, ring, Nothing
  <2> QED BY <1>0, <1>w, <1>q, <1>t, <1>9, <2>2 DEF PopAdmitted, ring
<1>10. CASE LoadTask
  <2>1. /\ toLoad \in {{"task", "data", "tail"}, {"task", "tail"}}
        /\ rslot = tail /\ tail # head
    BY <1>10 DEF LoadTask, Earliest, PopInv
  <2>2. toLoad # {"task"} /\ toLoad' \in {{"data", "tail"}, {"tail"}}
    BY <1>10, <2>1 DEF LoadTask, PopDone
  <2>3. /\ got' = [got EXCEPT !.task = tasks[tail]]
        /\ UNCHANGED <<popPc, rslot, taken>>
    BY <1>10, <2>1, <2>2 DEF LoadTask, PopDone
  <2>4. got.data = Blank /\ got'.task = tasks[tail] /\ got'.data = got.data
    BY <2>1, <2>3 DEF PopInv, TypeOK
  <2>5. PopInv'
    BY <1>10, <2>1, <2>2, <2>3, <2>4 DEF LoadTask, PopInv, ring
  <2> QED BY <1>0, <1>w, <1>q, <1>t, <1>10, <2>3, <2>5 DEF LoadTask, PopDone, ring
<1>11. CASE LoadData
  <2>1. toLoad = {"data", "tail"} /\ rslot = tail /\ tail # head
    BY <1>11 DEF LoadData, Earliest, Rank, PopInv
  <2>2. toLoad # {"data"} /\ toLoad' = {"tail"}
    BY <1>11, <2>1 DEF LoadData, PopDone
  <2>3. /\ got' = [got EXCEPT !.data = data[tail]]
        /\ UNCHANGED <<popPc, rslot, taken>>
    BY <1>11, <2>1, <2>2 DEF LoadData, PopDone
  <2>4. got.task = tasks[tail] /\ got'.task = got.task /\ got'.data = data[tail]
    BY <2>1, <2>3 DEF PopInv, TypeOK
  <2>5. PopInv'
    BY <1>11, <2>1, <2>2, <2>3, <2>4 DEF LoadData, PopInv, ring
  <2> QED BY <1>0, <1>w, <1>q, <1>t, <1>11, <2>3, <2>5 DEF LoadData, PopDone, ring
<1>12. CASE StoreTail
  <2>1. toLoad = {"tail"} /\ rslot = tail /\ tail # head
    BY <1>12 DEF StoreTail, Earliest, Rank, PopInv
  <2>2. /\ toLoad' = {} /\ popPc' = "idle" /\ got' = Nothing /\ taken' = got
        /\ tail' = Advance(tail) /\ UNCHANGED <<head, tasks, data>>
    BY <1>12, <2>1 DEF StoreTail, PopDone
  <2>3. /\ Occupied' = Occupied \ {tail} /\ tail \in Occupied
        /\ Advance(head) # tail'
    BY <2>1, <2>2, TailMoves
  <2>4. Whole'
    BY <2>2, <2>3 DEF Whole
  <2>5. PopsWhole'
    BY <2>1, <2>2, <2>3 DEF PopInv, Whole, PopsWhole
  <2>6. PushInv'
    BY <1>12, <2>2, <2>3 DEF StoreTail, PopDone, PushInv, producer, Advance
  <2>7. PopInv'
    BY <2>2 DEF PopInv
  <2> QED BY <1>0, <2>4, <2>5, <2>6, <2>7
<1>13. CASE UNCHANGED vars
  BY <1>0, <1>w, <1>q, <1>p, <1>t, <1>13 DEF vars, ring, consumer
<1> QED
  BY <1>1, <1>2, <1>3, <1>4, <1>5, <1>6, <1>7, <1>8, <1>9, <1>10, <1>11,
     <1>12, <1>13 DEF Next, Push, Pop

-----------------------------------------------------------------------------
LEMMA RingInvariance ==
  ASSUME ProgramOrder
  PROVE  Spec => []RInv
<1>1. RInv /\ [Next]_vars => RInv'
  BY RingNext
<1> QED BY <1>1, RingInitially, PTL DEF Spec

\* Under program order the producer and the consumer never touch the same
\* slot: the producer writes only free slots, the consumer reads only
\* occupied ones.
THEOREM SlotsNeverShared ==
  ASSUME ProgramOrder
  PROVE  Spec => []SlotExclusive
<1>1. RInv => SlotExclusive
  <2> SUFFICES ASSUME RInv PROVE SlotExclusive
    OBVIOUS
  <2>1. Writing \subseteq {head}
    BY DEF RInv, PushInv, Writing
  <2>2. Reading \subseteq {tail} /\ (Reading # {} => tail # head)
    BY DEF RInv, PopInv, Reading
  <2> QED BY <2>1, <2>2, Ends DEF RInv, SlotExclusive
<1> QED BY <1>1, RingInvariance, PTL

\* Under program order every pop hands out the two words of one push.
THEOREM PopsAreWhole ==
  ASSUME ProgramOrder
  PROVE  Spec => []PopsWhole
<1>1. RInv => PopsWhole
  BY DEF RInv
<1> QED BY <1>1, RingInvariance, PTL

-----------------------------------------------------------------------------
(***************************************************************************)
(* The refinement of BoundedFifo.                                          *)
(***************************************************************************)

\* Contents, for any indices and any array of tasks.
Distance(h, t) == (h - t + Size) % Size
SlotOf(t, i) == (t + i - 1) % Size
QueueOf(h, t, f) == [i \in 1 .. Distance(h, t) |-> f[SlotOf(t, i)]]

LEMMA DistanceIs ==
  ASSUME NEW h \in Slots, NEW t \in Slots
  PROVE  /\ Distance(h, t) = IF t <= h THEN h - t ELSE h - t + Size
         /\ Distance(h, t) \in 0 .. Size - 1
<1>1. Size \in Nat \ {0} /\ h \in 0 .. Size - 1 /\ t \in 0 .. Size - 1
  BY RingAssumption DEF Slots
<1>2. CASE t <= h
  <2>1. h - t + Size \in Nat /\ h - t + Size >= Size /\ h - t + Size < Size + Size
    BY <1>1, <1>2
  <2>2. (h - t + Size) % Size = h - t
    BY <1>1, <2>1
  <2> QED BY <1>1, <1>2, <2>2 DEF Distance
<1>3. CASE ~(t <= h)
  <2>1. h - t + Size \in 0 .. Size - 1
    BY <1>1, <1>3
  <2>2. (h - t + Size) % Size = h - t + Size
    BY <1>1, <2>1
  <2> QED BY <1>1, <1>3, <2>1, <2>2 DEF Distance
<1> QED BY <1>2, <1>3

LEMMA SlotIs ==
  ASSUME NEW t \in Slots, NEW i \in 1 .. Size
  PROVE  /\ SlotOf(t, i) = IF t + i - 1 < Size THEN t + i - 1 ELSE t + i - 1 - Size
         /\ SlotOf(t, i) \in Slots
<1>1. Size \in Nat \ {0} /\ t \in 0 .. Size - 1
  BY RingAssumption DEF Slots
<1>2. CASE t + i - 1 < Size
  <2>1. t + i - 1 \in 0 .. Size - 1
    BY <1>1, <1>2
  <2>2. (t + i - 1) % Size = t + i - 1
    BY <1>1, <2>1
  <2> QED BY <1>2, <2>1, <2>2 DEF SlotOf, Slots
<1>3. CASE ~(t + i - 1 < Size)
  <2>1. t + i - 1 \in Nat /\ t + i - 1 >= Size /\ t + i - 1 < Size + Size
    BY <1>1, <1>3
  <2>2. (t + i - 1) % Size = t + i - 1 - Size
    BY <1>1, <2>1
  <2> QED BY <1>1, <1>3, <2>1, <2>2 DEF SlotOf, Slots
<1> QED BY <1>2, <1>3

\* The queue is a sequence as long as the indices are apart.
LEMMA QueueIs ==
  ASSUME NEW h \in Slots, NEW t \in Slots, NEW f \in [Slots -> Word]
  PROVE  /\ QueueOf(h, t, f) \in Seq(Word)
         /\ Len(QueueOf(h, t, f)) = Distance(h, t)
         /\ \A i \in 1 .. Distance(h, t) : QueueOf(h, t, f)[i] = f[SlotOf(t, i)]
<1> DEFINE n == Distance(h, t)
           q == QueueOf(h, t, f)
<1>1. n \in Nat /\ \A i \in 1 .. n : SlotOf(t, i) \in Slots
  <2>1. n \in 0 .. Size - 1 /\ Size \in Nat
    BY DistanceIs, RingAssumption
  <2>2. \A i \in 1 .. n : i \in 1 .. Size
    BY <2>1
  <2> QED BY <2>1, <2>2, SlotIs
<1> HIDE DEF n
<1>2. q = [i \in 1 .. n |-> f[SlotOf(t, i)]]
  BY DEF n, QueueOf
<1>3. q \in [1 .. n -> Word]
  BY <1>1, <1>2
<1> HIDE DEF q
<1>4. q \in Seq(Word)
  BY <1>1, <1>3, SeqDef
<1>5. Len(q) = n
  BY <1>1, <1>3, <1>4, LenProperties
<1> QED BY <1>2, <1>4, <1>5 DEF n, q

\* An item stored at head and published is appended.
LEMMA QueueGrows ==
  ASSUME NEW h \in Slots, NEW t \in Slots, NEW f \in [Slots -> Word],
         Advance(h) # t
  PROVE  /\ QueueOf(Advance(h), t, f) = Append(QueueOf(h, t, f), f[h])
         /\ Len(QueueOf(h, t, f)) < Size - 1
<1> DEFINE n == Distance(h, t)
           q == QueueOf(h, t, f)
           r == QueueOf(Advance(h), t, f)
<1>1. /\ Size \in Nat \ {0} /\ h \in 0 .. Size - 1 /\ t \in 0 .. Size - 1
      /\ Advance(h) = IF h = Size - 1 THEN 0 ELSE h + 1
      /\ Advance(h) \in Slots
  BY AdvanceIs, RingAssumption DEF Slots
<1>2. n = IF t <= h THEN h - t ELSE h - t + Size
  BY DistanceIs
<1>3. Distance(Advance(h), t) = n + 1 /\ n \in Nat /\ n + 1 <= Size - 1
  BY <1>1, <1>2, DistanceIs
<1>4. SlotOf(t, n + 1) = h
  BY <1>1, <1>2, <1>3, SlotIs
<1>5. /\ r \in Seq(Word) /\ Len(r) = n + 1
      /\ \A i \in 1 .. n + 1 : r[i] = f[SlotOf(t, i)]
  <2>1. /\ r \in Seq(Word) /\ Len(r) = Distance(Advance(h), t)
        /\ \A i \in 1 .. Distance(Advance(h), t) : r[i] = f[SlotOf(t, i)]
    BY <1>1, QueueIs
  <2> HIDE DEF n, r
  <2> QED BY <1>3, <2>1
<1>6. /\ q \in Seq(Word) /\ Len(q) = n
      /\ \A i \in 1 .. n : q[i] = f[SlotOf(t, i)]
  BY QueueIs
<1>7. f[h] \in Word
  OBVIOUS
<1> HIDE DEF n, q, r
<1>8. /\ Append(q, f[h]) \in Seq(Word) /\ Len(Append(q, f[h])) = n + 1
      /\ \A i \in 1 .. n : Append(q, f[h])[i] = q[i]
      /\ Append(q, f[h])[n + 1] = f[h]
  BY <1>3, <1>6, <1>7, AppendProperties
<1>9. \A i \in 1 .. Len(r) : r[i] = Append(q, f[h])[i]
  <2> SUFFICES ASSUME NEW i \in 1 .. n + 1 PROVE r[i] = Append(q, f[h])[i]
    BY <1>5
  <2>1. CASE i = n + 1
    BY <1>4, <1>5, <1>8, <2>1
  <2>2. CASE i # n + 1
    <3>1. i \in 1 .. n
      BY <1>3, <2>2
    <3> QED BY <1>5, <1>6, <1>8, <3>1
  <2> QED BY <2>1, <2>2
<1>10. r = Append(q, f[h])
  BY <1>5, <1>8, <1>9, SeqEqual
<1> QED BY <1>1, <1>3, <1>6, <1>10 DEF n, q, r

\* Moving tail on takes the first item away, the one in slot tail.
LEMMA QueueShrinks ==
  ASSUME NEW h \in Slots, NEW t \in Slots, NEW f \in [Slots -> Word], t # h
  PROVE  /\ QueueOf(h, t, f) # <<>>
         /\ Head(QueueOf(h, t, f)) = f[t]
         /\ QueueOf(h, Advance(t), f) = Tail(QueueOf(h, t, f))
<1> DEFINE n == Distance(h, t)
           q == QueueOf(h, t, f)
           r == QueueOf(h, Advance(t), f)
<1>1. /\ Size \in Nat \ {0} /\ h \in 0 .. Size - 1 /\ t \in 0 .. Size - 1
      /\ Advance(t) = IF t = Size - 1 THEN 0 ELSE t + 1
      /\ Advance(t) \in Slots
  BY AdvanceIs, RingAssumption DEF Slots
<1>2. n = IF t <= h THEN h - t ELSE h - t + Size
  BY DistanceIs
<1>3. Distance(h, Advance(t)) = n - 1 /\ n \in Nat \ {0} /\ n <= Size - 1
  BY <1>1, <1>2, DistanceIs
<1>4. SlotOf(t, 1) = t
  BY <1>1, SlotIs
<1>5. \A i \in 1 .. n - 1 : SlotOf(Advance(t), i) = SlotOf(t, i + 1)
  <2> SUFFICES ASSUME NEW i \in 1 .. n - 1
               PROVE  SlotOf(Advance(t), i) = SlotOf(t, i + 1)
    OBVIOUS
  <2>1. i \in 1 .. Size /\ i + 1 \in 1 .. Size
    BY <1>1, <1>3
  <2>2. SlotOf(t, i + 1) = IF t + i < Size THEN t + i ELSE t + i - Size
    BY <1>1, <2>1, SlotIs
  <2>3. SlotOf(Advance(t), i) =
          IF Advance(t) + i - 1 < Size THEN Advance(t) + i - 1 ELSE Advance(t) + i - 1 - Size
    BY <1>1, <2>1, SlotIs
  <2> QED BY <1>1, <1>3, <2>1, <2>2, <2>3
<1>6. /\ r \in Seq(Word) /\ Len(r) = n - 1
      /\ \A i \in 1 .. n - 1 : r[i] = f[SlotOf(Advance(t), i)]
  <2>1. /\ r \in Seq(Word) /\ Len(r) = Distance(h, Advance(t))
        /\ \A i \in 1 .. Distance(h, Advance(t)) : r[i] = f[SlotOf(Advance(t), i)]
    BY <1>1, QueueIs
  <2> HIDE DEF n, r
  <2> QED BY <1>3, <2>1
<1>7. /\ q \in Seq(Word) /\ Len(q) = n
      /\ \A i \in 1 .. n : q[i] = f[SlotOf(t, i)]
  BY QueueIs
<1> HIDE DEF n, q, r
<1>8. q # <<>> /\ Head(q) = f[t]
  <2>1. q # <<>>
    BY <1>3, <1>7, EmptySeq
  <2>2. 1 \in 1 .. n
    BY <1>3
  <2>3. q[1] = f[t]
    BY <1>4, <1>7, <2>2
  <2> QED BY <2>1, <2>3
<1>9. /\ Tail(q) \in Seq(Word) /\ Len(Tail(q)) = n - 1
      /\ \A i \in 1 .. n - 1 : Tail(q)[i] = q[i + 1]
  BY <1>3, <1>7, <1>8, HeadTailProperties
<1>10. \A i \in 1 .. Len(r) : r[i] = Tail(q)[i]
  <2> SUFFICES ASSUME NEW i \in 1 .. n - 1 PROVE r[i] = Tail(q)[i]
    BY <1>6
  <2>1. i + 1 \in 1 .. n
    BY <1>3
  <2> QED BY <1>5, <1>6, <1>7, <1>9, <2>1
<1>11. r = Tail(q)
  BY <1>6, <1>9, <1>10, SeqEqual
<1> QED BY <1>8, <1>11 DEF q, r

\* What is stored at head is not in the queue before head moves.
LEMMA QueueIgnoresHead ==
  ASSUME NEW h \in Slots, NEW t \in Slots, NEW f \in [Slots -> Word],
         NEW g \in [Slots -> Word], \A s \in Slots : s # h => g[s] = f[s]
  PROVE  QueueOf(h, t, g) = QueueOf(h, t, f)
<1>1. Size \in Nat \ {0} /\ h \in 0 .. Size - 1 /\ t \in 0 .. Size - 1
  BY RingAssumption DEF Slots
<1>2. ASSUME NEW i \in 1 .. Distance(h, t) PROVE g[SlotOf(t, i)] = f[SlotOf(t, i)]
  <2>1. /\ Distance(h, t) = IF t <= h THEN h - t ELSE h - t + Size
        /\ Distance(h, t) \in 0 .. Size - 1
    BY DistanceIs
  <2>2. i \in 1 .. Size
    BY <1>1, <2>1
  <2>3. SlotOf(t, i) \in Slots /\ SlotOf(t, i) # h
    BY <1>1, <2>1, <2>2, SlotIs
  <2> QED BY <2>3
<1> QED BY <1>2 DEF QueueOf

LEMMA QueueEnds ==
  ASSUME NEW h \in Slots, NEW t \in Slots, NEW f \in [Slots -> Word]
  PROVE  /\ Advance(h) = t => Len(QueueOf(h, t, f)) = Size - 1
         /\ h = t => QueueOf(h, t, f) = <<>>
<1>1. /\ Size \in Nat \ {0} /\ h \in 0 .. Size - 1 /\ t \in 0 .. Size - 1
      /\ Advance(h) = IF h = Size - 1 THEN 0 ELSE h + 1
  BY AdvanceIs, RingAssumption DEF Slots
<1>2. Distance(h, t) = IF t <= h THEN h - t ELSE h - t + Size
  BY DistanceIs
<1>3. ASSUME Advance(h) = t PROVE Len(QueueOf(h, t, f)) = Size - 1
  BY <1>1, <1>2, <1>3, QueueIs
<1>4. ASSUME h = t PROVE QueueOf(h, t, f) = <<>>
  <2>1. Len(QueueOf(h, t, f)) = 0 /\ QueueOf(h, t, f) \in Seq(Word)
    BY <1>1, <1>2, <1>4, QueueIs
  <2> QED BY <2>1, EmptySeq
<1> QED BY <1>3, <1>4

\* The producer has an item exactly between its call and its return.
Offers ==
  /\ pushPc = "idle" => item = Blank
  /\ pushPc # "idle" => item \in Items

FInv == RInv /\ Offers

LEMMA OffersNext ==
  ASSUME RInv, Offers, [Next]_vars
  PROVE  Offers'
<1>1. CASE Push
  <2>1. ASSUME NEW v \in Items, PushCall(v) PROVE Offers'
    BY <2>1 DEF PushCall, Offers
  <2>2. CASE PushRefused
    BY <2>2 DEF PushRefused, Offers
  <2>3. CASE PushAdmitted
    BY <2>3 DEF PushAdmitted, Offers
  <2>4. ASSUME NEW w, PushDone(w), w \in toStore PROVE Offers'
    BY <2>4 DEF PushDone, Offers, RInv, PushInv
  <2> QED
    BY <1>1, <2>1, <2>2, <2>3, <2>4 DEF Push, StoreTask, StoreData, StoreHead, Earliest
<1>2. CASE Pop
  BY <1>2 DEF Pop, PopCall, PopRefused, PopAdmitted, LoadTask, LoadData, StoreTail,
              PopDone, producer, Offers
<1>3. CASE UNCHANGED vars
  BY <1>3 DEF vars, producer, Offers
<1> QED BY <1>1, <1>2, <1>3 DEF Next

LEMMA FifoInvariance ==
  ASSUME ProgramOrder
  PROVE  Spec => []FInv
<1>1. Init => FInv
  BY RingInitially DEF Init, FInv, Offers
<1>2. FInv /\ [Next]_vars => FInv'
  BY RingNext, OffersNext DEF FInv
<1> QED BY <1>1, <1>2, PTL DEF Spec

LEMMA ContentsIs ==
  /\ Contents = QueueOf(head, tail, tasks)
  /\ Contents' = QueueOf(head', tail', tasks')
BY DEF Contents, Count, QueueOf, Distance, SlotOf

FifoVars == <<Contents, Offered, taken>>

\* Every step of the ring is one of the abstract queue's or invisible to it.
LEMMA FifoStep ==
  ASSUME ProgramOrder, FInv, [Next]_vars
  PROVE  [Fifo!Next]_FifoVars
<1> USE DEF FInv, RInv
<1>0. /\ head \in Slots /\ tail \in Slots /\ tasks \in [Slots -> Word]
      /\ head' \in Slots /\ tail' \in Slots /\ tasks' \in [Slots -> Word]
  <2>1. TypeOK'
    BY TypeNext
  <2> QED BY <2>1 DEF TypeOK
<1>s. ASSUME UNCHANGED <<head, tail, tasks>> PROVE UNCHANGED Contents
  BY <1>s, ContentsIs
<1>o. ASSUME UNCHANGED producer PROVE UNCHANGED Offered
  BY <1>o DEF Offered, producer
<1>1. ASSUME NEW v \in Items, PushCall(v) PROVE [Fifo!Next]_FifoVars
  <2>1. Offered = Blank /\ Offered' = v
    BY <1>1 DEF PushCall, Offered, PushInv
  <2>2. Fifo!Offer(v)
    BY <1>s, <1>1, <2>1 DEF PushCall, Fifo!Offer, ring, consumer
  <2> QED BY <2>2 DEF Fifo!Next
<1>2. CASE PushRefused
  <2>1. toStore = {}
    BY <1>2 DEF PushRefused, PushInv
  <2>2. Offered = item /\ item # Blank /\ Offered' = Blank
    BY <1>2, <2>1, RingAssumption DEF PushRefused, Offered, Offers
  <2>3. Len(Contents) = Size - 1
    BY <1>0, <1>2, ContentsIs, QueueEnds DEF PushRefused, IsFull
  <2>4. Fifo!Refuse
    BY <1>s, <1>2, <2>2, <2>3 DEF PushRefused, Fifo!Refuse, ring, consumer
  <2> QED BY <2>4 DEF Fifo!Next
<1>3. CASE PushAdmitted
  <2>1. UNCHANGED Offered
    BY <1>3 DEF PushAdmitted, Offered
  <2> QED BY <1>s, <1>3, <2>1 DEF PushAdmitted, FifoVars, ring, consumer
<1>4. CASE StoreTask
  <2>1. toStore = {"task", "data", "head"} /\ wslot = head
    BY <1>4 DEF StoreTask, Earliest, PushInv
  <2>2. toStore # {"task"} /\ toStore' = {"data", "head"}
    BY <1>4, <2>1 DEF StoreTask, PushDone
  <2>3. UNCHANGED Offered
    BY <1>4, <2>1, <2>2 DEF StoreTask, PushDone, Offered
  <2>4. \A s \in Slots : s # head => tasks'[s] = tasks[s]
    BY <1>0, <1>4, <2>1 DEF StoreTask
  <2>5. UNCHANGED <<head, tail, taken>>
    BY <1>4 DEF StoreTask, PushDone, consumer
  <2>6. UNCHANGED Contents
    BY <1>0, <2>4, <2>5, ContentsIs, QueueIgnoresHead
  <2> QED BY <2>3, <2>5, <2>6 DEF FifoVars
<1>5. CASE StoreData
  <2>1. toStore = {"data", "head"}
    BY <1>5 DEF StoreData, Earliest, Rank, PushInv
  <2>2. toStore # {"data"} /\ toStore' = {"head"}
    BY <1>5, <2>1 DEF StoreData, PushDone
  <2>3. UNCHANGED Offered
    BY <1>5, <2>1, <2>2 DEF StoreData, PushDone, Offered
  <2> QED BY <1>s, <1>5, <2>3 DEF StoreData, PushDone, FifoVars, consumer
<1>6. CASE StoreHead
  <2>1. /\ toStore = {"head"} /\ wslot = head
        /\ tasks[head] = item /\ Advance(head) # tail
    BY <1>6 DEF StoreHead, Earliest, Rank, PushInv
  <2>2. /\ toStore' = {} /\ pushPc' = "idle" /\ head' = Advance(head)
        /\ UNCHANGED <<tail, tasks, taken>>
    BY <1>6, <2>1 DEF StoreHead, PushDone, consumer
  <2>3. Offered = item /\ item # Blank /\ Offered' = Blank
    BY <2>1, <2>2, RingAssumption DEF Offered, Offers, PushInv
  <2>4. Contents' = Append(Contents, item) /\ Len(Contents) < Size - 1
    BY <1>0, <2>1, <2>2, ContentsIs, QueueGrows
  <2>5. Fifo!Accept
    BY <2>2, <2>3, <2>4 DEF Fifo!Accept
  <2> QED BY <2>5 DEF Fifo!Next
<1>7. CASE PopCall
  BY <1>s, <1>o, <1>7 DEF PopCall, FifoVars, ring
<1>8. CASE PopRefused
  <2>1. Contents = <<>>
    BY <1>0, <1>8, ContentsIs, QueueEnds DEF PopRefused, IsEmpty
  <2>2. Fifo!FindEmpty
    BY <1>s, <1>o, <1>8, <2>1 DEF PopRefused, Fifo!FindEmpty, Nothing, ring
  <2> QED BY <2>2 DEF Fifo!Next
<1>9. CASE PopAdmitted
  BY <1>s, <1>o, <1>9 DEF PopAdmitted, FifoVars, ring
<1>10. CASE LoadTask
  <2>1. toLoad # {"task"}
    BY <1>10 DEF LoadTask, Earliest, PopInv
  <2> QED BY <1>s, <1>o, <1>10, <2>1 DEF LoadTask, PopDone, FifoVars, ring
<1>11. CASE LoadData
  <2>1. toLoad # {"data"}
    BY <1>11 DEF LoadData, Earliest, PopInv
  <2> QED BY <1>s, <1>o, <1>11, <2>1 DEF LoadData, PopDone, FifoVars, ring
<1>12. CASE StoreTail
  <2>1. toLoad = {"tail"} /\ rslot = tail /\ tail # head
    BY <1>12 DEF StoreTail, Earliest, Rank, PopInv
  <2>2. /\ taken' = got /\ tail' = Advance(tail)
        /\ UNCHANGED <<head, tasks, producer>>
    BY <1>12, <2>1 DEF StoreTail, PopDone
  <2>3. /\ Contents # <<>> /\ Head(Contents) = tasks[tail]
        /\ Contents' = Tail(Contents)
    BY <1>0, <2>1, <2>2, ContentsIs, QueueShrinks
  <2>4. got.task = tasks[tail] /\ got.data \in {tasks[tail], Blank}
    BY <2>1, TailMoves, Ends DEF PopInv, Whole
  <2>5. got = [task |-> tasks[tail], data |-> got.data]
    BY <2>4 DEF TypeOK
  <2>6. Fifo!Take
    BY <1>o, <2>2, <2>3, <2>4, <2>5 DEF Fifo!Take
  <2> QED BY <2>6 DEF Fifo!Next
<1>13. CASE UNCHANGED vars
  BY <1>s, <1>o, <1>13 DEF vars, ring, consumer, FifoVars
<1> QED
  BY <1>1, <1>2, <1>3, <1>4, <1>5, <1>6, <1>7, <1>8, <1>9, <1>10, <1>11,
     <1>12, <1>13 DEF Next, Push, Pop

\* Under program order the ring is a bounded FIFO queue of Size - 1 items: what
\* is pushed comes out once, in order and with its data, a push is refused only
\* when the queue is full and a pop only when it is empty.
THEOREM RingIsFifo ==
  ASSUME ProgramOrder
  PROVE  Spec => IsFifo
<1>1. Init => Fifo!Init
  <2> SUFFICES ASSUME Init PROVE Fifo!Init
    OBVIOUS
  <2>1. TypeOK
    BY TypeInitially
  <2>2. Contents = <<>>
    BY <2>1, ContentsIs, QueueEnds DEF Init, TypeOK
  <2> QED BY <2>2 DEF Init, Fifo!Init, Offered, Nothing
<1>2. FInv /\ [Next]_vars => [Fifo!Next]_FifoVars
  BY FifoStep
<1> QED BY <1>1, <1>2, FifoInvariance, PTL DEF Spec, IsFifo, Fifo!Spec, FifoVars
=============================================================================
