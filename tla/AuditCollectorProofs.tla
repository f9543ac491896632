------------------------ MODULE AuditCollectorProofs ------------------------
(***************************************************************************)
(* Proofs about AuditStore and about AuditCollector, which drives it.  The *)
(* first part is about the store alone, for any capacity, retention, users *)
(* and identifiers: purgeLocked and Insert are characterised once, index   *)
(* by index, and every operation leaves a slice that the two lemmas        *)
(* describe.  The second part is about the collector, for any workloads,   *)
(* POSTs, queries and restarts, and takes what the slice guarantees from   *)
(* the first.                                                              *)
(***************************************************************************)
EXTENDS AuditCollector, TLAPS

-----------------------------------------------------------------------------
(* The slice *)

\* What purgeLocked leaves: the records behind the purge point, in place.
LEMMA PurgeLemma ==
    ASSUME records \in Seq(Record), NEW first \in 0..Len(records)
    PROVE  /\ purgeLocked(first) \in Seq(Record)
           /\ Len(purgeLocked(first)) = Len(records) - first
           /\ \A i \in 1..(Len(records) - first) :
                 purgeLocked(first)[i] = records[first + i]
  BY DEF purgeLocked

\* What Insert leaves: the new record behind all the others, or behind all the
\* others but the oldest when the slice was full.
LEMMA InsertLemma ==
    ASSUME NEW kept \in Seq(Record), NEW record \in Record,
           Len(kept) <= MaximumRecords
    PROVE  /\ Insert(kept, record) \in Seq(Record)
           /\ Len(Insert(kept, record)) \in 1..MaximumRecords
           /\ Insert(kept, record)[Len(Insert(kept, record))] = record
           /\ \E gone \in {0, 1} :
                 /\ Len(Insert(kept, record)) = Len(kept) + 1 - gone
                 /\ gone = 1 => Len(kept) = MaximumRecords
                 /\ \A i \in 1..(Len(kept) - gone) :
                       Insert(kept, record)[i] = kept[gone + i]
  <1>1. CASE Len(kept) = MaximumRecords
    <2>1. kept # <<>>
      BY <1>1, StoreConfigAssumption
    <2>2. /\ Tail(kept) \in Seq(Record)
          /\ Len(Tail(kept)) = Len(kept) - 1
          /\ \A i \in 1..(Len(kept) - 1) : Tail(kept)[i] = kept[1 + i]
      BY <2>1
    <2>3. Insert(kept, record) = Append(Tail(kept), record)
      BY <1>1 DEF Insert
    <2>4. /\ Len(Insert(kept, record)) = Len(kept) + 1 - 1
          /\ 1 = 1 => Len(kept) = MaximumRecords
          /\ \A i \in 1..(Len(kept) - 1) : Insert(kept, record)[i] = kept[1 + i]
      BY <1>1, <2>2, <2>3
    <2>. QED
      BY <1>1, <2>2, <2>3, <2>4, StoreConfigAssumption
  <1>2. CASE Len(kept) # MaximumRecords
    <2>1. Insert(kept, record) = Append(kept, record)
      BY <1>2 DEF Insert
    <2>2. /\ Len(Insert(kept, record)) = Len(kept) + 1 - 0
          /\ 0 = 1 => Len(kept) = MaximumRecords
          /\ \A i \in 1..(Len(kept) - 0) : Insert(kept, record)[i] = kept[0 + i]
      BY <1>2, <2>1
    <2>. QED
      BY <1>2, <2>1, <2>2, StoreConfigAssumption
  <1>. QED
    BY <1>1, <1>2

\* A record that is out of date stays out of date as time goes by.
LEMMA ExpiredMonotone ==
    ASSUME NEW r, r.Timestamp \in Int, NEW a \in Int, NEW b \in Int, a <= b,
           Expired(r, a)
    PROVE  Expired(r, b)
  BY StoreConfigAssumption DEF Expired

-----------------------------------------------------------------------------
(* The inductive invariant of the store *)

SliceTypes ==
    /\ records \in Seq(Record)
    /\ sequence \in Nat
    /\ clock \in 0..MaxClock
    /\ accepted \in Seq(Record)
    /\ latest \in 0..MaxClock

\* A record that is no longer in the slice was purged when it was out of date
\* or evicted when the slice was full.  It is what ListComplete needs to know
\* of the records that a listing does not see.
AbsentForAReason ==
    \A i \in 1..(Len(accepted) - Len(records)) :
        \/ Len(accepted) - i >= MaximumRecords
        \/ Expired(accepted[i], latest)

SliceInv == SliceTypes /\ WindowIsSuffix /\ HeldIDsUnique /\ AbsentForAReason

\* The part that AddDuplicate, ListByUser and GetByUser have in common.
Purge(first) ==
    /\ PurgePoint(first)
    /\ records' = purgeLocked(first)
    /\ latest' = Max2(latest, clock)
    /\ UNCHANGED <<sequence, clock, accepted>>

\* A purge preserves the invariant of the slice.
LEMMA PurgeStep ==
    ASSUME SliceInv, NEW first \in 0..Len(records), Purge(first)
    PROVE  SliceInv'
  <1>. USE StoreConfigAssumption DEF SliceInv, SliceTypes, Purge
  <1>1. /\ records' \in Seq(Record)
        /\ Len(records') = Len(records) - first
        /\ \A i \in 1..Len(records') : records'[i] = records[first + i]
    BY PurgeLemma
  <1>0. latest \in Int /\ clock \in Int /\ latest' \in Int
    BY DEF Max2
  <1>2. /\ latest' \in 0..MaxClock
        /\ latest <= latest'
        /\ clock <= latest'
    BY DEF Max2
  <1>3. SliceTypes'
    BY <1>1, <1>2
  <1>4. WindowIsSuffix'
    BY <1>1 DEF WindowIsSuffix
  <1>5. HeldIDsUnique'
    <2>. SUFFICES ASSUME NEW i \in 1..Len(records'), NEW j \in 1..Len(records'),
                         records'[i].id = records'[j].id
                  PROVE  i = j
      BY DEF HeldIDsUnique
    <2>1. /\ first + i \in 1..Len(records)
          /\ first + j \in 1..Len(records)
          /\ records[first + i].id = records[first + j].id
      BY <1>1
    <2>2. first + i = first + j
      BY <2>1 DEF HeldIDsUnique
    <2>. QED
      BY <2>2
  <1>6. AbsentForAReason'
    <2>. SUFFICES ASSUME NEW i \in 1..(Len(accepted) - Len(records')),
                         ~(Len(accepted) - i >= MaximumRecords)
                  PROVE  Expired(accepted[i], latest')
      BY DEF AbsentForAReason
    <2>0. i \in 1..Len(accepted)
      BY <1>1
    <2>1. accepted[i].Timestamp \in Int
      <3>1. accepted[i] \in Record
        BY <2>0
      <3>. QED
        BY <3>1 DEF Record
    <2>2. CASE i <= Len(accepted) - Len(records)
      <3>1. Expired(accepted[i], latest)
        BY <2>0, <2>2 DEF AbsentForAReason
      <3>. QED
        BY ONLY <1>0, <1>2, <2>1, <3>1, ExpiredMonotone
    <2>3. CASE ~(i <= Len(accepted) - Len(records))
      <3>. DEFINE j == i - (Len(accepted) - Len(records))
      <3>1. /\ Len(records) \in Nat /\ Len(accepted) \in Nat
            /\ j \in 1..first /\ j \in 1..Len(records)
            /\ i = sequence - Len(records) + j
        BY <1>1, <2>0, <2>3 DEF WindowIsSuffix
      <3>. HIDE DEF j
      <3>2. accepted[i] = records[j]
        <4>1. records[j] = accepted[sequence - Len(records) + j]
          BY <3>1 DEF WindowIsSuffix
        <4>. QED
          BY <3>1, <4>1
      <3>3. Expired(accepted[i], clock)
        BY <3>1, <3>2 DEF PurgePoint
      <3>. QED
        BY ONLY <1>0, <1>2, <2>1, <3>3, ExpiredMonotone
    <2>. QED
      BY <2>2, <2>3
  <1>. QED
    BY <1>3, <1>4, <1>5, <1>6

\* An accepted record preserves it too.
LEMMA AddStep ==
    ASSUME SliceInv, NEW submission \in Submission, Add(submission)
    PROVE  /\ SliceInv'
           /\ answer' \in Answer
           /\ answer'.op = "added"
           /\ Len(records') \in 1..(Len(records) + 1)
           /\ Len(accepted') = Len(accepted) + 1
           /\ \A i \in 1..Len(accepted) : accepted'[i] = accepted[i]
           /\ accepted'[Len(accepted) + 1].Timestamp = clock
  <1>. USE StoreConfigAssumption DEF SliceInv, SliceTypes
  <1>. DEFINE record == [id |-> submission.id, user |-> submission.user,
                         Sequence |-> sequence + 1, Timestamp |-> clock]
  <1>1. PICK first \in 0..Len(records) :
           /\ PurgePoint(first)
           /\ \A r \in Elements(purgeLocked(first)) : r.id # submission.id
           /\ records' = Insert(purgeLocked(first), record)
           /\ accepted' = Append(accepted, record)
           /\ answer' = [op |-> "added", record |-> record]
    BY DEF Add
  <1>2. /\ sequence' = sequence + 1
        /\ clock' = clock
        /\ latest' = Max2(latest, clock)
    BY DEF Add
  <1>3. /\ record \in Record
        /\ record.id = submission.id
        /\ record.Sequence = sequence + 1
    BY DEF Add, validate, Submission, Record
  <1>. HIDE DEF record
  <1>. DEFINE kept == purgeLocked(first)
  <1>4. /\ kept \in Seq(Record)
        /\ Len(kept) = Len(records) - first
        /\ \A i \in 1..Len(kept) : kept[i] = records[first + i]
    BY PurgeLemma
  <1>30. records' = Insert(kept, record) /\ \A r \in Elements(kept) : r.id # submission.id
    BY <1>1
  <1>31. Len(kept) <= MaximumRecords
    BY <1>4 DEF WindowIsSuffix
  <1>. HIDE DEF kept
  <1>32. /\ records' \in Seq(Record)
        /\ Len(records') \in 1..MaximumRecords
        /\ records'[Len(records')] = record
        /\ \E gone \in {0, 1} :
              /\ Len(records') = Len(kept) + 1 - gone
              /\ gone = 1 => Len(kept) = MaximumRecords
              /\ \A i \in 1..(Len(kept) - gone) : records'[i] = kept[gone + i]
    <2>1. kept \in Seq(Record) /\ record \in Record /\ Len(kept) <= MaximumRecords
      BY <1>3, <1>4, <1>31
    <2>2. records' = Insert(kept, record)
      BY <1>30
    <2>. QED
      BY ONLY <2>1, <2>2, InsertLemma, Zenon
  <1>5. PICK gone \in {0, 1} :
              /\ Len(records') = Len(kept) + 1 - gone
              /\ gone = 1 => Len(kept) = MaximumRecords
              /\ \A i \in 1..(Len(kept) - gone) : records'[i] = kept[gone + i]
    BY <1>32
  <1>6. /\ accepted' \in Seq(Record)
        /\ Len(accepted') = Len(accepted) + 1
        /\ \A i \in 1..Len(accepted) : accepted'[i] = accepted[i]
        /\ accepted'[Len(accepted) + 1] = record
    BY <1>1, <1>3
  <1>70. latest \in Int /\ clock \in Int /\ latest' \in Int
    BY <1>2 DEF Max2
  <1>7. /\ latest' \in 0..MaxClock
        /\ latest <= latest'
        /\ clock <= latest'
    BY <1>2 DEF Max2
  <1>8. /\ Len(records') = Len(records) - first + 1 - gone
        /\ Len(records) \in Nat /\ Len(records') \in Nat /\ Len(accepted) \in Nat
        /\ \A i \in 1..(Len(records') - 1) :
              /\ gone + i \in 1..Len(kept)
              /\ records'[i] = kept[gone + i]
              /\ first + gone + i \in 1..Len(records)
              /\ records'[i] = records[first + gone + i]
    <2>1. /\ Len(records') = Len(records) - first + 1 - gone
          /\ Len(records) \in Nat /\ Len(records') \in Nat /\ Len(accepted) \in Nat
      BY <1>4, <1>5, <1>32
    <2>2. ASSUME NEW i \in 1..(Len(records') - 1)
          PROVE  /\ gone + i \in 1..Len(kept)
                 /\ i \in 1..(Len(kept) - gone)
                 /\ first + gone + i \in 1..Len(records)
                 /\ first + (gone + i) = first + gone + i
      BY <1>4, <1>5, <2>1
    <2>3. ASSUME NEW i \in 1..(Len(records') - 1)
          PROVE  records'[i] = kept[gone + i] /\ records'[i] = records[first + gone + i]
      <3>1. records'[i] = kept[gone + i]
        BY <1>5, <2>2
      <3>2. kept[gone + i] = records[first + (gone + i)]
        BY <1>4, <2>2
      <3>. QED
        BY <2>2, <3>1, <3>2
    <2>. QED
      BY <2>1, <2>2, <2>3
  <1>9. SliceTypes'
    BY <1>2, <1>6, <1>7, <1>32
  <1>10. WindowIsSuffix'
    <2>1. /\ sequence' = Len(accepted')
          /\ Len(records') <= MaximumRecords
          /\ Len(records') <= sequence'
      BY <1>2, <1>32, <1>6, <1>8 DEF WindowIsSuffix
    <2>2. \A i \in 1..Len(accepted') : accepted'[i].Sequence = i
      <3>. SUFFICES ASSUME NEW i \in 1..Len(accepted')
                    PROVE  accepted'[i].Sequence = i
        OBVIOUS
      <3>1. CASE i = Len(accepted) + 1
        BY <1>3, <1>6, <3>1 DEF WindowIsSuffix
      <3>2. CASE i \in 1..Len(accepted)
        <4>1. accepted[i].Sequence = i
          BY <3>2 DEF WindowIsSuffix
        <4>. QED
          BY <1>6, <3>2, <4>1
      <3>. QED
        BY <1>6, <1>8, <3>1, <3>2
    <2>3. ASSUME NEW i \in 1..Len(records')
          PROVE  records'[i] = accepted'[sequence' - Len(records') + i]
      <3>1. CASE i = Len(records')
        <4>1. sequence' - Len(records') + i = Len(accepted) + 1
          BY <1>2, <1>8, <3>1 DEF WindowIsSuffix
        <4>. QED
          BY <1>32, <1>6, <3>1, <4>1
      <3>2. CASE i # Len(records')
        <4>. DEFINE j == first + gone + i
                    k == sequence - Len(records) + j
        <4>1. /\ j \in 1..Len(records)
              /\ records'[i] = records[j]
          BY <1>8, <3>2
        <4>2. records[j] = accepted[k]
          BY <4>1 DEF WindowIsSuffix
        <4>3. k \in 1..Len(accepted) /\ k = sequence' - Len(records') + i
          <5>1. sequence = Len(accepted) /\ Len(records) <= sequence
            BY DEF WindowIsSuffix
          <5>2. /\ sequence' = sequence + 1 /\ sequence \in Nat
                /\ Len(records') = Len(records) - first + 1 - gone
                /\ Len(records) \in Nat /\ first \in Nat /\ gone \in Nat
            BY <1>2, <1>8
          <5>. QED
            BY ONLY <4>1, <5>1, <5>2, i \in 1..Len(records')
        <4>. QED
          BY <1>6, <4>1, <4>2, <4>3
      <3>. QED
        BY <3>1, <3>2
    <2>. QED
      BY <2>1, <2>2, <2>3 DEF WindowIsSuffix
  <1>11. HeldIDsUnique'
    <2>1. ASSUME NEW i \in 1..(Len(records') - 1)
          PROVE  records'[i].id # record.id
      <3>1. kept[gone + i] \in Elements(kept)
        BY <1>4, <1>8 DEF Elements
      <3>. QED
        BY <1>30, <1>3, <1>8, <3>1
    <2>2. ASSUME NEW i \in 1..(Len(records') - 1), NEW j \in 1..(Len(records') - 1),
                 records'[i].id = records'[j].id
          PROVE  i = j
      <3>1. /\ first + gone + i \in 1..Len(records)
            /\ first + gone + j \in 1..Len(records)
            /\ records[first + gone + i].id = records[first + gone + j].id
        BY <1>8, <2>2
      <3>2. first + gone + i = first + gone + j
        BY <3>1 DEF HeldIDsUnique
      <3>. QED
        BY <3>2
    <2>. SUFFICES ASSUME NEW i \in 1..Len(records'), NEW j \in 1..Len(records'),
                         records'[i].id = records'[j].id
                  PROVE  i = j
      BY DEF HeldIDsUnique
    <2>3. \A k \in 1..Len(records') : k = Len(records') \/ k \in 1..(Len(records') - 1)
      <3>1. Len(records') \in Nat
        BY <1>8
      <3>. QED
        BY ONLY <3>1
    <2>4. CASE i = Len(records')
      BY <1>32, <2>1, <2>3, <2>4
    <2>5. CASE j = Len(records')
      BY <1>32, <2>1, <2>3, <2>5
    <2>6. CASE i \in 1..(Len(records') - 1) /\ j \in 1..(Len(records') - 1)
      BY <2>2, <2>6
    <2>. QED
      BY <2>3, <2>4, <2>5, <2>6
  <1>12. AbsentForAReason'
    <2>. SUFFICES ASSUME NEW i \in 1..(Len(accepted') - Len(records')),
                         ~(Len(accepted') - i >= MaximumRecords)
                  PROVE  Expired(accepted'[i], latest')
      BY DEF AbsentForAReason
    <2>1. i \in 1..Len(accepted)
      BY <1>32, <1>6, <1>8
    <2>2. accepted'[i] = accepted[i] /\ accepted[i].Timestamp \in Int
      <3>1. accepted[i] \in Record
        BY <2>1
      <3>. QED
        BY <1>6, <2>1, <3>1 DEF Record
    <2>3. CASE i <= Len(accepted) - Len(records)
      <3>1. Expired(accepted[i], latest)
        BY <1>6, <2>1, <2>3 DEF AbsentForAReason
      <3>. QED
        BY ONLY <1>70, <1>7, <2>2, <3>1, ExpiredMonotone
    <2>4. CASE ~(i <= Len(accepted) - Len(records))
      <3>. DEFINE j == i - (Len(accepted) - Len(records))
      <3>0. gone = 0
        BY <1>4, <1>5, <1>6, <1>8
      <3>1. /\ Len(records) \in Nat /\ Len(accepted) \in Nat
            /\ j \in 1..first /\ j \in 1..Len(records)
            /\ i = sequence - Len(records) + j
        BY <1>6, <1>8, <2>1, <2>4, <3>0 DEF WindowIsSuffix
      <3>. HIDE DEF j
      <3>2. accepted[i] = records[j]
        <4>1. records[j] = accepted[sequence - Len(records) + j]
          BY <3>1 DEF WindowIsSuffix
        <4>. QED
          BY <3>1, <4>1
      <3>3. Expired(accepted[i], clock)
        BY <1>1, <3>1, <3>2 DEF PurgePoint
      <3>. QED
        BY ONLY <1>70, <1>7, <2>2, <3>3, ExpiredMonotone
    <2>. QED
      BY <2>3, <2>4
  <1>13. answer' \in Answer /\ answer'.op = "added"
    BY <1>1, <1>3 DEF Answer
  <1>14. Len(records') \in 1..(Len(records) + 1)
    BY <1>8, <1>32
  <1>15. accepted'[Len(accepted) + 1].Timestamp = clock
    BY <1>6 DEF record
  <1>. QED
    BY <1>6, <1>9, <1>10, <1>11, <1>12, <1>13, <1>14, <1>15

-----------------------------------------------------------------------------
(* Every step of the store *)

StoreInv == SliceInv /\ answer \in Answer /\ ListComplete

\* The invariant holds when the store is created.
LEMMA StoreInitInv == StoreInit => StoreInv
  BY StoreConfigAssumption DEF StoreInit, StoreInv, SliceInv, SliceTypes, WindowIsSuffix,
     HeldIDsUnique, AbsentForAReason, ListComplete, Answer

\* A listing of the slice that a step leaves misses nothing it should not, and
\* is well typed.
LEMMA ListingLemma ==
    ASSUME SliceInv', NEW user \in Users, NEW at \in Nat,
           answer' = [op |-> "listed", user |-> user, at |-> at,
                      found |-> {r \in Elements(records') : r.user = user}]
    PROVE  answer' \in Answer /\ ListComplete'
  <1>. USE DEF SliceInv, SliceTypes
  <1>1. Elements(records') \subseteq Record
    BY DEF Elements
  <1>2. answer' \in Answer
    BY <1>1 DEF Answer
  <1>3. ASSUME NEW i \in 1..Len(accepted')
        PROVE  \/ accepted'[i] \in Elements(records')
               \/ Len(accepted') - i >= MaximumRecords
               \/ Expired(accepted'[i], latest')
    <2>1. CASE i <= Len(accepted') - Len(records')
      BY <2>1 DEF AbsentForAReason
    <2>2. CASE ~(i <= Len(accepted') - Len(records'))
      <3>. DEFINE j == i - (Len(accepted') - Len(records'))
      <3>1. j \in 1..Len(records') /\ i = sequence' - Len(records') + j
        BY <2>2 DEF WindowIsSuffix
      <3>. HIDE DEF j
      <3>2. accepted'[i] = records'[j]
        <4>1. records'[j] = accepted'[sequence' - Len(records') + j]
          BY <3>1 DEF WindowIsSuffix
        <4>. QED
          BY <3>1, <4>1
      <3>. QED
        BY <3>1, <3>2 DEF Elements
    <2>. QED
      BY <2>1, <2>2
  <1>. QED
    BY <1>2, <1>3 DEF ListComplete

\* Every operation of the store preserves the invariant.
LEMMA StoreStepInv == StoreInv /\ [StoreNext]_storeVars => StoreInv'
  <1>. SUFFICES ASSUME StoreInv, [StoreNext]_storeVars PROVE StoreInv'
    OBVIOUS
  <1>. USE DEF StoreInv
  <1>1. CASE AddInvalid
    BY <1>1 DEF AddInvalid, SliceInv, SliceTypes, WindowIsSuffix, HeldIDsUnique,
       AbsentForAReason, ListComplete, Answer
  <1>2. ASSUME NEW submission \in Submission, AddDuplicate(submission)
        PROVE  StoreInv'
    <2>1. PICK first \in 0..Len(records) : Purge(first)
      BY <1>2 DEF AddDuplicate, Purge
    <2>2. answer' = [op |-> "ErrInvalidRecord"]
      BY <1>2 DEF AddDuplicate
    <2>. QED
      BY <2>1, <2>2, PurgeStep DEF Answer, ListComplete
  <1>3. ASSUME NEW submission \in Submission, Add(submission)
        PROVE  StoreInv'
    BY <1>3, AddStep DEF ListComplete
  <1>4. ASSUME NEW user \in Users, ListByUser(user)
        PROVE  StoreInv'
    <2>1. PICK first \in 0..Len(records) : Purge(first)
      BY <1>4 DEF ListByUser, Purge
    <2>2. SliceInv'
      BY <2>1, PurgeStep
    <2>3. /\ answer' = [op |-> "listed", user |-> user, at |-> clock,
                        found |-> {r \in Elements(records') : r.user = user}]
          /\ clock \in Nat
      BY <1>4 DEF ListByUser, SliceInv, SliceTypes
    <2>4. answer' \in Answer /\ ListComplete'
      BY <2>2, <2>3, ListingLemma
    <2>. QED
      BY <2>2, <2>4
  <1>5. ASSUME NEW user \in Users, NEW id \in IDs, GetByUser(user, id)
        PROVE  StoreInv'
    <2>1. PICK first \in 0..Len(records) : Purge(first)
      BY <1>5 DEF GetByUser, Purge
    <2>2. SliceInv'
      BY <2>1, PurgeStep
    <2>3. \/ answer' = [op |-> "ErrRecordMissing"]
          \/ \E r \in Elements(records') :
                answer' = [op |-> "got", user |-> user, at |-> clock, record |-> r]
      BY <1>5 DEF GetByUser
    <2>4. Elements(records') \subseteq Record /\ clock \in Nat
      BY <2>2 DEF Elements, SliceInv, SliceTypes
    <2>5. answer' \in Answer /\ answer'.op # "listed"
      BY <2>3, <2>4 DEF Answer
    <2>. QED
      BY <2>2, <2>5 DEF ListComplete
  <1>6. CASE Tick \/ SetBack \/ UNCHANGED storeVars
    <2>1. /\ UNCHANGED <<records, sequence, answer, accepted, latest>>
          /\ clock' \in 0..MaxClock
      BY <1>6, StoreConfigAssumption DEF Tick, SetBack, storeVars, SliceInv, SliceTypes
    <2>. QED
      BY <2>1 DEF SliceInv, SliceTypes, WindowIsSuffix, HeldIDsUnique,
         AbsentForAReason, ListComplete
  <1>. QED
    BY <1>1, <1>2, <1>3, <1>4, <1>5, <1>6 DEF StoreNext

\* The inductive invariant is an invariant of the store.
THEOREM StoreInvariance == StoreSpec => []StoreInv
  BY StoreInitInv, StoreStepInv, PTL DEF StoreSpec

\* Type correctness.
THEOREM StoreTypeCorrect == StoreSpec => []StoreTypeOK
  <1>1. StoreInv => StoreTypeOK
    BY DEF StoreInv, SliceInv, SliceTypes, StoreTypeOK
  <1>. QED
    BY <1>1, StoreInvariance, PTL

\* The slice always holds the most recent acceptances, in order and within
\* MaximumRecords, however adds, purges, evictions and clock changes mix.
THEOREM StoreWindow == StoreSpec => []WindowIsSuffix
  <1>1. StoreInv => WindowIsSuffix
    BY DEF StoreInv, SliceInv
  <1>. QED
    BY <1>1, StoreInvariance, PTL

\* No two records in the slice have the same ID.
THEOREM StoreIDs == StoreSpec => []HeldIDsUnique
  <1>1. StoreInv => HeldIDsUnique
    BY DEF StoreInv, SliceInv
  <1>. QED
    BY <1>1, StoreInvariance, PTL

\* A listing misses no record but the evicted and the out of date.
THEOREM StoreListing == StoreSpec => []ListComplete
  <1>1. StoreInv => ListComplete
    BY DEF StoreInv
  <1>. QED
    BY <1>1, StoreInvariance, PTL

-----------------------------------------------------------------------------
(* Refinement *)

\* The store implements the append-only log with a sliding window.
THEOREM StoreImplementsLog == StoreSpec => ImplementsAuditLog
  <1>1. StoreInit => Log!Init
    BY DEF StoreInit, Log!Init
  <1>2. StoreInv /\ [StoreNext]_storeVars => [Log!Next]_(Log!vars)
    <2>. SUFFICES ASSUME StoreInv, [StoreNext]_storeVars PROVE [Log!Next]_(Log!vars)
      OBVIOUS
    <2>. USE DEF StoreInv, SliceInv, SliceTypes
    <2>1. CASE AddInvalid \/ Tick \/ SetBack \/ UNCHANGED storeVars
      <3>1. UNCHANGED <<records, accepted>>
        BY <2>1 DEF AddInvalid, Tick, SetBack, storeVars
      <3>. QED
        BY <3>1 DEF Log!vars
    <2>2. ASSUME NEW first \in 0..Len(records), Purge(first)
          PROVE  [Log!Next]_(Log!vars)
      <3>1. Len(records') = Len(records) - first /\ accepted' = accepted
        BY <2>2, PurgeLemma DEF Purge
      <3>2. Log!Expire
        BY <3>1 DEF Log!Expire, WindowIsSuffix
      <3>. QED
        BY <3>2 DEF Log!Next
    <2>3. ASSUME NEW submission \in Submission, Add(submission)
          PROVE  [Log!Next]_(Log!vars)
      <3>1. /\ SliceInv'
            /\ Len(records') \in 1..(Len(records) + 1)
            /\ Len(accepted') = Len(accepted) + 1
            /\ \A i \in 1..Len(accepted) : accepted'[i] = accepted[i]
        BY <2>3, AddStep
      <3>2. /\ Len(records') <= MaximumRecords
            /\ Len(records) <= Len(accepted)
            /\ Len(records) \in Nat /\ Len(accepted) \in Nat
        BY <3>1 DEF WindowIsSuffix
      <3>3. Log!Accept
        BY <3>1, <3>2, StoreConfigAssumption DEF Log!Accept
      <3>. QED
        BY <3>3 DEF Log!Next
    <2>. QED
      BY <2>1, <2>2, <2>3 DEF StoreNext, AddDuplicate, ListByUser, GetByUser, Purge
  <1>. QED
    BY <1>1, <1>2, StoreInvariance, PTL DEF StoreSpec, ImplementsAuditLog, Log!Spec

-----------------------------------------------------------------------------
(* Retention *)

\* A purge leaves only records within the retention.
LEMMA FreshLemma ==
    ASSUME SliceInv, StampsRise, NEW first \in 0..Len(records), Purge(first)
    PROVE  \A r \in Elements(records') : clock - r.Timestamp <= Retention
  <1>. USE StoreConfigAssumption DEF SliceInv, SliceTypes
  <1>1. /\ records' \in Seq(Record)
        /\ Len(records') = Len(records) - first
        /\ \A i \in 1..Len(records') : records'[i] = records[first + i]
    BY PurgeLemma DEF Purge
  <1>. SUFFICES ASSUME NEW i \in 1..Len(records')
                PROVE  clock - records'[i].Timestamp <= Retention
    BY <1>1 DEF Elements
  <1>. DEFINE m == sequence - Len(records) + (first + 1)
              n == sequence - Len(records) + (first + i)
  <1>2. /\ first < Len(records)
        /\ first + 1 \in 1..Len(records) /\ first + i \in 1..Len(records)
        /\ n \in 1..Len(accepted) /\ m \in 1..n
    <2>1. /\ Len(records) \in Nat /\ sequence \in Nat
          /\ sequence = Len(accepted) /\ Len(records) <= sequence
      BY DEF WindowIsSuffix
    <2>2. i \in 1..(Len(records) - first)
      BY <1>1
    <2>. QED
      BY ONLY <2>1, <2>2, first \in 0..Len(records)
  <1>3. records[first + 1] = accepted[m] /\ records[first + i] = accepted[n]
    BY <1>2 DEF WindowIsSuffix
  <1>4. accepted[m] \in Record /\ accepted[n] \in Record
    BY <1>2
  <1>. HIDE DEF m, n
  <1>5. accepted[m].Timestamp \in Int /\ accepted[n].Timestamp \in Int
    BY <1>4 DEF Record
  <1>6. accepted[m].Timestamp <= accepted[n].Timestamp
    BY <1>2 DEF StampsRise
  <1>7. ~(accepted[m].Timestamp < clock - Retention)
    BY <1>2, <1>3 DEF Purge, PurgePoint, Expired
  <1>8. records'[i].Timestamp = accepted[n].Timestamp
    BY <1>1, <1>3
  <1>9. clock \in Int /\ Retention \in Int
    OBVIOUS
  <1>. QED
    BY ONLY <1>5, <1>6, <1>7, <1>8, <1>9

\* Every operation preserves retention under ordered timestamps.  Taking away
\* the last acceptance leaves them ordered, so a step that finds them ordered
\* afterwards found them ordered before.
LEMMA OrderedStep ==
    ASSUME StoreInv, RetentionWhileOrdered, [StoreNext]_storeVars
    PROVE  RetentionWhileOrdered'
  <1>1. SUFFICES ASSUME StampsRise'
                 PROVE  RetentionHonoured'
    BY DEF RetentionWhileOrdered
  <1>2. ASSUME UNCHANGED accepted
        PROVE  StampsRise
    BY <1>1, <1>2 DEF StampsRise
  <1>3. ASSUME NEW submission \in Submission, Add(submission)
        PROVE  RetentionHonoured'
    BY <1>3, AddStep DEF StoreInv, RetentionHonoured
  <1>4. CASE AddInvalid
    BY <1>4 DEF AddInvalid, RetentionHonoured
  <1>5. ASSUME NEW submission \in Submission, AddDuplicate(submission)
        PROVE  RetentionHonoured'
    BY <1>5 DEF AddDuplicate, RetentionHonoured
  <1>6. ASSUME NEW user \in Users, ListByUser(user)
        PROVE  RetentionHonoured'
    <2>1. PICK first \in 0..Len(records) : Purge(first)
      BY <1>6 DEF ListByUser, Purge
    <2>2. \A r \in Elements(records') : clock - r.Timestamp <= Retention
      BY <1>2, <2>1, FreshLemma DEF StoreInv, Purge
    <2>3. answer' = [op |-> "listed", user |-> user, at |-> clock,
                     found |-> {r \in Elements(records') : r.user = user}]
      BY <1>6 DEF ListByUser
    <2>. QED
      BY <2>2, <2>3 DEF RetentionHonoured
  <1>7. ASSUME NEW user \in Users, NEW id \in IDs, GetByUser(user, id)
        PROVE  RetentionHonoured'
    <2>1. PICK first \in 0..Len(records) : Purge(first)
      BY <1>7 DEF GetByUser, Purge
    <2>2. \A r \in Elements(records') : clock - r.Timestamp <= Retention
      BY <1>2, <2>1, FreshLemma DEF StoreInv, Purge
    <2>3. \/ answer' = [op |-> "ErrRecordMissing"]
          \/ \E r \in Elements(records') :
                answer' = [op |-> "got", user |-> user, at |-> clock, record |-> r]
      BY <1>7 DEF GetByUser
    <2>. QED
      BY <2>2, <2>3 DEF RetentionHonoured
  <1>8. CASE Tick \/ SetBack \/ UNCHANGED storeVars
    <2>1. UNCHANGED <<accepted, answer>>
      BY <1>8 DEF Tick, SetBack, storeVars
    <2>. QED
      BY <1>2, <2>1 DEF RetentionWhileOrdered, RetentionHonoured
  <1>. QED
    BY <1>3, <1>4, <1>5, <1>6, <1>7, <1>8 DEF StoreNext

\* No query returns a record older than the retention as long as no acceptance
\* was stamped before an earlier one, whether or not the clock is ever set back.
THEOREM StoreOrderedRetention == StoreSpec => []RetentionWhileOrdered
  <1>1. StoreInit => RetentionWhileOrdered
    BY DEF StoreInit, RetentionWhileOrdered, RetentionHonoured
  <1>2. StoreInv /\ RetentionWhileOrdered /\ [StoreNext]_storeVars => RetentionWhileOrdered'
    BY OrderedStep
  <1>. QED
    BY <1>1, <1>2, StoreInvariance, PTL DEF StoreSpec

\* No acceptance is stamped ahead of the clock: what keeps the next one in
\* order, if the clock is not set back.
StampsOrdered == StampsRise /\ \A i \in 1..Len(accepted) : accepted[i].Timestamp <= clock

\* Every operation preserves it, if the clock is not set back.
LEMMA StampsStep ==
    ASSUME ~ClockMaySetBack, StoreInv, StampsOrdered, [StoreNext]_storeVars
    PROVE  StampsOrdered'
  <1>1. ASSUME NEW submission \in Submission, Add(submission)
        PROVE  StampsOrdered'
    <2>1. /\ Len(accepted') = Len(accepted) + 1
          /\ \A i \in 1..Len(accepted) : accepted'[i] = accepted[i]
          /\ accepted'[Len(accepted) + 1].Timestamp = clock
          /\ answer'.op = "added"
          /\ Len(accepted) \in Nat /\ clock \in Nat
          /\ clock' = clock
      BY <1>1, AddStep DEF StoreInv, SliceInv, SliceTypes, Add
    <2>2. ASSUME NEW i \in 1..Len(accepted'), NEW j \in 1..i
          PROVE  /\ accepted'[i].Timestamp <= clock'
                 /\ accepted'[j].Timestamp <= accepted'[i].Timestamp
      <3>1. CASE i = Len(accepted) + 1 /\ j = i
        BY <2>1, <3>1
      <3>2. CASE i = Len(accepted) + 1 /\ j \in 1..Len(accepted)
        BY <2>1, <3>2 DEF StampsOrdered, StampsRise
      <3>3. CASE i \in 1..Len(accepted)
        <4>1. j \in 1..Len(accepted)
          BY <2>1, <3>3
        <4>. QED
          BY <2>1, <3>3, <4>1 DEF StampsOrdered, StampsRise
      <3>4. \/ i = Len(accepted) + 1 /\ (j = i \/ j \in 1..Len(accepted))
            \/ i \in 1..Len(accepted)
        <4>1. Len(accepted') = Len(accepted) + 1 /\ Len(accepted) \in Nat
          BY <2>1
        <4>. QED
          BY ONLY <4>1, i \in 1..Len(accepted'), j \in 1..i
      <3>. QED
        BY <3>1, <3>2, <3>3, <3>4
    <2>. QED
      BY <2>1, <2>2 DEF StampsOrdered, StampsRise
  <1>2. ASSUME UNCHANGED <<clock, accepted>>
        PROVE  StampsOrdered'
    BY <1>2 DEF StampsOrdered, StampsRise
  <1>3. CASE Tick
    <2>1. clock' = clock + 1 /\ UNCHANGED accepted
      BY <1>3 DEF Tick
    <2>2. ASSUME NEW i \in 1..Len(accepted)
          PROVE  accepted[i].Timestamp <= clock'
      <3>1. accepted[i] \in Record /\ clock \in Nat
        BY DEF StoreInv, SliceInv, SliceTypes
      <3>2. accepted[i].Timestamp \in Int
        BY <3>1 DEF Record
      <3>. QED
        BY <2>1, <3>1, <3>2 DEF StampsOrdered
    <2>. QED
      BY <2>1, <2>2 DEF StampsOrdered, StampsRise
  <1>4. ~SetBack
    BY DEF SetBack
  <1>. QED
    BY <1>1, <1>2, <1>3, <1>4 DEF StoreNext, storeVars, AddInvalid, AddDuplicate, ListByUser,
       GetByUser

\* No query returns a record older than the retention, if the wall clock is
\* never set back.
THEOREM StoreRetention ==
    ASSUME ~ClockMaySetBack
    PROVE  StoreSpec => []RetentionHonoured
  <1>1. StoreInit => StampsOrdered
    BY DEF StoreInit, StampsOrdered, StampsRise
  <1>2. StoreInv /\ StampsOrdered /\ [StoreNext]_storeVars => StampsOrdered'
    BY StampsStep
  <1>3. StampsOrdered /\ RetentionWhileOrdered => RetentionHonoured
    BY DEF StampsOrdered, RetentionWhileOrdered
  <1>. QED
    BY <1>1, <1>2, <1>3, StoreInvariance, StoreOrderedRetention, PTL DEF StoreSpec

-----------------------------------------------------------------------------
(* The inductive invariant of the collector *)

\* The store's slice is in order, and each acceptance has a submitter and a
\* POST it came from.
StoreOK ==
    /\ SliceInv
    /\ submitting \in Seq(Peers) /\ Len(submitting) = Len(accepted)
    /\ source \in Seq(Posts) /\ Len(source) = Len(accepted)
    /\ restarts \in 0..MaxRestarts

\* A record of the collector as it runs now: the acceptance its number says.
Held(record) ==
    /\ record.Sequence \in 1..Len(accepted)
    /\ accepted[record.Sequence] = record

\* The POST behind an acceptance has been stored, for the user it named and
\* under the certificate it came with.
RecordOK(i) ==
    /\ posts[source[i]].status = 201
    /\ posts[source[i]].user = accepted[i].user
    /\ posts[source[i]].peer = submitting[i]
    /\ posts[source[i]].peer \in AllowedSubmitters

\* A POST is stored when it is handled and never before; if it was stored by
\* the collector as it runs now, its answer names the acceptance it led to.
PostOK(p) ==
    /\ posts[p].request = "sent" =>
          posts[p].user \in Users \cup {Blank} /\ posts[p].peer \in Peers
    /\ posts[p].request # "handled" => posts[p].times = 0 /\ posts[p].status # 201
    /\ posts[p].times <= 1
    /\ posts[p].status = 201 => posts[p].times = 1
    /\ posts[p].outcome = "acknowledged" => posts[p].status = 201
    /\ posts[p].at <= restarts
    /\ posts[p].status = 201 /\ posts[p].at = restarts =>
          /\ posts[p].record \in Record
          /\ Held(posts[p].record)
          /\ source[posts[p].record.Sequence] = p

\* A handled query has left out only what KnownRecordsAreShown lets it.
Complete(q) ==
    Handled(q) =>
        \A record \in queries[q].known :
            \/ record \in queries[q].found
            \/ record.user # queries[q].user
            \/ queries[q].id \notin {None, record.id}
            \/ Gone(record)

\* What a query of the collector as it runs now knows and has found are
\* acceptances; what any query has found is its user's.
QueryOK(q) ==
    /\ queries[q].pc # "idle" => queries[q].user \in Users
    /\ queries[q].pc \in {"idle", "asked"} => queries[q].found = {}
    /\ queries[q].found # {} => queries[q].peer = QueryCaller
    /\ \A record \in queries[q].found : record.user = queries[q].user
    /\ queries[q].at <= restarts
    /\ queries[q].at = restarts =>
          \A record \in queries[q].known \cup queries[q].found : Held(record)
    /\ Complete(q)

IInv ==
    /\ TypeOK
    /\ StoreOK
    /\ \A i \in 1..Len(accepted) : RecordOK(i)
    /\ \A p \in Posts : PostOK(p)
    /\ \A q \in Queries : QueryOK(q)

-----------------------------------------------------------------------------
(* The store that the collector drives *)

\* A call that adds nothing purges, and changes nothing else of the slice.
LEMMA CallsPurge ==
    ASSUME NEW user, NEW id, NEW submission,
           AddDuplicate(submission) \/ ListByUser(user) \/ GetByUser(user, id)
    PROVE  \E first \in 0..Len(records) : Purge(first)
  BY DEF AddDuplicate, ListByUser, GetByUser, Purge

\* What a step of the collector that does not restart it may do to the store.
Grows ==
    /\ restarts' = restarts
    /\ latest <= latest'
    /\ Len(accepted) <= Len(accepted')
    /\ \A i \in 1..Len(accepted) :
          /\ accepted'[i] = accepted[i]
          /\ source'[i] = source[i]
          /\ submitting'[i] = submitting[i]

\* The types that the slice's invariant gives.
LEMMA StoreTypes ==
    ASSUME StoreOK
    PROVE  /\ records \in Seq(Record) /\ accepted \in Seq(Record)
           /\ latest \in Nat /\ clock \in Nat /\ clock \in 0..MaxClock
           /\ latest \in 0..MaxClock
           /\ Len(accepted) \in Nat /\ sequence = Len(accepted)
           /\ restarts \in Nat
  BY StoreConfigAssumption DEF StoreOK, SliceInv, SliceTypes,
     WindowIsSuffix

\* A purge is a step of the store in which no history changes.
LEMMA PurgeGrows ==
    ASSUME StoreOK, NEW first \in 0..Len(records), Purge(first),
           UNCHANGED <<submitting, source, restarts>>
    PROVE  StoreOK' /\ Grows /\ UNCHANGED accepted
  <1>1. SliceInv'
    BY StoreConfigAssumption, PurgeStep DEF StoreOK
  <1>2. accepted' = accepted /\ latest <= latest'
    BY StoreTypes DEF Purge, Max2
  <1>. QED
    BY <1>1, <1>2, StoreTypes DEF StoreOK, Grows

\* Time passes, or nothing happens, or the store rejects a record: the store
\* keeps all it has.
LEMMA IdleGrows ==
    ASSUME StoreOK, clock' \in 0..MaxClock,
           UNCHANGED <<records, sequence, accepted, latest, submitting, source,
                       restarts>>
    PROVE  StoreOK' /\ Grows
  <1>1. SliceInv'
    BY DEF StoreOK, SliceInv, SliceTypes, WindowIsSuffix, HeldIDsUnique,
       AbsentForAReason, Expired
  <1>. QED
    BY <1>1, StoreTypes DEF StoreOK, Grows

-----------------------------------------------------------------------------
(* What stays true of a POST, a query and a record *)

\* A record of the collector as it runs now stays one.
LEMMA HeldStays ==
    ASSUME StoreOK, StoreOK', Grows, NEW record, Held(record)
    PROVE  /\ record.Sequence \in 1..Len(accepted')
           /\ accepted'[record.Sequence] = record
  BY StoreTypes DEF Held, Grows

\* What the store no longer owes anyone it will not owe again.
LEMMA GoneStays ==
    ASSUME StoreOK, StoreOK', Grows, NEW record, Held(record), Gone(record)
    PROVE  \/ Len(accepted') - record.Sequence >= MaximumRecords
           \/ Expired(record, latest')
  <1>1. record \in Record
    BY StoreTypes DEF Held
  <1>2. record.Sequence \in Nat /\ record.Timestamp \in Int
    BY <1>1 DEF Record
  <1>3. /\ Len(accepted) \in Nat /\ Len(accepted') \in Nat
        /\ latest \in Nat /\ latest' \in Nat
    <2>1. Len(accepted) \in Nat /\ latest \in Nat
      BY StoreTypes
    <2>2. accepted' \in Seq(Record) /\ latest' \in 0..MaxClock
      BY DEF StoreOK, SliceInv, SliceTypes
    <2>. QED
      BY <2>1, <2>2, StoreConfigAssumption
  <1>. QED
    BY <1>2, <1>3, StoreConfigAssumption DEF Gone, Grows, Expired

\* A POST that a step leaves alone stays as it should be.
LEMMA PostStays ==
    ASSUME StoreOK, StoreOK', Grows, NEW p \in Posts, posts'[p] = posts[p],
           PostOK(p)
    PROVE  PostOK(p)'
  BY HeldStays DEF PostOK, Held, Grows

\* A query that a step leaves alone stays as it should be.
LEMMA QueryStays ==
    ASSUME StoreOK, StoreOK', Grows, NEW q \in Queries, queries'[q] = queries[q],
           QueryOK(q)
    PROVE  QueryOK(q)'
  <1>1. ASSUME queries[q].at = restarts,
               NEW record \in queries[q].known \cup queries[q].found
        PROVE  Held(record)'
    BY <1>1, HeldStays DEF QueryOK, Held
  <1>2. Complete(q)'
    <2>. SUFFICES ASSUME Handled(q), NEW record \in queries[q].known,
                         record \notin queries[q].found,
                         record.user = queries[q].user,
                         queries[q].id \in {None, record.id}
                  PROVE  Gone(record)'
      BY DEF Complete, Handled, Grows
    <2>1. Held(record) /\ Gone(record)
      BY DEF QueryOK, Complete, Handled
    <2>. QED
      BY <2>1, GoneStays DEF Gone
  <1>. QED
    BY <1>1, <1>2 DEF QueryOK, Grows

\* The POST behind an acceptance stays it if what it stored is not changed.
LEMMA RecordStays ==
    ASSUME StoreOK, StoreOK', Grows, NEW i \in 1..Len(accepted), RecordOK(i),
           /\ posts'[source[i]].status = posts[source[i]].status
           /\ posts'[source[i]].user = posts[source[i]].user
           /\ posts'[source[i]].peer = posts[source[i]].peer
    PROVE  RecordOK(i)'
  BY DEF RecordOK, Grows

-----------------------------------------------------------------------------
(* What an action has to show *)

\* Of a step that changes one POST: only what it does to that POST and to the
\* acceptances it adds is left to show.
LEMMA PostChange ==
    ASSUME IInv, StoreOK', answer' \in Answer, Grows, UNCHANGED queries,
           NEW p \in Posts, NEW x \in Post, posts' = [posts EXCEPT ![p] = x],
           \/ posts[p].status # 201
           \/ /\ x.status = posts[p].status
              /\ x.user = posts[p].user
              /\ x.peer = posts[p].peer,
           PostOK(p)',
           \A i \in 1..Len(accepted') : i > Len(accepted) => RecordOK(i)'
    PROVE  IInv'
  <1>1. posts \in [Posts -> Post] /\ queries \in [Queries -> Query]
    BY DEF IInv, TypeOK
  <1>2. /\ posts' \in [Posts -> Post]
        /\ posts'[p] = x
        /\ \A o \in Posts \ {p} : posts'[o] = posts[o]
    BY <1>1
  <1>3. TypeOK'
    BY <1>1, <1>2 DEF TypeOK, StoreOK, SliceInv, StoreTypeOK,
       SliceTypes
  <1>4. ASSUME NEW o \in Posts PROVE PostOK(o)'
    BY <1>2, PostStays DEF IInv
  <1>5. ASSUME NEW q \in Queries PROVE QueryOK(q)'
    BY QueryStays DEF IInv
  <1>6. ASSUME NEW i \in 1..Len(accepted') PROVE RecordOK(i)'
    <2>1. CASE i \in 1..Len(accepted)
      <3>1. RecordOK(i) /\ source[i] \in Posts
        BY <2>1 DEF IInv, StoreOK
      <3>2. /\ posts'[source[i]].status = posts[source[i]].status
            /\ posts'[source[i]].user = posts[source[i]].user
            /\ posts'[source[i]].peer = posts[source[i]].peer
        BY <1>2, <3>1 DEF RecordOK
      <3>. QED
        BY <2>1, <3>1, <3>2, RecordStays DEF IInv
    <2>. QED
      BY <2>1, StoreTypes DEF IInv
  <1>. QED
    BY <1>3, <1>4, <1>5, <1>6 DEF IInv

\* Of a step that changes one query: only what it does to that query.
LEMMA QueryChange ==
    ASSUME IInv, StoreOK', answer' \in Answer, Grows,
           UNCHANGED <<posts, accepted>>,
           NEW q \in Queries, NEW x \in Query,
           queries' = [queries EXCEPT ![q] = x],
           QueryOK(q)'
    PROVE  IInv'
  <1>1. posts \in [Posts -> Post] /\ queries \in [Queries -> Query]
    BY DEF IInv, TypeOK
  <1>2. /\ queries' \in [Queries -> Query]
        /\ queries'[q] = x
        /\ \A o \in Queries \ {q} : queries'[o] = queries[o]
    BY <1>1
  <1>3. TypeOK'
    BY <1>1, <1>2 DEF TypeOK, StoreOK, SliceInv, StoreTypeOK,
       SliceTypes
  <1>4. ASSUME NEW p \in Posts PROVE PostOK(p)'
    BY PostStays DEF IInv
  <1>5. ASSUME NEW o \in Queries PROVE QueryOK(o)'
    BY <1>2, QueryStays DEF IInv
  <1>6. ASSUME NEW i \in 1..Len(accepted') PROVE RecordOK(i)'
    <2>1. i \in 1..Len(accepted) /\ RecordOK(i)
      BY DEF IInv
    <2>. QED
      BY <2>1, RecordStays DEF IInv
  <1>. QED
    BY <1>3, <1>4, <1>5, <1>6 DEF IInv

\* The parts of the invariant that the actions start from.
LEMMA Facts ==
    ASSUME IInv
    PROVE  /\ StoreOK
           /\ answer \in Answer
           /\ posts \in [Posts -> Post]
           /\ queries \in [Queries -> Query]
           /\ \A p \in Posts : posts[p] \in Post /\ PostOK(p)
           /\ \A q \in Queries : queries[q] \in Query /\ QueryOK(q)
  BY DEF IInv, TypeOK, StoreTypeOK

\* A step that leaves the store alone.
LEMMA StoreUntouched ==
    ASSUME IInv, UNCHANGED <<storeVars, submitting, source, restarts>>
    PROVE  StoreOK' /\ Grows /\ answer' \in Answer /\ UNCHANGED accepted
  <1>1. clock' \in 0..MaxClock /\ answer' = answer /\ accepted' = accepted
    BY Facts, StoreTypes DEF storeVars
  <1>2. StoreOK' /\ Grows
    BY <1>1, Facts, IdleGrows DEF storeVars
  <1>. QED
    BY <1>1, <1>2, Facts

\* The empty POST, the POST forgotten and the empty query.
LEMMA Blanks ==
    /\ NoPost \in Post /\ Settled \in Post /\ NoQuery \in Query
    /\ NoPost.status = 0 /\ NoPost.times = 0 /\ NoPost.at = 0
    /\ Settled.request = "handled" /\ Settled.status = 0 /\ Settled.times = 0
    /\ Settled.at = 0 /\ Settled.outcome = "failed"
    /\ NoQuery.found = {}
  <1>1. NoPost \in Post /\ NoQuery \in Query
    BY CollectorAssumption DEF NoPost, Post, NoQuery, Query
  <1>2. NoPost.status = 0 /\ NoPost.times = 0 /\ NoPost.at = 0 /\ NoQuery.found = {}
    BY DEF NoPost, NoQuery
  <1>3. /\ Settled \in Post
        /\ Settled.request = "handled" /\ Settled.status = 0 /\ Settled.times = 0
        /\ Settled.at = 0 /\ Settled.outcome = "failed"
    <2>1. Settled \in Post
      <3>. DEFINE y == [NoPost EXCEPT !.request = "handled"]
      <3>1. y \in Post
        BY <1>1 DEF Post
      <3>2. Settled = [y EXCEPT !.outcome = "failed"]
        BY DEF Settled
      <3>. HIDE DEF y
      <3>. QED
        BY <3>1, <3>2 DEF Post
    <2>2. Settled.request = "handled" /\ Settled.outcome = "failed"
      BY <1>1 DEF Settled, Post
    <2>3. Settled.status = NoPost.status /\ Settled.times = NoPost.times /\ Settled.at = NoPost.at
      BY <1>1 DEF Settled, Post
    <2>. QED
      BY <1>2, <2>1, <2>2, <2>3
  <1>. QED
    BY <1>1, <1>2, <1>3

-----------------------------------------------------------------------------
(* Writers *)

\* Write sends a POST that is not stored yet.
LEMMA WriteInv ==
    ASSUME IInv, NEW p \in Posts, NEW peer \in Peers, NEW user \in Users \cup {Blank},
           Write(p, peer, user)
    PROVE  IInv'
  <1>. DEFINE x == [NoPost EXCEPT !.request = "sent", !.peer = peer,
                                  !.user = user, !.outcome = "waiting"]
  <1>1. posts' = [posts EXCEPT ![p] = x] /\ posts[p].request = "none"
    BY DEF Write
  <1>2. /\ x \in Post
        /\ x.request = "sent" /\ x.peer = peer /\ x.user = user
        /\ x.status = 0 /\ x.times = 0 /\ x.at = 0 /\ x.outcome = "waiting"
    <2>1. x \in Post
      BY Blanks DEF Post
    <2>2. x.request = "sent" /\ x.peer = peer /\ x.user = user /\ x.outcome = "waiting"
      BY Blanks DEF Post
    <2>3. x.status = NoPost.status /\ x.times = NoPost.times /\ x.at = NoPost.at
      BY Blanks DEF Post
    <2>. QED
      BY <2>1, <2>2, <2>3, Blanks
  <1>. HIDE DEF x
  <1>3. posts'[p] = x
    BY <1>1, Facts
  <1>4. PostOK(p)'
    <2>1. restarts' \in Nat
      BY Facts, StoreTypes DEF Write
    <2>. QED
      BY <1>2, <1>3, <2>1 DEF PostOK
  <1>5. posts[p].status # 201
    BY <1>1, Facts DEF PostOK
  <1>6. StoreOK' /\ Grows /\ answer' \in Answer /\ UNCHANGED accepted
    BY StoreUntouched DEF Write
  <1>7. \A i \in 1..Len(accepted') : i > Len(accepted) => RecordOK(i)'
    BY <1>6, Facts, StoreTypes
  <1>. QED
    BY <1>1, <1>2, <1>4, <1>5, <1>6, <1>7, PostChange DEF Write

\* WriteReturns and WriteFails change what the sender knows, and forget a POST
\* only if it was not stored.
LEMMA OutcomeInv ==
    ASSUME IInv, NEW p \in Posts, WriteReturns(p) \/ WriteFails(p)
    PROVE  IInv'
  <1>1. PICK x \in {[posts[p] EXCEPT !.outcome = "acknowledged"],
                    [posts[p] EXCEPT !.outcome = "failed"], Settled} :
           /\ posts' = [posts EXCEPT ![p] = x]
           /\ x = Settled => posts[p].status # 201
           /\ x.outcome = "acknowledged" => posts[p].status = 201
    <2>1. CASE WriteReturns(p) /\ posts[p].status = 201
      <3>1. posts' = [posts EXCEPT ![p] = [posts[p] EXCEPT !.outcome = "acknowledged"]]
        BY <2>1 DEF WriteReturns
      <3>2. [posts[p] EXCEPT !.outcome = "acknowledged"].outcome # Settled.outcome
        BY Facts, Blanks DEF Post
      <3>. QED
        BY <2>1, <3>1, <3>2
    <2>2. CASE WriteReturns(p) /\ posts[p].status # 201
      BY <2>2, Blanks DEF WriteReturns
    <2>3. CASE WriteFails(p)
      <3>1. posts' = [posts EXCEPT ![p] = [posts[p] EXCEPT !.outcome = "failed"]]
        BY <2>3 DEF WriteFails
      <3>2. CASE posts[p].status = 201
        <4>1. [posts[p] EXCEPT !.outcome = "failed"].status # Settled.status
          BY <3>2, Facts, Blanks DEF Post
        <4>2. [posts[p] EXCEPT !.outcome = "failed"].outcome = "failed"
          BY Facts DEF Post
        <4>. QED
          BY <3>1, <4>1, <4>2
      <3>3. CASE posts[p].status # 201
        <4>2. [posts[p] EXCEPT !.outcome = "failed"].outcome = "failed"
          BY Facts DEF Post
        <4>. QED
          BY <3>1, <3>3, <4>2
      <3>. QED
        BY <3>2, <3>3
    <2>. QED
      BY <2>1, <2>2, <2>3
  <1>2. \/ /\ x.request = "handled" /\ x.status = 0 /\ x.times = 0 /\ x.at = 0
           /\ x.outcome = "failed" /\ posts[p].status # 201
        \/ /\ x.request = posts[p].request /\ x.status = posts[p].status
           /\ x.times = posts[p].times /\ x.at = posts[p].at
           /\ x.user = posts[p].user /\ x.peer = posts[p].peer
           /\ x.record = posts[p].record
    BY <1>1, Facts, Blanks DEF Post
  <1>3. x \in Post
    BY <1>1, Facts, Blanks DEF Post
  <1>4. posts'[p] = x
    BY <1>1, Facts
  <1>5. StoreOK' /\ Grows /\ answer' \in Answer /\ UNCHANGED accepted
    BY StoreUntouched DEF WriteReturns, WriteFails
  <1>6. UNCHANGED <<queries, source, restarts>>
    BY DEF WriteReturns, WriteFails
  <1>7. PostOK(p)'
    BY <1>1, <1>2, <1>4, <1>5, <1>6, Facts, StoreTypes DEF PostOK, Held
  <1>8. \A i \in 1..Len(accepted') : i > Len(accepted) => RecordOK(i)'
    BY <1>5, Facts, StoreTypes
  <1>9. posts[p].status # 201 \/ (/\ x.status = posts[p].status
                                  /\ x.user = posts[p].user
                                  /\ x.peer = posts[p].peer)
    BY <1>2
  <1>. QED
    BY <1>1, <1>3, <1>5, <1>6, <1>7, <1>8, <1>9, PostChange

-----------------------------------------------------------------------------
(* The collector: submissions *)

\* An accepted submission is the newest acceptance, of the POST's user, and its
\* POST and peer are noted at the same place.
LEMMA AcceptStep ==
    ASSUME IInv, NEW p \in Posts, posts[p].request = "sent", NEW id \in IDs,
           Add(SubmissionOf(p, id)),
           submitting' = Append(submitting, posts[p].peer),
           source' = Append(source, p), restarts' = restarts
    PROVE  /\ StoreOK' /\ Grows /\ answer' \in Answer
           /\ Len(accepted') = Len(accepted) + 1
           /\ answer'.record \in Record
           /\ answer'.record = accepted'[Len(accepted) + 1]
           /\ answer'.record.Sequence = Len(accepted) + 1
           /\ answer'.record.user = posts[p].user
           /\ submitting'[Len(accepted) + 1] = posts[p].peer
           /\ source'[Len(accepted) + 1] = p
  <1>1. StoreOK /\ posts[p].user \in Users \cup {Blank} /\ posts[p].peer \in Peers
    BY Facts DEF PostOK
  <1>. DEFINE s == SubmissionOf(p, id)
  <1>2. s \in Submission /\ s.user = posts[p].user
    BY <1>1 DEF SubmissionOf, Submission
  <1>3. Add(s)
    OBVIOUS
  <1>. HIDE DEF s
  <1>4. /\ SliceInv'
        /\ answer' \in Answer
        /\ Len(accepted') = Len(accepted) + 1
        /\ \A i \in 1..Len(accepted) : accepted'[i] = accepted[i]
    BY <1>1, <1>2, <1>3, StoreConfigAssumption, AddStep DEF StoreOK
  <1>. DEFINE record == [id |-> s.id, user |-> s.user, Sequence |-> sequence + 1,
                         Timestamp |-> clock]
  <1>5. /\ accepted' = Append(accepted, record)
        /\ answer' = [op |-> "added", record |-> record]
        /\ record.Sequence = sequence + 1
        /\ record.user = s.user
    BY <1>3 DEF Add
  <1>. HIDE DEF record
  <1>6. latest' = Max2(latest, clock)
    BY <1>3 DEF Add
  <1>7. latest <= latest'
    BY <1>1, <1>6, StoreTypes DEF Max2
  <1>8. /\ accepted'[Len(accepted) + 1] = record
        /\ answer'.record = record
        /\ sequence = Len(accepted)
    BY <1>1, <1>5, StoreTypes
  <1>9. record \in Record
    <2>1. accepted' \in Seq(Record) /\ Len(accepted) \in Nat
      BY <1>1, <1>4, StoreTypes DEF SliceInv, SliceTypes
    <2>. QED
      BY <1>4, <1>8, <2>1
  <1>10. /\ submitting' \in Seq(Peers) /\ Len(submitting') = Len(accepted')
         /\ source' \in Seq(Posts) /\ Len(source') = Len(accepted')
         /\ submitting'[Len(accepted) + 1] = posts[p].peer
         /\ source'[Len(accepted) + 1] = p
         /\ \A i \in 1..Len(accepted) : /\ submitting'[i] = submitting[i]
                                        /\ source'[i] = source[i]
    BY <1>1, <1>4 DEF StoreOK
  <1>11. StoreOK'
    BY <1>1, <1>4, <1>10 DEF StoreOK
  <1>12. Grows
    BY <1>1, <1>4, <1>7, <1>10, StoreTypes DEF Grows
  <1>. QED
    BY <1>2, <1>4, <1>5, <1>8, <1>9, <1>10, <1>11, <1>12

\* SubmitStored stores a POST that was not stored before.
LEMMA StoredInv ==
    ASSUME IInv, NEW p \in Posts, SubmitStored(p)
    PROVE  IInv'
  <1>1. PICK id \in IDs : Add(SubmissionOf(p, id))
    BY DEF SubmitStored
  <1>. PICK n \in Nat : n = Len(accepted) + 1
    BY Facts, StoreTypes
  <1>2. /\ posts[p].request = "sent"
        /\ posts[p].peer \in AllowedSubmitters
        /\ UNCHANGED <<queries, restarts>>
    BY DEF SubmitStored, maySubmit
  <1>3. /\ StoreOK' /\ Grows /\ answer' \in Answer
        /\ Len(accepted') = n
        /\ answer'.record \in Record
        /\ answer'.record = accepted'[n]
        /\ answer'.record.Sequence = n
        /\ answer'.record.user = posts[p].user
        /\ submitting'[n] = posts[p].peer
        /\ source'[n] = p
    BY <1>1, <1>2, AcceptStep DEF SubmitStored
  <1>. DEFINE x == [posts[p] EXCEPT !.request = "handled", !.status = 201,
                        !.record = answer'.record, !.at = restarts,
                        !.times = posts[p].times + 1]
  <1>4. posts' = [posts EXCEPT ![p] = x]
    BY DEF SubmitStored
  <1>5. posts[p] \in Post /\ posts[p].times = 0 /\ posts[p].status # 201
    BY <1>2, Facts DEF PostOK
  <1>6. restarts \in 0..MaxRestarts /\ restarts \in Nat /\ n \in Nat \ {0}
    BY n = Len(accepted) + 1, Facts, StoreTypes DEF StoreOK
  <1>7. /\ x.request = "handled" /\ x.status = 201 /\ x.times = 1
        /\ x.record = answer'.record /\ x.at = restarts
        /\ x.user = posts[p].user /\ x.peer = posts[p].peer
        /\ x.outcome = posts[p].outcome
    BY <1>5 DEF Post
  <1>8. x \in Post
    <2>. DEFINE u == [posts[p] EXCEPT !.request = "handled"]
                v == [u EXCEPT !.status = 201]
                w == [v EXCEPT !.record = answer'.record]
                y == [w EXCEPT !.at = restarts]
    <2>1. u \in Post
      BY <1>5 DEF Post
    <2>2. x = [y EXCEPT !.times = posts[p].times + 1]
      OBVIOUS
    <2>. HIDE DEF u
    <2>3. v \in Post
      BY <2>1 DEF Post
    <2>. HIDE DEF v
    <2>4. w \in Post
      BY <1>3, <2>3 DEF Post
    <2>. HIDE DEF w
    <2>5. y \in Post
      BY <1>6, <2>4 DEF Post
    <2>. HIDE DEF y, x
    <2>. QED
      BY <1>5, <2>2, <2>5 DEF Post
  <1>. HIDE DEF x
  <1>9. posts'[p] = x
    BY <1>4, Facts
  <1>10. Held(posts[p].record)'
    BY <1>3, <1>6, <1>7, <1>9 DEF Held
  <1>11. PostOK(p)'
    BY <1>2, <1>3, <1>6, <1>7, <1>9, <1>10 DEF PostOK
  <1>12. RecordOK(n)'
    BY <1>2, <1>3, <1>7, <1>9 DEF RecordOK
  <1>13. \A i \in 1..Len(accepted') : i > Len(accepted) => i = n
    BY <1>3, Facts, StoreTypes
  <1>14. \A i \in 1..Len(accepted') : i > Len(accepted) => RecordOK(i)'
    BY <1>12, <1>13
  <1>. QED
    BY <1>2, <1>3, <1>4, <1>5, <1>8, <1>11, <1>14, PostChange

\* SubmitRefused stores nothing: it purges at most.
LEMMA RefusedInv ==
    ASSUME IInv, NEW p \in Posts, SubmitRefused(p)
    PROVE  IInv'
  <1>1. PICK x \in {Settled, [NoPost EXCEPT !.request = "handled", !.status = 400,
                                           !.outcome = "waiting"]} :
           posts' = [posts EXCEPT ![p] = x]
    <2>1. posts' = [posts EXCEPT ![p] =
                      IF posts[p].outcome = "failed" THEN Settled
                      ELSE [NoPost EXCEPT !.request = "handled", !.status = 400,
                                          !.outcome = "waiting"]]
      BY DEF SubmitRefused
    <2>. QED
      BY <2>1
  <1>2. /\ x \in Post
        /\ x.request = "handled" /\ x.status # 201 /\ x.times = 0 /\ x.at = 0
        /\ x.outcome # "acknowledged"
    <2>1. CASE x = Settled
      BY <2>1, Blanks
    <2>2. CASE x # Settled
      <3>. DEFINE y == [NoPost EXCEPT !.request = "handled", !.status = 400,
                                      !.outcome = "waiting"]
      <3>1. y \in Post
        <4>. DEFINE z == [NoPost EXCEPT !.request = "handled"]
                    v == [z EXCEPT !.status = 400]
        <4>1. z \in Post
          BY Blanks DEF Post
        <4>2. y = [v EXCEPT !.outcome = "waiting"]
          OBVIOUS
        <4>. HIDE DEF z
        <4>3. v \in Post
          BY <4>1 DEF Post
        <4>. HIDE DEF v, y
        <4>. QED
          BY <4>2, <4>3 DEF Post
      <3>2. y.request = "handled" /\ y.status = 400 /\ y.outcome = "waiting"
        BY Blanks DEF Post
      <3>3. y.times = NoPost.times /\ y.at = NoPost.at
        BY Blanks DEF Post
      <3>4. x = y
        BY <2>2
      <3>. HIDE DEF y
      <3>. QED
        BY <3>1, <3>2, <3>3, <3>4, Blanks
    <2>. QED
      BY <2>1, <2>2
  <1>3. /\ posts[p].request = "sent"
        /\ UNCHANGED <<submitting, source, queries, restarts>>
    BY DEF SubmitRefused
  <1>4. StoreOK' /\ Grows /\ answer' \in Answer /\ UNCHANGED accepted
    <2>1. CASE UNCHANGED storeVars
      BY <1>3, <2>1, StoreUntouched
    <2>2. CASE AddInvalid
      <3>1. /\ UNCHANGED <<records, sequence, clock, accepted, latest>>
            /\ answer' = [op |-> "ErrInvalidRecord"]
        BY <2>2 DEF AddInvalid
      <3>2. StoreOK' /\ Grows
        BY <1>3, <3>1, Facts, StoreTypes, IdleGrows
      <3>. QED
        BY <3>1, <3>2 DEF Answer
    <2>3. ASSUME NEW id \in IDs, AddDuplicate(SubmissionOf(p, id))
          PROVE  StoreOK' /\ Grows /\ answer' \in Answer /\ UNCHANGED accepted
      <3>1. PICK first \in 0..Len(records) : Purge(first)
        BY <2>3, CallsPurge
      <3>2. StoreOK' /\ Grows /\ UNCHANGED accepted
        BY <1>3, <3>1, Facts, PurgeGrows
      <3>3. answer' = [op |-> "ErrInvalidRecord"]
        BY <2>3 DEF AddDuplicate
      <3>. QED
        BY <3>2, <3>3 DEF Answer
    <2>. QED
      BY <2>1, <2>2, <2>3 DEF SubmitRefused
  <1>5. posts'[p] = x
    BY <1>1, Facts
  <1>6. restarts' \in Nat
    BY <1>3, Facts, StoreTypes
  <1>7. PostOK(p)'
    BY <1>2, <1>5, <1>6 DEF PostOK
  <1>8. posts[p].status # 201
    BY <1>3, Facts DEF PostOK
  <1>9. \A i \in 1..Len(accepted') : i > Len(accepted) => RecordOK(i)'
    BY <1>4, Facts, StoreTypes
  <1>. QED
    BY <1>1, <1>2, <1>3, <1>4, <1>7, <1>8, <1>9, PostChange

-----------------------------------------------------------------------------
(* The web application's queries *)

\* What is known to be stored is an acceptance of the collector as it runs now.
LEMMA KnownHeld ==
    ASSUME IInv, NEW record \in Known
    PROVE  record \in Record /\ Held(record)
  <1>1. CASE \E p \in Posts : /\ posts[p].outcome = "acknowledged"
                              /\ posts[p].at = restarts
                              /\ record = posts[p].record
    BY <1>1, Facts DEF PostOK
  <1>2. CASE \E q \in Queries : /\ queries[q].at = restarts
                                /\ record \in queries[q].found
    <2>1. PICK q \in Queries : queries[q].at = restarts /\ record \in queries[q].found
      BY <1>2
    <2>2. queries[q].found \subseteq Record /\ QueryOK(q)
      BY Facts DEF Query
    <2>. QED
      BY <2>1, <2>2 DEF QueryOK
  <1>. QED
    BY <1>1, <1>2 DEF Known

\* What the slice holds after a call is an acceptance.
LEMMA SliceHeld ==
    ASSUME StoreOK', NEW record \in Elements(records')
    PROVE  record \in Record /\ Held(record)'
  <1>1. /\ records' \in Seq(Record) /\ accepted' \in Seq(Record)
        /\ sequence' = Len(accepted') /\ Len(records') <= Len(accepted')
        /\ \A i \in 1..Len(accepted') : accepted'[i].Sequence = i
        /\ \A i \in 1..Len(records') :
              records'[i] = accepted'[sequence' - Len(records') + i]
    BY DEF StoreOK, SliceInv, SliceTypes, WindowIsSuffix
  <1>2. PICK i \in 1..Len(records') : record = records'[i]
    BY <1>1 DEF Elements
  <1>3. PICK n \in 1..Len(accepted') : n = sequence' - Len(records') + i
    BY <1>1
  <1>4. record = accepted'[n]
    BY <1>1, <1>2, <1>3
  <1>. QED
    BY <1>1, <1>4 DEF Held

\* An acceptance that the slice does not hold after a call had to go.
LEMMA InSlice ==
    ASSUME StoreOK', NEW record, Held(record)'
    PROVE  record \in Elements(records') \/ Gone(record)'
  <1>1. /\ records' \in Seq(Record) /\ accepted' \in Seq(Record)
        /\ sequence' = Len(accepted') /\ Len(records') <= Len(accepted')
        /\ \A i \in 1..Len(records') :
              records'[i] = accepted'[sequence' - Len(records') + i]
        /\ \A i \in 1..(Len(accepted') - Len(records')) :
              \/ Len(accepted') - i >= MaximumRecords
              \/ Expired(accepted'[i], latest')
    BY DEF StoreOK, SliceInv, SliceTypes, WindowIsSuffix,
       AbsentForAReason
  <1>2. PICK n \in 1..Len(accepted') : n = record.Sequence /\ accepted'[n] = record
    BY DEF Held
  <1>3. CASE n \in 1..(Len(accepted') - Len(records'))
    BY <1>1, <1>2, <1>3 DEF Gone, Expired, Expired
  <1>4. CASE n \notin 1..(Len(accepted') - Len(records'))
    <2>1. PICK i \in 1..Len(records') : n = sequence' - Len(records') + i
      <3>1. n - (Len(accepted') - Len(records')) \in 1..Len(records')
        BY <1>1, <1>2, <1>4
      <3>2. /\ Len(records') \in Nat /\ Len(accepted') \in Nat
            /\ n = sequence' - Len(records')
                      + (n - (Len(accepted') - Len(records')))
        BY <1>1
      <3>. QED
        BY <3>1, <3>2
    <2>2. records'[i] = record
      BY <1>1, <1>2, <2>1
    <2>. QED
      BY <1>1, <2>2 DEF Elements
  <1>. QED
    BY <1>3, <1>4

\* Ask notes what is known when the query is sent.
LEMMA AskInv ==
    ASSUME IInv, NEW q \in Queries, NEW peer \in Peers, NEW user \in Users,
           NEW id \in IDs \cup {None}, Ask(q, peer, user, id)
    PROVE  IInv'
  <1>. DEFINE x == [NoQuery EXCEPT !.pc = "asked", !.peer = peer, !.user = user,
                       !.id = id, !.known = Known, !.at = restarts]
  <1>1. /\ queries' = [queries EXCEPT ![q] = x]
        /\ UNCHANGED <<storeVars, submitting, source, posts, restarts>>
    BY DEF Ask
  <1>2. Known \subseteq Record /\ \A record \in Known : Held(record)
    BY KnownHeld
  <1>3. restarts \in 0..MaxRestarts /\ restarts \in Nat
    BY Facts, StoreTypes DEF StoreOK
  <1>4. /\ x.pc = "asked" /\ x.peer = peer /\ x.user = user /\ x.id = id
        /\ x.known = Known /\ x.at = restarts /\ x.found = NoQuery.found
    BY Blanks DEF Query
  <1>5. x \in Query
    <2>. DEFINE u == [NoQuery EXCEPT !.pc = "asked"]
                v == [u EXCEPT !.peer = peer]
                w == [v EXCEPT !.user = user]
                y == [w EXCEPT !.id = id]
                z == [y EXCEPT !.known = Known]
    <2>1. u \in Query
      BY Blanks DEF Query
    <2>2. x = [z EXCEPT !.at = restarts]
      OBVIOUS
    <2>. HIDE DEF u
    <2>3. v \in Query
      BY <2>1 DEF Query
    <2>. HIDE DEF v
    <2>4. w \in Query
      BY <2>3 DEF Query
    <2>. HIDE DEF w
    <2>5. y \in Query
      BY <2>4 DEF Query
    <2>. HIDE DEF y
    <2>6. z \in Query
      BY <1>2, <2>5 DEF Query
    <2>. HIDE DEF z, x
    <2>. QED
      BY <1>3, <2>2, <2>6 DEF Query
  <1>. HIDE DEF x
  <1>6. queries'[q] = x
    BY <1>1, Facts
  <1>7. StoreOK' /\ Grows /\ answer' \in Answer /\ UNCHANGED accepted
    BY <1>1, StoreUntouched
  <1>8. Complete(q)'
    BY <1>4, <1>6 DEF Complete, Handled
  <1>9. QueryOK(q)'
    BY <1>1, <1>2, <1>3, <1>4, <1>6, <1>7, <1>8, Blanks DEF QueryOK, Held
  <1>. QED
    BY <1>1, <1>5, <1>7, <1>9, QueryChange

\* A reply of the collector: what it shows is the user's, and acceptances of
\* the collector as it runs now, and it leaves out only what it may.
LEMMA ReplyInv ==
    ASSUME IInv, StoreOK', Grows, answer' \in Answer,
           UNCHANGED <<accepted, posts>>, NEW q \in Queries,
           queries[q].pc = "asked",
           NEW status \in {200, 403, 404}, NEW found \in SUBSET Record,
           Reply(q, status, found),
           found # {} => queries[q].peer = QueryCaller,
           \A record \in found : record.user = queries[q].user /\ Held(record)',
           \A record \in queries[q].known :
              Held(record)' =>
                 \/ status = 403
                 \/ record \in found
                 \/ record.user # queries[q].user
                 \/ queries[q].id \notin {None, record.id}
                 \/ Gone(record)'
    PROVE  IInv'
  <1>. DEFINE x == [queries[q] EXCEPT !.pc = "answered", !.status = status,
                       !.found = found]
  <1>1. queries' = [queries EXCEPT ![q] = x]
    BY DEF Reply
  <1>2. queries[q] \in Query /\ QueryOK(q)
    BY Facts
  <1>3. /\ x.pc = "answered" /\ x.status = status /\ x.found = found
        /\ x.peer = queries[q].peer /\ x.user = queries[q].user
        /\ x.id = queries[q].id /\ x.known = queries[q].known
        /\ x.at = queries[q].at
    BY <1>2 DEF Query
  <1>4. x \in Query
    <2>. DEFINE u == [queries[q] EXCEPT !.pc = "answered"]
                v == [u EXCEPT !.status = status]
    <2>1. u \in Query
      BY <1>2 DEF Query
    <2>2. x = [v EXCEPT !.found = found]
      OBVIOUS
    <2>. HIDE DEF u
    <2>3. v \in Query
      BY <2>1 DEF Query
    <2>. HIDE DEF v, x
    <2>. QED
      BY <2>2, <2>3 DEF Query
  <1>. HIDE DEF x
  <1>5. queries'[q] = x
    BY <1>1, Facts
  <1>6. restarts' = restarts
    BY DEF Grows
  <1>7. ASSUME queries[q].at = restarts, NEW record \in queries[q].known
        PROVE  Held(record)'
    BY <1>2, <1>7, Facts, HeldStays DEF QueryOK, Held
  <1>8. Complete(q)'
    BY <1>3, <1>5, <1>6, <1>7 DEF Complete, Handled
  <1>9. QueryOK(q)'
    BY <1>2, <1>3, <1>5, <1>6, <1>7, <1>8 DEF QueryOK
  <1>. QED
    BY <1>1, <1>4, <1>9, QueryChange

\* QueryDenied shows nothing.
LEMMA DeniedInv ==
    ASSUME IInv, NEW q \in Queries, QueryDenied(q)
    PROVE  IInv'
  <1>1. /\ queries[q].pc = "asked" /\ Reply(q, 403, {})
        /\ UNCHANGED <<storeVars, submitting, source, posts, restarts>>
    BY DEF QueryDenied
  <1>2. StoreOK' /\ Grows /\ answer' \in Answer /\ UNCHANGED accepted
    BY <1>1, StoreUntouched
  <1>. QED
    BY <1>1, <1>2, ReplyInv

\* list shows every record of the user that the store still has.
LEMMA ListInv ==
    ASSUME IInv, NEW q \in Queries, list(q)
    PROVE  IInv'
  <1>. DEFINE user == queries[q].user
              found == {r \in Elements(records') : r.user = user}
  <1>1. /\ queries[q].pc = "asked" /\ queries[q].peer = QueryCaller
        /\ queries[q].id = None
        /\ UNCHANGED <<submitting, source, posts, restarts>>
    BY DEF list
  <1>2. user \in Users
    BY <1>1, Facts DEF QueryOK
  <1>3. ListByUser(user) /\ Reply(q, 200, answer'.found)
    BY DEF list
  <1>4. PICK first \in 0..Len(records) : Purge(first)
    BY <1>3, CallsPurge
  <1>5. StoreOK' /\ Grows /\ UNCHANGED accepted
    BY <1>1, <1>4, Facts, PurgeGrows
  <1>6. answer' = [op |-> "listed", user |-> user, at |-> clock, found |-> found]
    BY <1>3 DEF ListByUser, Elements, Elements
  <1>7. answer'.found = found
    BY <1>6
  <1>8. /\ found \in SUBSET Record
        /\ \A record \in found : record.user = user /\ Held(record)'
    BY <1>5, SliceHeld
  <1>9. answer' \in Answer
    BY <1>2, <1>6, <1>8, Facts, StoreTypes DEF Answer
  <1>10. ASSUME NEW record \in queries[q].known, Held(record)'
         PROVE  \/ record \in found
                \/ record.user # user
                \/ Gone(record)'
    BY <1>5, <1>10, InSlice
  <1>. HIDE DEF found
  <1>. QED
    BY <1>1, <1>3, <1>5, <1>7, <1>8, <1>9, <1>10, ReplyInv

\* get shows the record asked for if the store still has it and it is the
\* user's.
LEMMA GetInv ==
    ASSUME IInv, NEW q \in Queries, get(q)
    PROVE  IInv'
  <1>. DEFINE user == queries[q].user
              id == queries[q].id
              mine == {r \in Elements(records') : r.id = id /\ r.user = user}
  <1>1. /\ queries[q].pc = "asked" /\ queries[q].peer = QueryCaller
        /\ id # None
        /\ UNCHANGED <<submitting, source, posts, restarts>>
    BY DEF get
  <1>2. user \in Users
    BY <1>1, Facts DEF QueryOK
  <1>3. GetByUser(user, id)
    BY DEF get
  <1>4. PICK first \in 0..Len(records) : Purge(first)
    BY <1>3, CallsPurge
  <1>5. StoreOK' /\ Grows /\ UNCHANGED accepted
    BY <1>1, <1>4, Facts, PurgeGrows
  <1>6. \/ mine = {} /\ answer' = [op |-> "ErrRecordMissing"]
        \/ \E r \in mine :
              answer' = [op |-> "got", user |-> user, at |-> clock, record |-> r]
    BY <1>3 DEF GetByUser, Elements, Elements
  <1>7. ASSUME NEW record \in mine
        PROVE  record \in Record /\ record.user = user /\ Held(record)'
    BY <1>5, SliceHeld
  <1>8. ASSUME NEW record \in queries[q].known, Held(record)'
        PROVE  \/ record \in mine
               \/ record.user # user
               \/ id # record.id
               \/ Gone(record)'
    BY <1>5, <1>8, InSlice
  <1>9. \A r, s \in mine : r = s
    <2>. SUFFICES ASSUME NEW r \in mine, NEW s \in mine PROVE r = s
      OBVIOUS
    <2>1. HeldIDsUnique' /\ records' \in Seq(Record)
      BY <1>5 DEF StoreOK, SliceInv, SliceTypes
    <2>2. PICK i \in 1..Len(records') : r = records'[i]
      BY <2>1 DEF Elements
    <2>3. PICK j \in 1..Len(records') : s = records'[j]
      BY <2>1 DEF Elements
    <2>. QED
      BY <2>1, <2>2, <2>3 DEF HeldIDsUnique
  <1>10. CASE mine = {}
    <2>1. answer' = [op |-> "ErrRecordMissing"] /\ Reply(q, 404, {})
      BY <1>6, <1>10 DEF get
    <2>2. answer' \in Answer
      BY <2>1 DEF Answer
    <2>3. \A record \in queries[q].known :
             Held(record)' => \/ record.user # user
                              \/ id # record.id
                              \/ Gone(record)'
      BY <1>8, <1>10
    <2>. HIDE DEF mine
    <2>. QED
      BY <1>1, <1>5, <2>1, <2>2, <2>3, ReplyInv
  <1>11. CASE mine # {}
    <2>1. PICK r \in mine :
             answer' = [op |-> "got", user |-> user, at |-> clock, record |-> r]
      BY <1>6, <1>11
    <2>2. answer'.op = "got" /\ answer'.record = r
      BY <2>1
    <2>3. Reply(q, 200, {r})
      BY <2>2 DEF get
    <2>4. r \in Record /\ r.user = user /\ Held(r)'
      BY <1>7
    <2>5. answer' \in Answer
      BY <1>2, <2>1, <2>4, Facts, StoreTypes DEF Answer
    <2>6. \A record \in queries[q].known :
             Held(record)' => \/ record \in {r}
                              \/ record.user # user
                              \/ id # record.id
                              \/ Gone(record)'
      BY <1>8, <1>9
    <2>. HIDE DEF mine
    <2>7. {r} \in SUBSET Record
      BY <2>4
    <2>. QED
      BY <1>1, <1>5, <2>3, <2>4, <2>5, <2>6, <2>7, ReplyInv
  <1>. QED
    BY <1>10, <1>11

\* QueryReturns and QueryFails pass an answer on or discard it whole.
LEMMA ReturnInv ==
    ASSUME IInv, NEW q \in Queries, QueryReturns(q) \/ QueryFails(q)
    PROVE  IInv'
  <1>1. /\ queries[q].pc \in {"asked", "answered"}
        /\ UNCHANGED <<storeVars, submitting, source, posts, restarts>>
    BY DEF QueryReturns, QueryFails
  <1>2. queries[q] \in Query /\ QueryOK(q)
    BY Facts
  <1>3. StoreOK' /\ Grows /\ answer' \in Answer /\ UNCHANGED accepted
    BY <1>1, StoreUntouched
  <1>4. CASE /\ queries[q].pc = "answered"
             /\ queries' = [queries EXCEPT ![q] = [queries[q] EXCEPT !.pc = "returned"]]
    <2>. DEFINE x == [queries[q] EXCEPT !.pc = "returned"]
    <2>1. /\ x \in Query
          /\ x.pc = "returned" /\ x.status = queries[q].status
          /\ x.found = queries[q].found /\ x.peer = queries[q].peer
          /\ x.user = queries[q].user /\ x.id = queries[q].id
          /\ x.known = queries[q].known /\ x.at = queries[q].at
      BY <1>2 DEF Query
    <2>2. queries' = [queries EXCEPT ![q] = x]
      BY <1>4
    <2>. HIDE DEF x
    <2>3. queries'[q] = x
      BY <2>2, Facts
    <2>4. ASSUME NEW record, Gone(record), Held(record) PROVE Gone(record)'
      BY <1>3, <2>4, Facts, GoneStays DEF Gone
    <2>5. ASSUME NEW record, Held(record) PROVE Held(record)'
      BY <1>3, <2>5 DEF Held
    <2>6. restarts' = restarts
      BY <1>1
    <2>7. Complete(q)'
      BY <1>2, <1>4, <2>1, <2>3, <2>4, <2>6 DEF Complete, Handled, QueryOK
    <2>8. QueryOK(q)'
      BY <1>2, <1>4, <2>1, <2>3, <2>5, <2>6, <2>7 DEF QueryOK
    <2>. QED
      BY <1>1, <1>3, <2>1, <2>2, <2>8, QueryChange
  <1>5. CASE queries' = [queries EXCEPT ![q] =
                 [queries[q] EXCEPT !.pc = "returned", !.status = 502, !.found = {}]]
    <2>. DEFINE x == [queries[q] EXCEPT !.pc = "returned", !.status = 502,
                                        !.found = {}]
    <2>1. /\ x.pc = "returned" /\ x.status = 502
          /\ x.found = {} /\ x.peer = queries[q].peer
          /\ x.user = queries[q].user /\ x.id = queries[q].id
          /\ x.known = queries[q].known /\ x.at = queries[q].at
      BY <1>2 DEF Query
    <2>2. queries' = [queries EXCEPT ![q] = x]
      BY <1>5
    <2>3. x \in Query
      <3>. DEFINE u == [queries[q] EXCEPT !.pc = "returned"]
                  v == [u EXCEPT !.status = 502]
      <3>1. u \in Query
        BY <1>2 DEF Query
      <3>2. x = [v EXCEPT !.found = {}]
        OBVIOUS
      <3>. HIDE DEF u
      <3>3. v \in Query
        BY <3>1 DEF Query
      <3>. HIDE DEF v, x
      <3>. QED
        BY <3>2, <3>3 DEF Query
    <2>. HIDE DEF x
    <2>4. queries'[q] = x
      BY <2>2, Facts
    <2>5. ASSUME NEW record, Held(record) PROVE Held(record)'
      BY <1>3, <2>5 DEF Held
    <2>6. restarts' = restarts
      BY <1>1
    <2>7. Complete(q)'
      BY <2>1, <2>4 DEF Complete, Handled
    <2>8. QueryOK(q)'
      BY <1>1, <1>2, <2>1, <2>4, <2>5, <2>6, <2>7 DEF QueryOK
    <2>. QED
      BY <1>1, <1>3, <2>2, <2>3, <2>8, QueryChange
  <1>. QED
    BY <1>4, <1>5 DEF QueryReturns, QueryFails, Usable

-----------------------------------------------------------------------------
(* The invariant holds *)

\* The collector starts with nothing stored, posted or asked.
LEMMA InitInv == Init => IInv
  <1>. SUFFICES ASSUME Init PROVE IInv
    OBVIOUS
  <1>1. /\ records = <<>> /\ sequence = 0 /\ clock = 0 /\ accepted = <<>>
        /\ latest = 0 /\ answer = [op |-> "none"]
        /\ submitting = <<>> /\ source = <<>> /\ restarts = 0
        /\ posts = [p \in Posts |-> NoPost]
        /\ queries = [q \in Queries |-> NoQuery]
    BY DEF Init, StoreInit
  <1>2. SliceInv
    BY <1>1, StoreConfigAssumption DEF SliceInv, SliceTypes,
       WindowIsSuffix, HeldIDsUnique, AbsentForAReason
  <1>3. StoreOK
    BY <1>1, <1>2, CollectorAssumption DEF StoreOK
  <1>4. answer \in Answer
    BY <1>1 DEF Answer
  <1>5. TypeOK
    BY <1>1, <1>3, <1>4, Blanks DEF TypeOK, StoreOK, SliceInv, StoreTypeOK, SliceTypes
  <1>6. ASSUME NEW p \in Posts PROVE PostOK(p)
    BY <1>1 DEF PostOK, NoPost
  <1>7. ASSUME NEW q \in Queries PROVE QueryOK(q)
    BY <1>1 DEF QueryOK, NoQuery, Complete, Handled
  <1>. QED
    BY <1>1, <1>3, <1>5, <1>6, <1>7 DEF IInv

\* The clock moves, or nothing happens.
LEMMA IdleInv ==
    ASSUME IInv, Clock \/ UNCHANGED vars
    PROVE  IInv'
  <1>1. /\ clock' \in 0..MaxClock
        /\ UNCHANGED <<records, sequence, answer, accepted, latest,
                       submitting, source, posts, queries, restarts>>
    BY Facts, StoreTypes, StoreConfigAssumption
       DEF Clock, Tick, SetBack, vars, storeVars
  <1>2. StoreOK' /\ Grows
    BY <1>1, Facts, IdleGrows
  <1>3. answer' \in Answer
    BY <1>1, Facts
  <1>4. TypeOK'
    BY <1>1, <1>2, <1>3, Facts DEF TypeOK, StoreOK, SliceInv,
       StoreTypeOK, SliceTypes
  <1>5. ASSUME NEW p \in Posts PROVE PostOK(p)'
    BY <1>1, <1>2, Facts, PostStays
  <1>6. ASSUME NEW q \in Queries PROVE QueryOK(q)'
    BY <1>1, <1>2, Facts, QueryStays
  <1>7. ASSUME NEW i \in 1..Len(accepted') PROVE RecordOK(i)'
    BY <1>1 DEF IInv, RecordOK
  <1>. QED
    BY <1>2, <1>4, <1>5, <1>6, <1>7 DEF IInv

\* A restart empties the store; no POST or query is of the new process yet.
LEMMA RestartInv ==
    ASSUME IInv, Restart
    PROVE  IInv'
  <1>1. /\ restarts < MaxRestarts /\ restarts' = restarts + 1
        /\ records' = <<>> /\ sequence' = 0
        /\ accepted' = <<>> /\ submitting' = <<>> /\ source' = <<>>
        /\ answer' = [op |-> "none"]
        /\ UNCHANGED <<clock, latest, posts, queries>>
    BY DEF Restart
  <1>2. SliceInv'
    BY <1>1, Facts, StoreTypes, StoreConfigAssumption
       DEF SliceInv, SliceTypes, WindowIsSuffix,
           HeldIDsUnique, AbsentForAReason
  <1>3. restarts \in Nat /\ MaxRestarts \in Nat
    BY Facts, StoreTypes, CollectorAssumption
  <1>4. StoreOK'
    BY <1>1, <1>2, <1>3 DEF StoreOK
  <1>5. answer' \in Answer
    BY <1>1 DEF Answer
  <1>6. TypeOK'
    BY <1>1, <1>4, <1>5, Facts DEF TypeOK, StoreOK, SliceInv,
       StoreTypeOK, SliceTypes
  <1>7. ASSUME NEW p \in Posts PROVE PostOK(p)'
    <2>1. PostOK(p) /\ posts[p].at \in Nat
      BY Facts, StoreConfigAssumption DEF Post
    <2>. QED
      BY <1>1, <1>3, <2>1 DEF PostOK
  <1>8. ASSUME NEW q \in Queries PROVE QueryOK(q)'
    <2>1. QueryOK(q) /\ queries[q].at \in Nat
      BY Facts, StoreConfigAssumption DEF Query
    <2>. QED
      BY <1>1, <1>3, <2>1 DEF QueryOK, Complete, Handled
  <1>. QED
    BY <1>1, <1>4, <1>6, <1>7, <1>8 DEF IInv

\* Every step of the collector, its writers and its reader keeps the invariant.
LEMMA StepInv == IInv /\ [Next]_vars => IInv'
  <1>. SUFFICES ASSUME IInv, [Next]_vars PROVE IInv'
    OBVIOUS
  <1>1. ASSUME NEW p \in Posts, NEW peer \in Peers, NEW user \in Users \cup {Blank},
               Write(p, peer, user)
        PROVE  IInv'
    BY <1>1, WriteInv
  <1>2. ASSUME NEW p \in Posts,
               \/ WriteReturns(p) \/ WriteFails(p)
               \/ SubmitStored(p) \/ SubmitRefused(p)
        PROVE  IInv'
    BY <1>2, OutcomeInv, StoredInv, RefusedInv
  <1>3. ASSUME NEW q \in Queries, NEW peer \in Peers, NEW user \in Users,
               NEW id \in IDs \cup {None}, Ask(q, peer, user, id)
        PROVE  IInv'
    BY <1>3, AskInv
  <1>4. ASSUME NEW q \in Queries,
               \/ QueryDenied(q) \/ list(q) \/ get(q)
               \/ QueryReturns(q) \/ QueryFails(q)
        PROVE  IInv'
    BY <1>4, DeniedInv, ListInv, GetInv, ReturnInv
  <1>. QED
    BY <1>1, <1>2, <1>3, <1>4, IdleInv, RestartInv DEF Next

\* The inductive invariant of the whole trail: store, POSTs and queries.
THEOREM CollectorInvariance == Spec => []IInv
  BY InitInv, StepInv, PTL DEF Spec

\* Read your writes and read monotonically: no handled query leaves out a record
\* known when it was sent, except for capacity and retention (list, get).
THEOREM CollectorComplete == Spec => []KnownRecordsAreShown
  <1>1. IInv => KnownRecordsAreShown
    BY DEF IInv, QueryOK, Complete, KnownRecordsAreShown
  <1>. QED
    BY <1>1, CollectorInvariance, PTL

\* Whatever an answer shows was posted, for that user, by the allowed workload it
\* is attributed to, and shown to nobody but the query caller (submit, queryUser).
THEOREM CollectorGenuine == Spec => []ShownIsGenuine
  <1>1. IInv => ShownIsGenuine
    <2>. SUFFICES ASSUME IInv, NEW q \in Queries
                  PROVE  /\ queries[q].found # {} => queries[q].peer = QueryCaller
                         /\ \A record \in queries[q].found :
                               /\ record.user = queries[q].user
                               /\ queries[q].at = restarts =>
                                     LET p == source[record.Sequence] IN
                                     /\ posts[p].user = record.user
                                     /\ posts[p].peer = submitting[record.Sequence]
                                     /\ posts[p].peer \in AllowedSubmitters
      BY DEF ShownIsGenuine
    <2>1. QueryOK(q)
      BY Facts
    <2>2. ASSUME NEW record, Held(record)
          PROVE  RecordOK(record.Sequence) /\ accepted[record.Sequence] = record
      BY <2>2 DEF IInv, Held
    <2>. QED
      BY <2>1, <2>2 DEF QueryOK, RecordOK
  <1>. QED
    BY <1>1, CollectorInvariance, PTL

\* No POST is stored twice, and the answer of an acknowledged one names what it
\* stored, with type correctness (Remote.Write, submit).
THEOREM CollectorStoredOnce == Spec => []StoredOnce
  <1>1. IInv => StoredOnce
    BY DEF IInv, PostOK, Held, StoredOnce
  <1>. QED
    BY <1>1, CollectorInvariance, PTL

-----------------------------------------------------------------------------
(* The store inside the collector *)

\* A new process has an empty store; the clock is the machine's.
StoreReplaced ==
    /\ records' = <<>> /\ sequence' = 0 /\ accepted' = <<>>
    /\ answer' = [op |-> "none"]
    /\ UNCHANGED <<clock, latest>>

\* Handlers touch the store only through its methods, with arguments that the
\* store was proved about, and a restart replaces it.
LEMMA CallsStore ==
    ASSUME IInv, [Next]_vars
    PROVE  [StoreNext]_storeVars \/ StoreReplaced
  <1>1. ASSUME NEW p \in Posts, NEW id \in IDs, posts[p].request = "sent"
        PROVE  SubmissionOf(p, id) \in Submission
    <2>1. posts[p].user \in Users \cup {Blank}
      BY <1>1, Facts DEF PostOK
    <2>. QED
      BY <2>1 DEF SubmissionOf, Submission
  <1>2. ASSUME NEW p \in Posts, SubmitStored(p)
        PROVE  StoreNext
    <2>1. PICK id \in IDs : Add(SubmissionOf(p, id))
      BY <1>2 DEF SubmitStored
    <2>2. SubmissionOf(p, id) \in Submission
      BY <1>1, <1>2 DEF SubmitStored
    <2>. QED
      BY <2>1, <2>2 DEF StoreNext
  <1>3. ASSUME NEW p \in Posts, SubmitRefused(p)
        PROVE  StoreNext \/ UNCHANGED storeVars
    <2>1. ASSUME NEW id \in IDs, AddDuplicate(SubmissionOf(p, id))
          PROVE  StoreNext
      <3>1. SubmissionOf(p, id) \in Submission
        BY <1>1, <1>3 DEF SubmitRefused
      <3>. QED
        BY <2>1, <3>1 DEF StoreNext
    <2>. QED
      BY <1>3, <2>1 DEF SubmitRefused, StoreNext
  <1>4. ASSUME NEW q \in Queries, list(q)
        PROVE  StoreNext
    <2>1. ListByUser(queries[q].user) /\ queries[q].user \in Users
      BY <1>4, Facts DEF list, QueryOK
    <2>. QED
      BY <2>1 DEF StoreNext
  <1>5. ASSUME NEW q \in Queries, get(q)
        PROVE  StoreNext
    <2>1. GetByUser(queries[q].user, queries[q].id) /\ queries[q].user \in Users
      BY <1>5, Facts DEF get, QueryOK
    <2>2. queries[q].id \in IDs
      BY <1>5, Facts DEF get, Query
    <2>. QED
      BY <2>1, <2>2 DEF StoreNext
  <1>6. CASE Clock
    BY <1>6 DEF Clock, StoreNext
  <1>7. CASE Restart
    BY <1>7 DEF Restart, StoreReplaced
  <1>8. ASSUME NEW p \in Posts, WriteReturns(p) \/ WriteFails(p)
        PROVE  UNCHANGED storeVars
    BY <1>8 DEF WriteReturns, WriteFails
  <1>9. ASSUME NEW q \in Queries, QueryDenied(q) \/ QueryReturns(q) \/ QueryFails(q)
        PROVE  UNCHANGED storeVars
    BY <1>9 DEF QueryDenied, QueryReturns, QueryFails
  <1>10. ASSUME NEW p, NEW q, NEW peer, NEW user, NEW id,
                Write(p, peer, user) \/ Ask(q, peer, user, id)
         PROVE  UNCHANGED storeVars
    BY <1>10 DEF Write, Ask
  <1>11. CASE UNCHANGED vars
    BY <1>11 DEF vars
  <1>. QED
    BY <1>2, <1>3, <1>4, <1>5, <1>6, <1>7, <1>8, <1>9, <1>10, <1>11 DEF Next

\* The collector, its writers, its readers and its restarts use the store as
\* AuditStore specifies it: every behaviour of the whole is one of the store
\* whose process is replaced now and then (submit, list, get, main).
THEOREM CollectorRunsStore ==
    Spec => StoreInit /\ [][StoreNext \/ StoreReplaced]_storeVars
  <1>1. Init => StoreInit
    BY DEF Init
  <1>2. IInv /\ [Next]_vars => [StoreNext \/ StoreReplaced]_storeVars
    BY CallsStore
  <1>. QED
    BY <1>1, <1>2, CollectorInvariance, PTL DEF Spec

\* What the store guarantees it guarantees under the collector, whatever
\* requests overlap and however often the process is replaced: the slice is the
\* newest acceptances of this process, no identifier is held twice, no listing
\* misses what it should have, and none shows what is too old while the stamps
\* rise.
THEOREM CollectorKeepsStore ==
    Spec => [](WindowIsSuffix /\ HeldIDsUnique /\ ListComplete /\ RetentionWhileOrdered)
  <1>. DEFINE Kept == StoreInv /\ RetentionWhileOrdered
  <1>1. Init => Kept
    BY StoreInitInv DEF Init, StoreInit, RetentionWhileOrdered, RetentionHonoured
  <1>2. IInv /\ Kept /\ [Next]_vars => Kept'
    <2>. SUFFICES ASSUME IInv, Kept, [Next]_vars
                  PROVE  Kept'
      OBVIOUS
    <2>1. CASE [StoreNext]_storeVars
      BY <2>1, StoreStepInv, OrderedStep
    <2>2. CASE StoreReplaced
      <3>1. SliceInv'
        BY <2>2, StoreConfigAssumption DEF StoreReplaced, StoreInv, SliceInv,
           SliceTypes, WindowIsSuffix, HeldIDsUnique, AbsentForAReason
      <3>2. answer' \in Answer /\ answer'.op = "none"
        BY <2>2 DEF StoreReplaced, Answer
      <3>. QED
        BY <3>1, <3>2 DEF StoreInv, ListComplete, RetentionWhileOrdered, RetentionHonoured
    <2>. QED
      BY <2>1, <2>2, CallsStore
  <1>3. Kept => WindowIsSuffix /\ HeldIDsUnique /\ ListComplete /\ RetentionWhileOrdered
    BY DEF StoreInv, SliceInv
  <1>. QED
    BY <1>1, <1>2, <1>3, CollectorInvariance, PTL DEF Spec

=============================================================================
