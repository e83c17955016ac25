--------------------------- MODULE JobStreamProofs ---------------------------
(***************************************************************************)
(* Proofs about JobStream, for any number of dispatchers, any cap and any  *)
(* high-water mark: the drift of the fill that job_stream_pressure         *)
(* computes, and the side on which the admission check errs.               *)
(***************************************************************************)
EXTENDS JobStream, FiniteSetTheorems, WellFoundedInduction, TLAPS

\* Entries after the last-delivered-id wait; those before it have been
\* delivered and are not acknowledged.
EntriesAreCurrent ==
  \A i \in entries : IF i > last THEN fate[i] = "queued" ELSE fate[i] \in {"held", "stranded"}

UnaddedHaveNoFate == \A i \in Jobs : i > added => fate[i] = "none"

\* What has been delivered is not past the last-delivered-id.
DeliveredAreBehind == Delivered \subseteq 1..last

\* entries-read, when it is known, counts each job delivered, and nothing past
\* the last one.
ReadIsBounded == read # Unknown => Cardinality(Delivered) <= read /\ read <= last

\* Between its two commands, a check knows which of the entries it counted
\* waited, and at most as many more as have been delivered by now.
ChecksAreBounded ==
  \A p \in Dispatchers :
    /\ disp[p].at # "idle" => disp[p].count > 0
    /\ disp[p].at = "len" => /\ disp[p].len = disp[p].waiting + disp[p].left
                             /\ disp[p].left <= Cardinality(Delivered)

StreamInv ==
  /\ TypeOK /\ EntriesAreCurrent /\ UnaddedHaveNoFate
  /\ DeliveredAreBehind /\ ReadIsBounded /\ ChecksAreBounded

(* Sets of entries and of jobs are finite, so their sizes are numbers.     *)
LEMMA JobsAreFinite ==
  ASSUME NEW S, S \subseteq Jobs
  PROVE  IsFiniteSet(S) /\ Cardinality(S) \in Nat
<1>1. 1 \in Int /\ MaxJobs \in Int
  BY StreamAssumption
<1>2. IsFiniteSet(Jobs)
  BY <1>1, FS_Interval DEF Jobs
<1> QED
  BY <1>2, FS_Subset, FS_CardinalityType

LessThan == {pair \in Nat \X Nat : pair[1] < pair[2]}

LEMMA LessThanIsWellFounded == IsWellFoundedOn(LessThan, Nat)
<1>1. OpToRel(<, Nat) = LessThan
  BY Zenon DEF OpToRel, LessThan
<1> QED
  BY <1>1, NatLessThanWellFounded, Zenon

(* Min, as Deliver uses it: the oldest of the entries that wait.           *)
LEMMA MinIsLeast ==
  ASSUME NEW S \in SUBSET Nat, S # {}
  PROVE  Min(S) \in S /\ \A i \in S : Min(S) <= i
<1>1. PICK m \in S : \A i \in S : ~ (<<i, m>> \in LessThan)
  BY LessThanIsWellFounded, WFMin
<1>2. ASSUME NEW i \in S PROVE m <= i
  <2>1. m \in Nat /\ i \in Nat
    OBVIOUS
  <2>2. ~ (i < m)
    BY <1>1, <2>1 DEF LessThan
  <2> QED
    BY <2>1, <2>2
<1> QED
  BY <1>2 DEF Min

(* The length exceeds the waiting entries by those delivered and still     *)
(* there.                                                                  *)
LEMMA EntriesWaitOrAreLeft ==
  ASSUME StreamInv
  PROVE  /\ Cardinality(entries) \in Nat /\ Cardinality(Undelivered) \in Nat
         /\ Cardinality(Delivered \cap entries) \in Nat
         /\ Cardinality(entries)
              = Cardinality(Undelivered) + Cardinality(Delivered \cap entries)
<1>1. entries \subseteq Jobs /\ Delivered \subseteq Jobs /\ Undelivered \subseteq Jobs
  <2>1. entries \subseteq 1..added /\ added \in 0..MaxJobs
    BY DEF StreamInv, TypeOK
  <2>2. 1..added \subseteq Jobs
    BY <2>1, StreamAssumption DEF Jobs
  <2> QED
    BY <2>1, <2>2 DEF Delivered, Undelivered
<1> DEFINE there == Delivered \cap entries
<1>2. entries = Undelivered \cup there /\ Undelivered \cap there = {}
  BY <1>1 DEF StreamInv, EntriesAreCurrent, Undelivered, Delivered
<1>3. /\ IsFiniteSet(Undelivered) /\ IsFiniteSet(there)
      /\ Cardinality(Undelivered) \in Nat /\ Cardinality(there) \in Nat
      /\ Cardinality(entries) \in Nat
  BY <1>1, JobsAreFinite
<1> HIDE DEF there
<1>4. Cardinality(entries) = Cardinality(Undelivered) + Cardinality(there)
  BY <1>2, <1>3, FS_Union, FS_EmptySet
<1> QED
  BY <1>3, <1>4 DEF there

(* The bounds of the drift follow from those of entries-read: the jobs     *)
(* delivered are those still there and those gone, and the places up to    *)
(* the last one delivered are those still there and all that are missing.  *)
LEMMA InvImpliesDrift == StreamInv => DriftIsBounded
<1> SUFFICES ASSUME StreamInv PROVE DriftIsBounded
  OBVIOUS
<1> DEFINE there == Delivered \cap entries
           left  == Delivered \ entries
           gone  == (1..last) \ entries
<1>1. /\ Cardinality(entries) \in Nat /\ Cardinality(Undelivered) \in Nat
      /\ Cardinality(there) \in Nat
      /\ Cardinality(entries) = Cardinality(Undelivered) + Cardinality(there)
  BY EntriesWaitOrAreLeft
<1>2. /\ last \in Nat /\ added \in Nat /\ last <= added /\ added <= MaxJobs
      /\ read \in Int /\ MaxJobs \in Nat
      /\ entries \subseteq 1..added /\ Delivered \subseteq 1..last
      /\ 1..last \subseteq Jobs
  BY StreamAssumption DEF StreamInv, TypeOK, DeliveredAreBehind, Jobs, Unknown
<1>3. /\ IsFiniteSet(there) /\ IsFiniteSet(left) /\ IsFiniteSet(gone)
      /\ Cardinality(left) \in Nat /\ Cardinality(gone) \in Nat
  <2>1. there \subseteq Jobs /\ left \subseteq Jobs /\ gone \subseteq Jobs
    BY <1>2
  <2> QED
    BY <2>1, JobsAreFinite
<1>4. Cardinality(Delivered) = Cardinality(there) + Cardinality(left)
  <2>1. Delivered = there \cup left /\ Cardinality(there \cap left) = 0
    BY FS_EmptySet
  <2>2. Cardinality(there \cup left)
          = Cardinality(there) + Cardinality(left) - Cardinality(there \cap left)
    BY <1>3, FS_Union
  <2> HIDE DEF there, left
  <2> QED
    BY <1>1, <1>3, <2>1, <2>2
<1>5. last = Cardinality(there) + Cardinality(gone)
  <2>1. 1..last = there \cup gone /\ Cardinality(there \cap gone) = 0
    BY <1>2, FS_EmptySet DEF StreamInv, EntriesAreCurrent, Delivered
  <2>2. Cardinality(there \cup gone) = last
    <3>1. 1 \in Int /\ last \in Int
      BY <1>2
    <3>2. Cardinality(1..last) = IF 1 > last THEN 0 ELSE last - 1 + 1
      BY <3>1, FS_Interval
    <3>3. Cardinality(1..last) = last
      BY <1>2, <3>2
    <3> QED
      BY <2>1, <3>3, Zenon
  <2>3. Cardinality(there \cup gone)
          = Cardinality(there) + Cardinality(gone) - Cardinality(there \cap gone)
    BY <1>3, FS_Union
  <2>4. Cardinality(there) \in Nat /\ Cardinality(gone) \in Nat
    BY <1>1, <1>3
  <2> HIDE DEF there, gone
  <2> QED
    BY <2>1, <2>2, <2>3, <2>4
<1>6. CASE read = Unknown
  BY <1>1, <1>6 DEF DriftIsBounded
<1>7. CASE read # Unknown
  <2>1. Cardinality(Delivered) <= read /\ read <= last
    BY <1>7 DEF StreamInv, ReadIsBounded
  <2> DEFINE short == Cardinality(Undelivered) - (Cardinality(entries) - read)
  <2>2. short \in Cardinality(left) .. Cardinality(gone)
    <3> HIDE DEF there, left, gone
    <3> QED
      BY <1>1, <1>2, <1>3, <1>4, <1>5, <2>1
  <2> QED
    BY <1>7, <2>2 DEF DriftIsBounded
<1> QED
  BY <1>6, <1>7

(* A step that delivers nothing and changes neither last-delivered-id nor  *)
(* entries-read leaves their bounds right.                                 *)
LEMMA NothingDelivered ==
  ASSUME DeliveredAreBehind, ReadIsBounded, read' = read, last' = last,
         \A i \in Jobs : (fate'[i] \in {"held", "acked", "stranded"})
                           <=> (fate[i] \in {"held", "acked", "stranded"})
  PROVE  Delivered' = Delivered /\ DeliveredAreBehind' /\ ReadIsBounded'
<1>1. Delivered' = Delivered
  BY DEF Delivered, Jobs
<1> QED
  BY <1>1 DEF DeliveredAreBehind, ReadIsBounded, Unknown

LEMMA InitStreamInv == Init => StreamInv
<1> SUFFICES ASSUME Init PROVE StreamInv
  OBVIOUS
<1>1. Delivered = {}
  BY DEF Init, Delivered
<1>2. DeliveredAreBehind /\ ReadIsBounded
  BY <1>1 DEF Init, DeliveredAreBehind, ReadIsBounded
<1>3. TypeOK
  <2>1. /\ entries \subseteq 1..added /\ added \in 0..MaxJobs
        /\ group \in BOOLEAN /\ last \in 0..added /\ read \in {Unknown} \cup 0..added
    <3>1. entries = {} /\ added = 0 /\ group = FALSE /\ last = 0 /\ read = Unknown
      BY DEF Init
    <3>2. 0 \in 0..MaxJobs /\ 0 \in 0..0
      BY StreamAssumption
    <3> QED
      BY <3>1, <3>2
  <2>2. fate \in [Jobs -> Fate]
    BY DEF Init, Fate
  <2>3. /\ disp \in [Dispatchers -> [at : {"idle", "len", "publishing"}, count : Nat,
                                     len : Nat, waiting : Nat, left : Nat]]
        /\ purge \in [at : {"idle", "scanned"}, ids : SUBSET Jobs]
    BY DEF Init, NoCheck, NoPurge
  <2> QED
    BY <2>1, <2>2, <2>3 DEF TypeOK
<1> QED
  BY <1>2, <1>3
     DEF Init, StreamInv, EntriesAreCurrent, UnaddedHaveNoFate, ChecksAreBounded, NoCheck

LEMMA StepStreamInv == StreamInv /\ [Next]_vars => StreamInv'
<1> SUFFICES ASSUME StreamInv, [Next]_vars PROVE StreamInv'
  OBVIOUS
<1> USE StreamAssumption
<1>t. /\ entries \subseteq 1..added /\ added \in 0..MaxJobs
      /\ group \in BOOLEAN /\ last \in 0..added /\ read \in {Unknown} \cup 0..added
      /\ fate \in [Jobs -> Fate]
      /\ disp \in [Dispatchers -> [at : {"idle", "len", "publishing"}, count : Nat,
                                   len : Nat, waiting : Nat, left : Nat]]
      /\ purge \in [at : {"idle", "scanned"}, ids : SUBSET Jobs]
  BY DEF StreamInv, TypeOK
<1>i. /\ EntriesAreCurrent /\ UnaddedHaveNoFate
      /\ DeliveredAreBehind /\ ReadIsBounded /\ ChecksAreBounded
  BY DEF StreamInv
<1>u. added \in Nat /\ last \in Nat /\ read \in Int /\ MaxJobs \in Nat
      /\ \A i \in entries : i \in Jobs /\ i \in Nat /\ i <= added
  BY <1>t DEF Jobs, Unknown
<1>n. /\ NoCheck \in [at : {"idle", "len", "publishing"}, count : Nat,
                     len : Nat, waiting : Nat, left : Nat]
      /\ \A k \in Nat : Publishing(k) \in [at : {"idle", "len", "publishing"}, count : Nat,
                                           len : Nat, waiting : Nat, left : Nat]
  BY DEF NoCheck, Publishing
<1>1. ASSUME NEW p \in Dispatchers, NEW n \in Counts, CheckLength(p, n) PROVE StreamInv'
  <2> DEFINE len == Cardinality(entries)
             waiting == Cardinality(Undelivered)
             left == Cardinality(Delivered \cap entries)
  <2>1. /\ len \in Nat /\ waiting \in Nat /\ left \in Nat
        /\ len = waiting + left
    BY EntriesWaitOrAreLeft
  <2>2. left <= Cardinality(Delivered)
    <3>1. IsFiniteSet(Delivered)
      BY JobsAreFinite DEF Delivered
    <3> QED
      BY <3>1, FS_Subset
  <2>3. n \in Nat /\ n > 0
    OBVIOUS
  <2>4. /\ disp' = [disp EXCEPT ![p] = [at |-> "len", count |-> n, len |-> len,
                                        waiting |-> waiting, left |-> left]]
        /\ UNCHANGED <<entries, added, group, last, read, fate, purge>>
    BY <1>1 DEF CheckLength, groupVars
  <2>5. Delivered' = Delivered /\ DeliveredAreBehind' /\ ReadIsBounded'
    BY <1>i, <2>4, NothingDelivered
  <2> HIDE DEF len, waiting, left
  <2>6. TypeOK'
    BY <1>t, <2>1, <2>3, <2>4 DEF TypeOK
  <2>7. ChecksAreBounded'
    BY <1>i, <1>t, <2>1, <2>2, <2>3, <2>4, <2>5 DEF ChecksAreBounded
  <2>8. EntriesAreCurrent' /\ UnaddedHaveNoFate'
    BY <1>i, <2>4 DEF EntriesAreCurrent, UnaddedHaveNoFate
  <2> QED
    BY <2>5, <2>6, <2>7, <2>8 DEF StreamInv
<1>2. ASSUME NEW p \in Dispatchers, Admit(p) \/ DispatcherStops(p) PROVE StreamInv'
  <2>1. /\ UNCHANGED <<entries, added, group, last, read, fate, purge>>
        /\ \/ disp' = [disp EXCEPT ![p] = NoCheck]
           \/ /\ disp[p].at = "len"
              /\ disp' = [disp EXCEPT ![p] = Publishing(disp[p].count)]
    BY <1>2 DEF Admit, DispatcherStops, groupVars
  <2>2. TypeOK'
    <3>1. disp' \in [Dispatchers -> [at : {"idle", "len", "publishing"}, count : Nat,
                                     len : Nat, waiting : Nat, left : Nat]]
      <4>1. disp[p].count \in Nat
        BY <1>t
      <4> QED
        BY <1>t, <1>n, <2>1, <4>1
    <3> QED
      BY <1>t, <2>1, <3>1 DEF TypeOK
  <2>3. Delivered' = Delivered /\ DeliveredAreBehind' /\ ReadIsBounded'
    BY <1>i, <2>1, NothingDelivered
  <2>4. ChecksAreBounded'
    BY <1>i, <1>t, <2>1, <2>3 DEF ChecksAreBounded, NoCheck, Publishing
  <2>5. EntriesAreCurrent' /\ UnaddedHaveNoFate'
    BY <1>i, <2>1 DEF EntriesAreCurrent, UnaddedHaveNoFate
  <2> QED
    BY <2>2, <2>3, <2>4, <2>5 DEF StreamInv
<1>3. ASSUME NEW p \in Dispatchers, Publish(p) PROVE StreamInv'
  <2> DEFINE new == added + 1
             full == entries \cup {new}
  <2>1. PICK cut \in SUBSET full :
          /\ cut = {} \/ Cardinality(full \ cut) >= MaxLen
          /\ \A i \in cut, j \in full \ cut : i < j
          /\ entries' = full \ cut
          /\ fate' = [i \in Jobs |-> IF i = new THEN "queued"
                                     ELSE IF i \in cut /\ fate[i] = "queued" THEN "trimmed"
                                     ELSE fate[i]]
    BY <1>3 DEF Publish
  <2>2. /\ disp[p].at = "publishing" /\ new \in Jobs /\ added' = new
        /\ UNCHANGED <<group, last, read, purge>>
        /\ disp' = [disp EXCEPT ![p] =
             IF disp[p].count = 1 THEN NoCheck
             ELSE Publishing(disp[p].count - 1)]
    BY <1>3, <1>u DEF Publish, groupVars, Jobs
  <2>3. fate[new] = "none" /\ new \notin entries /\ new > last
    BY <1>i, <1>t, <1>u, <2>2 DEF UnaddedHaveNoFate
  <2>4. new \notin cut
    <3>1. CASE cut = {}
      BY <3>1
    <3>2. CASE cut # {}
      <4>1. full \ cut # {}
        BY <2>1, <3>2, FS_EmptySet
      <4>2. \A j \in full \ cut : j <= new /\ j \in Nat
        BY <1>u
      <4> QED
        BY <1>u, <2>1, <4>1, <4>2
    <3> QED
      BY <3>1, <3>2
  <2>5. EntriesAreCurrent'
    BY <1>i, <1>t, <1>u, <2>1, <2>2, <2>3 DEF EntriesAreCurrent
  <2>6. UnaddedHaveNoFate'
    BY <1>i, <1>t, <1>u, <2>1, <2>2 DEF UnaddedHaveNoFate, Jobs
  <2>7. Delivered' = Delivered /\ DeliveredAreBehind' /\ ReadIsBounded'
    BY <1>i, <1>t, <2>1, <2>2, <2>3, NothingDelivered
  <2>8. disp[p].count > 0 /\ disp[p].count \in Nat
    BY <1>i, <1>t, <2>2 DEF ChecksAreBounded
  <2>9. ChecksAreBounded'
    BY <1>i, <1>t, <2>2, <2>7, <2>8 DEF ChecksAreBounded, NoCheck, Publishing
  <2>10. TypeOK'
    <3>1. fate' \in [Jobs -> Fate]
      BY <1>t, <2>1 DEF Fate
    <3>2. disp' \in [Dispatchers -> [at : {"idle", "len", "publishing"}, count : Nat,
                                     len : Nat, waiting : Nat, left : Nat]]
      <4>1. disp[p].count # 1 => disp[p].count - 1 \in Nat
        BY <2>8
      <4> QED
        BY <1>t, <1>n, <2>2, <4>1
    <3>3. /\ entries' \subseteq 1..added' /\ added' \in 0..MaxJobs
          /\ last' \in 0..added' /\ read' \in {Unknown} \cup 0..added'
      BY <1>t, <1>u, <2>1, <2>2 DEF Jobs
    <3> QED
      BY <1>t, <2>2, <3>1, <3>2, <3>3 DEF TypeOK
  <2> QED
    BY <2>5, <2>6, <2>7, <2>9, <2>10 DEF StreamInv
<1>4. CASE CreateGroup
  <2>1. UNCHANGED <<entries, added, last, read, fate, disp, purge>> /\ group' = TRUE
    BY <1>4 DEF CreateGroup
  <2>2. Delivered' = Delivered /\ DeliveredAreBehind' /\ ReadIsBounded'
    BY <1>i, <2>1, NothingDelivered
  <2> QED
    BY <1>i, <1>t, <2>1, <2>2
       DEF StreamInv, TypeOK, EntriesAreCurrent, UnaddedHaveNoFate, ChecksAreBounded
<1>5. CASE Deliver
  <2>1. PICK next \in Jobs :
          /\ next \in entries /\ next > last /\ \A i \in entries : i > last => next <= i
          /\ last' = next /\ read' \in EntriesRead(next) /\ fate' = [fate EXCEPT ![next] = "held"]
          /\ UNCHANGED <<entries, added, group, disp, purge>>
    <3>1. Undelivered \in SUBSET Nat /\ Undelivered # {}
      BY <1>5, <1>u DEF Deliver, Undelivered
    <3>2. Min(Undelivered) \in Undelivered /\ \A i \in Undelivered : Min(Undelivered) <= i
      BY <3>1, MinIsLeast
    <3>3. Min(Undelivered) \in entries /\ Min(Undelivered) > last
          /\ \A i \in entries : i > last => Min(Undelivered) <= i
      BY <3>2 DEF Undelivered
    <3> QED
      BY <1>5, <1>u, <3>3 DEF Deliver
  <2>2. fate[next] = "queued"
    BY <1>i, <2>1 DEF EntriesAreCurrent
  <2>3. EntriesAreCurrent'
    BY <1>i, <1>t, <1>u, <2>1 DEF EntriesAreCurrent
  <2>4. UnaddedHaveNoFate'
    BY <1>i, <1>t, <1>u, <2>1 DEF UnaddedHaveNoFate, Jobs
  <2>5. /\ Delivered' = Delivered \cup {next} /\ next \notin Delivered
        /\ Cardinality(Delivered) \in Nat
        /\ Cardinality(Delivered') = Cardinality(Delivered) + 1
    <3>1. Delivered' = Delivered \cup {next} /\ next \notin Delivered
      BY <1>t, <2>1, <2>2 DEF Delivered
    <3>2. IsFiniteSet(Delivered) /\ Cardinality(Delivered) \in Nat
      BY JobsAreFinite DEF Delivered
    <3> QED
      BY <3>1, <3>2, FS_AddElement
  <2>6. next \in Nat /\ next <= added
    BY <1>u, <2>1
  <2>7. DeliveredAreBehind'
    <3>1. 1..last \subseteq 1..next /\ next \in 1..next
      BY <1>u, <2>1, <2>6
    <3> QED
      BY <1>i, <2>1, <2>5, <3>1 DEF DeliveredAreBehind
  <2>8. read' = Unknown \/ read' = next \/ (read # Unknown /\ read' = read + 1)
    BY <2>1 DEF EntriesRead
  <2>9. ReadIsBounded'
    <3>1. Cardinality(Delivered') <= next
      <4>1. IsFiniteSet(1..next) /\ Cardinality(1..next) = next
        BY <2>6, FS_Interval
      <4>2. Delivered' \subseteq 1..next
        BY <2>1, <2>7 DEF DeliveredAreBehind
      <4> QED
        BY <4>1, <4>2, FS_Subset
    <3> QED
      BY <1>i, <1>u, <2>1, <2>5, <2>6, <2>8, <3>1 DEF ReadIsBounded
  <2>10. read' \in {Unknown} \cup 0..added
    BY <1>i, <1>u, <2>1, <2>5, <2>6, <2>8 DEF ReadIsBounded
  <2>11. TypeOK'
    BY <1>t, <1>u, <2>1, <2>6, <2>10 DEF TypeOK, Fate
  <2>12. ChecksAreBounded'
    BY <1>i, <1>t, <2>1, <2>5 DEF ChecksAreBounded
  <2> QED
    BY <2>3, <2>4, <2>7, <2>9, <2>11, <2>12 DEF StreamInv
<1>6. ASSUME NEW i \in Jobs, Ack(i) \/ WorkerDies(i) PROVE StreamInv'
  <2>1. /\ fate[i] = "held" /\ UNCHANGED <<added, group, last, read, disp, purge>>
        /\ \/ fate' = [fate EXCEPT ![i] = "acked"] /\ entries' = entries \ {i}
           \/ fate' = [fate EXCEPT ![i] = "stranded"] /\ entries' = entries
    BY <1>6 DEF Ack, WorkerDies, groupVars
  <2>2. TypeOK'
    BY <1>t, <2>1 DEF TypeOK, Fate
  <2>3. EntriesAreCurrent' /\ UnaddedHaveNoFate'
    BY <1>i, <1>t, <1>u, <2>1 DEF EntriesAreCurrent, UnaddedHaveNoFate
  <2>4. Delivered' = Delivered /\ DeliveredAreBehind' /\ ReadIsBounded'
    BY <1>i, <1>t, <2>1, NothingDelivered
  <2> QED
    BY <1>i, <2>1, <2>2, <2>3, <2>4 DEF StreamInv, ChecksAreBounded
<1>7. CASE PurgeScan
  <2>1. /\ UNCHANGED <<entries, added, group, last, read, fate, disp>>
        /\ purge' = [at |-> "scanned", ids |-> Undelivered]
    BY <1>7 DEF PurgeScan, groupVars
  <2>2. Undelivered \in SUBSET Jobs
    BY <1>u DEF Undelivered
  <2>3. TypeOK'
    BY <1>t, <2>1, <2>2 DEF TypeOK
  <2>4. Delivered' = Delivered /\ DeliveredAreBehind' /\ ReadIsBounded'
    BY <1>i, <2>1, NothingDelivered
  <2> QED
    BY <1>i, <2>1, <2>3, <2>4
       DEF StreamInv, EntriesAreCurrent, UnaddedHaveNoFate, ChecksAreBounded
<1>8. CASE PurgeDelete
  <2>1. /\ entries' = entries \ purge.ids /\ purge' = NoPurge
        /\ fate' = [i \in Jobs |-> IF i \in purge.ids /\ fate[i] = "queued"
                                     THEN "purged" ELSE fate[i]]
        /\ UNCHANGED <<added, group, last, read, disp>>
    BY <1>8 DEF PurgeDelete, groupVars
  <2>2. TypeOK'
    BY <1>t, <2>1 DEF TypeOK, Fate, NoPurge
  <2>3. EntriesAreCurrent' /\ UnaddedHaveNoFate'
    BY <1>i, <1>t, <1>u, <2>1 DEF EntriesAreCurrent, UnaddedHaveNoFate
  <2>4. Delivered' = Delivered /\ DeliveredAreBehind' /\ ReadIsBounded'
    BY <1>i, <1>t, <2>1, NothingDelivered
  <2> QED
    BY <1>i, <2>1, <2>2, <2>3, <2>4 DEF StreamInv, ChecksAreBounded
<1>9. CASE UNCHANGED vars
  <2>1. UNCHANGED <<entries, added, group, last, read, fate, disp, purge>>
    BY <1>9 DEF vars, groupVars
  <2>2. Delivered' = Delivered /\ DeliveredAreBehind' /\ ReadIsBounded'
    BY <1>i, <2>1, NothingDelivered
  <2> QED
    BY <1>i, <1>t, <2>1, <2>2
       DEF StreamInv, TypeOK, EntriesAreCurrent, UnaddedHaveNoFate, ChecksAreBounded
<1> QED
  BY <1>1, <1>2, <1>3, <1>4, <1>5, <1>6, <1>7, <1>8, <1>9 DEF Next

(* Every variable has its type; the group is never delivered more entries  *)
(* than were added.                                                        *)
THEOREM StreamTypeCorrectness == Spec => []TypeOK
<1>1. StreamInv => TypeOK
  BY DEF StreamInv
<1> QED
  BY <1>1, InitStreamInv, StepStreamInv, PTL DEF Spec

(* By how much the fill that job_stream_pressure computes is off, whatever *)
(* is trimmed, purged or lost, and whether Redis knows entries-read or not.*)
THEOREM DriftIsKnown == Spec => []DriftIsBounded
BY InitStreamInv, StepStreamInv, InvImpliesDrift, PTL DEF Spec

(* A batch is refused only if the jobs really waiting when its dispatcher  *)
(* looked, and its own, exceeded the high-water mark: a known entries-read *)
(* and the reads between the two commands of the check only ever err       *)
(* towards admission.  Without it, what is in hand counts as waiting.      *)
THEOREM RefusalsHaveCause == Spec => RefusalsAreJustified
<1>1. StreamInv =>
        \A p \in Dispatchers :
          disp[p].at = "len" /\ Pressure(p) + disp[p].count > HighWater
            => disp[p].waiting + (IF read = Unknown THEN disp[p].left ELSE 0)
                 + disp[p].count > HighWater
  <2> SUFFICES ASSUME StreamInv, NEW p \in Dispatchers, disp[p].at = "len",
                      Pressure(p) + disp[p].count > HighWater
               PROVE  disp[p].waiting + (IF read = Unknown THEN disp[p].left ELSE 0)
                        + disp[p].count > HighWater
    OBVIOUS
  <2>1. /\ disp[p].len \in Nat /\ disp[p].waiting \in Nat /\ disp[p].left \in Nat
        /\ disp[p].count \in Nat /\ read \in Int /\ HighWater \in Int
        /\ Cardinality(Delivered) \in Nat
    BY StreamAssumption, JobsAreFinite DEF StreamInv, TypeOK, Unknown, Delivered
  <2>2. /\ disp[p].len = disp[p].waiting + disp[p].left
        /\ disp[p].left <= Cardinality(Delivered)
    BY DEF StreamInv, ChecksAreBounded
  <2>3. read # Unknown => Cardinality(Delivered) <= read
    BY DEF StreamInv, ReadIsBounded
  <2>4. /\ Pressure(p) \in Nat
        /\ Pressure(p) <= disp[p].waiting + (IF read = Unknown THEN disp[p].left ELSE 0)
    BY <2>1, <2>2, <2>3 DEF Pressure
  <2> QED
    BY <2>1, <2>4
<1> QED
  BY <1>1, InitStreamInv, StepStreamInv, PTL DEF Spec, RefusalsAreJustified
=============================================================================
