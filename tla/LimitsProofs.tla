----------------------------- MODULE LimitsProofs -----------------------------
(***************************************************************************)
(* What the limiter guarantees for every set of calls, clients and keys,   *)
(* every bucket, and every sequence of calls, sweeps and waits.            *)
(***************************************************************************)
EXTENDS Limits, TLAPS

-----------------------------------------------------------------------------
(* The inductive invariant. *)

Bucket  == [level : -1..Full, age : 0..(Idle + 1)]
Failure == [n : Nat, left : Nat, age : 0..(Idle + 1)]
Call    == [step : {"none", "spend", "guard", "judge"}, pair : Pairs \union {<<None, None>>}]

\* Requests under way came with one of the pairs.
CallsType ==
  /\ swept \in 0..(Idle + 1) /\ call \in [Calls -> Call]
  /\ \A c \in Calls : call[c].step # "none" => call[c].pair \in Pairs

\* Only NoBucket holds less than nothing.
BucketsType ==
  /\ buckets \in [Clients -> Bucket] /\ ideal \in [Clients -> Int]
  /\ \A c \in Clients : buckets[c].level < 0 => buckets[c] = NoBucket

KeysType == failures \in [Keys -> Failure] /\ owed \in [Keys -> Int]

\* What Allow would find in the bucket of c if it were called now.
Available(c) == IF buckets[c] = NoBucket THEN Full ELSE Min({Full, buckets[c].level + buckets[c].age})

\* The bucket of the code never holds more than the one refilled at every tick.
BucketsHold == \A c \in Clients : Available(c) <= ideal[c]

RateInv    == CallsType /\ BucketsType /\ BucketsHold
PenaltyInv == CallsType /\ KeysType /\ PenaltyHolds

-----------------------------------------------------------------------------
(* Arithmetic. *)

\* The smaller and the larger of two numbers.
LEMMA MinOfTwo == \A a, b \in Int : Min({a, b}) = IF a <= b THEN a ELSE b
<1> SUFFICES ASSUME NEW a \in Int, NEW b \in Int PROVE Min({a, b}) = IF a <= b THEN a ELSE b
  OBVIOUS
<1> DEFINE m == IF a <= b THEN a ELSE b
<1>1. m \in {a, b} /\ \A y \in {a, b} : m <= y
  OBVIOUS
<1>2. \A x \in {a, b} : (\A y \in {a, b} : x <= y) => x = m
  OBVIOUS
<1> HIDE DEF m
<1>3. Min({a, b}) = m
  BY <1>1, <1>2 DEF Min
<1> QED BY <1>3 DEF m

\* The larger of two numbers.
LEMMA MaxOfTwo == \A a, b \in Int : Max({a, b}) = IF a >= b THEN a ELSE b
<1> SUFFICES ASSUME NEW a \in Int, NEW b \in Int PROVE Max({a, b}) = IF a >= b THEN a ELSE b
  OBVIOUS
<1> DEFINE m == IF a >= b THEN a ELSE b
<1>1. m \in {a, b} /\ \A y \in {a, b} : m >= y
  OBVIOUS
<1>2. \A x \in {a, b} : (\A y \in {a, b} : x >= y) => x = m
  OBVIOUS
<1> HIDE DEF m
<1>3. Max({a, b}) = m
  BY <1>1, <1>2 DEF Max
<1> QED BY <1>3 DEF m

\* The settings are numbers, and a full bucket is regained before it is idle.
LEMMA Settings ==
  /\ Full \in Nat /\ Idle \in Nat /\ Full <= Idle /\ BucketRefill \in Nat
  /\ FailuresBeforeLockout \in Nat \ {0} /\ \A d \in Jumps : d \in Nat
<1>1. \A a, b \in Nat : a * b \in Nat
  OBVIOUS
<1>2. Full \in Nat
  BY <1>1, SettingsAssumption DEF SettingsAssumption, Full
<1>3. Full <= Idle
  BY IdleAssumption DEF IdleAssumption, Full
<1> QED BY <1>2, <1>3, SettingsAssumption DEF SettingsAssumption

\* An age stays an age.
LEMMA Ages ==
  ASSUME NEW age \in 0..(Idle + 1), NEW d \in Nat
  PROVE  /\ Older(age, d) \in 0..(Idle + 1) /\ Older(age, d) <= age + d
         /\ Older(age, d) = IF age + d <= Idle + 1 THEN age + d ELSE Idle + 1
BY Settings, MinOfTwo DEF Older

-----------------------------------------------------------------------------
(* The maps. *)

\* A sweep drops a bucket only when it is full again.
LEMMA SweptBuckets ==
  ASSUME BucketsType
  PROVE  /\ KeptBuckets \in [Clients -> Bucket]
         /\ \A c \in Clients :
              /\ KeptBuckets[c].level < 0 => KeptBuckets[c] = NoBucket
              /\ Refilled(c) = Available(c) /\ Available(c) \in 0..Full
              /\ KeptBuckets[c] = buckets[c] \/ (KeptBuckets[c] = NoBucket /\ Available(c) = Full)
<1> USE Settings
<1>1. NoBucket \in Bucket /\ NoBucket.level = -1
  BY DEF NoBucket, Bucket
<1>2. ASSUME NEW c \in Clients
      PROVE  /\ buckets[c] \in Bucket /\ buckets[c].level \in -1..Full
             /\ buckets[c].age \in 0..(Idle + 1)
             /\ buckets[c] # NoBucket => buckets[c].level >= 0
             /\ KeptBuckets[c] = IF Sweeping /\ buckets[c].age > Idle THEN NoBucket ELSE buckets[c]
  <2>1. buckets[c] \in Bucket
    BY DEF BucketsType
  <2>2. buckets[c].level \in -1..Full /\ buckets[c].age \in 0..(Idle + 1)
    BY <2>1 DEF Bucket
  <2>3. buckets[c] # NoBucket => buckets[c].level >= 0
    BY <2>2 DEF BucketsType
  <2> QED BY <2>1, <2>2, <2>3 DEF KeptBuckets
<1>3. KeptBuckets \in [Clients -> Bucket]
  <2>1. \A c \in Clients : KeptBuckets[c] \in Bucket
    BY <1>1, <1>2
  <2>2. KeptBuckets = [c \in Clients |-> KeptBuckets[c]]
    BY DEF KeptBuckets
  <2> QED BY <2>1, <2>2
<1>4. ASSUME NEW c \in Clients
      PROVE  /\ KeptBuckets[c].level < 0 => KeptBuckets[c] = NoBucket
             /\ Refilled(c) = Available(c) /\ Available(c) \in 0..Full
             /\ KeptBuckets[c] = buckets[c] \/ (KeptBuckets[c] = NoBucket /\ Available(c) = Full)
  <2>1. KeptBuckets[c].level < 0 => KeptBuckets[c] = NoBucket
    BY <1>2
  <2>2. CASE buckets[c] = NoBucket
    <3>1. KeptBuckets[c] = NoBucket /\ Available(c) = Full
      BY <1>2, <2>2 DEF Available
    <3> QED BY <2>1, <2>2, <3>1 DEF Refilled
  <2>3. CASE buckets[c] # NoBucket
    <3> DEFINE sum == buckets[c].level + buckets[c].age
    <3>1. sum \in Nat /\ Available(c) = IF Full <= sum THEN Full ELSE sum
      BY <1>2, <2>3, MinOfTwo DEF Available
    <3>2. CASE KeptBuckets[c] = NoBucket
      <4>1. buckets[c].age > Idle
        BY <1>2, <2>3, <3>2
      <4>2. Available(c) = Full
        BY <1>2, <2>3, <3>1, <4>1
      <4> QED BY <2>1, <3>2, <4>2 DEF Refilled
    <3>3. CASE KeptBuckets[c] # NoBucket
      <4>1. KeptBuckets[c] = buckets[c]
        BY <1>2, <3>3
      <4>2. Refilled(c) = Available(c)
        BY <2>3, <4>1 DEF Refilled, Available
      <4> QED BY <2>1, <3>1, <4>1, <4>2
    <3> QED BY <3>2, <3>3
  <2> QED BY <2>2, <2>3
<1> QED BY <1>3, <1>4

\* A sweep drops a key's failures only when no penalty is left.
LEMMA SweptFailures ==
  ASSUME KeysType
  PROVE  /\ KeptFailures \in [Keys -> Failure]
         /\ \A k \in Keys : KeptFailures[k].left = failures[k].left
<1>1. NoFailures \in Failure /\ NoFailures.left = 0
  BY Settings DEF NoFailures, Failure
<1>2. ASSUME NEW k \in Keys
      PROVE  KeptFailures[k] \in Failure /\ KeptFailures[k].left = failures[k].left
  <2>1. failures[k] \in Failure
    BY DEF KeysType
  <2>2. KeptFailures[k] = failures[k] \/ (KeptFailures[k] = NoFailures /\ failures[k].left = 0)
    BY DEF KeptFailures
  <2> QED BY <1>1, <2>1, <2>2
<1>3. KeptFailures = [k \in Keys |-> KeptFailures[k]]
  BY DEF KeptFailures
<1> QED BY <1>2, <1>3

\* The age of the last sweep stays an age.
LEMMA SweptAge == ASSUME CallsType, Sweep PROVE swept' \in 0..(Idle + 1)
BY Settings DEF CallsType, Sweep

\* A request under way has a client and a key of the pairs, or none.
LEMMA PairInHand ==
  ASSUME CallsType, NEW c \in Calls, call[c].step # "none"
  PROVE  /\ Client(c) # None => Client(c) \in Clients
         /\ Key(c) # None => Key(c) \in Keys
<1>1. call[c].pair \in Pairs
  BY DEF CallsType
<1> QED BY <1>1 DEF Client, Key, Clients, Keys

-----------------------------------------------------------------------------
(* Steps of the maps. *)

\* Allow keeps the bucket within the one refilled at every tick.
LEMMA StepAllows ==
  ASSUME RateInv, NEW a \in Clients, Allow(a)
  PROVE  BucketsType' /\ BucketsHold'
<1> USE Settings DEF RateInv
<1> DEFINE left == IF Allowed(a) THEN Refilled(a) - BucketRefill ELSE Refilled(a)
           new  == [level |-> left, age |-> 0]
<1>2. Refilled(a) \in 0..Full /\ Refilled(a) = Available(a) /\ Available(a) <= ideal[a]
  BY SweptBuckets DEF BucketsHold
<1>3. left \in 0..Full
  BY <1>2 DEF Allowed
<1>4. new \in Bucket /\ new # NoBucket /\ new.level = left /\ new.age = 0
  <2>1. NoBucket.level = -1 /\ new.level = left
    BY DEF NoBucket
  <2>2. 0 \in 0..(Idle + 1) /\ left \in -1..Full
    BY <1>3
  <2> QED BY <1>3, <2>1, <2>2 DEF Bucket
<1>5. buckets' = [KeptBuckets EXCEPT ![a] = new]
  BY DEF Allow
<1>6. /\ ideal' \in [Clients -> Int] /\ ideal'[a] >= left
      /\ \A c \in Clients \ {a} : ideal'[c] = ideal[c]
  <2>1. ideal \in [Clients -> Int]
    BY DEF BucketsType
  <2>2. ideal' = IF Allowed(a) THEN [ideal EXCEPT ![a] = @ - BucketRefill] ELSE ideal
    BY DEF Allow
  <2> QED BY <1>2, <2>1, <2>2
<1> HIDE DEF new
<1>7. /\ buckets' \in [Clients -> Bucket] /\ buckets'[a] = new
      /\ \A c \in Clients \ {a} : buckets'[c] = KeptBuckets[c]
  BY <1>4, <1>5, SweptBuckets
<1>8. \A c \in Clients : buckets'[c].level < 0 => buckets'[c] = NoBucket
  BY <1>3, <1>4, <1>7, SweptBuckets
<1>9. BucketsHold'
  <2> SUFFICES ASSUME NEW c \in Clients PROVE Available(c)' <= ideal'[c]
    BY DEF BucketsHold
  <2>1. CASE c = a
    <3>1. Available(a)' = Min({Full, left + 0})
      BY <1>4, <1>7 DEF Available
    <3>2. Available(a)' = left
      BY <1>3, <3>1, MinOfTwo
    <3> QED BY <1>6, <2>1, <3>2
  <2>2. CASE c # a
    <3>1. Available(c)' = Available(c)
      BY <1>7, <2>2, SweptBuckets DEF Available
    <3> QED BY <1>6, <2>2, <3>1 DEF BucketsHold
  <2> QED BY <2>1, <2>2
<1> QED BY <1>6, <1>7, <1>8, <1>9 DEF BucketsType

\* A sweep alone keeps the buckets within theirs.
LEMMA StepSweeps ==
  ASSUME RateInv, buckets' = KeptBuckets, ideal' = ideal
  PROVE  BucketsType' /\ BucketsHold'
<1> USE DEF RateInv
<1>1. \A c \in Clients : Available(c)' = Available(c)
  BY SweptBuckets DEF Available
<1>2. BucketsHold'
  BY <1>1 DEF BucketsHold
<1> QED BY <1>2, SweptBuckets DEF BucketsType

\* A failure counts, and locks the key out for at least the doubling on paper.
LEMMA StepFails ==
  ASSUME KeysType, DelaysSuffice, NEW k \in Keys, Failed(k)
  PROVE  KeysType' /\ (PenaltyHolds => PenaltyHolds')
<1> USE Settings
<1>1. KeptFailures \in [Keys -> Failure] /\ KeptFailures[k].left = failures[k].left
      /\ owed \in [Keys -> Int]
  BY SweptFailures DEF KeysType
<1>2. PICK n : n = KeptFailures[k].n + 1
  OBVIOUS
<1>3. n \in Nat \ {0} /\ n <= MaxFailures
  <2>1. KeptFailures[k].n \in Nat
    BY <1>1 DEF Failure
  <2> QED BY <1>2, <2>1 DEF Failed
<1> DEFINE more == n - FailuresBeforeLockout
           left == IF n < FailuresBeforeLockout THEN KeptFailures[k].left ELSE Delay(more)
           new  == [n |-> n, age |-> 0, left |-> left]
           due  == IF n < FailuresBeforeLockout THEN owed[k] ELSE Penalty(more)
<1>4. left \in Nat /\ due \in Int /\ (owed[k] <= failures[k].left => due <= left)
  <2>1. CASE n < FailuresBeforeLockout
    <3>1. KeptFailures[k].left \in Nat
      BY <1>1 DEF Failure
    <3> QED BY <1>1, <2>1, <3>1
  <2>2. CASE ~(n < FailuresBeforeLockout)
    <3>1. more \in 0..(MaxFailures - FailuresBeforeLockout)
      BY <1>3, <2>2, SettingsAssumption DEF SettingsAssumption
    <3>2. Delay(more) \in Nat /\ Penalty(more) \in Nat /\ Penalty(more) <= Delay(more)
      BY <3>1 DEF DelaysSuffice
    <3> QED BY <2>2, <3>2
  <2> QED BY <2>1, <2>2
<1>5. failures' = [KeptFailures EXCEPT ![k] = new] /\ owed' = [owed EXCEPT ![k] = due]
  <2>1. failures' = [KeptFailures EXCEPT ![k] = new]
    BY <1>2 DEF Failed
  <2>2. CASE n < FailuresBeforeLockout
    <3>1. owed' = owed
      BY <1>2, <2>2 DEF Failed
    <3> QED BY <1>1, <2>1, <2>2, <3>1
  <2>3. CASE ~(n < FailuresBeforeLockout)
    <3>1. owed' = [owed EXCEPT ![k] = Penalty(more)]
      BY <1>2, <2>3 DEF Failed, Penalty
    <3> QED BY <2>1, <2>3, <3>1
  <2> QED BY <2>2, <2>3
<1>6. new \in Failure /\ new.left = left
  BY <1>3, <1>4 DEF Failure
<1> HIDE DEF new, due, left
<1>7. /\ failures' \in [Keys -> Failure] /\ owed' \in [Keys -> Int]
      /\ failures'[k].left = left /\ owed'[k] = due
      /\ \A j \in Keys \ {k} : failures'[j].left = failures[j].left /\ owed'[j] = owed[j]
  BY <1>1, <1>4, <1>5, <1>6, SweptFailures
<1>8. PenaltyHolds => PenaltyHolds'
  <2> SUFFICES ASSUME PenaltyHolds, NEW j \in Keys PROVE failures'[j].left >= owed'[j]
    BY DEF PenaltyHolds
  <2>1. failures[j].left >= owed[j] /\ failures[k].left >= owed[k]
    BY DEF PenaltyHolds
  <2>2. failures[k].left \in Nat /\ owed[k] \in Int
    BY <1>1 DEF KeysType, Failure
  <2> QED BY <1>4, <1>7, <2>1, <2>2
<1> QED BY <1>7, <1>8 DEF KeysType

\* A success forgets the failures, and what they would have cost.
LEMMA StepSucceeds ==
  ASSUME KeysType, NEW k \in Keys, Succeeded(k)
  PROVE  KeysType' /\ (PenaltyHolds => PenaltyHolds')
<1>1. NoFailures \in Failure /\ NoFailures.left = 0
  BY Settings DEF NoFailures, Failure
<1>2. /\ failures' = [failures EXCEPT ![k] = NoFailures] /\ owed' = [owed EXCEPT ![k] = 0]
      /\ failures \in [Keys -> Failure] /\ owed \in [Keys -> Int]
  BY DEF Succeeded, KeysType
<1> HIDE DEF NoFailures
<1> QED BY <1>1, <1>2 DEF PenaltyHolds, KeysType

\* Time refills both buckets alike.
LEMMA BucketsElapse ==
  ASSUME BucketsType, NEW d \in Jumps, Elapse(d)
  PROVE  BucketsType' /\ (BucketsHold => BucketsHold')
<1> USE Settings
<1>1. d \in Nat
  OBVIOUS
<1>2. ASSUME NEW c \in Clients
      PROVE  /\ buckets'[c] \in Bucket /\ (buckets'[c].level < 0 => buckets'[c] = NoBucket)
             /\ Available(c)' <= Min({Full, Available(c) + d}) /\ Available(c) \in Int
             /\ Available(c)' \in Int
  <2>1. buckets[c] \in Bucket /\ (buckets[c].level < 0 => buckets[c] = NoBucket)
        /\ Available(c) \in 0..Full
    BY SweptBuckets DEF BucketsType
  <2>2. CASE buckets[c] = NoBucket
    <3>1. buckets'[c] = NoBucket
      BY <2>2 DEF Elapse
    <3>2. Available(c) = Full /\ Available(c)' = Full
      BY <2>2, <3>1 DEF Available
    <3>3. Full \in Int /\ Full + d \in Int /\ Full <= Full + d
      BY <1>1
    <3>4. Min({Full, Full + d}) = Full
      BY <3>3, MinOfTwo
    <3>5. Available(c)' <= Min({Full, Available(c) + d})
      BY <3>2, <3>3, <3>4
    <3> QED BY <2>1, <2>2, <3>1, <3>2, <3>3, <3>5
  <2>3. CASE buckets[c] # NoBucket
    <3> DEFINE level == buckets[c].level
               age   == Older(buckets[c].age, d)
    <3>1. /\ level \in 0..Full /\ buckets[c].age \in 0..(Idle + 1)
      BY <2>1, <2>3 DEF Bucket
    <3>2. age \in 0..(Idle + 1) /\ age <= buckets[c].age + d
      <4>1. PICK a \in 0..(Idle + 1) : a = buckets[c].age
        BY <3>1
      <4>2. Older(a, d) \in 0..(Idle + 1) /\ Older(a, d) <= a + d
        BY <1>1, Ages
      <4> QED BY <4>1, <4>2
    <3>3. buckets'[c] = [buckets[c] EXCEPT !.age = age]
      BY <2>3 DEF Elapse
    <3> HIDE DEF age
    <3>4. buckets'[c] \in Bucket /\ buckets'[c].level = level /\ buckets'[c].age = age
      BY <2>1, <3>2, <3>3 DEF Bucket
    <3>5. buckets'[c] # NoBucket
      <4>1. NoBucket.level = -1
        BY DEF NoBucket
      <4> QED BY <3>1, <3>4, <4>1
    <3>6. /\ Available(c) = Min({Full, level + buckets[c].age})
          /\ Available(c)' = Min({Full, level + age})
      BY <2>3, <3>4, <3>5 DEF Available
    <3>7. Available(c)' <= Min({Full, Available(c) + d}) /\ Available(c)' \in Int
      <4> HIDE DEF level
      <4> QED BY <1>1, <3>1, <3>2, <3>6, MinOfTwo
    <3> QED BY <2>1, <3>1, <3>4, <3>7
  <2> QED BY <2>2, <2>3
<1>3. BucketsType'
  <2>1. buckets' \in [Clients -> Bucket]
    <3>1. buckets' = [c \in Clients |-> buckets'[c]]
      BY DEF Elapse
    <3> QED BY <1>2, <3>1
  <2>2. ideal' \in [Clients -> Int]
    <3>1. \A c \in Clients : Min({Full, ideal[c] + d}) \in Int
      BY <1>1, MinOfTwo DEF BucketsType
    <3> QED BY <3>1 DEF Elapse
  <2> QED BY <1>2, <2>1, <2>2 DEF BucketsType
<1>4. BucketsHold => BucketsHold'
  <2> SUFFICES ASSUME BucketsHold, NEW c \in Clients PROVE Available(c)' <= ideal'[c]
    BY DEF BucketsHold
  <2>1. Available(c) <= ideal[c] /\ ideal[c] \in Int /\ ideal'[c] = Min({Full, ideal[c] + d})
    BY DEF BucketsHold, BucketsType, Elapse
  <2>2. /\ Available(c)' <= Min({Full, Available(c) + d}) /\ Available(c) \in Int
        /\ Available(c)' \in Int
    BY <1>2
  <2>3. \A a, b \in Int : a <= b => Min({Full, a + d}) <= Min({Full, b + d})
    BY <1>1, MinOfTwo
  <2>4. Min({Full, Available(c) + d}) \in Int /\ Min({Full, ideal[c] + d}) \in Int
    BY <1>1, <2>1, <2>2, MinOfTwo
  <2> QED BY <2>1, <2>2, <2>3, <2>4
<1> QED BY <1>3, <1>4

\* Time runs down what is left and what is owed alike.
LEMMA KeysElapse ==
  ASSUME KeysType, NEW d \in Jumps, Elapse(d)
  PROVE  KeysType' /\ (PenaltyHolds => PenaltyHolds')
<1> USE Settings
<1>1. d \in Nat
  OBVIOUS
<1>2. ASSUME NEW k \in Keys
      PROVE  /\ failures'[k] \in Failure /\ owed'[k] \in Int
             /\ failures[k].left >= owed[k] => failures'[k].left >= owed'[k]
  <2>1. failures[k] \in Failure /\ owed[k] \in Int /\ failures[k].left \in Nat
        /\ failures[k].age \in 0..(Idle + 1)
    BY DEF KeysType, Failure
  <2>2. owed'[k] = IF owed[k] - d <= 0 THEN 0 ELSE owed[k] - d
    <3>1. owed'[k] = Max({0, owed[k] - d})
      BY DEF Elapse
    <3> QED BY <1>1, <2>1, <3>1, MaxOfTwo
  <2>3. CASE failures[k] = NoFailures
    <3>1. failures'[k] = NoFailures /\ NoFailures.left = 0
      BY <2>3 DEF Elapse, NoFailures
    <3> QED BY <1>1, <2>1, <2>2, <2>3, <3>1
  <2>4. CASE failures[k] # NoFailures
    <3> DEFINE age  == Older(failures[k].age, d)
               left == Max({0, failures[k].left - d})
    <3>1. age \in 0..(Idle + 1)
      BY <1>1, <2>1, Ages
    <3>2. left = IF 0 >= failures[k].left - d THEN 0 ELSE failures[k].left - d
      BY <1>1, <2>1, MaxOfTwo
    <3>3. left \in Nat
      BY <1>1, <2>1, <3>2
    <3>4. failures'[k] = [failures[k] EXCEPT !.age = age, !.left = left]
      BY <2>4 DEF Elapse
    <3> HIDE DEF age, left
    <3>5. failures'[k] \in Failure /\ failures'[k].left = left
      BY <2>1, <3>1, <3>3, <3>4 DEF Failure
    <3> QED BY <1>1, <2>1, <2>2, <3>2, <3>5
  <2> QED BY <2>3, <2>4
<1>3. KeysType'
  <2>1. failures' = [k \in Keys |-> failures'[k]] /\ owed' = [k \in Keys |-> owed'[k]]
    BY DEF Elapse
  <2> QED BY <1>2, <2>1 DEF KeysType
<1>4. PenaltyHolds => PenaltyHolds'
  BY <1>2 DEF PenaltyHolds
<1> QED BY <1>3, <1>4

-----------------------------------------------------------------------------
(* Every step. *)

\* A request moves on with the pair it came with, or is answered.
LEMMA CallsMove ==
  ASSUME CallsType, NEW c \in Calls, NEW step \in {"guard", "judge"},
         call[c].step # "none", Go(c, step) \/ Answer(c)
  PROVE  call' \in [Calls -> Call] /\ \A b \in Calls : call'[b].step # "none" => call'[b].pair \in Pairs
<1>1. call \in [Calls -> Call] /\ call[c] \in Call /\ call[c].pair \in Pairs
      /\ \A b \in Calls : call[b].step # "none" => call[b].pair \in Pairs
  BY DEF CallsType
<1>2. CASE Go(c, step)
  <2> DEFINE new == [call[c] EXCEPT !.step = step]
  <2>1. new \in Call /\ new.pair = call[c].pair
    BY <1>1 DEF Call
  <2>2. call' = [call EXCEPT ![c] = new]
    BY <1>2 DEF Go
  <2> HIDE DEF new
  <2> QED BY <1>1, <2>1, <2>2
<1>3. CASE Answer(c)
  <2>1. Done \in Call /\ Done.step = "none"
    BY DEF Done, Call
  <2>2. call' = [call EXCEPT ![c] = Done]
    BY <1>3 DEF Answer
  <2> HIDE DEF Done
  <2> QED BY <1>1, <2>1, <2>2
<1> QED BY <1>2, <1>3

\* A request comes with a pair, moves on or is answered; sweeps are dated.
LEMMA StepCalls ==
  ASSUME CallsType, [Next]_vars
  PROVE  CallsType'
<1>1. ASSUME NEW c \in Calls, Begin(c) PROVE CallsType'
  <2>1. PICK p \in Pairs : call' = [call EXCEPT ![c] = [step |-> "spend", pair |-> p]]
    BY <1>1 DEF Begin
  <2>2. [step |-> "spend", pair |-> p] \in Call
    BY DEF Call
  <2>3. swept' = swept
    BY <1>1 DEF Begin
  <2> QED BY <2>1, <2>2, <2>3 DEF CallsType
<1>2. ASSUME NEW c \in Calls, Spend(c) \/ Guard(c) \/ Judge(c) PROVE CallsType'
  <2>1. call[c].step # "none"
    BY <1>2 DEF Spend, Guard, Judge, At
  <2>2. PICK step \in {"guard", "judge"} : Go(c, step) \/ Answer(c)
    BY <1>2 DEF Spend, Guard, Judge
  <2>3. Sweep \/ swept' = swept
    BY <1>2 DEF Spend, Guard, Judge, Allow, Failed
  <2>4. swept' \in 0..(Idle + 1)
    BY <2>3, SweptAge DEF CallsType
  <2> QED BY <2>1, <2>2, <2>4, CallsMove DEF CallsType
<1>3. ASSUME NEW d \in Jumps, Elapse(d) PROVE CallsType'
  <2>1. d \in Nat /\ swept \in 0..(Idle + 1) /\ swept' = Older(swept, d) /\ call' = call
    BY <1>3, Settings DEF CallsType, Elapse
  <2> QED BY <2>1, Ages DEF CallsType
<1>4. CASE UNCHANGED vars
  BY <1>4 DEF vars, CallsType
<1> QED BY <1>1, <1>2, <1>3, <1>4 DEF Next

\* Steps that leave the buckets alone leave them within theirs.
LEMMA BucketsKept ==
  ASSUME BucketsType, BucketsHold, UNCHANGED <<buckets, ideal>>
  PROVE  BucketsType' /\ BucketsHold'
BY DEF BucketsType, BucketsHold, Available

\* No call, sweep or wait puts a bucket ahead of the one refilled at every tick.
LEMMA StepBuckets ==
  ASSUME RateInv, [Next]_vars
  PROVE  BucketsType' /\ BucketsHold'
<1> USE DEF RateInv
<1>1. ASSUME NEW c \in Calls, Begin(c) \/ Guard(c) PROVE BucketsType' /\ BucketsHold'
  <2>1. UNCHANGED <<buckets, ideal>>
    BY <1>1 DEF Begin, Guard
  <2> QED BY <2>1, BucketsKept
<1>2. ASSUME NEW c \in Calls, Spend(c) PROVE BucketsType' /\ BucketsHold'
  <2>1. CASE UNCHANGED <<buckets, ideal>>
    BY <2>1, BucketsKept
  <2>2. CASE Client(c) # None /\ Allow(Client(c))
    <3>1. call[c].step # "none"
      BY <1>2 DEF Spend, At
    <3>2. PICK a \in Clients : a = Client(c)
      BY <2>2, <3>1, PairInHand
    <3>3. Allow(a)
      BY <2>2, <3>2
    <3> QED BY <3>3, StepAllows
  <2> QED BY <1>2, <2>1, <2>2 DEF Spend
<1>3. ASSUME NEW c \in Calls, Judge(c) PROVE BucketsType' /\ BucketsHold'
  <2>1. ideal' = ideal /\ (buckets' = KeptBuckets \/ buckets' = buckets)
    BY <1>3 DEF Judge, Failed
  <2> QED BY <2>1, StepSweeps, BucketsKept
<1>4. ASSUME NEW d \in Jumps, Elapse(d) PROVE BucketsType' /\ BucketsHold'
  BY <1>4, BucketsElapse
<1>5. CASE UNCHANGED vars
  BY <1>5, BucketsKept DEF vars
<1> QED BY <1>1, <1>2, <1>3, <1>4, <1>5 DEF Next

\* No call, sweep or wait leaves a key less to wait than it owes.
LEMMA StepKeys ==
  ASSUME DelaysSuffice, PenaltyInv, [Next]_vars
  PROVE  KeysType' /\ PenaltyHolds'
<1> USE DEF PenaltyInv
<1>1. CASE UNCHANGED <<failures, owed>>
  BY <1>1 DEF KeysType, PenaltyHolds
<1>2. CASE failures' = KeptFailures /\ owed' = owed
  BY <1>2, SweptFailures DEF KeysType, PenaltyHolds
<1>3. ASSUME NEW c \in Calls, Judge(c) PROVE KeysType' /\ PenaltyHolds'
  <2>1. call[c].step # "none"
    BY <1>3 DEF Judge, At
  <2>2. CASE Key(c) # None /\ (Failed(Key(c)) \/ Succeeded(Key(c)))
    <3>1. PICK k \in Keys : k = Key(c)
      BY <2>1, <2>2, PairInHand
    <3>2. Failed(k) \/ Succeeded(k)
      BY <2>2, <3>1
    <3> QED BY <3>2, StepFails, StepSucceeds
  <2> QED BY <1>1, <1>3, <2>2 DEF Judge
<1>4. ASSUME NEW c \in Calls, Begin(c) \/ Guard(c) \/ Spend(c)
      PROVE  UNCHANGED <<failures, owed>> \/ (failures' = KeptFailures /\ owed' = owed)
  BY <1>4 DEF Begin, Guard, Spend, Allow
<1>5. ASSUME NEW d \in Jumps, Elapse(d) PROVE KeysType' /\ PenaltyHolds'
  BY <1>5, KeysElapse
<1>6. UNCHANGED vars => UNCHANGED <<failures, owed>>
  BY DEF vars
<1> QED BY <1>1, <1>2, <1>3, <1>4, <1>5, <1>6 DEF Next

\* A limiter that was never called.
LEMMA InitLimits == Init => RateInv /\ PenaltyInv
<1> SUFFICES ASSUME Init PROVE RateInv /\ PenaltyInv
  OBVIOUS
<1> USE Settings DEF Init
<1>1. NoBucket \in Bucket /\ NoFailures \in Failure /\ NoFailures.left = 0
      /\ Done \in Call /\ Done.step = "none"
  BY DEF NoBucket, Bucket, NoFailures, Failure, Done, Call
<1>2. /\ buckets = [c \in Clients |-> NoBucket] /\ failures = [k \in Keys |-> NoFailures]
      /\ call = [c \in Calls |-> Done] /\ ideal = [c \in Clients |-> Full]
      /\ owed = [k \in Keys |-> 0]
  OBVIOUS
<1> HIDE DEF NoBucket, NoFailures, Done
<1>3. CallsType /\ BucketsType /\ KeysType
  BY <1>1, <1>2 DEF CallsType, BucketsType, KeysType
<1>4. \A c \in Clients : Available(c) = Full
  BY <1>2 DEF Available
<1>5. BucketsHold /\ PenaltyHolds
  BY <1>1, <1>2, <1>4 DEF BucketsHold, PenaltyHolds
<1> QED BY <1>3, <1>5 DEF RateInv, PenaltyInv

-----------------------------------------------------------------------------
(* Theorems. *)

\* Allow lets no client through more often than a bucket refilled at every
\* tick would, whatever the capacity, the refill and the idle eviction, as
\* long as a bucket is full again before it is idle.
THEOREM RateIsKept == Spec => []RateHolds
<1>1. RateInv /\ [Next]_vars => RateInv'
  BY StepCalls, StepBuckets DEF RateInv
<1>2. RateInv => RateHolds
  <2> SUFFICES ASSUME RateInv, NEW c \in Clients PROVE ideal[c] >= 0
    BY DEF RateHolds
  <2>1. Available(c) \in 0..Full /\ Available(c) <= ideal[c] /\ ideal[c] \in Int
    BY SweptBuckets DEF RateInv, BucketsHold, BucketsType
  <2> QED BY <2>1, Settings
<1> QED BY <1>1, <1>2, InitLimits, PTL DEF Spec

\* However failures, successes, sweeps and waits interleave, a key is locked out
\* for as long as the doubling on paper asks, whenever each single delay is long
\* enough.
THEOREM PenaltyIsServed == DelaysSuffice => (Spec => []PenaltyHolds)
<1> SUFFICES ASSUME DelaysSuffice PROVE Spec => []PenaltyHolds
  OBVIOUS
<1>1. PenaltyInv /\ [Next]_vars => PenaltyInv'
  BY StepCalls, StepKeys DEF PenaltyInv
<1>2. PenaltyInv => PenaltyHolds
  BY DEF PenaltyInv
<1> QED BY <1>1, <1>2, InitLimits, PTL DEF Spec
=============================================================================
