------------------------------- MODULE Limits -------------------------------
(***************************************************************************)
(* The attempt limiter (src/internal/identity/limiter.go) and the requests  *)
(* that go through it: a token bucket per client address, and a doubling    *)
(* lockout per key, which is the e-mail address on the sign in surfaces and *)
(* the client address on the deploy path.                                   *)
(*                                                                         *)
(* Time passes in ticks of the first penalty (30 s); instants are kept      *)
(* relative to now, as the age of what was seen and what is left of a       *)
(* penalty; ages past Idle + 1 are one.  The delay alone is computed in    *)
(* the code's nanoseconds, divided by 2^10 so that its width is 54 bits.    *)
(***************************************************************************)
EXTENDS Integers, FiniteSets, FiniteSetsExt

CONSTANTS
  Calls, None,
  Pairs,               \* the address and the key a request may come with
  BucketCapacity, BucketRefill,         \* tokens, and the ticks one takes to come back
  FailuresBeforeLockout,
  LockoutBase, LockoutCeiling, Width,   \* in units of 2^10 ns; bits of a duration
  CeilingTicks, Idle,  \* the ceiling and idleEviction, in ticks
  Jumps,               \* how many ticks may pass at once
  MaxFailures          \* bound on a run of failures

Clients == {p[1] : p \in Pairs} \ {None}
Keys    == {p[2] : p \in Pairs} \ {None}

ASSUME SettingsAssumption ==
  /\ BucketCapacity \in Nat \ {0} /\ BucketRefill \in Nat \ {0}
  /\ Idle \in Nat /\ CeilingTicks \in Nat \ {0}
  /\ FailuresBeforeLockout \in Nat \ {0} /\ Jumps \subseteq Nat \ {0}
  /\ CeilingTicks * LockoutBase = LockoutCeiling
  /\ MaxFailures \in Nat
\* A bucket is full again before it is idle enough to be dropped, and a penalty over.
ASSUME IdleAssumption == BucketCapacity * BucketRefill <= Idle /\ CeilingTicks <= Idle

VARIABLES
  buckets, failures, swept,   \* the limiter: swept is the age of the last sweep
  call,                       \* requests under way
  ideal,                      \* what a bucket refilled at every tick would hold
  owed                        \* what the run of failures costs on paper

vars == <<buckets, failures, swept, call, ideal, owed>>

\* A bucket holds its tokens as the ticks they took to come back.
Full       == BucketCapacity * BucketRefill
NoBucket   == [level |-> -1, age |-> 0]
NoFailures == [n |-> 0, left |-> 0, age |-> 0]
Done       == [step |-> "none", pair |-> <<None, None>>]

Older(age, d) == Min({Idle + 1, age + d})

-----------------------------------------------------------------------------
(* The delay: LockoutBase << k in a word of Width bits, two's complement.   *)

\* What is left of LockoutBase above the k zero bits, before it is shifted.
Word(k) ==
  IF k >= Width THEN 0
  ELSE IF Width - k > 30 THEN LockoutBase
  ELSE LockoutBase % 2^(Width - k)
Negative(k) == k < Width /\ Width - k <= 31 /\ Word(k) >= 2^(Width - k - 1)
OverCeiling(k) == Word(k) > LockoutCeiling \div 2^Min({k, 30})

\* Bug: a product that wrapped is taken as it is.
Delay_Wraps(k) ==
  IF Word(k) = 0 \/ Negative(k) THEN 0
  ELSE IF OverCeiling(k) THEN CeilingTicks ELSE (Word(k) * 2^k) \div LockoutBase
Delay(k) ==
  IF OverCeiling(k) \/ Word(k) = 0 \/ Negative(k) THEN CeilingTicks
  ELSE (Word(k) * 2^k) \div LockoutBase

-----------------------------------------------------------------------------
(* The limiter's methods, each under its lock.                              *)

\* sweep, at most once an hour: what is left of both maps, and of its age.
Sweeping == swept >= Idle
KeptBuckets == [c \in Clients |->
  IF Sweeping /\ buckets[c].age > Idle THEN NoBucket ELSE buckets[c]]
KeptFailures == [k \in Keys |->
  IF Sweeping /\ failures[k].age > Idle /\ failures[k].left = 0 THEN NoFailures ELSE failures[k]]
Sweep == swept' = IF Sweeping THEN 0 ELSE swept

\* Bug: a sweep drops every bucket.
Refilled_Dropped(c) ==
  IF Sweeping \/ buckets[c] = NoBucket THEN Full
  ELSE Min({Full, buckets[c].level + buckets[c].age})
Refilled(c) ==
  IF KeptBuckets[c] = NoBucket THEN Full
  ELSE Min({Full, KeptBuckets[c].level + KeptBuckets[c].age})

Allowed(c) == Refilled(c) >= BucketRefill
Allow(c) ==
  /\ Sweep /\ failures' = KeptFailures
  /\ buckets' = [KeptBuckets EXCEPT
       ![c] = [level |-> IF Allowed(c) THEN Refilled(c) - BucketRefill ELSE Refilled(c), age |-> 0]]
  /\ ideal' = IF Allowed(c) THEN [ideal EXCEPT ![c] = @ - BucketRefill] ELSE ideal

LockedOut(k) == failures[k].left > 0

Failed(k) ==
  LET n == KeptFailures[k].n + 1
  IN /\ n <= MaxFailures
     /\ Sweep /\ buckets' = KeptBuckets
     /\ failures' = [KeptFailures EXCEPT ![k] =
          [n |-> n, age |-> 0,
           left |-> IF n < FailuresBeforeLockout THEN @.left ELSE Delay(n - FailuresBeforeLockout)]]
     /\ owed' = IF n < FailuresBeforeLockout THEN owed
                ELSE [owed EXCEPT ![k] = Min({CeilingTicks, 2^Min({20, n - FailuresBeforeLockout})})]

Succeeded(k) ==
  /\ failures' = [failures EXCEPT ![k] = NoFailures]
  /\ owed' = [owed EXCEPT ![k] = 0]

-----------------------------------------------------------------------------
(* A request: the surface spends from the bucket, then Authenticate or      *)
(* Login asks the lockout before any work and tells it how the work ended.  *)

At(c, step) == call[c].step = step
Client(c) == call[c].pair[1]
Key(c)    == call[c].pair[2]
Go(c, step) == call' = [call EXCEPT ![c].step = step]
Answer(c) == call' = [call EXCEPT ![c] = Done]

Begin(c) ==
  /\ At(c, "none")
  /\ \E p \in Pairs : call' = [call EXCEPT ![c] = [step |-> "spend", pair |-> p]]
  /\ UNCHANGED <<buckets, failures, swept, ideal, owed>>

\* A caller without an address has no bucket.
Spend(c) ==
  /\ At(c, "spend")
  /\ \/ Client(c) = None /\ Go(c, "guard") /\ UNCHANGED <<buckets, failures, swept, ideal>>
     \/ /\ Client(c) # None /\ Allow(Client(c))
        /\ IF Allowed(Client(c)) THEN Go(c, "guard") ELSE Answer(c)
  /\ UNCHANGED owed

Guard(c) ==
  /\ At(c, "guard")
  /\ IF Key(c) # None /\ LockedOut(Key(c)) THEN Answer(c) ELSE Go(c, "judge")
  /\ UNCHANGED <<buckets, failures, swept, ideal, owed>>

\* A fault, a suspended account and a caller without a key leave no trace.
Judge(c) ==
  /\ At(c, "judge") /\ Answer(c)
  /\ \/ Key(c) # None /\ Failed(Key(c)) /\ UNCHANGED ideal
     \/ Key(c) # None /\ Succeeded(Key(c)) /\ UNCHANGED <<buckets, swept, ideal>>
     \/ UNCHANGED <<buckets, failures, swept, ideal, owed>>

Elapse(d) ==
  /\ buckets' = [c \in Clients |-> IF buckets[c] = NoBucket THEN NoBucket
                                   ELSE [buckets[c] EXCEPT !.age = Older(@, d)]]
  /\ failures' = [k \in Keys |-> IF failures[k] = NoFailures THEN NoFailures
                                 ELSE [failures[k] EXCEPT !.age = Older(@, d), !.left = Max({0, @ - d})]]
  /\ swept' = Older(swept, d)
  /\ ideal' = [c \in Clients |-> Min({Full, ideal[c] + d})]
  /\ owed' = [k \in Keys |-> Max({0, owed[k] - d})]
  /\ UNCHANGED call

-----------------------------------------------------------------------------
\* The zero time is long ago: the first call sweeps.
Init ==
  /\ buckets = [c \in Clients |-> NoBucket] /\ failures = [k \in Keys |-> NoFailures]
  /\ swept = Idle + 1 /\ call = [c \in Calls |-> Done]
  /\ ideal = [c \in Clients |-> Full]
  /\ owed = [k \in Keys |-> 0]

Next ==
  \/ \E c \in Calls : Begin(c) \/ Spend(c) \/ Guard(c) \/ Judge(c)
  \/ \E d \in Jumps : Elapse(d)

Spec == Init /\ [][Next]_vars

-----------------------------------------------------------------------------
(* Properties.                                                             *)

\* A client is never let through more often than a bucket refilled at every
\* tick would: refilling on demand, refusing, and dropping idle buckets and
\* starting them full again give nothing away.
RateHolds == \A c \in Clients : ideal[c] >= 0

\* The penalty "doubles with each further failure, to their ceiling"
\* (src/internal/identity/limiter.go:164), however long the run: a shift past
\* the width of a duration, an interleaved attempt or a sweep never leaves a
\* key less to wait than the doubling on paper.
PenaltyHolds == \A k \in Keys : failures[k].left >= owed[k]

\* What it rests on: each delay Failed computes, shifted in a word of Width bits
\* and capped, is at least the doubling without a width.  A state after each
\* failure compares the two, so a run that reaches MaxFailures checks them all.
Penalty(k) == Min({CeilingTicks, 2^Min({20, k})})
DelaysSuffice == \A k \in 0..(MaxFailures - FailuresBeforeLockout) :
  Delay(k) \in Nat /\ Penalty(k) \in Nat /\ Penalty(k) <= Delay(k)
=============================================================================
