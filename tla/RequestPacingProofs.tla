------------------------ MODULE RequestPacingProofs ------------------------
(***************************************************************************)
(* The ceiling of RequestPacing for any max_calls, window, retry policy    *)
(* and length of the calls.  The queue of the limiter is not the permits   *)
(* of the window: it forgets when it is asked, and remembers one call more *)
(* than the ceiling after a sleep.  PacingInv relates the two: the queue   *)
(* is the end of the permits, and what it has forgotten is stale.          *)
(***************************************************************************)
EXTENDS RequestPacing, WellFoundedInduction, TLAPS

Ages == 0..(WindowS + 1)
Pcs == {"idle", "acquire", "permit", "call", "backoff"}

Typed ==
  /\ calls \in Seq(Ages)
  /\ permits \in Seq(Ages) /\ Len(permits) <= MaxCalls + 1
  /\ client \in [pc: Pcs, attempt: 0..MaxRetries, sleep: Int]
  /\ client.pc # "idle" => client.attempt >= 1

\* How many of the permits the queue has forgotten.
Forgotten == Len(permits) - Len(calls)

QueueRemembers ==
  /\ Forgotten >= 0
  /\ \A i \in 1..Len(calls) : calls[i] = permits[i + Forgotten]
  /\ \A i \in 1..Forgotten : permits[i] >= WindowS

\* The sleep is taken before it is slept, and lasts until the oldest call is stale.
SleepsOut ==
  client.pc = "permit" =>
    /\ client.sleep >= 0
    /\ Len(calls) <= MaxCalls
    /\ Len(calls) = MaxCalls => calls[1] + client.sleep >= WindowS

PacingInv == Typed /\ QueueRemembers /\ SleepsOut /\ WindowBound

-----------------------------------------------------------------------------
LEMMA LeastNat ==
  ASSUME NEW T \in SUBSET Nat, T # {}
  PROVE  \E m \in T : \A n \in T : m <= n
<1>1. IsWellFoundedOn(OpToRel(<, Nat), Nat)
  BY NatLessThanWellFounded
<1>2. PICK m \in T : \A n \in T : <<n, m>> \notin OpToRel(<, Nat)
  BY <1>1, WFMin
<1>3. \A n \in T : ~(n < m)
  BY <1>2 DEF OpToRel
<1>. QED  BY <1>3

\* Popping the stale calls from the front comes to an end: at the first that is not,
\* or with the queue empty.
LEMMA StaleIsFound ==
  ASSUME NEW q \in Seq(Ages)
  PROVE  /\ Stale(q) \in 0..Len(q)
         /\ \A i \in 1..Stale(q) : q[i] >= WindowS
         /\ Stale(q) < Len(q) => q[Stale(q) + 1] < WindowS
<1>. USE PacingConstants DEF Ages
<1>1. Len(q) \in Nat /\ \A i \in 1..Len(q) : q[i] \in Nat
  OBVIOUS
<1>. DEFINE fresh == {i \in Nat : i \in 1..Len(q) /\ q[i] < WindowS}
<1>2. \E k \in 0..Len(q) : /\ \A i \in 1..k : q[i] >= WindowS
                           /\ k < Len(q) => q[k + 1] < WindowS
  <2>1. CASE fresh = {}
    <3>1. \A i \in 1..Len(q) : q[i] >= WindowS
      BY <1>1, <2>1
    <3>. QED  BY <1>1, <3>1
  <2>2. CASE fresh # {}
    <3>1. PICK m \in fresh : \A j \in fresh : m <= j
      BY <2>2, LeastNat
    <3>2. \A i \in 1..(m - 1) : q[i] >= WindowS
      BY <1>1, <3>1
    <3>3. m - 1 \in 0..Len(q) /\ m - 1 + 1 = m /\ q[m] < WindowS
      BY <1>1, <3>1
    <3>. QED  BY <3>2, <3>3
  <2>. QED  BY <2>1, <2>2
<1>. QED  BY <1>2 DEF Stale

LEMMA EvictedIsTail ==
  ASSUME NEW q \in Seq(Ages)
  PROVE  /\ Evicted(q) \in Seq(Ages)
         /\ Len(Evicted(q)) = Len(q) - Stale(q)
         /\ \A i \in 1..Len(Evicted(q)) : Evicted(q)[i] = q[i + Stale(q)]
         /\ Len(Evicted(q)) > 0 => Evicted(q)[1] < WindowS
<1>1. Stale(q) \in 0..Len(q) /\ Len(q) \in Nat
  BY StaleIsFound
<1>2. /\ Evicted(q) \in Seq(Ages)
      /\ Len(Evicted(q)) = Len(q) - Stale(q)
      /\ \A i \in 1..Len(Evicted(q)) : Evicted(q)[i] = q[i + Stale(q)]
  BY <1>1 DEF Evicted
<1>. QED  BY <1>1, <1>2, StaleIsFound

LEMMA OlderIsOlder ==
  ASSUME NEW a \in Ages
  PROVE  Older(a) \in Ages /\ Older(a) >= a /\ (a < WindowS => Older(a) = a + 1)
BY PacingConstants DEF Older, Ages

LEMMA BackoffIsInt ==
  ASSUME NEW n \in 1..MaxRetries
  PROVE  Backoff(n) \in Int /\ Backoff(n) <= BackoffCap
<1>1. n - 1 \in Nat
  BY PacingConstants
<1>2. 2 ^ (n - 1) \in Int
  BY <1>1
<1>3. BackoffBase * 2 ^ (n - 1) \in Int
  BY <1>2, PacingConstants
<1>. QED  BY <1>3, PacingConstants DEF Backoff

-----------------------------------------------------------------------------
LEMMA TypedUnfolds ==
  ASSUME Typed
  PROVE  /\ Len(calls) \in Nat /\ DOMAIN calls = 1..Len(calls)
         /\ \A i \in 1..Len(calls) : calls[i] \in Ages
         /\ Len(permits) \in Nat /\ DOMAIN permits = 1..Len(permits)
         /\ \A i \in 1..Len(permits) : permits[i] \in Ages
         /\ client.sleep \in Int /\ client.attempt \in 0..MaxRetries /\ client.pc \in Pcs
BY DEF Typed

LEMMA TickPaces ==
  ASSUME PacingInv, Tick
  PROVE  PacingInv'
<1>. USE TypedUnfolds DEF PacingInv
<1>1. /\ calls' \in Seq(Ages) /\ Len(calls') = Len(calls)
      /\ \A i \in 1..Len(calls) : calls'[i] = Older(calls[i])
  BY OlderIsOlder DEF Tick
<1>2. /\ permits' \in Seq(Ages) /\ Len(permits') = Len(permits)
      /\ \A i \in 1..Len(permits) : permits'[i] = Older(permits[i])
  BY OlderIsOlder DEF Tick
<1>3. client' \in [pc: Pcs, attempt: 0..MaxRetries, sleep: Int]
      /\ client'.pc = client.pc /\ client'.attempt = client.attempt
      /\ client'.sleep = (IF client.sleep > 0 THEN client.sleep - 1 ELSE 0)
  <2>1. client \in [pc: Pcs, attempt: 0..MaxRetries, sleep: Int]
    BY DEF Typed
  <2>2. client' = [client EXCEPT !.sleep = IF @ > 0 THEN @ - 1 ELSE 0]
    BY DEF Tick
  <2>3. (IF client.sleep > 0 THEN client.sleep - 1 ELSE 0) \in Int
    BY <2>1
  <2>. QED  BY ONLY <2>1, <2>2, <2>3
<1>4. Typed'
  BY <1>1, <1>2, <1>3 DEF Typed
<1>5. Forgotten' = Forgotten /\ Forgotten \in Int
  BY <1>1, <1>2 DEF Forgotten
<1>6. QueueRemembers'
  <2>1. \A i \in 1..Len(calls) : i + Forgotten \in 1..Len(permits)
    BY DEF QueueRemembers, Forgotten
  <2>2. \A i \in 1..Len(calls) : calls'[i] = permits'[i + Forgotten]
    BY <1>1, <1>2, <2>1 DEF QueueRemembers
  <2>3. \A i \in 1..Forgotten : i \in 1..Len(permits)
    BY DEF Forgotten
  <2>4. \A i \in 1..Forgotten : permits'[i] >= WindowS
    <3>. TAKE i \in 1..Forgotten
    <3>1. permits[i] \in Ages /\ permits[i] >= WindowS /\ permits'[i] = Older(permits[i])
      BY <1>2, <2>3 DEF QueueRemembers
    <3>. QED  BY <3>1, OlderIsOlder, PacingConstants DEF Ages
  <2>. QED  BY <1>1, <1>5, <2>2, <2>4 DEF QueueRemembers
<1>7. SleepsOut'
  <2>. SUFFICES ASSUME client.pc = "permit"
                PROVE  /\ client'.sleep >= 0
                       /\ Len(calls) <= MaxCalls
                       /\ Len(calls) = MaxCalls => calls'[1] + client'.sleep >= WindowS
    BY <1>1, <1>3 DEF SleepsOut
  <2>1. Len(calls) = MaxCalls =>
          /\ calls[1] \in Ages /\ calls'[1] = Older(calls[1])
          /\ calls[1] + client.sleep >= WindowS
    BY <1>1, PacingConstants DEF SleepsOut
  <2>2. Len(calls) = MaxCalls => calls'[1] + client'.sleep >= WindowS
    BY <1>3, <2>1, OlderIsOlder, PacingConstants DEF Ages, Older
  <2>. QED  BY <1>3, <2>2 DEF SleepsOut
<1>8. WindowBound'
  <2>. SUFFICES ASSUME Len(permits) > MaxCalls PROVE permits'[1] >= WindowS
    BY <1>2 DEF WindowBound
  <2>1. permits[1] \in Ages /\ permits[1] >= WindowS /\ permits'[1] = Older(permits[1])
    BY <1>2, PacingConstants DEF WindowBound
  <2>. QED  BY <2>1, OlderIsOlder, PacingConstants DEF Ages
<1>. QED  BY <1>4, <1>6, <1>7, <1>8

\* What acquire forgets is stale, and what it keeps is short of the ceiling, or sleeps:
\* a queue of more calls than that has a first one that is stale.
LEMMA AcquirePaces ==
  ASSUME PacingInv, Acquire
  PROVE  PacingInv'
<1>. USE TypedUnfolds DEF PacingInv
<1>. DEFINE q == Evicted(calls)
            k == Stale(calls)
<1>1. /\ calls' = q /\ permits' = permits /\ client.pc = "acquire"
      /\ client' = [client EXCEPT !.pc = "permit", !.sleep = SleepFor(q)]
  BY DEF Acquire
<1>2. /\ q \in Seq(Ages) /\ Len(q) = Len(calls) - k
      /\ \A i \in 1..Len(q) : q[i] = calls[i + k]
      /\ Len(q) > 0 => q[1] < WindowS
      /\ k \in 0..Len(calls) /\ \A i \in 1..k : calls[i] >= WindowS
  BY EvictedIsTail, StaleIsFound DEF Typed
<1>. HIDE DEF q, k
<1>3. Len(q) \in Nat /\ DOMAIN q = 1..Len(q) /\ \A i \in 1..Len(q) : q[i] \in Ages
  BY <1>2
<1>4. Len(q) >= MaxCalls => SleepFor(q) = WindowS - q[1] /\ q[1] \in Ages /\ q[1] < WindowS
  BY <1>2, <1>3, PacingConstants DEF SleepFor
<1>5. SleepFor(q) \in Nat
  BY <1>3, <1>4, PacingConstants DEF SleepFor, Ages
<1>6. /\ client' \in [pc: Pcs, attempt: 0..MaxRetries, sleep: Int]
      /\ client'.pc = "permit" /\ client'.attempt = client.attempt
      /\ client'.sleep = SleepFor(q)
  <2>1. client \in [pc: Pcs, attempt: 0..MaxRetries, sleep: Int]
    BY DEF Typed
  <2>2. client' = [pc |-> "permit", attempt |-> client.attempt, sleep |-> SleepFor(q)]
    BY ONLY <1>1, <2>1
  <2>. QED  BY ONLY <1>5, <2>1, <2>2 DEF Pcs
<1>7. Typed'
  BY <1>1, <1>2, <1>6 DEF Typed
<1>8. Forgotten' = Forgotten + k /\ Forgotten \in Nat /\ k \in Nat
  BY <1>1, <1>2 DEF Forgotten, QueueRemembers
<1>9. QueueRemembers'
  <2>1. \A i \in 1..Len(q) : q[i] = permits[i + (Forgotten + k)]
    <3>. TAKE i \in 1..Len(q)
    <3>1. i + k \in 1..Len(calls) /\ (i + k) + Forgotten = i + (Forgotten + k)
      BY <1>2, <1>3, <1>8
    <3>. QED  BY <1>2, <3>1 DEF QueueRemembers
  <2>2. \A i \in 1..(Forgotten + k) : permits[i] >= WindowS
    <3>. TAKE i \in 1..(Forgotten + k)
    <3>1. CASE i \in 1..Forgotten
      BY <3>1 DEF QueueRemembers
    <3>2. CASE ~(i \in 1..Forgotten)
      <4>1. i - Forgotten \in 1..k /\ i - Forgotten \in 1..Len(calls)
            /\ (i - Forgotten) + Forgotten = i
        BY <1>2, <1>8, <3>2
      <4>. QED  BY <1>2, <4>1 DEF QueueRemembers
    <3>. QED  BY <3>1, <3>2
  <2>. QED  BY <1>1, <1>8, <2>1, <2>2 DEF QueueRemembers
<1>10. Len(q) <= MaxCalls
  <2>. SUFFICES ASSUME Len(q) > MaxCalls PROVE FALSE
    BY <1>3, PacingConstants
  <2>1. Len(q) + k + Forgotten = Len(permits) /\ Len(permits) <= MaxCalls + 1
    BY <1>2, <1>8 DEF Forgotten, Typed
  <2>2. k = 0 /\ Forgotten = 0 /\ Len(permits) > MaxCalls /\ 1 \in 1..Len(q)
    BY <1>3, <1>8, <2>1, PacingConstants
  <2>3. q[1] = permits[1]
    BY <1>2, <2>2 DEF QueueRemembers
  <2>4. permits[1] >= WindowS /\ q[1] < WindowS /\ q[1] \in Ages
    BY <1>4, <2>2, PacingConstants DEF WindowBound
  <2>. QED  BY <2>3, <2>4, PacingConstants DEF Ages
<1>11. SleepsOut'
  BY <1>1, <1>3, <1>4, <1>5, <1>6, <1>10, PacingConstants DEF SleepsOut, Ages
<1>12. WindowBound'
  BY <1>1 DEF WindowBound
<1>. QED  BY <1>7, <1>9, <1>11, <1>12

\* The call that is appended follows max_calls calls the first of which is stale now.
LEMMA PermitPaces ==
  ASSUME PacingInv, Permit
  PROVE  PacingInv'
<1>. USE TypedUnfolds DEF PacingInv
<1>. DEFINE kept == IF Len(permits) > MaxCalls THEN Tail(permits) ELSE permits
            off == IF Len(permits) > MaxCalls THEN 1 ELSE 0
<1>0. MaxCalls \in Nat \ {0} /\ Len(calls) \in Nat /\ Len(permits) \in Nat
  BY PacingConstants
<1>1. /\ client.pc = "permit" /\ client.sleep = 0
      /\ calls' = Append(calls, 0) /\ permits' = Append(kept, 0)
      /\ client' = [client EXCEPT !.pc = "call"]
  BY DEF Permit
<1>2. /\ Len(calls) <= MaxCalls
      /\ Len(calls) = MaxCalls => calls[1] >= WindowS
  <2>1. client.pc = "permit" /\ client.sleep = 0
    BY <1>1
  <2>2. Len(calls) <= MaxCalls /\ (Len(calls) = MaxCalls => calls[1] + 0 >= WindowS)
    BY <2>1 DEF SleepsOut
  <2>3. Len(calls) = MaxCalls => calls[1] \in Int
    BY PacingConstants DEF Ages
  <2>. QED  BY <2>2, <2>3
<1>3. 0 \in Ages
  BY PacingConstants DEF Ages
<1>4. /\ kept \in Seq(Ages) /\ Len(kept) = Len(permits) - off /\ off \in {0, 1}
      /\ Len(kept) <= MaxCalls
      /\ \A i \in 1..Len(kept) : kept[i] = permits[i + off]
  <2>1. CASE Len(permits) > MaxCalls
    <3>1. permits # <<>> /\ permits \in Seq(Ages) /\ Len(permits) = MaxCalls + 1
      BY <2>1, PacingConstants DEF Typed
    <3>2. /\ Tail(permits) \in Seq(Ages) /\ Len(Tail(permits)) = Len(permits) - 1
          /\ \A i \in 1..Len(Tail(permits)) : Tail(permits)[i] = permits[i + 1]
      BY <3>1
    <3>. QED  BY <2>1, <3>1, <3>2, PacingConstants
  <2>2. CASE ~(Len(permits) > MaxCalls)
    BY <2>2, PacingConstants DEF Typed
  <2>. QED  BY <2>1, <2>2
<1>. HIDE DEF kept, off
<1>5. /\ calls' \in Seq(Ages) /\ Len(calls') = Len(calls) + 1
      /\ calls'[Len(calls) + 1] = 0
      /\ \A i \in 1..Len(calls) : calls'[i] = calls[i]
  BY <1>1, <1>3 DEF Typed
<1>6. /\ permits' \in Seq(Ages) /\ Len(permits') = Len(kept) + 1 /\ Len(kept) \in Nat
      /\ permits'[Len(kept) + 1] = 0
      /\ \A i \in 1..Len(kept) : permits'[i] = permits[i + off]
  BY <1>1, <1>3, <1>4
<1>7. /\ client' \in [pc: Pcs, attempt: 0..MaxRetries, sleep: Int]
      /\ client'.pc = "call" /\ client'.attempt = client.attempt
  BY <1>1 DEF Typed, Pcs
<1>8. Typed'
  BY <1>1, <1>4, <1>5, <1>6, <1>7, PacingConstants DEF Typed
<1>9. /\ Forgotten' = Forgotten - off /\ Forgotten \in Nat
      /\ Len(permits) = Len(calls) + Forgotten /\ Len(kept) = Len(calls) + (Forgotten - off)
      /\ Forgotten - off >= 0
  <2>1. Forgotten \in Nat /\ Len(permits) = Len(calls) + Forgotten
    BY DEF Forgotten, QueueRemembers
  <2>2. Forgotten' = Len(kept) + 1 - (Len(calls) + 1)
    BY <1>5, <1>6 DEF Forgotten
  <2>3. Forgotten - off >= 0
    <3>1. Len(calls) <= MaxCalls
      BY <1>2
    <3>. QED  BY ONLY <1>0, <2>1, <3>1 DEF off
  <2>. QED  BY <1>4, <2>1, <2>2, <2>3
<1>10. QueueRemembers'
  <2>1. \A i \in 1..(Len(calls) + 1) : calls'[i] = permits'[i + (Forgotten - off)]
    <3>. TAKE i \in 1..(Len(calls) + 1)
    <3>1. CASE i = Len(calls) + 1
      BY <1>4, <1>5, <1>6, <1>9, <3>1
    <3>2. CASE i \in 1..Len(calls)
      <4>1. /\ i + (Forgotten - off) \in 1..Len(kept)
            /\ (i + (Forgotten - off)) + off = i + Forgotten
        BY <1>4, <1>9, <3>2
      <4>. QED  BY <1>5, <1>6, <3>2, <4>1 DEF QueueRemembers
    <3>. QED  BY <3>1, <3>2
  <2>2. \A i \in 1..(Forgotten - off) : permits'[i] >= WindowS
    <3>. TAKE i \in 1..(Forgotten - off)
    <3>1. i \in 1..Len(kept) /\ i + off \in 1..Forgotten
      BY <1>4, <1>9
    <3>. QED  BY <1>6, <3>1 DEF QueueRemembers
  <2>. QED  BY <1>5, <1>9, <2>1, <2>2 DEF QueueRemembers
<1>11. WindowBound'
  <2>. SUFFICES ASSUME Len(permits') > MaxCalls PROVE permits'[1] >= WindowS
    BY DEF WindowBound
  <2>1. Len(kept) = MaxCalls /\ 1 \in 1..Len(kept)
    <3>1. Len(permits') = Len(kept) + 1 /\ Len(kept) \in Nat /\ Len(kept) <= MaxCalls
      BY <1>4, <1>6
    <3>. QED  BY ONLY <1>0, <3>1, Len(permits') > MaxCalls
  <2>4. permits'[1] = permits[1 + off]
    BY <1>6, <2>1
  <2>2. CASE Len(calls) = MaxCalls
    <3>1. Forgotten = off /\ 1 \in 1..Len(calls)
      BY <1>4, <1>9, <2>1, <2>2, PacingConstants
    <3>2. calls[1] = permits[1 + off]
      BY <3>1 DEF QueueRemembers
    <3>. QED  BY <1>2, <2>2, <2>4, <3>2
  <2>3. CASE Len(calls) # MaxCalls
    <3>1. Len(calls) <= MaxCalls /\ off \in {0, 1}
      BY <1>2, <1>4
    <3>2. 1 + off \in 1..Forgotten
      <4>1. Len(kept) = Len(calls) + (Forgotten - off) /\ Forgotten \in Nat
        BY <1>9
      <4>. QED  BY ONLY <1>0, <2>1, <2>3, <3>1, <4>1
    <3>. QED  BY <2>4, <3>2 DEF QueueRemembers
  <2>. QED  BY <2>2, <2>3
<1>12. SleepsOut'
  BY <1>7 DEF SleepsOut
<1>. QED  BY <1>8, <1>10, <1>11, <1>12

\* The request comes and goes beside the queue.
LEMMA RequestPaces ==
  ASSUME PacingInv, Request \/ Answered \/ RateLimited \/ Retry
  PROVE  PacingInv'
<1>. USE TypedUnfolds, PacingConstants DEF PacingInv
<1>1. UNCHANGED <<calls, permits>>
  BY DEF Request, Answered, RateLimited, Retry
<1>2. /\ client' \in [pc: Pcs, attempt: 0..MaxRetries, sleep: Int]
      /\ client'.pc # "permit"
      /\ client'.pc # "idle" => client'.attempt >= 1
  <2>. DEFINE Rec == [pc: Pcs, attempt: 0..MaxRetries, sleep: Int]
  <2>0. client \in Rec /\ (client.pc # "idle" => client.attempt >= 1)
    BY DEF Typed
  <2>1. CASE Request
    <3>1. client' = [client EXCEPT !.pc = "acquire", !.attempt = 1]
      BY <2>1 DEF Request
    <3>2. client' = [pc |-> "acquire", attempt |-> 1, sleep |-> client.sleep]
      BY ONLY <2>0, <3>1 DEF Rec
    <3>. QED  BY ONLY <2>0, <3>2, PacingConstants DEF Pcs, Rec
  <2>2. CASE Answered
    <3>1. client' = [client EXCEPT !.pc = "idle", !.attempt = 0]
      BY <2>2 DEF Answered
    <3>2. client' = [pc |-> "idle", attempt |-> 0, sleep |-> client.sleep]
      BY ONLY <2>0, <3>1 DEF Rec
    <3>. QED  BY ONLY <2>0, <3>2, PacingConstants DEF Pcs, Rec
  <2>3. CASE RateLimited
    <3>. DEFINE back == Backoff(client.attempt)
    <3>1. client.pc = "call" /\ client.attempt \in 1..MaxRetries
      BY <2>0, <2>3 DEF RateLimited
    <3>2. back \in Int
      BY <3>1, BackoffIsInt
    <3>3. client' = IF client.attempt = MaxRetries
                    THEN [client EXCEPT !.pc = "idle", !.attempt = 0]
                    ELSE [client EXCEPT !.pc = "backoff", !.attempt = @ + 1,
                                        !.sleep = back]
      BY <2>3 DEF RateLimited
    <3>. HIDE DEF back
    <3>4. CASE client.attempt = MaxRetries
      <4>1. client' = [pc |-> "idle", attempt |-> 0, sleep |-> client.sleep]
        BY ONLY <2>0, <3>3, <3>4 DEF Rec
      <4>. QED  BY ONLY <2>0, <4>1, PacingConstants DEF Pcs, Rec
    <3>5. CASE client.attempt # MaxRetries
      <4>1. client' = [pc |-> "backoff", attempt |-> client.attempt + 1, sleep |-> back]
        BY ONLY <2>0, <3>3, <3>5 DEF Rec
      <4>2. client.attempt + 1 \in 0..MaxRetries /\ client.attempt + 1 >= 1
        BY ONLY <3>1, <3>5, PacingConstants
      <4>. QED  BY ONLY <3>2, <4>1, <4>2 DEF Pcs, Rec
    <3>. QED  BY <3>4, <3>5
  <2>4. CASE Retry
    <3>1. client' = [client EXCEPT !.pc = "acquire"] /\ client.pc = "backoff"
      BY <2>4 DEF Retry
    <3>. QED  BY ONLY <2>0, <3>1, PacingConstants DEF Pcs, Rec
  <2>. QED  BY <2>1, <2>2, <2>3, <2>4
<1>3. Typed'
  BY <1>1, <1>2 DEF Typed
<1>. QED
  BY <1>1, <1>2, <1>3 DEF QueueRemembers, Forgotten, SleepsOut, WindowBound

LEMMA PacingStep ==
  ASSUME PacingInv, [Next]_vars
  PROVE  PacingInv'
<1>1. CASE UNCHANGED vars
  BY <1>1 DEF vars, PacingInv, Typed, QueueRemembers, Forgotten, SleepsOut, WindowBound
<1>. QED
  BY <1>1, TickPaces, AcquirePaces, PermitPaces, RequestPaces DEF Next, Step

THEOREM PacingInvariant == Spec => []PacingInv
<1>1. Init => PacingInv
  BY PacingConstants
  DEF Init, PacingInv, Typed, Pcs, QueueRemembers, Forgotten, SleepsOut, WindowBound
<1>. QED  BY <1>1, PacingStep, PTL DEF Spec

LEMMA QueueIsShort == ASSUME PacingInv PROVE WindowBound /\ QueueBound
BY TypedUnfolds, PacingConstants
DEF PacingInv, Typed, QueueRemembers, Forgotten, WindowBound, QueueBound

\* No window of window_s holds more than max_calls permits, and the queue never has
\* more than one call beyond it, however long the sleeps and the answers take.
THEOREM CeilingAlways == Spec => [](WindowBound /\ QueueBound)
<1>. QED  BY QueueIsShort, PacingInvariant, PTL

\* With the types, for which the sleep after a 429 has to be a length of time: that a
\* power of two is a natural number is known to none of the provers.
SleepTyped ==
  client.sleep \in 0..(IF WindowS > BackoffCap THEN WindowS ELSE BackoffCap)

LEMMA SleepStep ==
  ASSUME \A n \in Nat : 2 ^ n \in Nat,
         PacingInv, SleepTyped, [Next]_vars
  PROVE  SleepTyped'
<1>. USE TypedUnfolds, PacingConstants DEF PacingInv
<1>1. CASE Acquire
  <2>1. SleepFor(Evicted(calls)) \in 0..WindowS
    <3>. DEFINE q == Evicted(calls)
    <3>1. q \in Seq(Ages)
      BY EvictedIsTail DEF Typed
    <3>. HIDE DEF q
    <3>2. Len(q) \in Nat /\ (Len(q) > 0 => Head(q) = q[1] /\ q[1] \in Ages)
      BY <3>1
    <3>3. Len(q) > 0 => q[1] \in 0..WindowS
      BY EvictedIsTail, <3>2 DEF Typed, Ages, q
    <3>. QED  BY <3>2, <3>3 DEF SleepFor, q
  <2>. QED  BY <1>1, <2>1 DEF Acquire, SleepTyped, Typed
<1>2. CASE RateLimited
  <2>1. client.pc = "call" /\ client.attempt \in 1..MaxRetries
    BY <1>2 DEF RateLimited, Typed
  <2>2. Backoff(client.attempt) \in 0..BackoffCap
    <3>1. client.attempt - 1 \in Nat
      BY <2>1
    <3>2. 2 ^ (client.attempt - 1) \in Nat
      BY <3>1
    <3>3. BackoffBase * 2 ^ (client.attempt - 1) \in Nat
      BY <3>2
    <3>. QED  BY <3>3 DEF Backoff
  <2>. HIDE DEF Backoff
  <2>. QED  BY <1>2, <2>1, <2>2 DEF RateLimited, SleepTyped, Typed
<1>3. CASE Tick
  BY <1>3 DEF Tick, SleepTyped, Typed
<1>4. CASE Request \/ Permit \/ Answered \/ Retry \/ UNCHANGED vars
  BY <1>4 DEF Request, Permit, Answered, Retry, vars, SleepTyped, Typed
<1>. QED  BY <1>1, <1>2, <1>3, <1>4 DEF Next, Step

\* The window is kept, with the types of the limiter and of the request.
THEOREM WindowKeptAlways ==
  ASSUME \A n \in Nat : 2 ^ n \in Nat
  PROVE  Spec => []WindowKept
<1>1. Init => SleepTyped
  BY PacingConstants DEF Init, SleepTyped
<1>2. PacingInv /\ SleepTyped /\ [Next]_vars => SleepTyped'
  BY SleepStep
<1>3. PacingInv /\ SleepTyped => WindowKept
  <2>. SUFFICES ASSUME PacingInv, SleepTyped PROVE TypeOK
    BY QueueIsShort DEF WindowKept
  <2>1. client = [pc |-> client.pc, attempt |-> client.attempt, sleep |-> client.sleep]
    BY DEF PacingInv, Typed
  <2>2. client \in [pc: Pcs, attempt: 0..MaxRetries,
                    sleep: 0..(IF WindowS > BackoffCap THEN WindowS ELSE BackoffCap)]
    BY <2>1, TypedUnfolds DEF PacingInv, SleepTyped
  <2>. QED  BY <2>2 DEF TypeOK, PacingInv, Typed, Ages, Pcs
<1>. QED  BY <1>1, <1>2, <1>3, PacingInvariant, PTL DEF Spec
=============================================================================
