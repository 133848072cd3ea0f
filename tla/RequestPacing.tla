--------------------------- MODULE RequestPacing ---------------------------
(***************************************************************************)
(* The pacing of the requests of one AlpacaClient: SlidingWindowLimiter    *)
(* (data/rate_limiter.py) under the retry policy _request_with_retry       *)
(* (data/alpaca_client.py).  Times are kept as ages, which is all the      *)
(* comparisons of the code see: a call of age "a" was permitted "a" ticks  *)
(* ago, and whatever is older than the window is alike.                    *)
(***************************************************************************)
EXTENDS Integers, Sequences, FiniteSets

CONSTANTS
  MaxCalls,       \* max_calls
  WindowS,        \* window_s, in ticks
  MaxRetries,     \* _MAX_RETRIES
  BackoffBase,    \* _BACKOFF_BASE_S, in ticks
  BackoffCap      \* _BACKOFF_CAP_S, in ticks

ASSUME PacingConstants ==
  /\ MaxCalls \in Nat \ {0} /\ WindowS \in Nat \ {0}
  /\ MaxRetries \in Nat \ {0}
  /\ BackoffBase \in Nat /\ BackoffCap \in Nat

VARIABLES
  calls,      \* _calls: the ages of the calls remembered, oldest first
  permits,    \* the ages of the last MaxCalls + 1 permits, oldest first (a witness)
  client      \* where the request is, its attempt, and the sleep left

vars == <<calls, permits, client>>

Init ==
  /\ calls = <<>>
  /\ permits = <<>>
  /\ client = [pc |-> "idle", attempt |-> 0, sleep |-> 0]

Older(age) == IF age <= WindowS THEN age + 1 ELSE age

\* Time passes: for the calls, for whoever sleeps, and between any two lines.
Tick ==
  /\ calls' = [i \in DOMAIN calls |-> Older(calls[i])]
  /\ permits' = [i \in DOMAIN permits |-> Older(permits[i])]
  /\ client' = [client EXCEPT !.sleep = IF @ > 0 THEN @ - 1 ELSE 0]

Request ==
  /\ client.pc = "idle"
  /\ client' = [client EXCEPT !.pc = "acquire", !.attempt = 1]
  /\ UNCHANGED <<calls, permits>>

-----------------------------------------------------------------------------
\* acquire: the calls that have left the window are popped, up to the first that has
\* not ...
Stale(q) == CHOOSE k \in 0..Len(q) : /\ \A i \in 1..k : q[i] >= WindowS
                                     /\ k < Len(q) => q[k + 1] < WindowS
Evicted(q) == SubSeq(q, Stale(q) + 1, Len(q))

\* ... and when the window is still full, it sleeps until the oldest has.
SleepOffByOne(q) == IF Len(q) > MaxCalls THEN WindowS - Head(q) ELSE 0
SleepFor(q) == IF Len(q) >= MaxCalls THEN WindowS - Head(q) ELSE 0

Acquire ==
  LET q == Evicted(calls) IN
  /\ client.pc = "acquire"
  /\ calls' = q
  /\ client' = [client EXCEPT !.pc = "permit", !.sleep = SleepFor(q)]
  /\ UNCHANGED permits

\* Awake, it appends the time it is now, and returns.
Permit ==
  /\ client.pc = "permit" /\ client.sleep = 0
  /\ calls' = Append(calls, 0)
  /\ permits' = Append(IF Len(permits) > MaxCalls THEN Tail(permits) ELSE permits, 0)
  /\ client' = [client EXCEPT !.pc = "call"]

-----------------------------------------------------------------------------
\* _request_with_retry: an answer or another error ends the request.
Answered ==
  /\ client.pc = "call"
  /\ client' = [client EXCEPT !.pc = "idle", !.attempt = 0]
  /\ UNCHANGED <<calls, permits>>

Backoff(n) ==
  LET b == BackoffBase * 2 ^ (n - 1) IN IF b < BackoffCap THEN b ELSE BackoffCap

\* "429": the last attempt raises, an earlier one backs off.
RateLimitedUncounted ==
  /\ client.pc = "call"
  /\ client' = [client EXCEPT !.pc = "backoff", !.sleep = Backoff(client.attempt)]
  /\ UNCHANGED <<calls, permits>>
RateLimited ==
  /\ client.pc = "call"
  /\ client' = IF client.attempt = MaxRetries
               THEN [client EXCEPT !.pc = "idle", !.attempt = 0]
               ELSE [client EXCEPT !.pc = "backoff", !.attempt = @ + 1,
                                   !.sleep = Backoff(client.attempt)]
  /\ UNCHANGED <<calls, permits>>

Retry ==
  /\ client.pc = "backoff" /\ client.sleep = 0
  /\ client' = [client EXCEPT !.pc = "acquire"]
  /\ UNCHANGED <<calls, permits>>

Step == Acquire \/ Permit \/ Answered \/ RateLimited \/ Retry

Next == Request \/ Step \/ Tick

Spec == Init /\ [][Next]_vars

\* Sleeps end, because time passes; the single thread goes on when it can.  The
\* caller need not ask again.
FairSpec == Spec /\ WF_vars(Step) /\ WF_vars(Tick)

-----------------------------------------------------------------------------
TypeOK ==
  /\ calls \in Seq(0..(WindowS + 1))
  /\ permits \in Seq(0..(WindowS + 1)) /\ Len(permits) <= MaxCalls + 1
  /\ client \in [pc: {"idle", "acquire", "permit", "call", "backoff"},
                 attempt: 0..MaxRetries,
                 sleep: 0..(IF WindowS > BackoffCap THEN WindowS ELSE BackoffCap)]

\* The ceiling: any window of window_s holds at most max_calls permits, however
\* long the sleeps and the answers take: of max_calls + 1 permits in a row, the
\* first is as old as the window.
WindowBound == Len(permits) > MaxCalls => permits[1] >= WindowS

\* The queue is never cleaned after a sleep, only at the next acquire: one call
\* that has left the window may linger, and no more than one.
QueueBound == Len(calls) <= MaxCalls + 1

\* Both of the window: its ceiling and the length of the queue that keeps it.
WindowKept == TypeOK /\ WindowBound /\ QueueBound

\* A request ends, answered or raised, however often the vendor says 429.
RequestEnds == client.pc # "idle" ~> client.pc = "idle"
=============================================================================
