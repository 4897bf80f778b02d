------------------------------ MODULE RateLimiter -----------------------------
(***************************************************************************)
(* The token bucket of internal/security/ratelimit.go.  Allow looks the    *)
(* client's bucket up under the read lock, puts a new one into the table   *)
(* under the write lock when there was none, and takes a token under the   *)
(* bucket's own lock: three steps, between which other goroutines call     *)
(* Allow and Reset and the cleanup runs.  A bucket that has left the table *)
(* serves the callers that still hold it.                                  *)
(***************************************************************************)
EXTENDS Integers, FiniteSets, Sequences

CONSTANTS
  Clients,
  Callers,         \* goroutines in Allow
  Rate,            \* requests per window
  Window,          \* in ticks
  MaxLimiterTime,  \* bound: the clock stops there
  MaxBuckets,      \* bound: buckets ever made
  MaxResets        \* bound: calls of Reset

ASSUME LimiterAssumption ==
  /\ Rate \in Nat /\ Window \in Nat \ {0} /\ IsFiniteSet(Callers)
  /\ MaxLimiterTime \in Nat

VARIABLES
  limiterTime,
  heap,        \* the buckets ever made: a sequence of [tokens, lastRefill]
  buckets,     \* [Clients -> an index of heap, or 0 for none]
  callers,     \* [Callers -> [pc, client, bucket]]
  granted,     \* history: [Clients -> requests allowed]
  extra,       \* history: [Clients -> buckets replaced by another, or reset]
  swept        \* history: [Clients -> buckets the cleanup removed]

limiterVars == <<limiterTime, heap, buckets, callers, granted, extra, swept>>

Resting == [pc |-> "resting"]

LimiterInit ==
  /\ limiterTime = 0
  /\ heap = << >>
  /\ buckets = [c \in Clients |-> 0]
  /\ callers = [t \in Callers |-> Resting]
  /\ granted = [c \in Clients |-> 0]
  /\ extra = [c \in Clients |-> 0]
  /\ swept = [c \in Clients |-> 0]

LimiterTick ==
  /\ limiterTime < MaxLimiterTime
  /\ limiterTime' = limiterTime + 1
  /\ UNCHANGED <<heap, buckets, callers, granted, extra, swept>>

FindBucket(t, c) ==
  /\ callers[t] = Resting
  /\ callers' = [callers EXCEPT ![t] =
       [pc |-> IF buckets[c] = 0 THEN "create" ELSE "take", client |-> c, bucket |-> buckets[c]]]
  /\ UNCHANGED <<limiterTime, heap, buckets, granted, extra, swept>>

\* The table is not looked at again: a bucket another caller has stored in the
\* meantime is replaced.
StoreBucket(t) ==
  /\ callers[t].pc = "create"
  /\ Len(heap) < MaxBuckets
  /\ LET c == callers[t].client
     IN  /\ heap' = Append(heap, [tokens |-> Rate, lastRefill |-> limiterTime])
         /\ buckets' = [buckets EXCEPT ![c] = Len(heap) + 1]
         /\ extra' = [extra EXCEPT ![c] = @ + IF buckets[c] = 0 THEN 0 ELSE 1]
  /\ callers' = [callers EXCEPT ![t].pc = "take", ![t].bucket = Len(heap) + 1]
  /\ UNCHANGED <<limiterTime, granted, swept>>

\* Variant of Refill: what was added is forgotten, and added again.
RefillTwice(b) ==
  LET elapsed == limiterTime - b.lastRefill
      added   == (Rate * elapsed) \div Window
      least   == IF b.tokens + added > Rate THEN Rate ELSE b.tokens + added
  IN  IF elapsed >= Window THEN [tokens |-> Rate, lastRefill |-> limiterTime]
      ELSE [b EXCEPT !.tokens = least]

\* A part of a window adds a part of the rate, rounded down; the time behind a
\* refill of nothing is kept for the next one.
Refill(b) ==
  LET elapsed == limiterTime - b.lastRefill
      added   == (Rate * elapsed) \div Window
  IN  IF elapsed >= Window THEN [tokens |-> Rate, lastRefill |-> limiterTime]
      ELSE [tokens     |-> IF b.tokens + added > Rate THEN Rate ELSE b.tokens + added,
            lastRefill |-> IF added > 0 THEN limiterTime ELSE b.lastRefill]

TakeToken(t) ==
  /\ callers[t].pc = "take"
  /\ LET n == callers[t].bucket
         b == Refill(heap[n])
         allowed == IF b.tokens > 0 THEN 1 ELSE 0
     IN  /\ heap' = [heap EXCEPT ![n] = [b EXCEPT !.tokens = @ - allowed]]
         /\ granted' = [granted EXCEPT ![callers[t].client] = @ + allowed]
  /\ callers' = [callers EXCEPT ![t] = Resting]
  /\ UNCHANGED <<limiterTime, buckets, extra, swept>>

ResetClient(c) ==
  /\ buckets[c] # 0
  /\ extra[c] < MaxResets
  /\ buckets' = [buckets EXCEPT ![c] = 0]
  /\ extra' = [extra EXCEPT ![c] = @ + 1]
  /\ UNCHANGED <<limiterTime, heap, callers, granted, swept>>

\* Two windows without a refill.
Idle(b) == b.lastRefill < limiterTime - 2 * Window

Sweepable(c) == buckets[c] # 0 /\ Idle(heap[buckets[c]])

CleanupBuckets ==
  /\ buckets' = [c \in Clients |-> IF Sweepable(c) THEN 0 ELSE buckets[c]]
  /\ swept' = [c \in Clients |-> IF Sweepable(c) THEN swept[c] + 1 ELSE swept[c]]
  /\ UNCHANGED <<limiterTime, heap, callers, granted, extra>>

LimiterNext ==
  \/ LimiterTick \/ CleanupBuckets
  \/ \E t \in Callers : (\E c \in Clients : FindBucket(t, c)) \/ StoreBucket(t) \/ TakeToken(t)
  \/ \E c \in Clients : ResetClient(c)

LimiterSpec == LimiterInit /\ [][LimiterNext]_limiterVars

LimiterTypeOK ==
  /\ limiterTime \in 0 .. MaxLimiterTime
  /\ \A n \in DOMAIN heap : heap[n].tokens \in 0 .. Rate /\ heap[n].lastRefill \in 0 .. limiterTime
  /\ buckets \in [Clients -> 0 .. Len(heap)]
  /\ granted \in [Clients -> Nat] /\ extra \in [Clients -> Nat]
  /\ swept \in [Clients -> Nat]

\* The callers a bucket that was idle for two windows may still owe something.
Stragglers == IF Cardinality(Callers) > Rate THEN Cardinality(Callers) - Rate ELSE 0

\* A client gets one full bucket to begin with, the rate per window after that,
\* and one bucket more for each that was reset or replaced, because two callers met
\* no bucket at the same time (ratelimit.go:45-59); such a bucket is good for one
\* request more of each caller that still holds it.  A bucket that the cleanup
\* removes after two windows would be full anyway (132-146): that pays for as
\* many callers that still hold it as the rate, and only those beyond get more.
AllowanceBounded ==
  \A c \in Clients :
    Window * granted[c] <=
      Window * (Rate + extra[c] * (Rate + Cardinality(Callers)) + swept[c] * Stragglers)
        + Rate * limiterTime
===============================================================================
