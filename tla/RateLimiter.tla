---------------------------- MODULE RateLimiter ----------------------------
(***************************************************************************)
(* FamilyRateLimiter (factset/limiter.py): the token bucket and the        *)
(* concurrency gate around every in-flight request of one API family, as   *)
(* used by the threads of one process.                                     *)
(*                                                                         *)
(* Time is in ticks of the monotonic clock and the bucket in units of      *)
(* which UnitsPerToken make a token, so that the refill of a tick is a     *)
(* whole number; the rounding of the code's floats is left out.            *)
(***************************************************************************)
EXTENDS Integers, Sequences

CONSTANTS Threads,
          Concurrent,      \* concurrent_requests
          Refill,          \* units refilled per tick
          UnitsPerToken,
          TicksPerSecond,
          MaxRequests,     \* bound: requests a thread makes
          MaxTime          \* bound: last tick at which no thread sleeps

ASSUME LimiterAssumption == /\ Concurrent \in Nat \ {0}
                            /\ Refill \in Nat \ {0}
                            /\ UnitsPerToken \in Nat \ {0}
                            /\ TicksPerSecond \in Nat \ {0}
                            /\ MaxRequests \in Nat
                            /\ MaxTime \in Nat

VARIABLES now,
          tokens,      \* the bucket, in units
          lastRefill,  \* when the bucket was last brought up to date
          free,        \* the semaphore's count
          thread,      \* per thread: its step, and when its sleep is over
          made,        \* requests made, per thread
          granted      \* history: the times at which tokens were taken

limiter == <<now, tokens, lastRefill, free, thread, made, granted>>

\* max(1, int(requests_per_second)) tokens.
Capacity ==
  LET rps == (Refill * TicksPerSecond) \div UnitsPerToken
  IN  UnitsPerToken * (IF rps > 1 THEN rps ELSE 1)

AtRest == [at |-> "idle", wake |-> 0]

Stands(t, step) == thread[t].at = step

Asleep(t) == Stands(t, "slot") /\ now < thread[t].wake

Put(t, step) == thread' = [thread EXCEPT ![t] = [at |-> step, wake |-> 0]]

\* The bucket as _refill leaves it now.
Refilled ==
  LET full == tokens + Refill * (now - lastRefill)
  IN  IF full < Capacity THEN full ELSE Capacity

\* Ticks until one token is there, as slept: the deficit over the rate.
Deficit == (UnitsPerToken - Refilled + Refill - 1) \div Refill

-----------------------------------------------------------------------------
Ask(t) == /\ Stands(t, "idle")
          /\ made[t] < MaxRequests
          /\ made' = [made EXCEPT ![t] = @ + 1]
          /\ Put(t, "queued")
          /\ UNCHANGED <<now, tokens, lastRefill, free, granted>>

\* The concurrency slot comes first and is held while waiting for a token.
EnterSlot(t) == /\ Stands(t, "queued")
                /\ free > 0
                /\ free' = free - 1
                /\ Put(t, "slot")
                /\ UNCHANGED <<now, tokens, lastRefill, made, granted>>

\* Mutant of TakeToken: the refill is not booked.
TakeTokenTwice(t) == /\ Stands(t, "slot")
                     /\ ~ Asleep(t)
                     /\ Refilled >= UnitsPerToken
                     /\ tokens' = Refilled - UnitsPerToken
                     /\ granted' = Append(granted, now)
                     /\ Put(t, "sending")
                     /\ UNCHANGED <<now, lastRefill, free, made>>

\* One turn of acquire_token that finds a token.
TakeToken(t) == /\ Stands(t, "slot")
                /\ ~ Asleep(t)
                /\ Refilled >= UnitsPerToken
                /\ tokens' = Refilled - UnitsPerToken
                /\ lastRefill' = now
                /\ granted' = Append(granted, now)
                /\ Put(t, "sending")
                /\ UNCHANGED <<now, free, made>>

\* A turn that finds none: sleep for the deficit and look again, in a race
\* with every thread that has not slept.
Wait(t) == /\ Stands(t, "slot")
           /\ ~ Asleep(t)
           /\ Refilled < UnitsPerToken
           /\ tokens' = Refilled
           /\ lastRefill' = now
           /\ thread' = [thread EXCEPT ![t].wake = now + Deficit]
           /\ UNCHANGED <<now, free, made, granted>>

\* The request is over, normally or by an exception.
LeaveSlot(t) == /\ Stands(t, "sending")
                /\ free' = free + 1
                /\ Put(t, "idle")
                /\ UNCHANGED <<now, tokens, lastRefill, made, granted>>

Tick == /\ now < MaxTime \/ \E t \in Threads : Asleep(t)
        /\ now' = now + 1
        /\ UNCHANGED <<tokens, lastRefill, free, thread, made, granted>>

Full == /\ now = 0
        /\ tokens = Capacity
        /\ lastRefill = 0
        /\ free = Concurrent
        /\ thread = [t \in Threads |-> AtRest]
        /\ made = [t \in Threads |-> 0]
        /\ granted = <<>>

Turn(t) == EnterSlot(t) \/ TakeToken(t) \/ Wait(t) \/ LeaveSlot(t)

Race == \/ \E t \in Threads : Ask(t) \/ Turn(t)
        \/ Tick

LimiterSpec == Full /\ [][Race]_limiter

\* Threads are scheduled, requests end by their timeout, and time passes.
FairLimiterSpec ==
  LimiterSpec /\ (\A t \in Threads : WF_limiter(Turn(t))) /\ WF_limiter(Tick)

-----------------------------------------------------------------------------
(* Properties.                                                             *)

\* Over any stretch of time, however the threads race for tokens, no more
\* requests start than the bucket's capacity plus what the rate refills
\* meanwhile: the family's declared rate is kept.
RateKept ==
  \A i, j \in DOMAIN granted : i <= j =>
    (j - i + 1) * UnitsPerToken <= Capacity + Refill * (granted[j] - granted[i])

\* Every thread that asks is eventually granted its slot and its token, though
\* others may overtake it at each turn.
EveryRequestSent == \A t \in Threads : Stands(t, "queued") ~> Stands(t, "sending")
=============================================================================
