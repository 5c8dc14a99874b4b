-------------------------------- MODULE Quota --------------------------------
(***************************************************************************)
(* QuotaRepository.hit and the enforce_quota dependency for one tenant: a  *)
(* counter per day and a counter per minute in Redis, each incremented and *)
(* then given its TTL by commands of their own.  No route of the           *)
(* repository depends on enforce_quota; a request here is any that would.  *)
(***************************************************************************)
EXTENDS Naturals, FiniteSets

CONSTANTS
    Requests,
    LastMinute,     \* the clock stops here
    DayLength,      \* minutes of a day
    DailyQuota,     \* daily_request_quota, 0 for none
    RateLimit,      \* rate_limit_per_minute, 0 for none
    MaxHits,        \* requests of a day
    MaxFaults

\* What the values of the constants must satisfy.
ConstantsOK ==
    /\ IsFiniteSet(Requests)
    /\ LastMinute \in Nat
    /\ DayLength \in Nat \ {0}
    /\ DailyQuota \in Nat
    /\ RateLimit \in Nat
    /\ MaxHits \in Nat
    /\ MaxFaults \in Nat

VARIABLES
    minute,    \* the clock
    count,     \* the counters, 0 where Redis has none
    expiring,  \* counters that have a TTL
    touched,   \* when a counter's TTL was last set
    hits,      \* history: increments of each counter
    admitted,  \* history: requests let through in each window
    pc,        \* where each request is
    now,       \* the minute it computed its keys for
    daily,     \* the counts it got
    perMinute,
    faults

vars == <<minute, count, expiring, touched, hits, admitted, pc, now, daily, perMinute, faults>>

Day(m) == <<"day", m \div DayLength>>
Minute(m) == <<"minute", m>>
Windows == {Day(m) : m \in 0..LastMinute} \cup {Minute(m) : m \in 0..LastMinute}
Limit(w) == IF w[1] = "day" THEN DailyQuota ELSE RateLimit
Over(n, limit) == limit # 0 /\ n > limit

Busy == {"incrDaily", "expireDaily", "incrMinute", "expireMinute", "decide"}
Labels == Busy \cup {"admitted", "rejected", "error"}

Init ==
    /\ minute = 0
    /\ count = [w \in Windows |-> 0]
    /\ expiring = {}
    /\ touched = [w \in Windows |-> 0]
    /\ hits = count /\ admitted = count
    /\ pc = [r \in Requests |-> "error"]
    /\ now = [r \in Requests |-> 0]
    /\ daily = now /\ perMinute = now
    /\ faults = 0

At(r, l) == pc[r] = l
GoTo(r, l) == pc' = [pc EXCEPT ![r] = l]

Hit(r) ==
    /\ pc[r] \notin Busy
    /\ hits[Day(minute)] + Cardinality({q \in Requests : pc[q] = "incrDaily"}) < MaxHits
    /\ now' = [now EXCEPT ![r] = minute]
    /\ daily' = [daily EXCEPT ![r] = 0] /\ perMinute' = [perMinute EXCEPT ![r] = 0]
    /\ GoTo(r, "incrDaily")
    /\ UNCHANGED <<minute, count, expiring, touched, hits, admitted, faults>>

Incr(w) ==
    /\ count' = [count EXCEPT ![w] = @ + 1]
    /\ hits' = [hits EXCEPT ![w] = @ + 1]

Expire(w) ==
    /\ expiring' = expiring \cup {w}
    /\ touched' = [touched EXCEPT ![w] = minute]

IncrDaily(r) ==
    /\ At(r, "incrDaily")
    /\ Incr(Day(now[r]))
    /\ daily' = [daily EXCEPT ![r] = count[Day(now[r])] + 1]
    /\ GoTo(r, "expireDaily")
    /\ UNCHANGED <<minute, expiring, touched, admitted, now, perMinute, faults>>

ExpireDaily(r) ==
    /\ At(r, "expireDaily")
    /\ Expire(Day(now[r]))
    /\ GoTo(r, "incrMinute")
    /\ UNCHANGED <<minute, count, hits, admitted, now, daily, perMinute, faults>>

\* Mutant: the count is the one before the increment.
IncrMinute_Before(r) ==
    /\ At(r, "incrMinute")
    /\ Incr(Minute(now[r]))
    /\ perMinute' = [perMinute EXCEPT ![r] = count[Minute(now[r])]]
    /\ GoTo(r, "expireMinute")
    /\ UNCHANGED <<minute, expiring, touched, admitted, now, daily, faults>>

IncrMinute(r) ==
    /\ At(r, "incrMinute")
    /\ Incr(Minute(now[r]))
    /\ perMinute' = [perMinute EXCEPT ![r] = count[Minute(now[r])] + 1]
    /\ GoTo(r, "expireMinute")
    /\ UNCHANGED <<minute, expiring, touched, admitted, now, daily, faults>>

\* Mutant: the minute counter is given no TTL.
ExpireMinute_Skipped(r) ==
    /\ At(r, "expireMinute")
    /\ GoTo(r, "decide")
    /\ UNCHANGED <<minute, count, expiring, touched, hits, admitted, now, daily, perMinute, faults>>

ExpireMinute(r) ==
    /\ At(r, "expireMinute")
    /\ Expire(Minute(now[r]))
    /\ GoTo(r, "decide")
    /\ UNCHANGED <<minute, count, hits, admitted, now, daily, perMinute, faults>>

\* enforce_quota
Decide(r) ==
    /\ At(r, "decide")
    /\ IF Over(daily[r], DailyQuota) \/ Over(perMinute[r], RateLimit)
         THEN GoTo(r, "rejected") /\ UNCHANGED admitted
         ELSE /\ GoTo(r, "admitted")
              /\ admitted' = [w \in Windows |->
                     admitted[w] + IF w \in {Day(now[r]), Minute(now[r])} THEN 1 ELSE 0]
    /\ UNCHANGED <<minute, count, expiring, touched, hits, now, daily, perMinute, faults>>

\* A command fails: the request ends with a 500, what it did so far stays.
CommandFails(r) ==
    /\ pc[r] \in Busy \ {"decide"} /\ faults < MaxFaults
    /\ faults' = faults + 1
    /\ GoTo(r, "error")
    /\ UNCHANGED <<minute, count, expiring, touched, hits, admitted, now, daily, perMinute>>

\* A request does not take longer than a minute.
Tick ==
    /\ minute < LastMinute
    /\ \A r \in Requests : pc[r] \in Busy => now[r] = minute
    /\ minute' = minute + 1
    /\ UNCHANGED <<count, expiring, touched, hits, admitted, pc, now, daily, perMinute, faults>>

\* Redis drops a counter: its TTL is two windows (two days, 120 seconds).
Drop(w) ==
    /\ w \in expiring
    /\ minute >= touched[w] + 2 * (IF w[1] = "day" THEN DayLength ELSE 1)
    /\ expiring' = expiring \ {w}
    /\ count' = [count EXCEPT ![w] = 0]
    /\ UNCHANGED <<minute, touched, hits, admitted, pc, now, daily, perMinute, faults>>

-----------------------------------------------------------------------------
Step(r) ==
    \/ IncrDaily(r)
    \/ ExpireDaily(r)
    \/ IncrMinute(r)
    \/ ExpireMinute(r)
    \/ Decide(r)
    \/ CommandFails(r)

Expiry == \E w \in Windows : Drop(w)

Next == Tick \/ Expiry \/ \E r \in Requests : Hit(r) \/ Step(r)

Spec == Init /\ [][Next]_vars

-----------------------------------------------------------------------------
TypeOK ==
    /\ minute \in 0..LastMinute
    /\ count \in [Windows -> Nat] /\ hits \in [Windows -> Nat] /\ admitted \in [Windows -> Nat]
    /\ expiring \subseteq Windows /\ touched \in [Windows -> 0..LastMinute]
    /\ pc \in [Requests -> Labels]
    /\ now \in [Requests -> 0..LastMinute]
    /\ daily \in [Requests -> Nat] /\ perMinute \in [Requests -> Nat]
    /\ faults \in 0..MaxFaults

\* However requests interleave, and whatever failed, no more are let through
\* in a day or in a minute than the limit of that window.
AdmittedWithinLimits == \A w \in Windows : ~Over(admitted[w], Limit(w))

\* A request is rejected only when its day or its minute had as many requests
\* before it as the limit allows.
RejectedOnlyOverLimit ==
    \A r \in Requests : pc[r] = "rejected" =>
        \E w \in {Day(now[r]), Minute(now[r])} : Over(hits[w], Limit(w))

\* A counter without a TTL would stay in Redis for ever: each one is about to
\* be given it by a request under way, or a command failed just there.
OnlyFailuresLeak ==
    Cardinality({w \in Windows :
        /\ count[w] > 0 /\ w \notin expiring
        /\ \A r \in Requests : w = Day(now[r]) => pc[r] # "expireDaily"
        /\ \A r \in Requests : w = Minute(now[r]) => pc[r] # "expireMinute"}) <= faults

=============================================================================
