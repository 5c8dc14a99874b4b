---------------------------- MODULE QuotaProofs -----------------------------
(***************************************************************************)
(* Theorems about Quota: the limits hold however requests interleave.      *)
(* The limits of a window are kept because INCR gives every request a      *)
(* number of its own: those with a number within the limit are at most as  *)
(* many as the limit, whoever decides first.  Good(w) are those of them    *)
(* that are not decided yet.                                               *)
(***************************************************************************)
EXTENDS Quota, TLAPS, FiniteSetTheorems

\* A window that no request under way or to come belongs to.
Past(w) == \A m \in Nat : m + 1 >= minute => w # Day(m) /\ w # Minute(m)

\* The requests that were given a number of window w within its limit, and are
\* not decided yet.
Good(w) ==
    {r \in Requests :
        \/ /\ w = Day(now[r]) /\ daily[r] <= Limit(w)
           /\ pc[r] \in {"expireDaily", "incrMinute", "expireMinute", "decide"}
        \/ /\ w = Minute(now[r]) /\ perMinute[r] <= Limit(w)
           /\ pc[r] \in {"expireMinute", "decide"}}

\* The numbers given out within the limit are enough for those who are let
\* through and those who may yet be.
WithinLimit(w) ==
    Limit(w) # 0 =>
        /\ admitted[w] + Cardinality(Good(w)) <= Limit(w)
        /\ Past(w) \/ admitted[w] + Cardinality(Good(w)) <= count[w]

\* Requests are short, their numbers were counted, and a counter is given its
\* TTL in a window it counts.
CountsOK ==
    /\ \A r \in Requests : pc[r] \in Busy => now[r] <= minute /\ minute <= now[r] + 1
    /\ \A w \in Windows : count[w] <= hits[w]
    /\ \A r \in Requests : daily[r] <= hits[Day(now[r])] /\ perMinute[r] <= hits[Minute(now[r])]
    /\ \A w \in expiring : \E n \in 0..touched[w] : w = Day(n) \/ w = Minute(n)

QuotaInv ==
    /\ TypeOK /\ CountsOK
    /\ RejectedOnlyOverLimit
    /\ \A w \in Windows : WithinLimit(w)
    /\ OnlyFailuresLeak

Ownerless ==
    {w \in Windows :
        /\ count[w] > 0 /\ w \notin expiring
        /\ \A r \in Requests : w = Day(now[r]) => pc[r] # "expireDaily"
        /\ \A r \in Requests : w = Minute(now[r]) => pc[r] # "expireMinute"}

\* Minutes a whole day apart are of different days.
LEMMA DivStep ==
    ASSUME NEW D \in Nat \ {0}, NEW m \in Nat, NEW n \in Nat, m >= n + D
    PROVE  m \div D # n \div D
  OBVIOUS

\* Days and minutes are different windows, minutes are told apart by their
\* number, and a window is one of them and has the limit of its kind.
LEMMA WindowFacts ==
    /\ \A m, n : Day(m) # Minute(n)
    /\ \A m, n : Minute(m) = Minute(n) => m = n
    /\ \A m \in 0..LastMinute : Day(m) \in Windows /\ Minute(m) \in Windows
    /\ \A m : Limit(Day(m)) = DailyQuota /\ Limit(Minute(m)) = RateLimit
    /\ \A w \in Windows : \E m \in 0..LastMinute : w = Day(m) \/ w = Minute(m)
  BY DEF Day, Minute, Windows, Limit

\* The windows are finitely many.
LEMMA FiniteWindows == ASSUME ConstantsOK PROVE IsFiniteSet(Windows)
  <1>1. IsFiniteSet(0..LastMinute)
    BY FS_Interval DEF ConstantsOK
  <1>2. IsFiniteSet({Day(m) : m \in 0..LastMinute})
    <2>1. [m \in 0..LastMinute |-> Day(m)] \in Surjection(0..LastMinute, {Day(m) : m \in 0..LastMinute})
      BY DEF Surjection
    <2> QED BY <1>1, <2>1, FS_Surjection
  <1>3. IsFiniteSet({Minute(m) : m \in 0..LastMinute})
    <2>1. [m \in 0..LastMinute |-> Minute(m)]
            \in Surjection(0..LastMinute, {Minute(m) : m \in 0..LastMinute})
      BY DEF Surjection
    <2> QED BY <1>1, <2>1, FS_Surjection
  <1> QED BY <1>2, <1>3, FS_Union DEF Windows

\* The requests with a number within the limit are finitely many.
LEMMA GoodCount ==
    ASSUME ConstantsOK, NEW w
    PROVE  IsFiniteSet(Good(w)) /\ Cardinality(Good(w)) \in Nat
  <1>1. Good(w) \subseteq Requests
    BY DEF Good
  <1> QED BY <1>1, FS_Subset, FS_CardinalityType DEF ConstantsOK

\* A window from which no number within the limit was given, and in which no
\* request was let through.
LEMMA StaysWithin ==
    ASSUME ConstantsOK, TypeOK, NEW w \in Windows, WithinLimit(w), TypeOK',
           Good(w)' \subseteq Good(w), admitted'[w] = admitted[w],
           count'[w] >= count[w] \/ Past(w)', Past(w) => Past(w)'
    PROVE  WithinLimit(w)'
  <1>1. /\ Cardinality(Good(w)) \in Nat /\ Cardinality(Good(w)') \in Nat
        /\ Cardinality(Good(w)') <= Cardinality(Good(w))
    BY GoodCount, FS_Subset, FS_CardinalityType
  <1>2. /\ admitted[w] \in Nat /\ count[w] \in Nat /\ count'[w] \in Nat /\ Limit(w) \in Nat
        /\ Limit(w)' = Limit(w)
    BY DEF TypeOK, Limit, ConstantsOK
  <1>3. Cardinality(Good(w))' = Cardinality(Good(w)')
    OBVIOUS
  <1> QED BY <1>1, <1>2, <1>3 DEF WithinLimit

\* A step that adds to no set of ownerless counters.
LEMMA StillOwned ==
    ASSUME ConstantsOK, TypeOK, OnlyFailuresLeak, Ownerless' \subseteq Ownerless, faults' = faults
    PROVE  OnlyFailuresLeak'
  <1>1. IsFiniteSet(Ownerless)
    BY FiniteWindows, FS_Subset DEF Ownerless
  <1>2. Cardinality(Ownerless') <= Cardinality(Ownerless) /\ Cardinality(Ownerless') \in Nat
        /\ Cardinality(Ownerless) \in Nat
    BY <1>1, FS_Subset, FS_CardinalityType
  <1>3. OnlyFailuresLeak <=> Cardinality(Ownerless) <= faults
    BY DEF OnlyFailuresLeak, Ownerless
  <1>4. OnlyFailuresLeak' <=> Cardinality(Ownerless') <= faults'
    BY DEF OnlyFailuresLeak, Ownerless
  <1>5. faults \in Nat
    BY DEF TypeOK, ConstantsOK
  <1> QED BY <1>2, <1>3, <1>4, <1>5

\* What the invariant says of a request, with its windows.
LEMMA RequestFacts ==
    ASSUME ConstantsOK, QuotaInv, NEW r \in Requests
    PROVE  /\ now[r] \in Nat /\ minute \in Nat /\ pc[r] \in Labels
           /\ Day(now[r]) \in Windows /\ Minute(now[r]) \in Windows
           /\ daily[r] \in Nat /\ perMinute[r] \in Nat
           /\ pc[r] \in Busy => ~Past(Day(now[r])) /\ ~Past(Minute(now[r]))
  <1>1. /\ now[r] \in 0..LastMinute /\ minute \in 0..LastMinute /\ pc[r] \in Labels
        /\ daily[r] \in Nat /\ perMinute[r] \in Nat /\ LastMinute \in Nat
    BY DEF QuotaInv, TypeOK, ConstantsOK
  <1>2. now[r] \in Nat /\ minute \in Nat
    BY <1>1
  <1>3. pc[r] \in Busy => now[r] + 1 >= minute
    BY <1>2 DEF QuotaInv, CountsOK
  <1> QED BY <1>1, <1>2, <1>3, WindowFacts DEF Past

\* The daily counter is given its TTL (QuotaRepository.hit).
LEMMA ExpireDailyStep ==
    ASSUME ConstantsOK, QuotaInv, NEW r \in Requests, ExpireDaily(r)
    PROVE  QuotaInv'
  <1> DEFINE d == Day(now[r])
  <1>1. /\ UNCHANGED <<minute, count, hits, admitted, now, daily, perMinute, faults>>
        /\ pc[r] = "expireDaily" /\ pc' = [pc EXCEPT ![r] = "incrMinute"]
        /\ expiring' = expiring \cup {d} /\ touched' = [touched EXCEPT ![d] = minute]
    BY DEF ExpireDaily, At, GoTo, Expire
  <1>2. /\ now[r] \in Nat /\ minute \in Nat /\ d \in Windows /\ pc[r] \in Labels
        /\ now[r] <= minute /\ minute <= now[r] + 1
    BY <1>1, RequestFacts DEF QuotaInv, CountsOK, Busy
  <1>3. TypeOK'
    BY <1>1, <1>2 DEF QuotaInv, TypeOK, Labels, Busy
  <1>4. CountsOK'
    <2>1. \A w \in expiring' : \E n \in 0..touched'[w] : w = Day(n) \/ w = Minute(n)
      <3> SUFFICES ASSUME NEW w \in expiring'
                   PROVE  \E n \in 0..touched'[w] : w = Day(n) \/ w = Minute(n)
        OBVIOUS
      <3>1. CASE w = d
        <4>1. touched'[w] = minute
          BY <1>1, <1>2, <3>1 DEF QuotaInv, TypeOK
        <4>2. now[r] \in 0..touched'[w]
          BY <1>2, <4>1
        <4> QED BY <3>1, <4>2
      <3>2. CASE w # d
        BY <1>1, <3>2 DEF QuotaInv, TypeOK, CountsOK
      <3> QED BY <3>1, <3>2
    <2>2. \A q \in Requests : pc'[q] \in Busy => pc[q] \in Busy
      BY <1>1 DEF QuotaInv, TypeOK, Busy
    <2> QED BY <1>1, <2>1, <2>2 DEF QuotaInv, CountsOK
  <1>5. RejectedOnlyOverLimit'
    BY <1>1 DEF QuotaInv, TypeOK, RejectedOnlyOverLimit, Over, Limit
  <1>6. ASSUME NEW w \in Windows PROVE WithinLimit(w)'
    <2>1. Good(w)' \subseteq Good(w)
      BY <1>1 DEF Good, QuotaInv, TypeOK, Limit
    <2>2. Past(w) => Past(w)'
      BY <1>1 DEF Past
    <2>3. admitted'[w] = admitted[w] /\ count'[w] = count[w] /\ count[w] \in Nat
      BY <1>1 DEF QuotaInv, TypeOK
    <2> QED BY <1>3, <2>1, <2>2, <2>3, StaysWithin DEF QuotaInv
  <1>7. Ownerless' \subseteq Ownerless
    BY <1>1 DEF Ownerless, QuotaInv, TypeOK
  <1> QED BY <1>1, <1>3, <1>4, <1>5, <1>6, <1>7, StillOwned DEF QuotaInv

\* The minute counter is given its TTL (QuotaRepository.hit).
LEMMA ExpireMinuteStep ==
    ASSUME ConstantsOK, QuotaInv, NEW r \in Requests, ExpireMinute(r)
    PROVE  QuotaInv'
  <1> DEFINE d == Minute(now[r])
  <1>1. /\ UNCHANGED <<minute, count, hits, admitted, now, daily, perMinute, faults>>
        /\ pc[r] = "expireMinute" /\ pc' = [pc EXCEPT ![r] = "decide"]
        /\ expiring' = expiring \cup {d} /\ touched' = [touched EXCEPT ![d] = minute]
    BY DEF ExpireMinute, At, GoTo, Expire
  <1>2. /\ now[r] \in Nat /\ minute \in Nat /\ d \in Windows /\ pc[r] \in Labels
        /\ now[r] <= minute /\ minute <= now[r] + 1
    BY <1>1, RequestFacts DEF QuotaInv, CountsOK, Busy
  <1>3. TypeOK'
    BY <1>1, <1>2 DEF QuotaInv, TypeOK, Labels, Busy
  <1>4. CountsOK'
    <2>1. \A w \in expiring' : \E n \in 0..touched'[w] : w = Day(n) \/ w = Minute(n)
      <3> SUFFICES ASSUME NEW w \in expiring'
                   PROVE  \E n \in 0..touched'[w] : w = Day(n) \/ w = Minute(n)
        OBVIOUS
      <3>1. CASE w = d
        <4>1. touched'[w] = minute
          BY <1>1, <1>2, <3>1 DEF QuotaInv, TypeOK
        <4>2. now[r] \in 0..touched'[w]
          BY <1>2, <4>1
        <4> QED BY <3>1, <4>2
      <3>2. CASE w # d
        BY <1>1, <3>2 DEF QuotaInv, TypeOK, CountsOK
      <3> QED BY <3>1, <3>2
    <2>2. \A q \in Requests : pc'[q] \in Busy => pc[q] \in Busy
      BY <1>1 DEF QuotaInv, TypeOK, Busy
    <2> QED BY <1>1, <2>1, <2>2 DEF QuotaInv, CountsOK
  <1>5. RejectedOnlyOverLimit'
    BY <1>1 DEF QuotaInv, TypeOK, RejectedOnlyOverLimit, Over, Limit
  <1>6. ASSUME NEW w \in Windows PROVE WithinLimit(w)'
    <2>1. Good(w)' \subseteq Good(w)
      BY <1>1 DEF Good, QuotaInv, TypeOK, Limit
    <2>2. Past(w) => Past(w)'
      BY <1>1 DEF Past
    <2>3. admitted'[w] = admitted[w] /\ count'[w] = count[w] /\ count[w] \in Nat
      BY <1>1 DEF QuotaInv, TypeOK
    <2> QED BY <1>3, <2>1, <2>2, <2>3, StaysWithin DEF QuotaInv
  <1>7. Ownerless' \subseteq Ownerless
    BY <1>1 DEF Ownerless, QuotaInv, TypeOK
  <1> QED BY <1>1, <1>3, <1>4, <1>5, <1>6, <1>7, StillOwned DEF QuotaInv

\* A request is given the next number of its day (QuotaRepository.hit).
LEMMA IncrDailyStep ==
    ASSUME ConstantsOK, QuotaInv, NEW r \in Requests, IncrDaily(r)
    PROVE  QuotaInv'
  <1> DEFINE d == Day(now[r])
  <1>1. /\ UNCHANGED <<minute, expiring, touched, admitted, now, perMinute, faults>>
        /\ pc[r] = "incrDaily" /\ pc' = [pc EXCEPT ![r] = "expireDaily"]
        /\ count' = [count EXCEPT ![d] = @ + 1] /\ hits' = [hits EXCEPT ![d] = @ + 1]
        /\ daily' = [daily EXCEPT ![r] = count[d] + 1]
    BY DEF IncrDaily, At, GoTo, Incr
  <1>2. /\ now[r] \in Nat /\ minute \in Nat /\ d \in Windows /\ pc[r] \in Busy
        /\ now[r] <= minute /\ minute <= now[r] + 1 /\ ~Past(d)
    BY <1>1, RequestFacts DEF QuotaInv, CountsOK, Busy
  <1>3. /\ \A w \in Windows : count[w] \in Nat /\ hits[w] \in Nat /\ count[w] <= hits[w]
        /\ \A q \in Requests : /\ daily[q] \in Nat /\ perMinute[q] \in Nat
                               /\ Day(now[q]) \in Windows /\ Minute(now[q]) \in Windows
    BY RequestFacts DEF QuotaInv, TypeOK, CountsOK
  <1>4. /\ \A w \in Windows : /\ count'[w] = IF w = d THEN count[d] + 1 ELSE count[w]
                              /\ hits'[w] = IF w = d THEN hits[d] + 1 ELSE hits[w]
        /\ \A q \in Requests : /\ pc'[q] = IF q = r THEN "expireDaily" ELSE pc[q]
                               /\ daily'[q] = IF q = r THEN count[d] + 1 ELSE daily[q]
    BY <1>1, <1>2 DEF QuotaInv, TypeOK
  <1>5. TypeOK'
    BY <1>1, <1>2, <1>3 DEF QuotaInv, TypeOK, Labels, Busy
  <1>6. CountsOK'
    <2>1. \A q \in Requests : pc'[q] \in Busy => pc[q] \in Busy
      BY <1>2, <1>4
    <2>2. \A w \in Windows : count'[w] <= hits'[w]
      BY <1>3, <1>4, <1>2
    <2>3. \A q \in Requests : daily'[q] <= hits'[Day(now[q])] /\ perMinute'[q] <= hits'[Minute(now[q])]
      <3> SUFFICES ASSUME NEW q \in Requests
                   PROVE  daily'[q] <= hits'[Day(now[q])] /\ perMinute'[q] <= hits'[Minute(now[q])]
        OBVIOUS
      <3>1. daily[q] <= hits[Day(now[q])] /\ perMinute[q] <= hits[Minute(now[q])]
        BY DEF QuotaInv, CountsOK
      <3>2. perMinute'[q] = perMinute[q]
        BY <1>1
      <3>3. hits'[Day(now[q])] >= hits[Day(now[q])] /\ hits'[Minute(now[q])] >= hits[Minute(now[q])]
        BY <1>3, <1>4
      <3>4. perMinute'[q] <= hits'[Minute(now[q])]
        BY <1>2, <1>3, <1>4, <3>1, <3>2, <3>3
      <3>5. daily'[q] <= hits'[Day(now[q])]
        <4>1. CASE q = r
          BY <1>2, <1>3, <1>4, <4>1
        <4>2. CASE q # r
          BY <1>2, <1>3, <1>4, <3>1, <3>3, <4>2
        <4> QED BY <4>1, <4>2
      <3> QED BY <3>4, <3>5
    <2> QED BY <1>1, <2>1, <2>2, <2>3 DEF QuotaInv, CountsOK
  <1>7. RejectedOnlyOverLimit'
    <2> SUFFICES ASSUME NEW q \in Requests, pc'[q] = "rejected"
                 PROVE  \E w \in {Day(now[q]), Minute(now[q])} : Over(hits'[w], Limit(w))
      BY <1>1 DEF RejectedOnlyOverLimit, Limit
    <2>1. pc[q] = "rejected"
      BY <1>4
    <2>2. PICK w \in {Day(now[q]), Minute(now[q])} : Over(hits[w], Limit(w))
      BY <2>1 DEF QuotaInv, RejectedOnlyOverLimit
    <2>3. w \in Windows /\ hits'[w] >= hits[w] /\ hits[w] \in Nat /\ hits'[w] \in Nat
      BY <1>2, <1>3, <1>4
    <2>4. Limit(w) \in Nat
      BY DEF Limit, ConstantsOK
    <2> QED BY <2>2, <2>3, <2>4 DEF Over
  <1>8. ASSUME NEW w \in Windows PROVE WithinLimit(w)'
    <2>1. Past(w) => Past(w)'
      BY <1>1 DEF Past
    <2>2. admitted'[w] = admitted[w] /\ count'[w] >= count[w]
      BY <1>1, <1>3, <1>4
    <2>3. CASE Good(w)' \subseteq Good(w)
      BY <1>5, <2>1, <2>2, <2>3, StaysWithin DEF QuotaInv
    <2>4. CASE ~(Good(w)' \subseteq Good(w))
      <3>1. Good(w)' \subseteq Good(w) \cup {r}
        BY <1>1, <1>4 DEF Good, Limit
      <3>2. r \in Good(w)'
        BY <2>4, <3>1
      <3>3. w = d /\ count[d] + 1 <= Limit(w)
        BY <1>1, <1>4, <3>2 DEF Good, Limit
      <3>4. /\ IsFiniteSet(Good(w)) /\ Cardinality(Good(w)) \in Nat
            /\ Cardinality(Good(w)') \in Nat /\ Cardinality(Good(w)') <= Cardinality(Good(w)) + 1
        <4>1. IsFiniteSet(Good(w)) /\ Cardinality(Good(w)) \in Nat
          BY GoodCount
        <4>2. /\ IsFiniteSet(Good(w) \cup {r})
              /\ Cardinality(Good(w) \cup {r}) <= Cardinality(Good(w)) + 1
          BY <4>1, FS_AddElement
        <4>3. /\ IsFiniteSet(Good(w)')
              /\ Cardinality(Good(w)') <= Cardinality(Good(w) \cup {r})
          BY <3>1, <4>2, FS_Subset
        <4> QED BY <4>1, <4>2, <4>3, FS_CardinalityType
      <3>5. admitted[w] \in Nat /\ count[w] \in Nat /\ Limit(w) \in Nat /\ Limit(w)' = Limit(w)
        BY <1>3 DEF QuotaInv, TypeOK, Limit, ConstantsOK
      <3>6. Limit(w) # 0 => admitted[w] + Cardinality(Good(w)) <= count[w]
        BY <1>2, <3>3 DEF QuotaInv, WithinLimit
      <3>7. Cardinality(Good(w))' = Cardinality(Good(w)') /\ count'[w] = count[w] + 1
        BY <1>4, <3>3
      <3> QED BY <2>2, <3>3, <3>4, <3>5, <3>6, <3>7 DEF WithinLimit
    <2> QED BY <2>3, <2>4
  <1>9. Ownerless' \subseteq Ownerless
    <2> SUFFICES ASSUME NEW w \in Windows, w \in Ownerless' PROVE w \in Ownerless
      BY DEF Ownerless
    <2>1. w # d
      BY <1>1, <1>4 DEF Ownerless
    <2>2. count'[w] = count[w] /\ expiring' = expiring
      BY <1>1, <1>4, <2>1
    <2>3. \A q \in Requests : pc'[q] # "expireDaily" => pc[q] # "expireDaily"
      BY <1>1, <1>4
    <2>4. \A q \in Requests : pc'[q] # "expireMinute" => pc[q] # "expireMinute"
      BY <1>1, <1>4
    <2> QED BY <1>1, <2>2, <2>3, <2>4 DEF Ownerless
  <1> QED BY <1>1, <1>5, <1>6, <1>7, <1>8, <1>9, StillOwned DEF QuotaInv

\* A request is given the next number of its minute (QuotaRepository.hit).
LEMMA IncrMinuteStep ==
    ASSUME ConstantsOK, QuotaInv, NEW r \in Requests, IncrMinute(r)
    PROVE  QuotaInv'
  <1> DEFINE d == Minute(now[r])
  <1>1. /\ UNCHANGED <<minute, expiring, touched, admitted, now, daily, faults>>
        /\ pc[r] = "incrMinute" /\ pc' = [pc EXCEPT ![r] = "expireMinute"]
        /\ count' = [count EXCEPT ![d] = @ + 1] /\ hits' = [hits EXCEPT ![d] = @ + 1]
        /\ perMinute' = [perMinute EXCEPT ![r] = count[d] + 1]
    BY DEF IncrMinute, At, GoTo, Incr
  <1>2. /\ now[r] \in Nat /\ minute \in Nat /\ d \in Windows /\ pc[r] \in Busy
        /\ now[r] <= minute /\ minute <= now[r] + 1 /\ ~Past(d)
    BY <1>1, RequestFacts DEF QuotaInv, CountsOK, Busy
  <1>3. /\ \A w \in Windows : count[w] \in Nat /\ hits[w] \in Nat /\ count[w] <= hits[w]
        /\ \A q \in Requests : /\ daily[q] \in Nat /\ perMinute[q] \in Nat
                               /\ Day(now[q]) \in Windows /\ Minute(now[q]) \in Windows
    BY RequestFacts DEF QuotaInv, TypeOK, CountsOK
  <1>4. /\ \A w \in Windows : /\ count'[w] = IF w = d THEN count[d] + 1 ELSE count[w]
                              /\ hits'[w] = IF w = d THEN hits[d] + 1 ELSE hits[w]
        /\ \A q \in Requests : /\ pc'[q] = IF q = r THEN "expireMinute" ELSE pc[q]
                               /\ perMinute'[q] = IF q = r THEN count[d] + 1 ELSE perMinute[q]
    BY <1>1, <1>2 DEF QuotaInv, TypeOK
  <1>5. TypeOK'
    BY <1>1, <1>2, <1>3 DEF QuotaInv, TypeOK, Labels, Busy
  <1>6. CountsOK'
    <2>1. \A q \in Requests : pc'[q] \in Busy => pc[q] \in Busy
      BY <1>2, <1>4
    <2>2. \A w \in Windows : count'[w] <= hits'[w]
      BY <1>3, <1>4, <1>2
    <2>3. \A q \in Requests : daily'[q] <= hits'[Day(now[q])] /\ perMinute'[q] <= hits'[Minute(now[q])]
      <3> SUFFICES ASSUME NEW q \in Requests
                   PROVE  daily'[q] <= hits'[Day(now[q])] /\ perMinute'[q] <= hits'[Minute(now[q])]
        OBVIOUS
      <3>1. daily[q] <= hits[Day(now[q])] /\ perMinute[q] <= hits[Minute(now[q])]
        BY DEF QuotaInv, CountsOK
      <3>2. daily'[q] = daily[q]
        BY <1>1
      <3>3. hits'[Day(now[q])] >= hits[Day(now[q])] /\ hits'[Minute(now[q])] >= hits[Minute(now[q])]
        BY <1>3, <1>4
      <3>4. daily'[q] <= hits'[Day(now[q])]
        BY <1>2, <1>3, <1>4, <3>1, <3>2, <3>3
      <3>5. perMinute'[q] <= hits'[Minute(now[q])]
        <4>1. CASE q = r
          BY <1>2, <1>3, <1>4, <4>1
        <4>2. CASE q # r
          BY <1>2, <1>3, <1>4, <3>1, <3>3, <4>2
        <4> QED BY <4>1, <4>2
      <3> QED BY <3>4, <3>5
    <2> QED BY <1>1, <2>1, <2>2, <2>3 DEF QuotaInv, CountsOK
  <1>7. RejectedOnlyOverLimit'
    <2> SUFFICES ASSUME NEW q \in Requests, pc'[q] = "rejected"
                 PROVE  \E w \in {Day(now[q]), Minute(now[q])} : Over(hits'[w], Limit(w))
      BY <1>1 DEF RejectedOnlyOverLimit, Limit
    <2>1. pc[q] = "rejected"
      BY <1>4
    <2>2. PICK w \in {Day(now[q]), Minute(now[q])} : Over(hits[w], Limit(w))
      BY <2>1 DEF QuotaInv, RejectedOnlyOverLimit
    <2>3. w \in Windows /\ hits'[w] >= hits[w] /\ hits[w] \in Nat /\ hits'[w] \in Nat
      BY <1>2, <1>3, <1>4
    <2>4. Limit(w) \in Nat
      BY DEF Limit, ConstantsOK
    <2> QED BY <2>2, <2>3, <2>4 DEF Over
  <1>8. ASSUME NEW w \in Windows PROVE WithinLimit(w)'
    <2>1. Past(w) => Past(w)'
      BY <1>1 DEF Past
    <2>2. admitted'[w] = admitted[w] /\ count'[w] >= count[w]
      BY <1>1, <1>3, <1>4
    <2>3. CASE Good(w)' \subseteq Good(w)
      BY <1>5, <2>1, <2>2, <2>3, StaysWithin DEF QuotaInv
    <2>4. CASE ~(Good(w)' \subseteq Good(w))
      <3>1. Good(w)' \subseteq Good(w) \cup {r}
        BY <1>1, <1>4 DEF Good, Limit
      <3>2. r \in Good(w)' /\ r \notin Good(w)
        BY <2>4, <3>1
      <3>3. w = d /\ count[d] + 1 <= Limit(w)
        BY <1>1, <1>4, <3>2 DEF Good, Limit
      <3>4. /\ IsFiniteSet(Good(w)) /\ Cardinality(Good(w)) \in Nat
            /\ Cardinality(Good(w)') \in Nat /\ Cardinality(Good(w)') <= Cardinality(Good(w)) + 1
        <4>1. IsFiniteSet(Good(w)) /\ Cardinality(Good(w)) \in Nat
          BY GoodCount
        <4>2. /\ IsFiniteSet(Good(w) \cup {r})
              /\ Cardinality(Good(w) \cup {r}) <= Cardinality(Good(w)) + 1
          BY <4>1, FS_AddElement
        <4>3. /\ IsFiniteSet(Good(w)')
              /\ Cardinality(Good(w)') <= Cardinality(Good(w) \cup {r})
          BY <3>1, <4>2, FS_Subset
        <4> QED BY <4>1, <4>2, <4>3, FS_CardinalityType
      <3>5. admitted[w] \in Nat /\ count[w] \in Nat /\ Limit(w) \in Nat /\ Limit(w)' = Limit(w)
        BY <1>3 DEF QuotaInv, TypeOK, Limit, ConstantsOK
      <3>6. Limit(w) # 0 => admitted[w] + Cardinality(Good(w)) <= count[w]
        BY <1>2, <3>3 DEF QuotaInv, WithinLimit
      <3>7. Cardinality(Good(w))' = Cardinality(Good(w)') /\ count'[w] = count[w] + 1
        BY <1>4, <3>3
      <3> QED BY <2>2, <3>3, <3>4, <3>5, <3>6, <3>7 DEF WithinLimit
    <2> QED BY <2>3, <2>4
  <1>9. Ownerless' \subseteq Ownerless
    <2> SUFFICES ASSUME NEW w \in Windows, w \in Ownerless' PROVE w \in Ownerless
      BY DEF Ownerless
    <2>1. w # d
      BY <1>1, <1>4 DEF Ownerless
    <2>2. count'[w] = count[w] /\ expiring' = expiring
      BY <1>1, <1>4, <2>1
    <2>3. \A q \in Requests : pc'[q] # "expireDaily" => pc[q] # "expireDaily"
      BY <1>1, <1>4
    <2>4. \A q \in Requests : pc'[q] # "expireMinute" => pc[q] # "expireMinute"
      BY <1>1, <1>4
    <2> QED BY <1>1, <2>2, <2>3, <2>4 DEF Ownerless
  <1> QED BY <1>1, <1>5, <1>6, <1>7, <1>8, <1>9, StillOwned DEF QuotaInv

\* A request with both its numbers is let through or rejected (enforce_quota):
\* who is let through leaves the set of those with a number within the limit.
LEMMA DecideStep ==
    ASSUME ConstantsOK, QuotaInv, NEW r \in Requests, Decide(r)
    PROVE  QuotaInv'
  <1> DEFINE mine == {Day(now[r]), Minute(now[r])}
             over == Over(daily[r], DailyQuota) \/ Over(perMinute[r], RateLimit)
  <1>1. /\ UNCHANGED <<minute, count, expiring, touched, hits, now, daily, perMinute, faults>>
        /\ pc[r] = "decide"
        /\ over => pc' = [pc EXCEPT ![r] = "rejected"] /\ admitted' = admitted
        /\ ~over => /\ pc' = [pc EXCEPT ![r] = "admitted"]
                    /\ admitted' = [w \in Windows |-> admitted[w] + IF w \in mine THEN 1 ELSE 0]
    BY DEF Decide, At, GoTo
  <1>2. /\ now[r] \in Nat /\ minute \in Nat /\ mine \subseteq Windows
        /\ daily[r] \in Nat /\ perMinute[r] \in Nat
        /\ daily[r] <= hits[Day(now[r])] /\ perMinute[r] <= hits[Minute(now[r])]
        /\ hits[Day(now[r])] \in Nat /\ hits[Minute(now[r])] \in Nat
    BY RequestFacts DEF QuotaInv, CountsOK, TypeOK
  <1>3. /\ \A q \in Requests : q # r => pc'[q] = pc[q]
        /\ pc'[r] = IF over THEN "rejected" ELSE "admitted"
    BY <1>1 DEF QuotaInv, TypeOK
  <1>4. \A w \in Windows :
            /\ admitted[w] \in Nat
            /\ admitted'[w] = IF ~over /\ w \in mine THEN admitted[w] + 1 ELSE admitted[w]
    BY <1>1 DEF QuotaInv, TypeOK
  <1>5. TypeOK'
    <2>1. pc' \in [Requests -> Labels]
      BY <1>1 DEF QuotaInv, TypeOK, Labels
    <2>2. admitted' \in [Windows -> Nat]
      BY <1>1 DEF QuotaInv, TypeOK
    <2> QED BY <1>1, <2>1, <2>2 DEF QuotaInv, TypeOK
  <1>6. CountsOK'
    <2>1. \A q \in Requests : pc'[q] \in Busy => pc[q] \in Busy
      BY <1>3 DEF Busy
    <2> QED BY <1>1, <2>1 DEF QuotaInv, CountsOK
  <1>7. RejectedOnlyOverLimit'
    <2> SUFFICES ASSUME NEW q \in Requests, pc'[q] = "rejected"
                 PROVE  \E w \in {Day(now[q]), Minute(now[q])} : Over(hits[w], Limit(w))
      BY <1>1 DEF RejectedOnlyOverLimit, Limit
    <2>1. CASE q # r
      BY <1>3, <2>1 DEF QuotaInv, RejectedOnlyOverLimit
    <2>2. CASE q = r
      <3>1. over
        BY <1>3, <2>2
      <3>2. CASE Over(daily[r], DailyQuota)
        <4>1. Over(hits[Day(now[r])], DailyQuota)
          BY <1>2, <3>2 DEF Over, ConstantsOK
        <4> QED BY <2>2, <4>1, WindowFacts
      <3>3. CASE Over(perMinute[r], RateLimit)
        <4>1. Over(hits[Minute(now[r])], RateLimit)
          BY <1>2, <3>3 DEF Over, ConstantsOK
        <4> QED BY <2>2, <4>1, WindowFacts
      <3> QED BY <3>1, <3>2, <3>3
    <2> QED BY <2>1, <2>2
  <1>8. ASSUME NEW w \in Windows PROVE WithinLimit(w)'
    <2>1. Past(w) => Past(w)'
      BY <1>1 DEF Past
    <2>2. Good(w)' \subseteq Good(w) \ {r}
      BY <1>1, <1>3 DEF Good, Limit
    <2>3. count[w] \in Nat /\ count'[w] = count[w]
      BY <1>1 DEF QuotaInv, TypeOK
    <2>4. CASE admitted'[w] = admitted[w]
      BY <1>5, <2>1, <2>2, <2>3, <2>4, StaysWithin DEF QuotaInv
    <2>5. CASE admitted'[w] # admitted[w]
      <3>1. ~over /\ w \in mine /\ admitted'[w] = admitted[w] + 1
        BY <1>4, <2>5
      <3> HIDE DEF over
      <3>2. CASE Limit(w) = 0
        <4>1. Limit(w)' = 0
          BY <3>2 DEF Limit
        <4> QED BY <4>1 DEF WithinLimit
      <3>3. CASE Limit(w) # 0
        <4>1. r \in Good(w)
          <5>1. ~Over(daily[r], DailyQuota) /\ ~Over(perMinute[r], RateLimit)
            BY <3>1 DEF over
          <5>2. w = Day(now[r]) => daily[r] <= Limit(w)
            BY <1>2, <3>3, <5>1, WindowFacts DEF Over, ConstantsOK
          <5>3. w = Minute(now[r]) => perMinute[r] <= Limit(w)
            BY <1>2, <3>3, <5>1, WindowFacts DEF Over, ConstantsOK
          <5> QED BY <1>1, <3>1, <5>2, <5>3 DEF Good
        <4>2. IsFiniteSet(Good(w)) /\ Cardinality(Good(w)) \in Nat
          BY GoodCount
        <4>3. /\ IsFiniteSet(Good(w) \ {r})
              /\ Cardinality(Good(w) \ {r}) = Cardinality(Good(w)) - 1
          BY <4>1, <4>2, FS_RemoveElement
        <4>4. IsFiniteSet(Good(w)') /\ Cardinality(Good(w)') <= Cardinality(Good(w) \ {r})
          BY <2>2, <4>3, FS_Subset
        <4>5. Cardinality(Good(w)') \in Nat
          BY <4>4, FS_CardinalityType
        <4>6. /\ Cardinality(Good(w))' = Cardinality(Good(w)')
              /\ Limit(w)' = Limit(w) /\ Limit(w) \in Nat /\ admitted[w] \in Nat
          BY <1>4 DEF Limit, ConstantsOK
        <4>7. /\ admitted[w] + Cardinality(Good(w)) <= Limit(w)
              /\ Past(w) \/ admitted[w] + Cardinality(Good(w)) <= count[w]
          BY <3>3 DEF QuotaInv, WithinLimit
        <4> QED BY <2>1, <2>3, <3>1, <4>2, <4>3, <4>4, <4>5, <4>6, <4>7 DEF WithinLimit
      <3> QED BY <3>2, <3>3
    <2> QED BY <2>4, <2>5
  <1>9. Ownerless' \subseteq Ownerless
    <2>1. \A q \in Requests : /\ pc'[q] # "expireDaily" => pc[q] # "expireDaily"
                              /\ pc'[q] # "expireMinute" => pc[q] # "expireMinute"
      BY <1>1, <1>3
    <2> QED BY <1>1, <2>1 DEF Ownerless
  <1> QED BY <1>1, <1>5, <1>6, <1>7, <1>8, <1>9, StillOwned DEF QuotaInv

\* A request begins (QuotaRepository.hit).
LEMMA HitStep ==
    ASSUME ConstantsOK, QuotaInv, NEW r \in Requests, Hit(r)
    PROVE  QuotaInv'
  <1>1. /\ UNCHANGED <<minute, count, expiring, touched, hits, admitted, faults>>
        /\ pc[r] \notin Busy /\ pc' = [pc EXCEPT ![r] = "incrDaily"]
        /\ now' = [now EXCEPT ![r] = minute]
        /\ daily' = [daily EXCEPT ![r] = 0] /\ perMinute' = [perMinute EXCEPT ![r] = 0]
    BY DEF Hit, GoTo
  <1>2. minute \in 0..LastMinute /\ minute \in Nat
    BY DEF QuotaInv, TypeOK, ConstantsOK
  <1>3. /\ \A q \in Requests : q # r => /\ pc'[q] = pc[q] /\ now'[q] = now[q]
                                        /\ daily'[q] = daily[q] /\ perMinute'[q] = perMinute[q]
        /\ pc'[r] = "incrDaily" /\ now'[r] = minute /\ daily'[r] = 0 /\ perMinute'[r] = 0
    BY <1>1 DEF QuotaInv, TypeOK
  <1>4. TypeOK'
    BY <1>1, <1>2 DEF QuotaInv, TypeOK, Labels, Busy
  <1>5. CountsOK'
    <2>1. \A q \in Requests : pc'[q] \in Busy => now'[q] <= minute' /\ minute' <= now'[q] + 1
      BY <1>1, <1>2, <1>3 DEF QuotaInv, CountsOK
    <2>2. Day(minute) \in Windows /\ Minute(minute) \in Windows
      BY <1>2, WindowFacts
    <2>3. \A q \in Requests : daily'[q] <= hits[Day(now'[q])] /\ perMinute'[q] <= hits[Minute(now'[q])]
      BY <1>3, <2>2 DEF QuotaInv, CountsOK, TypeOK
    <2> QED BY <1>1, <2>1, <2>3 DEF QuotaInv, CountsOK
  <1>6. RejectedOnlyOverLimit'
    BY <1>1, <1>3 DEF QuotaInv, RejectedOnlyOverLimit, Limit
  <1>7. ASSUME NEW w \in Windows PROVE WithinLimit(w)'
    <2>1. Past(w) => Past(w)'
      BY <1>1 DEF Past
    <2>2. Good(w)' \subseteq Good(w)
      BY <1>3 DEF Good, Limit
    <2>3. admitted'[w] = admitted[w] /\ count'[w] = count[w] /\ count[w] \in Nat
      BY <1>1 DEF QuotaInv, TypeOK
    <2> QED BY <1>4, <2>1, <2>2, <2>3, StaysWithin DEF QuotaInv
  <1>8. Ownerless' \subseteq Ownerless
    <2> SUFFICES ASSUME NEW w \in Windows, w \in Ownerless' PROVE w \in Ownerless
      BY DEF Ownerless
    <2>1. \A q \in Requests : w = Day(now[q]) => pc[q] # "expireDaily"
      BY <1>1, <1>3 DEF Ownerless, Busy
    <2>2. \A q \in Requests : w = Minute(now[q]) => pc[q] # "expireMinute"
      BY <1>1, <1>3 DEF Ownerless, Busy
    <2> QED BY <1>1, <2>1, <2>2 DEF Ownerless
  <1> QED BY <1>1, <1>4, <1>5, <1>6, <1>7, <1>8, StillOwned DEF QuotaInv

\* The clock goes on: a window nobody is under way in becomes a past one.
LEMMA TickStep ==
    ASSUME ConstantsOK, QuotaInv, Tick
    PROVE  QuotaInv'
  <1>1. /\ UNCHANGED <<count, expiring, touched, hits, admitted, pc, now, daily, perMinute, faults>>
        /\ minute < LastMinute /\ minute' = minute + 1 /\ minute \in Nat /\ LastMinute \in Nat
        /\ \A r \in Requests : pc[r] \in Busy => now[r] = minute
    BY DEF Tick, QuotaInv, TypeOK, ConstantsOK
  <1>2. TypeOK'
    BY <1>1 DEF QuotaInv, TypeOK
  <1>3. CountsOK'
    BY <1>1 DEF QuotaInv, CountsOK
  <1>4. RejectedOnlyOverLimit'
    BY <1>1 DEF QuotaInv, RejectedOnlyOverLimit, Limit
  <1>5. ASSUME NEW w \in Windows PROVE WithinLimit(w)'
    <2>1. Past(w) => Past(w)'
      BY <1>1 DEF Past
    <2>2. Good(w)' \subseteq Good(w)
      BY <1>1 DEF Good, Limit
    <2>3. admitted'[w] = admitted[w] /\ count'[w] = count[w] /\ count[w] \in Nat
      BY <1>1 DEF QuotaInv, TypeOK
    <2> QED BY <1>2, <2>1, <2>2, <2>3, StaysWithin DEF QuotaInv
  <1>6. Ownerless' \subseteq Ownerless
    BY <1>1 DEF Ownerless
  <1> QED BY <1>1, <1>2, <1>3, <1>4, <1>5, <1>6, StillOwned DEF QuotaInv

\* Redis drops a counter: its window is past by then, so nobody is given a
\* number of it again.
LEMMA DropStep ==
    ASSUME ConstantsOK, QuotaInv, NEW d \in Windows, Drop(d)
    PROVE  QuotaInv'
  <1>1. /\ UNCHANGED <<minute, touched, hits, admitted, pc, now, daily, perMinute, faults>>
        /\ d \in expiring /\ expiring' = expiring \ {d} /\ count' = [count EXCEPT ![d] = 0]
        /\ minute >= touched[d] + 2 * (IF d[1] = "day" THEN DayLength ELSE 1)
    BY DEF Drop
  <1>2. /\ minute \in Nat /\ touched[d] \in Nat /\ DayLength \in Nat \ {0}
        /\ \A w \in Windows : count[w] \in Nat /\ hits[w] \in Nat /\ count[w] <= hits[w]
    BY DEF QuotaInv, TypeOK, ConstantsOK, CountsOK
  <1>3. \A w \in Windows : count'[w] = IF w = d THEN 0 ELSE count[w]
    BY <1>1 DEF QuotaInv, TypeOK
  <1>4. TypeOK'
    BY <1>1 DEF QuotaInv, TypeOK
  <1>5. CountsOK'
    <2>1. \A w \in Windows : count'[w] <= hits'[w]
      BY <1>1, <1>2, <1>3
    <2> QED BY <1>1, <2>1 DEF QuotaInv, CountsOK
  <1>6. RejectedOnlyOverLimit'
    BY <1>1 DEF QuotaInv, RejectedOnlyOverLimit, Limit
  <1>7. Past(d)
    <2> SUFFICES ASSUME NEW m \in Nat, m + 1 >= minute PROVE d # Day(m) /\ d # Minute(m)
      BY DEF Past
    <2>1. PICK n \in 0..touched[d] : d = Day(n) \/ d = Minute(n)
      BY <1>1 DEF QuotaInv, CountsOK
    <2>2. n \in Nat /\ n <= touched[d]
      BY <1>2, <2>1
    <2>3. CASE d = Day(n)
      <3>1. d[1] = "day"
        BY <2>3 DEF Day
      <3>2. m >= n + DayLength
        BY <1>1, <1>2, <2>2, <3>1
      <3>3. m \div DayLength # n \div DayLength
        BY <1>2, <2>2, <3>2, DivStep
      <3>4. d # Day(m)
        BY <2>3, <3>3 DEF Day
      <3> QED BY <2>3, <3>4, WindowFacts
    <2>4. CASE d = Minute(n)
      <3>1. d[1] # "day"
        BY <2>4 DEF Minute
      <3>2. m # n
        BY <1>1, <1>2, <2>2, <3>1
      <3> QED BY <2>4, <3>2, WindowFacts
    <2> QED BY <2>1, <2>3, <2>4
  <1>8. ASSUME NEW w \in Windows PROVE WithinLimit(w)'
    <2>1. Past(w) => Past(w)'
      BY <1>1 DEF Past
    <2>2. Good(w)' \subseteq Good(w)
      BY <1>1 DEF Good, Limit
    <2>3. admitted'[w] = admitted[w]
      BY <1>1
    <2>4. count'[w] >= count[w] \/ Past(w)'
      BY <1>2, <1>3, <1>7, <2>1
    <2> QED BY <1>4, <2>1, <2>2, <2>3, <2>4, StaysWithin DEF QuotaInv
  <1>9. Ownerless' \subseteq Ownerless
    BY <1>1, <1>3 DEF Ownerless
  <1> QED BY <1>1, <1>4, <1>5, <1>6, <1>8, <1>9, StillOwned DEF QuotaInv

\* A command of a request fails: at most the counter it was about to give a
\* TTL stays without one.
LEMMA CommandFailsStep ==
    ASSUME ConstantsOK, QuotaInv, NEW r \in Requests, CommandFails(r)
    PROVE  QuotaInv'
  <1> DEFINE w0 == IF pc[r] = "expireDaily" THEN Day(now[r]) ELSE Minute(now[r])
  <1>1. /\ UNCHANGED <<minute, count, expiring, touched, hits, admitted, now, daily, perMinute>>
        /\ pc[r] \in Busy /\ pc' = [pc EXCEPT ![r] = "error"]
        /\ faults' = faults + 1 /\ faults < MaxFaults /\ faults \in Nat /\ MaxFaults \in Nat
    BY DEF CommandFails, GoTo, QuotaInv, TypeOK, ConstantsOK
  <1>2. \A q \in Requests : pc'[q] = IF q = r THEN "error" ELSE pc[q]
    BY <1>1 DEF QuotaInv, TypeOK
  <1>3. TypeOK'
    BY <1>1 DEF QuotaInv, TypeOK, Labels
  <1>4. CountsOK'
    <2>1. \A q \in Requests : pc'[q] \in Busy => pc[q] \in Busy
      BY <1>2 DEF Busy
    <2> QED BY <1>1, <2>1 DEF QuotaInv, CountsOK
  <1>5. RejectedOnlyOverLimit'
    BY <1>1, <1>2 DEF QuotaInv, RejectedOnlyOverLimit, Limit
  <1>6. ASSUME NEW w \in Windows PROVE WithinLimit(w)'
    <2>1. Past(w) => Past(w)'
      BY <1>1 DEF Past
    <2>2. Good(w)' \subseteq Good(w)
      BY <1>1, <1>2 DEF Good, Limit
    <2>3. admitted'[w] = admitted[w] /\ count'[w] = count[w] /\ count[w] \in Nat
      BY <1>1 DEF QuotaInv, TypeOK
    <2> QED BY <1>3, <2>1, <2>2, <2>3, StaysWithin DEF QuotaInv
  <1>7. OnlyFailuresLeak'
    <2>1. Ownerless' \subseteq Ownerless \cup {w0}
      <3> SUFFICES ASSUME NEW w \in Windows, w \in Ownerless', w # w0 PROVE w \in Ownerless
        BY DEF Ownerless
      <3>1. count[w] > 0 /\ w \notin expiring
        BY <1>1 DEF Ownerless
      <3>2. \A q \in Requests : w = Day(now[q]) => pc[q] # "expireDaily"
        BY <1>1, <1>2 DEF Ownerless
      <3>3. \A q \in Requests : w = Minute(now[q]) => pc[q] # "expireMinute"
        BY <1>1, <1>2 DEF Ownerless
      <3> QED BY <3>1, <3>2, <3>3 DEF Ownerless
    <2>2. IsFiniteSet(Ownerless)
      BY FiniteWindows, FS_Subset DEF Ownerless
    <2>3. /\ IsFiniteSet(Ownerless \cup {w0})
          /\ Cardinality(Ownerless \cup {w0}) <= Cardinality(Ownerless) + 1
      BY <2>2, FS_AddElement, FS_CardinalityType
    <2>4. IsFiniteSet(Ownerless') /\ Cardinality(Ownerless') <= Cardinality(Ownerless \cup {w0})
      BY <2>1, <2>3, FS_Subset
    <2>5. /\ Cardinality(Ownerless) \in Nat /\ Cardinality(Ownerless') \in Nat
          /\ Cardinality(Ownerless \cup {w0}) \in Nat
      BY <2>2, <2>3, <2>4, FS_CardinalityType
    <2>6. Cardinality(Ownerless) <= faults
      BY DEF QuotaInv, OnlyFailuresLeak, Ownerless
    <2>7. OnlyFailuresLeak' <=> Cardinality(Ownerless') <= faults'
      BY DEF OnlyFailuresLeak, Ownerless
    <2> HIDE DEF w0
    <2> QED BY <1>1, <2>3, <2>4, <2>5, <2>6, <2>7
  <1> QED BY <1>3, <1>4, <1>5, <1>6, <1>7 DEF QuotaInv

\* Nothing is counted at first.
LEMMA QuotaInitially == ASSUME ConstantsOK, Init PROVE QuotaInv
  <1>1. /\ \A r \in Requests : /\ pc[r] = "error" /\ now[r] = 0
                               /\ daily[r] = 0 /\ perMinute[r] = 0
        /\ \A w \in Windows : count[w] = 0 /\ hits[w] = 0 /\ admitted[w] = 0
        /\ minute = 0 /\ faults = 0 /\ expiring = {} /\ 0 \in 0..LastMinute
    BY DEF Init, ConstantsOK
  <1>2. TypeOK
    BY <1>1 DEF Init, TypeOK, ConstantsOK, Labels
  <1>3. CountsOK
    BY <1>1, WindowFacts DEF CountsOK, Busy
  <1>4. RejectedOnlyOverLimit
    BY <1>1 DEF RejectedOnlyOverLimit
  <1>5. ASSUME NEW w \in Windows PROVE WithinLimit(w)
    <2>1. Good(w) = {}
      BY <1>1 DEF Good
    <2>2. Cardinality(Good(w)) = 0 /\ Limit(w) \in Nat
      BY <2>1, FS_EmptySet DEF Limit, ConstantsOK
    <2> QED BY <1>1, <2>2 DEF WithinLimit
  <1>6. Ownerless = {}
    BY <1>1 DEF Ownerless
  <1>7. OnlyFailuresLeak
    <2>1. Cardinality(Ownerless) = 0
      BY <1>6, FS_EmptySet
    <2> QED BY <1>1, <2>1 DEF OnlyFailuresLeak, Ownerless
  <1> QED BY <1>2, <1>3, <1>4, <1>5, <1>7 DEF QuotaInv

\* A step that changes nothing keeps the invariant.
LEMMA QuotaStutters == ASSUME ConstantsOK, QuotaInv, UNCHANGED vars PROVE QuotaInv'
  <1>1. ASSUME NEW w \in Windows PROVE WithinLimit(w)'
    BY DEF QuotaInv, WithinLimit, Good, Past, Limit, vars
  <1> QED BY <1>1 DEF QuotaInv, vars, TypeOK, CountsOK, RejectedOnlyOverLimit, OnlyFailuresLeak, Limit

\* The inductive invariant: in every window those let through, with those who
\* hold a number within the limit, are as many as the limit at most and, until
\* the window is past, as many as its counter at most (QuotaRepository.hit).
THEOREM QuotaInvariant == ASSUME ConstantsOK PROVE Spec => []QuotaInv
  <1>1. QuotaInv /\ [Next]_vars => QuotaInv'
    <2> SUFFICES ASSUME QuotaInv, [Next]_vars PROVE QuotaInv'
      OBVIOUS
    <2>1. CASE Tick
      BY <2>1, TickStep
    <2>2. CASE Expiry
      BY <2>2, DropStep DEF Expiry
    <2>3. ASSUME NEW r \in Requests, Hit(r) \/ Step(r) PROVE QuotaInv'
      BY <2>3, HitStep, IncrDailyStep, ExpireDailyStep, IncrMinuteStep, ExpireMinuteStep,
         DecideStep, CommandFailsStep DEF Step
    <2> QED BY <2>1, <2>2, <2>3, QuotaStutters DEF Next
  <1> QED BY <1>1, QuotaInitially, PTL DEF Spec

\* However requests interleave and whichever commands fail, no window lets
\* through more than its limit, nobody is rejected early, and only a failure
\* leaves a counter without a TTL (QuotaRepository.hit, enforce_quota).
THEOREM QuotaIsKept ==
    ASSUME ConstantsOK
    PROVE  Spec => [](TypeOK /\ AdmittedWithinLimits /\ RejectedOnlyOverLimit /\ OnlyFailuresLeak)
  <1>1. QuotaInv => AdmittedWithinLimits
    <2> SUFFICES ASSUME QuotaInv, NEW w \in Windows PROVE ~Over(admitted[w], Limit(w))
      BY DEF AdmittedWithinLimits
    <2>1. Cardinality(Good(w)) \in Nat /\ admitted[w] \in Nat /\ Limit(w) \in Nat
      BY GoodCount DEF QuotaInv, TypeOK, Limit, ConstantsOK
    <2>2. Limit(w) # 0 => admitted[w] + Cardinality(Good(w)) <= Limit(w)
      BY DEF QuotaInv, WithinLimit
    <2> QED BY <2>1, <2>2 DEF Over
  <1>2. QuotaInv => TypeOK /\ AdmittedWithinLimits /\ RejectedOnlyOverLimit /\ OnlyFailuresLeak
    BY <1>1 DEF QuotaInv
  <1> QED BY <1>2, QuotaInvariant, PTL
=============================================================================
