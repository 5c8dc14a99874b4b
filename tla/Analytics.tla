------------------------------ MODULE Analytics ------------------------------
(***************************************************************************)
(* AnalyticsRepository counts events and sums latencies in one Redis key   *)
(* per day, one command after the other and fail-soft; AnalyticsEngine     *)
(* reads them, again one command after the other, for the dashboard, a     *)
(* report or a trend.                                                      *)
(***************************************************************************)
EXTENDS Integers, Sequences, FiniteSets, FiniteSetsExt

CONSTANTS
    Recorders,   \* API requests and worker attempts that record something
    WindowDays,  \* window_days
    PeriodDays,  \* of a trend's granularity
    Periods,     \* of a trend
    LastDay,     \* the calendar ends here
    MaxRecords,  \* how often something is recorded
    MaxSeconds,  \* the longest latency
    MaxFaults

\* What the values of the constants must satisfy.  The calendar is shorter
\* than RETENTION_DAYS, so no key expires.
ConstantsOK ==
    /\ {WindowDays, PeriodDays, Periods, MaxSeconds} \subseteq Nat \ {0}
    /\ {LastDay, MaxRecords, MaxFaults} \subseteq Nat
    /\ IsFiniteSet(Recorders)

Days == 0..LastDay

VARIABLES
    today,
    uploads,     \* analytics:count:upload:{day}
    seconds,     \* analytics:latency_sum:{day}
    samples,     \* analytics:latency_count:{day}
    lasting,     \* the keys that have no TTL: <<name, day>>
    pc,          \* where each recorder is
    day,         \* the day it records for
    took,        \* the latency it records
    happened,    \* history: uploads that were reported, in all
    lost,        \* history: latencies whose sample was not counted
    leaked,      \* history: keys whose EXPIRE failed
    read,        \* where the dashboard, or the report or trend, is
    report,      \* what it has read so far; underWay counts, for the
                 \* properties, the latencies that were half recorded, before
                 \* the uploads of a trend's days when it was asked for
    records,
    faults

keyVars == <<uploads, seconds, samples, lasting>>
readVars == <<read, report>>
vars == <<today, keyVars, pc, day, took, happened, lost, leaked, readVars, records, faults>>

Usage == [uploads |-> 0, seconds |-> 0, samples |-> 0]

Init ==
    /\ today = 0
    /\ uploads = [d \in Days |-> 0]
    /\ seconds = [d \in Days |-> 0]
    /\ samples = [d \in Days |-> 0]
    /\ lasting = {}
    /\ pc = [r \in Recorders |-> "idle"]
    /\ day = [r \in Recorders |-> 0]
    /\ took = [r \in Recorders |-> 1]
    /\ happened = 0 /\ lost = 0 /\ leaked = {}
    /\ read = "idle"
    /\ report = [today |-> Usage, window |-> Usage, from |-> 0, to |-> 0, underWay |-> 0,
                 points |-> <<>>, before |-> 0]
    /\ records = 0 /\ faults = 0

Recording(l) == {r \in Recorders : pc[r] = l}
GoTo(r, l) == pc' = [pc EXCEPT ![r] = l]
Rest(r) == GoTo(r, "idle") /\ day' = [day EXCEPT ![r] = 0] /\ took' = [took EXCEPT ![r] = 1]

\* INCR makes a key without a TTL and keeps the one it has.
Kept(name, d, old) == IF old = 0 THEN lasting \cup {<<name, d>>} ELSE lasting

-----------------------------------------------------------------------------
(* record_event and record_latency.                                        *)

RecordEvent(r) ==
    /\ pc[r] = "idle" /\ records < MaxRecords
    /\ records' = records + 1
    /\ day' = [day EXCEPT ![r] = today]
    /\ happened' = happened + 1
    /\ GoTo(r, "incr")
    /\ UNCHANGED <<today, keyVars, took, lost, leaked, readVars, faults>>

RecordLatency(r, s) ==
    /\ pc[r] = "idle" /\ records < MaxRecords
    /\ records' = records + 1
    /\ day' = [day EXCEPT ![r] = today]
    /\ took' = [took EXCEPT ![r] = s]
    /\ GoTo(r, "incrbyfloat")
    /\ UNCHANGED <<today, keyVars, happened, lost, leaked, readVars, faults>>

Incr(r) ==
    /\ pc[r] = "incr"
    /\ uploads' = [uploads EXCEPT ![day[r]] = @ + 1]
    /\ lasting' = Kept("count", day[r], uploads[day[r]])
    /\ GoTo(r, "expire")
    /\ UNCHANGED <<today, seconds, samples, day, took, happened, lost, leaked, readVars, records, faults>>

IncrByFloat(r) ==
    /\ pc[r] = "incrbyfloat"
    /\ seconds' = [seconds EXCEPT ![day[r]] = @ + took[r]]
    /\ lasting' = Kept("sum", day[r], seconds[day[r]])
    /\ GoTo(r, "incrSamples")
    /\ UNCHANGED <<today, uploads, samples, day, took, happened, lost, leaked, readVars, records, faults>>

IncrSamples(r) ==
    /\ pc[r] = "incrSamples"
    /\ samples' = [samples EXCEPT ![day[r]] = @ + 1]
    /\ lasting' = Kept("samples", day[r], samples[day[r]])
    /\ GoTo(r, "expireSum")
    /\ UNCHANGED <<today, uploads, seconds, day, took, happened, lost, leaked, readVars, records, faults>>

NameOf(l) == CASE l = "expire" -> "count" [] l = "expireSum" -> "sum" [] l = "expireSamples" -> "samples"

\* Mutant: the TTL is set on the sum only.
Expire_SumOnly(r) ==
    /\ pc[r] \in {"expire", "expireSum"}
    /\ lasting' = lasting \ {<<NameOf(pc[r]), day[r]>>}
    /\ leaked' = leaked \ {<<NameOf(pc[r]), day[r]>>}
    /\ Rest(r)
    /\ UNCHANGED <<today, uploads, seconds, samples, happened, lost, readVars, records, faults>>

Expire(r) ==
    /\ pc[r] \in {"expire", "expireSum", "expireSamples"}
    /\ lasting' = lasting \ {<<NameOf(pc[r]), day[r]>>}
    /\ leaked' = leaked \ {<<NameOf(pc[r]), day[r]>>}
    /\ IF pc[r] = "expireSum"
         THEN GoTo(r, "expireSamples") /\ UNCHANGED <<day, took>>
         ELSE Rest(r)
    /\ UNCHANGED <<today, uploads, seconds, samples, happened, lost, readVars, records, faults>>

\* A command fails: the rest is left out, with a line in the log.
RecordFails(r) ==
    /\ pc[r] # "idle" /\ faults < MaxFaults
    /\ faults' = faults + 1
    /\ lost' = IF pc[r] = "incrSamples" THEN lost + 1 ELSE lost
    /\ leaked' = leaked \cup {key \in lasting : key[2] = day[r]}
    /\ Rest(r)
    /\ UNCHANGED <<today, keyVars, happened, readVars, records>>

-----------------------------------------------------------------------------
(* dashboard: usage of today, then of the window.                          *)

SumOf(key, days) == MapThenSumSet(LAMBDA d : key[d], days)
Sum(key, from, to) == SumOf(key, from..to)

\* The window is placed in the calendar when its usage is asked for.
Begin(name, days) ==
    /\ report' = [report EXCEPT !.from = IF today < days THEN 0 ELSE today - days + 1, !.to = today]
    /\ read' = name
    /\ UNCHANGED <<today, keyVars, pc, day, took, happened, lost, leaked, records, faults>>

AskToday == read = "idle" /\ Begin("todayCount", 1)

\* Mutant: the window ends with the last full day.
AskWindow_FullDays ==
    /\ read = "today"
    /\ report' = [report EXCEPT !.from = IF today < WindowDays THEN 0 ELSE today - WindowDays,
                               !.to = today - 1]
    /\ read' = "windowCount"
    /\ UNCHANGED <<today, keyVars, pc, day, took, happened, lost, leaked, records, faults>>

AskWindow == read = "today" /\ Begin("windowCount", WindowDays)

ReadOn(part, field, key, next) ==
    /\ report' = [report EXCEPT ![part][field] = Sum(key, report.from, report.to)]
    /\ read' = next
    /\ UNCHANGED <<today, keyVars, pc, day, took, happened, lost, leaked, records, faults>>

ReadCount ==
    \/ read = "todayCount" /\ ReadOn("today", "uploads", uploads, "todaySum")
    \/ read = "windowCount" /\ ReadOn("window", "uploads", uploads, "windowSum")

ReadSum ==
    \/ read = "todaySum" /\ ReadOn("today", "seconds", seconds, "todaySamples")
    \/ read = "windowSum" /\ ReadOn("window", "seconds", seconds, "windowSamples")

ReadSamples ==
    \/ read = "todaySamples" /\ ReadOn("today", "samples", samples, "today")
    \/ /\ read = "windowSamples"
       /\ report' = [report EXCEPT !.window.samples = Sum(samples, report.from, report.to),
                                  !.underWay = Cardinality(Recording("incrSamples"))]
       /\ read' = "window"
       /\ UNCHANGED <<today, keyVars, pc, day, took, happened, lost, leaked, records, faults>>

\* report: the usage of the window on its own.
AskReport == read = "idle" /\ Begin("windowCount", WindowDays)

\* The days of a trend's i-th period, the oldest first; none before day 0.
PeriodOf(i) ==
    LET end == report.to - (Periods - i) * PeriodDays IN {d \in Days : end - PeriodDays < d /\ d <= end}

AskTrend ==
    /\ read = "idle"
    /\ read' = "trend"
    /\ report' = [report EXCEPT !.to = today, !.before =
                     SumOf(uploads, {d \in Days : today - Periods * PeriodDays < d /\ d <= today})]
    /\ UNCHANGED <<today, keyVars, pc, day, took, happened, lost, leaked, records, faults>>

\* One MGET for each period.
ReadPeriod ==
    /\ read = "trend" /\ Len(report.points) < Periods
    /\ report' = [report EXCEPT !.points = Append(@, SumOf(uploads, PeriodOf(Len(@) + 1)))]
    /\ UNCHANGED <<today, keyVars, pc, day, took, happened, lost, leaked, read, records, faults>>

Trended == read = "trend" /\ Len(report.points) = Periods

Respond ==
    /\ read = "window" \/ Trended
    /\ read' = "idle"
    /\ report' = [today |-> Usage, window |-> Usage, from |-> 0, to |-> 0, underWay |-> 0,
                  points |-> <<>>, before |-> 0]
    /\ UNCHANGED <<today, keyVars, pc, day, took, happened, lost, leaked, records, faults>>

\* Midnight, at most once in a dashboard.
NextDay ==
    /\ today < LastDay
    /\ read # "idle" => report.to = today
    /\ today' = today + 1
    /\ UNCHANGED <<keyVars, pc, day, took, happened, lost, leaked, readVars, records, faults>>

-----------------------------------------------------------------------------
Next ==
    \/ \E r \in Recorders :
         \/ RecordEvent(r)
         \/ \E s \in {1, MaxSeconds} : RecordLatency(r, s)
         \/ Incr(r)
         \/ IncrByFloat(r)
         \/ IncrSamples(r)
         \/ Expire(r)
         \/ RecordFails(r)
    \/ AskToday
    \/ AskWindow
    \/ AskReport
    \/ AskTrend
    \/ ReadPeriod
    \/ ReadCount
    \/ ReadSum
    \/ ReadSamples
    \/ Respond
    \/ NextDay

Spec == Init /\ [][Next]_vars

-----------------------------------------------------------------------------
TypeOK ==
    /\ today \in Days
    /\ {uploads, seconds, samples} \subseteq [Days -> Nat]
    /\ lasting \subseteq {"count", "sum", "samples"} \X Days
    /\ leaked \subseteq lasting
    /\ pc \in [Recorders -> {"idle", "incr", "expire", "incrbyfloat", "incrSamples",
                         "expireSum", "expireSamples"}]
    /\ day \in [Recorders -> Days]
    /\ read \in {"idle", "todayCount", "todaySum", "todaySamples", "today", "windowCount",
                "windowSum", "windowSamples", "window", "trend"}

\* The dashboard is read in six commands while events are recorded and the
\* day may change: today's figures never exceed those of the window, no
\* upload is reported that was not made, and the average latency is off by
\* no more than the samples under way or lost to a failure.  The periods of a
\* trend, read one by one, count each upload of their days once.
DashboardCoherent ==
    /\ read = "window" /\ WindowDays >= 2 =>
         /\ report.today.uploads <= report.window.uploads
         /\ report.today.seconds <= report.window.seconds
    /\ report.window.uploads <= happened
    /\ read = "window" =>
         report.window.seconds <= MaxSeconds *
            (report.window.samples + lost + report.underWay)
    /\ Trended =>
         LET all == SumOf(report.points, 1..Periods)
         IN  report.before <= all /\ all <= happened

\* A day's key is without a TTL only while it is being recorded or where a
\* command failed.
OnlyFailuresLeak ==
    \A key \in lasting \ leaked :
        \E r \in Recorders :
            /\ day[r] = key[2]
            /\ pc[r] \in (CASE key[1] = "count" -> {"expire"}
                            [] key[1] = "sum" -> {"incrSamples", "expireSum"}
                            [] key[1] = "samples" -> {"expireSum", "expireSamples"})

=============================================================================
