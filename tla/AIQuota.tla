------------------------------- MODULE AIQuota -------------------------------
(***************************************************************************)
(* The quota on AI questions (backend/app/quota.py): three counters per    *)
(* question, kept in the usage_counters table under keys that name a user  *)
(* and a minute or a day.  A question is charged to all three or to none;  *)
(* when its generation fails the daily unit of the user is given back.     *)
(*                                                                         *)
(* A missing row is a counter of zero.  ai_limits chooses the keys before  *)
(* consume has a connection, so the clock may move in between.             *)
(***************************************************************************)
EXTENDS Integers, FiniteSets

CONSTANTS
    Calls,        \* AI requests
    Users,
    UserOf,       \* UserOf[c]: who asks
    MinuteLimit,  \* settings.ai_questions_per_user_minute
    DayLimit,     \* settings.ai_questions_per_user_day
    GlobalLimit,  \* settings.ai_questions_global_day
    LastMinute,   \* bound on the clock
    DayOf         \* DayOf[m]: the UTC day of minute m

Minutes == 0 .. LastMinute
Days == {DayOf[m] : m \in Minutes}

ASSUME QuotaAssumption ==
    /\ IsFiniteSet(Calls)
    /\ UserOf \in [Calls -> Users]
    /\ MinuteLimit \in Nat /\ DayLimit \in Nat /\ GlobalLimit \in Nat
    /\ LastMinute \in Nat

ASSUME ClockAssumption ==
    /\ DayOf \in [Minutes -> Nat]
    /\ \A m, n \in Minutes : m <= n => DayOf[m] <= DayOf[n]

VARIABLES
    now,          \* the current UTC minute
    minuteCount,  \* ai:user:<user>:m:<minute>
    dayCount,     \* ai:user:<user>:d:<day>
    globalCount,  \* ai:global:d:<day>
    window,       \* the minute whose keys a question uses
    charge        \* what has become of a question

quota == <<minuteCount, dayCount, globalCount, window, charge>>
quotaVars == <<now, quota>>

\* "lost" is a held question whose refund failed.
Charges == {"none", "asking", "held", "refused", "refunded", "lost"}
Counted == {"held", "refunded", "lost"}

Today == DayOf[now]

QuotaTypeOK ==
    /\ now \in Minutes
    /\ minuteCount \in [Users \X Minutes -> Nat]
    /\ dayCount \in [Users \X Days -> Nat]
    /\ globalCount \in [Days -> Nat]
    /\ window \in [Calls -> Minutes]
    /\ charge \in [Calls -> Charges]

QuotaInit ==
    /\ now = 0
    /\ minuteCount = [k \in Users \X Minutes |-> 0]
    /\ dayCount = [k \in Users \X Days |-> 0]
    /\ globalCount = [d \in Days |-> 0]
    /\ window = [c \in Calls |-> 0]
    /\ charge = [c \in Calls |-> "none"]

Become(c, what) == charge' = [charge EXCEPT ![c] = what]

-----------------------------------------------------------------------------
\* ai_limits: the keys name the present minute and day.
Ask(c) ==
    /\ charge[c] = "none"
    /\ window' = [window EXCEPT ![c] = now]
    /\ Become(c, "asking")
    /\ UNCHANGED <<now, minuteCount, dayCount, globalCount>>

MinuteKey(c) == <<UserOf[c], window[c]>>

\* The day of the keys.
DayKey(c) == <<UserOf[c], DayOf[window[c]]>>

\* Mutant: the limit of a minute is off by one.
Free_OneMore(c) ==
    /\ minuteCount[MinuteKey(c)] <= MinuteLimit
    /\ dayCount[DayKey(c)] < DayLimit
    /\ globalCount[DayOf[window[c]]] < GlobalLimit

\* ON CONFLICT DO UPDATE ... WHERE count < limit, for every counter
Free(c) ==
    /\ minuteCount[MinuteKey(c)] < MinuteLimit
    /\ dayCount[DayKey(c)] < DayLimit
    /\ globalCount[DayOf[window[c]]] < GlobalLimit

\* DELETE ... WHERE expires_at < now(), now and then after an increment
Kept(f, over) == [k \in DOMAIN f |-> IF k \in over THEN 0 ELSE f[k]]

PurgeDay(d) == d < Today

Consume(c) ==
    LET m == [minuteCount EXCEPT ![MinuteKey(c)] = @ + 1]
        d == [dayCount EXCEPT ![DayKey(c)] = @ + 1]
        g == [globalCount EXCEPT ![DayOf[window[c]]] = @ + 1]
    IN
    /\ charge[c] = "asking"
    /\ Free(c)
    /\ \/ minuteCount' = m /\ dayCount' = d /\ globalCount' = g
       \/ /\ minuteCount' = Kept(m, {k \in DOMAIN m : k[2] < now})
          /\ dayCount' = Kept(d, {k \in DOMAIN d : PurgeDay(k[2])})
          /\ globalCount' = Kept(g, {k \in DOMAIN g : PurgeDay(k)})
    /\ Become(c, "held")
    /\ UNCHANGED <<now, window>>

\* Some counter is full: the increments already made are rolled back.
Refuse(c) ==
    /\ charge[c] = "asking"
    /\ ~Free(c)
    /\ Become(c, "refused")
    /\ UNCHANGED <<now, minuteCount, dayCount, globalCount, window>>

\* Mutant: the refund goes to the day it happens on.
RefundKey_Today(c) == <<UserOf[c], Today>>

\* AIReservation.keys: those of the question, whatever the day is now
RefundKey(c) == DayKey(c)

\* GREATEST(count - 1, 0); the row may have been purged
OneLess(n) == IF n > 0 THEN n - 1 ELSE 0

\* Only the daily unit of the user is refundable.
Refund(c) ==
    /\ charge[c] = "held"
    /\ dayCount' = [dayCount EXCEPT ![RefundKey(c)] = OneLess(@)]
    /\ Become(c, "refunded")
    /\ UNCHANGED <<now, minuteCount, globalCount, window>>

\* quota_refund_failed: only logged
RefundFails(c) ==
    /\ charge[c] = "held"
    /\ Become(c, "lost")
    /\ UNCHANGED <<now, minuteCount, dayCount, globalCount, window>>

Tick ==
    /\ now < LastMinute
    /\ now' = now + 1
    /\ UNCHANGED quota

QuotaNext ==
    \/ \E c \in Calls : Ask(c) \/ Consume(c) \/ Refuse(c) \/ Refund(c) \/ RefundFails(c)
    \/ Tick

QuotaSpec == QuotaInit /\ [][QuotaNext]_quotaVars

-----------------------------------------------------------------------------
(* Properties *)

AskedThisMinute(u) ==
    {c \in Calls : UserOf[c] = u /\ window[c] = now /\ charge[c] \in Counted}
AskedOn(d) == {c \in Calls : DayOf[window[c]] = d /\ charge[c] \in Counted}
PaidOn(u, d) ==
    {c \in AskedOn(d) : UserOf[c] = u /\ charge[c] # "refunded"}

\* Nobody asks more often in this minute, or keeps more questions today, than
\* allowed ...
MinuteQuotaHolds == \A u \in Users : Cardinality(AskedThisMinute(u)) <= MinuteLimit
DayQuotaHolds == \A u \in Users : Cardinality(PaidOn(u, Today)) <= DayLimit

\* ... nor do all users together, whose unit is never given back.
GlobalQuotaHolds == Cardinality(AskedOn(Today)) <= GlobalLimit

\* However requests race, and whatever is refunded or purged meanwhile, no limit
\* is exceeded ("concurrent requests cannot overshoot", quota.py).
QuotasHold == MinuteQuotaHolds /\ DayQuotaHolds /\ GlobalQuotaHolds

\* Nobody is refused a question he has left: today's counter of a user is the
\* number of his questions that were charged and not refunded, exactly.
CountersAreExact ==
    /\ \A u \in Users : dayCount[<<u, Today>>] = Cardinality(PaidOn(u, Today))
    /\ globalCount[Today] = Cardinality(AskedOn(Today))
=============================================================================
