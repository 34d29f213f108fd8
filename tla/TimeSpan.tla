------------------------------ MODULE TimeSpan ------------------------------
(***************************************************************************)
(* Spans of time, half hours and the milliseconds between two moments      *)
(* (timespan and time_basic, src/src/htime.h and src/src/inl/time_inl.h;   *)
(* HMicroTime, src/src/htime.cpp).  A time is a number of seconds.         *)
(***************************************************************************)
EXTENDS Integers

CONSTANTS Spans,           \* spans and times that are sampled, in seconds
          Times, Zones,    \* and how many seconds the local time is ahead
          Usecs            \* the microseconds of a timeval that are sampled
SpanAssumption == /\ Spans \subseteq Int /\ Times \subseteq Nat /\ Zones \subseteq Nat
                  /\ Usecs \subseteq 0 .. 999999

VARIABLE sample

\* Integer division of C, which cuts towards zero, and its remainder.
Div(a, b) == IF a >= 0 THEN a \div b ELSE -((-a) \div b)
Mod(a, b) == a - b * Div(a, b)

timespan(lDays, nHours, nMins, nSecs) == nSecs + 60 * (nMins + 60 * (nHours + 24 * lDays))
GetDays(span)         == Div(span, 24 * 3600)
GetTotalHours(span)   == Div(span, 3600)
GetHours(span)        == Mod(GetTotalHours(span), 24)
GetTotalMinutes(span) == Div(span, 60)
GetMinutes(span)      == Mod(GetTotalMinutes(span), 60)
GetSeconds(span)      == Mod(span, 60)

\* GetTimeGroup: the date and the hour of the local time, which is zone ahead, and
\* the half of that hour; ToString tells two hours apart.
GetMinute(t, zone) == ((t + zone) \div 60) % 60
GetTimeGroup(t, zone) ==
    [hour |-> (t + zone) \div 3600, half |-> IF GetMinute(t, zone) > 29 THEN 30 ELSE 0]
GetPrevTimeGroup(t, zone) == GetTimeGroup(t - timespan(0, 0, 30, 0), zone)

\* HMicroTime, made of milliseconds, and Distance.
HMicroTime(micsec) == [tv_sec |-> Div(micsec, 1000), tv_usec |-> Mod(micsec, 1000) * 1000]
timeval_dis(tv1, tv2) ==
    (tv2.tv_sec - tv1.tv_sec) * 1000 + Div(tv2.tv_usec - tv1.tv_usec, 1000)

-----------------------------------------------------------------------------
(* Samples: a span and another one, a time in a zone, and three moments *)

Moments == [tv_sec : 0 .. 2, tv_usec : Usecs]
Init == sample = [k |-> "none"]
Pick ==
    /\ sample.k = "none"
    /\ \/ \E s \in Spans : sample' = [k |-> "span", of |-> s]
       \/ \E t \in Times, z \in Zones : sample' = [k |-> "time", of |-> t, zone |-> z]
       \/ \E a \in Moments, b \in Moments, c \in Moments :
             sample' = [k |-> "moment", a |-> a, b |-> b, c |-> c]

\* A span is the one made of its days, hours, minutes and seconds, also one that is
\* negative: none of them has another sign, and none is as much as the next.
SpanExact(s) ==
    LET parts == <<GetDays(s), GetHours(s), GetMinutes(s), GetSeconds(s)>> IN
    /\ timespan(parts[1], parts[2], parts[3], parts[4]) = s
    /\ \A i \in 1 .. 4 : IF s >= 0 THEN parts[i] >= 0 ELSE parts[i] <= 0
    /\ parts[2] \in -23 .. 23 /\ parts[3] \in -59 .. 59 /\ parts[4] \in -59 .. 59

\* A group has thirty minutes, and the previous one is the group of the second
\* before the group began, in every zone whose offset is minutes.
GroupsExact(t, zone) ==
    LET group == GetTimeGroup(t, zone)
        since == (t + zone) % 1800
    IN  /\ \A d \in {0, 1, 899, 1799} : GetTimeGroup(t - since + d, zone) = group
        /\ GetTimeGroup(t - since + 1800, zone) # group
        /\ GetPrevTimeGroup(t, zone) = GetTimeGroup(t - since - 1, zone)
        /\ GetPrevTimeGroup(t, zone) # group

\* The distance is the time between two moments to less than a millisecond, the same
\* both ways but for the sign, never smaller to a later moment, and exact between
\* moments made of milliseconds.
DistancesExact(a, b, c) ==
    LET dis == timeval_dis(a, b)
        us  == (b.tv_sec - a.tv_sec) * 1000000 + b.tv_usec - a.tv_usec
        later == b.tv_sec < c.tv_sec \/ (b.tv_sec = c.tv_sec /\ b.tv_usec <= c.tv_usec)
    IN  /\ dis * 1000 - us \in -999 .. 999
        /\ timeval_dis(b, a) = -dis
        /\ later => timeval_dis(a, c) >= dis
        /\ \A n \in {0, 1, 999, 1000, 1999} :
              timeval_dis(HMicroTime(n), HMicroTime(dis)) = dis - n

\* All of these, of every sample.
TimesExact ==
    /\ sample.k = "span"   => SpanExact(sample.of)
    /\ sample.k = "time"   => GroupsExact(sample.of, sample.zone)
    /\ sample.k = "moment" => DistancesExact(sample.a, sample.b, sample.c)
=============================================================================
