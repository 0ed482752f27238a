---------------------------- MODULE SpendBudget ----------------------------
(***************************************************************************)
(* DailySpendBudget (app/state.py): the process-wide ceiling on paid model *)
(* calls, together with the way its one user, report_address in            *)
(* app/main.py, calls it.  A request thread claims one unit (reserve),     *)
(* then either gives it back when the scan or the triage fails (refund) or *)
(* keeps it because the model call went through.                           *)
(*                                                                         *)
(* Every method holds the object's lock from its first read to its last    *)
(* write, and reads the UTC date inside it, so each is one action.  The    *)
(* date itself moves between any two of them.                              *)
(***************************************************************************)
EXTENDS Integers, FiniteSets

CONSTANTS
    Callers,    \* the request threads
    Ceilings,   \* values daily_max is given, at construction or by its setter
    MaxDay      \* bound: the last UTC day of the calendar

ASSUME CallersAssumption == IsFiniteSet(Callers) /\ Callers # {}
ASSUME CeilingsAssumption == Ceilings \subseteq Nat
ASSUME MaxDayAssumption == MaxDay \in Nat \ {0}

Days == 1..MaxDay

\* _day = "" before the first reservation; also "holds no reservation".
NoDay == 0

VARIABLES
    dailyMax,   \* _daily_max
    day,        \* _day, the day that count belongs to
    count,      \* _count
    today       \* the UTC date that _today() returns

classVars == <<dailyMax, day, count>>

(***************************************************************************)
(* The ledger is not in the code: it records what really happened, for the *)
(* properties to compare with the counter.                                 *)
(***************************************************************************)
VARIABLES
    holds,      \* holds[c]: day on which c claimed the unit it still holds
    paid        \* paid[d]: model calls that went through on day d's allowance

vars == <<dailyMax, day, count, today, holds, paid>>

Holders(d) == {c \in Callers : holds[c] = d}

\* Units of day d's allowance in use: spent, or held by a request in flight.
Used(d) == paid[d] + Cardinality(Holders(d))

\* Requests that hold a unit claimed before the day the counter is on.
Carried == {c \in Callers : holds[c] \in 1..(day - 1)}

----------------------------------------------------------------------------
Init ==
    /\ dailyMax \in Ceilings
    /\ day = NoDay
    /\ count = 0
    /\ today \in Days
    /\ holds = [c \in Callers |-> NoDay]
    /\ paid = [d \in Days |-> 0]

(***************************************************************************)
(* The methods, as the caller sees them                                    *)
(***************************************************************************)

\* Faulty variant: a new day keeps the old day's count.
RolledCountKept == count

\* reserve() first moves a counter of another day to today, at zero.
RolledCount == IF day # today THEN 0 ELSE count

\* Faulty variant: the ceiling is compared with > instead of >=.
reserveOffByOne(granted) ==
    /\ granted = (RolledCount <= dailyMax)
    /\ day' = today
    /\ count' = IF granted THEN RolledCount + 1 ELSE RolledCount

\* A refusal too leaves the counter rolled over.
reserve(granted) ==
    /\ granted = (RolledCount < dailyMax)
    /\ day' = today
    /\ count' = IF granted THEN RolledCount + 1 ELSE RolledCount

\* Faulty variant: no check that there is anything to give back.
RefundAppliesNoFloor == day = today

\* refund() gives the unit back only if the counter is on today and not at zero.
RefundApplies == day = today /\ count > 0

refund ==
    /\ count' = IF RefundApplies THEN count - 1 ELSE count
    /\ UNCHANGED day

(***************************************************************************)
(* A request thread: claims at most one unit at a time, settles it once.   *)
(***************************************************************************)
ReserveGranted(c) ==
    /\ holds[c] = NoDay
    /\ reserve(TRUE)
    /\ holds' = [holds EXCEPT ![c] = today]
    /\ UNCHANGED <<dailyMax, today, paid>>

ReserveRefused(c) ==
    /\ holds[c] = NoDay
    /\ reserve(FALSE)
    /\ UNCHANGED <<dailyMax, today, holds, paid>>

Refund(c) ==
    /\ holds[c] # NoDay
    /\ refund
    /\ holds' = [holds EXCEPT ![c] = NoDay]
    /\ UNCHANGED <<dailyMax, today, paid>>

\* Faulty variant: the refund sits in a finally clause and also runs on success.
KeepRefunding(c) ==
    /\ holds[c] # NoDay
    /\ paid' = [paid EXCEPT ![holds[c]] = @ + 1]
    /\ count' = IF RefundApplies THEN count - 1 ELSE count
    /\ holds' = [holds EXCEPT ![c] = NoDay]
    /\ UNCHANGED <<dailyMax, day, today>>

\* The model call succeeded: report_address returns without a refund.
Keep(c) ==
    /\ holds[c] # NoDay
    /\ paid' = [paid EXCEPT ![holds[c]] = @ + 1]
    /\ holds' = [holds EXCEPT ![c] = NoDay]
    /\ UNCHANGED <<dailyMax, day, count, today>>

\* Faulty variant: a new ceiling starts the count afresh.
SetDailyMaxResetting(value) ==
    /\ dailyMax' = value
    /\ count' = 0
    /\ UNCHANGED <<day, today, holds, paid>>

\* The daily_max setter.
SetDailyMax(value) ==
    /\ dailyMax' = value
    /\ UNCHANGED <<day, count, today, holds, paid>>

Midnight ==
    /\ today < MaxDay
    /\ today' = today + 1
    /\ UNCHANGED <<dailyMax, day, count, holds, paid>>

Next ==
    \/ \E c \in Callers :
        \/ ReserveGranted(c)
        \/ ReserveRefused(c)
        \/ Refund(c)
        \/ Keep(c)
    \/ \E value \in Ceilings : SetDailyMax(value)
    \/ Midnight

Spec == Init /\ [][Next]_vars

----------------------------------------------------------------------------
TypeOK ==
    /\ dailyMax \in Ceilings
    /\ day \in 0..MaxDay
    /\ count \in Nat
    /\ today \in Days
    /\ holds \in [Callers -> 0..MaxDay]
    /\ paid \in [Days -> Nat]

(***************************************************************************)
(* Failures do not burn allowance (app/main.py:165-167): while the counter *)
(* is on the current day it never exceeds the units really in use, so a    *)
(* refusal always means that the day's ceiling is taken up by live or      *)
(* completed calls.  (After midnight a refund is dropped, and the old      *)
(* day's counter may stay high until the next reserve() discards it.)      *)
(***************************************************************************)
NoPhantomCharge == day = today => count <= Used(day)

(***************************************************************************)
(* How far the counter may lag behind what is really in use.  Only a       *)
(* refund that belongs to an older day makes it lag, so a request thread   *)
(* that still carries such a unit is a unit of lag yet to come; and the    *)
(* thread whose reserve() rolled the counter over carries none, which      *)
(* leaves one unit of lag for each of the other threads.                   *)
(***************************************************************************)
LagBounded ==
    day # NoDay =>
        Used(day) + Cardinality(Carried) <= count + Cardinality(Callers) - 1

\* The calendar: nothing is held, counted or paid on a day yet to come.
CalendarInv ==
    /\ day <= today
    /\ \A c \in Callers : holds[c] <= day
    /\ \A d \in Days : d > day => paid[d] = 0

\* The inductive invariant.
IInv ==
    /\ TypeOK
    /\ CalendarInv
    /\ NoPhantomCharge
    /\ LagBounded

\* The quota the counter enforces: its ceiling plus the carried refunds.
EffectiveQuota == dailyMax + Cardinality(Callers) - 1

(***************************************************************************)
(* The real ceiling: whenever reserve() says yes, the units in use on that *)
(* day, the new one included, are within the ceiling in force plus one     *)
(* unit for each other request thread.  (What ImplementsQuota below says   *)
(* of a claim.)                                                            *)
(***************************************************************************)
GrantWithinQuota ==
    [][\A c \in Callers :
         holds[c] = NoDay /\ holds'[c] # NoDay => Used(today)' <= EffectiveQuota]_vars

(***************************************************************************)
(* The ceiling as the source states it ("a hard stop" on the day's calls): *)
(* never more than daily_max units in use on one day.                      *)
(***************************************************************************)
DailyCeiling == \A d \in Days : Used(d) <= dailyMax

Quota == INSTANCE DailyQuota WITH
    charged <- [d \in Days |-> Used(d)],
    quota <- EffectiveQuota,
    Quotas <- {v + Cardinality(Callers) - 1 : v \in Ceilings}

(***************************************************************************)
(* The counter implements a daily quota of EffectiveQuota: claims go to    *)
(* the current day only and never beyond the quota, and a refund only ever *)
(* reduces the use of the day on which the unit was claimed.               *)
(***************************************************************************)
ImplementsQuota == Quota!Spec
=============================================================================
