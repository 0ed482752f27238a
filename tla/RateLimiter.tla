----------------------------- MODULE RateLimiter -----------------------------
(***************************************************************************)
(* RateLimiter (app/state.py), the sliding window in front of the scan and *)
(* report endpoints (_limiter_dependency, app/main.py).  check() reads the *)
(* clock before it takes the lock, so a thread may decide by a time that   *)
(* has passed, and record it, after threads that read a later one.         *)
(***************************************************************************)
EXTENDS Integers, FiniteSets

CONSTANTS
    Threads,    \* pool threads that call check()
    Keys,       \* client addresses
    Limits,     \* values max_hits is given, at construction or by its setter
    Window,     \* window_seconds, in ticks
    MaxNow,     \* bound: the last tick
    MaxCalls    \* bound: calls of check()

ASSUME LimitsAssumption == Limits \subseteq Nat \ {0}
ASSUME WindowAssumption == Window \in Nat \ {0}
ASSUME BoundsAssumption == MaxNow \in Nat /\ MaxCalls \in Nat

VARIABLES
    now,        \* the clock
    max_hits,   \* _max_hits
    hits,       \* _hits: a function on the keys the dict holds
    call        \* call[t]: the locals of the check() that t is in

(***************************************************************************)
(* Not in the code: every hit that was let through since the last reset,   *)
(* when it really was, the largest limit that was in force, and the number *)
(* of calls.                                                               *)
(***************************************************************************)
VARIABLES log, peak, calls

vars == <<now, max_hits, hits, call, log, peak, calls>>

\* An element of _hits[key]; only the stamp is in the code, id tells equal
\* stamps apart and at is the time when the hit was recorded.
Hits == [id : 1..MaxCalls, stamp : 0..MaxNow, at : 0..MaxNow]

\* A thread about to take the lock, with the values of key and now.
CallsOfCheck == [key : Keys, stamp : 0..MaxNow, id : 1..MaxCalls]
Idle == [id |-> 0]

InCheck(t) == call[t] # Idle

Init ==
    /\ now = 0
    /\ max_hits \in Limits
    /\ hits = << >>
    /\ call = [t \in Threads |-> Idle]
    /\ log = [k \in Keys |-> {}]
    /\ peak = max_hits
    /\ calls = 0

After(S, cutoff) == {h \in S : h.stamp > cutoff}

\* self._hits.get(key, [])
Recorded(dict, k) == IF k \in DOMAIN dict THEN dict[k] ELSE {}

\* recent, with the cutoff of the calling thread.
Recent(c) == After(Recorded(hits, c.key), c.stamp - Window)

\* Faulty variant: the limit is compared with > instead of >=.
HasRoomOffByOne(c) == Cardinality(Recent(c)) <= max_hits

HasRoom(c) == Cardinality(Recent(c)) < max_hits

Store(k, S) == [j \in DOMAIN hits \cup {k} |-> IF j = k THEN S ELSE hits[j]]

\* Faulty variant: what is stored is the time at which the hit expires.
NewHitExpiry(c) == [id |-> c.id, stamp |-> c.stamp + Window, at |-> now]

NewHit(c) == [id |-> c.id, stamp |-> c.stamp, at |-> now]

----------------------------------------------------------------------------
\* check() up to the lock: the clock is read.
Enter(t) ==
    /\ ~InCheck(t)
    /\ calls < MaxCalls
    /\ calls' = calls + 1
    /\ \E k \in Keys : call' = [call EXCEPT ![t] = [key |-> k, stamp |-> now, id |-> calls']]
    /\ UNCHANGED <<now, max_hits, hits, log, peak>>

Return(t) == call' = [call EXCEPT ![t] = Idle]

Allow(t) ==
    /\ InCheck(t)
    /\ LET c == call[t] IN
        /\ HasRoom(c)
        /\ hits' = Store(c.key, Recent(c) \cup {NewHit(c)})
        /\ log' = [log EXCEPT ![c.key] = @ \cup {NewHit(c)}]
    /\ Return(t)
    /\ UNCHANGED <<now, max_hits, peak, calls>>

\* Faulty variant: a refused hit is recorded like any other.
RefuseRecording(t) ==
    /\ InCheck(t)
    /\ LET c == call[t] IN
        /\ ~HasRoom(c)
        /\ hits' = Store(c.key, Recent(c) \cup {NewHit(c)})
    /\ Return(t)
    /\ UNCHANGED <<now, max_hits, log, peak, calls>>

\* A refused hit is not recorded, but the old ones are dropped: 429.
Refuse(t) ==
    /\ InCheck(t)
    /\ LET c == call[t] IN
        /\ ~HasRoom(c)
        /\ hits' = Store(c.key, Recent(c))
    /\ Return(t)
    /\ UNCHANGED <<now, max_hits, log, peak, calls>>

Reset ==
    /\ hits' = << >>
    /\ log' = [k \in Keys |-> {}]
    /\ peak' = max_hits
    /\ UNCHANGED <<now, max_hits, call, calls>>

\* The max_hits setter; it does not take the lock, but is one assignment.
SetMaxHits(value) ==
    /\ max_hits' = value
    /\ peak' = IF value > peak THEN value ELSE peak
    /\ UNCHANGED <<now, hits, call, log, calls>>

Tick ==
    /\ now < MaxNow
    /\ now' = now + 1
    /\ UNCHANGED <<max_hits, hits, call, log, peak, calls>>

Next ==
    \/ \E t \in Threads : Enter(t) \/ Allow(t) \/ Refuse(t)
    \/ Reset
    \/ \E value \in Limits : SetMaxHits(value)
    \/ Tick

Spec == Init /\ [][Next]_vars

----------------------------------------------------------------------------
TypeOK ==
    /\ now \in 0..MaxNow
    /\ max_hits \in Limits /\ peak \in Limits
    /\ DOMAIN hits \subseteq Keys
    /\ \A k \in DOMAIN hits : hits[k] \subseteq Hits
    /\ call \in [Threads -> CallsOfCheck \cup {Idle}]
    /\ log \in [Keys -> SUBSET Hits]
    /\ calls \in 0..MaxCalls

\* What makes the next invariant inductive: no thread's stamp is ahead of the
\* clock, every hit on record was let through, and one that was let through and
\* is no longer on record has left the window.
LogInv ==
    /\ max_hits <= peak
    /\ \A t \in Threads : InCheck(t) => call[t].stamp <= now
    /\ \A k \in Keys :
        /\ IsFiniteSet(log[k])
        /\ Recorded(hits, k) \subseteq log[k]
        /\ After(log[k], now - Window) \subseteq Recorded(hits, k)

\* An id belongs to one call.
IdInv ==
    /\ \A t \in Threads : InCheck(t) =>
        /\ call[t].id <= calls
        /\ \A u \in Threads \ {t} : call[u].id # call[t].id
        /\ \A k \in Keys : \A h \in log[k] : h.id # call[t].id
    /\ \A k \in Keys : \A h \in log[k] : h.id <= calls

(***************************************************************************)
(* No caller has more hits in the window that ends now than max_hits ever  *)
(* allowed, however check() calls interleave with each other, with the     *)
(* clock and with the setter: a thread that decides late counts the hits   *)
(* that threads with a later clock have recorded, and what those threads   *)
(* have dropped had left the window.                                       *)
(***************************************************************************)
WindowHolds == \A k \in Keys : Cardinality(After(log[k], now - Window)) <= peak

(***************************************************************************)
(* A caller is refused only for hits that were let through: being refused, *)
(* even often, does not extend the wait (check's docstring, lines 141-142).*)
(***************************************************************************)
Refused(t) == InCheck(t) /\ ~InCheck(t)' /\ log' = log

RefusalsJustified ==
    [][\A t \in Threads : Refused(t) =>
        Cardinality(After(log[call[t].key], call[t].stamp - Window)) >= max_hits]_vars
=============================================================================
