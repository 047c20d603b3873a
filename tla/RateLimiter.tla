------------------------------ MODULE RateLimiter ------------------------------
(***************************************************************************)
(* The sliding-window limiter of one process (backend/app/ratelimit.py):   *)
(* a deque of the times of the accepted hits for each key, cut off where   *)
(* they are older than the window.  hit runs without a pause: its lock is  *)
(* never waited for.                                                       *)
(*                                                                         *)
(* accepted[k] keeps all accepted hits of key k; the deque is the part of  *)
(* it that begins at oldest[k].                                            *)
(***************************************************************************)
EXTENDS Integers, Sequences

CONSTANTS
    Keys,        \* setting, route and client
    HitLimit,    \* HitLimit[k]: what the setting allows
    HitWindow    \* length of the window

ASSUME LimiterAssumption == HitLimit \in [Keys -> Nat] /\ HitWindow \in Nat \ {0}

VARIABLES accepted, oldest

limiterVars == <<accepted, oldest>>

LimiterInit ==
    /\ accepted = [k \in Keys |-> <<>>]
    /\ oldest = [k \in Keys |-> 1]

\* Mutant: a hit at the edge of the window is kept too short.
IsOver_Early(t, time) == t < time
IsOver(t, time) == t <= time - HitWindow

\* while q and q[0] <= now - window: q.popleft()
First(k, time) ==
    CHOOSE i \in oldest[k] .. Len(accepted[k]) + 1 :
        /\ \A j \in oldest[k] .. i - 1 : IsOver(accepted[k][j], time)
        /\ i <= Len(accepted[k]) => ~IsOver(accepted[k][i], time)

Held(k, time) == Len(accepted[k]) + 1 - First(k, time)

Admit(k, time) ==
    /\ Held(k, time) < HitLimit[k]
    /\ accepted' = [accepted EXCEPT ![k] = Append(@, time)]
    /\ oldest' = [oldest EXCEPT ![k] = First(k, time)]

\* 429 with Retry-After.  With a limit of 0 the deque of a new key is empty and
\* q[0] raises an IndexError.
Reject(k, time) ==
    /\ Held(k, time) >= HitLimit[k]
    /\ oldest' = [oldest EXCEPT ![k] = First(k, time)]
    /\ UNCHANGED accepted

Raises(k, time) == Held(k, time) = 0
RetryAfter(k, time) == accepted[k][First(k, time)] + HitWindow - time

-----------------------------------------------------------------------------
(* Properties *)

\* No window of HitWindow, wherever it starts, holds more accepted hits than
\* the limit, though the deque forgets them one by one; with a limit of 0 none
\* is accepted.
WindowNeverOverfull ==
    \A k \in Keys :
        /\ HitLimit[k] = 0 => accepted[k] = <<>>
        /\ \A i \in 1 .. Len(accepted[k]) - HitLimit[k] :
             accepted[k][i + HitLimit[k]] >= accepted[k][i] + HitWindow
=============================================================================
