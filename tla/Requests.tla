------------------------------- MODULE Requests -------------------------------
(***************************************************************************)
(* Requests that share the connection pool of a process (db/session.py and *)
(* api/deps.py under backend/app).  A request holds the connection of its  *)
(* session from its first query to the end of its response.  A question to *)
(* the AI needs a second one on top of it: to be charged, to be refunded   *)
(* and, when the answer is streamed, to save it.  Other requests pass the  *)
(* rate limiter and need one.  Who waits for a connection in vain gives up *)
(* after the pool's timeout.                                               *)
(***************************************************************************)
EXTENDS AIQuota, RateLimiter

CONSTANTS
    PoolSize,  \* settings.db_pool_size + settings.db_max_overflow
    Plain,     \* requests other than questions
    KeyOf      \* KeyOf[r]: what the limiter counts request r under

ASSUME RequestsAssumption ==
    /\ PoolSize \in Nat \ {0}
    /\ Plain \cap Calls = {}
    /\ KeyOf \in [Plain -> Keys]

VARIABLE at  \* where each request is

vars == <<quotaVars, limiterVars, at>>

Over == {"answered", "refused", "error"}
HoldsTwo == {"charging", "returning", "storing"}
HoldsOne == {"reserving", "generating", "refunding", "saving", "serving"}

Init ==
    /\ QuotaInit
    /\ LimiterInit
    /\ at = [r \in Calls \cup Plain |-> "new"]

InState(S) == {r \in Calls \cup Plain : at[r] \in S}
IdleConnections == PoolSize - Cardinality(InState(HoldsOne)) - 2 * Cardinality(InState(HoldsTwo))

Move(r, from, to) == at[r] = from /\ at' = [at EXCEPT ![r] = to]

\* The pool hands out a connection ...
Take(r, from, to) == Move(r, from, to) /\ IdleConnections > 0

\* Mutant: no pool_timeout.
TimesOut_Never(r) == FALSE
TimesOut(r) == IdleConnections = 0

\* ... or raises when none has come back in time.
GiveUp(r, from, to) == Move(r, from, to) /\ TimesOut(r)

-----------------------------------------------------------------------------
(* A question *)

\* get_current_user: the first query of the session.  reserve_ai then names the
\* counters and waits for another connection.
FindUser(c) ==
    /\ \/ Take(c, "new", "reserving") /\ Ask(c)
       \/ GiveUp(c, "new", "error") /\ UNCHANGED quotaVars
    /\ UNCHANGED limiterVars

Reserve(c) ==
    /\ Take(c, "reserving", "charging") \/ GiveUp(c, "reserving", "error")
    /\ UNCHANGED <<quotaVars, limiterVars>>

Charge(c) ==
    /\ \/ Consume(c) /\ Move(c, "charging", "generating")
       \/ Refuse(c) /\ Move(c, "charging", "refused")
    /\ UNCHANGED limiterVars

\* The answer is complete and sent at once, or must be saved at the end of its
\* stream; or the provider has failed.
Generated(c) ==
    /\ \E to \in {"answered", "saving", "refunding"} : Move(c, "generating", to)
    /\ UNCHANGED <<quotaVars, limiterVars>>

SaveStream(c) ==
    /\ \/ Take(c, "saving", "storing")
       \/ GiveUp(c, "saving", "error")
       \/ Move(c, "storing", "answered")
    /\ UNCHANGED <<quotaVars, limiterVars>>

\* refund logs whatever goes wrong, and the question ends with an error anyway.
GiveBack(c) ==
    /\ \/ Take(c, "refunding", "returning") /\ UNCHANGED quotaVars
       \/ GiveUp(c, "refunding", "error") /\ RefundFails(c)
       \/ Move(c, "returning", "error") /\ Refund(c)
    /\ UNCHANGED limiterVars

-----------------------------------------------------------------------------
(* Other requests *)

\* The limiter comes before the session is used.
Limited(r) ==
    LET k == KeyOf[r] IN
    /\ \/ Admit(k, now) /\ Move(r, "new", "admitted")
       \/ Reject(k, now) /\ Move(r, "new", IF Raises(k, now) THEN "error" ELSE "refused")
    /\ UNCHANGED quotaVars

Serve(r) ==
    /\ \/ Take(r, "admitted", "serving")
       \/ GiveUp(r, "admitted", "error")
       \/ Move(r, "serving", "answered")
    /\ UNCHANGED <<quotaVars, limiterVars>>

Question(c) ==
    \/ FindUser(c) \/ Reserve(c) \/ Charge(c)
    \/ Generated(c) \/ SaveStream(c) \/ GiveBack(c)

Clock == Tick /\ UNCHANGED <<limiterVars, at>>

Next ==
    \/ \E c \in Calls : Question(c)
    \/ \E r \in Plain : Limited(r) \/ Serve(r)
    \/ Clock

Spec == Init /\ [][Next]_vars

-----------------------------------------------------------------------------
(* Properties *)

\* Questions that hold one connection and wait for another can be as many as the
\* pool has connections; still there is always somebody who can go on, until all
\* are over.  No request ever goes back, so all of them end.
NobodyWaitsForever ==
    InState(Over) # Calls \cup Plain =>
        \/ \E c \in Calls : ENABLED Question(c)
        \/ \E r \in Plain : ENABLED (Limited(r) \/ Serve(r))
=============================================================================
