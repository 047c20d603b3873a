------------------------------ MODULE MCRequests ------------------------------
(***************************************************************************)
(* A small instance of Requests: three questions of two users and two      *)
(* other requests of one client, a pool that two questions exhaust, three  *)
(* minutes and two days.                                                   *)
(***************************************************************************)
EXTENDS Requests, TLC

CONSTANTS u1, u2, a1, a2, b1, p1, p2, k1

MCUsers == {u1, u2}
MCCalls == {a1, a2, b1}
MCUserOf == [c \in MCCalls |-> IF c = b1 THEN u2 ELSE u1]
MCDayOf == [m \in Minutes |-> m \div 2]
MCPlain == {p1, p2}
MCKeys == {k1}
MCKeyOf == [r \in MCPlain |-> k1]
MCHitLimit == [k \in MCKeys |-> 1]

\* The questions of one user are interchangeable, and so are the other requests.
RequestSymmetry == Permutations({a1, a2}) \cup Permutations({p1, p2})
=============================================================================
