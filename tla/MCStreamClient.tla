---------------------------- MODULE MCStreamClient ----------------------------
(***************************************************************************)
(* A small instance of StreamClient: a question in a chat that exists, and *)
(* one that opens a chat of its own; the lines of an answer end with CR    *)
(* LF, so that the network can cut between the two.                        *)
(***************************************************************************)
EXTENDS StreamClient

CONSTANTS q1, q2, k1, k2

MCNewline == <<CR, LF>>
MCChatOf == [c \in Calls |-> IF c = q2 THEN k2 ELSE k1]
=============================================================================
