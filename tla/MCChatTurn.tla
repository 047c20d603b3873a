------------------------------ MODULE MCChatTurn ------------------------------
(***************************************************************************)
(* A small instance of ChatTurn: one user, one chat, a streamed turn and a *)
(* plain one, two providers.                                               *)
(***************************************************************************)
EXTENDS ChatTurn, TLC

CONSTANTS user, chat1, stream1, plain

MCUsers == {user}
MCChats == {chat1}
MCUserOf == [c \in Calls |-> user]
MCChatOf == [c \in Calls |-> chat1]
MCDayOf == [m \in Minutes |-> m]
=============================================================================
