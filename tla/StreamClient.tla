----------------------------- MODULE StreamClient -----------------------------
(***************************************************************************)
(* The chat page of the browser (frontend/src): useChatStream drives the   *)
(* live turn, streamChatMessage and readSSE read the answer, ask (ChatPage *)
(* .tsx) creates the chat of a first question, and the query cache holds   *)
(* the messages of each chat beside it.                                    *)
(*                                                                         *)
(* A step is what the browser runs between two events of its loop: all     *)
(* that follows from a chunk, an abort or a response happens at once.  The *)
(* server saves a question before it answers and an answer before it says  *)
(* "done"; it learns late, or never, that the client has gone.             *)
(***************************************************************************)
EXTENDS EventStream

CONSTANTS
    Calls,      \* questions the user may ask
    Chats,
    ChatOf,     \* ChatOf[c]: the chat question c is asked in
    NewChats,   \* chats that do not exist before their question is asked
    MaxTokens,  \* bound on the tokens of an answer
    Chunks,     \* how many symbols the network may bring at once
    None

ASSUME ClientAssumption ==
    /\ ChatOf \in [Calls -> Chats] /\ NewChats \subseteq Chats
    /\ MaxTokens \in Nat /\ Chunks \subseteq Nat \ {0} /\ None \notin Chats

VARIABLES
    saved,     \* server: the messages of each chat, <<call, role>>
    serving,   \* server: how far it is with a question
    written,   \* server: the events of each answer
    wire,      \* symbols of an answer that the client has not read
    pc,        \* client: how far each send is
    parser,    \* client: the SSEParser of each send
    handled,   \* client: the events each send has handled
    turn,      \* the live turn, or None
    creating,  \* questions that wait for their chat to be created
    cache      \* the messages of each chat, or None if they are not loaded

server == <<saved, serving, written, wire>>
client == <<pc, parser, handled, turn, creating, cache>>
vars == <<server, client>>

Running == {"opening", "reading"}

Init ==
    /\ saved = [k \in Chats |-> <<>>]
    /\ serving = [c \in Calls |-> "none"]
    /\ written = [c \in Calls |-> <<>>]
    /\ wire = [c \in Calls |-> <<>>]
    /\ pc = [c \in Calls |-> "idle"]
    /\ parser = [c \in Calls |-> NewParser]
    /\ handled = [c \in Calls |-> <<>>]
    /\ turn = None
    /\ creating = {}
    /\ cache = [k \in Chats |-> None]

-----------------------------------------------------------------------------
(* The server *)

Save(c, role) == saved' = [saved EXCEPT ![ChatOf[c]] = Append(@, <<c, role>>)]
Serve(c, from, to) == serving[c] = from /\ serving' = [serving EXCEPT ![c] = to]

\* The request may arrive after the client has given it up.
SaveQuestion(c) ==
    /\ pc[c] # "idle"
    /\ Serve(c, "none", "preparing")
    /\ Save(c, "user")
    /\ UNCHANGED <<written, wire, client>>

\* The headers of the response.
Respond(c) ==
    /\ Serve(c, "preparing", "answering")
    /\ pc' = [pc EXCEPT ![c] = IF @ = "opening" THEN "reading" ELSE @]
    /\ UNCHANGED <<saved, written, wire, parser, handled, turn, creating, cache>>

Write(c, event, data) ==
    LET e == [event |-> event, data |-> data] IN
    /\ written' = [written EXCEPT ![c] = Append(@, e)]
    /\ wire' = [wire EXCEPT ![c] = @ \o Written(e)]

\* What is written for a client that has gone is lost, and left out.
Answer(c) ==
    /\ pc[c] = "reading"
    /\ Serve(c, "answering", "answering")
    /\ Len(written[c]) <= MaxTokens
    /\ IF written[c] = <<>> THEN Write(c, "meta", <<c>>) ELSE Write(c, "token", <<Len(written[c])>>)
    /\ UNCHANGED <<saved, client>>

SaveAnswer(c) ==
    /\ written[c] # <<>> \/ pc[c] \notin Running
    /\ Serve(c, "answering", "saved")
    /\ Save(c, "assistant")
    /\ UNCHANGED <<written, wire, client>>

\* "done", "error", or the stream just ends, anywhere.
EndAnswer(c) ==
    /\ pc[c] = "reading"
    /\ \/ Serve(c, "saved", "closed") /\ Write(c, "done", <<c>>)
       \/ Serve(c, "answering", "closed") /\ written[c] # <<>> /\ Write(c, "error", <<c>>)
       \/ /\ Serve(c, "answering", "closed")
          /\ \E n \in 0 .. Len(wire[c]) : wire' = [wire EXCEPT ![c] = SubSeq(@, 1, n)]
          /\ UNCHANGED written
    /\ UNCHANGED <<saved, client>>

-----------------------------------------------------------------------------
(* The query cache *)

\* Mutant: the messages that are in the cache already are not taken out.
Merged_Twice(messages, more) == messages \o more

\* appendToCache
Kept(more, messages, m) == IF Contains(more, m) THEN messages ELSE Append(messages, m)
Merged(messages, more) == FoldLeft(LAMBDA kept, m : Kept(more, kept, m), <<>>, messages) \o more

Appended(loaded, k, more) ==
    IF loaded[k] = None THEN loaded ELSE [loaded EXCEPT ![k] = Merged(@, more)]

\* What a request that the server has answered may bring, by now or a while ago: it
\* only ever saves more.
Snapshots(k) == {SubSeq(saved[k], 1, n) : n \in 0 .. Len(saved[k])}

\* The chat that was read again is stored, whoever has asked for it: the key ["chats"]
\* that is invalidated after every turn is a prefix of the keys of all chats.  The
\* cache may have changed since the server was asked, which is not a step here.
Refetch(k) ==
    /\ \E snapshot \in Snapshots(k) : cache' = [cache EXCEPT ![k] = snapshot]
    /\ UNCHANGED <<server, pc, parser, handled, turn, creating>>

-----------------------------------------------------------------------------
(* useChatStream *)

Streaming == turn # None /\ turn.status = "streaming"
Has(c, event) == \E i \in DOMAIN handled[c] : handled[c][i].event = event
WithToken(answer, e) == IF e.event = "token" THEN Append(answer, e.data) ELSE answer
TokensOf(events) == FoldLeft(LAMBDA answer, e : WithToken(answer, e), <<>>, events)

\* setTurn((t) => t ? ... : t): whatever turn is shown now.
Marked(t, status, shown) == IF t = None THEN None ELSE [t EXCEPT !.status = status, !.shown = shown]

\* Mutant: the answer under way is not given up.
Replaced_Not(c) == {}

\* What send aborts: the send whose controller is current.
Replaced(c) == {b \in Calls \ {c} : pc[b] \in Running}

\* The AbortError of send b: a question that is known to be saved goes to the
\* cache, or else it stays with the live turn.
Stopped(b, loaded) == IF Has(b, "meta") THEN Appended(loaded, ChatOf[b], <<<<b, "user">>>>) ELSE loaded

\* The response and the parser of a send that is over are garbage.
Forget(ended) ==
    /\ wire' = [b \in Calls |-> IF b \in ended THEN <<>> ELSE wire[b]]
    /\ parser' = [b \in Calls |-> IF b \in ended THEN NewParser ELSE parser[b]]
    /\ UNCHANGED <<saved, serving, written>>

\* send, with what is loaded before it.  The new turn is shown first, and then
\* the send it replaces learns of its abort.
Send(c, loaded) ==
    LET new == [call |-> c, shown |-> TRUE, answer |-> <<>>, status |-> "streaming"] IN
    /\ pc[c] = "idle"
    /\ pc' = [b \in Calls |-> IF b = c THEN "opening" ELSE IF b \in Replaced(c) THEN "stopped" ELSE pc[b]]
    /\ \/ Replaced(c) = {} /\ turn' = new /\ cache' = loaded
       \/ \E b \in Replaced(c) :
             /\ turn' = Marked(new, "stopped", ~Has(b, "meta"))
             /\ cache' = Stopped(b, loaded)
    /\ Forget({c} \cup Replaced(c))
    /\ UNCHANGED handled

\* ask: the composer sends nothing while an answer is streaming ...
Ask(c) ==
    /\ ChatOf[c] \notin NewChats
    /\ ~Streaming
    /\ Send(c, cache)
    /\ UNCHANGED creating

\* ... or the chat of the question is being created.
AskInNewChat(c) ==
    /\ pc[c] = "idle" /\ c \notin creating
    /\ ChatOf[c] \in NewChats
    /\ ~Streaming
    /\ creating' = creating \cup {c}
    /\ UNCHANGED <<server, pc, parser, handled, turn, cache>>

\* The user may have gone to another chat by now, and asked there.
Created(c) ==
    /\ c \in creating
    /\ creating' = creating \ {c}
    /\ Send(c, [cache EXCEPT ![ChatOf[c]] = <<>>])

CreateFails(c) ==
    /\ c \in creating
    /\ creating' = creating \ {c}
    /\ UNCHANGED <<server, pc, parser, handled, turn, cache>>

Stop(c) ==
    /\ pc[c] \in Running
    /\ pc' = [pc EXCEPT ![c] = "stopped"]
    /\ turn' = Marked(turn, "stopped", ~Has(c, "meta"))
    /\ cache' = Stopped(c, cache)
    /\ Forget({c})
    /\ UNCHANGED <<handled, creating>>

-----------------------------------------------------------------------------
(* streamChatMessage *)

\* Data that is no JSON is skipped, as are unknown events; "error" throws.
Accept(events, e) ==
    IF \/ e.data = Broken \/ e.event \notin {"meta", "token", "done", "error"}
       \/ events # <<>> /\ Last(events).event = "error"
    THEN events
    ELSE Append(events, e)
Accepted(events) == FoldLeft(LAMBDA accepted, e : Accept(accepted, e), <<>>, events)

Handle(c, events) ==
    /\ handled' = [handled EXCEPT ![c] = @ \o Accepted(events)]
    /\ turn' = IF turn = None THEN None ELSE [turn EXCEPT !.answer = @ \o TokensOf(Accepted(events))]

\* The catch of any other error first reads the chat again.
Fails(c) ==
    /\ pc' = [pc EXCEPT ![c] = "refreshing"]
    /\ UNCHANGED cache

Read(c) ==
    /\ pc[c] = "reading"
    /\ wire[c] # <<>>
    /\ \E size \in Chunks :
         LET n == IF size < Len(wire[c]) THEN size ELSE Len(wire[c])
             f == Feed(parser[c], SubSeq(wire[c], 1, n))
         IN /\ wire' = [wire EXCEPT ![c] = SubSeq(@, n + 1, Len(@))]
            /\ parser' = [parser EXCEPT ![c] = f.parser]
            /\ Handle(c, f.out)
    /\ IF Has(c, "error")' THEN Fails(c) ELSE UNCHANGED <<pc, cache>>
    /\ UNCHANGED <<saved, serving, written, creating>>

\* The response is over: a "done" has come, or it ended early.
Finish(c) ==
    /\ pc[c] = "reading"
    /\ serving[c] = "closed" /\ wire[c] = <<>>
    /\ IF Has(c, "done") \/ \E i \in DOMAIN Flush(parser[c]) : Flush(parser[c])[i].event = "done"
       THEN /\ handled' = [handled EXCEPT ![c] = @ \o Accepted(Flush(parser[c]))]
            /\ pc' = [pc EXCEPT ![c] = "answered"]
            /\ turn' = None
            /\ cache' = Appended(cache, ChatOf[c], <<<<c, "user">>, <<c, "assistant">>>>)
       ELSE Handle(c, Flush(parser[c])) /\ Fails(c)
    /\ Forget({c})
    /\ UNCHANGED creating

\* An HTTP error, or the connection breaks.
Break(c) ==
    /\ pc[c] \in Running
    /\ Fails(c)
    /\ Forget({c})
    /\ UNCHANGED <<handled, turn, creating>>

\* invalidateQueries has returned, with the messages or without.
Refreshed(c) ==
    /\ pc[c] = "refreshing"
    /\ pc' = [pc EXCEPT ![c] = "failed"]
    /\ \/ UNCHANGED cache
       \/ \E snapshot \in Snapshots(ChatOf[c]) : cache' = [cache EXCEPT ![ChatOf[c]] = snapshot]
    /\ turn' = Marked(turn, "error", FALSE)
    /\ UNCHANGED <<server, parser, handled, creating>>

-----------------------------------------------------------------------------
Serving(c) == SaveQuestion(c) \/ Respond(c) \/ Answer(c) \/ SaveAnswer(c) \/ EndAnswer(c)
Asking(c) == Ask(c) \/ AskInNewChat(c) \/ Created(c) \/ CreateFails(c) \/ Stop(c)
Streams(c) == Read(c) \/ Finish(c) \/ Break(c) \/ Refreshed(c)

Next ==
    \/ \E c \in Calls : Serving(c) \/ Asking(c) \/ Streams(c)
    \/ \E k \in Chats : Refetch(k)

Spec == Init /\ [][Next]_vars

-----------------------------------------------------------------------------
(* Properties *)

\* "events split across chunks", "CRLF/CR/LF line endings" (sse.ts): wherever the
\* network cuts an answer, and wherever it ends, the events that are handled are
\* those the server has written, in order, and all that were read of an open answer.
EventsSurviveTheSplit ==
    \A c \in Calls : LET left == Len(wire[c]) + Len(parser[c].buffer) IN
        /\ IsPrefix(handled[c], written[c])
        /\ pc[c] = "reading" /\ left = 0 /\ serving[c] # "closed" => handled[c] = written[c]
        /\ pc[c] = "answered" => Last(handled[c]).event = "done"

\* Through optimistic updates, stops, late refetches and their races: a message
\* in the cache of a chat is one the server has saved there, and none is twice.
CacheTellsTheTruth ==
    \A k \in Chats : cache[k] # None =>
        IsInjective(cache[k]) /\ ToSet(cache[k]) \subseteq ToSet(saved[k])

\* "Drives one streamed answer at a time": the answer on the screen is made of the
\* tokens of its own question, from the first on, and if it is said to be on its
\* way it is.  A turn said to be over while it is running has been marked by the
\* end of an earlier one.
LiveTurnIsItsOwn ==
    turn # None =>
        /\ turn.answer = TokensOf(handled[turn.call])
        /\ turn.status = "streaming" => pc[turn.call] \in Running \cup {"refreshing"}
        /\ turn.status # "streaming" /\ pc[turn.call] \in Running =>
             \E b \in Calls \ {turn.call} : pc[b] \in {"stopped", "failed"}
=============================================================================
