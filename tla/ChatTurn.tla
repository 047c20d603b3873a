------------------------------- MODULE ChatTurn -------------------------------
(***************************************************************************)
(* One question put to a chat, from the quota to the saved answer:         *)
(* create_message and stream_message in backend/app/api/routes/chats.py,   *)
(* RAGService.answer and .stream, and the fallback between LLM providers   *)
(* (providers/llm.py), with the requests that may run beside it: other     *)
(* turns of the chat, renaming it, deleting it, and the background title.  *)
(*                                                                         *)
(* A turn either streams server-sent events or answers with one message.   *)
(* The quota it is charged to is AIQuota's.                                *)
(***************************************************************************)
EXTENDS AIQuota, Sequences

CONSTANTS
    Chats,
    ChatOf,      \* ChatOf[c]: the chat a question is put to
    Streamed,    \* the turns asked for with /messages/stream
    Providers,   \* number of configured LLM providers, tried in order
    MaxTokens    \* bound on the tokens of an answer

ASSUME TurnAssumption ==
    /\ ChatOf \in [Calls -> Chats]
    /\ Streamed \subseteq Calls
    /\ Providers \in Nat \ {0}
    /\ MaxTokens \in Nat \ {0}

VARIABLES
    open,      \* the chats that exist
    messages,  \* messages[k]: rows of chat k by created_at
    title,     \* title of each chat
    titling,   \* turns whose background title task is running
    pc,        \* where each turn is
    mode,      \* how a turn will be answered
    first,     \* did the turn find the chat empty?
    provider,  \* the LLM provider a turn is using
    sent       \* the events a streamed turn has sent

chat == <<open, messages, title, titling>>
turn == <<pc, mode, first, provider, sent>>
vars == <<quotaVars, chat, turn>>

\* Waiting for the model's next word.
Generating == "generating"
\* The handler is at work.
Active == {"reserved", "read", "asked", Generating, "failing", "reporting",
           "saving", "saved"}
\* "answered": a complete response; "reported": an error response or event;
\* "broken": an exception left the handler; "cut": the client went away.
Over == {"answered", "reported", "broken", "cut"}

TypeOK ==
    /\ QuotaTypeOK
    /\ open \in SUBSET Chats
    /\ messages \in [Chats -> Seq({"user", "assistant"} \X Calls)]
    /\ title \in [Chats -> {"New Chat", "generated", "renamed"}]
    /\ titling \in SUBSET Calls
    /\ pc \in [Calls -> Active \cup Over \cup {"new"}]
    /\ mode \in [Calls -> {"none", "fixed", "llm"}]
    /\ first \in [Calls -> BOOLEAN]
    /\ provider \in [Calls -> 1 .. Providers]
    /\ sent \in [Calls -> Seq({"meta", "token", "done", "error"} \X (0 .. Providers))]

Init ==
    /\ QuotaInit
    /\ open = Chats
    /\ messages = [k \in Chats |-> <<>>]
    /\ title = [k \in Chats |-> "New Chat"]
    /\ titling = {}
    /\ pc = [c \in Calls |-> "new"]
    /\ mode = [c \in Calls |-> "none"]
    /\ first = [c \in Calls |-> FALSE]
    /\ provider = [c \in Calls |-> 1]
    /\ sent = [c \in Calls |-> <<>>]

Goto(c, where) == pc' = [pc EXCEPT ![c] = where]

\* yield _sse(...), when the turn is streamed; by is the provider of a token
SendBy(c, event, by) ==
    sent' = IF c \in Streamed THEN [sent EXCEPT ![c] = Append(@, <<event, by>>)] ELSE sent
Send(c, event) == SendBy(c, event, 0)

\* Mutant: the newest row comes first.
Store_NewestFirst(c, role) ==
    /\ ChatOf[c] \in open
    /\ messages' = [messages EXCEPT ![ChatOf[c]] = <<<<role, c>>>> \o @]

\* Messages go with their chat (ON DELETE CASCADE): a row of a chat that is gone
\* violates the foreign key.  Rows are stamped with clock_timestamp().
Store(c, role) ==
    /\ ChatOf[c] \in open
    /\ messages' = [messages EXCEPT ![ChatOf[c]] = Append(@, <<role, c>>)]

-----------------------------------------------------------------------------
(* The turn *)

\* The ai_question dependency: quota first.
AskQuota(c) ==
    /\ pc[c] = "new"
    /\ Ask(c)
    /\ UNCHANGED <<chat, turn>>

Charged(c) ==
    /\ Consume(c)
    /\ Goto(c, "reserved")
    /\ UNCHANGED <<chat, mode, first, provider, sent>>

TooMany(c) ==
    /\ Refuse(c)
    /\ Goto(c, "reported")
    /\ UNCHANGED <<chat, mode, first, provider, sent>>

\* _begin_turn reads the chat, the selected documents and the history ...
ReadChat(c) ==
    /\ pc[c] = "reserved"
    /\ ChatOf[c] \in open
    /\ \E m \in {"fixed", "llm"} : mode' = [mode EXCEPT ![c] = m]
    /\ first' = [first EXCEPT ![c] = messages[ChatOf[c]] = <<>>]
    /\ Goto(c, "read")
    /\ UNCHANGED <<quotaVars, chat, provider, sent>>

\* ... and refuses when there is no chat, nothing to search or no LLM.
CannotAnswer(c) ==
    /\ pc[c] = "reserved"
    /\ Goto(c, "reported")
    /\ UNCHANGED <<quotaVars, chat, mode, first, provider, sent>>

\* It commits the question; the handler then starts the title task.
SaveQuestion(c) ==
    /\ pc[c] = "read"
    /\ Store(c, "user")
    /\ titling' = IF first[c] THEN titling \cup {c} ELSE titling
    /\ Goto(c, "asked")
    /\ UNCHANGED <<quotaVars, open, title, mode, first, provider, sent>>

\* RAGService.prepare may decide to abstain: then no LLM is asked.
Prepare(c) ==
    /\ pc[c] = "asked"
    /\ \E m \in {"fixed", mode[c]} : mode' = [mode EXCEPT ![c] = m]
    /\ Goto(c, Generating)
    /\ Send(c, "meta")
    /\ UNCHANGED <<quotaVars, chat, first, provider>>

\* The chat is gone before the commit or the refresh after it, or retrieval
\* raises: a plain error response.
FailsEarly(c) ==
    /\ \/ pc[c] \in {"read", "asked"} /\ ChatOf[c] \notin open
       \/ pc[c] = "asked" /\ mode[c] = "llm"
    /\ Goto(c, "broken")
    /\ UNCHANGED <<quotaVars, chat, mode, first, provider, sent>>

\* NO_DOCUMENTS_ANSWER or INSUFFICIENT_EVIDENCE, as one token.
FixedAnswer(c) ==
    /\ pc[c] = Generating
    /\ mode[c] = "fixed"
    /\ Send(c, "token")
    /\ Goto(c, "saving")
    /\ UNCHANGED <<quotaVars, chat, mode, first, provider>>

EventsOf(c, event) == {i \in DOMAIN sent[c] : sent[c][i][1] = event}
TokensOf(c) == EventsOf(c, "token")

Token(c) ==
    /\ pc[c] = Generating
    /\ mode[c] = "llm"
    /\ c \in Streamed
    /\ Cardinality(TokensOf(c)) < MaxTokens
    /\ SendBy(c, "token", provider[c])
    /\ UNCHANGED <<quotaVars, chat, pc, mode, first, provider>>

LLMDone(c) ==
    /\ pc[c] = Generating
    /\ mode[c] = "llm"
    /\ Goto(c, "saving")
    /\ UNCHANGED <<quotaVars, chat, mode, first, provider, sent>>

\* Mutant: the next provider takes over in the middle of an answer.
MayFallBack_Always(c) == provider[c] < Providers

\* Only before the first token is another provider tried.
MayFallBack(c) == provider[c] < Providers /\ TokensOf(c) = {}

\* FallbackLLM: an LLMError or httpx.HTTPError of a provider.  When the last one
\* fails it raises LLMError; once a token is out the error is raised as it is,
\* and the handlers catch LLMError only.
ProviderFails(c, error) ==
    /\ pc[c] = Generating
    /\ mode[c] = "llm"
    /\ IF MayFallBack(c)
       THEN provider' = [provider EXCEPT ![c] = @ + 1] /\ UNCHANGED pc
       ELSE /\ Goto(c, IF error = "HTTPError" /\ TokensOf(c) # {} THEN "broken" ELSE "failing")
            /\ UNCHANGED provider
    /\ UNCHANGED <<quotaVars, chat, mode, first, sent>>

\* complete() only: a response that is no JSON is neither of the two errors.
ResponseUnreadable(c) ==
    /\ pc[c] = Generating
    /\ mode[c] = "llm"
    /\ c \notin Streamed
    /\ Goto(c, "broken")
    /\ UNCHANGED <<quotaVars, chat, mode, first, provider, sent>>

\* Mutant: generation is tried once more after the refund.
AfterRefund_Retry == Generating
AfterRefund == "reporting"

GiveBack(c) ==
    /\ pc[c] = "failing"
    /\ Refund(c) \/ RefundFails(c)
    /\ Goto(c, AfterRefund)
    /\ UNCHANGED <<chat, mode, first, provider, sent>>

\* Mutant: the handler does not return after the error.
AfterReport_Saving == "saving"
AfterReport == "reported"

ReportFailure(c) ==
    /\ pc[c] = "reporting"
    /\ Send(c, "error")
    /\ Goto(c, AfterReport)
    /\ UNCHANGED <<quotaVars, chat, mode, first, provider>>

\* _save_answer commits the answer, its log entry and the chat's updated_at.
SaveAnswer(c) ==
    /\ pc[c] = "saving"
    /\ Store(c, "assistant")
    /\ Goto(c, "saved")
    /\ UNCHANGED <<quotaVars, open, title, titling, mode, first, provider, sent>>

\* The chat was deleted while the model was answering.
SaveRejected(c) ==
    /\ pc[c] = "saving"
    /\ ChatOf[c] \notin open
    /\ Goto(c, "broken")
    /\ UNCHANGED <<quotaVars, chat, mode, first, provider, sent>>

SendDone(c) ==
    /\ pc[c] = "saved"
    /\ Send(c, "done")
    /\ Goto(c, "answered")
    /\ UNCHANGED <<quotaVars, chat, mode, first, provider>>

\* The client of a stream is gone: the generator is cancelled where it waits.
Disconnect(c) ==
    /\ c \in Streamed
    /\ pc[c] \in {Generating, "failing", "reporting", "saving", "saved"}
    /\ Goto(c, "cut")
    /\ UNCHANGED <<quotaVars, chat, mode, first, provider, sent>>

-----------------------------------------------------------------------------
(* The other requests, and the title *)

DeleteChat(k) ==
    /\ k \in open
    /\ open' = open \ {k}
    /\ messages' = [messages EXCEPT ![k] = <<>>]
    /\ UNCHANGED <<quotaVars, title, titling, turn>>

RenameChat(k) ==
    /\ k \in open
    /\ title' = [title EXCEPT ![k] = "renamed"]
    /\ UNCHANGED <<quotaVars, open, messages, titling, turn>>

\* WHERE title = 'New Chat'
MayTitle(k) == k \in open /\ title[k] = "New Chat"

SetTitle(c) ==
    /\ c \in titling
    /\ titling' = titling \ {c}
    /\ title' = IF MayTitle(ChatOf[c]) THEN [title EXCEPT ![ChatOf[c]] = "generated"]
                                       ELSE title
    /\ UNCHANGED <<quotaVars, open, messages, turn>>

-----------------------------------------------------------------------------
Handle(c) ==
    \/ Charged(c) \/ TooMany(c) \/ ReadChat(c) \/ CannotAnswer(c) \/ SaveQuestion(c)
    \/ Prepare(c) \/ FailsEarly(c) \/ FixedAnswer(c) \/ Token(c) \/ LLMDone(c)
    \/ \E error \in {"LLMError", "HTTPError"} : ProviderFails(c, error)
    \/ ResponseUnreadable(c)
    \/ GiveBack(c) \/ ReportFailure(c) \/ SaveAnswer(c) \/ SaveRejected(c) \/ SendDone(c)

Next ==
    \/ \E c \in Calls : AskQuota(c) \/ Handle(c) \/ Disconnect(c) \/ SetTitle(c)
    \/ \E k \in Chats : DeleteChat(k) \/ RenameChat(k)
    \/ Tick /\ UNCHANGED <<chat, turn>>

Spec == Init /\ [][Next]_vars

\* Every call a handler waits for returns or raises (the LLM clients and the
\* pool have timeouts).
Fairness == \A c \in Calls : WF_vars(Handle(c))

FairSpec == Spec /\ Fairness

-----------------------------------------------------------------------------
(* Properties *)

Indices(k, role, c) == {i \in DOMAIN messages[k] : messages[k][i] = <<role, c>>}

\* Whatever turns of a chat overlap: a question is there once, its answer at
\* most once, and after it.
AnswersFollowQuestions ==
    \A k \in Chats, c \in Calls :
        /\ Cardinality(Indices(k, "user", c)) <= 1
        /\ Cardinality(Indices(k, "assistant", c)) <= 1
        /\ \A i \in Indices(k, "assistant", c) : \E j \in Indices(k, "user", c) : j < i

\* An answer that was saved is paid for: nothing is given back for it.
SavedAnswersArePaid ==
    \A k \in Chats, c \in Calls : Indices(k, "assistant", c) # {} => charge[c] = "held"

\* "A failure after the first token is reported, never spliced" (ARCHITECTURE):
\* the tokens of one answer come from one provider.
NeverSpliced ==
    \A c \in Calls : \A i, j \in TokensOf(c) : sent[c][i] = sent[c][j]

\* A stream says at most once how it ended, as its last word; "done" only of an
\* answer that is stored (unless its chat is deleted), "error" only of none.
StreamTellsTheTruth ==
    \A c \in Calls :
        /\ EventsOf(c, "done") \cup EventsOf(c, "error") \subseteq {Len(sent[c])}
        /\ EventsOf(c, "done") # {} =>
             Indices(ChatOf[c], "assistant", c) # {} \/ ChatOf[c] \notin open
        /\ EventsOf(c, "error") # {} => Indices(ChatOf[c], "assistant", c) = {}

\* Every question asked is answered, refused, broken off or abandoned.
EveryTurnEnds == \A c \in Calls : charge[c] # "none" ~> pc[c] \in Over

-----------------------------------------------------------------------------
(* What the documentation says and the code does not provide *)

\* "A question that fails on the LLM side is refunded" (README.md): a model that
\* fails leaves no question charged, unless the refund itself fails.
LLMFailureIsRefunded ==
    \A c \in Calls : pc[c] = "broken" /\ TokensOf(c) # {} /\ ChatOf[c] \in open
                        => charge[c] # "held"
=============================================================================
