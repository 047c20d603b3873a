---------------------------- MODULE ChatTurnProofs ----------------------------
(***************************************************************************)
(* Proofs about ChatTurn, for any number of turns, chats and providers.    *)
(*                                                                         *)
(* A turn is where it is because of what has been charged, stored and sent *)
(* before: CallInv says so of one turn.  The turns of a chat meet only in  *)
(* its messages, where none disturbs the rows of another.                  *)
(***************************************************************************)
EXTENDS ChatTurn, FiniteSetTheorems, TLAPS

Roles == {"user", "assistant"}
Names == {"meta", "token", "done", "error"}
Event == Names \X (0 .. Providers)

Shapes ==
    /\ charge \in [Calls -> Charges]
    /\ messages \in [Chats -> Seq(Roles \X Calls)]
    /\ pc \in [Calls -> Active \cup Over \cup {"new"}]
    /\ mode \in [Calls -> {"none", "fixed", "llm"}]
    /\ provider \in [Calls -> 1 .. Providers]
    /\ sent \in [Calls -> Seq(Event)]

\* Only a turn that can still be answered, or has been, holds its charge for sure.
ChargeInv(c) ==
    /\ pc[c] = "new" <=> charge[c] \in {"none", "asking"}
    /\ pc[c] \in {"reserved", "read", "asked", Generating, "failing", "saving", "saved"}
         => charge[c] = "held"

Unasked == {"new", "reserved", "read"}
Questioned == {"asked", Generating, "failing", "reporting", "saving", "saved"}

Asked(c) == Indices(ChatOf[c], "user", c)
Answered(c) == Indices(ChatOf[c], "assistant", c)

MessagesInv(c) ==
    /\ \A k \in Chats, role \in Roles : Indices(k, role, c) # {} => k = ChatOf[c]
    /\ pc[c] \in Unasked => Asked(c) = {}
    /\ pc[c] \in Questioned /\ ChatOf[c] \in open => Asked(c) # {}
    /\ Answered(c) # {} => pc[c] \in {"saved", "answered", "cut"} /\ charge[c] = "held"
    /\ pc[c] \in {"saved", "answered"} /\ ChatOf[c] \in open => Answered(c) # {}
    /\ \A i, j \in Asked(c) : i = j
    /\ \A i, j \in Answered(c) : i = j
    /\ \A i \in Answered(c) : \E j \in Asked(c) : j < i

StreamInv(c) ==
    /\ pc[c] \in Unasked \cup {"asked"} => sent[c] = <<>>
    /\ EventsOf(c, "done") \cup EventsOf(c, "error") \subseteq {Len(sent[c])}
    /\ EventsOf(c, "done") # {} => pc[c] = "answered"
    /\ EventsOf(c, "error") # {} => pc[c] = "reported"
    /\ pc[c] = Generating /\ mode[c] # "llm" => TokensOf(c) = {}
    /\ pc[c] = Generating => \A i \in TokensOf(c) : sent[c][i] = <<"token", provider[c]>>
    /\ \A i, j \in TokensOf(c) : sent[c][i] = sent[c][j]

CallInv(c) == ChargeInv(c) /\ MessagesInv(c) /\ StreamInv(c)

TurnInv == Shapes /\ \A c \in Calls : CallInv(c)

-----------------------------------------------------------------------------
(* What storing and sending do *)

LEMMA StoreFacts ==
    ASSUME Shapes, NEW c \in Calls, NEW role \in Roles, Store(c, role)
    PROVE  /\ messages' \in [Chats -> Seq(Roles \X Calls)]
           /\ ChatOf[c] \in open
           /\ Indices(ChatOf[c], role, c)'
                = Indices(ChatOf[c], role, c) \cup {Len(messages[ChatOf[c]]) + 1}
           /\ \A k \in Chats, r \in Roles, b \in Calls :
                <<k, r, b>> # <<ChatOf[c], role, c>> => Indices(k, r, b)' = Indices(k, r, b)
           /\ \A r \in Roles, b \in Calls : \A i \in Indices(ChatOf[c], r, b) :
                i \in Nat /\ i < Len(messages[ChatOf[c]]) + 1
<1> DEFINE k == ChatOf[c]
           old == messages[k]
<1>1. /\ k \in Chats /\ k \in open /\ old \in Seq(Roles \X Calls) /\ Len(old) \in Nat
      /\ messages' = [messages EXCEPT ![k] = Append(old, <<role, c>>)]
    BY TurnAssumption DEF Shapes, Store
<1>2. <<role, c>> \in Roles \X Calls
    OBVIOUS
<1>3. /\ messages' \in [Chats -> Seq(Roles \X Calls)]
      /\ messages'[k] = Append(old, <<role, c>>)
      /\ \A h \in Chats \ {k} : messages'[h] = messages[h]
    BY <1>1, <1>2 DEF Shapes
<1>4. /\ DOMAIN messages'[k] = 1 .. Len(old) + 1 /\ DOMAIN old = 1 .. Len(old)
      /\ \A i \in 1 .. Len(old) : messages'[k][i] = old[i]
      /\ messages'[k][Len(old) + 1] = <<role, c>>
    BY <1>1, <1>2, <1>3
<1>5. Indices(k, role, c)' = Indices(k, role, c) \cup {Len(old) + 1}
    BY <1>1, <1>4 DEF Indices
<1>6. ASSUME NEW h \in Chats, NEW r \in Roles, NEW b \in Calls,
             <<h, r, b>> # <<k, role, c>>
      PROVE  Indices(h, r, b)' = Indices(h, r, b)
  <2>1. CASE h # k
      BY <1>3, <2>1 DEF Indices
  <2>2. CASE h = k
    <3>1. <<role, c>> # <<r, b>>
        BY <1>6, <2>2
    <3> QED  BY <1>1, <1>4, <2>2, <3>1 DEF Indices
  <2> QED  BY <2>1, <2>2
<1>7. \A r \in Roles, b \in Calls : \A i \in Indices(k, r, b) : i \in Nat /\ i < Len(old) + 1
    BY <1>1, <1>4 DEF Indices
<1> QED  BY <1>1, <1>3, <1>5, <1>6, <1>7

LEMMA SendFacts ==
    ASSUME Shapes, NEW c \in Calls, NEW event \in Names, NEW by \in 0 .. Providers,
           SendBy(c, event, by)
    PROVE  /\ sent' \in [Calls -> Seq(Event)]
           /\ \A b \in Calls \ {c} : sent'[b] = sent[b]
           /\ \A e \in Names : EventsOf(c, e)' =
                EventsOf(c, e) \cup IF c \in Streamed /\ e = event
                                    THEN {Len(sent[c]) + 1} ELSE {}
           /\ \A e \in Names : \A i \in EventsOf(c, e) :
                i # Len(sent[c]) + 1 /\ sent'[c][i] = sent[c][i]
           /\ c \in Streamed => /\ Len(sent'[c]) = Len(sent[c]) + 1
                                /\ sent'[c][Len(sent[c]) + 1] = <<event, by>>
           /\ c \notin Streamed => sent'[c] = sent[c]
<1>1. sent[c] \in Seq(Event) /\ Len(sent[c]) \in Nat /\ DOMAIN sent[c] = 1 .. Len(sent[c])
    BY DEF Shapes
<1>2. <<event, by>> \in Event
    BY DEF Event
<1>3. CASE c \notin Streamed
  <2>1. sent' = sent
      BY <1>3 DEF SendBy
  <2>2. \A e \in Names : EventsOf(c, e)' = EventsOf(c, e)
      BY <2>1 DEF EventsOf
  <2>3. \A e \in Names : \A i \in EventsOf(c, e) : i # Len(sent[c]) + 1
      BY <1>1 DEF EventsOf
  <2> QED  BY <1>3, <2>1, <2>2, <2>3 DEF Shapes
<1>4. CASE c \in Streamed
  <2>1. sent' = [sent EXCEPT ![c] = Append(sent[c], <<event, by>>)]
      BY <1>4 DEF SendBy
  <2>2. /\ sent' \in [Calls -> Seq(Event)] /\ sent'[c] = Append(sent[c], <<event, by>>)
        /\ \A b \in Calls \ {c} : sent'[b] = sent[b]
      BY <1>1, <1>2, <2>1 DEF Shapes
  <2>3. /\ Len(sent'[c]) = Len(sent[c]) + 1 /\ DOMAIN sent'[c] = 1 .. Len(sent[c]) + 1
        /\ \A i \in 1 .. Len(sent[c]) : sent'[c][i] = sent[c][i]
        /\ sent'[c][Len(sent[c]) + 1] = <<event, by>>
      BY <1>1, <1>2, <2>2
  <2>4. \A e \in Names : \A i \in EventsOf(c, e) :
          i \in 1 .. Len(sent[c]) /\ i # Len(sent[c]) + 1
      BY <1>1 DEF EventsOf
  <2>5. \A e \in Names : EventsOf(c, e)' =
          EventsOf(c, e) \cup IF e = event THEN {Len(sent[c]) + 1} ELSE {}
      BY <1>1, <2>3 DEF EventsOf
  <2> QED  BY <1>4, <2>2, <2>3, <2>4, <2>5
<1> QED  BY <1>3, <1>4

\* A step of turn c leaves what is known of the others.
LEMMA OthersKept ==
    ASSUME TurnInv, NEW c \in Calls, open' = open,
           messages' = messages \/ \E role \in Roles : Store(c, role),
           \A b \in Calls \ {c} :
               /\ pc'[b] = pc[b] /\ mode'[b] = mode[b] /\ provider'[b] = provider[b]
               /\ sent'[b] = sent[b] /\ charge'[b] = charge[b]
    PROVE  \A b \in Calls \ {c} : CallInv(b)'
<1> SUFFICES ASSUME NEW b \in Calls \ {c} PROVE CallInv(b)'
    OBVIOUS
<1>1. \A k \in Chats, r \in Roles : Indices(k, r, b)' = Indices(k, r, b)
  <2>1. CASE messages' = messages
      BY <2>1 DEF Indices
  <2>2. ASSUME NEW role \in Roles, Store(c, role)
        PROVE  \A k \in Chats, r \in Roles : Indices(k, r, b)' = Indices(k, r, b)
      BY <2>2, StoreFacts DEF TurnInv
  <2> QED  BY <2>1, <2>2
<1>2. \A e \in Names : EventsOf(b, e)' = EventsOf(b, e)
    BY DEF EventsOf
<1>3. Asked(b)' = Asked(b) /\ Answered(b)' = Answered(b)
    BY <1>1, TurnAssumption DEF Asked, Answered, Roles
<1>4. ChargeInv(b)'
    BY DEF TurnInv, CallInv, ChargeInv
<1>5. MessagesInv(b)'
    BY <1>1, <1>3 DEF TurnInv, CallInv, MessagesInv
<1>6. StreamInv(b)'
    BY <1>2 DEF TurnInv, CallInv, StreamInv, TokensOf, Names
<1> QED  BY <1>4, <1>5, <1>6 DEF CallInv

\* What does not touch the messages or the events of a turn leaves their indices.
LEMMA Unchanged ==
    /\ messages' = messages =>
         /\ \A k, r, b : Indices(k, r, b)' = Indices(k, r, b)
         /\ \A b : Asked(b)' = Asked(b) /\ Answered(b)' = Answered(b)
    /\ sent' = sent =>
         /\ \A b, e : EventsOf(b, e)' = EventsOf(b, e)
         /\ \A b : TokensOf(b)' = TokensOf(b)
BY DEF Indices, Asked, Answered, EventsOf, TokensOf

-----------------------------------------------------------------------------
LEMMA TurnInvInit == Init => TurnInv
<1> SUFFICES ASSUME Init PROVE TurnInv
    OBVIOUS
<1>1. Shapes
  <2>1. <<>> \in Seq(Roles \X Calls) /\ <<>> \in Seq(Event) /\ 1 \in 1 .. Providers
      BY TurnAssumption
  <2>2. charge \in [Calls -> Charges] /\ pc \in [Calls -> Active \cup Over \cup {"new"}]
      BY DEF Init, QuotaInit, Charges
  <2>3. messages \in [Chats -> Seq(Roles \X Calls)] /\ sent \in [Calls -> Seq(Event)]
      BY <2>1 DEF Init
  <2>4. mode \in [Calls -> {"none", "fixed", "llm"}] /\ provider \in [Calls -> 1 .. Providers]
      BY <2>1 DEF Init
  <2> QED  BY <2>2, <2>3, <2>4 DEF Shapes
<1>2. ASSUME NEW c \in Calls PROVE CallInv(c)
  <2>1. /\ \A k \in Chats, r \in Roles : Indices(k, r, c) = {}
        /\ \A e \in Names : EventsOf(c, e) = {}
    <3>1. sent[c] = <<>> /\ \A k \in Chats : messages[k] = <<>>
        BY DEF Init
    <3>2. DOMAIN sent[c] = {} /\ \A k \in Chats : DOMAIN messages[k] = {}
        BY <3>1
    <3> QED  BY <3>2 DEF Indices, EventsOf
  <2>2. Asked(c) = {} /\ Answered(c) = {} /\ TokensOf(c) = {}
      BY <2>1, TurnAssumption DEF Asked, Answered, TokensOf, Roles, Names
  <2>3. pc[c] = "new" /\ charge[c] = "none" /\ sent[c] = <<>>
      BY DEF Init, QuotaInit
  <2>4. ChargeInv(c)
      BY <2>3 DEF ChargeInv, Generating
  <2>5. MessagesInv(c)
      BY <2>1, <2>2, <2>3 DEF MessagesInv, Questioned, Generating
  <2>6. StreamInv(c)
      BY <2>1, <2>2, <2>3 DEF StreamInv, Generating, Names
  <2> QED  BY <2>4, <2>5, <2>6 DEF CallInv
<1> QED  BY <1>1, <1>2 DEF TurnInv

-----------------------------------------------------------------------------
(* The steps that only move a turn, and those that change its charge *)

\* A step that sends and stores nothing: where it may lead is what matters.
LEMMA MoveKeeps ==
    ASSUME TurnInv, Shapes', NEW c \in Calls, UNCHANGED <<open, messages, sent>>,
           \A b \in Calls \ {c} :
               /\ pc'[b] = pc[b] /\ mode'[b] = mode[b]
               /\ provider'[b] = provider[b] /\ charge'[b] = charge[b],
           ChargeInv(c)',
           pc'[c] = pc[c] \/ pc[c] \notin {"answered", "reported", "cut"},
           pc'[c] = pc[c] \/ pc[c] # "saved" \/ pc'[c] = "cut",
           Answered(c) # {} => charge'[c] = charge[c],
           pc'[c] \in Unasked => pc[c] \in Unasked,
           pc'[c] \in Questioned => pc[c] \in Questioned,
           pc'[c] \in {"saved", "answered", "asked"} => pc'[c] = pc[c],
           pc'[c] = Generating =>
               /\ pc[c] = Generating /\ mode'[c] = mode[c]
               /\ provider'[c] = provider[c] \/ TokensOf(c) = {}
    PROVE  TurnInv'
<1>1. \A b \in Calls \ {c} : CallInv(b)'
    BY OthersKept
<1>2. /\ Asked(c)' = Asked(c) /\ Answered(c)' = Answered(c) /\ TokensOf(c)' = TokensOf(c)
      /\ \A k, r : Indices(k, r, c)' = Indices(k, r, c)
      /\ \A e : EventsOf(c, e)' = EventsOf(c, e)
    BY Unchanged
<1>3. ChargeInv(c) /\ MessagesInv(c) /\ StreamInv(c)
    BY DEF TurnInv, CallInv
<1>4. MessagesInv(c)'
    BY <1>2, <1>3 DEF MessagesInv
<1>5. StreamInv(c)'
    BY <1>2, <1>3 DEF StreamInv, Unasked, Generating
<1> QED  BY <1>1, <1>4, <1>5 DEF TurnInv, CallInv

\* The steps of the quota, and where they lead.
LEMMA QuotaMoveKeeps ==
    ASSUME TurnInv, NEW c \in Calls,
           AskQuota(c) \/ Charged(c) \/ TooMany(c) \/ GiveBack(c)
    PROVE  TurnInv'
<1>1. /\ Shapes /\ ChargeInv(c) /\ MessagesInv(c)
    BY DEF TurnInv, CallInv
<1>2. CASE AskQuota(c)
  <2>1. /\ pc[c] = "new" /\ charge[c] = "none" /\ charge' = [charge EXCEPT ![c] = "asking"]
        /\ UNCHANGED <<chat, turn>>
      BY <1>2 DEF AskQuota, Ask, Become
  <2>2. Shapes'
      BY <1>1, <2>1 DEF Shapes, chat, turn, Charges
  <2> QED
      BY <1>1, <2>1, <2>2, MoveKeeps
      DEF Shapes, chat, turn, ChargeInv, MessagesInv, Unasked, Questioned, Generating
<1>3. CASE Charged(c)
  <2>1. /\ charge[c] = "asking" /\ charge' = [charge EXCEPT ![c] = "held"]
        /\ pc' = [pc EXCEPT ![c] = "reserved"]
        /\ UNCHANGED <<open, messages, mode, provider, sent>>
      BY <1>3 DEF Charged, Consume, Become, Goto, chat
  <2>2. Shapes' /\ pc[c] = "new"
      BY <1>1, <2>1 DEF Shapes, Charges, Active, ChargeInv
  <2>3. /\ pc'[c] = "reserved" /\ charge'[c] = "held"
        /\ \A b \in Calls \ {c} : pc'[b] = pc[b] /\ charge'[b] = charge[b]
      BY <1>1, <2>1 DEF Shapes
  <2>4. ChargeInv(c)' /\ Answered(c) = {}
      BY <1>1, <2>2, <2>3 DEF ChargeInv, MessagesInv, Generating
  <2> QED
      BY <2>1, <2>2, <2>3, <2>4, MoveKeeps DEF Unasked, Questioned, Generating
<1>4. CASE TooMany(c)
  <2>1. /\ charge[c] = "asking" /\ charge' = [charge EXCEPT ![c] = "refused"]
        /\ pc' = [pc EXCEPT ![c] = "reported"]
        /\ UNCHANGED <<open, messages, mode, provider, sent>>
      BY <1>4 DEF TooMany, Refuse, Become, Goto, chat
  <2>2. Shapes' /\ pc[c] = "new"
      BY <1>1, <2>1 DEF Shapes, Charges, Over, ChargeInv
  <2>3. /\ pc'[c] = "reported" /\ charge'[c] = "refused"
        /\ \A b \in Calls \ {c} : pc'[b] = pc[b] /\ charge'[b] = charge[b]
      BY <1>1, <2>1 DEF Shapes
  <2>4. ChargeInv(c)' /\ Answered(c) = {}
      BY <1>1, <2>2, <2>3 DEF ChargeInv, MessagesInv, Generating
  <2> QED
      BY <2>1, <2>2, <2>3, <2>4, MoveKeeps DEF Unasked, Questioned, Generating
<1>5. CASE GiveBack(c)
  <2>1. /\ pc[c] = "failing" /\ pc' = [pc EXCEPT ![c] = "reporting"]
        /\ \E what \in {"refunded", "lost"} : charge' = [charge EXCEPT ![c] = what]
        /\ UNCHANGED <<open, messages, mode, provider, sent>>
      BY <1>5 DEF GiveBack, Refund, RefundFails, Become, Goto, AfterRefund, chat
  <2>2. Shapes'
      BY <1>1, <2>1 DEF Shapes, Charges, Active
  <2> QED
      BY <1>1, <2>1, <2>2, MoveKeeps
      DEF Shapes, ChargeInv, MessagesInv, Unasked, Questioned, Generating
<1> QED  BY <1>2, <1>3, <1>4, <1>5

LEMMA PlainMoveKeeps ==
    ASSUME TurnInv, NEW c \in Calls,
           \/ ReadChat(c) \/ CannotAnswer(c) \/ FailsEarly(c) \/ LLMDone(c)
           \/ \E error \in {"LLMError", "HTTPError"} : ProviderFails(c, error)
           \/ ResponseUnreadable(c) \/ SaveRejected(c) \/ Disconnect(c)
    PROVE  TurnInv'
<1>1. Shapes /\ ChargeInv(c) /\ MessagesInv(c)
    BY DEF TurnInv, CallInv
<1>2. UNCHANGED <<open, messages, sent, charge>>
    BY DEF ReadChat, CannotAnswer, FailsEarly, LLMDone, ProviderFails, ResponseUnreadable,
           SaveRejected, Disconnect, chat, quotaVars, quota
<1>3. PICK to \in Active \cup Over :
        /\ pc' = [pc EXCEPT ![c] = to]
        /\ <<pc[c], to>> \in
             {<<"reserved", "read">>, <<"reserved", "reported">>, <<"read", "broken">>,
              <<"asked", "broken">>, <<Generating, "saving">>, <<Generating, Generating>>,
              <<Generating, "broken">>, <<Generating, "failing">>, <<"saving", "broken">>}
             \cup (({Generating, "failing", "reporting", "saving", "saved"} \X {"cut"}))
  <2>1. CASE ReadChat(c) \/ CannotAnswer(c)
      BY <2>1 DEF ReadChat, CannotAnswer, Goto, Active, Over
  <2>2. CASE FailsEarly(c) \/ LLMDone(c) \/ ResponseUnreadable(c) \/ SaveRejected(c)
      BY <2>2
      DEF FailsEarly, LLMDone, ResponseUnreadable, SaveRejected, Goto, Active, Over, Generating
  <2>3. ASSUME NEW error \in {"LLMError", "HTTPError"}, ProviderFails(c, error)
        PROVE  \E to \in {Generating, "broken", "failing"} :
                   pc[c] = Generating /\ pc' = [pc EXCEPT ![c] = to]
    <3>1. CASE MayFallBack(c)
      <4>1. pc[c] = Generating /\ pc' = pc
          BY <2>3, <3>1 DEF ProviderFails
      <4>2. pc' = [pc EXCEPT ![c] = Generating]
          BY <1>1, <4>1 DEF Shapes
      <4> QED  BY <4>1, <4>2
    <3>2. CASE ~MayFallBack(c)
        BY <2>3, <3>2 DEF ProviderFails, Goto
    <3> QED  BY <3>1, <3>2
  <2>4. CASE Disconnect(c)
      BY <2>4 DEF Disconnect, Goto, Active, Over, Generating
  <2> QED  BY <2>1, <2>2, <2>3, <2>4 DEF Active, Over, Generating
<1> DEFINE Choices ==
        /\ mode' \in [Calls -> {"none", "fixed", "llm"}]
        /\ provider' \in [Calls -> 1 .. Providers]
        /\ \A b \in Calls \ {c} : mode'[b] = mode[b] /\ provider'[b] = provider[b]
        /\ pc[c] = Generating =>
             mode'[c] = mode[c] /\ (provider'[c] = provider[c] \/ TokensOf(c) = {})
<1>4. Choices
  <2>1. CASE ReadChat(c)
    <3>1. /\ \E m \in {"fixed", "llm"} : mode' = [mode EXCEPT ![c] = m]
          /\ provider' = provider /\ pc[c] = "reserved"
        BY <2>1 DEF ReadChat
    <3> QED  BY <1>1, <3>1 DEF Shapes, Generating
  <2>2. ASSUME NEW error \in {"LLMError", "HTTPError"}, ProviderFails(c, error)
        PROVE  Choices
    <3>1. mode' = mode
        BY <2>2 DEF ProviderFails
    <3>2. CASE MayFallBack(c)
      <4>1. /\ provider' = [provider EXCEPT ![c] = @ + 1] /\ provider[c] < Providers
            /\ TokensOf(c) = {}
          BY <2>2, <3>2 DEF ProviderFails, MayFallBack
      <4> QED  BY <1>1, <3>1, <4>1, TurnAssumption DEF Shapes
    <3>3. CASE ~MayFallBack(c)
      <4>1. provider' = provider
          BY <2>2, <3>3 DEF ProviderFails
      <4> QED  BY <1>1, <3>1, <4>1 DEF Shapes
    <3> QED  BY <3>2, <3>3
  <2>3. CASE mode' = mode /\ provider' = provider
      BY <1>1, <2>3 DEF Shapes
  <2> QED
      BY <2>1, <2>2, <2>3
      DEF CannotAnswer, FailsEarly, LLMDone, ResponseUnreadable, SaveRejected, Disconnect
<1>5. Shapes' /\ pc'[c] = to /\ \A b \in Calls \ {c} : pc'[b] = pc[b]
    BY <1>1, <1>2, <1>3, <1>4 DEF Shapes
<1>6. ChargeInv(c)'
    BY <1>1, <1>2, <1>3, <1>5 DEF ChargeInv, Generating
<1> QED
    BY <1>2, <1>3, <1>4, <1>5, <1>6, MoveKeeps DEF Unasked, Questioned, Generating

-----------------------------------------------------------------------------
(* The steps that store a message *)

LEMMA SaveQuestionKeeps == ASSUME TurnInv, NEW c \in Calls, SaveQuestion(c) PROVE TurnInv'
<1>1. /\ Shapes /\ ChargeInv(c) /\ MessagesInv(c) /\ StreamInv(c)
      /\ pc[c] = "read" /\ pc' = [pc EXCEPT ![c] = "asked"] /\ Store(c, "user")
      /\ UNCHANGED <<open, charge, mode, provider, sent>>
    BY DEF TurnInv, CallInv, SaveQuestion, Goto, quotaVars, quota
<1>2. "user" \in Roles
    BY DEF Roles
<1>3. Shapes' /\ pc'[c] = "asked" /\ \A b \in Calls \ {c} : pc'[b] = pc[b]
    BY <1>1, <1>2, StoreFacts DEF Shapes, Active
<1>4. \A b \in Calls \ {c} : CallInv(b)'
    BY <1>1, <1>2, <1>3, OthersKept
<1>5. ChargeInv(c)'
    BY <1>1, <1>3 DEF ChargeInv
<1>6. MessagesInv(c)'
  <2>1. Asked(c) = {} /\ Answered(c) = {}
      BY <1>1 DEF MessagesInv, Unasked
  <2>2. \E i : Asked(c)' = {i}
      BY <1>1, <1>2, <2>1, StoreFacts DEF Asked
  <2>3. Answered(c)' = {}
      BY <1>1, <1>2, <2>1, StoreFacts, TurnAssumption DEF Answered, Roles
  <2>4. \A k \in Chats, r \in Roles : Indices(k, r, c)' # {} => k = ChatOf[c]
      BY <1>1, <1>2, StoreFacts DEF MessagesInv
  <2> QED  BY <1>3, <2>2, <2>3, <2>4 DEF MessagesInv, Unasked
<1>7. StreamInv(c)'
    BY <1>1, <1>3, Unchanged DEF StreamInv, Unasked, Generating
<1> QED  BY <1>3, <1>4, <1>5, <1>6, <1>7 DEF TurnInv, CallInv

LEMMA SaveAnswerKeeps == ASSUME TurnInv, NEW c \in Calls, SaveAnswer(c) PROVE TurnInv'
<1>1. /\ Shapes /\ ChargeInv(c) /\ MessagesInv(c) /\ StreamInv(c)
      /\ pc[c] = "saving" /\ pc' = [pc EXCEPT ![c] = "saved"] /\ Store(c, "assistant")
      /\ UNCHANGED <<open, charge, mode, provider, sent>>
    BY DEF TurnInv, CallInv, SaveAnswer, Goto, quotaVars, quota
<1>2. "assistant" \in Roles /\ "user" \in Roles /\ ChatOf[c] \in open
    BY <1>1 DEF Roles, Store
<1>3. Shapes' /\ pc'[c] = "saved" /\ \A b \in Calls \ {c} : pc'[b] = pc[b]
    BY <1>1, <1>2, StoreFacts DEF Shapes, Active
<1>4. \A b \in Calls \ {c} : CallInv(b)'
    BY <1>1, <1>2, <1>3, OthersKept
<1>5. ChargeInv(c)' /\ charge'[c] = "held"
    BY <1>1, <1>3 DEF ChargeInv
<1>6. MessagesInv(c)'
  <2> DEFINE last == Len(messages[ChatOf[c]]) + 1
  <2>1. Asked(c) # {} /\ Answered(c) = {}
      BY <1>1, <1>2 DEF MessagesInv, Questioned
  <2>2. Answered(c)' = {last}
      BY <1>1, <1>2, <2>1, StoreFacts DEF Answered
  <2>3. Asked(c)' = Asked(c) /\ \A i \in Asked(c) : i < last
      BY <1>1, <1>2, StoreFacts, TurnAssumption DEF Asked
  <2>4. \A k \in Chats, r \in Roles : Indices(k, r, c)' # {} => k = ChatOf[c]
      BY <1>1, <1>2, StoreFacts DEF MessagesInv
  <2>5. \A i, j \in Asked(c) : i = j
      BY <1>1 DEF MessagesInv
  <2> HIDE DEF last
  <2> QED  BY <1>3, <1>5, <2>1, <2>2, <2>3, <2>4, <2>5 DEF MessagesInv, Unasked
<1>7. StreamInv(c)'
    BY <1>1, <1>3, Unchanged DEF StreamInv, Unasked, Generating
<1> QED  BY <1>3, <1>4, <1>5, <1>6, <1>7 DEF TurnInv, CallInv

-----------------------------------------------------------------------------
(* The steps that send an event *)

\* All but the stream itself.
LEMMA SendKeeps ==
    ASSUME TurnInv, NEW c \in Calls, NEW event \in Names, NEW by \in 0 .. Providers,
           SendBy(c, event, by), UNCHANGED <<open, messages, charge, provider>>,
           mode' \in [Calls -> {"none", "fixed", "llm"}],
           \A b \in Calls \ {c} : mode'[b] = mode[b],
           NEW to \in Active \cup Over, pc' = [pc EXCEPT ![c] = to],
           <<pc[c], to>> \in {<<"asked", Generating>>, <<Generating, Generating>>,
                              <<Generating, "saving">>, <<"reporting", "reported">>,
                              <<"saved", "answered">>},
           StreamInv(c)'
    PROVE  TurnInv'
<1>1. Shapes /\ ChargeInv(c) /\ MessagesInv(c)
    BY DEF TurnInv, CallInv
<1>2. Shapes' /\ pc'[c] = to /\ \A b \in Calls \ {c} : pc'[b] = pc[b] /\ sent'[b] = sent[b]
    BY <1>1, SendFacts DEF Shapes
<1>3. \A b \in Calls \ {c} : CallInv(b)'
    BY <1>2, OthersKept
<1>4. ChargeInv(c)'
    BY <1>1, <1>2 DEF ChargeInv, Generating
<1>5. MessagesInv(c)'
  <2>1. /\ Asked(c)' = Asked(c) /\ Answered(c)' = Answered(c)
        /\ \A k, r : Indices(k, r, c)' = Indices(k, r, c)
      BY Unchanged
  <2> QED  BY <1>1, <1>2, <2>1 DEF MessagesInv, Unasked, Questioned, Generating
<1> QED  BY <1>2, <1>3, <1>4, <1>5 DEF TurnInv, CallInv

LEMMA PrepareKeeps == ASSUME TurnInv, NEW c \in Calls, Prepare(c) PROVE TurnInv'
<1>1. /\ Shapes /\ StreamInv(c) /\ pc[c] = "asked" /\ SendBy(c, "meta", 0)
      /\ pc' = [pc EXCEPT ![c] = Generating]
      /\ \E m \in {"fixed", mode[c]} : mode' = [mode EXCEPT ![c] = m]
      /\ UNCHANGED <<open, messages, charge, provider>>
    BY DEF TurnInv, CallInv, Prepare, Goto, Send, quotaVars, quota, chat
<1>2. /\ "meta" \in Names /\ 0 \in 0 .. Providers /\ Generating \in Active \cup Over
      /\ pc'[c] = Generating
    BY <1>1, TurnAssumption DEF Names, Active, Shapes
<1>3. /\ mode' \in [Calls -> {"none", "fixed", "llm"}]
      /\ \A b \in Calls \ {c} : mode'[b] = mode[b]
    BY <1>1 DEF Shapes
<1>4. \A e \in Names : EventsOf(c, e) = {}
    BY <1>1 DEF StreamInv, EventsOf
<1>5. \A e \in Names : e # "meta" => EventsOf(c, e)' = {}
    BY <1>1, <1>2, <1>4, SendFacts
<1>6. StreamInv(c)'
    BY <1>2, <1>5 DEF StreamInv, TokensOf, Names, Unasked, Generating
<1> QED  BY <1>1, <1>2, <1>3, <1>6, SendKeeps

LEMMA FixedAnswerKeeps == ASSUME TurnInv, NEW c \in Calls, FixedAnswer(c) PROVE TurnInv'
<1>1. /\ Shapes /\ StreamInv(c) /\ pc[c] = Generating /\ mode[c] = "fixed"
      /\ SendBy(c, "token", 0) /\ pc' = [pc EXCEPT ![c] = "saving"]
      /\ UNCHANGED <<open, messages, charge, mode, provider>>
    BY DEF TurnInv, CallInv, FixedAnswer, Goto, Send, quotaVars, quota, chat
<1>2. /\ "token" \in Names /\ 0 \in 0 .. Providers /\ "saving" \in Active \cup Over
      /\ pc'[c] = "saving"
    BY <1>1, TurnAssumption DEF Names, Active, Shapes
<1>3. EventsOf(c, "done") = {} /\ EventsOf(c, "error") = {} /\ TokensOf(c) = {}
    BY <1>1 DEF StreamInv, Generating
<1>4. /\ EventsOf(c, "done")' = {} /\ EventsOf(c, "error")' = {}
      /\ TokensOf(c)' \subseteq {Len(sent[c]) + 1}
    BY <1>1, <1>2, <1>3, SendFacts DEF TokensOf, Names
<1>5. StreamInv(c)'
    BY <1>2, <1>4 DEF StreamInv, Unasked, Generating
<1> QED  BY <1>1, <1>2, <1>5, SendKeeps DEF Shapes

LEMMA TokenKeeps == ASSUME TurnInv, NEW c \in Calls, Token(c) PROVE TurnInv'
<1>1. /\ Shapes /\ StreamInv(c) /\ pc[c] = Generating /\ mode[c] = "llm" /\ c \in Streamed
      /\ SendBy(c, "token", provider[c]) /\ pc' = pc
      /\ UNCHANGED <<open, messages, charge, mode, provider>>
    BY DEF TurnInv, CallInv, Token, quotaVars, quota, chat
<1>2. /\ "token" \in Names /\ provider[c] \in 0 .. Providers /\ Generating \in Active \cup Over
      /\ pc' = [pc EXCEPT ![c] = Generating]
    BY <1>1, TurnAssumption DEF Names, Active, Shapes
<1>3. EventsOf(c, "done") = {} /\ EventsOf(c, "error") = {}
    BY <1>1 DEF StreamInv, Generating
<1>4. EventsOf(c, "done")' = {} /\ EventsOf(c, "error")' = {}
    BY <1>1, <1>2, <1>3, SendFacts DEF Names
<1>5. \A i \in TokensOf(c)' : sent'[c][i] = <<"token", provider[c]>>
  <2>1. TokensOf(c)' = TokensOf(c) \cup {Len(sent[c]) + 1}
      BY <1>1, <1>2, SendFacts DEF TokensOf
  <2>2. \A i \in TokensOf(c) : sent'[c][i] = <<"token", provider[c]>>
      BY <1>1, <1>2, SendFacts DEF TokensOf, StreamInv
  <2>3. sent'[c][Len(sent[c]) + 1] = <<"token", provider[c]>>
      BY <1>1, <1>2, SendFacts
  <2> QED  BY <2>1, <2>2, <2>3
<1>6. StreamInv(c)'
    BY <1>1, <1>4, <1>5 DEF StreamInv, Unasked, Generating
<1> QED  BY <1>1, <1>2, <1>6, SendKeeps DEF Shapes

LEMMA ClosingKeeps ==
    ASSUME TurnInv, NEW c \in Calls, ReportFailure(c) \/ SendDone(c) PROVE TurnInv'
<1>1. PICK event \in {"done", "error"} :
        /\ SendBy(c, event, 0)
        /\ \/ event = "error" /\ pc[c] = "reporting" /\ pc' = [pc EXCEPT ![c] = "reported"]
           \/ event = "done" /\ pc[c] = "saved" /\ pc' = [pc EXCEPT ![c] = "answered"]
        /\ UNCHANGED <<open, messages, charge, mode, provider>>
    BY DEF ReportFailure, SendDone, AfterReport, Goto, Send, quotaVars, quota, chat
<1>2. /\ Shapes /\ StreamInv(c) /\ event \in Names /\ 0 \in 0 .. Providers
      /\ pc'[c] \in {"reported", "answered"}
      /\ event = "error" <=> pc'[c] = "reported"
    BY <1>1, TurnAssumption DEF TurnInv, CallInv, Names, Shapes
<1>3. EventsOf(c, "done") = {} /\ EventsOf(c, "error") = {}
    BY <1>1, <1>2 DEF StreamInv
<1>4. /\ TokensOf(c)' = TokensOf(c)
      /\ \A i \in TokensOf(c) : sent'[c][i] = sent[c][i]
      /\ \A e \in {"done", "error"} :
           EventsOf(c, e)' = IF c \in Streamed /\ e = event THEN {Len(sent[c]) + 1} ELSE {}
      /\ c \in Streamed => Len(sent'[c]) = Len(sent[c]) + 1
    BY <1>1, <1>2, <1>3, SendFacts DEF TokensOf, Names
<1>5. StreamInv(c)'
    BY <1>1, <1>2, <1>4 DEF StreamInv, Unasked, Generating
<1>6. CASE event = "error"
    BY <1>1, <1>2, <1>5, <1>6, SendKeeps DEF Shapes, Over
<1>7. CASE event = "done"
    BY <1>1, <1>2, <1>5, <1>7, SendKeeps DEF Shapes, Over
<1> QED  BY <1>6, <1>7

-----------------------------------------------------------------------------
(* The other requests *)

\* A chat that is gone takes the messages of its turns along.
LEMMA DeleteChatKeeps == ASSUME TurnInv, NEW h \in Chats, DeleteChat(h) PROVE TurnInv'
<1>1. /\ Shapes /\ open' = open \ {h} /\ messages' = [messages EXCEPT ![h] = <<>>]
      /\ UNCHANGED <<charge, pc, mode, provider, sent>>
    BY DEF TurnInv, DeleteChat, quotaVars, quota, turn
<1>2. Shapes'
    BY <1>1 DEF Shapes
<1>3. ASSUME NEW c \in Calls PROVE CallInv(c)'
  <2>1. /\ \A k \in Chats, r \in Roles :
             Indices(k, r, c)' = IF k = h THEN {} ELSE Indices(k, r, c)
        /\ ChatOf[c] \in Chats
      BY <1>1, TurnAssumption DEF Indices, Shapes
  <2>2. /\ Asked(c)' = IF ChatOf[c] = h THEN {} ELSE Asked(c)
        /\ Answered(c)' = IF ChatOf[c] = h THEN {} ELSE Answered(c)
      BY <2>1 DEF Asked, Answered, Roles
  <2>3. MessagesInv(c)'
      BY <1>1, <2>1, <2>2 DEF TurnInv, CallInv, MessagesInv
  <2>4. ChargeInv(c)' /\ StreamInv(c)'
      BY <1>1, Unchanged DEF TurnInv, CallInv, ChargeInv, StreamInv
  <2> QED  BY <2>3, <2>4 DEF CallInv
<1> QED  BY <1>2, <1>3 DEF TurnInv

LEMMA IdleKeeps ==
    ASSUME TurnInv, UNCHANGED <<open, messages, charge, pc, mode, provider, sent>>
    PROVE  TurnInv'
<1>1. Shapes'
    BY DEF TurnInv, Shapes
<1>2. ASSUME NEW c \in Calls PROVE CallInv(c)'
  <2>1. CallInv(c) /\ ChargeInv(c)'
      BY DEF TurnInv, CallInv, ChargeInv
  <2>2. MessagesInv(c)'
      BY <2>1, Unchanged DEF CallInv, MessagesInv
  <2>3. StreamInv(c)'
      BY <2>1, Unchanged DEF CallInv, StreamInv
  <2> QED  BY <2>1, <2>2, <2>3 DEF CallInv
<1> QED  BY <1>1, <1>2 DEF TurnInv

LEMMA TurnInvStep == TurnInv /\ [Next]_vars => TurnInv'
<1> SUFFICES ASSUME TurnInv, [Next]_vars PROVE TurnInv'
    OBVIOUS
<1>1. ASSUME NEW c \in Calls, AskQuota(c) \/ Handle(c) \/ Disconnect(c) PROVE TurnInv'
    BY <1>1, QuotaMoveKeeps, PlainMoveKeeps, SaveQuestionKeeps, SaveAnswerKeeps,
       PrepareKeeps, FixedAnswerKeeps, TokenKeeps, ClosingKeeps
    DEF Handle
<1>2. ASSUME NEW c \in Calls, SetTitle(c) PROVE TurnInv'
    BY <1>2, IdleKeeps DEF SetTitle, quotaVars, quota, turn
<1>3. ASSUME NEW k \in Chats, DeleteChat(k) \/ RenameChat(k) PROVE TurnInv'
    BY <1>3, DeleteChatKeeps, IdleKeeps DEF RenameChat, quotaVars, quota, turn
<1>4. CASE Tick /\ UNCHANGED <<chat, turn>>
    BY <1>4, IdleKeeps DEF Tick, quota, chat, turn
<1>5. CASE UNCHANGED vars
    BY <1>5, IdleKeeps DEF vars, quotaVars, quota, chat, turn
<1> QED  BY <1>1, <1>2, <1>3, <1>4, <1>5 DEF Next

-----------------------------------------------------------------------------
(* Theorems *)

LEMMA TurnInvariant == Spec => []TurnInv
BY TurnInvInit, TurnInvStep, PTL DEF Spec

\* A set whose elements are all the same has one at most.
LEMMA AtMostOne ==
    ASSUME NEW S, \A i, j \in S : i = j PROVE Cardinality(S) <= 1
<1>1. CASE S = {}
    BY <1>1, FS_EmptySet
<1>2. ASSUME NEW i \in S PROVE Cardinality(S) <= 1
  <2>1. S = {i}
      BY <1>2
  <2>2. Cardinality({i}) = 1
      BY FS_Singleton
  <2>3. Cardinality(S) = 1
      BY <2>1, <2>2, Zenon
  <2> QED  BY <2>3
<1> QED  BY <1>1, <1>2

\* Whatever turns of a chat overlap, and whatever is deleted meanwhile, a question
\* is stored once, its answer at most once and after it.
THEOREM AnswersInOrder == Spec => []AnswersFollowQuestions
<1>1. TurnInv => AnswersFollowQuestions
  <2> SUFFICES ASSUME TurnInv, NEW k \in Chats, NEW c \in Calls
               PROVE  /\ Cardinality(Indices(k, "user", c)) <= 1
                      /\ Cardinality(Indices(k, "assistant", c)) <= 1
                      /\ \A i \in Indices(k, "assistant", c) :
                           \E j \in Indices(k, "user", c) : j < i
      BY DEF AnswersFollowQuestions
  <2>1. MessagesInv(c)
      BY DEF TurnInv, CallInv
  <2>2. CASE k = ChatOf[c]
      BY <2>1, <2>2, AtMostOne DEF MessagesInv, Asked, Answered
  <2>3. CASE k # ChatOf[c]
    <3>1. Indices(k, "user", c) = {} /\ Indices(k, "assistant", c) = {}
        BY <2>1, <2>3 DEF MessagesInv, Roles
    <3> QED  BY <3>1, FS_EmptySet
  <2> QED  BY <2>2, <2>3
<1> QED  BY <1>1, TurnInvariant, PTL

\* A question whose answer is stored is never given back.
THEOREM AnswersPaid == Spec => []SavedAnswersArePaid
<1>1. TurnInv => SavedAnswersArePaid
    BY DEF TurnInv, CallInv, MessagesInv, Answered, SavedAnswersArePaid, Roles
<1> QED  BY <1>1, TurnInvariant, PTL

\* However many providers fail, the tokens of an answer come from one.
THEOREM Unspliced == Spec => []NeverSpliced
<1>1. TurnInv => NeverSpliced
    BY DEF TurnInv, CallInv, StreamInv, NeverSpliced
<1> QED  BY <1>1, TurnInvariant, PTL

\* The last event of a stream is true of what is stored.
THEOREM StreamsTruthful == Spec => []StreamTellsTheTruth
<1>1. TurnInv => StreamTellsTheTruth
    BY DEF TurnInv, CallInv, StreamInv, MessagesInv, Answered, StreamTellsTheTruth
<1> QED  BY <1>1, TurnInvariant, PTL

\* Turns refine the quota they are charged to ...
LEMMA TurnStepIsQuotaStep == [Next]_vars => [QuotaNext]_quotaVars
<1> SUFFICES ASSUME [Next]_vars PROVE [QuotaNext]_quotaVars
    OBVIOUS
<1>1. ASSUME NEW c \in Calls, AskQuota(c) \/ Handle(c) \/ Disconnect(c) \/ SetTitle(c)
      PROVE  [QuotaNext]_quotaVars
    BY <1>1
    DEF QuotaNext, AskQuota, Handle, Charged, TooMany, GiveBack, ReadChat, CannotAnswer,
        SaveQuestion, Prepare, FailsEarly, FixedAnswer, Token, LLMDone, ProviderFails,
        ResponseUnreadable, ReportFailure, SaveAnswer, SaveRejected, SendDone, Disconnect,
        SetTitle
<1>2. ASSUME NEW k \in Chats, DeleteChat(k) \/ RenameChat(k) PROVE [QuotaNext]_quotaVars
    BY <1>2 DEF DeleteChat, RenameChat
<1> QED  BY <1>1, <1>2 DEF Next, QuotaNext, vars

\* ... so whatever is proved of the quota holds of turns that overlap, fail and are
\* refunded: what they do to its counters is a behaviour of AIQuota.
THEOREM TurnsImplementQuota == Spec => QuotaSpec
BY TurnStepIsQuotaStep, PTL DEF Spec, Init, QuotaSpec
=============================================================================
