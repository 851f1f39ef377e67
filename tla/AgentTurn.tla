------------------------------- MODULE AgentTurn -------------------------------
(***************************************************************************)
(* One turn of the agent: the chat panel posts a message, the loop asks    *)
(* the LLM chain for a tool call, has an invalid one corrected once, and   *)
(* runs the tool or gives up, and the turn service turns the outcome into  *)
(* a reply.  The chain is LlmRouter; its providers speak two dialects, of  *)
(* which one signs the tool calls it makes and wants the signature back    *)
(* when the call is sent again with its correction.                        *)
(*                                                                         *)
(* Messages are abstracted to what the turn depends on: whether an answer  *)
(* calls a tool, which, and whether the arguments pass its schema.         *)
(***************************************************************************)
EXTENDS Integers, Sequences

CONSTANTS Turns,         \* turns that are posted, each once
          Signing,       \* the slots of the chain that GeminiProvider serves
          ChainLength, Capacity,   \* see LlmRouter
          Reads,         \* search_rates, calculate_quote, get_booking
          Writes,        \* create_quote, hold_quote
          NoTurn

ASSUME TurnConstants ==
  /\ ChainLength \in Nat \ {0} /\ Capacity \in Nat \ {0}
  /\ Signing \subseteq 1 .. ChainLength
  /\ NoTurn \notin Turns
  /\ Reads \cap Writes = {} /\ {"create_booking", "mint"} \cap (Reads \cup Writes) = {}

VARIABLES permits, chat,   \* the router: chat[t] is the call the turn waits for
          turn,            \* turn[t]: the turn in agent-service
          pane             \* the chat panel

router == <<permits, chat>>
vars == <<permits, chat, turn, pane>>

Router == INSTANCE LlmRouter WITH Chats <- Turns

MaxAttempts == 2

Tools == Reads \cup Writes \cup {"create_booking"}

\* A tool call as an answer makes it: its tool is one of ours or not, and its
\* arguments pass the tool's schema or do not.
Calls == [tool : Tools \cup {"unknown"}, valid : BOOLEAN]

\* The rejected call that goes back with its errors: who made it, and the
\* slot whose signature it carries, 0 for none.
Echo == [issuer : 1 .. ChainLength, signature : 0 .. ChainLength]
NoEcho == [issuer |-> 0, signature |-> 0]

\* What a reply tells: a tool that succeeded, that its service refused (4xx)
\* or failed (5xx), and the other arms of TurnReply; or an error envelope.
Replies == {"text", "form_fallback", "tool", "refused", "broken", "proposal"}
Errors == {"VALIDATION_ERROR", "BAD_REQUEST", "LLM_UNAVAILABLE", "INTERNAL_ERROR"}

Turn == [pc : {"idle", "posted", "ask", "chat", "execute", "propose", "done"},
         attempt : 1 .. MaxAttempts, echo : Echo \cup {NoEcho},
         tool : Tools \cup {"none"}, conversation : Turns \cup {NoTurn},
         effects : Seq(Writes \cup {"mint"}), reply : Replies \cup Errors \cup {"none"}]

Init ==
  /\ Router!Init
  /\ turn = [t \in Turns |-> [pc |-> "idle", attempt |-> 1, echo |-> NoEcho, tool |-> "none",
                              conversation |-> NoTurn, effects |-> <<>>, reply |-> "none"]]
  /\ pane = [waits |-> NoTurn, conversation |-> NoTurn, shown |-> {}]

Become(t, new) == turn' = [turn EXCEPT ![t] = new]

\* The turn ends; what it did last joins what it did before, and its locals go.
Answer(t, reply, effects) ==
  Become(t, [turn[t] EXCEPT !.pc = "done", !.attempt = 1, !.echo = NoEcho,
                            !.reply = reply, !.effects = @ \o effects])

-------------------------------------------------------------------------------
(* Seeded defects: steps as a plausible mistake would leave them, used only *)
(* to show that the properties below notice.                               *)

\* A new id for every turn, whatever the client sent.
MintAlways(t) == t

\* A rejected fetch is relayed as if the service had refused.
CatchAll(t) ==
  /\ turn[t].tool \in Reads \cup Writes
  /\ \/ \E reply \in {"refused", "broken"} : Answer(t, reply, <<>>)
     \/ turn[t].tool \in Writes /\ Answer(t, "refused", <<turn[t].tool>>)

-------------------------------------------------------------------------------
(* The two dialects.                                                       *)

\* Seeded defect: the signature of a call is dropped when the answer is normalized.
Unsigned(p) == [issuer |-> p, signature |-> 0]

\* GeminiProvider: the signature comes, and goes back, on the part that holds
\* the call.
FromGemini(p) == [issuer |-> p, signature |-> p]
ToGemini(echo) == echo.signature

\* OpenAiCompatProvider: there is none to take, and none is sent.
FromOpenAi(p) == [issuer |-> p, signature |-> 0]

Received(p) == IF p \in Signing THEN FromGemini(p) ELSE FromOpenAi(p)

\* Gemini refuses a call that comes back without the signature it issued.
Accepts(p, echo) == p \in Signing /\ echo # NoEcho => ToGemini(echo) = p

-------------------------------------------------------------------------------
(* The chat panel.                                                         *)

Send(t) ==
  /\ turn[t].pc = "idle" /\ pane.waits = NoTurn
  /\ pane' = [pane EXCEPT !.waits = t]
  /\ Become(t, [turn[t] EXCEPT !.pc = "posted", !.conversation = pane.conversation])
  /\ UNCHANGED router

\* The answer arrives; an error envelope leaves the conversation as it was.
Show(t) ==
  /\ pane.waits = t /\ turn[t].pc = "done"
  /\ \/ /\ turn[t].reply \in Replies
        /\ pane' = [waits |-> NoTurn, conversation |-> turn[t].conversation,
                    shown |-> pane.shown \cup {t}]
     \/ turn[t].reply \in Errors /\ pane' = [pane EXCEPT !.waits = NoTurn]
  /\ UNCHANGED <<router, turn>>

\* The connection breaks; the turn goes on, if it arrives at all, while the
\* user may send another message.
Break(t) ==
  /\ pane.waits = t
  /\ pane' = [pane EXCEPT !.waits = NoTurn]
  /\ UNCHANGED <<router, turn>>

-------------------------------------------------------------------------------
(* The turn in agent-service.                                              *)

ConversationOf(t) == IF turn[t].conversation = NoTurn THEN t ELSE turn[t].conversation

\* A body that Fastify refuses (too large, malformed) or the schema does ends
\* here.
Arrive(t) ==
  /\ turn[t].pc = "posted"
  /\ \/ \E error \in {"BAD_REQUEST", "VALIDATION_ERROR"} : Answer(t, error, <<>>)
     \/ Become(t, [turn[t] EXCEPT !.pc = "ask", !.conversation = ConversationOf(t)])
  /\ UNCHANGED <<router, pane>>

Ask(t) ==
  /\ turn[t].pc = "ask"
  /\ Router!Start(t)
  /\ Become(t, [turn[t] EXCEPT !.pc = "chat"])
  /\ UNCHANGED pane

\* The router works for the turn; a provider that is sent a call it cannot
\* place does not answer with a success.
Serve(t) ==
  /\ chat'[t].pc = "body" => Accepts(chat[t].at, turn[t].echo)
  /\ UNCHANGED <<turn, pane>>

\* router.chat() throws.
Unanswered(t) ==
  /\ \/ chat[t].pc = "exhausted" /\ Answer(t, "LLM_UNAVAILABLE", <<>>)
     \/ chat[t].pc = "failed" /\ Answer(t, "INTERNAL_ERROR", <<>>)
  /\ Router!Return(t)
  /\ UNCHANGED pane

\* Seeded defect: attempts are not counted.
CorrectForever(t) ==
  Become(t, [turn[t] EXCEPT !.pc = "ask", !.attempt = @ + 1, !.echo = Received(chat[t].at)])

\* The one correction: the call and what is wrong with it go back.
Correct(t) ==
  \/ /\ turn[t].attempt < MaxAttempts
     /\ Become(t, [turn[t] EXCEPT !.pc = "ask", !.attempt = @ + 1, !.echo = Received(chat[t].at)])
  \/ turn[t].attempt = MaxAttempts /\ Answer(t, "form_fallback", <<>>)

\* Of the calls of an answer the first counts.
Extract(t) ==
  /\ chat[t].pc = "answered"
  /\ \/ Answer(t, "text", <<>>)
     \/ \E call \in Calls :
          IF call.valid /\ call.tool \in Tools
          THEN Become(t, [turn[t] EXCEPT !.pc = "execute", !.tool = call.tool])
          ELSE Correct(t)
  /\ Router!Return(t)
  /\ UNCHANGED pane

\* A courier tool makes one call and relays what comes back.  A failing
\* service, or a connection that breaks, may have done the work.
Relay(t, done) ==
  \/ Answer(t, "tool", done)
  \/ Answer(t, "refused", <<>>)
  \/ \E reply \in {"broken", "INTERNAL_ERROR"}, effects \in {<<>>, done} :
       Answer(t, reply, effects)

Read(t) == turn[t].tool \in Reads /\ Relay(t, <<>>)
Write(t) == turn[t].tool \in Writes /\ Relay(t, <<turn[t].tool>>)

Courier(t) == Read(t) \/ Write(t)

\* create_booking calls nothing: what it returns is data.
ProposeOnly(t) ==
  /\ turn[t].tool = "create_booking"
  /\ Become(t, [turn[t] EXCEPT !.pc = "propose"])

Execute(t) ==
  /\ turn[t].pc = "execute"
  /\ Courier(t) \/ ProposeOnly(t)
  /\ UNCHANGED <<router, pane>>

\* propose() mints the token of the card, or its INSERT fails.
Propose(t) ==
  /\ turn[t].pc = "propose"
  /\ \/ Answer(t, "proposal", <<"mint">>)
     \/ \E effects \in {<<>>, <<"mint">>} : Answer(t, "INTERNAL_ERROR", effects)
  /\ UNCHANGED <<router, pane>>

Step(t) ==
  Ask(t) \/ Unanswered(t) \/ Extract(t) \/ Execute(t) \/ Propose(t)

Next ==
  \/ \E t \in Turns : Send(t) \/ Show(t) \/ Break(t) \/ Arrive(t) \/ Step(t)
  \/ \E t \in Turns : Router!Step(t) /\ Serve(t)
  \/ \E p \in Router!Providers : Router!Accrue(p) /\ UNCHANGED <<turn, pane>>

Spec == Init /\ [][Next]_vars

\* The loop goes on, and with it the tools: booking-service and rates-service
\* answer or break the connection.  The chain is as fair as in LlmRouter, with
\* providers that finish the bodies they begin.
FairSpec ==
  /\ Spec
  /\ \A p \in Router!Providers : WF_vars(Router!Accrue(p) /\ UNCHANGED <<turn, pane>>)
  /\ \A t \in Turns :
       /\ WF_vars(Step(t))
       /\ WF_vars(Router!Send(t) /\ Serve(t))
       /\ WF_vars(Router!Timeout(t) /\ Serve(t))
       /\ WF_vars((Router!Body(t) \/ Router!ErrorBody(t)) /\ Serve(t))

-------------------------------------------------------------------------------

\* Turns, chats and the panel have their shapes, and a turn waits for the
\* router exactly while a chat of its own runs.
TypeOK ==
  /\ Router!TypeOK
  /\ turn \in [Turns -> Turn]
  /\ pane \in [waits : Turns \cup {NoTurn}, conversation : Turns \cup {NoTurn}, shown : SUBSET Turns]
  /\ \A t \in Turns : turn[t].pc = "chat" <=> chat[t].pc # "idle"

\* Beneath the turns the chain is tried in order (LlmRouter).
ChainIsTriedInOrder == Router!ChainIsTriedInOrder

\* A turn has at most one effect outside, and its reply does not hide it: a
\* text, the form, a refusal or "please retry shortly" (502) mean that nothing
\* was done, so that the user may safely try again; a token was minted and a
\* quote saved or held when the reply says so.  Only a 500 leaves it open.
ReplyTellsEffects ==
  \A t \in Turns :
    LET done == turn[t].effects  reply == turn[t].reply IN
    /\ Len(done) <= 1
    /\ reply \in {"text", "form_fallback", "refused", "BAD_REQUEST", "VALIDATION_ERROR",
                  "LLM_UNAVAILABLE"} => done = <<>>
    /\ reply = "proposal" => done = <<"mint">>
    /\ reply = "tool" /\ turn[t].tool \in Writes => done = <<turn[t].tool>>
    /\ done = <<"mint">> => turn[t].tool = "create_booking"

\* The correction of a call is refused for want of its signature only when
\* another provider made the call: falling back is per chat, not per turn
\* (the limitation noted at NormalizedToolCall).
OnlyCrossedEchoesAreRefused ==
  \A t \in Turns :
    chat[t].pc \in Router!Waiting /\ ~ Accepts(chat[t].at, turn[t].echo) =>
      turn[t].echo.issuer # chat[t].at

\* The replies that one panel has taken are of one conversation, although
\* turns whose answers were lost may run beside them.
OneConversation ==
  \A t, u \in pane.shown : turn[t].conversation = turn[u].conversation

\* Every turn that arrives is answered, after at most MaxAttempts chats, as
\* long as finitely many others compete for the chain.
EveryTurnIsAnswered ==
  \A t \in Turns : turn[t].pc \in {"ask", "chat", "execute", "propose"} ~> turn[t].pc = "done"

===============================================================================
