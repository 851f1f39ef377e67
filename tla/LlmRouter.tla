------------------------------- MODULE LlmRouter -------------------------------
(***************************************************************************)
(* The LLM chain: a chat tries the providers in their configured order,    *)
(* each paced by its own bucket, and falls back on retryable errors only.  *)
(* The HTTP transport is modelled in its two phases, because the timeout   *)
(* covers the first only: the headers of the answer, then its body.        *)
(*                                                                         *)
(* Providers are numbered along the chain.  A bucket is a Pacer, which     *)
(* TokenBucket implements.                                                 *)
(***************************************************************************)
EXTENDS Integers, Sequences

CONSTANTS Chats,         \* concurrent calls of router.chat()
          ChainLength,   \* providers in LLM_CHAIN
          Capacity       \* burst of each bucket

VARIABLES permits,   \* permits[p]: whole tokens in the bucket of provider p
          chat       \* chat[c]: where the call is

vars == <<permits, chat>>

Providers == 1 .. ChainLength

Retryable == {"rate_limit", "server", "timeout", "network"}
ErrorKind == Retryable \cup {"client", "malformed"}

Waiting == {"acquire", "headers", "errorBody", "body"}
Finished == {"answered", "exhausted", "failed"}

\* status: the kind of a non-2xx answer while its body is read.
\* retryable: of each failed attempt, whether its error was.
Chat == [pc : Waiting \cup Finished \cup {"idle"}, at : 0 .. ChainLength,
         status : ErrorKind \cup {"none"}, retryable : Seq(BOOLEAN)]

Idle == [pc |-> "idle", at |-> 0, status |-> "none", retryable |-> <<>>]

Goto(c, pc, status) ==
  chat' = [chat EXCEPT ![c] =
    [pc |-> pc, at |-> @.at, status |-> status, retryable |-> @.retryable]]

Init ==
  /\ permits = [p \in Providers |-> Capacity]
  /\ chat = [c \in Chats |-> Idle]

\* A retryable error moves on to the next provider or exhausts the chain; any
\* other ends the chat.
Fails(c, kind) ==
  LET retryable == Append(chat[c].retryable, kind \in Retryable)
      at == chat[c].at IN
  \/ /\ kind \in Retryable /\ at < ChainLength
     /\ chat' = [chat EXCEPT ![c] =
          [pc |-> "acquire", at |-> at + 1, status |-> "none", retryable |-> retryable]]
  \/ /\ kind \in Retryable /\ at = ChainLength
     /\ chat' = [chat EXCEPT ![c] =
          [pc |-> "exhausted", at |-> at, status |-> "none", retryable |-> retryable]]
  \/ /\ kind \notin Retryable
     /\ chat' = [chat EXCEPT ![c] =
          [pc |-> "failed", at |-> at, status |-> "none", retryable |-> retryable]]

-------------------------------------------------------------------------------
(* Seeded defects: steps as a plausible mistake would leave them, used only *)
(* to show that the properties below notice.                               *)

\* The timer does not abort the request.
NoTimeout(c) == chat[c].pc = "headers" /\ FALSE /\ UNCHANGED vars

\* A 5xx is kept, but the next attempt starts over at the first provider.
StartOver(c) ==
  /\ chat[c].pc = "errorBody"
  /\ chat' = [chat EXCEPT ![c] =
       [pc |-> "acquire", at |-> 1, status |-> "none",
        retryable |-> Append(@.retryable, TRUE)]]
  /\ UNCHANGED permits

-------------------------------------------------------------------------------

Start(c) ==
  /\ chat[c].pc = "idle"
  /\ chat' = [chat EXCEPT ![c] =
       [pc |-> "acquire", at |-> 1, status |-> "none", retryable |-> <<>>]]
  /\ UNCHANGED permits

\* bucket.acquire(), then the request leaves and its timer is set.
Send(c) ==
  LET p == chat[c].at IN
  /\ chat[c].pc = "acquire"
  /\ permits[p] > 0
  /\ permits' = [permits EXCEPT ![p] = @ - 1]
  /\ Goto(c, "headers", "none")

\* The headers arrive and clear the timer; the body is still to be read, of a
\* success as JSON, of an error for the message.
Headers(c) ==
  /\ chat[c].pc = "headers"
  /\ \/ Goto(c, "body", "none")
     \/ \E status \in {"rate_limit", "server", "client"} : Goto(c, "errorBody", status)
  /\ UNCHANGED permits

Timeout(c) ==
  /\ chat[c].pc = "headers"
  /\ Fails(c, "timeout")
  /\ UNCHANGED permits

\* fetch throws: no route, or the connection is reset before the headers.
NetworkError(c) ==
  /\ chat[c].pc = "headers"
  /\ Fails(c, "network")
  /\ UNCHANGED permits

\* The body is read: an answer; or garbled JSON, or JSON of another shape.  A
\* connection that is reset within it makes json() throw, too: "malformed".
Body(c) ==
  /\ chat[c].pc = "body"
  /\ Goto(c, "answered", "none") \/ Fails(c, "malformed")
  /\ UNCHANGED permits

\* The body of an error is read, or given up when its connection breaks; the
\* status decides.
ErrorBody(c) ==
  /\ chat[c].pc = "errorBody"
  /\ Fails(c, chat[c].status)
  /\ UNCHANGED permits

Accrue(p) ==
  /\ permits[p] < Capacity
  /\ permits' = [permits EXCEPT ![p] = @ + 1]
  /\ UNCHANGED chat

\* The caller takes the result and may chat again.
Return(c) ==
  /\ chat[c].pc \in Finished
  /\ chat' = [chat EXCEPT ![c] = Idle]
  /\ UNCHANGED permits

Step(c) ==
  Send(c) \/ Headers(c) \/ Timeout(c) \/ NetworkError(c) \/ Body(c) \/ ErrorBody(c)

Next ==
  \/ \E c \in Chats : Start(c) \/ Step(c) \/ Return(c)
  \/ \E p \in Providers : Accrue(p)

Spec == Init /\ [][Next]_vars

\* Permits accrue, a caller takes one that stays for it, and timers fire.  A
\* provider owes nothing: the headers need not come, and a body may trickle on
\* without end.
FairSpec ==
  /\ Spec
  /\ \A p \in Providers : WF_vars(Accrue(p))
  /\ \A c \in Chats : WF_vars(Send(c)) /\ WF_vars(Timeout(c))

-------------------------------------------------------------------------------

\* The chats have their shape, and no bucket is overdrawn.
TypeOK ==
  /\ permits \in [Providers -> 0 .. Capacity]
  /\ chat \in [Chats -> Chat]

\* Provider n is asked only after the n - 1 before it failed, each in a way
\* that another provider might not; the chain is exhausted only when all did.
ChainIsTriedInOrder ==
  \A c \in Chats :
    LET tried == chat[c].retryable
        AllRetryable(n) == Len(tried) = n /\ \A i \in 1 .. n : tried[i] IN
    /\ chat[c].pc \in Waiting \cup {"answered"} => AllRetryable(chat[c].at - 1)
    /\ chat[c].pc = "exhausted" => AllRetryable(ChainLength)
    /\ chat[c].pc = "failed" =>
         Len(tried) = chat[c].at /\ \A i \in 1 .. Len(tried) : tried[i] <=> i < Len(tried)

\* While c waits for the bucket, another call got its token.
Overtaken(c) ==
  /\ chat[c].pc = "acquire"
  /\ \E d \in Chats \ {c} : chat[d].pc = "headers" /\ chat[d].at = chat[c].at

\* Every chat comes to an end, because each call of a provider does: with its
\* answer, its error or its timeout.  Only for its tokens it has no claim: the
\* bucket has no queue, and others may always be first.
EveryChatReturns ==
  \A c \in Chats : chat[c].pc \in Waiting ~> chat[c].pc \in Finished \/ Overtaken(c)

===============================================================================
