---------------------------- MODULE AgentTurnProofs ----------------------------
(***************************************************************************)
(* Proofs about AgentTurn, for any number of turns, any chain with any of  *)
(* its slots signing, and any tools: the chain is tried in its order, a    *)
(* reply tells what the turn did, a panel shows one conversation, and only *)
(* echoes that crossed to another provider can be refused.                 *)
(***************************************************************************)
EXTENDS AgentTurn, SequenceTheorems, TLAPS

-------------------------------------------------------------------------------
(* The chats.                                                               *)

\* The attempts of a chat: n of them failed, each in a retryable way.
AllRetryable(tried, n) == Len(tried) = n /\ \A i \in 1 .. n : tried[i] = TRUE

\* Where a chat is on the chain fits what it tried before.
ChatOK(k) ==
  /\ k.pc \in Router!Waiting \cup {"answered"} =>
       k.at \in 1 .. ChainLength /\ AllRetryable(k.retryable, k.at - 1)
  /\ k.pc = "errorBody" => k.status \in Router!ErrorKind
  /\ k.pc = "exhausted" => AllRetryable(k.retryable, ChainLength)
  /\ k.pc = "failed" =>
       /\ Len(k.retryable) = k.at
       /\ \A i \in 1 .. Len(k.retryable) : k.retryable[i] = TRUE <=> i < Len(k.retryable)

ChatsInv ==
  /\ Router!TypeOK
  /\ \A c \in Turns : ChatOK(chat[c])

LEMMA ChatKinds ==
  /\ Router!Providers = 1 .. ChainLength
  /\ Router!Waiting = {"acquire", "headers", "errorBody", "body"}
  /\ Router!Finished = {"answered", "exhausted", "failed"}
  /\ Router!ErrorKind = {"rate_limit", "server", "timeout", "network", "client", "malformed"}
  /\ Router!Chat = [pc : Router!Waiting \cup Router!Finished \cup {"idle"}, at : 0 .. ChainLength,
                    status : Router!ErrorKind \cup {"none"}, retryable : Seq(BOOLEAN)]
  BY DEF Router!Providers, Router!Waiting, Router!Finished, Router!ErrorKind, Router!Retryable,
     Router!Chat

\* One more attempt, in a retryable way or not.
LEMMA OneMore ==
  ASSUME NEW tried \in Seq(BOOLEAN), NEW n \in Nat, AllRetryable(tried, n)
  PROVE  /\ Append(tried, TRUE) \in Seq(BOOLEAN) /\ AllRetryable(Append(tried, TRUE), n + 1)
         /\ Append(tried, FALSE) \in Seq(BOOLEAN) /\ Len(Append(tried, FALSE)) = n + 1
         /\ \A i \in 1 .. Len(Append(tried, FALSE)) :
              Append(tried, FALSE)[i] = TRUE <=> i < Len(Append(tried, FALSE))
<1>1. Len(tried) = n /\ \A i \in 1 .. n : tried[i] = TRUE
  BY DEF AllRetryable
<1>2. \A b \in BOOLEAN : /\ Append(tried, b) \in Seq(BOOLEAN) /\ Len(Append(tried, b)) = n + 1
                         /\ Append(tried, b)[n + 1] = b
                         /\ \A i \in 1 .. n : Append(tried, b)[i] = tried[i]
  BY <1>1
<1>3. \A i \in 1 .. n + 1 : i \in 1 .. n \/ i = n + 1
  OBVIOUS
<1>4. AllRetryable(Append(tried, TRUE), n + 1)
  BY <1>1, <1>2, <1>3 DEF AllRetryable
<1>5. \A i \in 1 .. n + 1 : Append(tried, FALSE)[i] = TRUE <=> i < n + 1
  BY <1>1, <1>2, <1>3
<1>6. QED
  BY <1>2, <1>4, <1>5

\* A chat, and what it consists of.
At(pc, at, status, tried) == [pc |-> pc, at |-> at, status |-> status, retryable |-> tried]

IsAt(k, pc, at, status, tried) ==
  /\ k \in Router!Chat /\ k = At(pc, at, status, tried)
  /\ k.pc = pc /\ k.at = at /\ k.status = status /\ k.retryable = tried

LEMMA AtFields ==
  ASSUME NEW pc \in Router!Waiting \cup Router!Finished \cup {"idle"}, NEW at \in 0 .. ChainLength,
         NEW status \in Router!ErrorKind \cup {"none"}, NEW tried \in Seq(BOOLEAN)
  PROVE  IsAt(At(pc, at, status, tried), pc, at, status, tried)
<1>1. At(pc, at, status, tried) \in Router!Chat
  BY DEF At, Router!Chat
<1>2. /\ At(pc, at, status, tried).pc = pc /\ At(pc, at, status, tried).at = at
      /\ At(pc, at, status, tried).status = status /\ At(pc, at, status, tried).retryable = tried
  BY DEF At
<1>3. QED
  BY <1>1, <1>2 DEF IsAt

\* A failed attempt leaves a chat in order, on the next slot or at its end.
LEMMA FailsInOrder ==
  ASSUME ChatsInv, NEW c \in Turns, NEW kind \in Router!ErrorKind,
         chat[c].pc \in Router!Waiting, Router!Fails(c, kind)
  PROVE  \E k \in Router!Chat : k.pc # "idle" /\ ChatOK(k) /\ chat' = [chat EXCEPT ![c] = k]
<1>1. /\ chat[c] \in Router!Chat /\ chat[c].at \in 1 .. ChainLength
      /\ AllRetryable(chat[c].retryable, chat[c].at - 1) /\ chat[c].retryable \in Seq(BOOLEAN)
  BY ChatKinds DEF ChatsInv, Router!TypeOK, ChatOK
<1>2. PICK tried \in Seq(BOOLEAN), n \in Nat :
        tried = chat[c].retryable /\ chat[c].at = n + 1 /\ AllRetryable(tried, n)
  BY <1>1, TurnConstants, chat[c].at - 1 \in Nat
<1>3. n + 1 \in 1 .. ChainLength
  BY <1>1, <1>2
<1>4. CASE kind \in Router!Retryable /\ chat[c].at < ChainLength
  <2>1. chat' = [chat EXCEPT ![c] = At("acquire", n + 1 + 1, "none", Append(tried, kind \in Router!Retryable))]
    BY <1>2, <1>4 DEF Router!Fails, At
  <2>2. (kind \in Router!Retryable) = TRUE
    BY <1>4
  <2>3. PICK more \in Seq(BOOLEAN) : more = Append(tried, TRUE) /\ AllRetryable(more, n + 1)
    BY <1>2, OneMore
  <2>4. PICK k \in Router!Chat :
          /\ k = At("acquire", n + 1 + 1, "none", more)
          /\ k.pc = "acquire" /\ k.at = n + 1 + 1 /\ k.retryable = more
    <3>1. PICK pc \in Router!Waiting \cup Router!Finished \cup {"idle"},
               status \in Router!ErrorKind \cup {"none"}, at \in 0 .. ChainLength :
            pc = "acquire" /\ status = "none" /\ at = n + 1 + 1
      BY <1>2, <1>3, <1>4, TurnConstants DEF Router!Waiting, Router!Finished
    <3>2. \E k \in Router!Chat :
            /\ k = At(pc, at, status, more)
            /\ k.pc = pc /\ k.at = at /\ k.retryable = more
      <4>1. /\ pc \in Router!Waiting \cup Router!Finished \cup {"idle"}
            /\ status \in Router!ErrorKind \cup {"none"} /\ at \in 0 .. ChainLength
            /\ more \in Seq(BOOLEAN)
        BY <2>3, <3>1
      <4>2. IsAt(At(pc, at, status, more), pc, at, status, more)
        BY <4>1, AtFields
      <4>3. QED
        BY <4>2 DEF IsAt
    <3>3. QED
      BY <3>1, <3>2
  <2>5. chat' = [chat EXCEPT ![c] = k]
    BY <2>1, <2>2, <2>3, <2>4
  <2>6. k.at - 1 = n + 1
    BY <2>4
  <2>7. ChatOK(k)
    <3>1. AllRetryable(k.retryable, k.at - 1)
      BY <2>3, <2>4, <2>6
    <3>2. k.at \in 1 .. ChainLength
      BY <1>2, <1>3, <1>4, <2>4, TurnConstants
    <3>3. QED
      BY <2>4, <3>1, <3>2 DEF ChatOK
  <2>8. QED
    BY <2>4, <2>5, <2>7
<1>5. CASE kind \in Router!Retryable /\ chat[c].at = ChainLength
  <2>1. chat' = [chat EXCEPT ![c] = At("exhausted", n + 1, "none", Append(tried, kind \in Router!Retryable))]
    BY <1>2, <1>5 DEF Router!Fails, At
  <2>2. (kind \in Router!Retryable) = TRUE
    BY <1>5
  <2>3. PICK more \in Seq(BOOLEAN) : more = Append(tried, TRUE) /\ AllRetryable(more, n + 1)
    BY <1>2, OneMore
  <2>4. PICK k \in Router!Chat :
          /\ k = At("exhausted", n + 1, "none", more)
          /\ k.pc = "exhausted" /\ k.at = n + 1 /\ k.retryable = more
    <3>1. PICK pc \in Router!Waiting \cup Router!Finished \cup {"idle"},
               status \in Router!ErrorKind \cup {"none"}, at \in 0 .. ChainLength :
            pc = "exhausted" /\ status = "none" /\ at = n + 1
      BY <1>2, <1>3, <1>5, TurnConstants DEF Router!Waiting, Router!Finished
    <3>2. \E k \in Router!Chat :
            /\ k = At(pc, at, status, more)
            /\ k.pc = pc /\ k.at = at /\ k.retryable = more
      <4>1. /\ pc \in Router!Waiting \cup Router!Finished \cup {"idle"}
            /\ status \in Router!ErrorKind \cup {"none"} /\ at \in 0 .. ChainLength
            /\ more \in Seq(BOOLEAN)
        BY <2>3, <3>1
      <4>2. IsAt(At(pc, at, status, more), pc, at, status, more)
        BY <4>1, AtFields
      <4>3. QED
        BY <4>2 DEF IsAt
    <3>3. QED
      BY <3>1, <3>2
  <2>5. chat' = [chat EXCEPT ![c] = k]
    BY <2>1, <2>2, <2>3, <2>4
  <2>6. k.pc \notin Router!Waiting \cup {"answered", "idle", "errorBody"}
    BY <2>4 DEF Router!Waiting
  <2>7. ChatOK(k)
    BY <1>2, <1>5, <2>3, <2>4, <2>6 DEF ChatOK
  <2>8. QED
    BY <2>4, <2>5, <2>6, <2>7
<1>6. CASE kind \notin Router!Retryable
  <2>1. chat' = [chat EXCEPT ![c] = At("failed", n + 1, "none", Append(tried, kind \in Router!Retryable))]
    BY <1>2, <1>6 DEF Router!Fails, At
  <2>2. (kind \in Router!Retryable) = FALSE
    BY <1>6
  <2>3. PICK more \in Seq(BOOLEAN) :
          /\ more = Append(tried, FALSE) /\ Len(more) = n + 1
          /\ \A i \in 1 .. Len(more) : more[i] = TRUE <=> i < Len(more)
    BY <1>2, OneMore
  <2>4. PICK k \in Router!Chat :
          /\ k = At("failed", n + 1, "none", more)
          /\ k.pc = "failed" /\ k.at = n + 1 /\ k.retryable = more
    <3>1. PICK pc \in Router!Waiting \cup Router!Finished \cup {"idle"},
               status \in Router!ErrorKind \cup {"none"}, at \in 0 .. ChainLength :
            pc = "failed" /\ status = "none" /\ at = n + 1
      BY <1>2, <1>3, <1>6, TurnConstants DEF Router!Waiting, Router!Finished
    <3>2. \E k \in Router!Chat :
            /\ k = At(pc, at, status, more)
            /\ k.pc = pc /\ k.at = at /\ k.retryable = more
      <4>1. /\ pc \in Router!Waiting \cup Router!Finished \cup {"idle"}
            /\ status \in Router!ErrorKind \cup {"none"} /\ at \in 0 .. ChainLength
            /\ more \in Seq(BOOLEAN)
        BY <2>3, <3>1
      <4>2. IsAt(At(pc, at, status, more), pc, at, status, more)
        BY <4>1, AtFields
      <4>3. QED
        BY <4>2 DEF IsAt
    <3>3. QED
      BY <3>1, <3>2
  <2>5. chat' = [chat EXCEPT ![c] = k]
    BY <2>1, <2>2, <2>3, <2>4
  <2>6. k.pc \notin Router!Waiting \cup {"answered", "idle", "errorBody"}
    BY <2>4 DEF Router!Waiting
  <2>7. ChatOK(k)
    BY <1>2, <1>6, <2>3, <2>4, <2>6 DEF ChatOK
  <2>8. QED
    BY <2>4, <2>5, <2>6, <2>7
<1>7. QED
  BY <1>4, <1>5, <1>6 DEF Router!Fails

\* A chat that goes on, to its answer in the end, stays on its slot.
LEMMA GoesInOrder ==
  ASSUME ChatsInv, NEW c \in Turns, NEW pc \in Router!Waiting \cup {"answered"},
         NEW status \in Router!ErrorKind \cup {"none"},
         pc = "errorBody" => status \in Router!ErrorKind,
         chat[c].pc \in Router!Waiting, Router!Goto(c, pc, status)
  PROVE  \E k \in Router!Chat : k.pc # "idle" /\ ChatOK(k) /\ chat' = [chat EXCEPT ![c] = k]
<1>1. /\ chat[c] \in Router!Chat /\ chat[c].at \in 1 .. ChainLength
      /\ AllRetryable(chat[c].retryable, chat[c].at - 1) /\ chat[c].retryable \in Seq(BOOLEAN)
  BY ChatKinds DEF ChatsInv, Router!TypeOK, ChatOK
<1>2. PICK tried \in Seq(BOOLEAN), at \in 1 .. ChainLength :
        tried = chat[c].retryable /\ at = chat[c].at /\ AllRetryable(tried, at - 1)
  BY <1>1
<1>3. chat \in [Turns -> Router!Chat]
  BY DEF ChatsInv, Router!TypeOK
<1>4. chat' = [chat EXCEPT ![c] = At(pc, at, status, tried)]
  BY <1>2, <1>3 DEF Router!Goto, At
<1>5. PICK k \in Router!Chat :
        /\ k = At(pc, at, status, tried)
        /\ k.pc = pc /\ k.at = at /\ k.status = status /\ k.retryable = tried
  <2>1. /\ pc \in Router!Waiting \cup Router!Finished \cup {"idle"}
        /\ status \in Router!ErrorKind \cup {"none"}
        /\ at \in 0 .. ChainLength /\ tried \in Seq(BOOLEAN)
    BY <1>2 DEF Router!Finished
  <2>2. IsAt(At(pc, at, status, tried), pc, at, status, tried)
    BY <2>1, AtFields
  <2>3. QED
    BY <2>2 DEF IsAt
<1>6. pc \notin {"exhausted", "failed", "idle"}
  BY DEF Router!Waiting
<1>7. ChatOK(k)
  BY <1>2, <1>5, <1>6 DEF ChatOK
<1>8. QED
  BY <1>4, <1>5, <1>6, <1>7

\* Every step of the router leaves a chat in order, and no bucket overdrawn.
LEMMA StepsInOrder ==
  ASSUME ChatsInv, NEW c \in Turns, Router!Step(c) \/ Router!Start(c)
  PROVE  /\ permits' \in [Router!Providers -> 0 .. Capacity]
         /\ \E k \in Router!Chat : k.pc # "idle" /\ ChatOK(k) /\ chat' = [chat EXCEPT ![c] = k]
<1>1. permits \in [Router!Providers -> 0 .. Capacity] /\ chat \in [Turns -> Router!Chat]
      /\ ChatOK(chat[c])
  BY DEF ChatsInv, Router!TypeOK
<1>2. "none" \in Router!ErrorKind \cup {"none"}
  OBVIOUS
<1>3. CASE Router!Start(c)
  <2>1. PICK pc \in Router!Waiting \cup Router!Finished \cup {"idle"},
             status \in Router!ErrorKind \cup {"none"}, at \in 0 .. ChainLength,
             tried \in Seq(BOOLEAN) :
          pc = "acquire" /\ status = "none" /\ at = 1 /\ tried = <<>>
    <3>1. "acquire" \in Router!Waiting \cup Router!Finished \cup {"idle"}
      BY DEF Router!Waiting
    <3>2. 1 \in 0 .. ChainLength
      BY TurnConstants
    <3>3. <<>> \in Seq(BOOLEAN)
      OBVIOUS
    <3>4. QED
      BY <1>2, <3>1, <3>2, <3>3, Zenon
  <2>2. PICK k \in Router!Chat :
          /\ k = At(pc, at, status, tried)
          /\ k.pc = pc /\ k.at = at /\ k.status = status /\ k.retryable = tried
    <3>1. /\ pc \in Router!Waiting \cup Router!Finished \cup {"idle"}
          /\ status \in Router!ErrorKind \cup {"none"} /\ at \in 0 .. ChainLength
          /\ tried \in Seq(BOOLEAN)
      BY <2>1
    <3>2. IsAt(At(pc, at, status, tried), pc, at, status, tried)
      BY <3>1, AtFields
    <3>3. QED
      BY <3>2 DEF IsAt
  <2>3. chat' = [chat EXCEPT ![c] = k]
    BY <1>3, <2>1, <2>2 DEF Router!Start, At
  <2>4. k.pc = "acquire" /\ k.at = 1 /\ k.at - 1 = 0 /\ k.retryable = <<>>
    BY <2>1, <2>2
  <2>5. AllRetryable(k.retryable, k.at - 1)
    BY <2>4 DEF AllRetryable
  <2>6. ChatOK(k)
    BY <2>4, <2>5, TurnConstants DEF ChatOK
  <2>7. QED
    BY <1>1, <1>3, <2>3, <2>4, <2>6 DEF Router!Start
<1>4. CASE Router!Send(c)
  <2>1. chat[c].pc \in Router!Waiting /\ "headers" \in Router!Waiting \cup {"answered"}
    BY <1>4 DEF Router!Send, Router!Waiting
  <2>2. \E k \in Router!Chat : k.pc # "idle" /\ ChatOK(k) /\ chat' = [chat EXCEPT ![c] = k]
    <3>1. PICK pc \in Router!Waiting \cup {"answered"}, status \in Router!ErrorKind \cup {"none"} :
            pc = "headers" /\ status = "none"
      BY <1>2, <2>1
    <3>2. Router!Goto(c, pc, status)
      BY <1>4, <3>1 DEF Router!Send
    <3>3. pc # "errorBody"
      BY <3>1
    <3>4. QED
      BY <2>1, <3>1, <3>2, <3>3, GoesInOrder
  <2>3. permits' \in [Router!Providers -> 0 .. Capacity]
    <3>1. PICK p \in Router!Providers : p = chat[c].at
      BY <1>1, <2>1 DEF ChatOK, Router!Providers
    <3>2. permits' = [permits EXCEPT ![p] = @ - 1] /\ permits[p] > 0
      BY <1>4, <3>1 DEF Router!Send
    <3>3. permits[p] - 1 \in 0 .. Capacity
      BY <1>1, <3>1, <3>2, TurnConstants
    <3>4. QED
      BY <1>1, <3>2, <3>3
  <2>4. QED
    BY <2>2, <2>3
<1>5. CASE Router!Headers(c)
  <2>1. chat[c].pc \in Router!Waiting
    BY <1>5 DEF Router!Headers, Router!Waiting
  <2>2. PICK pc \in Router!Waiting \cup {"answered"}, status \in Router!ErrorKind \cup {"none"} :
          Router!Goto(c, pc, status) /\ (pc = "errorBody" => status \in Router!ErrorKind)
    <3>1. CASE Router!Goto(c, "body", "none")
      <4>1. "body" \in Router!Waiting \cup {"answered"} /\ "body" # "errorBody"
        BY DEF Router!Waiting
      <4>2. QED
        BY <1>2, <3>1, <4>1
    <3>2. CASE \E status \in {"rate_limit", "server", "client"} : Router!Goto(c, "errorBody", status)
      <4>1. PICK status \in {"rate_limit", "server", "client"} : Router!Goto(c, "errorBody", status)
        BY <3>2
      <4>2. "errorBody" \in Router!Waiting \cup {"answered"} /\ status \in Router!ErrorKind
        BY <4>1, ChatKinds
      <4>3. QED
        BY <4>1, <4>2
    <3>3. QED
      BY <1>5, <3>1, <3>2 DEF Router!Headers
  <2>3. QED
    BY <1>1, <1>5, <2>1, <2>2, GoesInOrder DEF Router!Headers
<1>6. CASE Router!Timeout(c)
  <2>1. chat[c].pc \in Router!Waiting /\ "timeout" \in Router!ErrorKind
    BY <1>6 DEF Router!Timeout, Router!Waiting, Router!ErrorKind, Router!Retryable
  <2>2. PICK kind \in Router!ErrorKind : Router!Fails(c, kind)
    BY <1>6, <2>1 DEF Router!Timeout
  <2>3. QED
    BY <1>1, <1>6, <2>1, <2>2, FailsInOrder DEF Router!Timeout
<1>7. CASE Router!NetworkError(c)
  <2>1. chat[c].pc \in Router!Waiting /\ "network" \in Router!ErrorKind
    BY <1>7 DEF Router!NetworkError, Router!Waiting, Router!ErrorKind, Router!Retryable
  <2>2. PICK kind \in Router!ErrorKind : Router!Fails(c, kind)
    BY <1>7, <2>1 DEF Router!NetworkError
  <2>3. QED
    BY <1>1, <1>7, <2>1, <2>2, FailsInOrder DEF Router!NetworkError
<1>8. CASE Router!Body(c)
  <2>1. chat[c].pc \in Router!Waiting
    BY <1>8 DEF Router!Body, Router!Waiting
  <2>2. CASE Router!Goto(c, "answered", "none")
    <3>1. PICK pc \in Router!Waiting \cup {"answered"}, status \in Router!ErrorKind \cup {"none"} :
            pc = "answered" /\ status = "none"
      BY <1>2
    <3>2. Router!Goto(c, pc, status) /\ pc # "errorBody"
      BY <2>2, <3>1
    <3>3. QED
      BY <1>1, <1>8, <2>1, <3>2, GoesInOrder DEF Router!Body
  <2>3. CASE Router!Fails(c, "malformed")
    <3>1. PICK kind \in Router!ErrorKind : Router!Fails(c, kind)
      BY <2>3, ChatKinds
    <3>2. QED
      BY <1>1, <1>8, <2>1, <3>1, FailsInOrder DEF Router!Body
  <2>4. QED
    BY <1>8, <2>2, <2>3 DEF Router!Body
<1>9. CASE Router!ErrorBody(c)
  <2>1. chat[c].pc \in Router!Waiting /\ chat[c].status \in Router!ErrorKind
    BY <1>1, <1>9 DEF Router!ErrorBody, Router!Waiting, ChatOK
  <2>2. PICK kind \in Router!ErrorKind : Router!Fails(c, kind)
    BY <1>9, <2>1 DEF Router!ErrorBody
  <2>3. QED
    BY <1>1, <1>9, <2>1, <2>2, FailsInOrder DEF Router!ErrorBody
<1>10. QED
  BY <1>3, <1>4, <1>5, <1>6, <1>7, <1>8, <1>9 DEF Router!Step

\* A chat that does not run is in order.
LEMMA IdleInOrder ==
  \E k \in Router!Chat : k = Router!Idle /\ k.pc = "idle" /\ ChatOK(k)
<1>1. PICK pc \in Router!Waiting \cup Router!Finished \cup {"idle"},
           status \in Router!ErrorKind \cup {"none"}, at \in 0 .. ChainLength :
        pc = "idle" /\ status = "none" /\ at = 0
  BY TurnConstants
<1>2. PICK tried \in Seq(BOOLEAN) : tried = <<>>
  <2>1. <<>> \in Seq(BOOLEAN)
    OBVIOUS
  <2>2. QED
    BY <2>1, Zenon
<1>3. /\ pc \in Router!Waiting \cup Router!Finished \cup {"idle"}
      /\ status \in Router!ErrorKind \cup {"none"} /\ at \in 0 .. ChainLength
      /\ tried \in Seq(BOOLEAN)
  BY <1>1, <1>2
<1>4. PICK k \in Router!Chat : k = At(pc, at, status, tried) /\ k.pc = pc
  <2>1. IsAt(At(pc, at, status, tried), pc, at, status, tried)
    BY <1>3, AtFields
  <2>2. QED
    BY <2>1 DEF IsAt
<1>5. k = Router!Idle
  <2>1. k = At("idle", 0, "none", <<>>)
    BY <1>1, <1>2, <1>4, Zenon
  <2>2. QED
    BY <2>1 DEF At, Router!Idle
<1>6. k.pc = "idle"
  BY <1>1, <1>4
<1>7. ChatOK(k)
  BY <1>6, ChatKinds DEF ChatOK
<1>8. QED
  BY <1>5, <1>6, <1>7

\* A step of one chat leaves all of them in order.
LEMMA ChatsStayInOrder ==
  ASSUME ChatsInv, NEW c \in Turns, NEW k \in Router!Chat, ChatOK(k),
         chat' = [chat EXCEPT ![c] = k], permits' \in [Router!Providers -> 0 .. Capacity]
  PROVE  /\ ChatsInv'
         /\ chat'[c] = k /\ \A d \in Turns : d # c => chat'[d] = chat[d]
<1>1. chat \in [Turns -> Router!Chat] /\ \A d \in Turns : ChatOK(chat[d])
  BY DEF ChatsInv, Router!TypeOK
<1>2. /\ chat' \in [Turns -> Router!Chat]
      /\ chat'[c] = k /\ \A d \in Turns : d # c => chat'[d] = chat[d]
  BY <1>1
<1>3. \A d \in Turns : ChatOK(chat[d])'
  BY <1>1, <1>2
<1>4. QED
  BY <1>2, <1>3 DEF ChatsInv, Router!TypeOK

-------------------------------------------------------------------------------
(* The turns.                                                              *)

\* What a reply tells of what the turn has done.
Told(reply, tool, done) ==
  /\ Len(done) <= 1
  /\ reply \in {"text", "form_fallback", "refused", "BAD_REQUEST", "VALIDATION_ERROR",
                "LLM_UNAVAILABLE"} => done = <<>>
  /\ reply = "proposal" => done = <<"mint">>
  /\ (reply = "tool" /\ tool \in Writes) => done = <<tool>>
  /\ done = <<"mint">> => tool = "create_booking"

\* A call that a signing provider made carries its signature.
EchoSigned(echo) == echo.issuer \in Signing => echo.signature = echo.issuer

\* A turn r whose chat is at the step chatPc: until it is done it has no
\* effect, and from its arrival on it has a conversation.
TurnOK(r, chatPc) ==
  /\ EchoSigned(r.echo)
  /\ r.pc = "chat" <=> chatPc # "idle"
  /\ r.pc # "done" => r.effects = <<>> /\ r.reply = "none"
  /\ r.pc = "propose" => r.tool = "create_booking"
  /\ r.pc \in {"ask", "chat", "execute", "propose"} => r.conversation # NoTurn
  /\ r.pc = "done" => Told(r.reply, r.tool, r.effects)
  /\ (r.pc = "done" /\ r.reply \in Replies) => r.conversation # NoTurn

Pane == [waits : Turns \cup {NoTurn}, conversation : Turns \cup {NoTurn}, shown : SUBSET Turns]

\* The panel has a conversation once it has shown a reply, which all it shows
\* are of, and the turn it waits for was sent with it.
PaneInv ==
  /\ pane \in Pane
  /\ pane.conversation = NoTurn => pane.shown = {}
  /\ \A t \in pane.shown : turn[t].pc = "done" /\ turn[t].conversation = pane.conversation
  /\ pane.waits # NoTurn => turn[pane.waits].pc # "idle"
  /\ (pane.waits # NoTurn /\ pane.conversation # NoTurn) =>
       turn[pane.waits].conversation = pane.conversation

TurnsInv ==
  /\ turn \in [Turns -> Turn]
  /\ \A t \in Turns : TurnOK(turn[t], chat[t].pc)

\* The inductive invariant.
AgentInv == ChatsInv /\ TurnsInv /\ PaneInv

\* The records that the steps leave, named for what they do.
Posted(r, conversation) == [r EXCEPT !.pc = "posted", !.conversation = conversation]
Arrived(r, conversation) == [r EXCEPT !.pc = "ask", !.conversation = conversation]
Asked(r) == [r EXCEPT !.pc = "chat"]
Corrected(r, echo) == [r EXCEPT !.pc = "ask", !.attempt = @ + 1, !.echo = echo]
Called(r, tool) == [r EXCEPT !.pc = "execute", !.tool = tool]
Proposing(r) == [r EXCEPT !.pc = "propose"]
Answered(r, reply, effects) ==
  [r EXCEPT !.pc = "done", !.attempt = 1, !.echo = NoEcho, !.reply = reply, !.effects = @ \o effects]

LEMMA PostedFields ==
  ASSUME NEW r \in Turn, NEW c \in Turns \cup {NoTurn}
  PROVE  /\ Posted(r, c) \in Turn /\ Posted(r, c).pc = "posted"
         /\ Posted(r, c).echo = r.echo /\ Posted(r, c).conversation = c
         /\ Posted(r, c).effects = r.effects /\ Posted(r, c).reply = r.reply
  BY DEF Turn, Posted

LEMMA ArrivedFields ==
  ASSUME NEW r \in Turn, NEW c \in Turns \cup {NoTurn}
  PROVE  /\ Arrived(r, c) \in Turn /\ Arrived(r, c).pc = "ask"
         /\ Arrived(r, c).echo = r.echo /\ Arrived(r, c).conversation = c
         /\ Arrived(r, c).effects = r.effects /\ Arrived(r, c).reply = r.reply
  BY DEF Turn, Arrived

LEMMA AskedFields ==
  ASSUME NEW r \in Turn
  PROVE  /\ Asked(r) \in Turn /\ Asked(r).pc = "chat"
         /\ Asked(r).echo = r.echo /\ Asked(r).conversation = r.conversation
         /\ Asked(r).effects = r.effects /\ Asked(r).reply = r.reply
  BY DEF Turn, Asked

LEMMA ProposingFields ==
  ASSUME NEW r \in Turn
  PROVE  /\ Proposing(r) \in Turn /\ Proposing(r).pc = "propose"
         /\ Proposing(r).echo = r.echo /\ Proposing(r).conversation = r.conversation
         /\ Proposing(r).effects = r.effects /\ Proposing(r).reply = r.reply /\ Proposing(r).tool = r.tool
  BY DEF Turn, Proposing

LEMMA CorrectedFields ==
  ASSUME NEW r \in Turn, NEW echo \in Echo, r.attempt < MaxAttempts
  PROVE  /\ Corrected(r, echo) \in Turn /\ Corrected(r, echo).pc = "ask"
         /\ Corrected(r, echo).echo = echo /\ Corrected(r, echo).conversation = r.conversation
         /\ Corrected(r, echo).effects = r.effects /\ Corrected(r, echo).reply = r.reply
<1>1. r.attempt + 1 \in 1 .. MaxAttempts
  BY DEF Turn, MaxAttempts
<1>2. QED
  BY <1>1 DEF Turn, Corrected

LEMMA CalledFields ==
  ASSUME NEW r \in Turn, NEW tool \in Tools
  PROVE  /\ Called(r, tool) \in Turn /\ Called(r, tool).pc = "execute"
         /\ Called(r, tool).echo = r.echo /\ Called(r, tool).conversation = r.conversation
         /\ Called(r, tool).effects = r.effects /\ Called(r, tool).reply = r.reply
  BY DEF Turn, Called

LEMMA AnsweredFields ==
  ASSUME NEW r \in Turn, NEW reply \in Replies \cup Errors, NEW effects \in Seq(Writes \cup {"mint"}),
         r.effects = <<>>
  PROVE  /\ Answered(r, reply, effects) \in Turn /\ Answered(r, reply, effects).pc = "done"
         /\ Answered(r, reply, effects).echo = NoEcho
         /\ Answered(r, reply, effects).conversation = r.conversation
         /\ Answered(r, reply, effects).effects = effects
         /\ Answered(r, reply, effects).reply = reply
         /\ Answered(r, reply, effects).tool = r.tool
<1>1. <<>> \o effects = effects
  OBVIOUS
<1> DEFINE ended == [r EXCEPT !.pc = "done", !.attempt = 1, !.echo = NoEcho]
           new == [ended EXCEPT !.reply = reply, !.effects = effects]
<1>2. Answered(r, reply, effects) = new
  BY <1>1 DEF Answered
<1>3. 1 \in 1 .. MaxAttempts /\ NoEcho \in Echo \cup {NoEcho}
  BY DEF MaxAttempts
<1>4. /\ ended \in Turn /\ ended.pc = "done" /\ ended.echo = NoEcho
      /\ ended.conversation = r.conversation /\ ended.tool = r.tool
  BY <1>3 DEF Turn
<1> HIDE DEF ended
<1>5. /\ new \in Turn /\ new.pc = "done" /\ new.echo = NoEcho
      /\ new.conversation = r.conversation /\ new.effects = effects /\ new.reply = reply
      /\ new.tool = r.tool
  BY <1>4 DEF Turn
<1> HIDE DEF new
<1>6. QED
  BY <1>2, <1>5

\* A step of a turn that is under way keeps the invariant when the record and
\* the chat it leaves fit.
LEMMA TurnMoves ==
  ASSUME AgentInv, NEW t \in Turns, NEW new \in Turn, Become(t, new),
         turn[t].pc \notin {"idle", "done"}, new.pc # "idle",
         turn[t].conversation # NoTurn => new.conversation = turn[t].conversation,
         UNCHANGED pane, ChatsInv', TurnOK(new, chat'[t].pc),
         \A d \in Turns : d # t => chat'[d] = chat[d]
  PROVE  AgentInv'
<1>1. /\ turn \in [Turns -> Turn] /\ \A d \in Turns : TurnOK(turn[d], chat[d].pc)
      /\ PaneInv
  BY DEF AgentInv, TurnsInv
<1>2. /\ turn' \in [Turns -> Turn] /\ turn'[t] = new
      /\ \A d \in Turns : d # t => turn'[d] = turn[d]
  BY <1>1 DEF Become
<1>3. \A d \in Turns : TurnOK(turn[d], chat[d].pc)'
  BY <1>1, <1>2 DEF TurnOK
<1>4. PaneInv'
  <2>1. pane' = pane /\ pane' \in Pane /\ (pane.conversation = NoTurn => pane.shown = {})
    BY <1>1 DEF PaneInv
  <2>2. ASSUME NEW u \in pane.shown
        PROVE  turn'[u].pc = "done" /\ turn'[u].conversation = pane.conversation
    <3>1. u \in Turns /\ turn[u].pc = "done" /\ turn[u].conversation = pane.conversation
      BY <1>1 DEF PaneInv, Pane
    <3>2. u # t
      BY <3>1
    <3>3. QED
      BY <1>2, <3>1, <3>2
  <2>3. ASSUME pane.waits # NoTurn
        PROVE  /\ turn'[pane.waits].pc # "idle"
               /\ pane.conversation # NoTurn => turn'[pane.waits].conversation = pane.conversation
    <3>1. PICK u \in Turns : u = pane.waits
      BY <1>1, <2>3 DEF PaneInv, Pane
    <3>2. /\ turn[u].pc # "idle"
          /\ pane.conversation # NoTurn => turn[u].conversation = pane.conversation
      BY <1>1, <2>3, <3>1 DEF PaneInv
    <3>3. CASE u = t
      BY <1>2, <3>1, <3>2, <3>3
    <3>4. CASE u # t
      BY <1>2, <3>1, <3>2, <3>4
    <3>5. QED
      BY <3>3, <3>4
  <2>4. QED
    BY <2>1, <2>2, <2>3 DEF PaneInv
<1>5. QED
  BY <1>2, <1>3, <1>4 DEF AgentInv, TurnsInv

\* The same when the turn ends.
LEMMA TurnEnds ==
  ASSUME AgentInv, NEW t \in Turns, NEW reply \in Replies \cup Errors,
         NEW effects \in Seq(Writes \cup {"mint"}), Answer(t, reply, effects),
         turn[t].pc \notin {"idle", "done"}, Told(reply, turn[t].tool, effects),
         reply \in Replies => turn[t].conversation # NoTurn,
         UNCHANGED pane, ChatsInv', chat'[t].pc = "idle",
         \A d \in Turns : d # t => chat'[d] = chat[d]
  PROVE  AgentInv'
<1>1. PICK r \in Turn : r = turn[t]
  BY DEF AgentInv, TurnsInv
<1>2. r.effects = <<>>
  BY <1>1 DEF AgentInv, TurnsInv, TurnOK
<1>3. PICK new \in Turn :
        /\ new = Answered(r, reply, effects) /\ new.pc = "done" /\ new.echo = NoEcho
        /\ new.conversation = r.conversation /\ new.effects = effects /\ new.reply = reply
        /\ new.tool = r.tool
  BY <1>2, AnsweredFields
<1>4. Become(t, new)
  BY <1>1, <1>3 DEF Answer, Answered
<1>5. EchoSigned(new.echo)
  BY <1>3, TurnConstants DEF EchoSigned, NoEcho
<1>6. Told(new.reply, new.tool, new.effects) /\ (new.reply \in Replies => new.conversation # NoTurn)
  BY <1>1, <1>3
<1>7. TurnOK(new, chat'[t].pc)
  BY <1>3, <1>5, <1>6 DEF TurnOK
<1>8. QED
  BY <1>1, <1>3, <1>4, <1>7, TurnMoves

-------------------------------------------------------------------------------
(* The panel.                                                              *)

LEMMA ChatsRest ==
  ASSUME ChatsInv, UNCHANGED router
  PROVE  ChatsInv' /\ chat' = chat
<1>1. permits' = permits /\ chat' = chat
  BY DEF router
<1>2. QED
  BY <1>1 DEF ChatsInv, Router!TypeOK, ChatOK

LEMMA SendKeeps ==
  ASSUME AgentInv, NEW t \in Turns, Send(t)
  PROVE  AgentInv'
<1>1. /\ ChatsInv' /\ chat' = chat /\ turn \in [Turns -> Turn] /\ PaneInv
      /\ \A d \in Turns : TurnOK(turn[d], chat[d].pc)
  BY ChatsRest DEF AgentInv, TurnsInv, Send
<1>2. PICK r \in Turn : r = turn[t] /\ r.pc = "idle" /\ TurnOK(r, chat[t].pc)
  BY <1>1 DEF Send
<1>3. PICK c \in Turns \cup {NoTurn} : c = pane.conversation
  BY <1>1 DEF PaneInv, Pane
<1>4. PICK new \in Turn :
        /\ new = Posted(r, c) /\ new.pc = "posted" /\ new.echo = r.echo
        /\ new.conversation = c /\ new.effects = r.effects /\ new.reply = r.reply
  BY PostedFields
<1>5. /\ turn' \in [Turns -> Turn] /\ turn'[t] = new
      /\ \A d \in Turns : d # t => turn'[d] = turn[d]
  BY <1>1, <1>2, <1>4, <1>3 DEF Send, Become, Posted
<1>6. TurnOK(new, chat[t].pc)
  BY <1>2, <1>4 DEF TurnOK
<1>7. \A d \in Turns : TurnOK(turn[d], chat[d].pc)'
  BY <1>1, <1>5, <1>6
<1>8. /\ pane' \in Pane /\ pane'.waits = t
      /\ pane'.conversation = pane.conversation /\ pane'.shown = pane.shown
  BY <1>1 DEF Send, PaneInv, Pane
<1>9. \A u \in pane.shown : turn'[u].pc = "done" /\ turn'[u].conversation = pane.conversation
  <2>1. \A u \in pane.shown : /\ u \in Turns /\ turn[u].pc = "done"
                              /\ turn[u].conversation = pane.conversation
    BY <1>1 DEF PaneInv, Pane
  <2>2. QED
    BY <1>2, <1>5, <2>1
<1>10. PaneInv'
  BY <1>1, <1>4, <1>5, <1>8, <1>9, <1>3 DEF PaneInv
<1>11. QED
  BY <1>1, <1>5, <1>7, <1>10 DEF AgentInv, TurnsInv

LEMMA ShowKeeps ==
  ASSUME AgentInv, NEW t \in Turns, Show(t)
  PROVE  AgentInv'
<1>1. /\ ChatsInv' /\ chat' = chat /\ turn' = turn /\ turn \in [Turns -> Turn] /\ PaneInv
      /\ \A d \in Turns : TurnOK(turn[d], chat[d].pc)
  BY ChatsRest DEF AgentInv, TurnsInv, Show
<1>2. pane.waits = t /\ turn[t].pc = "done" /\ NoTurn \notin Turns
  BY TurnConstants DEF Show
<1>3. PaneInv'
  <2>1. CASE /\ turn[t].reply \in Replies
             /\ pane' = [waits |-> NoTurn, conversation |-> turn[t].conversation,
                         shown |-> pane.shown \cup {t}]
    <3>1. turn[t].conversation # NoTurn /\ turn[t].conversation \in Turns \cup {NoTurn}
      BY <1>1, <1>2, <2>1 DEF TurnOK, Turn
    <3>2. /\ pane' \in Pane /\ pane'.waits = NoTurn /\ pane'.conversation = turn[t].conversation
          /\ pane'.shown = pane.shown \cup {t}
      BY <1>1, <2>1, <3>1 DEF PaneInv, Pane
    <3>3. ASSUME NEW u \in pane.shown
          PROVE  turn[u].pc = "done" /\ turn[u].conversation = turn[t].conversation
      <4>1. pane.conversation # NoTurn /\ pane.waits # NoTurn
        BY <1>1, <1>2, <3>3 DEF PaneInv
      <4>2. turn[t].conversation = pane.conversation
        BY <1>1, <1>2, <4>1 DEF PaneInv
      <4>3. QED
        BY <1>1, <3>3, <4>2 DEF PaneInv
    <3>4. QED
      BY <1>1, <1>2, <3>1, <3>2, <3>3 DEF PaneInv
  <2>2. CASE turn[t].reply \in Errors /\ pane' = [pane EXCEPT !.waits = NoTurn]
    <3>1. /\ pane' \in Pane /\ pane'.waits = NoTurn
          /\ pane'.conversation = pane.conversation /\ pane'.shown = pane.shown
      BY <1>1, <2>2 DEF PaneInv, Pane
    <3>2. QED
      BY <1>1, <3>1 DEF PaneInv
  <2>3. QED
    BY <2>1, <2>2 DEF Show
<1>4. QED
  BY <1>1, <1>3 DEF AgentInv, TurnsInv

LEMMA BreakKeeps ==
  ASSUME AgentInv, NEW t \in Turns, Break(t)
  PROVE  AgentInv'
<1>1. /\ ChatsInv' /\ chat' = chat /\ turn' = turn /\ turn \in [Turns -> Turn] /\ PaneInv
      /\ \A d \in Turns : TurnOK(turn[d], chat[d].pc)
  BY ChatsRest DEF AgentInv, TurnsInv, Break
<1>2. /\ pane' \in Pane /\ pane'.waits = NoTurn
      /\ pane'.conversation = pane.conversation /\ pane'.shown = pane.shown
  BY <1>1 DEF Break, PaneInv, Pane
<1>3. PaneInv'
  BY <1>1, <1>2 DEF PaneInv
<1>4. QED
  BY <1>1, <1>3 DEF AgentInv, TurnsInv

-------------------------------------------------------------------------------
(* The turn in agent-service.                                              *)

LEMMA NothingTold ==
  \A tool : /\ Told("text", tool, <<>>) /\ Told("form_fallback", tool, <<>>)
            /\ Told("BAD_REQUEST", tool, <<>>)
            /\ Told("VALIDATION_ERROR", tool, <<>>) /\ Told("LLM_UNAVAILABLE", tool, <<>>)
            /\ Told("INTERNAL_ERROR", tool, <<>>) /\ Told("refused", tool, <<>>)
            /\ Told("broken", tool, <<>>)
<1>1. Len(<<>>) <= 1 /\ <<>> # <<"mint">>
  OBVIOUS
<1>2. QED
  BY <1>1 DEF Told

LEMMA ReplyKinds ==
  /\ {"text", "form_fallback", "tool", "refused", "broken", "proposal"} = Replies
  /\ {"VALIDATION_ERROR", "BAD_REQUEST", "LLM_UNAVAILABLE", "INTERNAL_ERROR"} = Errors
  /\ Replies \cap Errors = {}
  /\ <<>> \in Seq(Writes \cup {"mint"})
  BY DEF Replies, Errors

LEMMA ArriveKeeps ==
  ASSUME AgentInv, NEW t \in Turns, Arrive(t)
  PROVE  AgentInv'
<1>1. /\ ChatsInv' /\ chat' = chat /\ UNCHANGED pane /\ turn[t].pc = "posted"
      /\ TurnOK(turn[t], chat[t].pc)
  BY ChatsRest DEF AgentInv, TurnsInv, Arrive
<1>2. chat[t].pc = "idle"
  BY <1>1 DEF TurnOK
<1>3. CASE \E error \in {"BAD_REQUEST", "VALIDATION_ERROR"} : Answer(t, error, <<>>)
  <2>1. PICK reply \in Replies \cup Errors, effects \in Seq(Writes \cup {"mint"}) :
          /\ Answer(t, reply, effects) /\ Told(reply, turn[t].tool, effects)
          /\ reply \notin Replies
    BY <1>3, ReplyKinds, NothingTold
  <2>2. QED
    BY <1>1, <1>2, <2>1, TurnEnds
<1>4. CASE Become(t, [turn[t] EXCEPT !.pc = "ask", !.conversation = ConversationOf(t)])
  <2>1. PICK r \in Turn, c \in Turns \cup {NoTurn} :
          r = turn[t] /\ c = ConversationOf(t) /\ c # NoTurn
    <3>1. turn[t] \in Turn /\ NoTurn \notin Turns
      BY TurnConstants DEF AgentInv, TurnsInv
    <3>2. ConversationOf(t) \in Turns /\ ConversationOf(t) # NoTurn
      BY <3>1 DEF ConversationOf, Turn
    <3>3. QED
      BY <3>1, <3>2
  <2>2. PICK new \in Turn :
          /\ new = Arrived(r, c) /\ new.pc = "ask" /\ new.echo = r.echo
          /\ new.conversation = c /\ new.effects = r.effects /\ new.reply = r.reply
    BY ArrivedFields
  <2>3. Become(t, new)
    BY <1>4, <2>1, <2>2 DEF Arrived
  <2>4. turn[t].conversation # NoTurn => new.conversation = turn[t].conversation
    BY <2>1, <2>2 DEF ConversationOf
  <2>5. TurnOK(new, chat'[t].pc)
    BY <1>1, <1>2, <2>1, <2>2 DEF TurnOK
  <2>6. QED
    BY <1>1, <2>2, <2>3, <2>4, <2>5, TurnMoves
<1>5. QED
  BY <1>3, <1>4 DEF Arrive

LEMMA AskKeeps ==
  ASSUME AgentInv, NEW t \in Turns, Ask(t)
  PROVE  AgentInv'
<1>1. /\ ChatsInv /\ UNCHANGED pane /\ turn[t].pc = "ask" /\ TurnOK(turn[t], chat[t].pc)
      /\ Router!Start(t)
  BY DEF AgentInv, TurnsInv, Ask
<1>2. PICK k \in Router!Chat : k.pc # "idle" /\ ChatOK(k) /\ chat' = [chat EXCEPT ![t] = k]
  BY <1>1, StepsInOrder
<1>3. permits' \in [Router!Providers -> 0 .. Capacity]
  BY <1>1, StepsInOrder
<1>4. ChatsInv' /\ chat'[t].pc # "idle" /\ \A d \in Turns : d # t => chat'[d] = chat[d]
  BY <1>1, <1>2, <1>3, ChatsStayInOrder
<1>5. PICK r \in Turn : r = turn[t]
  BY DEF AgentInv, TurnsInv
<1>6. PICK new \in Turn :
        /\ new = Asked(r) /\ new.pc = "chat" /\ new.echo = r.echo
        /\ new.conversation = r.conversation /\ new.effects = r.effects /\ new.reply = r.reply
  BY AskedFields
<1>7. Become(t, new)
  BY <1>5, <1>6 DEF Ask, Asked
<1>8. TurnOK(new, chat'[t].pc)
  BY <1>1, <1>4, <1>5, <1>6 DEF TurnOK
<1>9. QED
  BY <1>1, <1>4, <1>5, <1>6, <1>7, <1>8, TurnMoves

\* The call of the turn returns, and its chat is free again.
LEMMA ReturnFrees ==
  ASSUME ChatsInv, NEW t \in Turns, Router!Return(t)
  PROVE  /\ ChatsInv' /\ chat'[t].pc = "idle"
         /\ \A d \in Turns : d # t => chat'[d] = chat[d]
<1>1. PICK k \in Router!Chat : k = Router!Idle /\ k.pc = "idle" /\ ChatOK(k)
  BY IdleInOrder
<1>2. chat' = [chat EXCEPT ![t] = k] /\ permits' \in [Router!Providers -> 0 .. Capacity]
  BY <1>1 DEF Router!Return, ChatsInv, Router!TypeOK
<1>3. QED
  BY <1>1, <1>2, ChatsStayInOrder

LEMMA UnansweredKeeps ==
  ASSUME AgentInv, NEW t \in Turns, Unanswered(t)
  PROVE  AgentInv'
<1>1. /\ ChatsInv' /\ chat'[t].pc = "idle"
      /\ \A d \in Turns : d # t => chat'[d] = chat[d]
  BY ReturnFrees DEF AgentInv, Unanswered
<1>2. turn[t].pc = "chat" /\ UNCHANGED pane
  BY DEF AgentInv, TurnsInv, TurnOK, Unanswered
<1>3. PICK reply \in Replies \cup Errors, effects \in Seq(Writes \cup {"mint"}) :
        /\ Answer(t, reply, effects) /\ Told(reply, turn[t].tool, effects)
        /\ reply \notin Replies
  BY ReplyKinds, NothingTold DEF Unanswered
<1>4. QED
  BY <1>1, <1>2, <1>3, TurnEnds

\* The signature of a call that a signing provider made comes with it.
LEMMA ReceivedSigned ==
  ASSUME NEW p \in 1 .. ChainLength
  PROVE  Received(p) \in Echo /\ EchoSigned(Received(p))
  BY TurnConstants DEF Received, FromGemini, FromOpenAi, Echo, EchoSigned

LEMMA ExtractKeeps ==
  ASSUME AgentInv, NEW t \in Turns, Extract(t)
  PROVE  AgentInv'
<1>1. /\ ChatsInv' /\ chat'[t].pc = "idle"
      /\ \A d \in Turns : d # t => chat'[d] = chat[d]
  BY ReturnFrees DEF AgentInv, Extract
<1>2. /\ turn[t].pc = "chat" /\ UNCHANGED pane /\ TurnOK(turn[t], chat[t].pc)
      /\ turn[t].conversation # NoTurn
  BY DEF AgentInv, TurnsInv, TurnOK, Extract
<1>3. PICK r \in Turn : r = turn[t] /\ TurnOK(r, chat[t].pc) /\ r.pc = "chat"
                        /\ r.conversation # NoTurn
  BY <1>2 DEF AgentInv, TurnsInv
<1>4. CASE Answer(t, "text", <<>>) \/ Answer(t, "form_fallback", <<>>)
  <2>1. PICK reply \in Replies \cup Errors, effects \in Seq(Writes \cup {"mint"}) :
          Answer(t, reply, effects) /\ Told(reply, turn[t].tool, effects)
    BY <1>4, ReplyKinds, NothingTold
  <2>2. QED
    BY <1>1, <1>2, <2>1, TurnEnds
<1>5. CASE \E tool \in Tools : Become(t, [turn[t] EXCEPT !.pc = "execute", !.tool = tool])
  <2>1. PICK tool \in Tools : Become(t, [turn[t] EXCEPT !.pc = "execute", !.tool = tool])
    BY <1>5
  <2>2. PICK new \in Turn :
          /\ new = Called(r, tool) /\ new.pc = "execute" /\ new.echo = r.echo
          /\ new.conversation = r.conversation /\ new.effects = r.effects /\ new.reply = r.reply
    BY CalledFields
  <2>3. Become(t, new)
    BY <1>3, <2>1, <2>2 DEF Called
  <2>4. TurnOK(new, chat'[t].pc)
    BY <1>1, <1>3, <2>2 DEF TurnOK
  <2>5. QED
    BY <1>1, <1>2, <1>3, <2>2, <2>3, <2>4, TurnMoves
<1>6. CASE /\ turn[t].attempt < MaxAttempts
           /\ Become(t, [turn[t] EXCEPT !.pc = "ask", !.attempt = @ + 1,
                                        !.echo = Received(chat[t].at)])
  <2>1. chat[t].at \in 1 .. ChainLength
    BY DEF AgentInv, ChatsInv, ChatOK, Extract
  <2>2. PICK echo \in Echo : echo = Received(chat[t].at) /\ EchoSigned(echo)
    BY <2>1, ReceivedSigned
  <2>3. PICK new \in Turn :
          /\ new = Corrected(r, echo) /\ new.pc = "ask" /\ new.echo = echo
          /\ new.conversation = r.conversation /\ new.effects = r.effects /\ new.reply = r.reply
    BY <1>3, <1>6, CorrectedFields
  <2>4. Become(t, new)
    BY <1>3, <1>6, <2>2, <2>3 DEF Corrected
  <2>5. TurnOK(new, chat'[t].pc)
    BY <1>1, <1>3, <2>2, <2>3 DEF TurnOK
  <2>6. QED
    BY <1>1, <1>2, <1>3, <2>3, <2>4, <2>5, TurnMoves
<1>7. \/ Answer(t, "text", <<>>) \/ Answer(t, "form_fallback", <<>>)
      \/ \E tool \in Tools : Become(t, [turn[t] EXCEPT !.pc = "execute", !.tool = tool])
      \/ /\ turn[t].attempt < MaxAttempts
         /\ Become(t, [turn[t] EXCEPT !.pc = "ask", !.attempt = @ + 1,
                                      !.echo = Received(chat[t].at)])
  BY DEF Extract, Correct
<1>8. QED
  BY <1>4, <1>5, <1>6, <1>7

LEMMA ExecuteKeeps ==
  ASSUME AgentInv, NEW t \in Turns, Execute(t)
  PROVE  AgentInv'
<1>1. /\ ChatsInv' /\ chat' = chat /\ UNCHANGED pane /\ turn[t].pc = "execute"
      /\ TurnOK(turn[t], chat[t].pc)
  BY ChatsRest DEF AgentInv, TurnsInv, Execute
<1>2. PICK r \in Turn : r = turn[t] /\ TurnOK(r, chat[t].pc) /\ r.pc = "execute"
  BY <1>1 DEF AgentInv, TurnsInv
<1>3. chat[t].pc = "idle" /\ r.conversation # NoTurn
  BY <1>2 DEF TurnOK
<1>4. CASE ProposeOnly(t)
  <2>1. PICK new \in Turn :
          /\ new = Proposing(r) /\ new.pc = "propose" /\ new.echo = r.echo
          /\ new.conversation = r.conversation /\ new.effects = r.effects /\ new.reply = r.reply
          /\ new.tool = r.tool
    BY ProposingFields
  <2>2. Become(t, new) /\ r.tool = "create_booking"
    BY <1>2, <1>4, <2>1 DEF ProposeOnly, Proposing
  <2>3. TurnOK(new, chat'[t].pc)
    BY <1>1, <1>2, <1>3, <2>1, <2>2 DEF TurnOK
  <2>4. QED
    BY <1>1, <1>2, <2>1, <2>2, <2>3, TurnMoves
<1>5. CASE Courier(t)
  <2>1. PICK reply \in Replies \cup Errors, effects \in Seq(Writes \cup {"mint"}) :
          Answer(t, reply, effects) /\ Told(reply, turn[t].tool, effects)
    <3>1. CASE Read(t)
      <4>1. turn[t].tool \notin Writes
        BY <3>1, TurnConstants DEF Read
      <4>2. Told("tool", turn[t].tool, <<>>)
        BY <4>1, NothingTold DEF Told
      <4>3. QED
        BY <3>1, <4>2, ReplyKinds, NothingTold DEF Read, Relay
    <3>2. CASE Write(t)
      <4>1. PICK tool \in Writes : tool = turn[t].tool /\ Relay(t, <<tool>>)
        BY <3>2 DEF Write
      <4>2. <<tool>> \in Seq(Writes \cup {"mint"}) /\ <<tool>> # <<"mint">> /\ Len(<<tool>>) = 1
        BY TurnConstants
      <4>3. /\ Told("tool", tool, <<tool>>) /\ Told("broken", tool, <<tool>>)
            /\ Told("INTERNAL_ERROR", tool, <<tool>>)
        BY <4>2 DEF Told
      <4>4. QED
        BY <4>1, <4>2, <4>3, ReplyKinds, NothingTold DEF Relay
    <3>3. QED
      BY <1>5, <3>1, <3>2 DEF Courier
  <2>2. QED
    BY <1>1, <1>2, <1>3, <2>1, TurnEnds
<1>6. QED
  BY <1>4, <1>5 DEF Execute

LEMMA ProposeKeeps ==
  ASSUME AgentInv, NEW t \in Turns, Propose(t)
  PROVE  AgentInv'
<1>1. /\ ChatsInv' /\ chat' = chat /\ UNCHANGED pane /\ turn[t].pc = "propose"
      /\ TurnOK(turn[t], chat[t].pc)
  BY ChatsRest DEF AgentInv, TurnsInv, Propose
<1>2. chat[t].pc = "idle" /\ turn[t].conversation # NoTurn /\ turn[t].tool = "create_booking"
  BY <1>1 DEF TurnOK
<1>3. <<"mint">> \in Seq(Writes \cup {"mint"}) /\ Len(<<"mint">>) = 1 /\ "create_booking" \notin Writes
  BY TurnConstants
<1>4. /\ Told("proposal", turn[t].tool, <<"mint">>) /\ Told("INTERNAL_ERROR", turn[t].tool, <<"mint">>)
  BY <1>2, <1>3 DEF Told
<1>5. PICK reply \in Replies \cup Errors, effects \in Seq(Writes \cup {"mint"}) :
        Answer(t, reply, effects) /\ Told(reply, turn[t].tool, effects)
  BY <1>3, <1>4, ReplyKinds, NothingTold DEF Propose
<1>6. QED
  BY <1>1, <1>2, <1>5, TurnEnds

-------------------------------------------------------------------------------
(* The whole.                                                              *)

LEMMA RouterKeeps ==
  ASSUME AgentInv, NEW t \in Turns, Router!Step(t), Serve(t)
  PROVE  AgentInv'
<1>1. /\ ChatsInv /\ turn' = turn /\ pane' = pane /\ turn \in [Turns -> Turn]
      /\ \A d \in Turns : TurnOK(turn[d], chat[d].pc)
      /\ PaneInv
  BY DEF AgentInv, TurnsInv, Serve
<1>2. PICK k \in Router!Chat : k.pc # "idle" /\ ChatOK(k) /\ chat' = [chat EXCEPT ![t] = k]
  BY <1>1, StepsInOrder
<1>3. permits' \in [Router!Providers -> 0 .. Capacity]
  BY <1>1, StepsInOrder
<1>4. ChatsInv' /\ chat'[t].pc # "idle" /\ \A d \in Turns : d # t => chat'[d] = chat[d]
  BY <1>1, <1>2, <1>3, ChatsStayInOrder
<1>5. chat[t].pc # "idle"
  BY DEF Router!Step, Router!Send, Router!Headers, Router!Timeout, Router!NetworkError,
     Router!Body, Router!ErrorBody
<1>6. \A d \in Turns : TurnOK(turn[d], chat[d].pc)'
  <2>1. TurnOK(turn[t], chat'[t].pc)
    BY <1>1, <1>4, <1>5 DEF TurnOK
  <2>2. QED
    BY <1>1, <1>4, <2>1
<1>7. PaneInv'
  BY <1>1 DEF PaneInv
<1>8. QED
  BY <1>1, <1>4, <1>6, <1>7 DEF AgentInv, TurnsInv

LEMMA AccrueKeeps ==
  ASSUME AgentInv, NEW p \in Router!Providers, Router!Accrue(p), UNCHANGED <<turn, pane>>
  PROVE  AgentInv'
<1>1. permits \in [Router!Providers -> 0 .. Capacity] /\ chat \in [Turns -> Router!Chat]
      /\ chat' = chat /\ turn' = turn /\ pane' = pane
  BY DEF AgentInv, ChatsInv, Router!TypeOK, Router!Accrue
<1>2. permits' \in [Router!Providers -> 0 .. Capacity]
  BY <1>1, TurnConstants DEF Router!Accrue
<1>3. ChatsInv'
  BY <1>1, <1>2 DEF AgentInv, ChatsInv, Router!TypeOK
<1>4. QED
  BY <1>1, <1>3 DEF AgentInv, TurnsInv, PaneInv

LEMMA AgentStarts == Init => AgentInv
<1> SUFFICES ASSUME Init PROVE AgentInv
  OBVIOUS
<1>1. PICK k \in Router!Chat : k = Router!Idle /\ k.pc = "idle" /\ ChatOK(k)
  BY IdleInOrder
<1>2. chat = [c \in Turns |-> k] /\ permits \in [Router!Providers -> 0 .. Capacity]
  BY <1>1, TurnConstants DEF Init, Router!Init
<1>3. ChatsInv
  BY <1>1, <1>2 DEF ChatsInv, Router!TypeOK
<1> DEFINE r == [pc |-> "idle", attempt |-> 1, echo |-> NoEcho, tool |-> "none",
                 conversation |-> NoTurn, effects |-> <<>>, reply |-> "none"]
<1>4. r \in Turn
  <2>1. <<>> \in Seq(Writes \cup {"mint"}) /\ 1 \in 1 .. MaxAttempts
    BY DEF MaxAttempts
  <2>2. QED
    BY <2>1 DEF Turn
<1>5. EchoSigned(NoEcho)
  BY TurnConstants DEF EchoSigned, NoEcho
<1>6. TurnOK(r, "idle")
  BY <1>5 DEF TurnOK
<1>7. turn = [t \in Turns |-> r]
  BY DEF Init
<1> HIDE DEF r
<1>8. TurnsInv
  BY <1>1, <1>2, <1>4, <1>6, <1>7 DEF TurnsInv
<1>9. PaneInv
  BY DEF Init, PaneInv, Pane
<1>10. QED
  BY <1>3, <1>8, <1>9 DEF AgentInv

LEMMA AgentSteps == AgentInv /\ [Next]_vars => AgentInv'
<1> SUFFICES ASSUME AgentInv, [Next]_vars PROVE AgentInv'
  OBVIOUS
<1>1. CASE UNCHANGED vars
  BY <1>1 DEF vars, AgentInv, ChatsInv, Router!TypeOK, TurnsInv, PaneInv
<1>2. CASE \E t \in Turns : Send(t) \/ Show(t) \/ Break(t) \/ Arrive(t) \/ Step(t)
  BY <1>2, SendKeeps, ShowKeeps, BreakKeeps, ArriveKeeps, AskKeeps, UnansweredKeeps,
     ExtractKeeps, ExecuteKeeps, ProposeKeeps DEF Step
<1>3. CASE \E t \in Turns : Router!Step(t) /\ Serve(t)
  BY <1>3, RouterKeeps
<1>4. CASE \E p \in Router!Providers : Router!Accrue(p) /\ UNCHANGED <<turn, pane>>
  BY <1>4, AccrueKeeps
<1>5. QED
  BY <1>1, <1>2, <1>3, <1>4 DEF Next

LEMMA AgentInvHolds == Spec => []AgentInv
<1>1. QED
  BY AgentStarts, AgentSteps, PTL DEF Spec

-------------------------------------------------------------------------------
(* What a turn promises.                                                   *)

\* Turns, chats and the panel have their shapes, and a turn waits for the
\* router exactly while a chat of its own runs.
THEOREM TurnTypeCorrect == Spec => []TypeOK
<1>1. AgentInv => TypeOK
  BY DEF AgentInv, ChatsInv, TurnsInv, TurnOK, PaneInv, Pane, TypeOK
<1>2. QED
  BY <1>1, AgentInvHolds, PTL

\* Provider n of the chain is asked only after the n - 1 before it failed, each
\* in a way that another provider might not (router.ts), whatever the chain.
THEOREM ChainInOrder == Spec => []ChainIsTriedInOrder
<1>1. ASSUME AgentInv PROVE ChainIsTriedInOrder
  <2>1. SUFFICES ASSUME NEW c \in Turns
                 PROVE  LET tried == chat[c].retryable
                            Failed(n) == Len(tried) = n /\ \A i \in 1 .. n : tried[i] IN
                        /\ chat[c].pc \in Router!Waiting \cup {"answered"} => Failed(chat[c].at - 1)
                        /\ chat[c].pc = "exhausted" => Failed(ChainLength)
                        /\ chat[c].pc = "failed" =>
                             Len(tried) = chat[c].at /\ \A i \in 1 .. Len(tried) : tried[i] <=> i < Len(tried)
    BY DEF ChainIsTriedInOrder, Router!ChainIsTriedInOrder
  <2>2. ChatOK(chat[c]) /\ chat[c].retryable \in Seq(BOOLEAN)
    BY <1>1 DEF AgentInv, ChatsInv, Router!TypeOK, Router!Chat
  <2>3. \A i \in 1 .. Len(chat[c].retryable) : chat[c].retryable[i] \in BOOLEAN
    BY <2>2
  <2>4. QED
    BY <2>2, <2>3 DEF ChatOK, AllRetryable
<1>2. QED
  BY <1>1, AgentInvHolds, PTL

\* The reply of a turn tells whether it has done anything outside: only a 500
\* leaves it open (runTurn, the loop and the tools).
THEOREM RepliesTellEffects == Spec => []ReplyTellsEffects
<1>1. ASSUME AgentInv PROVE ReplyTellsEffects
  <2>1. ASSUME NEW t \in Turns
        PROVE  Told(turn[t].reply, turn[t].tool, turn[t].effects)
    <3>1. TurnOK(turn[t], chat[t].pc)
      BY <1>1 DEF AgentInv, TurnsInv
    <3>2. CASE turn[t].pc = "done"
      BY <3>1, <3>2 DEF TurnOK
    <3>3. CASE turn[t].pc # "done"
      <4>1. turn[t].effects = <<>> /\ turn[t].reply = "none"
        BY <3>1, <3>3 DEF TurnOK
      <4>2. Len(<<>>) <= 1 /\ <<>> # <<"mint">>
        OBVIOUS
      <4>3. QED
        BY <4>1, <4>2 DEF Told
    <3>4. QED
      BY <3>2, <3>3
  <2>2. QED
    BY <2>1 DEF ReplyTellsEffects, Told
<1>2. QED
  BY <1>1, AgentInvHolds, PTL

\* A correction is refused for want of its signature only where another
\* provider made the call that is corrected (GeminiProvider's thoughtSignature).
THEOREM OnlyCrossedAreRefused == Spec => []OnlyCrossedEchoesAreRefused
<1>1. ASSUME AgentInv PROVE OnlyCrossedEchoesAreRefused
  <2>1. SUFFICES ASSUME NEW t \in Turns, ~ Accepts(chat[t].at, turn[t].echo)
                 PROVE  turn[t].echo.issuer # chat[t].at
    BY DEF OnlyCrossedEchoesAreRefused
  <2>2. chat[t].at \in Signing /\ turn[t].echo.signature # chat[t].at
    BY <2>1 DEF Accepts, ToGemini
  <2>3. EchoSigned(turn[t].echo)
    BY <1>1 DEF AgentInv, TurnsInv, TurnOK
  <2>4. QED
    BY <2>2, <2>3 DEF EchoSigned
<1>2. QED
  BY <1>1, AgentInvHolds, PTL

\* The replies that one panel has taken are of one conversation, although turns
\* whose answers were lost may run beside them (useChat and resolveConversation).
THEOREM PanelShowsOneConversation == Spec => []OneConversation
<1>1. AgentInv => OneConversation
  BY DEF AgentInv, PaneInv, OneConversation
<1>2. QED
  BY <1>1, AgentInvHolds, PTL

===============================================================================
