SPECIFICATION FairSpec
CONSTANTS
  Turns = {t1, t2}
  ChainLength = 2
  Signing = {1}
  Capacity = 1
  NoTurn = NoTurn
  Reads = {"search_rates"}
  Writes = {"create_quote", "hold_quote"}
INVARIANTS
  TypeOK
  ChainIsTriedInOrder
  ReplyTellsEffects
  OnlyCrossedEchoesAreRefused
  OneConversation
PROPERTY EveryTurnIsAnswered
CHECK_DEADLOCK FALSE
