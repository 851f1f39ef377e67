SPECIFICATION FairSpec
CONSTANTS
  Chats = {c1}
  ChainLength = 1
  Capacity = 1
PROPERTY EveryChatReturns
