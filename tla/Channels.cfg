\* one peer that has moved, one channel; the coin may be spent by others
SPECIFICATION FairSpec
CONSTANTS
  alice = alice
  Peers = {alice}
  Coins = {coin}
  Channels = {1}
  None = None
  Other = Other
  Announced <- MCAnnounced
INVARIANTS
  TypeOK
  FundsAreSafe
PROPERTIES
  ImplementsCoinUse
  ConnectsGoForward
  DisconnectSparesOpening
  ConnectAnswers
  ChannelPeersReturn
CHECK_DEADLOCK FALSE
