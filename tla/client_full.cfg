SPECIFICATION FairSpec
CONSTANTS
  MaxPacketId = 1
  MaxHandlers = 2
  Topics = {a}
  NoTopic = NoTopic
  GrantedQoS = {0, 128}
  PublishQoS = {0, 2}
  InboundQoS = {1, 2}
  keepAliveInterval = 60
  Window = 1
INVARIANTS
  TypeOK
  NoMessageMissed
  PingAccounting
  SubscriptionsAgree
PROPERTIES
  CallsReturn
