SPECIFICATION Spec
CONSTANTS
  MaxPacketId = 2
  MaxHandlers = 1
  Topics = {a}
  NoTopic = NoTopic
  GrantedQoS = {1}
  PublishQoS = {1, 2}
  InboundQoS = {}
  keepAliveInterval = 0
  Window = 2
  MaxUnacked = 1
CONSTRAINT FewUnacked
INVARIANTS
  CleanSessionAck
  AckOfThisSession
