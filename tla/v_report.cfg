SPECIFICATION TaskSpec
CONSTANTS
  MaxPacketId = 2
  MaxHandlers = 1
  Topics = {req, sensor}
  RequestTopic = req
  ReportTopic = sensor
  NoTopic = NoTopic
  GrantedQoS = {1, 128}
  PublishQoS = {1}
  InboundQoS = {1}
  keepAliveInterval = 60
  Window = 2
  Sensors = 1
  MaxCredit = 2
INVARIANT FailedRoundExits
