SPECIFICATION Spec
CONSTANTS
  us = "us"
  gateway = "gw"
  dns_server = "dns"
  Near <- MCNear
  Far <- MCFar
  Names <- MCNames
  AddressOf <- MCAddressOf
  Noise <- MCNoise
  ARP_TRIES = 2
  ARP_LOOPS = 2
  REPLY_LOOPS = 2
  DNS_ID_MOD = 4
  DNS_PORTS = 2
  PING_SEQ_MOD = 4
  Targets <- MCTargets
  PingCounts = {1}
  PROBES = 2
  MAX_COMMANDS = 3
INVARIANTS
  RightAnswer
  PingHonest
  NothingAwaited
  ReachesHop
PROPERTY
  CommandEnds
