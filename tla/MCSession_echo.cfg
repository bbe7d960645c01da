SPECIFICATION SafeSpec
CONSTANTS
  Workers = 2
  MaxReads = 2
  Base = 2
  Types = {"HELLO", "ECHO_REQUEST", "ERROR", "ECHO_REPLY", "PACKET_IN", "STATS_REPLY", "FEATURES_REPLY"}
  PeerXids = {1, 2}
  Calls = {"echo_request", "set_config"}
  NULL = NULL
CHECK_DEADLOCK FALSE
INVARIANTS
  SameXidInReply
