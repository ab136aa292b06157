CONSTANTS
  Clients = {a}
  Servers = {s}
  srv_gid <- MCsrv_gid
  Postlist = 2
  NUM_UD_QPS = 3
  Half = 2
  MaxCount = 6
SPECIFICATION Spec
INVARIANT CountedAsIssued
CHECK_DEADLOCK FALSE
