SPECIFICATION ClientSpec
CONSTANTS
  Asks = {s1, s2, b1}
  Subscriptions = {s1, s2}
CHECK_DEADLOCK FALSE
INVARIANTS IdleSparesUsers IdleClientServes LossIsReported
PROPERTIES RefusalLetsGo
