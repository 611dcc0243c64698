SPECIFICATION ServeSpec
CONSTANTS
  l1 = l1 l2 = l2 l3 = l3
  c1 = c1 c2 = c2
  None = None
  Links = {l1, l2}
  Clients = {c1, c2}
  k1 = k1 k2 = k2 k3 = k3 a1 = a1 a2 = a2
  list = list other = other
  NoCall = NoCall
  Methods = {list, other}
  Calls = {k1, k2, k3}
  Listing = {list}
  Pages = 2
  Answers = {a1, a2}
  LateAnswers = FALSE
  HighWater = 2
  MaxQueue = 3
  MaxSent = 8
  u1 = u1 v1 = v1
  Users = {u1, u2}
  Procs = {p1}
  Daemons = {r1}
  Sessions = {x1, x2, x3}
  Devices = {v1, v2, v3, v4}
  Servers = {q1, q2}
  Nobody = Nobody Nothing = Nothing
  Leftover = Old
  s1 = s1
  Asks = {s1, b1, b2}
  Subscriptions = {s1}
CHECK_DEADLOCK FALSE
INVARIANTS
  LiveIsReachable SingleDelivery SubscribersServed ListsAreWhole LinesInOrder QueueWillDrain
  StoredDeviceServes IdleSparesUsers
PROPERTIES
  LoopEnds OneAtATime LoginEnds ToldEnds ReachableIfApart IdleLetsGo
