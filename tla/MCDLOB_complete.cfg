SPECIFICATION Spec
CONSTANTS
  Market = {"perp1", "perp2", "spot1"}
  Perp = {"perp1", "perp2"}
  User = {"u1"}
  Order = {"p1_auction", "p2_triggered", "s1_auction"}
  OrderOf <- MCOrderOf
  Consumer = {c1}
  MaxSlot = 2
  MaxEvents = 1
INVARIANT RestingAnswerComplete
