SPECIFICATION FairSpec
CONSTANTS
  Users = {u1, u2, u3}
  Servers = {1, 2}
  MaxKills = 1
INVARIANTS TypeOK ServedWhileUsed
PROPERTIES EveryTestEnds
