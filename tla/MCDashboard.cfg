SPECIFICATION FairSpec
CONSTANTS
  Clients = {w1, w2}
  NoClient = noClient
  RuleNames <- TwoRules
  Notifiers = {n1}
  Nobody = nobody
  MaxWaiting = 1
INVARIANT TypeOK
INVARIANT ClientsAreLive
INVARIANT RulesFollowCommand
PROPERTY RequestsAreServed
