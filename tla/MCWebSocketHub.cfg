SPECIFICATION Spec
CONSTANTS
  c1 = c1
  c2 = c2
  card = card
  player = player
  Client <- MCClient
  Card = {card}
  User = {player}
  Requests <- MCRequests
  MaxInbox <- MCMaxInbox
  MaxBursts = 1
INVARIANTS
  IndexAgrees
  SubscriptionsFollowRequests
PROPERTIES
  DisconnectsAreNoticed
CHECK_DEADLOCK FALSE
