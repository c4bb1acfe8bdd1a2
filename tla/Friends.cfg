\* Four users who may all become friends.
SPECIFICATION FriendsSpec
CONSTANTS
  UsersNumber = 4
  UintModulus = 16
  Pairs <- MCPairs
  Askers = {0, 3}
  Unreached = Unreached
  Nobody = Nobody
CHECK_DEADLOCK FALSE
INVARIANTS
  FriendshipMutual
  DistanceOfOthers
  FriendListsAnswered
PROPERTIES
  SearchEnds
