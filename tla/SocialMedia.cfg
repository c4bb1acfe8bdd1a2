\* Two of three users post, repost and like; the one in the middle may befriend both others.
SPECIFICATION Spec
CONSTANTS
  UsersNumber = 3
  UintModulus = 3
  Pairs <- MCPairs
  Askers = {}
  Unreached = Unreached
  Nobody = Nobody
  Members = {1, 2}
  Likers = {1}
  MaxPosts = 5
  NoRepost = NoRepost
  None = None
  FeedSizes = {1, 2}
CHECK_DEADLOCK FALSE
INVARIANTS
  TreesInOrder
  CommonRepostIsLowest
  FeedsAgree
