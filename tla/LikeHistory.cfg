\* One of three users posts and reposts, two like; a counter has three values.
SPECIFICATION HistorySpec
CONSTANTS
  UsersNumber = 3
  UintModulus = 3
  Pairs = {}
  Askers = {}
  Unreached = Unreached
  Nobody = Nobody
  Members = {1}
  Likers = {1, 2}
  MaxPosts = 4
  NoRepost = NoRepost
  None = None
  FeedSizes = {}
CHECK_DEADLOCK FALSE
INVARIANTS
  LikesCounted
