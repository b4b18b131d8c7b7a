SPECIFICATION FairSpec
CONSTANTS
  Capacity = 2
  MaxPosts = 5
INVARIANT CommandsExactlyOnce
PROPERTIES
  StopObeyed
CHECK_DEADLOCK FALSE
