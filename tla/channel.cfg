CONSTANTS
  Uses <- MCUses
  Registered = {"driver"}
  THREAD_MAX = 2
  MaxPosts = 2
  MaxFaults = 1
  NotRead = NotRead
SPECIFICATION ChannelSpec
INVARIANTS LinesAccounted
PROPERTIES NewsOnlyForward LinesShown
CHECK_DEADLOCK FALSE
