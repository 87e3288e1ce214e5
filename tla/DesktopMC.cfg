SPECIFICATION Spec
INVARIANTS FocusIsLive   
  MessagesAreWhole FramesHaveEntries
CHECK_DEADLOCK FALSE
