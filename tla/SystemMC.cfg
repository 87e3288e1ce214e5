SPECIFICATION Spec
INVARIANTS FilesStayAndAreListed TypedTextIsKept ToolsComputeTheirMeaning 
     DevicesDoWhatWasAsked
  ScreenIsWhatWasDrawn  
 
CHECK_DEADLOCK FALSE
