CONSTANTS
  Settings = {"prompt", "harsh"}
  MaxKills = 2
SPECIFICATION AllSpec
INVARIANT ToolsRight
PROPERTIES SipcNoFalseText SipcAnswered TakesTurns FifoServed Rings PipelineEnds Lists
CHECK_DEADLOCK FALSE
