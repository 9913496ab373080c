SPECIFICATION Spec
CONSTANTS
  Tool = {"generate_image", "generate_speech", "generate_audio", "generate_3d", "send_file", "web_search", "transcribe_audio", "unknown"}
  Rounds = 2
  MaxCalls = 2
INVARIANTS
  GeneratorsMakeOnce
  SingleStageDelivers
  PromptsAreTheCallers
CHECK_DEADLOCK FALSE
