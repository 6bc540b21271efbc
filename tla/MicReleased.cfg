SPECIFICATION VoiceSpec
CONSTANTS
  Activations = {a1}
  Nobody = Nobody
INVARIANTS MicReleased
CHECK_DEADLOCK FALSE
