CONSTANTS
  Inputs = {0, 1}
  Interval = 1
  MaxCommands = 3
  MaxResets = 1
  RumbleLimit = 2
  SilenceTail = 2
  RumbleDrops = 2
  MaxFailures = 1
  MaxChanges = 2
  Groups = {"led", "power"}
  Held = {"power"}
  OutputDrops = 1
  Debounce = 1
  Long = 3
  Release = 1
  MaxFlashes = 2
  Capacity = 2
  MicFrames = 7
  SpeakerFrames = 6
SPECIFICATION Spec
INVARIANTS
  TypeOK
  ConversionsSound
  NothingIsLost
PROPERTIES
  RumbleEnds
  HostIsServed
  OutputArrives
  KeysComeUp
  LedSettles
  AudioPathsAreLossyQueues
  ControllerIsShown
