\* Nothing goes wrong.
CONSTANTS
  Clip = {c1}
  NoClip = NoClip
  MaxDeliveries = 1
  MaxTries = 1
  TranscodeFaults = {}
SPECIFICATION TranscodeSpec
PROPERTY
  HighlightsServed
CHECK_DEADLOCK FALSE
