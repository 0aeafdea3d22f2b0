\* Two clips, each announced twice, the trigger raising and jobs failing.
CONSTANTS
  Clip = {c1, c2}
  NoClip = NoClip
  MaxDeliveries = 2
  MaxTries = 2
  TranscodeFaults = {"raise", "job"}
SPECIFICATION TranscodeSpec
INVARIANTS
  TranscodeTypeOK
  NeverTriggersItself
  OutputsOwnClip
  NoClipForgotten
PROPERTY
  ClipsConclude
CHECK_DEADLOCK FALSE
