\* All videos of up to six frames at two frames per second.
CONSTANTS
  Frame <- MCFrame
  MaxFrames = 6
  Fps = 2
  window_size = 2
  motion_threshold = 8
  high_motion_threshold = 18
  cooldown_sec = 2
  clip_before_sec = 1
  clip_after_sec = 1
  goal_zone_x_max = 15
  goal_zone_x_min_2 = 85
  corner_zone_size = 15
  goal_zone_player_threshold = 4
SPECIFICATION AnalyzerSpec
INVARIANTS
  AnalyzerTypeOK
  CandidatesAreGreedy
  BestKept
  ClipsApart
  ClipsCredible
  ClipsPlayable
CHECK_DEADLOCK FALSE
