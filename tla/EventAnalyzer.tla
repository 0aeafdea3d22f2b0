--------------------------- MODULE EventAnalyzer ---------------------------
(* EventAnalyzer.analyze, which turns the frames of a video into highlight   *)
(* events: score and classify every frame, emit candidates with a cooldown   *)
(* per event type, merge candidates whose clips overlap.  One step per       *)
(* iteration of its two loops.  Times are counted in frames, scores in       *)
(* 150ths, confidences in percent (a frame's) and thousandths (an event's).  *)
EXTENDS Integers, Sequences, FiniteSets, FiniteSetsExt

CONSTANTS
  Frame, MaxFrames,     \* the frames a video is made of; bound on its length
  Fps,                  \* frames per second, a whole number
  (* AnalyzerConfig: *)
  window_size, motion_threshold, high_motion_threshold, cooldown_sec,
  clip_before_sec, clip_after_sec, goal_zone_x_max, goal_zone_x_min_2,
  corner_zone_size, goal_zone_player_threshold

EventType == {"goal", "shot", "corner_kick", "fast_break", "foul"}

NoBall == [x |-> -1, y |-> -1, confidence |-> 0]

(* What analyze reads of a FrameSnapshot; the detector sets has_ball exactly *)
(* when it sets the ball's coordinates, and player_count is the number of    *)
(* player positions.                                                         *)
FrameSnapshot ==
  [motion_score : Nat,
   ball : [x : 0..100, y : 0..100, confidence : 0..100] \cup {NoBall},
   players : Seq(0..100)]

ASSUME AnalyzerAssumptions ==
  /\ MaxFrames \in Nat
  /\ Fps \in Nat \ {0}
  /\ \A n \in {window_size, motion_threshold, high_motion_threshold,
               cooldown_sec, clip_before_sec, clip_after_sec,
               goal_zone_x_max, goal_zone_x_min_2, corner_zone_size,
               goal_zone_player_threshold} : n \in Nat
  /\ clip_after_sec > 0
  /\ cooldown_sec <= 9999
  /\ Frame \subseteq FrameSnapshot

VARIABLES
  frames,       \* the video
  next,         \* the frame _find_event_candidates looks at next
  last_event,   \* when it last emitted an event of a type
  candidates,   \* what it has emitted
  todo,         \* candidates _merge_candidates has not looked at
  merged,       \* its results but the last
  current       \* its last result, which may still grow

analyzerVars == <<frames, next, last_event, candidates, todo, merged, current>>

(* The first loop keeps its hands off the second's variables and vice versa. *)
mergeVars == <<todo, merged, current>>
scanVars == <<frames, next, last_event, candidates>>

Lower(a, b) == IF a <= b THEN a ELSE b
Higher(a, b) == IF a >= b THEN a ELSE b
-----------------------------------------------------------------------------
(* _compute_rolling_scores                                                   *)

HasBall(f) == f.ball # NoBall

InGoalZone(x) == x <= goal_zone_x_max \/ x >= goal_zone_x_min_2

PlayersInGoal(f) == Cardinality({k \in DOMAIN f.players : InGoalZone(f.players[k])})

RawScore(f) ==
  Lower(50 * f.motion_score, 1500)
    + (IF HasBall(f) THEN 450 + Lower(3 * f.ball.confidence, 300) ELSE 0)
    + (IF PlayersInGoal(f) >= goal_zone_player_threshold
       THEN Lower(120 * PlayersInGoal(f), 750) ELSE 0)

Window(fs, i) == Higher(1, i - window_size \div 2)..Lower(Len(fs), i + window_size \div 2)

(* The smoothed score of frame i of fs is WindowSum / Cardinality(Window).  *)
WindowSum(fs, i) == MapThenSumSet(LAMBDA k : RawScore(fs[k]), Window(fs, i))

Hot(fs, i) == WindowSum(fs, i) >= 150 * motion_threshold * Cardinality(Window(fs, i))

(* min(1, score / 20), rounded to three places *)
Confidence(fs, i) ==
  LET n == 3 * Cardinality(Window(fs, i))
  IN  Lower(1000, (2 * WindowSum(fs, i) + n) \div (2 * n))
-----------------------------------------------------------------------------
(* _classify_event                                                           *)

InCornerZone(ball) ==
  \E cx \in {0, 100}, cy \in {0, 100} :
    /\ ball.x - cx \in -corner_zone_size..corner_zone_size
    /\ ball.y - cy \in -corner_zone_size..corner_zone_size

(* The ball moved faster than speed since five frames ago. *)
BallFasterThan(fs, speed, i) ==
  LET before == Higher(1, i - 5)
      a == fs[before].ball
      b == fs[i].ball
  IN  /\ before < i /\ a # NoBall /\ b # NoBall
      /\ ((b.x - a.x) * (b.x - a.x) + (b.y - a.y) * (b.y - a.y)) * Fps * Fps
           > speed * speed * (i - before) * (i - before)

Classify(fs, i) ==
  LET f == fs[i]
  IN  CASE ~HasBall(f) -> "foul"
        [] HasBall(f) ->
             IF f.motion_score >= high_motion_threshold /\ InGoalZone(f.ball.x)
                  /\ PlayersInGoal(f) >= goal_zone_player_threshold
             THEN "goal"
             ELSE IF f.ball.confidence >= 50 /\ BallFasterThan(fs, 5, i)
                       /\ f.motion_score >= motion_threshold
             THEN "shot"
             ELSE IF InCornerZone(f.ball) /\ Len(f.players) >= 2
             THEN "corner_kick"
             ELSE IF f.motion_score >= high_motion_threshold
                       /\ BallFasterThan(fs, 3, i) /\ Len(f.players) <= 4
             THEN "fast_break"
             ELSE "foul"
-----------------------------------------------------------------------------
(* _find_event_candidates                                                    *)

Time(i) == i - 1

(* Before any event: the -9999 s of last_event_sec.get. *)
Never == -(9999 * Fps)

(* Mutant: a clip may start before its video. *)
CandidateUnclamped(fs, i) ==
  [event_type |-> Classify(fs, i), peak |-> Time(i), confidence |-> Confidence(fs, i),
   start |-> Time(i) - clip_before_sec * Fps,
   end |-> Time(i) + clip_after_sec * Fps]

CandidateAt(fs, i) ==
  [event_type |-> Classify(fs, i), peak |-> Time(i), confidence |-> Confidence(fs, i),
   start |-> Higher(0, Time(i) - clip_before_sec * Fps),
   end |-> Time(i) + clip_after_sec * Fps]

(* Mutant: the cooldown lasts one frame longer. *)
InCooldownInclusive(i) ==
  Time(i) - last_event[Classify(frames, i)] <= cooldown_sec * Fps

InCooldown(i) == Time(i) - last_event[Classify(frames, i)] < cooldown_sec * Fps

PassOver ==
  /\ next <= Len(frames)
  /\ ~Hot(frames, next) \/ InCooldown(next)
  /\ next' = next + 1
  /\ UNCHANGED <<frames, last_event, candidates, mergeVars>>

Emit ==
  /\ next <= Len(frames)
  /\ Hot(frames, next)
  /\ ~InCooldown(next)
  /\ candidates' = candidates \cup {CandidateAt(frames, next)}
  /\ last_event' = [last_event EXCEPT ![Classify(frames, next)] = Time(next)]
  /\ next' = next + 1
  /\ UNCHANGED <<frames, mergeVars>>
-----------------------------------------------------------------------------
(* _merge_candidates                                                         *)

(* No candidate has been merged yet. *)
NoClip ==
  [event_type |-> "none", peak |-> -1, confidence |-> 0, start |-> 0, end |-> 0]

Result == merged \cup ({current} \ {NoClip})

(* What the sort by peak_timestamp_sec puts first. *)
IsNextOf(c, cs) == c \in cs /\ \A d \in cs : c.peak <= d.peak

Overlap(a, b) == Higher(0, Lower(a.end, b.end) - Higher(a.start, b.start))

(* Mutant: a candidate is merged only when the other clip contains it. *)
OverlapsWholly(a, c) == c.end - c.start > 0 /\ Overlap(a, c) >= c.end - c.start

OverlapsMostly(a, c) == c.end - c.start > 0 /\ 2 * Overlap(a, c) > c.end - c.start

(* Mutant: the earlier event wins, whatever its confidence. *)
MergeKeepsFirst(a, c) ==
  [event_type |-> a.event_type, peak |-> a.peak, confidence |-> a.confidence,
   start |-> Lower(a.start, c.start), end |-> Higher(a.end, c.end)]

(* Mutant: the higher confidence is given to the earlier event. *)
MergeMixed(a, c) ==
  [event_type |-> a.event_type, peak |-> a.peak,
   confidence |-> Higher(a.confidence, c.confidence),
   start |-> Lower(a.start, c.start), end |-> Higher(a.end, c.end)]

(* The more confident event, with the boundaries of both. *)
Merge(a, c) ==
  LET best == IF c.confidence > a.confidence THEN c ELSE a
  IN  [event_type |-> best.event_type, peak |-> best.peak,
       confidence |-> best.confidence,
       start |-> Lower(a.start, c.start), end |-> Higher(a.end, c.end)]

StartMerge ==
  /\ next > Len(frames)
  /\ current = NoClip
  /\ \E c \in candidates :
       /\ IsNextOf(c, candidates)
       /\ current' = c
       /\ todo' = candidates \ {c}
  /\ UNCHANGED <<scanVars, merged>>

MergeInto ==
  \E c \in todo :
    /\ IsNextOf(c, todo)
    /\ OverlapsMostly(current, c)
    /\ current' = Merge(current, c)
    /\ todo' = todo \ {c}
    /\ UNCHANGED <<scanVars, merged>>

KeepApart ==
  \E c \in todo :
    /\ IsNextOf(c, todo)
    /\ ~OverlapsMostly(current, c)
    /\ merged' = merged \cup {current}
    /\ current' = c
    /\ todo' = todo \ {c}
    /\ UNCHANGED scanVars
-----------------------------------------------------------------------------
AnalyzerInit ==
  /\ frames \in UNION {[1..n -> Frame] : n \in 0..MaxFrames}
  /\ next = 1
  /\ last_event = [e \in EventType |-> Never]
  /\ candidates = {}
  /\ todo = {}
  /\ merged = {}
  /\ current = NoClip

AnalyzerNext == PassOver \/ Emit \/ StartMerge \/ MergeInto \/ KeepApart

AnalyzerSpec == AnalyzerInit /\ [][AnalyzerNext]_analyzerVars
-----------------------------------------------------------------------------
(* process_video and export_clip: what is cut out of the video.              *)

(* duration_sec, in whole seconds. *)
Duration == (Len(frames) \div Fps) * Fps

LastExported(m) == Higher(m.start, Lower(m.end, Duration))

(* Mutant: the loop stops before the clip's last frame. *)
ExportedExclusive(m) ==
  {t \in m.start..LastExported(m) - 1 : t < Len(frames)}

(* The frames copied into the clip of a result. *)
Exported(m) == {t \in m.start..LastExported(m) : t < Len(frames)}
-----------------------------------------------------------------------------
(* Properties.                                                               *)

Clip ==
  [event_type : EventType, peak : Nat, confidence : 0..1000, start : Nat, end : Nat]

AnalyzerTypeOK ==
  /\ frames \in Seq(Frame)
  /\ next \in 1..Len(frames) + 1
  /\ last_event \in [EventType -> Nat \cup {Never}]
  /\ candidates \in SUBSET Clip
  /\ todo \in SUBSET Clip
  /\ merged \in SUBSET Clip
  /\ current \in Clip \cup {NoClip}

Emitted(i) == \E c \in candidates : c.peak = Time(i)

Due(i) ==
  /\ Hot(frames, i)
  /\ \A c \in candidates :
       c.event_type = Classify(frames, i) /\ c.peak < Time(i)
         => Time(i) - c.peak >= cooldown_sec * Fps

(* The loop with its table of last events computes what a reader expects of *)
(* a cooldown: a hot frame is emitted unless an event of its type was        *)
(* emitted less than cooldown_sec before it.  This determines the candidates. *)
CandidatesAreGreedy == \A i \in 1..next - 1 : Emitted(i) <=> Due(i)

Covers(m, c) == m.start <= c.start /\ c.end <= m.end

(* Candidates that have been merged. *)
Taken == IF current = NoClip THEN {} ELSE candidates \ todo

(* However long a chain of merges gets, every candidate's clip lies inside a *)
(* resulting clip that is at least as confident.                             *)
BestKept ==
  \A c \in Taken : \E m \in Result : Covers(m, c) /\ m.confidence >= c.confidence

(* Although merging extends clips on both sides, no two results have the     *)
(* same peak (nor the same event id), and the later one of two shares at     *)
(* most half of itself with the earlier one.                                 *)
ClipsApart ==
  \A m, n \in Result : m # n =>
    /\ m.peak # n.peak
    /\ m.peak < n.peak => 2 * Overlap(m, n) <= n.end - n.start

(* A result is still an event that happened: the type, time and confidence   *)
(* of one candidate, inside the clip.                                        *)
ClipsCredible ==
  \A m \in Result : \E c \in candidates :
    /\ <<c.event_type, c.peak, c.confidence>> = <<m.event_type, m.peak, m.confidence>>
    /\ Covers(m, c)

(* Although the duration is truncated to whole seconds before the clip is    *)
(* cut to it, no exported clip is empty, and none ends as much as a second   *)
(* before the moment it shows.                                               *)
ClipsPlayable ==
  \A m \in Result : \E t \in Exported(m) : t <= m.peak /\ m.peak < t + Fps
=============================================================================
