------------------------- MODULE EventAnalyzerProofs -------------------------
(* Proofs about EventAnalyzer, for videos of any length and content and      *)
(* every setting of AnalyzerConfig.                                          *)
EXTENDS EventAnalyzer, SetSums

(* The paddings and the cooldown, in frames. *)
Before == clip_before_sec * Fps
After == clip_after_sec * Fps
Cooldown == cooldown_sec * Fps

LEMMA ProductBound ==
  ASSUME NEW a \in Nat, NEW b \in Nat, NEW n \in Nat, a <= b
  PROVE  a * n \in Nat /\ b * n \in Nat /\ a * n <= b * n
BY SMT

LEMMA Paddings ==
  /\ Before \in Nat /\ After \in Nat /\ Cooldown \in Nat
  /\ Fps <= After
  /\ Never \in Int /\ Never + Cooldown <= 0
<1>1. /\ clip_before_sec \in Nat /\ clip_after_sec \in Nat /\ cooldown_sec \in Nat
      /\ Fps \in Nat /\ 1 <= clip_after_sec /\ cooldown_sec <= 9999
  BY AnalyzerAssumptions
<1>2. Before \in Nat
  BY <1>1, ProductBound DEF Before
<1>3. After \in Nat /\ 1 * Fps <= After
  BY <1>1, ProductBound DEF After
<1>4. Cooldown \in Nat /\ 9999 * Fps \in Nat /\ Cooldown <= 9999 * Fps
  BY <1>1, ProductBound DEF Cooldown
<1> QED
  BY <1>1, <1>2, <1>3, <1>4 DEF Never

(* Every frame is classified as one of the five types. *)
LEMMA ClassifyType ==
  ASSUME NEW fs, NEW i
  PROVE  Classify(fs, i) \in EventType
BY DEF Classify, EventType

(* What is known of the clip of a candidate. *)
Fits(c) ==
  /\ c.event_type \in EventType
  /\ c.peak \in Nat /\ c.start \in Nat /\ c.end \in Nat
  /\ c.start = Higher(0, c.peak - Before)
  /\ c.end = c.peak + After

LEMMA CandidateFits ==
  ASSUME NEW fs, NEW i \in Nat \ {0}
  PROVE  /\ Fits(CandidateAt(fs, i))
         /\ CandidateAt(fs, i).peak = i - 1
         /\ CandidateAt(fs, i).event_type = Classify(fs, i)
<1>1. Classify(fs, i) \in EventType
  BY ClassifyType
<1>2. Higher(0, (i - 1) - Before) \in Nat /\ (i - 1) + After \in Nat
  BY Paddings DEF Higher
<1> QED
  BY <1>1, <1>2 DEF CandidateAt, Fits, Time, Before, After

(* Later clips start and end later. *)
LEMMA FitsMonotone ==
  ASSUME NEW c, NEW d, Fits(c), Fits(d), c.peak <= d.peak
  PROVE  c.start <= d.start /\ c.end <= d.end
BY Paddings DEF Fits, Higher
-----------------------------------------------------------------------------
(* The first loop.                                                           *)

(* Candidates are those of frames passed, so that a peak determines its      *)
(* candidate; the table holds the latest peak of each type.                  *)
CandidatesOfFrames ==
  \A c \in candidates : \E i \in 1..next - 1 : c = CandidateAt(frames, i)

LastEventsKnown ==
  /\ last_event \in [EventType -> Nat \cup {Never}]
  /\ \A c \in candidates : c.peak <= last_event[c.event_type]
  /\ \A e \in EventType : last_event[e] = Never \/
       \E c \in candidates : c.event_type = e /\ c.peak = last_event[e]

ScanInv ==
  /\ frames \in Seq(Frame)
  /\ next \in 1..Len(frames) + 1
  /\ CandidatesOfFrames
  /\ LastEventsKnown
  /\ CandidatesAreGreedy

LEMMA CandidatesFit ==
  ASSUME ScanInv
  PROVE  /\ \A c \in candidates : Fits(c) /\ c.peak < next - 1 /\ c # NoClip
         /\ \A c, d \in candidates : c.peak = d.peak => c = d
<1>1. next \in Nat
  BY DEF ScanInv
<1>2. ASSUME NEW c \in candidates
      PROVE  /\ Fits(c) /\ c.peak < next - 1 /\ c # NoClip
             /\ c.peak + 1 \in Nat /\ c = CandidateAt(frames, c.peak + 1)
  <2>1. PICK i \in 1..next - 1 : c = CandidateAt(frames, i)
    BY DEF ScanInv, CandidatesOfFrames
  <2>2. i \in Nat \ {0} /\ i - 1 + 1 = i
    BY <1>1, <2>1
  <2>3. Fits(c) /\ c.peak = i - 1
    BY <2>1, <2>2, CandidateFits
  <2>4. c # NoClip
    BY <2>3 DEF Fits, NoClip, EventType
  <2> QED
    BY <1>1, <2>1, <2>2, <2>3, <2>4
<1> QED
  BY <1>2

LEMMA ScanInvInit == AnalyzerInit => ScanInv
<1> SUFFICES ASSUME AnalyzerInit PROVE ScanInv
  OBVIOUS
<1>1. PICK n \in 0..MaxFrames : frames \in [1..n -> Frame]
  BY DEF AnalyzerInit
<1>2. frames \in Seq(Frame) /\ Len(frames) \in Nat
  BY <1>1
<1> QED
  BY <1>2 DEF AnalyzerInit, ScanInv, CandidatesOfFrames, LastEventsKnown,
              CandidatesAreGreedy

LEMMA NeverIsCool ==
  ASSUME NEW now \in Nat, NEW last \in Int, now - last < Cooldown
  PROVE  last # Never
BY Paddings

(* The table and the candidates agree on who is still cooling down. *)
LEMMA DueIsCool ==
  ASSUME ScanInv, next <= Len(frames)
  PROVE  Due(next) <=> Hot(frames, next) /\ ~InCooldown(next)
<1> DEFINE e == Classify(frames, next)
           now == Time(next)
           last == last_event[e]
<1>1. e \in EventType /\ now \in Nat /\ now = next - 1
  BY ClassifyType DEF ScanInv, Time
<1>2. last \in Int
  BY <1>1, Paddings DEF ScanInv, LastEventsKnown
<1>3. \A c \in candidates : c.peak \in Nat /\ c.peak < now
  BY <1>1, CandidatesFit DEF Fits
<1>4. \A c \in candidates : c.event_type = e => c.peak <= last
  BY DEF ScanInv, LastEventsKnown
<1>5. last = Never \/ \E c \in candidates : c.event_type = e /\ c.peak = last
  BY <1>1 DEF ScanInv, LastEventsKnown
<1>6. InCooldown(next) <=> now - last < Cooldown
  BY DEF InCooldown, Cooldown
<1>7. Due(next) <=> /\ Hot(frames, next)
                    /\ \A c \in candidates :
                         c.event_type = e /\ c.peak < now => now - c.peak >= Cooldown
  BY DEF Due, Cooldown
<1> HIDE DEF e, now, last
<1>8. ASSUME now - last < Cooldown
      PROVE  \E c \in candidates :
               c.event_type = e /\ c.peak < now /\ ~(now - c.peak >= Cooldown)
  <2>1. PICK c \in candidates : c.event_type = e /\ c.peak = last
    BY <1>1, <1>2, <1>5, <1>8, NeverIsCool
  <2>2. ~(now - c.peak >= Cooldown)
    BY <1>1, <1>3, <1>8, <2>1, Paddings
  <2> QED
    BY <1>3, <2>1, <2>2
<1>9. ASSUME NEW c \in candidates, c.event_type = e, ~(now - c.peak >= Cooldown)
      PROVE  now - last < Cooldown
  <2>1. c.peak \in Nat /\ c.peak <= last
    BY <1>3, <1>4, <1>9
  <2>2. now \in Int /\ last \in Int /\ c.peak \in Int /\ Cooldown \in Int
    BY <1>1, <1>2, <2>1, Paddings
  <2>3. ~(now - c.peak >= Cooldown)
    BY <1>9
  <2>4. now - c.peak < Cooldown
    BY <2>2, <2>3
  <2>5. now - last <= now - c.peak
    BY <2>1, <2>2
  <2> QED
    BY <2>2, <2>4, <2>5
<1> QED
  BY <1>6, <1>7, <1>8, <1>9

LEMMA PassOverKeeps ==
  ASSUME ScanInv, PassOver
  PROVE  ScanInv'
<1>1. /\ frames' = frames /\ candidates' = candidates /\ last_event' = last_event
      /\ next' = next + 1 /\ next <= Len(frames)
  BY DEF PassOver
<1>2. frames \in Seq(Frame) /\ Len(frames) \in Nat /\ next \in 1..Len(frames) + 1
  BY DEF ScanInv
<1>3. CandidatesOfFrames'
  BY <1>1, <1>2 DEF ScanInv, CandidatesOfFrames
<1>4. LastEventsKnown'
  BY <1>1 DEF ScanInv, LastEventsKnown
<1>5. ~Emitted(next)
  BY <1>2, CandidatesFit DEF Fits, Time, Emitted
<1>6. CandidatesAreGreedy'
  <2>1. \A i \in 1..next : Emitted(i) <=> Due(i)
    <3> SUFFICES ASSUME NEW i \in 1..next
                 PROVE  Emitted(i) <=> Due(i)
      OBVIOUS
    <3>1. CASE i \in 1..next - 1
      BY <3>1 DEF ScanInv, CandidatesAreGreedy
    <3>2. CASE i = next
      BY <1>1, <1>5, <3>2, DueIsCool DEF PassOver
    <3> QED
      BY <1>2, <3>1, <3>2
  <2>2. \A i \in 1..next : Emitted(i)' <=> Due(i)'
    BY <1>1, <2>1 DEF Emitted, Due
  <2>3. next' - 1 = next
    BY <1>1, <1>2
  <2> QED
    BY <2>2, <2>3 DEF CandidatesAreGreedy
<1> QED
  BY <1>1, <1>2, <1>3, <1>4, <1>6 DEF ScanInv

LEMMA EmitKeeps ==
  ASSUME ScanInv, Emit
  PROVE  ScanInv'
<1> DEFINE new == CandidateAt(frames, next)
           e == Classify(frames, next)
<1>1. /\ frames' = frames /\ candidates' = candidates \cup {new}
      /\ last_event' = [last_event EXCEPT ![e] = Time(next)]
      /\ next' = next + 1 /\ next <= Len(frames)
  BY DEF Emit
<1>2. /\ frames \in Seq(Frame) /\ Len(frames) \in Nat
      /\ next \in Nat \ {0} /\ next + 1 \in 1..Len(frames) + 1
  BY <1>1 DEF ScanInv
<1>3. Fits(new) /\ new.peak = Time(next) /\ new.event_type = e /\ e \in EventType
  BY <1>2, CandidateFits, ClassifyType DEF Time
<1>4. \A c \in candidates : Fits(c) /\ c.peak < Time(next)
  BY CandidatesFit DEF Time
<1>5. CandidatesOfFrames'
  BY <1>1, <1>2 DEF ScanInv, CandidatesOfFrames
<1>6. LastEventsKnown'
  <2> HIDE DEF new, e
  <2>1. last_event' \in [EventType -> Nat \cup {Never}]
    BY <1>1, <1>2, <1>3 DEF ScanInv, LastEventsKnown, Time
  <2>2. \A t \in EventType : last_event'[t] = IF t = e THEN Time(next) ELSE last_event[t]
    BY <1>1 DEF ScanInv, LastEventsKnown
  <2>3. ASSUME NEW c \in candidates'
        PROVE  c.peak <= last_event'[c.event_type]
    <3>1. CASE c = new
      BY <1>2, <1>3, <2>2, <3>1 DEF Time
    <3>2. CASE c \in candidates
      <4>1. /\ c.event_type \in EventType /\ c.peak \in Nat /\ c.peak < Time(next)
            /\ c.peak <= last_event[c.event_type]
        BY <1>4, <3>2 DEF Fits, ScanInv, LastEventsKnown
      <4> QED
        BY <1>2, <2>2, <4>1 DEF Time
    <3> QED
      BY <1>1, <3>1, <3>2
  <2>4. ASSUME NEW t \in EventType, last_event'[t] # Never
        PROVE  \E c \in candidates' : c.event_type = t /\ c.peak = last_event'[t]
    <3>1. CASE t = e
      BY <1>1, <1>3, <2>2, <3>1
    <3>2. CASE t # e
      BY <1>1, <2>2, <2>4, <3>2 DEF ScanInv, LastEventsKnown
    <3> QED
      BY <3>1, <3>2
  <2> QED
    BY <2>1, <2>3, <2>4 DEF LastEventsKnown
<1>7. CandidatesAreGreedy'
  <2>1. Due(next)
    BY <1>1, DueIsCool DEF Emit
  <2>2. Time(next) \in Nat /\ \A i \in 1..next : Time(i) \in Nat /\ Time(i) <= Time(next)
    BY <1>2 DEF Time
  <2> HIDE DEF new, e
  <2>3. \A i \in 1..next : Due(i)' <=> Due(i)
    <3> SUFFICES ASSUME NEW i \in 1..next
                 PROVE  Due(i)' <=> Due(i)
      OBVIOUS
    <3>1. ~(new.peak < Time(i))
      BY <1>3, <2>2
    <3> QED
      BY <1>1, <3>1 DEF Due
  <2>4. \A i \in 1..next - 1 : Emitted(i)' <=> Emitted(i)
    <3>1. \A i \in 1..next - 1 : new.peak # Time(i)
      BY <1>2, <1>3 DEF Time
    <3> QED
      BY <1>1, <3>1 DEF Emitted
  <2>5. \A i \in {next} : Emitted(i)'
    BY <1>1, <1>3 DEF Emitted
  <2>6. \A i \in 1..next : Emitted(i)' <=> Due(i)'
    <3> SUFFICES ASSUME NEW i \in 1..next
                 PROVE  Emitted(i)' <=> Due(i)'
      OBVIOUS
    <3>1. CASE i \in 1..next - 1
      BY <2>3, <2>4, <3>1 DEF ScanInv, CandidatesAreGreedy
    <3>2. CASE i = next
      BY <2>1, <2>3, <2>5, <3>2
    <3> QED
      BY <1>2, <3>1, <3>2
  <2>7. next' - 1 = next
    BY <1>1, <1>2
  <2> QED
    BY <2>6, <2>7 DEF CandidatesAreGreedy
<1> QED
  BY <1>1, <1>2, <1>5, <1>6, <1>7 DEF ScanInv

LEMMA ScanInvStep == ScanInv /\ [AnalyzerNext]_analyzerVars => ScanInv'
<1> SUFFICES ASSUME ScanInv, [AnalyzerNext]_analyzerVars PROVE ScanInv'
  OBVIOUS
<1>1. CASE UNCHANGED scanVars
  BY <1>1 DEF scanVars, ScanInv, CandidatesOfFrames, LastEventsKnown,
              CandidatesAreGreedy, Emitted, Due
<1>2. PassOver \/ Emit \/ UNCHANGED scanVars
  BY DEF AnalyzerNext, StartMerge, MergeInto, KeepApart, analyzerVars, scanVars
<1> QED
  BY <1>1, <1>2, PassOverKeeps, EmitKeeps

(* The loop over the frames computes the cooldown a reader expects, for      *)
(* every video: its table of last events forgets nothing that matters.       *)
THEOREM CooldownIsRight == AnalyzerSpec => []CandidatesAreGreedy
<1>1. AnalyzerSpec => []ScanInv
  BY ScanInvInit, ScanInvStep, PTL DEF AnalyzerSpec
<1>2. ScanInv => CandidatesAreGreedy
  BY DEF ScanInv
<1> QED
  BY <1>1, <1>2, PTL
-----------------------------------------------------------------------------
(* The second loop.                                                          *)

Spans(m) ==
  /\ m.event_type \in EventType
  /\ m.peak \in Nat /\ m.start \in Nat /\ m.end \in Nat

Precedes(m, n) == m.peak < n.peak /\ m.start <= n.start /\ m.end <= n.end

Separate(m, n) == 2 * Overlap(m, n) <= n.end - n.start

(* Results come in the order of their peaks and clips, before everything     *)
(* that is still to do; each is separate from those that came before it.     *)
MergeInv ==
  /\ todo \subseteq candidates
  /\ current = NoClip => merged = {} /\ todo = {}
  /\ current # NoClip => next > Len(frames)
  /\ \A m \in Result : Spans(m)
  /\ \A m \in Result, c \in todo : Precedes(m, c)
  /\ \A m \in merged : Precedes(m, current) /\ Separate(m, current)
  /\ \A m, n \in merged : m # n =>
       m.peak # n.peak /\ (m.peak < n.peak => Separate(m, n))

LEMMA FitsSpans ==
  ASSUME NEW c, Fits(c)
  PROVE  Spans(c) /\ c # NoClip /\ c.start <= c.peak /\ c.peak + After = c.end
                  /\ c.start < c.end
<1>1. Spans(c)
  BY DEF Fits, Spans
<1>2. c # NoClip
  BY DEF Fits, NoClip, EventType
<1>3. c.start <= c.peak /\ c.peak + After = c.end
  BY Paddings DEF Fits, Higher
<1>4. After \in Nat /\ 1 <= After
  BY Paddings, AnalyzerAssumptions
<1> QED
  BY <1>1, <1>2, <1>3, <1>4 DEF Spans

LEMMA MergeSpans ==
  ASSUME NEW a, Spans(a), NEW c, Fits(c), Precedes(a, c)
  PROVE  /\ Spans(Merge(a, c)) /\ Merge(a, c) # NoClip
         /\ Merge(a, c).start = a.start /\ Merge(a, c).end = c.end
         /\ Merge(a, c).peak \in {a.peak, c.peak}
<1>1. Lower(a.start, c.start) = a.start /\ Higher(a.end, c.end) = c.end
  BY DEF Spans, Fits, Precedes, Lower, Higher
<1>2. Spans(Merge(a, c))
  BY <1>1 DEF Merge, Spans, Fits
<1>3. Merge(a, c) # NoClip
  BY <1>2 DEF Spans, NoClip, EventType
<1> QED
  BY <1>1, <1>2, <1>3 DEF Merge

(* An extended clip stays separate from the results before it: it grows at   *)
(* its end, where they do not reach.                                         *)
LEMMA MergeStaysSeparate ==
  ASSUME NEW m, Spans(m), NEW a, Spans(a), NEW c, Fits(c),
         Precedes(m, a), Separate(m, a), Precedes(a, c)
  PROVE  Precedes(m, Merge(a, c)) /\ Separate(m, Merge(a, c))
<1> DEFINE n == Merge(a, c)
<1>1. n.start = a.start /\ n.end = c.end /\ n.peak \in {a.peak, c.peak}
  BY MergeSpans
<1>2. /\ c.peak \in Nat /\ c.end \in Nat
      /\ m.peak \in Nat /\ m.start \in Nat /\ m.end \in Nat
      /\ a.peak \in Nat /\ a.start \in Nat /\ a.end \in Nat
  BY DEF Spans, Fits
<1> HIDE DEF n
<1>3. Precedes(m, n)
  BY <1>1, <1>2 DEF Precedes
<1>4. Lower(m.end, n.end) = m.end /\ Lower(m.end, a.end) = m.end
  BY <1>1, <1>2 DEF Precedes, Lower
<1>5. Overlap(m, n) = Overlap(m, a)
  BY <1>1, <1>4 DEF Overlap
<1>6. Overlap(m, a) \in Nat
  BY <1>2 DEF Overlap, Higher, Lower
<1>7. Separate(m, n)
  BY <1>1, <1>2, <1>5, <1>6 DEF Separate, Precedes
<1> QED
  BY <1>3, <1>7 DEF n

(* A candidate that overlaps the last result too little to be merged         *)
(* overlaps the earlier ones even less.                                      *)
LEMMA KeptIsSeparate ==
  ASSUME NEW m, Spans(m), NEW a, Spans(a), NEW c, Fits(c),
         m.end <= a.end, Precedes(m, c), Precedes(a, c), ~OverlapsMostly(a, c)
  PROVE  Separate(m, c)
<1>1. /\ c.peak \in Nat /\ c.start \in Nat /\ c.end \in Nat /\ c.start < c.end
      /\ m.start \in Nat /\ m.end \in Nat /\ a.start \in Nat /\ a.end \in Nat
  BY FitsSpans DEF Spans
<1>2. Higher(m.start, c.start) = c.start /\ Higher(a.start, c.start) = c.start
  BY <1>1 DEF Precedes, Higher
<1>3. Lower(m.end, c.end) = m.end /\ Lower(a.end, c.end) = a.end
  BY <1>1 DEF Precedes, Lower
<1>4. Overlap(m, c) <= Overlap(a, c) /\ Overlap(m, c) \in Nat /\ Overlap(a, c) \in Nat
  BY <1>1, <1>2, <1>3 DEF Overlap, Higher
<1>5. 2 * Overlap(a, c) <= c.end - c.start
  BY <1>1, <1>4 DEF OverlapsMostly
<1> QED
  BY <1>1, <1>4, <1>5 DEF Separate

(* The sort puts the others after the first, and so are their clips.         *)
LEMMA FirstPrecedes ==
  ASSUME ScanInv, NEW cs \in SUBSET candidates, NEW c, IsNextOf(c, cs),
         NEW d \in cs, d # c
  PROVE  Precedes(c, d)
<1>1. c \in candidates /\ d \in candidates /\ c.peak <= d.peak
  BY DEF IsNextOf
<1>2. Fits(c) /\ Fits(d) /\ c.peak # d.peak
  BY <1>1, CandidatesFit
<1>3. c.peak \in Nat /\ d.peak \in Nat
  BY <1>2 DEF Fits
<1>4. c.start <= d.start /\ c.end <= d.end
  BY <1>1, <1>2, FitsMonotone
<1> QED
  BY <1>1, <1>2, <1>3, <1>4 DEF Precedes

LEMMA PrecedesTransitive ==
  ASSUME NEW a, Spans(a), NEW b, Spans(b), NEW c, Spans(c),
         Precedes(a, b), Precedes(b, c)
  PROVE  Precedes(a, c)
BY DEF Spans, Precedes

LEMMA MergeInvInit == AnalyzerInit => MergeInv
BY DEF AnalyzerInit, MergeInv, Result

(* While frames are left, nothing has been merged. *)
LEMMA ScanKeepsMerge ==
  ASSUME ScanInv, MergeInv, PassOver \/ Emit
  PROVE  MergeInv'
<1>1. next <= Len(frames) /\ UNCHANGED mergeVars
  BY DEF PassOver, Emit
<1>2. next \in Nat /\ Len(frames) \in Nat
  BY DEF ScanInv
<1>3. current = NoClip /\ merged = {} /\ todo = {}
  BY <1>1, <1>2 DEF MergeInv
<1> QED
  BY <1>1, <1>3 DEF MergeInv, Result, mergeVars

LEMMA StartMergeKeeps ==
  ASSUME ScanInv, MergeInv, StartMerge
  PROVE  MergeInv'
<1>1. PICK c \in candidates :
        IsNextOf(c, candidates) /\ current' = c /\ todo' = candidates \ {c}
  BY DEF StartMerge
<1>2. merged' = {} /\ next > Len(frames) /\ UNCHANGED scanVars
  BY DEF StartMerge, MergeInv
<1>3. Fits(c) /\ Spans(c) /\ c # NoClip
  BY CandidatesFit, FitsSpans
<1>4. Result' = {c}
  BY <1>1, <1>2, <1>3 DEF Result
<1>5. \A d \in todo' : Precedes(c, d)
  BY <1>1, FirstPrecedes
<1> QED
  BY <1>1, <1>2, <1>3, <1>4, <1>5 DEF MergeInv, scanVars

LEMMA MergeIntoKeeps ==
  ASSUME ScanInv, MergeInv, MergeInto
  PROVE  MergeInv'
<1>1. PICK c \in todo :
        /\ IsNextOf(c, todo) /\ current' = Merge(current, c) /\ todo' = todo \ {c}
        /\ UNCHANGED scanVars /\ merged' = merged
  BY DEF MergeInto
<1> DEFINE n == Merge(current, c)
<1>2. c \in candidates /\ Fits(c) /\ Spans(c)
  BY CandidatesFit, FitsSpans DEF MergeInv
<1>3. current # NoClip /\ current \in Result /\ merged \subseteq Result
  BY <1>1 DEF MergeInv, Result
<1>4. Spans(current) /\ Precedes(current, c)
  BY <1>3 DEF MergeInv
<1>5. Spans(n) /\ n # NoClip /\ n.start = current.start /\ n.end = c.end
      /\ n.peak \in {current.peak, c.peak}
  BY <1>2, <1>4, MergeSpans
<1>6. \A m \in merged : Precedes(m, n) /\ Separate(m, n)
  BY <1>2, <1>3, <1>4, MergeStaysSeparate DEF MergeInv
<1>7. ASSUME NEW d \in todo, d # c
      PROVE  Precedes(n, d)
  <2>1. Precedes(c, d) /\ Precedes(current, d)
    BY <1>1, <1>3, <1>7, FirstPrecedes DEF MergeInv
  <2> QED
    BY <1>5, <2>1 DEF Precedes
<1> HIDE DEF n
<1>8. Result' = merged \cup {n}
  BY <1>1, <1>5 DEF Result, n
<1>9. current' = n
  BY <1>1 DEF n
<1>10. \A m \in Result' : Spans(m)
  BY <1>3, <1>5, <1>8 DEF MergeInv
<1>11. \A m \in Result', d \in todo' : Precedes(m, d)
  BY <1>1, <1>3, <1>7, <1>8 DEF MergeInv
<1>12. todo' \subseteq candidates' /\ current' # NoClip /\ next' > Len(frames')
  BY <1>1, <1>3, <1>5, <1>9 DEF MergeInv, scanVars
<1> QED
  BY <1>1, <1>6, <1>9, <1>10, <1>11, <1>12 DEF MergeInv

LEMMA KeepApartKeeps ==
  ASSUME ScanInv, MergeInv, KeepApart
  PROVE  MergeInv'
<1>1. PICK c \in todo :
        /\ IsNextOf(c, todo) /\ ~OverlapsMostly(current, c)
        /\ merged' = merged \cup {current} /\ current' = c /\ todo' = todo \ {c}
        /\ UNCHANGED scanVars
  BY DEF KeepApart
<1>2. c \in candidates /\ Fits(c) /\ Spans(c) /\ c # NoClip
  BY CandidatesFit, FitsSpans DEF MergeInv
<1>3. current # NoClip /\ current \in Result /\ merged \subseteq Result
  BY <1>1 DEF MergeInv, Result
<1>4. Spans(current) /\ Precedes(current, c)
  BY <1>3 DEF MergeInv
<1>5. ASSUME NEW m \in merged \cup {current}
      PROVE  Spans(m) /\ Precedes(m, c) /\ Separate(m, c)
  <2>1. m \in Result
    BY <1>3
  <2>2. Spans(m) /\ Precedes(m, c) /\ m.end <= current.end
    BY <1>4, <2>1 DEF MergeInv, Precedes, Spans
  <2> QED
    BY <1>1, <1>2, <1>4, <2>2, KeptIsSeparate
<1>6. ASSUME NEW m \in merged', NEW n \in merged', m # n
      PROVE  m.peak # n.peak /\ (m.peak < n.peak => Separate(m, n))
  <2>1. CASE m \in merged /\ n \in merged
    BY <1>6, <2>1 DEF MergeInv
  <2>2. CASE m \in merged /\ n = current
    BY <1>3, <1>4, <2>2 DEF MergeInv, Precedes, Spans
  <2>3. CASE m = current /\ n \in merged
    BY <1>3, <1>4, <2>3 DEF MergeInv, Precedes, Spans
  <2> QED
    BY <1>1, <1>6, <2>1, <2>2, <2>3
<1>7. Result' = merged' \cup {c}
  BY <1>1, <1>2 DEF Result
<1>8. \A d \in todo' : Precedes(c, d)
  BY <1>1, FirstPrecedes DEF MergeInv
<1>9. \A m \in Result', d \in todo' : Precedes(m, d)
  BY <1>1, <1>3, <1>7, <1>8 DEF MergeInv
<1>10. \A m \in Result' : Spans(m)
  BY <1>1, <1>2, <1>5, <1>7
<1>11. todo' \subseteq candidates' /\ current' # NoClip /\ next' > Len(frames')
  BY <1>1, <1>2, <1>3 DEF MergeInv, scanVars
<1> QED
  BY <1>1, <1>5, <1>6, <1>9, <1>10, <1>11 DEF MergeInv

LEMMA MergeInvStep ==
  ASSUME ScanInv, MergeInv, [AnalyzerNext]_analyzerVars
  PROVE  MergeInv'
<1>1. CASE UNCHANGED analyzerVars
  BY <1>1 DEF analyzerVars, MergeInv, Result
<1> QED
  BY <1>1, ScanKeepsMerge, StartMergeKeeps, MergeIntoKeeps, KeepApartKeeps DEF AnalyzerNext

(* The inductive invariant of both loops. *)
LEMMA AnalyzerInvariant == AnalyzerSpec => [](ScanInv /\ MergeInv)
BY ScanInvInit, ScanInvStep, MergeInvInit, MergeInvStep, PTL DEF AnalyzerSpec
-----------------------------------------------------------------------------
(* The properties of the results.                                            *)

(* No two results share a peak, and the later of two shares at most half of  *)
(* itself with the earlier one, for chains of merges of any length.          *)
THEOREM ResultsAreApart == AnalyzerSpec => []ClipsApart
<1>1. ASSUME MergeInv
      PROVE  ClipsApart
  <2> SUFFICES ASSUME NEW m \in Result, NEW n \in Result, m # n
               PROVE  m.peak # n.peak /\ (m.peak < n.peak => Separate(m, n))
    BY DEF ClipsApart, Separate
  <2>1. Spans(m) /\ Spans(n) /\ m \in merged \cup {current} /\ n \in merged \cup {current}
    BY <1>1 DEF MergeInv, Result
  <2>2. CASE m \in merged /\ n \in merged
    BY <1>1, <2>2 DEF MergeInv
  <2>3. CASE m \in merged /\ n = current
    BY <1>1, <2>1, <2>3 DEF MergeInv, Precedes, Spans
  <2>4. CASE m = current /\ n \in merged
    <3>1. n.peak < m.peak
      BY <1>1, <2>4 DEF MergeInv, Precedes
    <3>2. n.peak \in Nat /\ m.peak \in Nat
      BY <2>1 DEF Spans
    <3>3. m.peak # n.peak /\ ~(m.peak < n.peak)
      BY <3>1, <3>2
    <3> QED
      BY <3>3
  <2> QED
    BY <2>1, <2>2, <2>3, <2>4
<1> QED
  BY <1>1, AnalyzerInvariant, PTL

(* c is the candidate whose type, time and confidence m has. *)
Credits(m, c) ==
  /\ c.event_type = m.event_type /\ c.peak = m.peak /\ c.confidence = m.confidence
  /\ Covers(m, c)

Credible == \A m \in Result : \E c \in candidates : Credits(m, c)

LEMMA MergeCredits ==
  ASSUME NEW a, Spans(a), NEW c, Fits(c), Precedes(a, c),
         NEW p, Fits(p), Credits(a, p)
  PROVE  Credits(Merge(a, c), p) \/ Credits(Merge(a, c), c)
<1>1. Merge(a, c).start = a.start /\ Merge(a, c).end = c.end
  BY MergeSpans
<1>2. /\ a.start \in Nat /\ a.end \in Nat /\ c.start \in Nat /\ c.end \in Nat
      /\ p.start \in Nat /\ p.end \in Nat
  BY DEF Spans, Fits
<1>3. Covers(Merge(a, c), p) /\ Covers(Merge(a, c), c)
  BY <1>1, <1>2 DEF Covers, Credits, Precedes
<1>4. CASE c.confidence > a.confidence
  BY <1>3, <1>4 DEF Merge, Credits
<1>5. CASE ~(c.confidence > a.confidence)
  BY <1>3, <1>5 DEF Merge, Credits
<1> QED
  BY <1>4, <1>5

LEMMA CredibleStep ==
  ASSUME ScanInv, MergeInv, Credible, [AnalyzerNext]_analyzerVars
  PROVE  Credible'
<1>1. CASE UNCHANGED analyzerVars
  BY <1>1 DEF analyzerVars, Credible, Result
<1>2. CASE PassOver \/ Emit
  <2>1. next <= Len(frames) /\ UNCHANGED mergeVars
    BY <1>2 DEF PassOver, Emit
  <2>2. next \in Nat /\ Len(frames) \in Nat
    BY DEF ScanInv
  <2>3. current = NoClip /\ merged = {}
    BY <2>1, <2>2 DEF MergeInv
  <2> QED
    BY <2>1, <2>3 DEF Credible, Result, mergeVars
<1>3. \A c \in candidates : Fits(c) /\ Credits(c, c)
  <2> SUFFICES ASSUME NEW c \in candidates
               PROVE  Fits(c) /\ Credits(c, c)
    OBVIOUS
  <2>1. Fits(c)
    BY CandidatesFit
  <2> QED
    BY <2>1 DEF Credits, Covers, Fits
<1>4. CASE StartMerge
  <2>1. PICK c \in candidates : current' = c /\ candidates' = candidates /\ merged' = {}
    BY <1>4 DEF StartMerge, MergeInv, scanVars
  <2> QED
    BY <1>3, <2>1 DEF Credible, Result
<1>5. CASE MergeInto
  <2>1. PICK c \in todo :
          current' = Merge(current, c) /\ candidates' = candidates /\ merged' = merged
    BY <1>5 DEF MergeInto, scanVars
  <2>2. current # NoClip /\ current \in Result /\ merged \subseteq Result
    BY <2>1 DEF MergeInv, Result
  <2>3. c \in candidates /\ Fits(c) /\ Spans(current) /\ Precedes(current, c)
    BY <1>3, <2>2 DEF MergeInv
  <2>4. PICK p \in candidates : Credits(current, p)
    BY <2>2 DEF Credible
  <2>5. \E d \in candidates : Credits(current', d)
    BY <1>3, <2>1, <2>3, <2>4, MergeCredits
  <2> QED
    BY <2>1, <2>2, <2>5 DEF Credible, Result
<1>6. CASE KeepApart
  <2>1. PICK c \in todo :
          current' = c /\ candidates' = candidates /\ merged' = merged \cup {current}
    BY <1>6 DEF KeepApart, scanVars
  <2>2. merged \cup {current} \subseteq Result /\ c \in candidates
    BY <2>1 DEF MergeInv, Result
  <2> QED
    BY <1>3, <2>1, <2>2 DEF Credible, Result
<1> QED
  BY <1>1, <1>2, <1>4, <1>5, <1>6 DEF AnalyzerNext

LEMMA AlwaysCredible == AnalyzerSpec => [](ScanInv /\ MergeInv /\ Credible)
<1>1. AnalyzerInit => Credible
  BY DEF AnalyzerInit, Credible, Result
<1> QED
  BY <1>1, AnalyzerInvariant, CredibleStep, PTL DEF AnalyzerSpec

(* Whatever was merged into it, a result has the type, time and confidence   *)
(* of one candidate that its clip shows.                                     *)
THEOREM ResultsAreCredible == AnalyzerSpec => []ClipsCredible
<1>1. Credible => ClipsCredible
  BY DEF Credible, Credits, ClipsCredible
<1> QED
  BY <1>1, AlwaysCredible, PTL

LEMMA WithinASecond ==
  ASSUME NEW d \in Nat, NEW n \in Nat, NEW k \in Nat, NEW x \in Nat, NEW l \in Nat,
         x < n, n < d + k, d <= l
  PROVE  x < l + k
OBVIOUS

(* Cutting a clip to the whole seconds of its video leaves a frame of it at  *)
(* most a second before the moment it shows.                                 *)
THEOREM ResultsArePlayable == AnalyzerSpec => []ClipsPlayable
<1>1. ASSUME ScanInv, MergeInv, Credible
      PROVE  ClipsPlayable
  <2> SUFFICES ASSUME NEW m \in Result
               PROVE  \E t \in Exported(m) : t <= m.peak /\ m.peak < t + Fps
    BY DEF ClipsPlayable
  <2>1. PICK c \in candidates : Credits(m, c)
    BY <1>1 DEF Credible
  <2>2. m.start \in Nat /\ m.end \in Nat /\ m.peak \in Nat
    BY <1>1 DEF MergeInv, Spans
  <2>3. Len(frames) \in Nat /\ next \in 1..Len(frames) + 1 /\ Fps \in Nat \ {0}
    BY <1>1, AnalyzerAssumptions DEF ScanInv
  <2>4. Fits(c) /\ c.peak < next - 1 /\ c.start <= c.peak /\ c.peak + After = c.end
    BY <1>1, CandidatesFit, FitsSpans
  <2>5. m.start <= m.peak /\ m.peak <= m.end /\ m.peak < Len(frames)
    <3>1. /\ c.start \in Nat /\ c.end \in Nat /\ c.peak = m.peak /\ After \in Nat
          /\ m.start <= c.start /\ c.end <= m.end
      BY <2>1, <2>4, Paddings DEF Credits, Covers, Fits
    <3>2. next \in Nat /\ next <= Len(frames) + 1 /\ Len(frames) \in Nat
      BY <2>3
    <3>3. c.start <= m.peak /\ m.peak + After = c.end /\ m.peak < next - 1
      BY <2>4, <3>1
    <3>4. m.start <= m.peak
      BY <2>2, <3>1, <3>3
    <3>5. m.peak <= m.end
      BY <2>2, <3>1, <3>3
    <3>6. m.peak < Len(frames)
      BY <2>2, <3>2, <3>3
    <3> QED
      BY <3>4, <3>5, <3>6
  <2>6. Duration \in Nat /\ Duration <= Len(frames) /\ Len(frames) < Duration + Fps
    <3> DEFINE n == Len(frames)
    <3>1. n \in Nat /\ Fps \in Nat \ {0} /\ Duration = (n \div Fps) * Fps
      BY <2>3 DEF Duration
    <3> HIDE DEF n
    <3>2. Duration \in Nat /\ Duration <= n /\ n < Duration + Fps
      BY <3>1, SMTT(30)
    <3> QED
      BY <3>2 DEF n
  <2>7. /\ LastExported(m) \in Nat /\ m.start <= LastExported(m)
        /\ m.peak <= LastExported(m) \/ Duration <= LastExported(m)
    <3> DEFINE low == Lower(m.end, Duration)
    <3>1. low \in Nat /\ (m.peak <= low \/ Duration <= low)
      BY <2>2, <2>5, <2>6 DEF Lower
    <3>2. LastExported(m) = Higher(m.start, low)
      BY DEF LastExported
    <3> HIDE DEF low
    <3>3. LastExported(m) \in Nat /\ m.start <= LastExported(m) /\ low <= LastExported(m)
      BY <2>2, <3>1, <3>2 DEF Higher
    <3> QED
      BY <2>2, <2>6, <3>1, <3>3
  <2>8. CASE m.peak <= LastExported(m)
    <3>1. m.peak \in Exported(m)
      BY <2>2, <2>5, <2>7, <2>8 DEF Exported
    <3>2. Fps \in Nat /\ 0 < Fps
      BY <2>3
    <3>3. m.peak <= m.peak /\ m.peak < m.peak + Fps
      BY <2>2, <3>2
    <3> QED
      BY <3>1, <3>3
  <2>9. CASE LastExported(m) < m.peak
    <3>1. LastExported(m) \in Exported(m)
      <4>1. Len(frames) \in Nat
        BY <2>3
      <4>2. LastExported(m) < Len(frames)
        BY <2>2, <2>5, <2>7, <2>9, <4>1
      <4>3. LastExported(m) \in m.start..LastExported(m)
        BY <2>2, <2>7
      <4> QED
        BY <4>2, <4>3 DEF Exported
    <3>2. Duration <= LastExported(m)
      BY <2>2, <2>7, <2>9
    <3>3. m.peak < LastExported(m) + Fps
      <4>1. Len(frames) \in Nat /\ Fps \in Nat
        BY <2>3
      <4> QED
        BY <2>2, <2>5, <2>6, <2>7, <3>2, <4>1, WithinASecond
    <3> QED
      BY <2>2, <2>7, <2>9, <3>1, <3>3
  <2> QED
    BY <2>2, <2>7, <2>8, <2>9
<1> QED
  BY <1>1, AlwaysCredible, PTL
-----------------------------------------------------------------------------
(* Scores and confidences.                                                   *)

LEMMA WindowFits ==
  ASSUME NEW fs \in Seq(Frame), NEW i \in 1..Len(fs)
  PROVE  /\ Window(fs, i) \subseteq 1..Len(fs)
         /\ IsFiniteSet(Window(fs, i))
         /\ Cardinality(Window(fs, i)) \in Nat \ {0}
<1> DEFINE w == window_size \div 2
           low == Higher(1, i - w)
           high == Lower(Len(fs), i + w)
<1>1. Len(fs) \in Nat /\ i \in Nat /\ 1 <= i /\ i <= Len(fs)
  OBVIOUS
<1>2. w \in Nat
  BY AnalyzerAssumptions
<1> HIDE DEF w
<1>3. low \in 1..i /\ high \in i..Len(fs) /\ low \in Int /\ high \in Int
  BY <1>1, <1>2 DEF Higher, Lower
<1>4. Window(fs, i) = low..high
  BY DEF Window, w
<1> HIDE DEF low, high
<1>5. low..high \subseteq 1..Len(fs)
  BY <1>1, <1>3
<1>6. IsFiniteSet(low..high) /\ Cardinality(low..high) = high - low + 1
  <2>1. IsFiniteSet(low..high)
        /\ Cardinality(low..high) = IF low > high THEN 0 ELSE high - low + 1
    BY <1>3, FS_Interval
  <2>2. ~(low > high)
    BY <1>1, <1>3
  <2> QED
    BY <2>1, <2>2
<1>7. high - low + 1 \in Nat \ {0}
  BY <1>1, <1>3
<1> QED
  BY <1>4, <1>5, <1>6, <1>7

LEMMA RawScoreNatural ==
  ASSUME NEW f \in Frame
  PROVE  RawScore(f) \in Nat
<1>1. f \in FrameSnapshot /\ goal_zone_player_threshold \in Nat
  BY AnalyzerAssumptions
<1>2. f.motion_score \in Nat /\ (HasBall(f) => f.ball.confidence \in 0..100)
  BY <1>1 DEF FrameSnapshot, HasBall
<1>3. PlayersInGoal(f) \in Nat
  <2>1. f.players \in Seq(0..100)
    BY <1>1 DEF FrameSnapshot
  <2>2. DOMAIN f.players = 1..Len(f.players) /\ Len(f.players) \in Nat
    BY <2>1
  <2>3. IsFiniteSet(DOMAIN f.players)
    BY <2>2, FS_Interval
  <2>4. {k \in DOMAIN f.players : InGoalZone(f.players[k])} \in SUBSET DOMAIN f.players
    OBVIOUS
  <2>5. IsFiniteSet({k \in DOMAIN f.players : InGoalZone(f.players[k])})
    BY <2>3, <2>4, FS_Subset
  <2> QED
    BY <2>5, FS_CardinalityType DEF PlayersInGoal
<1>4. Lower(50 * f.motion_score, 1500) \in Nat
  BY <1>2 DEF Lower
<1>5. HasBall(f) => 450 + Lower(3 * f.ball.confidence, 300) \in Nat
  BY <1>2 DEF Lower
<1>6. Lower(120 * PlayersInGoal(f), 750) \in Nat
  BY <1>3 DEF Lower
<1> QED
  BY <1>4, <1>5, <1>6 DEF RawScore

LEMMA WindowSumNatural ==
  ASSUME NEW fs \in Seq(Frame), NEW i \in 1..Len(fs)
  PROVE  WindowSum(fs, i) \in Nat
<1> DEFINE W == Window(fs, i)
           g == [k \in W |-> RawScore(fs[k])]
           Row(h) == [s \in SUBSET W |->
                        IF s = {} THEN 0
                        ELSE RawScore(fs[CHOOSE x \in s : TRUE])
                               + h[s \ {CHOOSE x \in s : TRUE}]]
           sums == CHOOSE h : h = Row(h)
<1>1. WindowSum(fs, i) = sums[W]
  BY DEF WindowSum, MapThenSumSet, MapThenFoldSet
<1>2. W \subseteq 1..Len(fs) /\ IsFiniteSet(W)
  BY WindowFits
<1>3. \A k \in 1..Len(fs) : RawScore(fs[k]) \in Nat
  BY RawScoreNatural
<1> HIDE DEF W
<1>4. g \in [W -> Nat]
  BY <1>2, <1>3
<1>5. ASSUME NEW h
      PROVE  Tabulates(h, g, W) <=> h = Row(h)
  <2> DEFINE G(s) == IF s = {} THEN 0 ELSE g[First(s)] + h[Rest(s)]
             R(s) == IF s = {} THEN 0 ELSE RawScore(fs[First(s)]) + h[Rest(s)]
  <2>1. ASSUME NEW s \in SUBSET W
        PROVE  G(s) = R(s)
    <3>1. s # {} => First(s) \in W
      BY DEF First
    <3>2. s # {} => g[First(s)] = RawScore(fs[First(s)])
      BY <3>1
    <3> HIDE DEF g
    <3> QED
      BY <3>2
  <2>2. Row(h) = [s \in SUBSET W |-> R(s)]
    BY DEF First, Rest
  <2>3. Tabulates(h, g, W) <=> h = [s \in SUBSET W |-> G(s)]
    BY DEF Tabulates
  <2>4. [s \in SUBSET W |-> G(s)] = [s \in SUBSET W |-> R(s)]
    <3> HIDE DEF G, R
    <3> QED
      BY <2>1
  <2> HIDE DEF G, R, Row
  <2> QED
    BY <2>2, <2>3, <2>4
<1>6. /\ \E h : Tabulates(h, g, W)
      /\ \A h : Tabulates(h, g, W) => h[W] \in Nat
  <2> HIDE DEF g
  <2> QED
    BY <1>2, <1>4, TableIsNatural
<1> HIDE DEF g, Row
<1>7. sums = Row(sums)
  BY <1>5, <1>6
<1> HIDE DEF sums
<1> QED
  BY <1>1, <1>5, <1>6, <1>7

(* Every frame's confidence is a number of thousandths up to 1000. *)
LEMMA ConfidenceInRange ==
  ASSUME NEW fs \in Seq(Frame), NEW i \in 1..Len(fs)
  PROVE  Confidence(fs, i) \in 0..1000
<1> DEFINE n == 3 * Cardinality(Window(fs, i))
           a == 2 * WindowSum(fs, i) + n
           b == 2 * n
           q == a \div b
<1>1. a \in Nat /\ b \in Nat \ {0}
  BY WindowSumNatural, WindowFits
<1>2. Confidence(fs, i) = Lower(1000, q)
  BY DEF Confidence
<1> HIDE DEF a, b
<1>3. q \in Nat
  BY <1>1
<1> HIDE DEF q
<1> QED
  BY <1>2, <1>3 DEF Lower

LEMMA FieldsOfClip ==
  ASSUME NEW c \in Clip
  PROVE  /\ c.event_type \in EventType /\ c.peak \in Nat /\ c.confidence \in Int
         /\ c.confidence \in 0..1000 /\ c.start \in Nat /\ c.end \in Nat
BY DEF Clip

LEMMA CandidateIsClip ==
  ASSUME NEW fs \in Seq(Frame), NEW i \in 1..Len(fs)
  PROVE  CandidateAt(fs, i) \in Clip
<1> DEFINE c == CandidateAt(fs, i)
<1>1. i \in Nat \ {0}
  OBVIOUS
<1>2. Fits(c)
  BY <1>1, CandidateFits
<1>3. c = [event_type |-> c.event_type, peak |-> c.peak, confidence |-> c.confidence,
           start |-> c.start, end |-> c.end]
  BY DEF CandidateAt
<1>4. c.confidence \in 0..1000
  <2>1. Confidence(fs, i) \in 0..1000
    BY ConfidenceInRange
  <2>2. c.confidence = Confidence(fs, i)
    BY DEF CandidateAt
  <2> HIDE DEF c
  <2> QED
    BY <2>1, <2>2
<1>5. c.event_type \in EventType /\ c.peak \in Nat /\ c.start \in Nat /\ c.end \in Nat
  BY <1>2 DEF Fits
<1> HIDE DEF c
<1>6. [event_type |-> c.event_type, peak |-> c.peak, confidence |-> c.confidence,
       start |-> c.start, end |-> c.end] \in Clip
  BY <1>4, <1>5 DEF Clip
<1> QED
  BY <1>3, <1>6 DEF c

LEMMA MergeIsClip ==
  ASSUME NEW a \in Clip, NEW c \in Clip
  PROVE  /\ Merge(a, c) \in Clip
         /\ Merge(a, c).confidence >= a.confidence
         /\ Merge(a, c).confidence >= c.confidence
<1> DEFINE best == IF c.confidence > a.confidence THEN c ELSE a
<1>1. best \in Clip /\ best.confidence >= a.confidence /\ best.confidence >= c.confidence
  BY FieldsOfClip
<1>2. Lower(a.start, c.start) \in Nat /\ Higher(a.end, c.end) \in Nat
  BY FieldsOfClip DEF Lower, Higher
<1>3. Merge(a, c) =
        [event_type |-> best.event_type, peak |-> best.peak,
         confidence |-> best.confidence,
         start |-> Lower(a.start, c.start), end |-> Higher(a.end, c.end)]
  BY DEF Merge
<1> HIDE DEF best
<1>4. /\ best.event_type \in EventType /\ best.peak \in Nat
      /\ best.confidence \in 0..1000
  BY <1>1, FieldsOfClip
<1>5. [event_type |-> best.event_type, peak |-> best.peak,
       confidence |-> best.confidence,
       start |-> Lower(a.start, c.start), end |-> Higher(a.end, c.end)] \in Clip
  BY <1>2, <1>4 DEF Clip
<1>6. Merge(a, c).confidence = best.confidence
  BY <1>3
<1> QED
  BY <1>1, <1>3, <1>5, <1>6

LEMMA WithinBounds ==
  ASSUME NEW n \in Nat, NEW k \in 1..n + 1, NEW i \in 1..k - 1
  PROVE  i \in 1..n
BY SMT

LEMMA TypesStep ==
  ASSUME ScanInv, ScanInv', MergeInv, AnalyzerTypeOK, [AnalyzerNext]_analyzerVars
  PROVE  AnalyzerTypeOK'
<1>1. frames' \in Seq(Frame) /\ next' \in 1..Len(frames') + 1
      /\ last_event' \in [EventType -> Nat \cup {Never}]
  BY DEF ScanInv, LastEventsKnown
<1>2. candidates' \in SUBSET Clip
  <2> SUFFICES ASSUME NEW c \in candidates'
               PROVE  c \in Clip
    OBVIOUS
  <2>1. PICK i \in 1..next' - 1 : c = CandidateAt(frames', i)
    BY DEF ScanInv, CandidatesOfFrames
  <2>2. Len(frames') \in Nat
    BY <1>1
  <2>3. i \in 1..Len(frames')
    BY <1>1, <2>1, <2>2, WithinBounds
  <2> QED
    BY <1>1, <2>1, <2>3, CandidateIsClip
<1>3. todo' \in SUBSET Clip /\ merged' \in SUBSET Clip /\ current' \in Clip \cup {NoClip}
  <2>1. CASE UNCHANGED mergeVars
    BY <2>1 DEF mergeVars, AnalyzerTypeOK
  <2>2. CASE StartMerge
    BY <2>2 DEF StartMerge, AnalyzerTypeOK
  <2>3. CASE MergeInto
    <3>1. PICK c \in todo :
            current' = Merge(current, c) /\ todo' = todo \ {c} /\ merged' = merged
      BY <2>3 DEF MergeInto
    <3>2. c \in Clip /\ current \in Clip
      BY <3>1 DEF AnalyzerTypeOK, MergeInv
    <3>3. current' \in Clip
      BY <3>1, <3>2, MergeIsClip
    <3> QED
      BY <3>1, <3>3 DEF AnalyzerTypeOK
  <2>4. CASE KeepApart
    <3>1. PICK c \in todo :
            current' = c /\ todo' = todo \ {c} /\ merged' = merged \cup {current}
      BY <2>4 DEF KeepApart
    <3>2. c \in Clip /\ current \in Clip
      BY <3>1 DEF AnalyzerTypeOK, MergeInv
    <3> QED
      BY <3>1, <3>2 DEF AnalyzerTypeOK
  <2> QED
    BY <2>1, <2>2, <2>3, <2>4 DEF AnalyzerNext, PassOver, Emit, analyzerVars, mergeVars
<1> QED
  BY <1>1, <1>2, <1>3 DEF AnalyzerTypeOK

LEMMA AlwaysTyped == AnalyzerSpec => [](ScanInv /\ MergeInv /\ AnalyzerTypeOK)
<1>1. AnalyzerInit /\ ScanInv => AnalyzerTypeOK
  BY DEF AnalyzerInit, ScanInv, LastEventsKnown, AnalyzerTypeOK
<1> QED
  BY <1>1, AnalyzerInvariant, TypesStep, PTL DEF AnalyzerSpec

(* Every candidate and result is a clip of one of the five types, with its   *)
(* moments at frames of some video and a confidence from 0 to 1.             *)
THEOREM AnalyzerTypeCorrect == AnalyzerSpec => []AnalyzerTypeOK
BY AlwaysTyped, PTL

LEMMA BestKeptStep ==
  ASSUME ScanInv, MergeInv, AnalyzerTypeOK, BestKept, [AnalyzerNext]_analyzerVars
  PROVE  BestKept'
<1>1. CASE UNCHANGED analyzerVars
  BY <1>1 DEF analyzerVars, BestKept, Taken, Result
<1>2. CASE PassOver \/ Emit
  <2>1. next <= Len(frames) /\ UNCHANGED mergeVars
    BY <1>2 DEF PassOver, Emit
  <2>2. next \in Nat /\ Len(frames) \in Nat
    BY DEF ScanInv
  <2>3. current' = NoClip
    BY <2>1, <2>2 DEF MergeInv, mergeVars
  <2> QED
    BY <2>3 DEF BestKept, Taken
<1>3. ASSUME NEW c \in Clip
      PROVE  Covers(c, c) /\ c.confidence >= c.confidence
  BY DEF Covers, Clip
<1>4. CASE StartMerge
  <2>1. PICK c \in candidates : current' = c /\ candidates' = candidates /\ todo' = candidates \ {c}
    BY <1>4 DEF StartMerge, scanVars
  <2>2. c # NoClip /\ c \in Clip
    BY <2>1, CandidatesFit DEF AnalyzerTypeOK
  <2>3. Taken' = {c} /\ c \in Result'
    BY <2>1, <2>2 DEF Taken, Result
  <2> QED
    BY <1>3, <2>2, <2>3 DEF BestKept
<1>5. CASE MergeInto
  <2>1. PICK c \in todo :
          /\ current' = Merge(current, c) /\ candidates' = candidates
          /\ merged' = merged /\ todo' = todo \ {c}
    BY <1>5 DEF MergeInto, scanVars
  <2> DEFINE n == Merge(current, c)
  <2>2. current # NoClip /\ current \in Result /\ merged \subseteq Result
    BY <2>1 DEF MergeInv, Result
  <2>3. c \in candidates /\ Fits(c) /\ Spans(current) /\ Precedes(current, c)
        /\ current \in Clip /\ c \in Clip
    BY <2>1, <2>2, CandidatesFit DEF MergeInv, AnalyzerTypeOK
  <2>4. n # NoClip /\ n.start = current.start /\ n.end = c.end
    BY <2>3, MergeSpans
  <2>5. n \in Clip /\ n.confidence >= current.confidence /\ n.confidence >= c.confidence
    BY <2>3, MergeIsClip
  <2> HIDE DEF n
  <2>6. Covers(n, c) /\ Covers(n, current)
    BY <2>3, <2>4 DEF Covers, Precedes, Clip
  <2>7. Result' = merged \cup {n} /\ Taken' = Taken \cup {c}
    BY <2>1, <2>2, <2>3, <2>4 DEF Result, Taken, n
  <2>8. ASSUME NEW d \in Taken
        PROVE  \E m \in Result' : Covers(m, d) /\ m.confidence >= d.confidence
    <3>1. PICK m \in Result : Covers(m, d) /\ m.confidence >= d.confidence
      BY DEF BestKept
    <3>2. CASE m \in merged
      BY <2>7, <3>1, <3>2
    <3>3. CASE m = current
      <4>1. d \in Clip
        BY DEF Taken, AnalyzerTypeOK
      <4>2. /\ n.confidence \in Int /\ current.confidence \in Int /\ d.confidence \in Int
            /\ current.confidence >= d.confidence /\ n.confidence >= current.confidence
        BY <2>3, <2>5, <3>1, <3>3, <4>1, FieldsOfClip
      <4>3. Covers(n, d)
        BY <2>3, <2>5, <2>6, <3>1, <3>3, <4>1 DEF Covers, Clip
      <4> QED
        BY <2>7, <4>2, <4>3
    <3> QED
      BY <3>1, <3>2, <3>3 DEF Result
  <2> QED
    BY <2>5, <2>6, <2>7, <2>8 DEF BestKept
<1>6. CASE KeepApart
  <2>1. PICK c \in todo :
          /\ current' = c /\ candidates' = candidates
          /\ merged' = merged \cup {current} /\ todo' = todo \ {c}
    BY <1>6 DEF KeepApart, scanVars
  <2>2. current # NoClip /\ c \in candidates /\ c # NoClip /\ c \in Clip
    BY <2>1, CandidatesFit DEF MergeInv, AnalyzerTypeOK
  <2>3. Result' = Result \cup {c} /\ Taken' = Taken \cup {c}
    BY <2>1, <2>2 DEF Result, Taken
  <2> QED
    BY <1>3, <2>2, <2>3 DEF BestKept
<1> QED
  BY <1>1, <1>2, <1>4, <1>5, <1>6 DEF AnalyzerNext

(* However long a chain of merges gets, every candidate's clip lies inside a *)
(* resulting clip that is at least as confident.                             *)
THEOREM BestIsKept == AnalyzerSpec => []BestKept
<1>1. AnalyzerInit => BestKept
  BY DEF AnalyzerInit, BestKept, Taken
<1> QED
  BY <1>1, AlwaysTyped, BestKeptStep, PTL DEF AnalyzerSpec
-----------------------------------------------------------------------------
(* What the analysis of a video depends on.                                  *)

At(cs, i) == \E c \in cs : c.peak = Time(i)

Cooled(cs, fs, i) ==
  /\ Hot(fs, i)
  /\ \A c \in cs :
       c.event_type = Classify(fs, i) /\ c.peak < Time(i) => Time(i) - c.peak >= Cooldown

(* cs is a set of events of fs that obeys the cooldown and wastes no frame. *)
Greedy(cs, fs) ==
  /\ \A c \in cs : \E i \in 1..Len(fs) : c = CandidateAt(fs, i)
  /\ \A i \in 1..Len(fs) : At(cs, i) <=> Cooled(cs, fs, i)

LEMMA PeakTellsFrame ==
  ASSUME NEW fs \in Seq(Frame), NEW cs, Greedy(cs, fs), NEW c \in cs
  PROVE  \E i \in 1..Len(fs) : c = CandidateAt(fs, i) /\ c.peak = Time(i)
<1>1. PICK i \in 1..Len(fs) : c = CandidateAt(fs, i)
  BY DEF Greedy
<1>2. i \in Nat \ {0}
  OBVIOUS
<1> QED
  BY <1>1, <1>2, CandidateFits DEF Time

(* Where two such sets agree about frames, they have the same events of them. *)
LEMMA AgreementIsEquality ==
  ASSUME NEW fs \in Seq(Frame), NEW cs, Greedy(cs, fs), NEW ds, Greedy(ds, fs),
         NEW n \in Int, \A i \in 1..Len(fs) : Time(i) < n => (At(cs, i) <=> At(ds, i)),
         NEW c \in cs, c.peak < n
  PROVE  c \in ds
<1>1. PICK i \in 1..Len(fs) : c = CandidateAt(fs, i) /\ c.peak = Time(i)
  BY PeakTellsFrame
<1>2. At(ds, i)
  BY <1>1 DEF At
<1>3. PICK d \in ds : d.peak = Time(i)
  BY <1>2 DEF At
<1>4. PICK j \in 1..Len(fs) : d = CandidateAt(fs, j) /\ d.peak = Time(j)
  BY PeakTellsFrame
<1>5. i = j
  BY <1>3, <1>4 DEF Time
<1> QED
  BY <1>1, <1>4, <1>5

LEMMA GreedyIsUnique ==
  ASSUME NEW fs \in Seq(Frame), NEW cs, Greedy(cs, fs), NEW ds, Greedy(ds, fs)
  PROVE  cs = ds
<1> DEFINE D == {i \in 1..Len(fs) : ~(At(cs, i) <=> At(ds, i))}
<1>1. Len(fs) \in Nat /\ IsFiniteSet(1..Len(fs))
  BY FS_Interval
<1>2. D \in SUBSET Nat /\ D \in SUBSET (1..Len(fs)) /\ IsFiniteSet(D)
  BY <1>1, FS_Subset
<1>3. ASSUME D # {}
      PROVE  FALSE
  <2>1. PICK k \in D : \A j \in D : k <= j
    <3>1. \A x \in D : x \in Nat
      BY <1>2
    <3> HIDE DEF D
    <3> QED
      BY <1>2, <1>3, <3>1, LeastNumber
  <2>2. k \in 1..Len(fs) /\ ~(At(cs, k) <=> At(ds, k)) /\ Time(k) \in Int
    BY <2>1 DEF Time
  <2>3. ASSUME NEW i \in 1..Len(fs), Time(i) < Time(k)
        PROVE  At(cs, i) <=> At(ds, i)
    <3>1. ~(k <= i)
      BY <2>2, <2>3 DEF Time
    <3> QED
      BY <2>1, <3>1
  <2>4. \A c : c.peak < Time(k) => (c \in cs <=> c \in ds)
    BY <2>2, <2>3, AgreementIsEquality
  <2>5. Cooled(cs, fs, k) <=> Cooled(ds, fs, k)
    BY <2>4 DEF Cooled
  <2> QED
    BY <2>2, <2>5 DEF Greedy
<1>4. \A i \in 1..Len(fs) : At(cs, i) <=> At(ds, i)
  BY <1>3
<1>5. \A c \in cs \cup ds : c.peak < Len(fs)
  <2> SUFFICES ASSUME NEW c \in cs \cup ds
               PROVE  c.peak < Len(fs)
    OBVIOUS
  <2>1. PICK i \in 1..Len(fs) : c.peak = Time(i)
    BY PeakTellsFrame
  <2> QED
    BY <1>1, <2>1 DEF Time
<1>6. \A c : c \in cs => c \in ds
  BY <1>1, <1>4, <1>5, AgreementIsEquality
<1>7. \A c : c \in ds => c \in cs
  BY <1>1, <1>4, <1>5, AgreementIsEquality
<1> QED
  BY <1>6, <1>7

(* When every frame has been looked at, the candidates are the one set of    *)
(* the video's events that obeys the cooldown and wastes no frame: nothing   *)
(* but the video and the configuration decides what a video's events are.    *)
THEOREM CooldownDetermines ==
  AnalyzerSpec => [](next > Len(frames) => \A cs : Greedy(cs, frames) <=> cs = candidates)
<1>1. ASSUME ScanInv, next > Len(frames)
      PROVE  Greedy(candidates, frames)
  <2>1. next - 1 = Len(frames)
    <3>1. next \in 1..Len(frames) + 1 /\ Len(frames) \in Nat
      BY <1>1 DEF ScanInv
    <3> QED
      BY <1>1, <3>1
  <2>2. \A c \in candidates : \E i \in 1..Len(frames) : c = CandidateAt(frames, i)
    BY <1>1, <2>1 DEF ScanInv, CandidatesOfFrames
  <2>3. \A i \in 1..Len(frames) : Emitted(i) <=> Due(i)
    BY <1>1, <2>1 DEF ScanInv, CandidatesAreGreedy
  <2>4. \A i : (At(candidates, i) <=> Emitted(i))
               /\ (Cooled(candidates, frames, i) <=> Due(i))
    BY DEF At, Cooled, Emitted, Due, Cooldown
  <2> QED
    BY <2>2, <2>3, <2>4 DEF Greedy
<1>2. ASSUME ScanInv, next > Len(frames), NEW cs, Greedy(cs, frames)
      PROVE  cs = candidates
  <2>1. frames \in Seq(Frame)
    BY <1>2 DEF ScanInv
  <2> QED
    BY <1>1, <1>2, <2>1, GreedyIsUnique
<1>3. ScanInv => (next > Len(frames) => \A cs : Greedy(cs, frames) <=> cs = candidates)
  BY <1>1, <1>2
<1> QED
  BY <1>3, AnalyzerInvariant, PTL

(* The sort by peaks never meets a tie, at any step of the merge: its order, *)
(* and with it the results, do not depend on how the candidates were listed. *)
THEOREM SortHasNoTies ==
  AnalyzerSpec => []\A cs \in SUBSET candidates : \A c, d \in cs :
                      IsNextOf(c, cs) /\ IsNextOf(d, cs) => c = d
<1>1. ASSUME ScanInv, NEW cs \in SUBSET candidates, NEW c \in cs, NEW d \in cs,
             IsNextOf(c, cs), IsNextOf(d, cs)
      PROVE  c = d
  <2>1. Fits(c) /\ Fits(d) /\ (c.peak = d.peak => c = d)
    BY <1>1, CandidatesFit
  <2>2. c.peak <= d.peak /\ d.peak <= c.peak /\ c.peak \in Nat /\ d.peak \in Nat
    BY <1>1, <2>1 DEF IsNextOf, Fits
  <2> QED
    BY <2>1, <2>2
<1>2. ScanInv => \A cs \in SUBSET candidates : \A c, d \in cs :
                   IsNextOf(c, cs) /\ IsNextOf(d, cs) => c = d
  BY <1>1
<1> QED
  BY <1>2, AnalyzerInvariant, PTL
-----------------------------------------------------------------------------
(* The analysis ends: what is left to do, counted so that every step of      *)
(* either loop makes it less.                                                *)
Left ==
  IF current = NoClip
  THEN 2 * (Len(frames) + 1 - next) + Cardinality(candidates)
  ELSE Cardinality(todo)

CandidatesFinite == IsFiniteSet(candidates)

LEMMA FinitelyMany == AnalyzerSpec => [](ScanInv /\ MergeInv /\ CandidatesFinite)
<1>1. AnalyzerInit => CandidatesFinite
  BY FS_EmptySet DEF AnalyzerInit, CandidatesFinite
<1>2. ASSUME CandidatesFinite, [AnalyzerNext]_analyzerVars
      PROVE  CandidatesFinite'
  <2>1. CASE Emit
    BY <1>2, <2>1, FS_AddElement DEF Emit, CandidatesFinite
  <2>2. CASE UNCHANGED candidates
    BY <1>2, <2>2 DEF CandidatesFinite
  <2> QED
    BY <1>2, <2>1, <2>2 DEF AnalyzerNext, PassOver, StartMerge, MergeInto, KeepApart,
                            analyzerVars, scanVars
<1> QED
  BY <1>1, <1>2, AnalyzerInvariant, PTL DEF AnalyzerSpec

LEMMA LeftIsNatural ==
  ASSUME ScanInv, MergeInv, CandidatesFinite
  PROVE  Left \in Nat
<1>1. next \in 1..Len(frames) + 1 /\ Len(frames) \in Nat
  BY DEF ScanInv
<1>2. IsFiniteSet(candidates) /\ IsFiniteSet(todo)
  BY FS_Subset DEF CandidatesFinite, MergeInv
<1>3. Cardinality(candidates) \in Nat /\ Cardinality(todo) \in Nat
  BY <1>2, FS_CardinalityType
<1>4. 2 * (Len(frames) + 1 - next) \in Nat
  BY <1>1
<1> QED
  BY <1>3, <1>4 DEF Left

LEMMA OneFewer ==
  ASSUME NEW cs, IsFiniteSet(cs), NEW c \in cs
  PROVE  Cardinality(cs \ {c}) < Cardinality(cs)
<1>1. Cardinality(cs \ {c}) = Cardinality(cs) - 1 /\ Cardinality(cs) \in Nat
  BY FS_RemoveElement, FS_CardinalityType
<1> QED
  BY <1>1

LEMMA StepsLessen ==
  ASSUME ScanInv, MergeInv, CandidatesFinite, AnalyzerNext
  PROVE  Left' < Left
<1>1. next \in 1..Len(frames) + 1 /\ Len(frames) \in Nat
  BY DEF ScanInv
<1>2. IsFiniteSet(candidates) /\ IsFiniteSet(todo)
  BY FS_Subset DEF CandidatesFinite, MergeInv
<1>3. Cardinality(candidates) \in Nat /\ Cardinality(todo) \in Nat
  BY <1>2, FS_CardinalityType
<1>4. CASE PassOver \/ Emit
  <2>1. /\ next <= Len(frames) /\ next' = next + 1 /\ frames' = frames
        /\ UNCHANGED mergeVars
    BY <1>4 DEF PassOver, Emit
  <2>2. current = NoClip /\ current' = NoClip
    BY <1>1, <2>1 DEF MergeInv, mergeVars
  <2>3. /\ Cardinality(candidates') \in Nat
        /\ Cardinality(candidates') <= Cardinality(candidates) + 1
    <3>1. CASE PassOver
      BY <1>3, <3>1 DEF PassOver
    <3>2. CASE Emit
      <4>1. candidates' = candidates \cup {CandidateAt(frames, next)}
        BY <3>2 DEF Emit
      <4>2. Cardinality(candidates') \in {Cardinality(candidates), Cardinality(candidates) + 1}
        BY <1>2, <4>1, FS_AddElement
      <4> QED
        BY <1>3, <4>2
    <3> QED
      BY <1>4, <3>1, <3>2
  <2>4. Left = 2 * (Len(frames) + 1 - next) + Cardinality(candidates)
    BY <2>2 DEF Left
  <2>5. Left' = 2 * (Len(frames) + 1 - (next + 1)) + Cardinality(candidates')
    BY <2>1, <2>2 DEF Left
  <2> QED
    BY <1>1, <1>3, <2>3, <2>4, <2>5
<1>5. CASE StartMerge
  <2>1. PICK c \in candidates : current' = c /\ todo' = candidates \ {c}
    BY <1>5 DEF StartMerge
  <2>2. next > Len(frames) /\ current = NoClip
    BY <1>5 DEF StartMerge
  <2>3. c # NoClip
    BY CandidatesFit
  <2>4. Left' = Cardinality(candidates \ {c})
    BY <2>1, <2>3 DEF Left
  <2>5. Left = 2 * (Len(frames) + 1 - next) + Cardinality(candidates)
    BY <2>2 DEF Left
  <2>6. 2 * (Len(frames) + 1 - next) = 0
    BY <1>1, <2>2
  <2>7. Cardinality(candidates \ {c}) < Cardinality(candidates)
    BY <1>2, OneFewer
  <2> QED
    BY <1>3, <2>4, <2>5, <2>6, <2>7
<1>6. CASE MergeInto \/ KeepApart
  <2>1. PICK c \in todo :
          todo' = todo \ {c} /\ (current' = Merge(current, c) \/ current' = c)
    BY <1>6 DEF MergeInto, KeepApart
  <2>2. current # NoClip /\ current \in Result
    BY <2>1 DEF MergeInv, Result
  <2>3. Fits(c) /\ c # NoClip /\ Spans(current) /\ Precedes(current, c)
    BY <2>1, <2>2, CandidatesFit DEF MergeInv
  <2>4. current' # NoClip
    BY <2>1, <2>3, MergeSpans
  <2>5. Left' = Cardinality(todo \ {c}) /\ Left = Cardinality(todo)
    BY <2>1, <2>2, <2>4 DEF Left
  <2> QED
    BY <1>2, <2>5, OneFewer
<1> QED
  BY <1>4, <1>5, <1>6 DEF AnalyzerNext

(* Every step of the analysis leaves less to do, and what is left is a       *)
(* natural number: of no video does the worker analyze forever.              *)
THEOREM AnalysisEnds ==
  AnalyzerSpec => /\ [](Left \in Nat)
                  /\ [][Left' < Left]_analyzerVars
<1>1. ScanInv /\ MergeInv /\ CandidatesFinite => Left \in Nat
  BY LeftIsNatural
<1>2. ScanInv /\ MergeInv /\ CandidatesFinite /\ [AnalyzerNext]_analyzerVars
        => [Left' < Left]_analyzerVars
  BY StepsLessen
<1> QED
  BY <1>1, <1>2, FinitelyMany, PTL DEF AnalyzerSpec
=============================================================================
