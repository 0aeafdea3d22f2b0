-------------------------- MODULE TranscodeProofs --------------------------
(* Proofs about Transcode, for any number of clips, deliveries and tries     *)
(* and every disturbance.                                                    *)
EXTENDS Transcode, TLAPS

USE TranscodeAssumptions

(* Raw clips and outputs have keys of their own, and outputs do not notify. *)
LEMMA KeysApart ==
  ASSUME NEW c \in Clip, NEW d \in Clip
  PROVE  /\ RawKey(c) \in Key /\ OutputKey(RawKey(c)) \in Key
         /\ RawKey(c) # OutputKey(RawKey(d))
         /\ RawKey(c) = RawKey(d) => c = d
         /\ OutputKey(RawKey(c)) = OutputKey(RawKey(d)) => c = d
         /\ Handles(RawKey(c))
         /\ ~Notified(OutputKey(RawKey(c)))
<1>1. RawKey(c)[1] = "raw-clips/" /\ OutputKey(RawKey(d))[1] = "clips/"
  BY DEF RawKey, OutputKey
<1>2. OutputKey(RawKey(c))[3] = c /\ OutputKey(RawKey(d))[3] = d
  BY DEF RawKey, OutputKey
<1>3. RawKey(c)[3] = c /\ RawKey(d)[3] = d
  BY DEF RawKey
<1>4. OutputKey(RawKey(c))[1] = "clips/"
  BY DEF RawKey, OutputKey
<1> QED
  BY <1>1, <1>2, <1>3, <1>4 DEF Key, Handles, Notified

(* The raw clip is there for as long as something still needs it.           *)
RawClipsHeld == \A e \in events \cup mcJobs : bucket[e.key] = e.clip

TranscodeInv ==
  /\ TranscodeTypeOK
  /\ NeverTriggersItself
  /\ RawClipsHeld
  /\ OutputsOwnClip
  /\ NoClipForgotten

LEMMA TranscodeInvInit == TranscodeInit => TranscodeInv
<1> SUFFICES ASSUME TranscodeInit PROVE TranscodeInv
  OBVIOUS
<1>1. TranscodeTypeOK
  BY DEF TranscodeInit, TranscodeTypeOK
<1>2. NeverTriggersItself /\ RawClipsHeld
  BY DEF TranscodeInit, NeverTriggersItself, RawClipsHeld
<1>3. OutputsOwnClip
  BY KeysApart DEF TranscodeInit, OutputsOwnClip
<1>4. NoClipForgotten
  BY DEF TranscodeInit, NoClipForgotten
<1> QED
  BY <1>1, <1>2, <1>3, <1>4 DEF TranscodeInv

(* What is known of a pending notification or job. *)
LEMMA PendingNotice ==
  ASSUME TranscodeInv, NEW e \in events \cup mcJobs
  PROVE  /\ e \in Notice /\ e.clip \in Clip
         /\ e.key = RawKey(e.clip) /\ bucket[e.key] = e.clip
         /\ Handles(e.key)
BY KeysApart
DEF TranscodeInv, TranscodeTypeOK, NeverTriggersItself, RawClipsHeld, Notice

(* An upload or a repeated delivery adds a notification about a raw clip.   *)
LEMMA NotifyStep ==
  ASSUME TranscodeInv, NEW c \in Clip, PutRawClip(c) \/ NotifyAgain(c)
  PROVE  TranscodeInv'
<1> DEFINE e == [key |-> RawKey(c), clip |-> c, n |-> delivered[c] + 1, try |-> 1]
<1>1. /\ delivered[c] < MaxDeliveries
      /\ delivered' = [delivered EXCEPT ![c] = @ + 1]
      /\ events' = events \cup {e}
      /\ mcJobs' = mcJobs /\ lost' = lost
      /\ \/ bucket' = [bucket EXCEPT ![RawKey(c)] = c]
         \/ bucket' = bucket /\ bucket[RawKey(c)] = c
  BY DEF PutRawClip, NotifyAgain, Notify
<1>2. /\ bucket'[RawKey(c)] = c
      /\ \A k \in Key : k # RawKey(c) => bucket'[k] = bucket[k]
      /\ bucket' \in [Key -> Clip \cup {NoClip}]
  BY <1>1, KeysApart DEF TranscodeInv, TranscodeTypeOK
<1>3. e \in Notice
  BY <1>1, KeysApart DEF Notice, TranscodeInv, TranscodeTypeOK
<1>4. TranscodeTypeOK'
  BY <1>1, <1>2, <1>3 DEF TranscodeInv, TranscodeTypeOK
<1>5. NeverTriggersItself' /\ RawClipsHeld'
  <2> SUFFICES ASSUME NEW d \in events' \cup mcJobs'
               PROVE  d.key = RawKey(d.clip) /\ bucket'[d.key] = d.clip
    BY DEF NeverTriggersItself, RawClipsHeld
  <2>1. CASE d = e
    BY <1>2, <2>1
  <2>2. CASE d \in events \cup mcJobs
    BY <1>2, <2>2, PendingNotice, KeysApart
  <2> QED
    BY <1>1, <2>1, <2>2
<1>6. \A d \in Clip : bucket'[OutputKey(RawKey(d))] = bucket[OutputKey(RawKey(d))]
  BY <1>2, KeysApart
<1>7. OutputsOwnClip'
  BY <1>6 DEF TranscodeInv, OutputsOwnClip
<1>8. NoClipForgotten'
  <2> SUFFICES ASSUME NEW d \in Clip, delivered'[d] > 0
               PROVE  Served(d)' \/ d \in lost' \/ \E f \in events' \cup mcJobs' : f.clip = d
    BY DEF NoClipForgotten
  <2>1. CASE d = c
    <3>1. e.clip = d /\ e \in events'
      BY <1>1, <2>1
    <3> QED
      BY <3>1
  <2>2. CASE d # c
    BY <1>1, <1>6, <2>2 DEF TranscodeInv, TranscodeTypeOK, NoClipForgotten, Served
  <2> QED
    BY <2>1, <2>2
<1> QED
  BY <1>4, <1>5, <1>7, <1>8 DEF TranscodeInv

(* The trigger turns a notification into a job, a retry, or a lost clip. *)
LEMMA HandlerStep ==
  ASSUME TranscodeInv, NEW e \in events, Handler(e) \/ HandlerRaises(e)
  PROVE  TranscodeInv'
<1>1. e \in Notice /\ e.clip \in Clip /\ e.key = RawKey(e.clip) /\ Handles(e.key)
  BY PendingNotice
<1> DEFINE next == [e EXCEPT !.try = @ + 1]
<1>2. /\ UNCHANGED <<bucket, delivered>>
      /\ mcJobs' \subseteq mcJobs \cup {e}
      /\ mcJobs \subseteq mcJobs'
      /\ \/ events' = events \ {e} /\ e \in mcJobs' /\ lost' = lost
         \/ e.try < MaxTries /\ events' = (events \ {e}) \cup {next} /\ lost' = lost
         \/ events' = events \ {e} /\ lost' = lost \cup {e.clip}
  BY <1>1 DEF Handler, HandlerRaises
<1>3. e.try < MaxTries => next \in Notice
  BY <1>1 DEF Notice
<1>4. next.key = e.key /\ next.clip = e.clip
  BY <1>1 DEF Notice
<1>5. TranscodeTypeOK'
  BY <1>1, <1>2, <1>3 DEF TranscodeInv, TranscodeTypeOK
<1>6. NeverTriggersItself' /\ RawClipsHeld'
  <2> SUFFICES ASSUME NEW d \in events' \cup mcJobs'
               PROVE  d.key = RawKey(d.clip) /\ bucket'[d.key] = d.clip
    BY DEF NeverTriggersItself, RawClipsHeld
  <2>1. d \in events \cup mcJobs \/ d = next
    BY <1>2
  <2> QED
    BY <1>2, <1>4, <2>1, PendingNotice
<1>7. OutputsOwnClip'
  BY <1>2 DEF TranscodeInv, OutputsOwnClip
<1>8. NoClipForgotten'
  <2> SUFFICES ASSUME NEW d \in Clip, delivered'[d] > 0
               PROVE  Served(d)' \/ d \in lost' \/ \E f \in events' \cup mcJobs' : f.clip = d
    BY DEF NoClipForgotten
  <2>1. Served(d)' = Served(d) /\ delivered[d] > 0
    BY <1>2 DEF Served
  <2>2. CASE \E f \in events \cup mcJobs : f.clip = d
    <3>1. PICK f \in events \cup mcJobs : f.clip = d
      BY <2>2
    <3>2. CASE f = e
      BY <1>2, <1>4, <3>1, <3>2
    <3>3. CASE f # e
      BY <1>2, <3>1, <3>3
    <3> QED
      BY <3>2, <3>3
  <2>3. CASE Served(d) \/ d \in lost
    BY <1>2, <2>1, <2>3
  <2> QED
    BY <2>1, <2>2, <2>3 DEF TranscodeInv, NoClipForgotten
<1> QED
  BY <1>5, <1>6, <1>7, <1>8 DEF TranscodeInv

(* A job ends: its output is of its own clip, and nobody is notified of it. *)
LEMMA JobStep ==
  ASSUME TranscodeInv, NEW j \in mcJobs, JobCompletes(j) \/ JobFails(j)
  PROVE  TranscodeInv'
<1> DEFINE c == j.clip
           out == OutputKey(RawKey(c))
<1>1. c \in Clip /\ j.key = RawKey(c) /\ bucket[j.key] = c
  BY PendingNotice
<1>2. /\ mcJobs' = mcJobs \ {j}
      /\ UNCHANGED <<delivered, events>>
      /\ \/ bucket' = [bucket EXCEPT ![out] = c] /\ lost' = lost
         \/ bucket' = bucket /\ lost' = lost \cup {c}
  BY <1>1, KeysApart DEF JobCompletes, JobFails
<1>3. /\ out \in Key
      /\ \A k \in Key : k # out => bucket'[k] = bucket[k]
      /\ bucket' \in [Key -> Clip \cup {NoClip}]
      /\ bucket'[out] \in {bucket[out], c}
      /\ bucket'[out] = c \/ c \in lost'
  BY <1>1, <1>2, KeysApart DEF TranscodeInv, TranscodeTypeOK
<1>4. TranscodeTypeOK'
  BY <1>1, <1>2, <1>3 DEF TranscodeInv, TranscodeTypeOK
<1>5. NeverTriggersItself' /\ RawClipsHeld'
  <2> SUFFICES ASSUME NEW d \in events \cup mcJobs
               PROVE  d.key = RawKey(d.clip) /\ bucket'[d.key] = d.clip
    BY <1>2 DEF NeverTriggersItself, RawClipsHeld
  <2> QED
    BY <1>1, <1>3, PendingNotice, KeysApart
<1>6. \A d \in Clip : d # c => bucket'[OutputKey(RawKey(d))] = bucket[OutputKey(RawKey(d))]
  BY <1>1, <1>3, KeysApart
<1>7. OutputsOwnClip'
  BY <1>1, <1>3, <1>6 DEF TranscodeInv, OutputsOwnClip
<1>8. NoClipForgotten'
  <2> SUFFICES ASSUME NEW d \in Clip, delivered'[d] > 0
               PROVE  Served(d)' \/ d \in lost' \/ \E f \in events' \cup mcJobs' : f.clip = d
    BY DEF NoClipForgotten
  <2>1. CASE d = c
    BY <1>3, <2>1 DEF Served
  <2>2. CASE d # c
    <3>1. Served(d) \/ d \in lost \/ \E f \in events \cup mcJobs : f.clip = d
      BY <1>2 DEF TranscodeInv, NoClipForgotten
    <3> QED
      BY <1>2, <1>6, <2>2, <3>1 DEF Served
  <2> QED
    BY <2>1, <2>2
<1> QED
  BY <1>4, <1>5, <1>7, <1>8 DEF TranscodeInv

(* Only clips that nothing needs any more expire. *)
LEMMA ExpireStep ==
  ASSUME TranscodeInv, NEW c \in Clip, ExpireRawClip(c)
  PROVE  TranscodeInv'
<1>1. /\ bucket' = [bucket EXCEPT ![RawKey(c)] = NoClip]
      /\ UNCHANGED <<delivered, events, mcJobs, lost>>
      /\ \A e \in events \cup mcJobs : e.clip # c
  BY DEF ExpireRawClip
<1>2. \A k \in Key : k # RawKey(c) => bucket'[k] = bucket[k]
  BY <1>1 DEF TranscodeInv, TranscodeTypeOK
<1>3. TranscodeTypeOK'
  BY <1>1 DEF TranscodeInv, TranscodeTypeOK
<1>4. NeverTriggersItself' /\ RawClipsHeld'
  <2> SUFFICES ASSUME NEW e \in events \cup mcJobs
               PROVE  e.key = RawKey(e.clip) /\ bucket'[e.key] = e.clip
    BY <1>1 DEF NeverTriggersItself, RawClipsHeld
  <2> QED
    BY <1>1, <1>2, PendingNotice, KeysApart
<1>5. \A d \in Clip : bucket'[OutputKey(RawKey(d))] = bucket[OutputKey(RawKey(d))]
  BY <1>2, KeysApart
<1>6. OutputsOwnClip' /\ NoClipForgotten'
  BY <1>1, <1>5 DEF TranscodeInv, OutputsOwnClip, NoClipForgotten, Served
<1> QED
  BY <1>3, <1>4, <1>6 DEF TranscodeInv

(* The inductive invariant: outputs stay apart because every notification   *)
(* and job is about a raw clip that is still in the bucket.                 *)
THEOREM TranscodeInvariant == TranscodeSafetySpec => []TranscodeInv
<1>1. TranscodeInv /\ [TranscodeNext]_transcodeVars => TranscodeInv'
  <2> SUFFICES ASSUME TranscodeInv, [TranscodeNext]_transcodeVars
               PROVE  TranscodeInv'
    OBVIOUS
  <2>1. CASE UNCHANGED transcodeVars
    BY <2>1
    DEF TranscodeInv, TranscodeTypeOK, NeverTriggersItself, RawClipsHeld,
        OutputsOwnClip, NoClipForgotten, Served, transcodeVars
  <2> QED
    BY <2>1, NotifyStep, HandlerStep, JobStep, ExpireStep DEF TranscodeNext
<1> QED
  BY <1>1, TranscodeInvInit, PTL DEF TranscodeSafetySpec

(* Types: no notification is tried more often than Lambda tries.            *)
THEOREM TranscodeTypeCorrect == TranscodeSafetySpec => []TranscodeTypeOK
<1>1. TranscodeInv => TranscodeTypeOK
  BY DEF TranscodeInv
<1> QED
  BY <1>1, TranscodeInvariant, PTL

(* The trigger is never run for an output of MediaConvert.                  *)
THEOREM NoRecursion == TranscodeSafetySpec => []NeverTriggersItself
<1>1. TranscodeInv => NeverTriggersItself
  BY DEF TranscodeInv
<1> QED
  BY <1>1, TranscodeInvariant, PTL

(* No order and repetition of jobs puts a clip under another one's output.  *)
THEOREM OutputsApart == TranscodeSafetySpec => []OutputsOwnClip
<1>1. TranscodeInv => OutputsOwnClip
  BY DEF TranscodeInv
<1> QED
  BY <1>1, TranscodeInvariant, PTL

(* A clip that was uploaded is transcoded, under way, or was given up.      *)
THEOREM ClipsAccountedFor == TranscodeSafetySpec => []NoClipForgotten
<1>1. TranscodeInv => NoClipForgotten
  BY DEF TranscodeInv
<1> QED
  BY <1>1, TranscodeInvariant, PTL
-----------------------------------------------------------------------------
(* What the event items promise.                                             *)

LEMMA HighlightKeyUnused ==
  ASSUME NEW c \in Clip, NEW d \in Clip
  PROVE  HighlightKey(c) # RawKey(d) /\ HighlightKey(c) # OutputKey(RawKey(d))
<1>1. HighlightKey(c) # RawKey(d)
  BY DEF HighlightKey, RawKey
<1>2. Len(HighlightKey(c)) = 3 /\ Len(OutputKey(RawKey(d))) = 4
  BY DEF HighlightKey, OutputKey
<1> QED
  BY <1>1, <1>2

NothingServed == \A c \in Clip : bucket[HighlightKey(c)] = NoClip

LEMMA NothingServedStep ==
  ASSUME TranscodeInv, NothingServed, [TranscodeNext]_transcodeVars
  PROVE  NothingServed'
<1> SUFFICES ASSUME NEW c \in Clip
             PROVE  bucket'[HighlightKey(c)] = NoClip
  BY DEF NothingServed
<1> DEFINE k == HighlightKey(c)
<1>1. bucket[k] = NoClip
  BY DEF NothingServed
<1>2. k \in Key /\ DOMAIN bucket = Key
  BY DEF Key, TranscodeInv, TranscodeTypeOK
<1>3. \A d \in Clip : k # RawKey(d) /\ k # OutputKey(RawKey(d))
  BY HighlightKeyUnused
<1> HIDE DEF k
<1>4. ASSUME NEW d \in Clip, PutRawClip(d) \/ ExpireRawClip(d)
      PROVE  bucket'[k] = bucket[k]
  BY <1>2, <1>3, <1>4 DEF PutRawClip, ExpireRawClip
<1>5. ASSUME NEW j \in mcJobs, JobCompletes(j)
      PROVE  bucket'[k] = bucket[k]
  <2>1. j.clip \in Clip /\ j.key = RawKey(j.clip)
    BY PendingNotice
  <2>2. k # OutputKey(j.key)
    BY <1>3, <2>1
  <2> QED
    BY <1>2, <1>5, <2>2 DEF JobCompletes
<1>6. \/ bucket' = bucket
      \/ \E d \in Clip : PutRawClip(d) \/ ExpireRawClip(d)
      \/ \E j \in mcJobs : JobCompletes(j)
  BY DEF TranscodeNext, transcodeVars, NotifyAgain, Handler, HandlerRaises, JobFails
<1>7. bucket'[k] = bucket[k]
  BY <1>4, <1>5, <1>6
<1> QED
  BY <1>1, <1>7 DEF k

(* The finding of TranscodeKeys for any clips and whatever is delivered,     *)
(* retried or given up: at the key that a clip's event item names, there is  *)
(* never an object, because MediaConvert writes one directory below.         *)
THEOREM HighlightsNeverServed ==
  TranscodeSafetySpec => []\A c \in Clip : bucket[HighlightKey(c)] = NoClip
<1>1. TranscodeInit => NothingServed
  BY DEF TranscodeInit, NothingServed, Key
<1>2. TranscodeSafetySpec => []NothingServed
  BY <1>1, NothingServedStep, TranscodeInvariant, PTL DEF TranscodeSafetySpec
<1> QED
  BY <1>2, PTL DEF NothingServed
=============================================================================
