----------------------------- MODULE Transcode -----------------------------
(* From a raw clip of the worker to the clip that viewers are sent to: the  *)
(* notification of the processed-highlights bucket, the mediaconvert_trigger *)
(* Lambda, which Lambda runs again when it raises, and MediaConvert's jobs. *)
EXTENDS Naturals, Sequences

CONSTANTS
  Clip, NoClip,     \* the clips of a match; the contents of no object
  MaxDeliveries,    \* bound: notifications about one clip
  MaxTries,         \* Lambda runs the trigger this often per notification
  TranscodeFaults   \* the disturbances of this run

(* raise : the trigger raises, before or after create_job has taken effect   *)
(* job   : MediaConvert gives a job up                                       *)
ASSUME TranscodeAssumptions ==
  /\ NoClip \notin Clip
  /\ MaxDeliveries \in Nat \ {0}
  /\ MaxTries \in Nat \ {0}
  /\ TranscodeFaults \subseteq {"raise", "job"}

VARIABLES
  bucket,      \* processed-highlights: which clip a key holds
  delivered,   \* notifications so far about a clip
  events,      \* notifications that the trigger has yet to handle
  mcJobs,      \* MediaConvert jobs in progress
  lost         \* clips with a notification or a job that was given up

transcodeVars == <<bucket, delivered, events, mcJobs, lost>>

(* Keys as their parts, without the extension: {prefix}{team/match}/{event} *)
RawKey(c) == <<"raw-clips/", "match", c>>
HighlightKey(c) == <<"clips/", "match", c>>

(* Mutant: only the directory of the clip is kept, and no slash after it.   *)
OutputKeyOfMatch(key) == <<"clips/", key[2]>>

(* build_output_prefix makes a directory of the clip's own name, to which   *)
(* MediaConvert adds the base name of the input file.                       *)
OutputKey(key) == <<"clips/", key[2], key[3], key[3]>>

Key == {RawKey(c) : c \in Clip} \cup {HighlightKey(c) : c \in Clip}
         \cup {OutputKey(RawKey(c)) : c \in Clip}

(* A notification, in its n-th delivery for the clip and a try of Lambda's; *)
(* the job that this try creates.                                           *)
Notice == [key : Key, clip : Clip, n : 1..MaxDeliveries, try : 1..MaxTries]

TranscodeTypeOK ==
  /\ bucket \in [Key -> Clip \cup {NoClip}]
  /\ delivered \in [Clip -> 0..MaxDeliveries]
  /\ events \in SUBSET Notice
  /\ mcJobs \in SUBSET Notice
  /\ lost \in SUBSET Clip

TranscodeInit ==
  /\ bucket = [k \in Key |-> NoClip]
  /\ delivered = [c \in Clip |-> 0]
  /\ events = {}
  /\ mcJobs = {}
  /\ lost = {}
-----------------------------------------------------------------------------
(* Mutant: the notification has no filter_prefix. *)
NotifiedAlways(key) == TRUE

(* filter_prefix of the bucket notification. *)
Notified(key) == key[1] = "raw-clips/"

(* Mutant: the prefix is looked for after a leading slash. *)
HandlesAfterSlash(key) == key[1] = "/raw-clips/"

(* The handler's filter: MEDIACONVERT_INPUT_PREFIX. *)
Handles(key) == key[1] = "raw-clips/"

(* S3 notifies, at least once, that c was written under a key. *)
Notify(c, key) ==
  /\ delivered' = [delivered EXCEPT ![c] = @ + 1]
  /\ events' = events \cup {[key |-> key, clip |-> c, n |-> delivered[c] + 1, try |-> 1]}

(* An attempt of the worker uploads the clip; every retry does so again.    *)
PutRawClip(c) ==
  /\ delivered[c] < MaxDeliveries
  /\ bucket' = [bucket EXCEPT ![RawKey(c)] = c]
  /\ Notify(c, RawKey(c))
  /\ UNCHANGED <<mcJobs, lost>>

NotifyAgain(c) ==
  /\ bucket[RawKey(c)] = c
  /\ delivered[c] < MaxDeliveries
  /\ Notify(c, RawKey(c))
  /\ UNCHANGED <<bucket, mcJobs, lost>>

(* Mutant: the error is logged and the handler returns. *)
HandlerSwallows(e) ==
  /\ "raise" \in TranscodeFaults
  /\ e \in events
  /\ events' = events \ {e}
  /\ UNCHANGED <<bucket, delivered, mcJobs, lost>>

(* handler returns: a job for a raw clip, anything else skipped. *)
Handler(e) ==
  /\ e \in events
  /\ events' = events \ {e}
  /\ mcJobs' = IF Handles(e.key) THEN mcJobs \cup {e} ELSE mcJobs
  /\ UNCHANGED <<bucket, delivered, lost>>

(* Mutant: Lambda never gives up. *)
HandlerRaisesForever(e) ==
  /\ "raise" \in TranscodeFaults
  /\ e \in events
  /\ Handles(e.key)
  /\ events' = (events \ {e}) \cup {[e EXCEPT !.try = @ + 1]}
  /\ UNCHANGED <<bucket, delivered, mcJobs, lost>>

(* handler raises, with or without a job to show for it; Lambda tries again *)
(* or drops the notification.                                               *)
HandlerRaises(e) ==
  /\ "raise" \in TranscodeFaults
  /\ e \in events
  /\ Handles(e.key)
  /\ mcJobs' \in {mcJobs, mcJobs \cup {e}}
  /\ IF e.try < MaxTries
     THEN /\ events' = (events \ {e}) \cup {[e EXCEPT !.try = @ + 1]}
          /\ UNCHANGED lost
     ELSE events' = events \ {e} /\ lost' = lost \cup {e.clip}
  /\ UNCHANGED <<bucket, delivered>>

(* MediaConvert finishes a job, and S3 notifies about its output as about   *)
(* any object.                                                              *)
JobCompletes(j) ==
  LET key == OutputKey(j.key) IN
  /\ j \in mcJobs
  /\ bucket[j.key] # NoClip
  /\ mcJobs' = mcJobs \ {j}
  /\ bucket' = [bucket EXCEPT ![key] = bucket[j.key]]
  /\ IF Notified(key) /\ delivered[j.clip] < MaxDeliveries
     THEN Notify(j.clip, key) ELSE UNCHANGED <<delivered, events>>
  /\ UNCHANGED lost

(* Nobody listens to the jobs' results. *)
JobFails(j) ==
  /\ "job" \in TranscodeFaults
  /\ j \in mcJobs
  /\ mcJobs' = mcJobs \ {j}
  /\ lost' = lost \cup {j.clip}
  /\ UNCHANGED <<bucket, delivered, events>>

(* The lifecycle rule, seven days on: the notifications and jobs of the     *)
(* clip are long over.                                                      *)
ExpireRawClip(c) ==
  /\ delivered[c] > 0
  /\ \A e \in events \cup mcJobs : e.clip # c
  /\ bucket' = [bucket EXCEPT ![RawKey(c)] = NoClip]
  /\ UNCHANGED <<delivered, events, mcJobs, lost>>
-----------------------------------------------------------------------------
TranscodeNext ==
  \/ \E c \in Clip : PutRawClip(c) \/ NotifyAgain(c) \/ ExpireRawClip(c)
  \/ \E e \in events : Handler(e) \/ HandlerRaises(e)
  \/ \E j \in mcJobs : JobCompletes(j) \/ JobFails(j)

TranscodeSafetySpec == TranscodeInit /\ [][TranscodeNext]_transcodeVars

(* Lambda runs the trigger, MediaConvert its jobs. *)
TranscodeFairness ==
  /\ WF_transcodeVars(\E e \in events : Handler(e) \/ HandlerRaises(e))
  /\ WF_transcodeVars(\E j \in mcJobs : JobCompletes(j))

TranscodeSpec == TranscodeSafetySpec /\ TranscodeFairness
-----------------------------------------------------------------------------
(* Properties.                                                               *)

Served(c) == bucket[OutputKey(RawKey(c))] = c

(* MediaConvert's outputs never set the trigger off again: all that it is   *)
(* ever invoked for, and all jobs, are about clips that the worker wrote.   *)
NeverTriggersItself ==
  \A e \in events \cup mcJobs : e.key = RawKey(e.clip)

(* However often the clips of a match are uploaded, announced and           *)
(* transcoded, and in whatever order the jobs end, each output is of its    *)
(* own clip.                                                                *)
OutputsOwnClip == \A c \in Clip : bucket[OutputKey(RawKey(c))] \in {NoClip, c}

(* No clip is forgotten: it is transcoded, or a notification or a job of it *)
(* is on its way, or one was given up; the raw clip is not removed before.  *)
NoClipForgotten ==
  \A c \in Clip : delivered[c] > 0 =>
    Served(c) \/ c \in lost \/ \E e \in events \cup mcJobs : e.clip = c

(* Every clip is transcoded in the end unless something gave it up.         *)
ClipsConclude == \A c \in Clip : delivered[c] > 0 ~> Served(c) \/ c \in lost

(* Every clip can be fetched under the key that its event item names.       *)
HighlightsServed ==
  \A c \in Clip : delivered[c] > 0 ~> bucket[HighlightKey(c)] = c
=============================================================================
