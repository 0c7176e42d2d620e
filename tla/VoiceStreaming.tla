--------------------------- MODULE VoiceStreaming ---------------------------
(***************************************************************************)
(* How VoiceManager says an answer: _stream_response puts chunks into a    *)
(* bounded SpeechChunkQueue while the runtime generates them, a consumer   *)
(* task has them spoken into the speaker's queue, a worker plays that, and *)
(* a monitor may hear the user and cut everything short.  All are tasks of *)
(* one event loop and interleave at every await.                           *)
(***************************************************************************)
EXTENDS Naturals, Sequences

CONSTANTS
  MaxChunks,   \* chunks of an answer
  QueueLimit,  \* config.queue_limit
  MaxSpoils    \* bound on what goes wrong with speech or playback

ASSUME StreamingAssumption ==
  MaxChunks \in Nat /\ QueueLimit \in Nat \ {0} /\ MaxSpoils \in Nat

VARIABLES
  producer,   \* where _handle_utterance and _stream_response are
  chunk,      \* the last chunk generated
  queue,      \* SpeechChunkQueue: chunk numbers, 0 for _END
  closed,     \* SpeechChunkQueue._closed
  consumer,   \* _consume_speech_queue
  saying,     \* the chunk it is having spoken
  sound,      \* audio in the speaker's queue that is not yet done with
  worker,     \* the speaker's playback worker
  barged,     \* _barge_event
  spoils      \* ghost: failures of speech or of playback so far

streamVars == <<producer, chunk, queue, closed, consumer, saying, sound, worker,
                barged, spoils>>

END == 0

StreamTypeOK ==
  /\ producer \in {"idle", "generating", "putting", "closing", "joining", "draining"}
  /\ chunk \in 0..MaxChunks /\ saying \in 0..MaxChunks
  /\ Len(queue) <= QueueLimit
  /\ closed \in BOOLEAN /\ barged \in BOOLEAN
  /\ consumer \in {"getting", "speaking", "ended", "failed"}
  /\ sound \in 0..MaxChunks /\ worker \in {"waiting", "playing", "dead"}
  /\ spoils \in 0..MaxSpoils

StreamInit ==
  /\ producer = "idle" /\ chunk = 0 /\ queue = <<>> /\ closed = FALSE
  /\ consumer = "ended" /\ saying = 0 /\ sound = 0 /\ worker = "waiting"
  /\ barged = FALSE /\ spoils = 0

-----------------------------------------------------------------------------
(* Mutant: cancelling adds the end but keeps what is queued.               *)
CancelledUnflushed(q) == IF Len(q) < QueueLimit THEN Append(q, END) ELSE q

(* SpeechChunkQueue.cancel: flush, close, and the end; a put that waited   *)
(* for room comes after it.                                                *)
Cancelled(q) == <<END>>

(* _handle_utterance up to the consumer it creates.                        *)
HearsUtterance ==
  /\ producer = "idle" /\ producer' = "generating"
  /\ chunk' = 0 /\ queue' = <<>> /\ closed' = FALSE
  /\ consumer' = "getting" /\ saying' = 0 /\ barged' = FALSE
  /\ UNCHANGED <<sound, worker, spoils>>

(* The rest of _handle_utterance: whatever was said is drained first.      *)
Drains == producer' = "draining"

(* _stream_response's handler: the queue is cancelled, the consumer too;   *)
(* an error that no barge-in explains ends the utterance.                  *)
StreamRaises ==
  /\ queue' = Cancelled(queue) /\ closed' = TRUE /\ consumer' = "ended"
  /\ producer' = IF barged THEN "draining" ELSE "idle"
  /\ UNCHANGED <<chunk, saying, sound, worker, barged, spoils>>

(* The runtime yields a chunk; put raises on a closed queue.               *)
Generates ==
  /\ producer = "generating" /\ chunk < MaxChunks
  /\ IF closed THEN StreamRaises
     ELSE /\ producer' = "putting" /\ chunk' = chunk + 1
          /\ UNCHANGED <<queue, closed, consumer, saying, sound, worker, barged,
                         spoils>>
RuntimeRaises == producer = "generating" /\ StreamRaises

(* Mutant: the queue has no limit.                                         *)
PutsUnbounded ==
  /\ producer = "putting" /\ queue' = Append(queue, chunk) /\ producer' = "generating"
  /\ UNCHANGED <<chunk, closed, consumer, saying, sound, worker, barged, spoils>>

Puts ==
  /\ producer = "putting" /\ Len(queue) < QueueLimit
  /\ queue' = Append(queue, chunk) /\ producer' = "generating"
  /\ UNCHANGED <<chunk, closed, consumer, saying, sound, worker, barged, spoils>>

(* The answer is complete: close, put the end, await the consumer.         *)
Closes ==
  /\ producer = "generating"
  /\ producer' = (IF closed THEN "joining" ELSE "closing") /\ closed' = TRUE
  /\ UNCHANGED <<chunk, queue, consumer, saying, sound, worker, barged, spoils>>

(* Mutant: closing the queue does not mark its end.                        *)
PutsNoEnd ==
  /\ producer = "closing" /\ producer' = "joining"
  /\ UNCHANGED <<chunk, queue, closed, consumer, saying, sound, worker, barged, spoils>>

PutsEnd ==
  /\ producer = "closing" /\ Len(queue) < QueueLimit
  /\ queue' = Append(queue, END) /\ producer' = "joining"
  /\ UNCHANGED <<chunk, closed, consumer, saying, sound, worker, barged, spoils>>
Joins ==
  /\ producer = "joining"
  /\ \/ /\ consumer = "ended" /\ Drains
        /\ UNCHANGED <<chunk, queue, closed, consumer, saying, sound, worker, barged,
                       spoils>>
     \/ consumer = "failed" /\ StreamRaises
Drained ==
  /\ producer = "draining" /\ sound = 0 /\ producer' = "idle"
  /\ UNCHANGED <<chunk, queue, closed, consumer, saying, sound, worker, barged,
                 spoils>>

-----------------------------------------------------------------------------
(* _consume_speech_queue and _speak_chunk                                  *)
Gets ==
  /\ consumer = "getting" /\ queue # <<>> /\ queue' = Tail(queue)
  /\ saying' = Head(queue)
  /\ consumer' = IF Head(queue) = END THEN "ended" ELSE "speaking"
  /\ UNCHANGED <<producer, chunk, closed, sound, worker, barged, spoils>>
Speaks ==
  /\ consumer = "speaking" /\ sound < MaxChunks
  /\ consumer' = "getting" /\ sound' = sound + 1
  /\ UNCHANGED <<producer, chunk, queue, closed, saying, worker, barged, spoils>>
SpeechFails ==
  /\ consumer = "speaking" /\ spoils < MaxSpoils
  /\ consumer' = "failed" /\ spoils' = spoils + 1
  /\ UNCHANGED <<producer, chunk, queue, closed, saying, sound, worker, barged>>

(* SoundDeviceSpeaker._playback_worker: an error in playing ends it.       *)
Plays ==
  /\ worker = "waiting" /\ sound > 0 /\ worker' = "playing"
  /\ UNCHANGED <<producer, chunk, queue, closed, consumer, saying, sound, barged,
                 spoils>>
Played ==
  /\ worker = "playing" /\ worker' = "waiting" /\ sound' = IF sound > 0 THEN sound - 1 ELSE 0
  /\ UNCHANGED <<producer, chunk, queue, closed, consumer, saying, barged,
                 spoils>>
PlaybackFails ==
  /\ worker = "playing" /\ spoils < MaxSpoils
  /\ worker' = "dead" /\ sound' = IF sound > 0 THEN sound - 1 ELSE 0
  /\ spoils' = spoils + 1
  /\ UNCHANGED <<producer, chunk, queue, closed, consumer, saying, barged>>

(* _monitor_barge_in and stop_current_speech: the queue is cancelled while *)
(* a response streams; what the speaker has not begun is dropped.          *)
BargesIn ==
  /\ producer # "idle" /\ ~barged /\ barged' = TRUE
  /\ IF producer = "draining" THEN UNCHANGED <<queue, closed>>
     ELSE queue' = Cancelled(queue) /\ closed' = TRUE
  /\ sound' = IF worker = "playing" THEN 1 ELSE 0
  /\ UNCHANGED <<producer, chunk, consumer, saying, worker, spoils>>

Streaming ==
  \/ Generates \/ Puts \/ Closes \/ PutsEnd \/ Joins \/ Drained
Speaking == Gets \/ Speaks
Playing  == Plays \/ Played

StreamNext ==
  \/ HearsUtterance \/ Streaming \/ RuntimeRaises \/ Speaking \/ SpeechFails
  \/ Playing \/ PlaybackFails \/ BargesIn

(* The event loop runs every task that can run.                            *)
StreamFairness ==
  WF_streamVars(Streaming) /\ WF_streamVars(Speaking) /\ WF_streamVars(Playing)

-----------------------------------------------------------------------------
(* Once the user has cut in, nothing queued or still to come is spoken:    *)
(* only the chunk already in the synthesiser may be said to its end.       *)
SilentAfterBargeIn ==
  [][barged /\ barged' /\ consumer # "speaking" => consumer' # "speaking"]_streamVars

(* Every answer comes to its end and the loop listens again, as long as    *)
(* neither speech nor playback has failed: the bounded queue never leaves  *)
(* the two sides waiting on each other, barge-in or not.                   *)
EveryAnswerEnds ==
  producer # "idle" ~> (producer = "idle" \/ spoils > 0)

(* "Voice loop recovers": the same with failures.                          *)
EveryAnswerEndsAnyway == producer # "idle" ~> producer = "idle"
=============================================================================
