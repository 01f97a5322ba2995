---------------------------- MODULE VoiceSession ----------------------------
(***************************************************************************)
(* One voice session (voice/aether-voice/src/lib.rs) with its recording    *)
(* session (voice/aether-stt/src/lib.rs) and its speech queue              *)
(* (voice/aether-tts/src/lib.rs): wake word, command, reply, playback.     *)
(*                                                                         *)
(* Audio is named by the wake it follows: a recording, a transcript and a  *)
(* reply are the set of the wakes after which their audio was taken.       *)
(***************************************************************************)
EXTENDS Integers, Sequences

CONSTANT MaxWakes       \* bound on the wakes

VARIABLES voice,        \* state of the session
          wakes,        \* number of the last wake
          stt,          \* state of the recording session
          recording,    \* its buffer
          last_result,  \* its result; {} when there is none
          transcript, reply,  \* pending_transcript, pending_reply; {}: none
          queue, playing,     \* of the speech session
          spoken        \* history: the replies played to their end

voiceVars == <<voice, wakes, stt, recording, last_result, transcript, reply, queue, playing,
               spoken>>

VoiceInit == /\ voice = "Idle" /\ wakes = 0
             /\ stt = "Idle" /\ recording = {} /\ last_result = {}
             /\ transcript = {} /\ reply = {}
             /\ queue = <<>> /\ playing = FALSE
             /\ spoken = <<>>

start == /\ voice # "Stopped"
         /\ voice' = "Listening"
         /\ UNCHANGED <<wakes, stt, recording, last_result, transcript, reply, queue, playing,
                        spoken>>

stop_speaking == /\ queue' = <<>> /\ playing' = FALSE
                 /\ stt' = "Idle" /\ recording' = {}
                 /\ voice' = "Stopped"
                 /\ UNCHANGED <<wakes, last_result, transcript, reply, spoken>>

(* Mutant: the result of the command before is still there. *)
SttKeepsResult == /\ stt' = "Listening"
                  /\ recording' = {}
                  /\ last_result' = last_result

stt_start == /\ stt' = "Listening"
             /\ recording' = {}
             /\ last_result' = {}

\* feed while listening, with a buffer that holds the wake word.
wake == /\ voice = "Listening"
        /\ wakes < MaxWakes
        /\ wakes' = wakes + 1
        /\ voice' = "Capturing"
        /\ stt_start
        /\ UNCHANGED <<transcript, reply, queue, playing, spoken>>

\* feed after the wake: is the buffer loud, and does it end the utterance?
feed(loud, ends) ==
    /\ voice \in {"Capturing", "Thinking"}
    /\ stt \notin {"Idle", "Done"}
    /\ recording' = recording \union {wakes}
    /\ LET speaking == stt = "Speaking" \/ (stt = "Listening" /\ loud)
       IN  stt' = IF speaking THEN IF ends THEN "Pending" ELSE "Speaking" ELSE stt
    /\ UNCHANGED <<voice, wakes, last_result, transcript, reply, queue, playing, spoken>>

\* Is the transcription there, with enough confidence?
stt_process(ok) ==
    CASE stt # "Pending" -> UNCHANGED <<stt, recording, last_result>>
      [] stt = "Pending" /\ ok -> /\ stt' = "Done"
                                  /\ last_result' = recording
                                  /\ UNCHANGED recording
      [] OTHER -> /\ stt' = "Listening"
                  /\ recording' = {}
                  /\ UNCHANGED last_result

tick_capturing(ok) ==
    /\ voice = "Capturing"
    /\ stt_process(ok)
    /\ IF last_result' # {}
       THEN /\ transcript' = last_result'
            /\ reply' = last_result'
            /\ voice' = "Thinking"
       ELSE /\ voice' = IF stt' = "Listening" THEN "Listening" ELSE voice
            /\ UNCHANGED <<transcript, reply>>
    /\ UNCHANGED <<wakes, queue, playing, spoken>>

tick_thinking ==
    /\ voice = "Thinking"
    /\ reply # {}
    /\ queue' = Append(queue, reply)
    /\ voice' = "Speaking"
    /\ UNCHANGED <<wakes, stt, recording, last_result, transcript, reply, playing, spoken>>

\* TtsSession::tick: does it play afterwards?  A synthesis that fails leaves
\* the request at the head of the queue.
plays(ok) == playing \/ (queue # <<>> /\ ok)

tick_speaking(ok) ==
    /\ voice = "Speaking"
    /\ playing' = plays(ok)
    /\ IF queue = <<>> /\ ~ playing'
       THEN /\ transcript' = {} /\ reply' = {}
            /\ voice' = "Listening"
       ELSE UNCHANGED <<voice, transcript, reply>>
    /\ UNCHANGED <<wakes, stt, recording, last_result, queue, spoken>>

\* advance, by more or less than what is left of the utterance.
advance(ok, ended) ==
    /\ voice = "Speaking"
    /\ IF plays(ok) /\ ended
       THEN /\ spoken' = Append(spoken, Head(queue))
            /\ queue' = Tail(queue)
            /\ playing' = FALSE
       ELSE /\ playing' = plays(ok)
            /\ UNCHANGED <<queue, spoken>>
    /\ UNCHANGED <<voice, wakes, stt, recording, last_result, transcript, reply>>

VoiceNext == \/ start
             \/ stop_speaking
             \/ wake
             \/ \E loud, ends \in BOOLEAN : feed(loud, ends)
             \/ \E ok \in BOOLEAN : tick_capturing(ok) \/ tick_speaking(ok)
             \/ tick_thinking
             \/ \E ok, ended \in BOOLEAN : advance(ok, ended)

VoiceSpec == VoiceInit /\ [][VoiceNext]_voiceVars

-----------------------------------------------------------------------------
(* Whenever start is called, whichever transcription or synthesis fails:    *)
(* each reply answers what was said after one wake and nothing else, the    *)
(* replies are played in the order of their wakes and none of them twice,   *)
(* what is playing is the head of the queue, and a stopped session has      *)
(* nothing left to play.                                                    *)
RepliesInOrder ==
    LET all == spoken \o queue
    IN  /\ \A i \in DOMAIN all : \E w \in 1..wakes : all[i] = {w}
        /\ \A i, j \in DOMAIN all : i < j => \A v \in all[i], w \in all[j] : v < w
        /\ voice = "Thinking" => reply = {wakes}
        /\ playing => queue # <<>>
        /\ voice = "Stopped" => queue = <<>> /\ ~ playing
=============================================================================
