---------------------------- MODULE CaptionHelper -----------------------------
(***************************************************************************)
(* The recognition process of Live Caption (caption-engine/main.cpp).  One *)
(* thread reads the sound, cuts it into utterances and hands each to the   *)
(* other, which owns the model, through RecognitionQueue: the sound of a   *)
(* whole utterance, whose text is final, and now and then a preview of the *)
(* one that is being spoken.  Finals are kept in order within a budget; a  *)
(* preview is only taken when nothing else is, and given up for a final.   *)
(*                                                                         *)
(* Sound is counted in frames.  Where silence ends an utterance, when a    *)
(* preview is due (PreviewSchedule, and empty_preview_ with it), what is   *)
(* said and the diagnostics are left open; the streaming candidate is not  *)
(* modelled.  LiveCaption is the other end of the process.                 *)
(***************************************************************************)
EXTENDS Naturals, Sequences

CONSTANTS
  None,
  Shortest,   \* frames of the shortest utterance: sample_rate / 3
  Longest,    \* max_samples
  Budget,     \* of the queue: max_samples and a frame
  MaxFrames   \* frames read

HelperAssumption ==
  /\ {Shortest, Longest, Budget, MaxFrames} \subseteq Nat
  /\ 0 < Shortest /\ Shortest <= Longest /\ Longest <= Budget
  /\ None \notin Nat \cup [sequence : Nat, final : BOOLEAN]

VARIABLES
  reader,    \* where read_pcm and main are; speech and sequence of read_pcm, whether the input ended; the result
  finals,    \* finals_: [sequence, size]
  queued,    \* queued_samples_
  partial,   \* sequence of partial_, or None
  active,    \* active_: [sequence, final], or None; busy_ with it
  visible,   \* visible_sequence_
  cancel,    \* cancel_partial_
  closed, aborted,
  decoder,   \* where the decoding thread is; stopped: whisper_full was told to end
  failed,    \* inference_failed
  output,    \* events written: [type, sequence]
  accepted,  \* utterances the queue took
  broken,    \* the model failed
  full,      \* an utterance did not fit
  frames

queue == <<finals, queued, partial, active, visible, cancel, closed, aborted>>
ghosts == <<accepted, full>>
vars == <<reader, queue, decoder, failed, output, accepted, broken, full, frames>>

Numbers == 1..(MaxFrames + 1)
Event(type, n) == [type |-> type, sequence |-> n]

TypeOK ==
  /\ reader.at \in {"reading", "admitting", "refused", "leaving", "joining", "exited"}
  /\ reader.speech \in 0..Longest /\ reader.sequence \in Numbers /\ reader.over \in BOOLEAN /\ reader.result \in {0, 4, 5, 6, 7}
  /\ \A i \in DOMAIN finals : finals[i].sequence \in Numbers /\ finals[i].size \in Shortest..Longest
  /\ queued \in 0..Budget /\ partial \in Numbers \union {None} /\ visible \in Numbers \union {0}
  /\ active # None => active.sequence \in Numbers /\ active.final \in BOOLEAN
  /\ {cancel, closed, aborted, failed, broken, full} \subseteq BOOLEAN
  /\ decoder.at \in {"waiting", "decoding", "done", "failing", "ended"}
  /\ \A i \in DOMAIN output : output[i].type \in {"partial", "final", "empty", "audioBacklog", "engineFailed", "stopped"}
  /\ frames \in 0..MaxFrames

Init ==
  /\ reader = [at |-> "reading", speech |-> 0, sequence |-> 1, over |-> FALSE, result |-> 0]
  /\ finals = <<>> /\ queued = 0 /\ partial = None /\ active = None /\ visible = 0
  /\ cancel = FALSE /\ closed = FALSE /\ aborted = FALSE
  /\ decoder = [at |-> "waiting", stopped |-> FALSE, text |-> FALSE]
  /\ failed = FALSE /\ output = <<>> /\ accepted = <<>> /\ broken = FALSE /\ full = FALSE /\ frames = 0

-----------------------------------------------------------------------------
\* RecognitionQueue: each operation holds its mutex.

\* cancelled
Cancelled(final) == aborted \/ (~final /\ cancel)

\* offer_partial
OfferPartial ==
  /\ partial' = IF closed \/ active # None \/ partial # None \/ finals # <<>> THEN partial ELSE reader.sequence
  /\ UNCHANGED <<finals, queued, active, visible, cancel, closed, aborted>>

Fits(size) == ~closed /\ size <= Budget - queued

\* Mutant: only a later preview of the same utterance is given up.
ExpendableOfSame(n) == active = None \/ active.final \/ (active.sequence = n /\ visible = n)

\* Whether a final gives up what is decoded: not the first preview of its own utterance.
Expendable(n) == active = None \/ active.final \/ active.sequence # n \/ visible = n

\* submit_final
SubmitFinal(size) ==
  /\ partial' = None /\ cancel' = Expendable(reader.sequence)
  /\ queued' = queued + size /\ finals' = Append(finals, [sequence |-> reader.sequence, size |-> size])
  /\ accepted' = Append(accepted, reader.sequence)
  /\ UNCHANGED <<active, visible, closed, aborted, full>>

\* Mutant: closing the queue drops what it holds.
CloseEmptied ==
  /\ closed' = TRUE /\ partial' = None /\ cancel' = TRUE /\ finals' = <<>> /\ queued' = 0
  /\ UNCHANGED <<active, visible, aborted>>

\* close
CloseQueue ==
  /\ closed' = TRUE /\ partial' = None /\ cancel' = TRUE
  /\ UNCHANGED <<finals, queued, active, visible, aborted>>

\* abort
AbortQueue ==
  /\ closed' = TRUE /\ aborted' = TRUE /\ partial' = None /\ finals' = <<>> /\ queued' = 0
  /\ UNCHANGED <<active, visible, cancel>>

-----------------------------------------------------------------------------
\* The reading thread.

Leaves(result) == [reader EXCEPT !.at = "leaving", !.result = result]

\* finalize: an utterance is over.  Whether inference failed is read first, then the queue is asked.
Finalize(size, over) ==
  reader' = IF failed THEN Leaves(6)
            ELSE IF size >= Shortest THEN [reader EXCEPT !.at = "admitting", !.speech = size, !.over = over]
            ELSE IF over THEN Leaves(0) ELSE [reader EXCEPT !.speech = 0]

Admit ==
  /\ reader.at = "admitting"
  /\ \/ /\ Fits(reader.speech) /\ SubmitFinal(reader.speech)
        /\ reader' = [reader EXCEPT !.at = IF reader.over THEN "leaving" ELSE "reading",
                                    !.speech = 0, !.sequence = @ + 1]
     \/ /\ ~Fits(reader.speech) /\ reader' = [reader EXCEPT !.at = "refused"]
        /\ full' = (full \/ ~closed) /\ UNCHANGED <<queue, accepted>>
  /\ UNCHANGED <<decoder, failed, output, broken, frames>>

\* A frame of an utterance: the utterance ends, or a preview is offered or not.
Frame ==
  /\ reader.at = "reading" /\ frames < MaxFrames /\ frames' = frames + 1
  /\ LET size == reader.speech + 1
         Longer == [reader EXCEPT !.speech = size]
     IN \/ failed /\ reader' = Leaves(6) /\ UNCHANGED <<queue, ghosts>>
        \/ Finalize(size, FALSE) /\ UNCHANGED <<queue, ghosts>>
        \/ ~failed /\ size < Longest /\ reader' = Longer /\ UNCHANGED <<queue, ghosts>>
        \/ ~failed /\ Shortest < size /\ size < Longest /\ reader' = Longer /\ OfferPartial /\ UNCHANGED ghosts
  /\ UNCHANGED <<decoder, failed, output, broken>>

\* The input ends: what was said is final.
EndOfInput ==
  /\ reader.at = "reading" /\ Finalize(reader.speech, TRUE)
  /\ UNCHANGED <<queue, decoder, failed, output, ghosts, broken, frames>>

\* The input is malformed, or the detection of speech in a frame fails.
BadInput ==
  /\ reader.at = "reading"
  /\ \/ reader' = Leaves(4)
     \/ ~failed /\ reader' = Leaves(5)
  /\ UNCHANGED <<queue, decoder, failed, output, ghosts, broken, frames>>

\* Mutant: the queue that an inference failure closed is reported as full.
RefusedBlindly ==
  /\ reader.at = "refused" /\ output' = Append(output, Event("audioBacklog", 0)) /\ reader' = Leaves(7)
  /\ UNCHANGED <<queue, decoder, failed, ghosts, broken, frames>>

\* The queue did not take an utterance: because inference failed, or because it is full.
Refused ==
  /\ reader.at = "refused"
  /\ IF failed THEN reader' = Leaves(6) /\ UNCHANGED output
     ELSE output' = Append(output, Event("audioBacklog", 0)) /\ reader' = Leaves(7)
  /\ UNCHANGED <<queue, decoder, failed, ghosts, broken, frames>>

\* What was accepted is still decoded unless the input was bad or inference failed.
Leave ==
  /\ reader.at = "leaving" /\ reader' = [reader EXCEPT !.at = "joining"]
  /\ IF reader.result \in {0, 7} THEN CloseQueue ELSE AbortQueue
  /\ UNCHANGED <<decoder, failed, output, ghosts, broken, frames>>

\* decoder.join, and the end of the process.
Exit ==
  /\ reader.at = "joining" /\ decoder.at = "ended"
  /\ reader' = [reader EXCEPT !.at = "exited", !.result = IF failed THEN 6 ELSE @]
  /\ output' = IF reader'.result = 0 THEN Append(output, Event("stopped", 0)) ELSE output
  /\ UNCHANGED <<queue, decoder, failed, ghosts, broken, frames>>

-----------------------------------------------------------------------------
\* The decoding thread.

Decodes(n, final) ==
  /\ active' = [sequence |-> n, final |-> final] /\ cancel' = FALSE
  /\ decoder' = [at |-> "decoding", stopped |-> FALSE, text |-> FALSE]

\* take
Take ==
  /\ decoder.at = "waiting"
  /\ \/ /\ finals # <<>> /\ Decodes(Head(finals).sequence, TRUE)
        /\ finals' = Tail(finals) /\ queued' = queued - Head(finals).size /\ UNCHANGED partial
     \/ /\ finals = <<>> /\ partial # None /\ Decodes(partial, FALSE)
        /\ partial' = None /\ UNCHANGED <<finals, queued>>
     \/ /\ closed /\ finals = <<>> /\ partial = None /\ decoder' = [decoder EXCEPT !.at = "ended"]
        /\ UNCHANGED <<finals, queued, partial, active, cancel>>
  /\ UNCHANGED <<reader, visible, closed, aborted, failed, output, ghosts, broken, frames>>

\* whisper_full asks the abort callback, and gives up.
GiveUp ==
  /\ decoder.at = "decoding" /\ ~decoder.stopped /\ Cancelled(active.final)
  /\ decoder' = [decoder EXCEPT !.stopped = TRUE]
  /\ UNCHANGED <<reader, queue, failed, output, ghosts, broken, frames>>

\* recognize, once whisper_full returned: it was cancelled, failed, or has the text or that there is none.
Recognize ==
  /\ decoder.at = "decoding"
  /\ \/ /\ Cancelled(active.final)
        /\ decoder' = [decoder EXCEPT !.at = "done"] /\ UNCHANGED <<failed, output, broken>>
     \/ /\ ~Cancelled(active.final) /\ broken' = ~decoder.stopped /\ failed' = TRUE
        /\ decoder' = [decoder EXCEPT !.at = "failing"] /\ UNCHANGED output
     \/ /\ ~Cancelled(active.final) /\ ~decoder.stopped
        /\ \/ /\ output' = Append(output, Event(IF active.final THEN "final" ELSE "partial", active.sequence))
              /\ decoder' = [decoder EXCEPT !.at = "done", !.text = TRUE]
           \/ /\ output' = IF active.final THEN Append(output, Event("empty", active.sequence)) ELSE output
              /\ decoder' = [decoder EXCEPT !.at = "done"]
        /\ UNCHANGED <<failed, broken>>
  /\ UNCHANGED <<reader, queue, ghosts, frames>>

\* complete
Complete ==
  /\ decoder.at = "done" /\ decoder' = [decoder EXCEPT !.at = "waiting"]
  /\ visible' = IF decoder.text THEN active.sequence ELSE visible
  /\ active' = None
  /\ UNCHANGED <<reader, finals, queued, partial, cancel, closed, aborted, failed, output, ghosts, broken, frames>>

\* The error is reported after it was noted, and the queue is aborted.
Fail ==
  /\ decoder.at = "failing" /\ decoder' = [decoder EXCEPT !.at = "ended"]
  /\ output' = Append(output, Event("engineFailed", 0)) /\ AbortQueue
  /\ UNCHANGED <<reader, failed, ghosts, broken, frames>>

-----------------------------------------------------------------------------
Reads == Frame \/ EndOfInput \/ BadInput \/ Admit \/ Refused \/ Leave \/ Exit
Decoding == Take \/ GiveUp \/ Recognize \/ Complete \/ Fail
Next == Reads \/ Decoding

FairSpec == Init /\ [][Next]_vars /\ WF_vars(Reads) /\ WF_vars(Decoding)

-----------------------------------------------------------------------------
\* The events written that answer an utterance, those about the text of one, and the utterances answered.
Answers == {i \in DOMAIN output : output[i].type \in {"final", "empty"}}
Texts == {i \in DOMAIN output : output[i].type \in {"partial", "final", "empty"}}
Answered == {output[i].sequence : i \in Answers}
Written(type) == \E i \in DOMAIN output : output[i].type = type

\* Partial sums lead from nothing to what is queued.
SizesAddUp ==
  \E sums \in [0..Len(finals) -> 0..Budget] :
    /\ sums[0] = 0 /\ sums[Len(finals)] = queued
    /\ \A i \in DOMAIN finals : sums[i] = sums[i - 1] + finals[i].size

\* The queue counts what it holds, and no preview waits behind other work ("A partial snapshot is accepted
\* only when inference is idle; it is never queued behind previous inference", live-caption.md).
QueueCounts ==
  /\ SizesAddUp
  /\ partial # None => active = None /\ finals = <<>>

\* Utterances are answered in the order they were spoken, each once and none left out, and no preview of
\* one comes after its answer ("Finals retain FIFO order and are never coalesced").
AnswersInOrder ==
  /\ \E n \in 0..Len(accepted) : Answered = {accepted[i] : i \in 1..n}
  /\ \A i, j \in Texts : i < j =>
       output[i].sequence < output[j].sequence \/ (output[i].sequence = output[j].sequence /\ output[i].type = "partial")

\* A process that did not fail answered all it accepted, also when it ends because it could not keep up.
AllAreAnswered == reader.at = "exited" /\ reader.result \in {0, 7} => \A i \in DOMAIN accepted : accepted[i] \in Answered

\* Work that was given up is not reported as a failure of the model, nor that failure as a lack of room
\* ("prevents an inference failure during final admission from being relabeled as backlog").
ErrorsAreTrue == (failed => broken) /\ (Written("audioBacklog") => full)

HelperIsSound == TypeOK /\ QueueCounts /\ AnswersInOrder /\ AllAreAnswered /\ ErrorsAreTrue

\* The process ends when its input does.
Rests == reader.at = "exited"
=============================================================================
