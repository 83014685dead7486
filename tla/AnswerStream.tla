----------------------------- MODULE AnswerStream -----------------------------
(***************************************************************************)
(* What whoever asks a question may rely on, whatever threads, generators  *)
(* and connections do: the answer grows by its end and ends once; the page *)
(* hears a beginning of it, that only gets longer; what the database says  *)
(* of the answer agrees with how it was told to end; and a page that has   *)
(* heard the end of the stream has missed nothing of either.               *)
(***************************************************************************)
EXTENDS Naturals, Sequences

CONSTANT Question

VARIABLES
    told,  \* the answer of each question so far
    heard, \* what the page has handled of it
    ear,   \* "none", "listening" or how that ended: "done", "aborted", "broken"
    saved, \* the record of the question: "none", "finished" or "failed"
    world  \* rigid: "sound" and "reliable" are what can be relied on

answers == <<told, heard, ear, saved, world>>

Tells(q, e) == \E i \in DOMAIN told[q] : told[q][i] = e
Over(q) == Tells(q, "finish") \/ Tells(q, "error")

Init ==
    /\ told = [q \in Question |-> <<>>]
    /\ heard = [q \in Question |-> <<>>]
    /\ ear = [q \in Question |-> "none"]
    /\ saved = [q \in Question |-> "none"]

\* A question is asked once.
Ask(q) ==
    /\ ear[q] = "none" /\ ear' = [ear EXCEPT ![q] = "listening"]
    /\ UNCHANGED <<told, heard, saved, world>>

\* The answer goes on, whether somebody listens or not; never when it is over,
\* when its record is written, or when the page has taken it for complete.
Grow(q, e) ==
    /\ ear[q] \notin {"none", "done"} /\ saved[q] = "none" /\ ~Over(q)
    /\ told' = [told EXCEPT ![q] = Append(@, e)]
    /\ UNCHANGED <<heard, ear, world>>

Tell(q) == (\E e \in {"step", "finish"} : Grow(q, e)) /\ UNCHANGED saved

\* The failure is written and told at once.
Fail(q) == Grow(q, "error") /\ saved' = [saved EXCEPT ![q] = "failed"]

\* Refused before there is anything to write.
Refuse(q) == told[q] = <<>> /\ Grow(q, "error") /\ UNCHANGED saved

\* A record is called finished after the answer told so.
Finish(q) ==
    /\ saved[q] = "none" /\ saved' = [saved EXCEPT ![q] = "finished"]
    /\ "sound" \in world => Tells(q, "finish")
    /\ UNCHANGED <<told, heard, ear, world>>

\* The page handles more of the answer, from its beginning and in its order.
Hear(q) ==
    /\ ear[q] = "listening"
    /\ \E n \in Len(heard[q]) .. Len(told[q]) :
           heard' = [heard EXCEPT ![q] = SubSeq(told[q], 1, n)]
    /\ \E e \in {"listening", "aborted"} : ear' = [ear EXCEPT ![q] = e]
    /\ UNCHANGED <<told, saved, world>>

BreakOff(q) ==
    /\ ear[q] = "listening" /\ "reliable" \notin world
    /\ ear' = [ear EXCEPT ![q] = "broken"]
    /\ UNCHANGED <<told, heard, saved, world>>

\* The end of the stream: everything was heard, and is written unless refused.
HearTheEnd(q) ==
    /\ ear[q] = "listening" /\ heard[q] = told[q]
    /\ "sound" \in world => Over(q) /\ (saved[q] # "none" \/ told[q] = <<"error">>)
    /\ ear' = [ear EXCEPT ![q] = "done"]
    /\ UNCHANGED <<told, heard, saved, world>>

Next == \E q \in Question :
            \/ Ask(q) \/ Tell(q) \/ Fail(q) \/ Refuse(q) \/ Finish(q)
            \/ Hear(q) \/ BreakOff(q) \/ HearTheEnd(q)

Spec == Init /\ [][Next]_answers
=============================================================================
