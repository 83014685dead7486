---------------------------- MODULE ChatProperties ----------------------------
(***************************************************************************)
(* What a question is promised between the model's answer and the page.    *)
(***************************************************************************)
EXTENDS ChatPage

\* The type invariant.
TypeOK ==
    /\ task \in [Question -> {"none", "running", "closing", "done"}]
    /\ made \in [Question -> Seq(Event)] /\ chunks \in [Question -> Seq(Event)]
    /\ consumer \in [Question -> {"none", "waiting", "taking", "emptying", "ended", "gone"}]
    /\ record \in [Question -> [finish : BOOLEAN, error : BOOLEAN]]
    /\ response \in [Question -> {"none", "open", "closed", "cut", "aborted"}]
    /\ pipe \in [Question -> Seq(Event)] /\ accepted \subseteq Question
    /\ world \subseteq Promises
    /\ chat \in Chat \union {NoChat} /\ loading \subseteq Chat
    /\ creating \in BOOLEAN /\ isTyping \in BOOLEAN
    /\ asked \in [Question -> Chat \union {NoChat}]
    /\ mounted \subseteq Question /\ stopFlag \subseteq Question
    /\ stream \in [Question -> {"none", "requested", "reading", "done", "aborted", "broken"}]
    /\ shown \in [Question -> Seq(Event)] /\ visits \in 0 .. Visits

\* Every event is handled, under way or waiting, once and in the order it was
\* made: none is lost, doubled or overtaken between the thread and the page.
Delivered == \A q \in Question : made[q] = shown[q] \o pipe[q] \o chunks[q]

\* A response read to its end has shown all events of the answer.
CompleteWhenDone ==
    \A q \in accepted : stream[q] = "done" => task[q] = "done" /\ shown[q] = made[q]

\* What is made, shown and recorded of an answer grows and ends as AnswerStream
\* says, for whoever listens and for whoever looks at the database.
EarOf(q) == IF Open(q) THEN "listening" ELSE stream[q]
SavedOf(q) == IF record[q].error THEN "failed"
              ELSE IF record[q].finish THEN "finished" ELSE "none"
Answers == INSTANCE AnswerStream WITH
    told  <- made,
    heard <- shown,
    ear   <- [q \in Question |-> EarOf(q)],
    saved <- [q \in Question |-> SavedOf(q)]

AnswerSpec == Answers!Spec

\* While an answer is awaited the input is disabled: no second question joins
\* it, unless an answer that was stopped still ends, or a connection breaks
\* after the answer has ended.
OneAtATime ==
    Promised("reliable") /\ Promised("patient") => /\ Cardinality({q \in Question : Awaited(q)}) <= 1
                            /\ \A q \in Question : Awaited(q) => isTyping

\* While the input is disabled an answer is awaited.
TypingIsForAnAnswer == Promised("sound") => (isTyping => \E q \in Question : Awaited(q))

\* The input comes back, whether the answer finishes, fails, is stopped or
\* breaks off.
InputComesBack == Promised("sound") /\ isTyping ~> ~isTyping

\* A question that was accepted is finished in the database, whoever still
\* listens, and its generator gives its thread back.
RecordFinishes ==
    \A q \in Question :
        Promised("sound") /\ q \in accepted
            ~> record[q].finish /\ consumer[q] \in {"ended", "gone"}
=============================================================================
