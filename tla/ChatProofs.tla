----------------------------- MODULE ChatProofs -----------------------------
(***************************************************************************)
(* Proofs, for any number of questions, events and chats and in every      *)
(* world, that the events of an answer reach the page once and in order,   *)
(* that a response read to its end has shown the whole answer, and that    *)
(* the input is disabled for the one answer that is awaited.               *)
(***************************************************************************)
EXTENDS ChatProperties, FiniteSetTheorems, SequenceTheorems, TLAPS

-----------------------------------------------------------------------------
(* The inductive invariant. *)

\* Before the back end answers nothing exists of a question.
NothingYet(q) ==
    response[q] = "none" =>
        /\ task[q] = "none" /\ consumer[q] = "none" /\ q \notin accepted
        /\ made[q] = <<>> /\ chunks[q] = <<>> /\ pipe[q] = <<>> /\ shown[q] = <<>>

\* A task that runs has not made its last event.
EventsLeft(q) == task[q] = "running" => Len(made[q]) <= Steps[q]

\* A generator that saw the task done takes what is left, and ends when nothing is.
SawItDone(q) ==
    /\ consumer[q] = "emptying" => task[q] = "done"
    /\ consumer[q] = "ended" => task[q] = "done" /\ chunks[q] = <<>>

\* The response of a task is ended by its generator.
EndedByGenerator(q) ==
    q \in accepted /\ response[q] = "closed" => consumer[q] = "ended"

\* What has been handled, what is under way and what waits, in a line.
Line(a, b, c) == a \o b \o c
InLine(q) == made[q] = Line(shown[q], pipe[q], chunks[q])

AllShown(q) ==
    q \in accepted /\ stream[q] = "done" => task[q] = "done" /\ shown[q] = made[q]

Sound(q) == /\ NothingYet(q) /\ EventsLeft(q) /\ SawItDone(q) /\ EndedByGenerator(q)
            /\ InLine(q) /\ AllShown(q)

IInv == TypeOK /\ \A q \in Question : Sound(q)

-----------------------------------------------------------------------------
(* Sequences of events. *)

LEMMA EventSeqs == <<>> \in Seq(Event) /\ \A e \in Event : <<e>> \in Seq(Event)
<1>1. <<>> \in Seq(Event)
  BY EmptySeq
<1>2. ASSUME NEW e \in Event PROVE <<e>> \in Seq(Event)
  OBVIOUS
<1>3. QED
  BY <1>1, <1>2

\* The stages of an answer, then its end.
LEMMA ScriptType ==
    ASSUME NEW q \in Question
    PROVE  /\ Script(q) \in Seq(Event) /\ Len(Script(q)) = Steps[q] + 1
           /\ \A n \in 1 .. Steps[q] + 1 : Script(q)[n] \in Event
<1> DEFINE s == [i \in 1 .. Steps[q] |-> "step"]
<1>1. Steps[q] \in Nat
  BY ChatTaskAssumption DEF Question
<1>2. s \in Seq(Event) /\ Len(s) = Steps[q]
  BY <1>1 DEF Event
<1>3. <<"finish">> \in Seq(Event) /\ Len(<<"finish">>) = 1
  BY EventSeqs DEF Event
<1>4. Script(q) \in Seq(Event) /\ Len(Script(q)) = Steps[q] + 1
  <2>1. Script(q) = s \o <<"finish">>
    BY DEF Script
  <2>2. s \o <<"finish">> \in Seq(Event) /\ Len(s \o <<"finish">>) = Len(s) + 1
    BY <1>2, <1>3, ConcatProperties
  <2>3. QED
    BY <1>2, <2>1, <2>2
<1>5. QED
  BY <1>4, ElementOfSeq

\* The laws of the library for sequences of events.
LEMMA EventConcat ==
    ASSUME NEW a \in Seq(Event), NEW b \in Seq(Event), NEW c \in Seq(Event)
    PROVE  a \o b \in Seq(Event) /\ (a \o b) \o c = a \o (b \o c)
BY ConcatProperties, ConcatAssociative

LEMMA EventAppend ==
    ASSUME NEW a \in Seq(Event), NEW e \in Event
    PROVE  Append(a, e) \in Seq(Event) /\ Append(a, e) = a \o <<e>>
BY AppendProperties, AppendIsConcat

\* An event that is made is added at the end of what is under way.
LEMMA ExtendsAll ==
    ASSUME NEW a \in Seq(Event), NEW b \in Seq(Event), NEW c \in Seq(Event), NEW e \in Event
    PROVE  Append(Line(a, b, c), e) = Line(a, b, Append(c, e))
<1>1. a \o b \in Seq(Event) /\ a \o b \o c \in Seq(Event) /\ <<e>> \in Seq(Event)
  BY EventConcat, EventSeqs
<1>2. Append(a \o b \o c, e) = ((a \o b) \o c) \o <<e>>
  BY <1>1, EventAppend
<1>3. Append(c, e) = c \o <<e>>
  BY EventAppend
<1>4. ((a \o b) \o c) \o <<e>> = (a \o b) \o (c \o <<e>>)
  BY <1>1, EventConcat
<1>5. QED
  BY <1>2, <1>3, <1>4 DEF Line

\* An event taken from the list and written to the connection changes nothing.
LEMMA MovesOne ==
    ASSUME NEW a \in Seq(Event), NEW b \in Seq(Event), NEW c \in Seq(Event), c # <<>>
    PROVE  Line(a, b, c) = Line(a, Append(b, Head(c)), Tail(c))
<1>1. Head(c) \in Event /\ Tail(c) \in Seq(Event) /\ Len(c) \in Nat \ {0}
  BY HeadTailProperties, EmptySeq
<1>2. PICK h \in Seq(Event), r \in Seq(Event) : h = <<Head(c)>> /\ r = Tail(c)
  BY <1>1, EventSeqs
<1>3. c = h \o r
  <2>1. 1 \in 1 .. Len(c) /\ Len(c) \in 1 .. Len(c)
    BY <1>1
  <2>2. SubSeq(c, 1, Len(c)) = <<c[1]>> \o SubSeq(c, 2, Len(c))
    BY <2>1, SubSeqRecursiveFirst
  <2>3. QED
    BY <1>2, <2>2, SubSeqFull, TailIsSubSeq
<1>4. a \o b \o (h \o r) = a \o (b \o h) \o r
  OBVIOUS
<1>5. Append(b, Head(c)) = b \o h
  BY <1>1, <1>2, EventAppend
<1>6. QED
  BY <1>2, <1>3, <1>4, <1>5 DEF Line

\* Neither does a read of the first events of the connection.
LEMMA MovesSome ==
    ASSUME NEW a \in Seq(Event), NEW b \in Seq(Event), NEW c \in Seq(Event),
           NEW n \in 0 .. Len(b)
    PROVE  /\ SubSeq(b, 1, n) \in Seq(Event) /\ SubSeq(b, n + 1, Len(b)) \in Seq(Event)
           /\ Line(a, b, c) = Line(a \o SubSeq(b, 1, n), SubSeq(b, n + 1, Len(b)), c)
<1>1. Len(b) \in Nat /\ n \in Int /\ \A i \in 1 .. Len(b) : b[i] \in Event
  BY LenProperties, ElementOfSeq
<1>2. SubSeq(b, 1, n) \in Seq(Event) /\ SubSeq(b, n + 1, Len(b)) \in Seq(Event)
  BY <1>1, SubSeqProperties
<1>3. PICK x \in Seq(Event), y \in Seq(Event) :
          x = SubSeq(b, 1, n) /\ y = SubSeq(b, n + 1, Len(b))
  BY <1>2
<1>4. x \o y = b
  <2>1. 1 \in 1 .. Len(b) + 1 /\ n \in 1 - 1 .. Len(b) /\ Len(b) \in n .. Len(b)
    BY <1>1
  <2>2. SubSeq(b, 1, n) \o SubSeq(b, n + 1, Len(b)) = SubSeq(b, 1, Len(b))
    BY <2>1, ConcatAdjacentSubSeq
  <2>3. QED
    BY <1>3, <2>2, SubSeqFull
<1>5. a \o (x \o y) \o c = a \o x \o y \o c
  OBVIOUS
<1>6. QED
  BY <1>2, <1>3, <1>4, <1>5 DEF Line

-----------------------------------------------------------------------------
(* Types *)

LEMMA QuestionTypes ==
    ASSUME TypeOK, NEW q \in Question
    PROVE  /\ made[q] \in Seq(Event) /\ chunks[q] \in Seq(Event)
           /\ pipe[q] \in Seq(Event) /\ shown[q] \in Seq(Event)
BY DEF TypeOK

\* Every event that is made is one of the three kinds.
LEMMA StageType ==
    ASSUME TypeOK, NEW q \in Question, EventsLeft(q), task[q] = "running"
    PROVE  /\ Len(made[q]) \in Nat /\ Len(made[q]) + 1 \in 1 .. Steps[q] + 1
           /\ Script(q)[Len(made[q]) + 1] \in Event
<1>1. Len(made[q]) \in Nat
  BY QuestionTypes, LenProperties
<1>2. Steps[q] \in Nat
  BY ChatTaskAssumption DEF Question
<1>3. Len(made[q]) <= Steps[q]
  BY DEF EventsLeft
<1>4. Len(made[q]) + 1 \in 1 .. Steps[q] + 1
  BY <1>1, <1>2, <1>3
<1>5. QED
  BY <1>1, <1>4, ScriptType

LEMMA YieldType ==
    ASSUME TypeOK, NEW q \in Question, NEW e \in Event, Yield(q, e)
    PROVE  made' \in [Question -> Seq(Event)] /\ chunks' \in [Question -> Seq(Event)]
<1>1. Append(made[q], e) \in Seq(Event) /\ Append(chunks[q], e) \in Seq(Event)
  BY QuestionTypes, EventAppend
<1>2. QED
  BY <1>1 DEF TypeOK, Yield

LEMMA ThreadType ==
    ASSUME TypeOK, NEW q \in Question, EventsLeft(q), OffPage,
           NextStage(q) \/ StageFails(q) \/ SaveErrorFails(q) \/ FinishRecord(q)
    PROVE  TypeOK'
<1>1. CASE NextStage(q)
  <2>1. made' \in [Question -> Seq(Event)] /\ chunks' \in [Question -> Seq(Event)]
    BY <1>1, StageType, YieldType DEF NextStage
  <2>2. task' \in [Question -> {"none", "running", "closing", "done"}]
    BY <1>1 DEF NextStage, TypeOK
  <2>3. QED
    BY <1>1, <2>1, <2>2 DEF NextStage, OffPage, wire, pageVars, answerVars, TypeOK
<1>2. CASE StageFails(q)
  <2>1. made' \in [Question -> Seq(Event)] /\ chunks' \in [Question -> Seq(Event)]
    BY <1>2, YieldType DEF StageFails, Event
  <2>2. QED
    BY <1>2, <2>1 DEF StageFails, OffPage, wire, pageVars, answerVars, TypeOK
<1>3. CASE SaveErrorFails(q)
  BY <1>3 DEF SaveErrorFails, OffPage, wire, pageVars, answerVars, TypeOK
<1>4. CASE FinishRecord(q)
  <2>1. record' \in [Question -> [finish : BOOLEAN, error : BOOLEAN]]
    BY <1>4 DEF FinishRecord, TypeOK
  <2>2. QED
    BY <1>4, <2>1 DEF FinishRecord, OffPage, wire, pageVars, answerVars, TypeOK
<1>5. QED
  BY <1>1, <1>2, <1>3, <1>4

LEMMA GeneratorType ==
    ASSUME TypeOK, NEW q \in Question, OffPage,
           is_running(q) \/ pop_chunk(q) \/ NoChunk(q) \/ Disconnect(q) \/ Cut(q)
    PROVE  TypeOK'
<1>1. CASE is_running(q)
  BY <1>1 DEF is_running, OffPage, wire, pageVars, answerVars, TypeOK
<1>2. CASE pop_chunk(q)
  <2>1. Head(chunks[q]) \in Event /\ Tail(chunks[q]) \in Seq(Event)
    BY <1>2, QuestionTypes, HeadTailProperties DEF pop_chunk
  <2>2. Append(pipe[q], Head(chunks[q])) \in Seq(Event)
    BY <2>1, QuestionTypes, EventAppend
  <2>3. QED
    BY <1>2, <2>1, <2>2 DEF pop_chunk, OffPage, pageVars, answerVars, TypeOK
<1>3. CASE NoChunk(q)
  BY <1>3 DEF NoChunk, OffPage, pageVars, answerVars, TypeOK
<1>4. CASE Disconnect(q)
  BY <1>4 DEF Disconnect, OffPage, wire, pageVars, answerVars, TypeOK
<1>5. CASE Cut(q)
  BY <1>5 DEF Cut, taskVars, OffPage, pageVars, answerVars, TypeOK
<1>6. QED
  BY <1>1, <1>2, <1>3, <1>4, <1>5

LEMMA ReadTypes ==
    ASSUME TypeOK, NEW q \in Question, NEW n \in 0 .. Len(pipe[q])
    PROVE  /\ shown[q] \o SubSeq(pipe[q], 1, n) \in Seq(Event)
           /\ SubSeq(pipe[q], n + 1, Len(pipe[q])) \in Seq(Event)
BY QuestionTypes, MovesSome, EventConcat

LEMMA ReaderType ==
    ASSUME TypeOK, NEW q \in Question, Reader(q)
    PROVE  TypeOK'
<1> USE DEF Reader, taskVars, pageVars
<1>1. CASE Fetched(q)
  BY <1>1 DEF Fetched, Caught, IsStopped, TypeOK
<1>2. CASE ReadChunks(q)
  <2>1. PICK n \in 0 .. Len(pipe[q]) :
            /\ Handle(q, SubSeq(pipe[q], 1, n))
            /\ pipe' = [pipe EXCEPT ![q] = SubSeq(@, n + 1, Len(@))]
    BY <1>2 DEF ReadChunks
  <2>2. /\ shown' \in [Question -> Seq(Event)] /\ isTyping' \in BOOLEAN
        /\ pipe' \in [Question -> Seq(Event)]
    BY <2>1, ReadTypes DEF Handle, TypeOK
  <2>3. QED
    BY <1>2, <2>2 DEF ReadChunks, IsStopped, TypeOK
<1>3. CASE ReadDone(q)
  BY <1>3 DEF ReadDone, TypeOK
<1>4. CASE ReadFails(q)
  BY <1>4 DEF ReadFails, Caught, TypeOK
<1>5. QED
  BY <1>1, <1>2, <1>3, <1>4

LEMMA ServedType ==
    ASSUME TypeOK, NEW q \in Question, Served(q)
    PROVE  TypeOK'
<1> USE DEF Served, pageVars, answerVars
<1>1. CASE start_chat(q)
  BY <1>1 DEF start_chat, TypeOK
<1>2. CASE error_response(q)
  <2>1. <<"error">> \in Seq(Event)
    BY EventSeqs DEF Event
  <2>2. QED
    BY <1>2, <2>1 DEF error_response, TypeOK
<1>3. CASE NoStream(q)
  BY <1>3 DEF NoStream, taskVars, TypeOK
<1>4. QED
  BY <1>1, <1>2, <1>3

\* What the user does.
UserStep ==
    \/ \E q \in Question : sendMessage(q)
    \/ \E c \in Chat : goHistory(c) \/ HistoryLoaded(c) \/ onChatCreatedQuick(c)
    \/ createNewChat \/ NotCreated

LEMMA UserType ==
    ASSUME TypeOK, UserStep
    PROVE  TypeOK'
<1> USE DEF taskVars, wire, pageVars, answerVars, Unmount, stopAll, Visit, TypeOK
<1>1. ASSUME NEW q \in Question, sendMessage(q) PROVE TypeOK'
  BY <1>1 DEF sendMessage
<1>2. ASSUME NEW c \in Chat, goHistory(c) PROVE TypeOK'
  BY <1>2, ChatPageAssumption DEF goHistory
<1>3. ASSUME NEW c \in Chat, HistoryLoaded(c) PROVE TypeOK'
  BY <1>3 DEF HistoryLoaded
<1>4. ASSUME NEW c \in Chat, onChatCreatedQuick(c) PROVE TypeOK'
  BY <1>4 DEF onChatCreatedQuick
<1>5. CASE createNewChat
  BY <1>5, ChatPageAssumption DEF createNewChat
<1>6. CASE NotCreated
  BY <1>6 DEF NotCreated
<1>7. QED
  BY <1>1, <1>2, <1>3, <1>4, <1>5, <1>6 DEF UserStep

-----------------------------------------------------------------------------
(* The steps of the thread, the generator, the reader, the request and the *)
(* user keep the invariant.                                                *)

LEMMA YieldInLine ==
    ASSUME TypeOK, NEW q \in Question, InLine(q), NEW e \in Event, Yield(q, e),
           UNCHANGED <<shown, pipe>>
    PROVE  InLine(q)'
<1>1. PICK a \in Seq(Event), b \in Seq(Event), c \in Seq(Event) :
          a = shown[q] /\ b = pipe[q] /\ c = chunks[q]
  BY QuestionTypes
<1>2. made'[q] = Append(made[q], e) /\ chunks'[q] = Append(chunks[q], e)
  BY DEF Yield, TypeOK
<1>3. Append(Line(a, b, c), e) = Line(a, b, Append(c, e))
  BY ExtendsAll
<1>4. QED
  BY <1>1, <1>2, <1>3 DEF InLine

\* The other questions are left alone.
OthersSame(q) ==
    \A p \in Question \ {q} :
        /\ task'[p] = task[p] /\ made'[p] = made[p] /\ chunks'[p] = chunks[p]
        /\ consumer'[p] = consumer[p] /\ response'[p] = response[p] /\ pipe'[p] = pipe[p]
        /\ shown'[p] = shown[p] /\ stream'[p] = stream[p]
        /\ p \in accepted' <=> p \in accepted

LEMMA OneQuestion ==
    ASSUME IInv, TypeOK', NEW q \in Question, OthersSame(q), Sound(q)'
    PROVE  IInv'
<1>1. ASSUME NEW p \in Question \ {q} PROVE Sound(p)'
  BY <1>1 DEF IInv, OthersSame, Sound, NothingYet, EventsLeft, SawItDone,
              EndedByGenerator, InLine, AllShown
<1>2. QED
  BY <1>1 DEF IInv

LEMMA ThreadStep ==
    ASSUME IInv, NEW q \in Question, OffPage,
           NextStage(q) \/ StageFails(q) \/ SaveErrorFails(q) \/ FinishRecord(q)
    PROVE  IInv'
<1> USE DEF OffPage, wire, answerVars
<1>1. TypeOK /\ TypeOK' /\ Sound(q) /\ EventsLeft(q)
  BY ThreadType DEF IInv, Sound
<1>2. UNCHANGED <<consumer, response, pipe, shown, accepted, stream>>
  BY DEF NextStage, StageFails, SaveErrorFails, FinishRecord
<1>3. /\ task[q] \in {"running", "closing"} /\ task'[q] \in {"running", "closing", "done"}
      /\ task'[q] = "running" => task[q] = "running"
      /\ \A p \in Question \ {q} : task'[p] = task[p]
  BY <1>1 DEF NextStage, StageFails, SaveErrorFails, FinishRecord, TypeOK
<1>4. CASE NextStage(q) \/ StageFails(q)
  <2>1. PICK e \in Event : Yield(q, e)
    BY <1>1, <1>4, StageType DEF NextStage, StageFails, Event
  <2>2. InLine(q)'
    BY <1>1, <1>2, <2>1, YieldInLine DEF Sound
  <2>3. task[q] = "running"
    BY <1>4 DEF NextStage, StageFails
  <2>4. EventsLeft(q)'
    <3>1. Len(made[q]) \in Nat /\ Len(made[q]) + 1 \in 1 .. Steps[q] + 1
      BY <1>1, <2>3, StageType
    <3>2. made'[q] = Append(made[q], e)
      BY <1>1, <2>1 DEF Yield, TypeOK
    <3>3. Len(made'[q]) = Len(made[q]) + 1
      BY <1>1, <3>2, QuestionTypes, AppendProperties
    <3>4. Steps[q] \in Nat /\ Len(Script(q)) = Steps[q] + 1
      BY ScriptType, ChatTaskAssumption DEF Question
    <3>5. task'[q] = "running" => Len(made[q]) + 1 # Steps[q] + 1
      BY <1>1, <1>4, <3>4 DEF NextStage, StageFails, TypeOK
    <3>6. QED
      BY <3>1, <3>3, <3>4, <3>5 DEF EventsLeft
  <2>5. OthersSame(q)
    BY <1>1, <1>2, <1>3, <2>1 DEF OthersSame, Yield, TypeOK
  <2>6. Sound(q)'
    BY <1>1, <1>2, <2>2, <2>3, <2>4
       DEF Sound, NothingYet, SawItDone, EndedByGenerator, AllShown
  <2>7. QED
    BY <1>1, <2>5, <2>6, OneQuestion
<1>5. CASE SaveErrorFails(q) \/ FinishRecord(q)
  <2>1. UNCHANGED <<made, chunks>>
    BY <1>5 DEF SaveErrorFails, FinishRecord
  <2>2. OthersSame(q)
    BY <1>2, <1>3, <2>1 DEF OthersSame
  <2>3. Sound(q)'
    BY <1>1, <1>2, <1>3, <2>1
       DEF Sound, NothingYet, EventsLeft, SawItDone, EndedByGenerator, InLine, AllShown
  <2>4. QED
    BY <1>1, <2>2, <2>3, OneQuestion
<1>6. QED
  BY <1>4, <1>5

LEMMA GeneratorStep ==
    ASSUME IInv, NEW q \in Question, OffPage,
           is_running(q) \/ pop_chunk(q) \/ NoChunk(q) \/ Disconnect(q) \/ Cut(q)
    PROVE  IInv'
<1> USE DEF OffPage, wire, taskVars, answerVars
<1>1. TypeOK /\ TypeOK' /\ Sound(q)
  BY GeneratorType DEF IInv
<1>2. UNCHANGED <<task, made, shown, accepted, stream>>
  BY DEF is_running, pop_chunk, NoChunk, Disconnect, Cut
<1>3. response[q] # "none"
  BY <1>1 DEF Sound, NothingYet, is_running, pop_chunk, NoChunk, Disconnect, Cut
<1>4. CASE pop_chunk(q)
  <2>1. /\ chunks[q] # <<>> /\ pipe'[q] = Append(pipe[q], Head(chunks[q]))
        /\ chunks'[q] = Tail(chunks[q])
        /\ \A p \in Question \ {q} : pipe'[p] = pipe[p] /\ chunks'[p] = chunks[p]
        /\ UNCHANGED <<consumer, response>> /\ consumer[q] \in {"taking", "emptying"}
    BY <1>1, <1>4 DEF pop_chunk, TypeOK
  <2>2. PICK a \in Seq(Event), b \in Seq(Event), c \in Seq(Event) :
            a = shown[q] /\ b = pipe[q] /\ c = chunks[q]
    BY <1>1, QuestionTypes
  <2>3. Line(a, b, c) = Line(a, Append(b, Head(c)), Tail(c))
    BY <2>1, <2>2, MovesOne
  <2>4. InLine(q)'
    BY <1>1, <1>2, <2>1, <2>2, <2>3 DEF Sound, InLine
  <2>5. OthersSame(q)
    BY <1>2, <2>1 DEF OthersSame
  <2>6. Sound(q)'
    BY <1>1, <1>2, <1>3, <2>1, <2>4
       DEF Sound, NothingYet, EventsLeft, SawItDone, EndedByGenerator, AllShown
  <2>7. QED
    BY <1>1, <2>5, <2>6, OneQuestion
<1>5. CASE is_running(q) \/ NoChunk(q) \/ Disconnect(q) \/ Cut(q)
  <2>1. UNCHANGED <<chunks, pipe>>
    BY <1>5 DEF is_running, NoChunk, Disconnect, Cut
  <2>2. \A p \in Question \ {q} : response'[p] = response[p] /\ consumer'[p] = consumer[p]
    <3>1. CASE is_running(q)
      BY <1>1, <3>1 DEF is_running, TypeOK
    <3>2. CASE NoChunk(q)
      BY <1>1, <3>2 DEF NoChunk, TypeOK
    <3>3. CASE Disconnect(q) \/ Cut(q)
      BY <1>1, <3>3 DEF Disconnect, Cut, TypeOK
    <3>4. QED
      BY <1>5, <3>1, <3>2, <3>3
  <2>3. OthersSame(q)
    BY <1>2, <2>1, <2>2 DEF OthersSame
  <2>4. /\ response'[q] # "none"
        /\ consumer'[q] = "emptying" => task[q] = "done"
        /\ consumer'[q] = "ended" => task[q] = "done" /\ chunks[q] = <<>>
        /\ response'[q] = "closed" /\ q \in accepted => consumer'[q] = "ended"
    <3>1. CASE is_running(q)
      BY <1>1, <1>3, <3>1 DEF Sound, SawItDone, EndedByGenerator, is_running, TypeOK
    <3>2. CASE NoChunk(q)
      BY <1>1, <1>3, <3>2 DEF Sound, SawItDone, EndedByGenerator, NoChunk, TypeOK
    <3>3. CASE Disconnect(q) \/ Cut(q)
      BY <1>1, <1>3, <3>3 DEF Sound, SawItDone, EndedByGenerator, Disconnect, Cut, TypeOK
    <3>4. QED
      BY <1>5, <3>1, <3>2, <3>3
  <2>5. Sound(q)'
    BY <1>1, <1>2, <2>1, <2>4
       DEF Sound, NothingYet, EventsLeft, SawItDone, EndedByGenerator, InLine, AllShown
  <2>6. QED
    BY <1>1, <2>3, <2>5, OneQuestion
<1>6. QED
  BY <1>4, <1>5

LEMMA ReaderStep ==
    ASSUME IInv, NEW q \in Question, Reader(q)
    PROVE  IInv'
<1> USE DEF Reader, taskVars
<1>1. TypeOK /\ TypeOK' /\ Sound(q)
  BY ReaderType DEF IInv
<1>2. UNCHANGED <<task, made, chunks, consumer, accepted>>
  OBVIOUS
<1>3. response[q] # "none" /\ response'[q] \in {response[q], "aborted"}
  <2>1. CASE Fetched(q)
    BY <1>1, <2>1 DEF Fetched, IsStopped, TypeOK
  <2>2. CASE ReadChunks(q)
    BY <1>1, <2>2 DEF ReadChunks, IsStopped, TypeOK
  <2>3. CASE ReadDone(q) \/ ReadFails(q)
    BY <1>1, <2>3 DEF ReadDone, ReadFails, TypeOK
  <2>4. QED
    BY <2>1, <2>2, <2>3
<1>4. InLine(q)' /\ (~ReadChunks(q) => UNCHANGED <<pipe, shown>>)
  <2>1. CASE ReadChunks(q)
    <3>1. PICK n \in 0 .. Len(pipe[q]) :
              /\ Handle(q, SubSeq(pipe[q], 1, n))
              /\ pipe' = [pipe EXCEPT ![q] = SubSeq(@, n + 1, Len(@))]
      BY <2>1 DEF ReadChunks
    <3>2. /\ shown'[q] = shown[q] \o SubSeq(pipe[q], 1, n)
          /\ pipe'[q] = SubSeq(pipe[q], n + 1, Len(pipe[q]))
      BY <1>1, <3>1 DEF Handle, TypeOK
    <3>3. PICK a \in Seq(Event), b \in Seq(Event), c \in Seq(Event) :
              a = shown[q] /\ b = pipe[q] /\ c = chunks[q]
      BY <1>1, QuestionTypes
    <3>4. n \in 0 .. Len(b)
      BY <3>1, <3>3
    <3>5. Line(a, b, c) = Line(a \o SubSeq(b, 1, n), SubSeq(b, n + 1, Len(b)), c)
      BY <3>4, MovesSome
    <3>6. QED
      BY <1>1, <1>2, <2>1, <3>2, <3>3, <3>5 DEF Sound, InLine
  <2>2. CASE ~ReadChunks(q)
    BY <1>1, <2>2 DEF Fetched, ReadDone, ReadFails, Sound, InLine
  <2>3. QED
    BY <2>1, <2>2
<1>5. OthersSame(q)
  <2>1. \A p \in Question \ {q} : response'[p] = response[p] /\ stream'[p] = stream[p]
    <3>1. CASE Fetched(q)
      BY <1>1, <3>1 DEF Fetched, Caught, IsStopped, TypeOK
    <3>2. CASE ReadChunks(q)
      BY <1>1, <3>2 DEF ReadChunks, IsStopped, TypeOK
    <3>3. CASE ReadDone(q) \/ ReadFails(q)
      BY <1>1, <3>3 DEF ReadDone, ReadFails, Caught, TypeOK
    <3>4. QED
      BY <3>1, <3>2, <3>3
  <2>2. \A p \in Question \ {q} : pipe'[p] = pipe[p] /\ shown'[p] = shown[p]
    BY <1>1, <1>4 DEF ReadChunks, Handle, TypeOK
  <2>3. QED
    BY <1>2, <2>1, <2>2 DEF OthersSame
<1>6. AllShown(q)'
  <2> SUFFICES ASSUME q \in accepted, stream'[q] = "done"
               PROVE  task[q] = "done" /\ shown'[q] = made[q]
    BY <1>2 DEF AllShown
  <2>1. ReadDone(q)
    <3>1. ~Fetched(q) /\ ~ReadFails(q)
      BY <1>1 DEF Fetched, ReadFails, Caught, IsStopped, TypeOK
    <3>2. ~ReadChunks(q)
      BY <1>1 DEF ReadChunks, IsStopped, TypeOK
    <3>3. QED
      BY <3>1, <3>2
  <2>2. response[q] = "closed" /\ pipe[q] = <<>> /\ shown' = shown
    BY <2>1 DEF ReadDone
  <2>3. task[q] = "done" /\ chunks[q] = <<>>
    BY <1>1, <2>2 DEF Sound, EndedByGenerator, SawItDone
  <2>4. PICK a \in Seq(Event) : a = shown[q]
    BY <1>1, QuestionTypes
  <2>5. Line(a, <<>>, <<>>) = a
    BY ConcatEmptySeq DEF Line
  <2>6. QED
    BY <1>1, <2>2, <2>3, <2>4, <2>5 DEF Sound, InLine
<1>7. Sound(q)'
  BY <1>1, <1>2, <1>3, <1>4, <1>6
     DEF Sound, NothingYet, EventsLeft, SawItDone, EndedByGenerator
<1>8. QED
  BY <1>1, <1>5, <1>7, OneQuestion

LEMMA ServedStep ==
    ASSUME IInv, NEW q \in Question, Served(q)
    PROVE  IInv'
<1> USE DEF Served, answerVars
<1>1. TypeOK /\ TypeOK' /\ Sound(q)
  BY ServedType DEF IInv
<1>2. UNCHANGED <<chunks, shown, stream>>
  BY DEF start_chat, error_response, NoStream, taskVars
<1>3. /\ stream[q] = "requested" /\ task[q] = "none" /\ consumer[q] = "none"
      /\ made[q] = <<>> /\ chunks[q] = <<>> /\ pipe[q] = <<>> /\ shown[q] = <<>>
      /\ q \notin accepted
  BY <1>1 DEF Sound, NothingYet
<1>4. CASE start_chat(q)
  <2>1. UNCHANGED <<made, pipe>> /\ accepted' = accepted \union {q}
    BY <1>4 DEF start_chat
  <2>2. /\ task'[q] = "running" /\ consumer'[q] = "waiting" /\ response'[q] = "open"
        /\ \A p \in Question \ {q} : /\ task'[p] = task[p] /\ consumer'[p] = consumer[p]
                                      /\ response'[p] = response[p]
    BY <1>1, <1>4 DEF start_chat, TypeOK
  <2>3. Len(made[q]) <= Steps[q]
    BY <1>3, EmptySeq, ChatTaskAssumption DEF Question
  <2>4. OthersSame(q)
    BY <1>2, <2>1, <2>2 DEF OthersSame
  <2>5. Sound(q)'
    BY <1>1, <1>2, <1>3, <2>1, <2>2, <2>3
       DEF Sound, NothingYet, EventsLeft, SawItDone, EndedByGenerator, InLine, AllShown
  <2>6. QED
    BY <1>1, <2>4, <2>5, OneQuestion
<1>5. CASE error_response(q)
  <2>1. UNCHANGED <<task, consumer, accepted>>
    BY <1>5 DEF error_response
  <2>2. /\ response'[q] = "closed" /\ pipe'[q] = <<"error">> /\ made'[q] = <<"error">>
        /\ \A p \in Question \ {q} : /\ response'[p] = response[p] /\ pipe'[p] = pipe[p]
                                      /\ made'[p] = made[p]
    BY <1>1, <1>5 DEF error_response, TypeOK
  <2>3. PICK s \in Seq(Event) : s = <<"error">>
    BY EventSeqs DEF Event
  <2>4. Line(<<>>, s, <<>>) = s
    BY EventSeqs, ConcatEmptySeq DEF Line
  <2>5. InLine(q)'
    BY <1>2, <1>3, <2>2, <2>3, <2>4 DEF InLine
  <2>6. OthersSame(q)
    BY <1>2, <2>1, <2>2 DEF OthersSame
  <2>7. Sound(q)'
    BY <1>1, <1>2, <1>3, <2>1, <2>2, <2>5
       DEF Sound, NothingYet, EventsLeft, SawItDone, EndedByGenerator, AllShown
  <2>8. QED
    BY <1>1, <2>6, <2>7, OneQuestion
<1>6. CASE NoStream(q)
  <2>1. UNCHANGED <<task, made, consumer, pipe, accepted>>
    BY <1>6 DEF NoStream, taskVars
  <2>2. /\ response'[q] = "closed"
        /\ \A p \in Question \ {q} : response'[p] = response[p]
    BY <1>1, <1>6 DEF NoStream, TypeOK
  <2>3. OthersSame(q)
    BY <1>2, <2>1, <2>2 DEF OthersSame
  <2>4. Sound(q)'
    BY <1>1, <1>2, <1>3, <2>1, <2>2
       DEF Sound, NothingYet, EventsLeft, SawItDone, EndedByGenerator, InLine, AllShown
  <2>5. QED
    BY <1>1, <2>3, <2>4, OneQuestion
<1>7. QED
  BY <1>4, <1>5, <1>6

LEMMA UserKeeps ==
    ASSUME IInv, UserStep
    PROVE  IInv'
<1> USE DEF taskVars, wire, answerVars
<1>1. TypeOK /\ TypeOK'
  BY UserType DEF IInv
<1>2. UNCHANGED <<task, made, chunks, consumer, response, pipe, accepted, shown>>
  BY DEF UserStep, sendMessage, goHistory, HistoryLoaded, onChatCreatedQuick,
         createNewChat, NotCreated
<1>3. ASSUME NEW q \in Question, stream'[q] = "done" PROVE stream[q] = "done"
  BY <1>1, <1>3 DEF UserStep, sendMessage, goHistory, HistoryLoaded, onChatCreatedQuick,
     createNewChat, NotCreated, TypeOK
<1>4. ASSUME NEW q \in Question PROVE Sound(q)'
  BY <1>2, <1>3 DEF IInv, Sound, NothingYet, EventsLeft, SawItDone, EndedByGenerator,
                    InLine, AllShown
<1>5. QED
  BY <1>1, <1>4 DEF IInv

-----------------------------------------------------------------------------
(* Theorems *)

LEMMA Initially == Init => IInv
<1> SUFFICES ASSUME Init PROVE IInv
  OBVIOUS
<1> USE DEF Init, TaskInit
<1>1. TypeOK
  <2>1. <<>> \in Seq(Event)
    BY EventSeqs
  <2>2. /\ chat \in Chat \union {NoChat} /\ visits \in 0 .. Visits
        /\ world \subseteq Promises
    BY ChatPageAssumption, ChatWorldsAssumption
  <2>3. QED
    BY <2>1, <2>2 DEF TypeOK, NoRecord
<1>2. PICK s \in Seq(Event) : s = <<>>
  BY EventSeqs
<1>3. Line(s, s, s) = s
  BY <1>2, ConcatEmptySeq DEF Line
<1>4. ASSUME NEW q \in Question PROVE Sound(q)
  BY <1>2, <1>3 DEF Sound, NothingYet, EventsLeft, SawItDone, EndedByGenerator, InLine,
                    AllShown
<1>5. QED
  BY <1>1, <1>4 DEF IInv

LEMMA Inductive == IInv /\ [Next]_vars => IInv'
<1> SUFFICES ASSUME IInv, [Next]_vars PROVE IInv'
  OBVIOUS
<1>1. ASSUME NEW q \in Question, TaskStep(q), OffPage PROVE IInv'
  BY <1>1, ThreadStep, GeneratorStep DEF TaskStep
<1>2. ASSUME NEW q \in Question, Reader(q) \/ Served(q) PROVE IInv'
  BY <1>2, ReaderStep, ServedStep
<1>3. CASE UserStep
  BY <1>3, UserKeeps
<1>4. CASE UNCHANGED vars
  <2> USE <1>4 DEF vars, taskVars, wire, pageVars, answerVars
  <2>1. TypeOK'
    BY DEF IInv, TypeOK
  <2>2. ASSUME NEW q \in Question PROVE Sound(q)'
    BY DEF IInv, Sound, NothingYet, EventsLeft, SawItDone, EndedByGenerator, InLine, AllShown
  <2>3. QED
    BY <2>1, <2>2 DEF IInv
<1>5. QED
  BY <1>1, <1>2, <1>3, <1>4 DEF Next, UserStep

LEMMA Invariance == Spec => []IInv
BY Initially, Inductive, PTL DEF Spec

-----------------------------------------------------------------------------
(* The input: an answer ends with its only ending event, and while one is  *)
(* awaited no other on the page will end.                                  *)

IsEnd(e) == e \in {"finish", "error"}
Ends(s) == \E i \in DOMAIN s : IsEnd(s[i])

\* An ending event is the last of its answer, and a task that runs made none.
EndIsLast(q) ==
    /\ \A i \in DOMAIN made[q] : IsEnd(made[q][i]) => i = Len(made[q])
    /\ task[q] = "running" => ~Ends(made[q])

\* An answer that is over has ended.
Concludes(q) ==
    Promised("sound") =>
        /\ task[q] \in {"closing", "done"} => Ends(made[q])
        /\ response[q] = "closed" /\ q \notin accepted => Ends(made[q])

NotAsked(q) ==
    asked[q] = NoChat =>
        q \notin mounted \union stopFlag /\ stream[q] = "none" /\ response[q] = "none"

NotAccepted(q) == q \notin accepted => task[q] = "none" /\ chunks[q] = <<>>

Whole(q) == Promised("reliable") => response[q] # "cut"

Told(q) == EndIsLast(q) /\ Concludes(q) /\ NotAsked(q) /\ NotAccepted(q) /\ Whole(q)

\* Besides the one that is awaited no answer on the page is still to end.
LastOne ==
    Promised("reliable") /\ Promised("patient") =>
        \A q \in Question : Awaited(q) =>
            /\ isTyping
            /\ \A p \in mounted \ {q} : Open(p) => Ends(shown[p])

Input == (\A q \in Question : Told(q)) /\ LastOne /\ TypingIsForAnAnswer

LEMMA AwaitedIs ==
    ASSUME NEW q \in Question
    PROVE  Awaited(q) <=> q \in mounted \ stopFlag /\ Open(q) /\ ~Ends(shown[q])
BY DEF Awaited, Ends, IsEnd

LEMMA AwaitedWillBe ==
    ASSUME NEW q \in Question
    PROVE  Awaited(q)' <=> q \in mounted' \ stopFlag' /\ Open(q)' /\ ~Ends(shown'[q])
BY DEF Awaited, Ends, IsEnd

LEMMA EndsConcat ==
    ASSUME NEW a \in Seq(Event), NEW b \in Seq(Event)
    PROVE  Ends(a \o b) <=> Ends(a) \/ Ends(b)
<1>1. /\ Len(a) \in Nat /\ Len(b) \in Nat /\ DOMAIN a = 1 .. Len(a) /\ DOMAIN b = 1 .. Len(b)
      /\ a \o b \in Seq(Event) /\ Len(a \o b) = Len(a) + Len(b)
      /\ DOMAIN (a \o b) = 1 .. Len(a) + Len(b)
      /\ \A i \in 1 .. Len(a) + Len(b) :
             (a \o b)[i] = IF i <= Len(a) THEN a[i] ELSE b[i - Len(a)]
  BY LenProperties, ConcatProperties
<1>2. ASSUME Ends(a \o b) PROVE Ends(a) \/ Ends(b)
  <2>1. PICK i \in 1 .. Len(a) + Len(b) : IsEnd((a \o b)[i])
    BY <1>1, <1>2 DEF Ends
  <2>2. CASE i <= Len(a)
    BY <1>1, <2>1, <2>2 DEF Ends
  <2>3. CASE ~(i <= Len(a))
    <3>1. i - Len(a) \in 1 .. Len(b) /\ (a \o b)[i] = b[i - Len(a)]
      BY <1>1, <2>3
    <3>2. QED
      BY <1>1, <2>1, <3>1 DEF Ends
  <2>4. QED
    BY <2>2, <2>3
<1>3. ASSUME Ends(a) PROVE Ends(a \o b)
  <2>1. PICK i \in 1 .. Len(a) : IsEnd(a[i])
    BY <1>1, <1>3 DEF Ends
  <2>2. i \in 1 .. Len(a) + Len(b) /\ (a \o b)[i] = a[i]
    BY <1>1
  <2>3. QED
    BY <1>1, <2>1, <2>2 DEF Ends
<1>4. ASSUME Ends(b) PROVE Ends(a \o b)
  <2>1. PICK i \in 1 .. Len(b) : IsEnd(b[i])
    BY <1>1, <1>4 DEF Ends
  <2>2. Len(a) + i \in 1 .. Len(a) + Len(b) /\ (a \o b)[Len(a) + i] = b[i]
    BY <1>1
  <2>3. QED
    BY <1>1, <2>1, <2>2 DEF Ends
<1>5. QED
  BY <1>2, <1>3, <1>4

\* After an event that ends its answer nothing is under way.
LEMMA NothingAfterEnd ==
    ASSUME IInv, NEW q \in Question, EndIsLast(q), Ends(shown[q])
    PROVE  pipe[q] = <<>>
<1>1. PICK a \in Seq(Event), b \in Seq(Event), c \in Seq(Event) :
          a = shown[q] /\ b = pipe[q] /\ c = chunks[q]
  BY QuestionTypes DEF IInv
<1>2. made[q] = (a \o b) \o c
  BY <1>1 DEF IInv, Sound, InLine, Line
<1>3. /\ Len(a) \in Nat /\ Len(b) \in Nat /\ Len(c) \in Nat /\ DOMAIN a = 1 .. Len(a)
      /\ a \o b \in Seq(Event) /\ Len(a \o b) = Len(a) + Len(b)
      /\ \A i \in 1 .. Len(a) + Len(b) : i <= Len(a) => (a \o b)[i] = a[i]
  BY LenProperties, ConcatProperties
<1>4. /\ Len((a \o b) \o c) = Len(a) + Len(b) + Len(c)
      /\ DOMAIN ((a \o b) \o c) = 1 .. Len(a) + Len(b) + Len(c)
      /\ \A i \in 1 .. Len(a) + Len(b) + Len(c) :
             i <= Len(a) + Len(b) => ((a \o b) \o c)[i] = (a \o b)[i]
  BY <1>3, LenProperties, ConcatProperties
<1>5. PICK i \in 1 .. Len(a) : IsEnd(a[i])
  BY <1>1, <1>3 DEF Ends
<1>6. i \in 1 .. Len(a) + Len(b) + Len(c) /\ ((a \o b) \o c)[i] = a[i]
  BY <1>3, <1>4
<1>7. i = Len(a) + Len(b) + Len(c)
  BY <1>2, <1>4, <1>5, <1>6 DEF EndIsLast
<1>8. Len(b) = 0
  BY <1>3, <1>7
<1>9. QED
  BY <1>1, <1>8, EmptySeq

\* The stages make no ending event, but for the last one, which does.
LEMMA ScriptEnds ==
    ASSUME NEW q \in Question, NEW n \in 1 .. Steps[q] + 1
    PROVE  IsEnd(Script(q)[n]) <=> n = Len(Script(q))
<1>1. Steps[q] \in Nat
  BY ChatTaskAssumption DEF Question
<1> DEFINE step == [i \in 1 .. Steps[q] |-> "step"]
<1>2. PICK s \in Seq(Event) : s = step
  <2>1. step \in Seq(Event)
    BY <1>1 DEF Event
  <2>2. QED
    BY <2>1
<1>3. PICK f \in Seq(Event) : f = <<"finish">>
  BY EventSeqs DEF Event
<1>4. Len(s) = Steps[q] /\ Len(f) = 1 /\ f[1] = "finish"
  BY <1>1, <1>2, <1>3
<1>5. Script(q)[n] = IF n <= Len(s) THEN s[n] ELSE f[n - Len(s)]
  <2>1. Script(q) = s \o f
    BY <1>2, <1>3 DEF Script
  <2>2. n \in 1 .. Len(s) + Len(f)
    BY <1>4
  <2>3. QED
    BY <2>1, <2>2, ConcatProperties
<1>6. Script(q)[n] = IF n <= Steps[q] THEN "step" ELSE "finish"
  <2>1. CASE n <= Steps[q]
    BY <1>1, <1>2, <1>4, <1>5, <2>1
  <2>2. CASE ~(n <= Steps[q])
    <3>1. n - Len(s) = 1
      BY <1>1, <1>4, <2>2
    <3>2. QED
      BY <1>4, <1>5, <2>2, <3>1
  <2>3. QED
    BY <2>1, <2>2
<1>7. Len(Script(q)) = Steps[q] + 1
  BY ScriptType
<1>8. QED
  BY <1>1, <1>6, <1>7 DEF IsEnd

-----------------------------------------------------------------------------
(* The thread, the generator and the request. *)

\* An answer goes on with e, and its task with it.
LEMMA YieldEnds ==
    ASSUME TypeOK, NEW q \in Question, NEW e \in Event, Yield(q, e), EndIsLast(q),
           task[q] = "running"
    PROVE  /\ \A i \in DOMAIN made'[q] : IsEnd(made'[q][i]) => i = Len(made'[q])
           /\ Ends(made'[q]) <=> IsEnd(e)
<1>1. PICK m \in Seq(Event) : m = made[q]
  BY QuestionTypes
<1>2. made'[q] = Append(m, e)
  BY <1>1 DEF Yield, TypeOK
<1>3. /\ Len(m) \in Nat /\ DOMAIN m = 1 .. Len(m)
      /\ Len(Append(m, e)) = Len(m) + 1 /\ DOMAIN Append(m, e) = 1 .. Len(m) + 1
      /\ \A i \in 1 .. Len(m) : Append(m, e)[i] = m[i]
      /\ Append(m, e)[Len(m) + 1] = e
  BY LenProperties, AppendProperties
<1>4. \A i \in 1 .. Len(m) : ~IsEnd(m[i])
  BY <1>1, <1>3 DEF EndIsLast, Ends
<1>5. \A i \in 1 .. Len(m) + 1 : IsEnd(Append(m, e)[i]) => i = Len(m) + 1
  BY <1>3, <1>4
<1>6. Ends(Append(m, e)) <=> IsEnd(e)
  <2>1. Len(m) + 1 \in 1 .. Len(m) + 1
    BY <1>3
  <2>2. QED
    BY <1>3, <1>5, <2>1 DEF Ends
<1>7. QED
  BY <1>2, <1>3, <1>5, <1>6

\* Nothing that the page looks at changes, and no other question.
PageSame ==
    UNCHANGED <<isTyping, world, asked, mounted, stopFlag, stream, shown>>

LEMMA SamePage ==
    ASSUME LastOne, TypingIsForAnAnswer, PageSame
    PROVE  LastOne' /\ TypingIsForAnAnswer'
BY DEF LastOne, TypingIsForAnAnswer, PageSame, Awaited, Open, Ends, Promised

LEMMA OthersTold ==
    ASSUME Input, NEW q \in Question, OthersSame(q), UNCHANGED <<asked, mounted, stopFlag, world>>
    PROVE  \A p \in Question \ {q} : Told(p)'
BY DEF Input, OthersSame, Told, EndIsLast, Concludes, NotAsked, NotAccepted, Whole, Promised

LEMMA ThreadTold ==
    ASSUME IInv, Input, NEW q \in Question, OffPage,
           NextStage(q) \/ StageFails(q) \/ SaveErrorFails(q) \/ FinishRecord(q)
    PROVE  Input'
<1> USE DEF OffPage, wire, answerVars
<1>1. TypeOK /\ EventsLeft(q) /\ Told(q) /\ EndIsLast(q) /\ Concludes(q)
  BY DEF IInv, Sound, Input, Told
<1>2. UNCHANGED <<consumer, response, pipe, accepted>> /\ PageSame /\ q \in accepted
  BY <1>1 DEF NextStage, StageFails, SaveErrorFails, FinishRecord, PageSame, Told, NotAccepted
<1>3. ASSUME NEW e \in Event, Yield(q, e), task[q] = "running", task'[q] \in {"running", "closing"},
             task'[q] = "closing" <=> IsEnd(e),
             \A p \in Question \ {q} : task'[p] = task[p]
      PROVE  Input'
  <2>1. /\ \A i \in DOMAIN made'[q] : IsEnd(made'[q][i]) => i = Len(made'[q])
        /\ Ends(made'[q]) <=> IsEnd(e)
    BY <1>1, <1>3, YieldEnds
  <2>2. OthersSame(q)
    BY <1>1, <1>2, <1>3 DEF OthersSame, Yield, TypeOK, PageSame
  <2>3. response[q] = "closed" /\ q \notin accepted => ~Promised("sound") \/ Ends(made[q])
    BY <1>1 DEF Concludes
  <2>4. ~Ends(made[q])
    BY <1>1, <1>3 DEF EndIsLast
  <2>5. Told(q)'
    BY <1>1, <1>2, <1>3, <2>1, <2>3, <2>4
       DEF Told, EndIsLast, Concludes, NotAsked, NotAccepted, Whole, PageSame, Promised
  <2>6. QED
    BY <1>2, <2>2, <2>5, OthersTold, SamePage DEF Input, PageSame
<1>4. CASE NextStage(q)
  <2>1. /\ Len(made[q]) + 1 \in 1 .. Steps[q] + 1
        /\ Script(q)[Len(made[q]) + 1] \in Event
        /\ IsEnd(Script(q)[Len(made[q]) + 1]) <=> Len(made[q]) + 1 = Len(Script(q))
    BY <1>1, <1>4, StageType, ScriptEnds DEF NextStage
  <2>2. /\ Yield(q, Script(q)[Len(made[q]) + 1]) /\ task[q] = "running"
        /\ task'[q] = IF Len(made[q]) + 1 = Len(Script(q)) THEN "closing" ELSE "running"
        /\ \A p \in Question \ {q} : task'[p] = task[p]
    BY <1>1, <1>4 DEF NextStage, TypeOK
  <2>3. QED
    BY <1>3, <2>1, <2>2
<1>5. CASE StageFails(q)
  <2>1. /\ Yield(q, "error") /\ task[q] = "running" /\ task'[q] = "closing"
        /\ \A p \in Question \ {q} : task'[p] = task[p]
    BY <1>1, <1>5 DEF StageFails, TypeOK
  <2>2. "error" \in Event /\ IsEnd("error")
    BY DEF Event, IsEnd
  <2>3. QED
    BY <1>3, <2>1, <2>2
<1>6. CASE SaveErrorFails(q) \/ FinishRecord(q)
  <2>1. UNCHANGED <<made, chunks>>
    BY <1>6 DEF SaveErrorFails, FinishRecord
  <2>2. /\ \A p \in Question \ {q} : task'[p] = task[p]
        /\ task'[q] \in {"closing", "done"}
        /\ Promised("sound") => task[q] = "closing"
    BY <1>1, <1>6 DEF SaveErrorFails, FinishRecord, TypeOK
  <2>3. OthersSame(q)
    BY <1>2, <2>1, <2>2 DEF OthersSame, PageSame
  <2>4. Told(q)'
    BY <1>1, <1>2, <2>1, <2>2 DEF Told, EndIsLast, Concludes, NotAsked, NotAccepted, Whole, PageSame, Promised
  <2>5. QED
    BY <1>2, <2>3, <2>4, OthersTold, SamePage DEF Input, PageSame
<1>7. QED
  BY <1>4, <1>5, <1>6

LEMMA GeneratorTold ==
    ASSUME IInv, Input, NEW q \in Question, OffPage,
           is_running(q) \/ pop_chunk(q) \/ NoChunk(q) \/ Disconnect(q) \/ Cut(q)
    PROVE  Input'
<1> USE DEF OffPage, wire, taskVars, answerVars
<1>1. TypeOK /\ Sound(q) /\ Told(q) /\ NothingYet(q) /\ SawItDone(q)
  BY DEF IInv, Sound, Input, Told
<1>2. UNCHANGED <<task, made, accepted>> /\ PageSame
  BY DEF is_running, pop_chunk, NoChunk, Disconnect, Cut, PageSame
<1>3. /\ \A p \in Question \ {q} : chunks'[p] = chunks[p]
      /\ chunks[q] = <<>> => chunks'[q] = <<>>
  BY <1>1 DEF is_running, pop_chunk, NoChunk, Disconnect, Cut, TypeOK
<1>4. /\ \A p \in Question \ {q} : response'[p] = response[p]
      /\ response[q] # "none" /\ response'[q] # "none"
      /\ response'[q] = "cut" => response[q] = "cut" \/ ~Promised("reliable")
      /\ response'[q] = "closed" => response[q] = "closed" \/ task[q] = "done"
  <2>1. CASE is_running(q) \/ pop_chunk(q) \/ Disconnect(q)
    BY <1>1, <2>1 DEF is_running, pop_chunk, Disconnect, NothingYet
  <2>2. CASE NoChunk(q)
    BY <1>1, <2>2 DEF NoChunk, NothingYet, SawItDone, TypeOK
  <2>3. CASE Cut(q)
    BY <1>1, <2>3 DEF Cut, TypeOK
  <2>4. QED
    BY <2>1, <2>2, <2>3
<1>5. Told(q)'
  BY <1>1, <1>2, <1>4, <1>3 DEF Told, EndIsLast, Concludes, NotAsked, NotAccepted, Whole, PageSame, Promised
<1>6. ASSUME NEW p \in Question \ {q} PROVE Told(p)'
  BY <1>2, <1>4, <1>3, <1>6
     DEF Input, Told, EndIsLast, Concludes, NotAsked, NotAccepted, Whole, PageSame, Promised
<1>7. QED
  BY <1>2, <1>5, <1>6, SamePage DEF Input

LEMMA ServedTold ==
    ASSUME IInv, Input, NEW q \in Question, Served(q)
    PROVE  Input'
<1> USE DEF Served, answerVars, Input
<1>1. TypeOK /\ Told(q) /\ NothingYet(q) /\ response[q] = "none" /\ asked[q] # NoChat
  <2>1. TypeOK /\ Told(q) /\ NothingYet(q) /\ response[q] = "none"
    BY DEF IInv, Sound
  <2>2. QED
    BY <2>1 DEF Told, NotAsked
<1>2. PageSame /\ UNCHANGED <<asked, mounted, stopFlag, world>>
  BY DEF start_chat, error_response, NoStream, PageSame
<1>3. made[q] = <<>> /\ chunks[q] = <<>> /\ q \notin accepted /\ task[q] = "none"
  BY <1>1 DEF NothingYet
<1>4. /\ response'[q] \in {"open", "closed"}
      /\ \A p \in Question \ {q} : /\ task'[p] = task[p] /\ made'[p] = made[p]
                                   /\ response'[p] = response[p]
                                   /\ p \in accepted' <=> p \in accepted
  <2>1. CASE start_chat(q)
    BY <1>1, <2>1 DEF start_chat, TypeOK
  <2>2. CASE error_response(q)
    BY <1>1, <2>2 DEF error_response, TypeOK
  <2>3. CASE NoStream(q)
    BY <1>1, <2>3 DEF NoStream, taskVars, TypeOK
  <2>4. QED
    BY <2>1, <2>2, <2>3
<1>5. UNCHANGED <<chunks, stream>> /\ (q \notin accepted' => task' = task)
  BY DEF start_chat, error_response, NoStream, taskVars
<1>6. EndIsLast(q)' /\ Concludes(q)'
  <2>1. CASE start_chat(q)
    <3>1. made' = made /\ task'[q] = "running" /\ response'[q] = "open" /\ DOMAIN made[q] = {}
      BY <1>1, <1>3, <2>1, EmptySeq DEF start_chat, TypeOK
    <3>2. QED
      BY <1>3, <3>1 DEF EndIsLast, Concludes, Ends
  <2>2. CASE error_response(q)
    <3>1. made'[q] = <<"error">> /\ task'[q] = "none"
      BY <1>1, <1>3, <2>2 DEF error_response, TypeOK
    <3>2. DOMAIN <<"error">> = 1 .. 1 /\ Len(<<"error">>) = 1 /\ <<"error">>[1] = "error"
      OBVIOUS
    <3>3. Ends(made'[q])
      BY <3>1, <3>2 DEF Ends, IsEnd
    <3>4. QED
      BY <3>1, <3>2, <3>3 DEF EndIsLast, Concludes
  <2>3. CASE NoStream(q)
    BY <1>1, <1>2, <1>3, <2>3 DEF NoStream, taskVars, Told, EndIsLast, Concludes, Promised
  <2>4. QED
    BY <2>1, <2>2, <2>3
<1>7. Told(q)'
  BY <1>1, <1>2, <1>3, <1>4, <1>6, <1>5 DEF Told, NotAsked, NotAccepted, Whole
<1>8. ASSUME NEW p \in Question \ {q} PROVE Told(p)'
  BY <1>2, <1>4, <1>8, <1>5 DEF Told, EndIsLast, Concludes, NotAsked, NotAccepted, Whole, Promised
<1>9. QED
  BY <1>2, <1>7, <1>8, SamePage

-----------------------------------------------------------------------------
(* The reader. *)

LEMMA ReaderTold ==
    ASSUME IInv, Input, NEW q \in Question, Reader(q)
    PROVE  Input'
<1> USE DEF Reader, taskVars
<1>1. TypeOK /\ TypeOK' /\ IInv'
  BY ReaderType, ReaderStep DEF IInv
<1>2. UNCHANGED <<task, made, chunks, accepted, world, asked, mounted, stopFlag>>
  BY DEF Fetched, ReadChunks, ReadDone, ReadFails
<1>3. /\ response[q] # "none" /\ response'[q] \in {response[q], "aborted"}
      /\ \A p \in Question \ {q} : /\ response'[p] = response[p] /\ stream'[p] = stream[p]
                                   /\ shown'[p] = shown[p]
      /\ Open(q)
  <2>1. CASE Fetched(q)
    BY <1>1, <2>1 DEF Fetched, Caught, IsStopped, Open, TypeOK
  <2>2. CASE ReadChunks(q)
    BY <1>1, <2>2 DEF ReadChunks, Handle, IsStopped, Open, TypeOK
  <2>3. CASE ReadDone(q) \/ ReadFails(q)
    BY <1>1, <2>3 DEF ReadDone, ReadFails, Caught, Open, TypeOK
  <2>4. QED
    BY <2>1, <2>2, <2>3
<1>4. ASSUME NEW p \in Question PROVE Told(p)'
  BY <1>2, <1>3 DEF Open, Input, Told, EndIsLast, Concludes, NotAsked, NotAccepted, Whole, Promised
<1>5. \A p \in Question \ {q} : (Awaited(p)' <=> Awaited(p)) /\ (Open(p)' <=> Open(p))
  BY <1>2, <1>3 DEF Awaited, Open
<1>6. CASE ReadChunks(q)
  <2>1. PICK n \in 0 .. Len(pipe[q]) : Handle(q, SubSeq(pipe[q], 1, n))
    BY <1>6 DEF ReadChunks
  <2>2. SubSeq(pipe[q], 1, n) \in Seq(Event) /\ shown[q] \in Seq(Event)
    BY <1>1, QuestionTypes, MovesSome
  <2>3. /\ shown'[q] = shown[q] \o SubSeq(pipe[q], 1, n)
        /\ Ends(shown'[q]) <=> Ends(shown[q]) \/ Ends(SubSeq(pipe[q], 1, n))
    BY <1>1, <2>1, <2>2, EndsConcat DEF Handle, TypeOK
  <2>4. isTyping' = (isTyping /\ ~(q \in mounted /\ Ends(SubSeq(pipe[q], 1, n))))
    BY <2>1 DEF Handle, Ends, IsEnd
  <2>5. q \notin stopFlag => Open(q)'
    BY <1>1, <1>6 DEF ReadChunks, IsStopped, Open, TypeOK
  <2>6. ~Ends(shown[q])
    BY <1>6, NothingAfterEnd DEF ReadChunks, Input, Told
  <2>7. Awaited(q)' => Awaited(q) /\ ~Ends(SubSeq(pipe[q], 1, n))
    BY <1>2, <1>3, <2>3, AwaitedIs, AwaitedWillBe
  <2>8. LastOne'
    <3> SUFFICES ASSUME Promised("reliable"), Promised("patient"), NEW r \in Question, Awaited(r)'
                 PROVE  /\ isTyping'
                        /\ \A p \in mounted \ {r} : Open(p)' => Ends(shown'[p])
      BY <1>2 DEF LastOne, Promised
    <3>1. Awaited(r) /\ (r = q => ~Ends(SubSeq(pipe[q], 1, n)))
      BY <1>5, <2>7
    <3>2. isTyping /\ \A p \in mounted \ {r} : Open(p) => Ends(shown[p])
      BY <3>1 DEF Input, LastOne
    <3>3. r # q => q \notin mounted
      BY <1>3, <2>6, <3>2
    <3>4. isTyping'
      BY <2>4, <3>1, <3>2, <3>3
    <3>5. \A p \in mounted \ {r} : p # q /\ p \in Question
      BY <1>1, <3>3, <3>1, <2>6, <1>3, <3>2 DEF TypeOK
    <3>6. QED
      BY <1>3, <1>5, <3>2, <3>4, <3>5
  <2>9. TypingIsForAnAnswer'
    <3> SUFFICES ASSUME Promised("sound"), isTyping' PROVE \E r \in Question : Awaited(r)'
      BY <1>2 DEF TypingIsForAnAnswer, Promised
    <3>1. PICK r \in Question : Awaited(r)
      BY <2>4 DEF Input, TypingIsForAnAnswer
    <3>2. r = q => Awaited(q)'
      BY <1>2, <2>3, <2>4, <2>5, <3>1, AwaitedIs, AwaitedWillBe
    <3>3. QED
      BY <1>5, <3>1, <3>2
  <2>10. QED
    BY <1>4, <2>8, <2>9 DEF Input
<1>7. CASE Fetched(q) \/ ReadDone(q) \/ ReadFails(q)
  <2>1. shown' = shown /\ (isTyping' => isTyping)
    BY <1>1, <1>7 DEF Fetched, Caught, ReadDone, ReadFails, TypeOK
  <2>2. \A p \in Question : /\ Open(p)' => Open(p)
                            /\ Awaited(p)' => Awaited(p)
    <3>1. \A p \in Question : Open(p)' => Open(p)
      BY <1>3, <1>5
    <3>2. QED
      BY <1>2, <2>1, <3>1, AwaitedIs, AwaitedWillBe
  <2>3. Promised("reliable") => isTyping' = isTyping
    <3>1. Promised("reliable") => response[q] # "cut"
      BY DEF Input, Told, Whole
    <3>2. QED
      BY <1>7, <3>1 DEF Fetched, ReadDone, ReadFails
  <2>4. LastOne'
    BY <1>1, <1>2, <2>1, <2>2, <2>3 DEF Input, LastOne, Promised, TypeOK
  <2>5. ASSUME Promised("sound"), isTyping', Awaited(q) PROVE Awaited(q)'
    <3>1. q \in mounted \ stopFlag /\ ~Ends(shown[q])
      BY <2>5, AwaitedIs
    <3>2. ~ReadDone(q)
      <4>1. SUFFICES ASSUME ReadDone(q) PROVE Ends(shown[q])
        BY <3>1
      <4>2. response[q] = "closed" /\ pipe[q] = <<>> /\ stream'[q] = "done"
        BY <1>1, <4>1 DEF ReadDone, TypeOK
      <4>3. q \in accepted => task[q] = "done" /\ shown[q] = made[q]
        BY <1>1, <1>2, <2>1, <4>2 DEF IInv, Sound, AllShown
      <4>4. Ends(made[q])
        BY <2>5, <4>2, <4>3 DEF Input, Told, Concludes
      <4>5. ASSUME q \notin accepted PROVE shown[q] = made[q]
        <5>1. chunks[q] = <<>>
          BY <4>5 DEF Input, Told, NotAccepted
        <5>2. PICK a \in Seq(Event) : a = shown[q]
          BY <1>1, QuestionTypes
        <5>3. Line(a, <<>>, <<>>) = a
          BY ConcatEmptySeq DEF Line
        <5>4. QED
          BY <4>2, <5>1, <5>2, <5>3 DEF IInv, Sound, InLine
      <4>6. QED
        BY <4>3, <4>4, <4>5
    <3>3. ~ReadFails(q) /\ ~(Fetched(q) /\ response[q] = "cut")
      BY <1>1, <2>5, <3>1 DEF ReadFails, Fetched, Caught, TypeOK
    <3>4. Open(q)'
      BY <1>1, <1>7, <3>1, <3>2, <3>3 DEF Fetched, IsStopped, Open, TypeOK
    <3>5. QED
      BY <1>2, <2>1, <3>1, <3>4, AwaitedWillBe
  <2>6. TypingIsForAnAnswer'
    BY <1>2, <1>5, <2>1, <2>5 DEF Input, TypingIsForAnAnswer, Promised
  <2>7. QED
    BY <1>4, <2>4, <2>6 DEF Input
<1>8. QED
  BY <1>6, <1>7

-----------------------------------------------------------------------------
(* The user. *)

\* What the thread, the generator and the request have done stays.
LEMMA UserTold ==
    ASSUME IInv, Input, UserStep, NEW q \in Question
    PROVE  Told(q)'
<1> USE DEF taskVars, wire, answerVars
<1>1. TypeOK /\ Told(q)
  BY DEF IInv, Input
<1>2. UNCHANGED <<task, made, chunks, response, accepted, shown, world>>
  BY DEF UserStep, sendMessage, goHistory, HistoryLoaded, onChatCreatedQuick,
         createNewChat, NotCreated
<1>3. EndIsLast(q)' /\ Concludes(q)' /\ NotAccepted(q)' /\ Whole(q)'
  BY <1>1, <1>2 DEF Told, EndIsLast, Concludes, NotAccepted, Whole, Promised
<1>4. NotAsked(q)'
  <2>1. ASSUME NEW r \in Question, sendMessage(r) PROVE NotAsked(q)'
    <3>1. asked' = [asked EXCEPT ![r] = chat] /\ chat # NoChat
          /\ mounted' = mounted \union {r} /\ stream' = [stream EXCEPT ![r] = "requested"]
          /\ UNCHANGED <<stopFlag, response>>
      BY <2>1 DEF sendMessage
    <3>2. QED
      BY <1>1, <3>1 DEF Told, NotAsked, TypeOK
  <2>2. ASSUME mounted' \subseteq mounted, stopFlag' \subseteq stopFlag \union mounted,
               UNCHANGED <<asked, stream, response>>
        PROVE  NotAsked(q)'
    BY <1>1, <2>2 DEF Told, NotAsked
  <2>3. ASSUME NEW c \in Chat, goHistory(c) \/ HistoryLoaded(c) \/ onChatCreatedQuick(c)
        PROVE  NotAsked(q)'
    BY <2>2, <2>3 DEF goHistory, HistoryLoaded, onChatCreatedQuick, Unmount, stopAll
  <2>4. CASE createNewChat \/ NotCreated
    BY <2>2, <2>4 DEF createNewChat, NotCreated, stopAll
  <2>5. QED
    BY <2>1, <2>3, <2>4 DEF UserStep
<1>5. QED
  BY <1>3, <1>4 DEF Told

\* When all are told to stop nothing is awaited any more.
LEMMA AllStopped ==
    ASSUME TypingIsForAnAnswer, stopAll, mounted' \subseteq mounted, UNCHANGED world
    PROVE  LastOne' /\ TypingIsForAnAnswer'
<1>1. \A q \in Question : ~Awaited(q)'
  BY DEF stopAll, Awaited
<1>2. Promised("sound") => ~isTyping'
  BY DEF stopAll, TypingIsForAnAnswer, Awaited
<1>3. QED
  BY <1>1, <1>2 DEF LastOne, TypingIsForAnAnswer, Promised

LEMMA UserInput ==
    ASSUME IInv, Input, UserStep
    PROVE  Input'
<1> USE DEF taskVars, wire, answerVars
<1>1. TypeOK /\ LastOne /\ TypingIsForAnAnswer
  BY DEF IInv, Input
<1>2. ASSUME NEW r \in Question, sendMessage(r) PROVE LastOne' /\ TypingIsForAnAnswer'
  <2>1. /\ ~isTyping /\ isTyping' = TRUE /\ asked[r] = NoChat
        /\ mounted' = mounted \union {r} /\ stream' = [stream EXCEPT ![r] = "requested"]
        /\ UNCHANGED <<stopFlag, shown, world>>
        /\ Promised("patient") => \A p \in mounted \cap stopFlag : ~Open(p)
    BY <1>2 DEF sendMessage
  <2>2. r \notin stopFlag /\ shown[r] = <<>> /\ mounted \subseteq Question
    <3>1. r \notin stopFlag /\ response[r] = "none"
      BY <2>1 DEF Input, Told, NotAsked
    <3>2. QED
      BY <1>1, <3>1 DEF IInv, Sound, NothingYet, TypeOK
  <2>3. ~Ends(shown[r])
    BY <2>2, EmptySeq DEF Ends
  <2>4. Awaited(r)'
    <3>1. r \in mounted' \ stopFlag' /\ Open(r)'
      BY <1>1, <2>1, <2>2 DEF Open, TypeOK
    <3>2. QED
      BY <2>1, <2>3, <3>1, AwaitedWillBe
  <2>5. \A p \in Question \ {r} : (Awaited(p)' <=> Awaited(p)) /\ (Open(p)' <=> Open(p))
    BY <1>1, <2>1 DEF Awaited, Open, TypeOK
  <2>6. LastOne'
    <3> SUFFICES ASSUME Promised("reliable"), Promised("patient"), NEW q \in Question, Awaited(q)'
                 PROVE  isTyping' /\ \A p \in mounted' \ {q} : Open(p)' => Ends(shown'[p])
      BY <2>1 DEF LastOne, Promised
    <3>1. \A p \in Question : ~Awaited(p)
      BY <1>1, <2>1 DEF LastOne
    <3>2. q = r
      BY <2>5, <3>1
    <3>3. ASSUME NEW p \in mounted, p # r, Open(p)' PROVE Ends(shown[p])
      <4>1. p \in Question /\ Open(p)
        BY <2>2, <2>5, <3>3
      <4>2. p \notin stopFlag
        BY <2>1, <4>1
      <4>3. QED
        BY <3>1, <4>1, <4>2, AwaitedIs
    <3>4. QED
      BY <2>1, <3>2, <3>3
  <2>7. QED
    BY <2>4, <2>6 DEF TypingIsForAnAnswer
<1>3. ASSUME NEW c \in Chat, goHistory(c) \/ onChatCreatedQuick(c)
      PROVE  LastOne' /\ TypingIsForAnAnswer'
  <2>1. stopAll /\ mounted' \subseteq mounted /\ UNCHANGED world
    BY <1>3 DEF goHistory, onChatCreatedQuick, Unmount
  <2>2. QED
    BY <1>1, <2>1, AllStopped
<1>4. ASSUME NEW c \in Chat, HistoryLoaded(c) PROVE LastOne' /\ TypingIsForAnAnswer'
  <2>1. CASE c = chat
    <3>1. stopAll /\ mounted' \subseteq mounted /\ UNCHANGED world
      BY <1>4, <2>1 DEF HistoryLoaded, Unmount
    <3>2. QED
      BY <1>1, <3>1, AllStopped
  <2>2. CASE c # chat
    <3>1. PageSame
      BY <1>4, <2>2 DEF HistoryLoaded, PageSame
    <3>2. QED
      BY <1>1, <3>1, SamePage
  <2>3. QED
    BY <2>1, <2>2
<1>5. CASE createNewChat
  <2>1. stopAll /\ mounted' \subseteq mounted /\ UNCHANGED world
    BY <1>5 DEF createNewChat
  <2>2. QED
    BY <1>1, <2>1, AllStopped, UserTold DEF Input
<1>6. CASE NotCreated
  <2>1. PageSame
    BY <1>6 DEF NotCreated, PageSame
  <2>2. QED
    BY <1>1, <2>1, SamePage, UserTold DEF Input
<1>7. QED
  BY UserTold, <1>2, <1>3, <1>4, <1>5, <1>6 DEF UserStep, Input

-----------------------------------------------------------------------------
(* The input, from the beginning. *)

LEMMA InputAtFirst == Init => Input
<1> SUFFICES ASSUME Init PROVE Input
  OBVIOUS
<1> USE DEF Init, TaskInit
<1>1. DOMAIN <<>> = {}
  BY EmptySeq
<1>2. ASSUME NEW q \in Question PROVE Told(q)
  BY <1>1 DEF Told, EndIsLast, Ends, Concludes, NotAsked, NotAccepted, Whole
<1>3. LastOne /\ TypingIsForAnAnswer
  BY DEF LastOne, TypingIsForAnAnswer, Awaited
<1>4. QED
  BY <1>2, <1>3 DEF Input

LEMMA InputKept == IInv /\ Input /\ [Next]_vars => Input'
<1> SUFFICES ASSUME IInv, Input, [Next]_vars PROVE Input'
  OBVIOUS
<1>1. ASSUME NEW q \in Question, TaskStep(q), OffPage PROVE Input'
  BY <1>1, ThreadTold, GeneratorTold DEF TaskStep
<1>2. ASSUME NEW q \in Question, Reader(q) \/ Served(q) PROVE Input'
  BY <1>2, ReaderTold, ServedTold
<1>3. CASE UserStep
  BY <1>3, UserInput
<1>4. CASE UNCHANGED vars
  <2> USE <1>4 DEF vars, taskVars, wire, pageVars, answerVars
  <2>1. ASSUME NEW q \in Question PROVE Told(q)'
    BY DEF Input, Told, EndIsLast, Concludes, NotAsked, NotAccepted, Whole, Ends, Promised
  <2>2. PageSame
    BY DEF PageSame
  <2>3. QED
    BY <2>1, <2>2, SamePage DEF Input
<1>5. QED
  BY <1>1, <1>2, <1>3, <1>4 DEF Next, UserStep

LEMMA InputInvariance == Spec => []Input
<1>1. Spec => []IInv
  BY Invariance
<1>2. QED
  BY <1>1, InputAtFirst, InputKept, PTL DEF Spec

-----------------------------------------------------------------------------
(* The record: what the database says of an answer and how it was told.    *)

Tells(s, e) == \E i \in DOMAIN s : s[i] = e
Listened(q) == stream[q] = "none" => response[q] = "none"

\* A record is written after the answer has told how it ends, and a task that is
\* done has written it; what was refused tells nothing else.
Written(q) ==
    /\ task[q] \in {"none", "running"} => record[q] = NoRecord
    /\ record[q].error => record[q].finish
    /\ q \notin accepted => made[q] \in {<<>>, <<"error">>}
    /\ Promised("sound") =>
           /\ task[q] = "done" => record[q].finish
           /\ task[q] = "closing" /\ ~record[q].finish => Tells(made[q], "finish")

Records == \A q \in Question : Listened(q) /\ Written(q)

\* The last event of a script.
LEMMA ScriptLast ==
    ASSUME NEW q \in Question
    PROVE  Script(q)[Len(Script(q))] = "finish"
<1>1. Steps[q] \in Nat
  BY ChatTaskAssumption DEF Question
<1> DEFINE step == [i \in 1 .. Steps[q] |-> "step"]
<1>2. PICK s \in Seq(Event) : s = step
  <2>1. step \in Seq(Event)
    BY <1>1 DEF Event
  <2>2. QED
    BY <2>1
<1>3. PICK f \in Seq(Event) : f = <<"finish">>
  BY EventSeqs DEF Event
<1>4. Len(s) = Steps[q] /\ Len(f) = 1 /\ f[1] = "finish"
  BY <1>1, <1>2, <1>3
<1>5. Script(q) = s \o f
  BY <1>2, <1>3 DEF Script
<1>6. Len(s) + 1 \in 1 .. Len(s) + Len(f) /\ ~(Len(s) + 1 <= Len(s)) /\ Len(s) + 1 - Len(s) = 1
  BY <1>1, <1>4
<1>7. (s \o f)[Len(s) + 1] = f[1]
  BY <1>6, ConcatProperties
<1>8. QED
  BY <1>4, <1>5, <1>7, ScriptType

LEMMA YieldTells ==
    ASSUME TypeOK, NEW q \in Question, NEW e \in Event, Yield(q, e)
    PROVE  Tells(made'[q], e)
<1>1. PICK m \in Seq(Event) : m = made[q]
  BY QuestionTypes
<1>2. made'[q] = Append(m, e)
  BY <1>1 DEF Yield, TypeOK
<1>3. /\ Len(m) \in Nat /\ DOMAIN Append(m, e) = 1 .. Len(m) + 1
      /\ Append(m, e)[Len(m) + 1] = e
  BY LenProperties, AppendProperties
<1>4. Len(m) + 1 \in DOMAIN Append(m, e)
  BY <1>3
<1>5. QED
  BY <1>2, <1>3, <1>4 DEF Tells

LEMMA OthersWritten ==
    ASSUME Records, NEW q \in Question, OthersSame(q), UNCHANGED world,
           \A p \in Question \ {q} : record'[p] = record[p],
           Listened(q)', Written(q)'
    PROVE  Records'
<1>1. \A p \in Question \ {q} : Listened(p)' /\ Written(p)'
  BY DEF Records, OthersSame, Listened, Written, Promised, Tells, NoRecord
<1>2. QED
  BY <1>1 DEF Records

LEMMA ThreadWrites ==
    ASSUME IInv, Input, Records, NEW q \in Question, OffPage,
           NextStage(q) \/ StageFails(q) \/ SaveErrorFails(q) \/ FinishRecord(q)
    PROVE  Records'
<1> USE DEF OffPage, wire, answerVars
<1>1. TypeOK /\ Told(q) /\ Listened(q) /\ Written(q)
  BY DEF IInv, Input, Records
<1>2. UNCHANGED <<consumer, response, pipe, shown, accepted, stream, world>>
  BY DEF NextStage, StageFails, SaveErrorFails, FinishRecord
<1>3. q \in accepted
  BY <1>1 DEF Told, NotAccepted, NextStage, StageFails, SaveErrorFails, FinishRecord
<1>4. /\ OthersSame(q) /\ \A p \in Question \ {q} : record'[p] = record[p]
  <2>1. \A p \in Question \ {q} :
            task'[p] = task[p] /\ made'[p] = made[p] /\ chunks'[p] = chunks[p]
    BY <1>1 DEF NextStage, StageFails, SaveErrorFails, FinishRecord, Yield, TypeOK
  <2>2. \A p \in Question \ {q} : record'[p] = record[p]
    BY <1>1 DEF NextStage, StageFails, SaveErrorFails, FinishRecord, TypeOK
  <2>3. QED
    BY <1>2, <2>1, <2>2 DEF OthersSame
<1>5. Listened(q)'
  BY <1>1, <1>2 DEF Listened
<1>6. CASE NextStage(q)
  <2>1. PICK n : n = Len(made[q]) + 1
    OBVIOUS
  <2>2. /\ task[q] = "running" /\ UNCHANGED record /\ Yield(q, Script(q)[n])
        /\ task'[q] = IF n = Len(Script(q)) THEN "closing" ELSE "running"
    BY <1>1, <1>6, <2>1 DEF NextStage, TypeOK
  <2>3. ASSUME n = Len(Script(q)) PROVE Tells(made'[q], "finish")
    <3>1. Script(q)[n] = "finish" /\ "finish" \in Event
      BY <2>3, ScriptLast DEF Event
    <3>2. QED
      BY <1>1, <2>2, <3>1, YieldTells
  <2>4. QED
    BY <1>1, <1>2, <1>3, <1>4, <1>5, <2>2, <2>3, OthersWritten DEF Written, Promised
<1>7. CASE StageFails(q)
  <2>1. /\ record'[q] = [finish |-> TRUE, error |-> TRUE] /\ task'[q] = "closing"
    BY <1>1, <1>7 DEF StageFails, TypeOK
  <2>2. QED
    BY <1>1, <1>2, <1>3, <1>4, <1>5, <2>1, OthersWritten DEF Written, Promised
<1>8. CASE SaveErrorFails(q)
  <2>1. task'[q] = "closing" /\ task[q] = "running" /\ UNCHANGED <<record, made>> /\ ~Promised("sound")
    BY <1>1, <1>8 DEF SaveErrorFails, TypeOK
  <2>2. QED
    BY <1>1, <1>2, <1>3, <1>4, <1>5, <2>1, OthersWritten DEF Written, Promised
<1>9. CASE FinishRecord(q)
  <2>1. /\ task'[q] = "done" /\ UNCHANGED made
        /\ \/ record'[q].finish /\ record'[q].error = record[q].error
           \/ ~Promised("sound") /\ UNCHANGED record
    BY <1>1, <1>9 DEF FinishRecord, TypeOK
  <2>2. QED
    BY <1>1, <1>2, <1>3, <1>4, <1>5, <2>1, OthersWritten DEF Written, Promised
<1>10. QED
  BY <1>6, <1>7, <1>8, <1>9

LEMMA GeneratorWrites ==
    ASSUME IInv, Records, NEW q \in Question, OffPage,
           is_running(q) \/ pop_chunk(q) \/ NoChunk(q) \/ Disconnect(q) \/ Cut(q)
    PROVE  Records'
<1> USE DEF OffPage, wire, taskVars, answerVars
<1>1. TypeOK /\ Sound(q)
  BY DEF IInv
<1>2. UNCHANGED <<task, made, record, accepted, stream, world>>
  BY DEF is_running, pop_chunk, NoChunk, Disconnect, Cut
<1>3. response[q] # "none" /\ \A p \in Question \ {q} : response'[p] = response[p]
  BY <1>1 DEF Sound, NothingYet, is_running, pop_chunk, NoChunk, Disconnect, Cut, TypeOK
<1>4. \A p \in Question : Listened(p)' /\ Written(p)'
  BY <1>2, <1>3 DEF Records, Listened, Written, Promised
<1>5. QED
  BY <1>4 DEF Records

LEMMA ReaderWrites ==
    ASSUME IInv, Records, NEW q \in Question, Reader(q)
    PROVE  Records'
<1>1. TypeOK /\ Sound(q)
  BY DEF IInv
<1>2. UNCHANGED <<task, made, record, accepted, world>>
  BY DEF Reader, taskVars
<1>3. /\ \A p \in Question \ {q} : response'[p] = response[p] /\ stream'[p] = stream[p]
      /\ stream'[q] # "none"
  BY <1>1 DEF Reader, Fetched, ReadChunks, ReadDone, ReadFails, Caught, IsStopped, TypeOK
<1>4. \A p \in Question : Listened(p)' /\ Written(p)'
  BY <1>2, <1>3 DEF Records, Listened, Written, Promised
<1>5. QED
  BY <1>4 DEF Records

LEMMA ServedWrites ==
    ASSUME IInv, Records, NEW q \in Question, Served(q)
    PROVE  Records'
<1> USE DEF pageVars, answerVars, taskVars
<1>1. TypeOK /\ Sound(q) /\ Written(q)
  BY DEF IInv, Records
<1>2. /\ UNCHANGED <<stream, record, world>> /\ stream[q] = "requested" /\ response[q] = "none"
      /\ \A p \in Question \ {q} :
             /\ response'[p] = response[p] /\ task'[p] = task[p] /\ made'[p] = made[p]
             /\ p \in accepted' <=> p \in accepted
  BY <1>1 DEF Served, start_chat, error_response, NoStream, TypeOK
<1>3. task[q] = "none" /\ made[q] = <<>> /\ record[q] = NoRecord
  BY <1>1, <1>2 DEF Sound, NothingYet, Written
<1>4. /\ task'[q] \in {"none", "running"} /\ made'[q] \in {<<>>, <<"error">>}
  BY <1>1, <1>3 DEF Served, start_chat, error_response, NoStream, TypeOK
<1>5. \A p \in Question : Listened(p)' /\ Written(p)'
  BY <1>2, <1>3, <1>4 DEF Records, Listened, Written, Promised, NoRecord
<1>6. QED
  BY <1>5 DEF Records

LEMMA UserWrites ==
    ASSUME IInv, Records, UserStep
    PROVE  Records'
<1> USE DEF taskVars, wire, answerVars
<1>1. TypeOK
  BY DEF IInv
<1>2. UNCHANGED <<task, made, record, accepted, world, response>>
  BY DEF UserStep, sendMessage, goHistory, HistoryLoaded, onChatCreatedQuick,
         createNewChat, NotCreated
<1>3. \A q \in Question : stream'[q] = "none" => stream[q] = "none"
  BY <1>1 DEF UserStep, sendMessage, goHistory, HistoryLoaded, onChatCreatedQuick,
     createNewChat, NotCreated, TypeOK
<1>4. \A p \in Question : Listened(p)' /\ Written(p)'
  BY <1>2, <1>3 DEF Records, Listened, Written, Promised
<1>5. QED
  BY <1>4 DEF Records

LEMMA RecordsAtFirst == Init => Records
BY DEF Init, TaskInit, Records, Listened, Written, NoRecord

LEMMA RecordsKept == IInv /\ Input /\ Records /\ [Next]_vars => Records'
<1> SUFFICES ASSUME IInv, Input, Records, [Next]_vars PROVE Records'
  OBVIOUS
<1>1. ASSUME NEW q \in Question, TaskStep(q), OffPage PROVE Records'
  BY <1>1, ThreadWrites, GeneratorWrites DEF TaskStep
<1>2. ASSUME NEW q \in Question, Reader(q) \/ Served(q) PROVE Records'
  BY <1>2, ReaderWrites, ServedWrites
<1>3. CASE UserStep
  BY <1>3, UserWrites
<1>4. CASE UNCHANGED vars
  BY <1>4 DEF vars, taskVars, wire, answerVars, Records, Listened, Written, Promised
<1>5. QED
  BY <1>1, <1>2, <1>3, <1>4 DEF Next, UserStep

-----------------------------------------------------------------------------
(* Every step is one of AnswerStream or leaves what it speaks of alone.    *)

Ears == [q \in Question |-> EarOf(q)]
Saveds == [q \in Question |-> SavedOf(q)]

\* What a step of one question does to the mapped functions.
LEMMA OneEar ==
    ASSUME NEW q \in Question, \A p \in Question \ {q} : stream'[p] = stream[p]
    PROVE  Ears' = [Ears EXCEPT ![q] = EarOf(q)']
BY DEF Ears, EarOf, Open

LEMMA OneSaved ==
    ASSUME NEW q \in Question, \A p \in Question \ {q} : record'[p] = record[p]
    PROVE  Saveds' = [Saveds EXCEPT ![q] = SavedOf(q)']
<1>1. \A p \in Question \ {q} : SavedOf(p)' = SavedOf(p)
  BY DEF SavedOf
<1>2. QED
  BY <1>1 DEF Saveds

LEMMA Unmoved ==
    /\ UNCHANGED stream => UNCHANGED Ears
    /\ UNCHANGED record => UNCHANGED Saveds
BY DEF Ears, EarOf, Open, Saveds, SavedOf

\* An answer that has not told its end may go on while its task runs.
LEMMA MayGrow ==
    ASSUME IInv, Input, Records, NEW q \in Question, task[q] = "running"
    PROVE  /\ Ears[q] \notin {"none", "done"} /\ Saveds[q] = "none"
           /\ ~Answers!Over(q)
<1>1. TypeOK /\ Sound(q) /\ Told(q) /\ Listened(q) /\ Written(q)
  BY DEF IInv, Input, Records
<1>2. response[q] # "none" /\ q \in accepted
  BY <1>1 DEF Sound, NothingYet, Told, NotAccepted
<1>3. stream[q] \notin {"none", "done"}
  BY <1>1, <1>2 DEF Listened, Sound, AllShown
<1>4. Ears[q] \notin {"none", "done"}
  BY <1>3 DEF Ears, EarOf
<1>5. Saveds[q] = "none"
  BY <1>1 DEF Saveds, SavedOf, Written, NoRecord
<1>6. ~Ends(made[q])
  BY <1>1 DEF Told, EndIsLast
<1>7. ~Answers!Over(q)
  BY <1>6 DEF Answers!Over, Answers!Tells, Ends, IsEnd
<1>8. QED
  BY <1>4, <1>5, <1>7

LEMMA ThreadAnswers ==
    ASSUME IInv, Input, Records, NEW q \in Question, OffPage,
           NextStage(q) \/ StageFails(q) \/ SaveErrorFails(q) \/ FinishRecord(q)
    PROVE  Answers!Next \/ UNCHANGED Answers!answers
<1> USE DEF OffPage, wire, answerVars
<1>1. TypeOK /\ Told(q) /\ Written(q)
  BY DEF IInv, Input, Records
<1>2. UNCHANGED <<shown, stream, world>> /\ UNCHANGED Ears
  BY Unmoved DEF NextStage, StageFails, SaveErrorFails, FinishRecord
<1>3. \A p \in Question \ {q} : record'[p] = record[p]
  BY <1>1 DEF NextStage, StageFails, SaveErrorFails, FinishRecord, TypeOK
<1>4. CASE NextStage(q)
  <2>1. /\ task[q] = "running" /\ UNCHANGED record
        /\ Len(made[q]) + 1 \in 1 .. Steps[q] + 1
        /\ made' = [made EXCEPT ![q] = Append(@, Script(q)[Len(made[q]) + 1])]
    <3>1. PICK m \in Seq(Event) : m = made[q]
      BY <1>1, QuestionTypes
    <3>2. task[q] = "running" /\ Len(m) \in Nat /\ Len(m) <= Steps[q] /\ Steps[q] \in Nat
      BY <1>4, <3>1, ChatTaskAssumption, LenProperties DEF IInv, Sound, EventsLeft, NextStage, Question
    <3>3. QED
      BY <1>4, <3>1, <3>2 DEF NextStage, Yield
  <2>2. PICK e \in Event : e = Script(q)[Len(made[q]) + 1] /\ e # "error"
    <3>1. PICK n \in 1 .. Steps[q] + 1 : n = Len(made[q]) + 1
      BY <2>1
    <3>2. Script(q)[n] \in Event
      BY ScriptType
    <3>3. Script(q)[n] # "error"
      BY ScriptEnds, ScriptLast DEF IsEnd
    <3>4. QED
      BY <3>1, <3>2, <3>3
  <2>3. e \in {"step", "finish"}
    BY <2>2 DEF Event
  <2>4. Answers!Grow(q, e) /\ UNCHANGED Saveds
    BY <1>2, <2>1, <2>2, MayGrow, Unmoved DEF Answers!Grow, Ears, Saveds
  <2>5. Answers!Tell(q)
    BY <2>3, <2>4 DEF Answers!Tell, Saveds
  <2>6. QED
    BY <2>5 DEF Answers!Next
<1>5. CASE StageFails(q)
  <2>1. task[q] = "running" /\ made' = [made EXCEPT ![q] = Append(@, "error")]
    BY <1>5 DEF StageFails, Yield
  <2>2. SavedOf(q)' = "failed"
    BY <1>1, <1>5 DEF StageFails, SavedOf, TypeOK
  <2>3. Saveds' = [Saveds EXCEPT ![q] = "failed"]
    BY <1>3, <2>2, OneSaved
  <2>4. Answers!Fail(q)
    BY <1>2, <2>1, <2>3, MayGrow DEF Answers!Fail, Answers!Grow, Ears, Saveds
  <2>5. QED
    BY <2>4 DEF Answers!Next
<1>6. CASE SaveErrorFails(q)
  BY <1>2, <1>6, Unmoved DEF SaveErrorFails, Answers!answers, Ears, Saveds
<1>7. CASE FinishRecord(q)
  <2>1. UNCHANGED made /\ task[q] = "closing"
    BY <1>7 DEF FinishRecord
  <2>2. CASE UNCHANGED record
    BY <1>2, <2>1, <2>2, Unmoved DEF Answers!answers, Ears, Saveds
  <2>3. CASE ~UNCHANGED record
    <3>1. record'[q].finish = TRUE /\ record'[q].error = record[q].error
      BY <1>1, <1>7, <2>3 DEF FinishRecord, TypeOK
    <3>2. ~record[q].finish
      <4>1. SUFFICES ASSUME record[q].finish PROVE UNCHANGED record
        BY <2>3
      <4>2. record[q] \in [finish : BOOLEAN, error : BOOLEAN] /\ record[q].finish = TRUE
        BY <1>1, <4>1 DEF TypeOK
      <4>3. [record[q] EXCEPT !.finish = TRUE] = record[q]
        BY <4>2
      <4>4. record' = [record EXCEPT ![q] = [record[q] EXCEPT !.finish = TRUE]]
        BY <1>7, <2>3 DEF FinishRecord
      <4>5. QED
        BY <1>1, <4>3, <4>4 DEF TypeOK
    <3>3. SavedOf(q) = "none" /\ SavedOf(q)' = "finished"
      BY <1>1, <3>1, <3>2 DEF SavedOf, Written
    <3>4. Saveds[q] = "none" /\ Saveds' = [Saveds EXCEPT ![q] = "finished"]
      BY <1>3, <3>3, OneSaved DEF Saveds
    <3>5. "sound" \in world => Answers!Tells(q, "finish")
      BY <1>1, <2>1, <3>2 DEF Written, Promised, Tells, Answers!Tells
    <3>6. Answers!Finish(q)
      BY <1>2, <2>1, <3>4, <3>5 DEF Answers!Finish, Ears, Saveds
    <3>7. QED
      BY <3>6 DEF Answers!Next
  <2>4. QED
    BY <2>2, <2>3
<1>8. QED
  BY <1>4, <1>5, <1>6, <1>7

LEMMA GeneratorAnswers ==
    ASSUME NEW q \in Question, OffPage,
           is_running(q) \/ pop_chunk(q) \/ NoChunk(q) \/ Disconnect(q) \/ Cut(q)
    PROVE  UNCHANGED Answers!answers
<1>1. UNCHANGED <<made, shown, stream, record, world>>
  BY DEF OffPage, wire, taskVars, answerVars, is_running, pop_chunk, NoChunk, Disconnect, Cut
<1>2. QED
  BY <1>1, Unmoved DEF Answers!answers, Ears, Saveds

LEMMA ServedAnswers ==
    ASSUME IInv, Input, Records, NEW q \in Question, Served(q)
    PROVE  Answers!Next \/ UNCHANGED Answers!answers
<1> USE DEF pageVars, answerVars, taskVars
<1>1. TypeOK /\ Sound(q) /\ Written(q)
  BY DEF IInv, Records
<1>2. /\ UNCHANGED <<shown, stream, record, world>> /\ stream[q] = "requested"
      /\ UNCHANGED Ears /\ UNCHANGED Saveds
  BY Unmoved DEF Served, start_chat, error_response, NoStream
<1>3. made[q] = <<>> /\ record[q] = NoRecord
  BY <1>1 DEF Served, Sound, NothingYet, Written
<1>4. CASE start_chat(q) \/ NoStream(q)
  BY <1>2, <1>4 DEF start_chat, NoStream, Answers!answers, Ears, Saveds
<1>5. CASE error_response(q)
  <2>1. made' = [made EXCEPT ![q] = Append(@, "error")]
    <3>1. made' = [made EXCEPT ![q] = <<"error">>]
      BY <1>5 DEF error_response
    <3>2. Append(made[q], "error") = <<"error">>
      BY <1>3
    <3>3. QED
      BY <3>1, <3>2
  <2>2. Ears[q] = "listening" /\ Saveds[q] = "none"
    BY <1>2, <1>3 DEF Ears, EarOf, Open, Saveds, SavedOf, NoRecord
  <2>3. ~Answers!Over(q)
    <3>1. DOMAIN made[q] = {}
      BY <1>3, EmptySeq
    <3>2. QED
      BY <3>1 DEF Answers!Over, Answers!Tells
  <2>4. Answers!Refuse(q)
    BY <1>2, <1>3, <2>1, <2>2, <2>3 DEF Answers!Refuse, Answers!Grow, Ears, Saveds
  <2>5. QED
    BY <2>4 DEF Answers!Next
<1>6. QED
  BY <1>4, <1>5 DEF Served

\* What has been handled of an answer is its beginning.
LEMMA HeardIsBeginning ==
    ASSUME NEW s \in Seq(Event), NEW p \in Seq(Event), NEW c \in Seq(Event)
    PROVE  Len(s) \in 0 .. Len(Line(s, p, c)) /\ SubSeq(Line(s, p, c), 1, Len(s)) = s
<1>1. PICK r \in Seq(Event) : r = p \o c
  BY EventConcat
<1>2. Line(s, p, c) = s \o r
  <2>1. (s \o p) \o c = s \o (p \o c)
    BY ConcatAssociative
  <2>2. QED
    BY <1>1, <2>1 DEF Line
<1>3. Len(s) \in Nat /\ Len(r) \in Nat /\ Len(s \o r) = Len(s) + Len(r)
  BY LenProperties, ConcatProperties
<1>4. CASE Len(s) = 0
  <2>1. s = <<>>
    BY <1>4, EmptySeq
  <2>2. SubSeq(s \o r, 1, Len(s)) = <<>>
    BY <1>4, SubSeqEmpty
  <2>3. QED
    BY <1>2, <1>3, <1>4, <2>1, <2>2
<1>5. CASE Len(s) # 0
  <2>1. 1 \in 1 .. Len(s) /\ Len(s) \in 1 .. Len(s)
    BY <1>3, <1>5
  <2>2. SubSeq(s \o r, 1, Len(s)) = SubSeq(s, 1, Len(s))
    BY <2>1, SubSeqOfConcat1
  <2>3. SubSeq(s, 1, Len(s)) = s
    BY SubSeqFull
  <2>4. QED
    BY <1>2, <1>3, <2>2, <2>3
<1>6. QED
  BY <1>4, <1>5

LEMMA HearsMore ==
    ASSUME IInv, IInv', NEW q \in Question, UNCHANGED made,
           Len(shown[q]) <= Len(shown'[q]),
           \A p \in Question \ {q} : shown'[p] = shown[p]
    PROVE  \E n \in Len(shown[q]) .. Len(made[q]) :
               shown' = [shown EXCEPT ![q] = SubSeq(made[q], 1, n)]
<1>1. PICK a \in Seq(Event), s \in Seq(Event), p \in Seq(Event), c \in Seq(Event) :
          a = shown[q] /\ s = shown'[q] /\ p = pipe'[q] /\ c = chunks'[q]
  <2>1. /\ shown \in [Question -> Seq(Event)] /\ shown' \in [Question -> Seq(Event)]
        /\ pipe' \in [Question -> Seq(Event)] /\ chunks' \in [Question -> Seq(Event)]
    BY DEF IInv, TypeOK
  <2>2. QED
    BY <2>1
<1>2. made[q] = Line(s, p, c)
  BY <1>1 DEF IInv, Sound, InLine
<1>3. Len(s) \in 0 .. Len(made[q]) /\ SubSeq(made[q], 1, Len(s)) = s
  BY <1>2, HeardIsBeginning
<1>4. Len(a) \in Nat /\ Len(s) \in Nat /\ Len(made[q]) \in Nat
  <2>1. made[q] \in Seq(Event)
    BY QuestionTypes DEF IInv
  <2>2. QED
    BY <2>1, LenProperties
<1>5. Len(s) \in Len(shown[q]) .. Len(made[q])
  BY <1>1, <1>3, <1>4
<1>6. shown' = [shown EXCEPT ![q] = s]
  BY <1>1 DEF IInv, TypeOK
<1>7. QED
  BY <1>3, <1>5, <1>6

\* Read to its end, a response has brought everything, and the record is there.
LEMMA EndIsWhole ==
    ASSUME IInv, Input, Records, NEW q \in Question, ReadDone(q)
    PROVE  /\ shown[q] = made[q]
           /\ Promised("sound") =>
                  Answers!Over(q) /\ (Saveds[q] # "none" \/ made[q] = <<"error">>)
<1>1. TypeOK /\ Sound(q) /\ Told(q) /\ Written(q)
  BY DEF IInv, Input, Records
<1>2. response[q] = "closed" /\ pipe[q] = <<>>
  BY DEF ReadDone
<1>3. chunks[q] = <<>> /\ (q \in accepted => task[q] = "done")
  BY <1>1, <1>2 DEF Sound, EndedByGenerator, SawItDone, Told, NotAccepted
<1>4. shown[q] = made[q]
  <2>1. PICK a \in Seq(Event) : a = shown[q]
    BY <1>1, QuestionTypes
  <2>2. Line(a, <<>>, <<>>) = a
    BY ConcatEmptySeq DEF Line
  <2>3. QED
    BY <1>1, <1>2, <1>3, <2>1, <2>2 DEF Sound, InLine
<1>5. ASSUME Promised("sound")
      PROVE  Answers!Over(q) /\ (Saveds[q] # "none" \/ made[q] = <<"error">>)
  <2>1. Ends(made[q])
    BY <1>1, <1>2, <1>3, <1>5 DEF Told, Concludes
  <2>2. Answers!Over(q)
    BY <2>1 DEF Ends, IsEnd, Answers!Over, Answers!Tells
  <2>3. CASE q \in accepted
    <3>1. record[q].finish
      BY <1>1, <1>3, <1>5, <2>3 DEF Written
    <3>2. QED
      BY <2>2, <3>1 DEF Saveds, SavedOf
  <2>4. CASE q \notin accepted
    <3>1. made[q] # <<>>
      <4>1. DOMAIN <<>> = {}
        BY EmptySeq
      <4>2. QED
        BY <2>1, <4>1 DEF Ends
    <3>2. QED
      BY <1>1, <2>2, <2>4, <3>1 DEF Written
  <2>5. QED
    BY <2>3, <2>4
<1>6. QED
  BY <1>4, <1>5

LEMMA ReaderAnswers ==
    ASSUME IInv, Input, Records, NEW q \in Question, Reader(q)
    PROVE  Answers!Next \/ UNCHANGED Answers!answers
<1>1. TypeOK /\ Sound(q) /\ Told(q) /\ IInv'
  BY ReaderStep DEF IInv, Input
<1>2. UNCHANGED <<made, record, world>> /\ UNCHANGED Saveds
  BY Unmoved DEF Reader, taskVars
<1>3. /\ \A p \in Question \ {q} : stream'[p] = stream[p]
      /\ Open(q) /\ Ears[q] = "listening"
  BY <1>1 DEF Reader, Fetched, ReadChunks, ReadDone, ReadFails, Caught, IsStopped, TypeOK,
              Open, Ears, EarOf
<1>4. Ears' = [Ears EXCEPT ![q] = EarOf(q)']
  BY <1>3, OneEar
<1>5. CASE ReadChunks(q)
  <2>1. stream'[q] \in {"reading", "aborted"}
    BY <1>1, <1>5 DEF ReadChunks, IsStopped, TypeOK
  <2>2. EarOf(q)' \in {"listening", "aborted"}
    BY <2>1 DEF EarOf, Open
  <2>3. /\ Len(shown[q]) <= Len(shown'[q])
        /\ \A p \in Question \ {q} : shown'[p] = shown[p]
    <3>1. PICK n \in 0 .. Len(pipe[q]) : Handle(q, SubSeq(pipe[q], 1, n))
      BY <1>5 DEF ReadChunks
    <3>2. /\ shown'[q] = shown[q] \o SubSeq(pipe[q], 1, n)
          /\ \A p \in Question \ {q} : shown'[p] = shown[p]
      BY <1>1, <3>1 DEF Handle, TypeOK
    <3>3. PICK a \in Seq(Event), b \in Seq(Event) : a = shown[q] /\ b = pipe[q]
      BY <1>1, QuestionTypes
    <3>4. PICK h \in Seq(Event) : h = SubSeq(b, 1, n)
      <4>1. n \in 0 .. Len(b)
        BY <3>1, <3>3
      <4>2. SubSeq(b, 1, n) \in Seq(Event)
        BY <4>1, <3>3, MovesSome, EventSeqs
      <4>3. QED
        BY <4>2
    <3>5. Len(a) \in Nat /\ Len(h) \in Nat /\ Len(a \o h) = Len(a) + Len(h)
      BY LenProperties, ConcatProperties
    <3>6. PICK x : x = a \o h
      OBVIOUS
    <3>7. shown'[q] = x
      BY <3>2, <3>3, <3>4, <3>6, Zenon
    <3>8. Len(x) = Len(a) + Len(h)
      BY <3>5, <3>6, Zenon
    <3>9. Len(a) <= Len(x)
      BY <3>5, <3>8
    <3>10. QED
      BY <3>2, <3>3, <3>7, <3>9
  <2>4. \E n \in Len(shown[q]) .. Len(made[q]) :
            shown' = [shown EXCEPT ![q] = SubSeq(made[q], 1, n)]
    BY <1>1, <1>2, <2>3, HearsMore DEF IInv
  <2>5. Answers!Hear(q)
    BY <1>2, <1>3, <1>4, <2>2, <2>4 DEF Answers!Hear, Ears, Saveds
  <2>6. QED
    BY <2>5 DEF Answers!Next
<1>6. CASE Fetched(q) \/ ReadFails(q)
  <2>1. UNCHANGED shown
    BY <1>6 DEF Fetched, ReadFails
  <2>2. stream'[q] \in {"reading", "aborted", "broken"}
    BY <1>1, <1>6 DEF Fetched, ReadFails, Caught, IsStopped, TypeOK
  <2>3. CASE stream'[q] = "broken"
    <3>1. response[q] = "cut"
      BY <1>1, <1>6, <2>3 DEF Fetched, ReadFails, IsStopped, TypeOK
    <3>2. "reliable" \notin world
      BY <1>1, <3>1 DEF Told, Whole, Promised
    <3>3. EarOf(q)' = "broken"
      BY <2>3 DEF EarOf, Open
    <3>4. Answers!BreakOff(q)
      BY <1>2, <1>3, <1>4, <2>1, <3>2, <3>3 DEF Answers!BreakOff, Ears, Saveds
    <3>5. QED
      BY <3>4 DEF Answers!Next
  <2>4. CASE stream'[q] # "broken"
    <3>1. EarOf(q)' \in {"listening", "aborted"}
      BY <2>2, <2>4 DEF EarOf, Open
    <3>2. \E n \in Len(shown[q]) .. Len(made[q]) :
              shown' = [shown EXCEPT ![q] = SubSeq(made[q], 1, n)]
      <4>1. Len(shown[q]) <= Len(shown'[q])
        <5>1. Len(shown[q]) \in Nat
          BY <1>1, QuestionTypes, LenProperties
        <5>2. QED
          BY <2>1, <5>1
      <4>2. QED
        BY <1>1, <1>2, <2>1, <4>1, HearsMore DEF IInv
    <3>3. Answers!Hear(q)
      BY <1>2, <1>3, <1>4, <3>1, <3>2 DEF Answers!Hear, Ears, Saveds
    <3>4. QED
      BY <3>3 DEF Answers!Next
  <2>5. QED
    BY <2>3, <2>4
<1>7. CASE ReadDone(q)
  <2>1. EarOf(q)' = "done" /\ UNCHANGED shown
    BY <1>1, <1>7 DEF ReadDone, EarOf, Open, TypeOK
  <2>2. Answers!HearTheEnd(q)
    BY <1>2, <1>3, <1>4, <1>7, <2>1, EndIsWhole
       DEF Answers!HearTheEnd, Ears, Saveds, Promised
  <2>3. QED
    BY <2>2 DEF Answers!Next
<1>8. QED
  BY <1>5, <1>6, <1>7 DEF Reader

LEMMA UserAnswers ==
    ASSUME IInv, Input, UserStep
    PROVE  Answers!Next \/ UNCHANGED Answers!answers
<1>1. UNCHANGED <<made, record, world, shown>> /\ UNCHANGED Saveds
  BY Unmoved DEF UserStep, sendMessage, goHistory, HistoryLoaded, onChatCreatedQuick,
     createNewChat, NotCreated, taskVars, answerVars
<1>2. CASE UNCHANGED stream
  BY <1>1, <1>2, Unmoved DEF Answers!answers, Ears, Saveds
<1>3. ASSUME NEW q \in Question, sendMessage(q) PROVE Answers!Next
  <2>1. TypeOK /\ Told(q)
    BY DEF IInv, Input
  <2>2. stream[q] = "none" /\ stream' = [stream EXCEPT ![q] = "requested"]
    BY <1>3, <2>1 DEF sendMessage, Told, NotAsked
  <2>3. EarOf(q) = "none" /\ EarOf(q)' = "listening"
    BY <2>1, <2>2 DEF EarOf, Open, TypeOK
  <2>4. Ears' = [Ears EXCEPT ![q] = "listening"] /\ Ears[q] = "none"
    BY <2>1, <2>2, <2>3, OneEar DEF TypeOK, Ears
  <2>5. Answers!Ask(q)
    BY <1>1, <2>4 DEF Answers!Ask, Ears, Saveds
  <2>6. QED
    BY <2>5 DEF Answers!Next
<1>4. QED
  BY <1>2, <1>3 DEF UserStep, goHistory, HistoryLoaded, onChatCreatedQuick, createNewChat,
                    NotCreated, answerVars

LEMMA AnswersStep ==
    IInv /\ Input /\ Records /\ [Next]_vars => [Answers!Next]_(Answers!answers)
<1> SUFFICES ASSUME IInv, Input, Records, [Next]_vars
             PROVE  Answers!Next \/ UNCHANGED Answers!answers
  BY DEF Answers!answers
<1>1. ASSUME NEW q \in Question, TaskStep(q), OffPage
      PROVE  Answers!Next \/ UNCHANGED Answers!answers
  BY <1>1, ThreadAnswers, GeneratorAnswers DEF TaskStep
<1>2. ASSUME NEW q \in Question, Reader(q) \/ Served(q)
      PROVE  Answers!Next \/ UNCHANGED Answers!answers
  BY <1>2, ReaderAnswers, ServedAnswers
<1>3. CASE UserStep
  BY <1>3, UserAnswers
<1>4. CASE UNCHANGED vars
  <2>1. UNCHANGED <<made, shown, stream, record, world>>
    BY <1>4 DEF vars, taskVars, answerVars
  <2>2. QED
    BY <2>1, Unmoved DEF Answers!answers, Ears, Saveds
<1>5. QED
  BY <1>1, <1>2, <1>3, <1>4 DEF Next, UserStep

LEMMA AnswersAtFirst == Init => Answers!Init
BY DEF Init, TaskInit, NoRecord, Answers!Init, EarOf, Open, SavedOf

LEMMA RecordsInvariance == Spec => []Records
<1>1. Spec => []IInv
  BY Invariance
<1>2. Spec => []Input
  BY InputInvariance
<1>3. QED
  BY <1>1, <1>2, RecordsAtFirst, RecordsKept, PTL DEF Spec

-----------------------------------------------------------------------------
(* What the user of the chat is promised. *)

\* Every variable of the chat keeps its type: no event outside the three kinds
\* is made, and a task that runs never goes past its last stage.
THEOREM ChatTypes == Spec => []TypeOK
<1>1. IInv => TypeOK
  BY DEF IInv
<1>2. QED
  BY <1>1, Invariance, PTL

\* The events of an answer are handled once and in the order in which its thread
\* made them, however the thread, the generator and the page interleave, and
\* whatever is stopped, cut or left meanwhile.
THEOREM OnceInOrder == Spec => []Delivered
<1>1. IInv => Delivered
  BY DEF IInv, Sound, InLine, Line, Delivered
<1>2. QED
  BY <1>1, Invariance, PTL

\* A page that has read the response of a task to its end has handled the whole
\* answer: the generator never ends before the chunks added last.
THEOREM NothingMissing == Spec => []CompleteWhenDone
<1>1. IInv => CompleteWhenDone
  BY DEF IInv, Sound, AllShown, CompleteWhenDone, TypeOK
<1>2. QED
  BY <1>1, Invariance, PTL

\* Where the connection holds and the user waits for what was stopped, at most
\* one answer is awaited, and the input is disabled for it.
THEOREM OneQuestionAtATime == Spec => []OneAtATime
<1>1. Input => OneAtATime
  <2> SUFFICES ASSUME Input, Promised("reliable"), Promised("patient")
               PROVE  /\ Cardinality({q \in Question : Awaited(q)}) <= 1
                      /\ \A q \in Question : Awaited(q) => isTyping
    BY DEF OneAtATime
  <2>1. \A q \in Question : Awaited(q) =>
            isTyping /\ \A p \in mounted \ {q} : Open(p) => Ends(shown[p])
    BY DEF Input, LastOne
  <2>2. \A p, q \in Question : Awaited(p) /\ Awaited(q) => p = q
    BY <2>1, AwaitedIs
  <2>3. CASE {q \in Question : Awaited(q)} = {}
    BY <2>1, <2>3, FS_EmptySet
  <2>4. CASE {q \in Question : Awaited(q)} # {}
    <3>1. PICK p \in Question : Awaited(p)
      BY <2>4
    <3>2. {q \in Question : Awaited(q)} = {p}
      BY <2>2, <3>1
    <3>3. QED
      BY <2>1, <3>2, FS_Singleton
  <2>5. QED
    BY <2>3, <2>4
<1>2. QED
  BY <1>1, InputInvariance, PTL

\* The input is never left disabled with nothing to wait for, as long as the
\* back end answers: whatever is stopped, broken off or read to its end.
THEOREM NeverForNothing == Spec => []TypingIsForAnAnswer
<1>1. Input => TypingIsForAnAnswer
  BY DEF Input
<1>2. QED
  BY <1>1, InputInvariance, PTL

\* Thread, generator, page and database together implement AnswerStream: the
\* page has a beginning of the answer at any time, an answer ends once and its
\* record agrees with that end, and a response read to its end means that
\* nothing of the answer is missing and its record is written.
THEOREM AnswersKeepTheirWord == Spec => AnswerSpec
<1>1. Spec => []IInv
  BY Invariance
<1>2. Spec => []Input
  BY InputInvariance
<1>3. Spec => []Records
  BY RecordsInvariance
<1>4. QED
  BY <1>1, <1>2, <1>3, AnswersAtFirst, AnswersStep, PTL DEF Spec, AnswerSpec, Answers!Spec
=============================================================================
