------------------------------- MODULE ChatTask -------------------------------
(***************************************************************************)
(* The back end of a question: run_task (llm.py) produces events in a      *)
(* thread of the pool, ChatTaskRunner (runner.py) collects them in a list, *)
(* and the generator await_result, in the thread of the response, takes    *)
(* them out and writes them to the connection.  The record of the question *)
(* outlives the connection.                                                *)
(***************************************************************************)
EXTENDS Naturals, Sequences

CONSTANTS Questions, \* a bound: how many are asked
          Steps,     \* a bound: the events of each answer before its last one
          Worlds     \* the environments to check

ASSUME ChatTaskAssumption == Questions \in Nat /\ Steps \in [1 .. Questions -> Nat]

Question == 1 .. Questions  \* in the order they are asked

VARIABLES
    task,     \* what the thread of the question is doing
    made,     \* history: the events run_task has yielded
    chunks,   \* _chunks of the runner
    consumer, \* where await_result is
    record,   \* chat_record of the question: finish and error
    response, \* the connection: "none", "open", "closed", "cut" or "aborted"
    pipe,     \* the events written to it and not yet read
    accepted, \* questions for which start_chat has started a task
    world     \* rigid, what can be relied on:
              \* "sound": the back end answers with a stream and can write,
              \* "reliable": no connection is cut,
              \* "patient": nothing is asked while a stopped answer is still read,
              \* "alone": only one question is asked (a bound)

Promises == {"sound", "reliable", "patient", "alone"}
ASSUME ChatWorldsAssumption == Worlds \subseteq SUBSET Promises
Promised(p) == p \in world

taskVars == <<task, made, chunks, consumer, record>>
wire == <<response, pipe>>

Event == {"step", "finish", "error"}
\* The events of an answer that succeeds: its id, then those of the stages of
\* the pipeline, of which only the order matters here.
Script(q) == [i \in 1 .. Steps[q] |-> "step"] \o <<"finish">>

NoRecord == [finish |-> FALSE, error |-> FALSE]

-----------------------------------------------------------------------------
(* The thread: run_task inside _run_and_collect. *)

Yield(q, e) ==
    /\ made' = [made EXCEPT ![q] = Append(@, e)]
    /\ chunks' = [chunks EXCEPT ![q] = Append(@, e)]

\* The next stage has succeeded; after the finish the finally clause runs.
NextStage(q) ==
    /\ task[q] = "running"
    /\ LET n == Len(made[q]) + 1
       IN  /\ Yield(q, Script(q)[n])
           /\ task' = [task EXCEPT ![q] = IF n = Len(Script(q)) THEN "closing" ELSE "running"]
    /\ UNCHANGED <<consumer, record, wire, accepted, world>>

\* A stage has raised: the error is saved, then told.
StageFails(q) ==
    /\ task[q] = "running"
    /\ record' = [record EXCEPT ![q] = [finish |-> TRUE, error |-> TRUE]]
    /\ Yield(q, "error")
    /\ task' = [task EXCEPT ![q] = "closing"]
    /\ UNCHANGED <<consumer, wire, accepted, world>>

\* save_error raises in its turn: the exception passes through finally and ends
\* in a future nobody asks; the stream will simply stop.
SaveErrorFails(q) ==
    /\ ~Promised("sound")
    /\ task[q] = "running"
    /\ task' = [task EXCEPT ![q] = "closing"]
    /\ UNCHANGED <<made, chunks, consumer, record, wire, accepted, world>>

\* The finally clause, and with it the future.
FinishRecord(q) ==
    /\ task[q] = "closing"
    /\ task' = [task EXCEPT ![q] = "done"]
    /\ \/ record' = [record EXCEPT ![q].finish = TRUE]
       \/ ~Promised("sound") /\ UNCHANGED record
    /\ UNCHANGED <<made, chunks, consumer, wire, accepted, world>>

-----------------------------------------------------------------------------
(* The generator. *)

\* Mutant: the end of the task is the end of the response.
is_runningEnds(q) ==
    /\ consumer[q] = "waiting"
    /\ IF task[q] = "done"
         THEN /\ consumer' = [consumer EXCEPT ![q] = "ended"]
              /\ response' = [response EXCEPT ![q] = IF @ = "open" THEN "closed" ELSE @]
         ELSE consumer' = [consumer EXCEPT ![q] = "taking"] /\ UNCHANGED response
    /\ UNCHANGED <<task, made, chunks, record, pipe, accepted, world>>

\* is_running: at most half a second, then a look at the list.
is_running(q) ==
    /\ consumer[q] = "waiting"
    /\ \/ task[q] = "done" /\ consumer' = [consumer EXCEPT ![q] = "emptying"]
       \/ task[q] # "done" /\ consumer' = [consumer EXCEPT ![q] = "taking"]
    /\ UNCHANGED <<task, made, chunks, record, wire, accepted, world>>

\* Mutant: the chunk added last is taken.
pop_chunkLast(q) ==
    /\ consumer[q] \in {"taking", "emptying"} /\ chunks[q] # <<>>
    /\ chunks' = [chunks EXCEPT ![q] = SubSeq(@, 1, Len(@) - 1)]
    /\ pipe' = [pipe EXCEPT ![q] = Append(@, chunks[q][Len(chunks[q])])]
    /\ UNCHANGED <<task, made, consumer, record, response, accepted, world>>

\* pop_chunk, and the chunk goes out.
pop_chunk(q) ==
    /\ consumer[q] \in {"taking", "emptying"} /\ chunks[q] # <<>>
    /\ chunks' = [chunks EXCEPT ![q] = Tail(@)]
    /\ pipe' = [pipe EXCEPT ![q] = Append(@, Head(chunks[q]))]
    /\ UNCHANGED <<task, made, consumer, record, response, accepted, world>>

\* The list is empty: look at the future again, or end the response if it was
\* done before the list was emptied.
NoChunk(q) ==
    /\ consumer[q] \in {"taking", "emptying"} /\ chunks[q] = <<>>
    /\ IF consumer[q] = "taking"
         THEN consumer' = [consumer EXCEPT ![q] = "waiting"] /\ UNCHANGED response
         ELSE /\ consumer' = [consumer EXCEPT ![q] = "ended"]
              /\ response' = [response EXCEPT ![q] = IF @ = "open" THEN "closed" ELSE @]
    /\ UNCHANGED <<task, made, chunks, record, pipe, accepted, world>>

\* Mutant: the task goes with its generator.
DisconnectCancels(q) ==
    /\ consumer[q] \in {"waiting", "taking", "emptying"}
    /\ response[q] \in {"cut", "aborted"}
    /\ consumer' = [consumer EXCEPT ![q] = "gone"]
    /\ task' = [task EXCEPT ![q] = "done"]
    /\ UNCHANGED <<made, chunks, record, wire, accepted, world>>

\* The server notices that nobody listens and drops the generator.
Disconnect(q) ==
    /\ consumer[q] \in {"waiting", "taking", "emptying"}
    /\ response[q] \in {"cut", "aborted"}
    /\ consumer' = [consumer EXCEPT ![q] = "gone"]
    /\ UNCHANGED <<task, made, chunks, record, wire, accepted, world>>

-----------------------------------------------------------------------------
(* The request. *)

\* start_chat: the record, the task, and a response that begins at once.
start_chat(q) ==
    /\ accepted' = accepted \union {q}
    /\ task' = [task EXCEPT ![q] = "running"]
    /\ consumer' = [consumer EXCEPT ![q] = "waiting"]
    /\ response' = [response EXCEPT ![q] = "open"]
    /\ UNCHANGED <<made, chunks, record, pipe, world>>

\* Mutant: the error is sent as an event of a kind the page does not know.
error_responseOther(q) ==
    /\ response' = [response EXCEPT ![q] = "closed"]
    /\ pipe' = [pipe EXCEPT ![q] = <<"failure">>]
    /\ made' = [made EXCEPT ![q] = <<"failure">>]
    /\ UNCHANGED <<task, chunks, consumer, record, accepted, world>>

\* It fails before the task: the error is the only event of the response.
error_response(q) ==
    /\ response' = [response EXCEPT ![q] = "closed"]
    /\ pipe' = [pipe EXCEPT ![q] = <<"error">>]
    /\ made' = [made EXCEPT ![q] = <<"error">>]
    /\ UNCHANGED <<task, chunks, consumer, record, accepted, world>>

\* A response that is no stream: no permission, no token, an error of the proxy.
NoStream(q) ==
    /\ ~Promised("sound")
    /\ response' = [response EXCEPT ![q] = "closed"]
    /\ UNCHANGED <<taskVars, pipe, accepted, world>>

\* The connection breaks, before or while it is read.
Cut(q) ==
    /\ ~Promised("reliable") /\ response[q] \in {"open", "closed"}
    /\ response' = [response EXCEPT ![q] = "cut"]
    /\ UNCHANGED <<taskVars, pipe, accepted, world>>

TaskInit ==
    /\ task = [q \in Question |-> "none"]
    /\ made = [q \in Question |-> <<>>]
    /\ chunks = [q \in Question |-> <<>>]
    /\ consumer = [q \in Question |-> "none"]
    /\ record = [q \in Question |-> NoRecord]
    /\ response = [q \in Question |-> "none"]
    /\ pipe = [q \in Question |-> <<>>]
    /\ accepted = {}
    /\ world \in Worlds

TaskStep(q) ==
    \/ NextStage(q) \/ StageFails(q) \/ SaveErrorFails(q) \/ FinishRecord(q)
    \/ is_running(q) \/ pop_chunk(q) \/ NoChunk(q) \/ Disconnect(q) \/ Cut(q)
=============================================================================
