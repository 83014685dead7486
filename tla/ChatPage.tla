------------------------------- MODULE ChatPage -------------------------------
(***************************************************************************)
(* The chat page (views/chat): one input, the chat that is displayed, and  *)
(* an answer component per question that reads the response of the back    *)
(* end with consumeChatStream.  Questions are asked, chats are opened,     *)
(* loaded and created while answers of other questions still arrive.       *)
(***************************************************************************)
EXTENDS ChatTask, FiniteSets

CONSTANTS Chat, NoChat,
          Start,   \* the chats the page may begin with
          Visits   \* a bound: chats opened and created by the user

ASSUME ChatPageAssumption == /\ NoChat \notin Chat /\ Start \subseteq Chat \union {NoChat}
                         /\ Visits \in Nat

VARIABLES
    chat,     \* currentChatId
    loading,  \* chats whose records have been asked for
    creating, \* a new chat is under way
    isTyping, \* the input is disabled
    asked,    \* the questions asked, with the chat of each
    mounted,  \* questions whose component is on the page
    stopFlag, \* questions whose component was told to stop
    stream,   \* consumeChatStream: "none", "requested", "reading" or how it ended
    shown,    \* the events each component has handled
    visits

pageVars == <<chat, loading, creating, visits>>
answerVars == <<asked, mounted, stopFlag, stream, shown>>
vars == <<taskVars, wire, accepted, world, pageVars, isTyping, answerVars>>

Asked == {q \in Question : asked[q] # NoChat}
\* consumeChatStream has not returned.
Open(q) == stream[q] \in {"requested", "reading"}
\* A stream somebody on the page is still waiting for.
Awaited(q) ==
    /\ q \in mounted \ stopFlag
    /\ Open(q)
    /\ \A e \in {"finish", "error"} : \A i \in DOMAIN shown[q] : shown[q][i] # e

-----------------------------------------------------------------------------
(* consumeChatStream and the answer component. *)

\* Mutant: a component that is gone still enables the input.
HandleGone(q, events) ==
    /\ shown' = [shown EXCEPT ![q] = @ \o events]
    /\ isTyping' = (isTyping /\ \A i \in DOMAIN events : events[i] \notin {"finish", "error"})

\* The handlers of finish and error enable the input; a component that is gone
\* emits nothing.
Handle(q, events) ==
    /\ shown' = [shown EXCEPT ![q] = @ \o events]
    /\ isTyping' = (isTyping /\ ~(/\ q \in mounted
                                  /\ \E i \in DOMAIN events : events[i] \in {"finish", "error"}))

\* The look at the stop flag before each read.
IsStopped(q, next) ==
    IF q \in stopFlag
      THEN /\ stream' = [stream EXCEPT ![q] = "aborted"]
           /\ response' = [response EXCEPT ![q] = "aborted"]
      ELSE /\ stream' = [stream EXCEPT ![q] = next]
           /\ UNCHANGED response

\* Mutant: the exception is shown and not emitted.
CaughtSilently(q) ==
    /\ stream' = [stream EXCEPT ![q] = "broken"]
    /\ UNCHANGED isTyping

\* The exception handler of sendMessage.
Caught(q) ==
    /\ stream' = [stream EXCEPT ![q] = "broken"]
    /\ isTyping' = (isTyping /\ q \notin mounted)

\* fetch resolves with the head of the response, or throws.
Fetched(q) ==
    /\ stream[q] = "requested" /\ response[q] # "none"
    /\ IF response[q] = "cut" THEN Caught(q) /\ UNCHANGED response
                              ELSE IsStopped(q, "reading") /\ UNCHANGED isTyping
    /\ UNCHANGED <<asked, mounted, stopFlag, shown, pipe>>

\* One read: the complete events of what has arrived are handled without a
\* pause, an incomplete one is kept for the next read.
ReadChunks(q) ==
    /\ stream[q] = "reading" /\ response[q] \in {"open", "closed"} /\ pipe[q] # <<>>
    /\ \E n \in 0 .. Len(pipe[q]) :
           /\ n = 0 => q \in stopFlag
           /\ Handle(q, SubSeq(pipe[q], 1, n))
           /\ pipe' = [pipe EXCEPT ![q] = SubSeq(@, n + 1, Len(@))]
    /\ IsStopped(q, "reading")
    /\ UNCHANGED <<asked, mounted, stopFlag>>

\* The end of the response; nothing is emitted.
ReadDone(q) ==
    /\ stream[q] = "reading" /\ response[q] = "closed" /\ pipe[q] = <<>>
    /\ stream' = [stream EXCEPT ![q] = "done"]
    /\ UNCHANGED <<response, pipe, isTyping, asked, mounted, stopFlag, shown>>

ReadFails(q) ==
    /\ stream[q] = "reading" /\ response[q] = "cut"
    /\ Caught(q)
    /\ UNCHANGED <<response, pipe, asked, mounted, stopFlag, shown>>

Reader(q) ==
    /\ Fetched(q) \/ ReadChunks(q) \/ ReadDone(q) \/ ReadFails(q)
    /\ UNCHANGED <<taskVars, accepted, world, pageVars>>

\* The back end answers the request.
Served(q) ==
    /\ stream[q] = "requested" /\ response[q] = "none"
    /\ start_chat(q) \/ error_response(q) \/ NoStream(q)
    /\ UNCHANGED <<pageVars, isTyping, answerVars>>

-----------------------------------------------------------------------------
(* The page. *)

\* Mutant: the components stop and do not say so.
stopAllSilent ==
    /\ stopFlag' = stopFlag \union mounted
    /\ UNCHANGED isTyping

\* stopAll: every component on the page sets its flag and emits stop.
stopAll ==
    /\ stopFlag' = stopFlag \union mounted
    /\ isTyping' = (isTyping /\ mounted = {})
\* The page shows another list of records: the components go, and stop first.
Unmount == stopAll /\ mounted' = {}

Visit == visits > 0 /\ visits' = visits - 1

\* sendMessage up to the request.
sendMessage(q) ==
    /\ ~isTyping /\ chat # NoChat
    /\ asked[q] = NoChat /\ \A p \in 1 .. q - 1 : p \in Asked
    /\ Promised("alone") => q = 1
    /\ Promised("patient") => \A p \in mounted \cap stopFlag : ~Open(p)
    /\ asked' = [asked EXCEPT ![q] = chat]
    /\ isTyping' = TRUE
    /\ mounted' = mounted \union {q}
    /\ stream' = [stream EXCEPT ![q] = "requested"]
    /\ UNCHANGED <<taskVars, wire, accepted, world, pageVars, stopFlag, shown>>

\* A chat of the list is clicked: goEmpty, then goHistory.
goHistory(c) ==
    /\ c # chat /\ Visit
    /\ Unmount
    /\ chat' = c /\ loading' = loading \union {c}
    /\ UNCHANGED <<taskVars, wire, accepted, world, creating, asked, stream, shown>>

\* The records of a chat arrive and replace what is there, a question asked in
\* the meantime included; those of another chat are ignored.
HistoryLoaded(c) ==
    /\ c \in loading /\ loading' = loading \ {c}
    /\ IF c = chat THEN Unmount ELSE UNCHANGED <<stopFlag, isTyping, mounted>>
    /\ UNCHANGED <<taskVars, wire, accepted, world, chat, creating, visits, asked, stream, shown>>

\* createNewChat once the model is known to exist: all answers are stopped, the
\* chat stays on the page until the new one is there.
createNewChat ==
    /\ ~creating /\ Visit
    /\ stopAll
    /\ creating' = TRUE
    /\ UNCHANGED <<taskVars, wire, accepted, world, chat, loading, asked, mounted, stream, shown>>

onChatCreatedQuick(c) ==
    /\ creating /\ creating' = FALSE
    /\ c # chat /\ \A q \in Question : asked[q] # c
    /\ chat' = c
    /\ Unmount
    /\ UNCHANGED <<taskVars, wire, accepted, world, loading, visits, asked, stream, shown>>

\* No datasource is chosen for it.
NotCreated ==
    /\ creating /\ creating' = FALSE
    /\ UNCHANGED <<taskVars, wire, accepted, world, chat, loading, visits, isTyping, answerVars>>

Init ==
    /\ TaskInit
    /\ chat \in Start /\ loading = {} /\ creating = FALSE
    /\ isTyping = FALSE
    /\ asked = [q \in Question |-> NoChat]
    /\ mounted = {} /\ stopFlag = {}
    /\ stream = [q \in Question |-> "none"]
    /\ shown = [q \in Question |-> <<>>]
    /\ visits = Visits

\* What the back end does alone.
OffPage == UNCHANGED <<pageVars, isTyping, answerVars>>

Next ==
    \/ \E q \in Question :
           \/ TaskStep(q) /\ OffPage
           \/ Reader(q) \/ Served(q) \/ sendMessage(q)
    \/ \E c \in Chat : goHistory(c) \/ HistoryLoaded(c) \/ onChatCreatedQuick(c)
    \/ createNewChat \/ NotCreated

\* Some thread of the back end runs, some request is answered or some arrival
\* read, as long as there is one, and each generator looks at its list; nobody
\* has to ask or to click.
Fairness ==
    /\ WF_vars(\E q \in Question : \/ Served(q) \/ Reader(q)
                                   \/ (NextStage(q) \/ FinishRecord(q)) /\ OffPage)
    /\ \A q \in Question :
           WF_vars((is_running(q) \/ pop_chunk(q) \/ NoChunk(q) \/ Disconnect(q)) /\ OffPage)

Spec == Init /\ [][Next]_vars /\ Fairness
=============================================================================
