---------------------------- MODULE MenuIPCClient ----------------------------
(***************************************************************************)
(* The layer's end of the pipe to the menu: MenuIPCClient, and MenuHandler,*)
(* which sends through it what the menu shows of the application.          *)
(*                                                                         *)
(* A thread of its own, listen, connects to a menu whenever there is one,  *)
(* sends again what has been sent before, and reads.  The threads of the   *)
(* application, of which there is one here, write.  Both share m_mutex,    *)
(* but for the moment in which listen connects.  As in the menu, reads and *)
(* writes have one event, which Windows resets when an operation starts    *)
(* and sets when one completes; a failure at once leaves it reset.         *)
(*                                                                         *)
(* The names of the application are one message here.  The log is a stream *)
(* of messages no later one makes up for, and is left out, as is the end   *)
(* of the program.                                                         *)
(***************************************************************************)
EXTENDS Integers, Sequences

CONSTANTS
  MaxBreaks,   \* the times a pipe is given up by the menu
  MaxMessages  \* the messages of the menu

ASSUME MenuIPCClientAssumption == {MaxBreaks, MaxMessages} \subseteq Nat

VARIABLES
  menuRuns,      \* there is a menu with a pipe to connect to
  pipe,          \* m_pipe: there is none, or it is open, or given up by the menu
  incoming,      \* a message of the menu is in the pipe
  reading,       \* the read in progress: none, one that waits, or is done
  writing,       \* the message whose write has not completed
  event,         \* m_event is set
  readPending,   \* m_bReadPending
  writePending,  \* m_bWritePending
  mutex,         \* the thread that holds m_mutex over a step
  listen,        \* where the listen thread is, and what it has yet to send
  writer,        \* the same for a thread of the application
  registered,    \* m_callback is set
  sent,          \* m_bHasClientData, m_bHasApplicationName and so on
  known,         \* what the menu connected to has received
  dropped,       \* a message to this menu, other than a keep-alive, found a write pending
  breaks,        \* pipes given up so far
  messages       \* messages of the menu so far

windows == <<pipe, incoming, reading, writing, event>>
pending == <<readPending, writePending>>
environment == <<menuRuns, breaks, messages>>
vars == <<windows, pending, environment, mutex, listen, writer, registered,
          sent, known, dropped>>

Nothing == "nothing"
Kinds == {"values", "names"}

Init ==
  /\ menuRuns \in BOOLEAN
  /\ pipe = "none" /\ incoming = FALSE /\ reading = "none" /\ writing = Nothing
  /\ event = FALSE
  /\ readPending = FALSE /\ writePending = FALSE
  /\ mutex = "free"
  /\ listen = [at |-> "top", todo |-> << >>]
  /\ writer = [at |-> "register", todo |-> <<"names", "values">>]
  /\ registered = FALSE
  /\ sent = {} /\ known = {} /\ dropped = FALSE
  /\ breaks = 0 /\ messages = 0

-----------------------------------------------------------------------------
(* The calls of Windows.                                                   *)

\* The message is in the pipe, or the write is pending; a menu that has gone is
\* noticed by its error, and the pipe closed, or it is another error.
WriteFile(message) ==
  \/ /\ pipe = "open" /\ writing = Nothing
     /\ known' = known \cup {message} /\ event' = TRUE
     /\ UNCHANGED <<pipe, incoming, reading, writing, writePending>>
  \/ /\ pipe = "open"
     /\ writing' = message /\ writePending' = TRUE /\ event' = FALSE
     /\ UNCHANGED <<pipe, incoming, reading, known>>
  \/ /\ pipe = "broken"
     /\ pipe' \in {"broken", "none"} /\ event' = FALSE
     /\ UNCHANGED <<incoming, reading, writing, writePending, known>>

CueRead ==
  /\ event' = (pipe # "none" /\ incoming)
  /\ reading' = IF pipe = "none" THEN "none" ELSE IF incoming THEN "done"
                ELSE IF pipe = "open" THEN "waiting" ELSE "none"
  /\ incoming' = FALSE
  /\ readPending' = (reading' # "none")
  /\ UNCHANGED <<pipe, writing>>

ClosePipe == pipe' = "none" /\ UNCHANGED <<incoming, reading, writing, event>>

-----------------------------------------------------------------------------
(* WriteMessage, called by a thread that has `todo' to send.               *)

\* There is no pipe or, unless the caller waits, a write is pending.
WriteRefused(message) ==
  /\ mutex = "free"
  /\ pipe = "none" \/ (writePending /\ message # "names")
  /\ dropped' = (dropped \/ (pipe # "none" /\ message # "keepAlive"))
  /\ UNCHANGED <<windows, writePending, known, mutex>>

WriteAtOnce(message) ==
  /\ mutex = "free" /\ pipe # "none" /\ ~writePending
  /\ WriteFile(message)
  /\ UNCHANGED <<dropped, mutex>>

\* The caller waits for the pending write, with the mutex held.
StartWaiting(message, thread) ==
  /\ mutex = "free" /\ pipe # "none" /\ writePending /\ message = "names"
  /\ mutex' = thread
  /\ UNCHANGED <<windows, writePending, known, dropped>>

\* It sees the flag reset in time, or does not.
StopWaiting(message, thread) ==
  /\ mutex = thread /\ mutex' = "free"
  /\ \/ ~writePending /\ pipe # "none" /\ WriteFile(message) /\ UNCHANGED dropped
     \/ /\ writePending \/ pipe = "none"
        /\ dropped' = TRUE /\ UNCHANGED <<windows, writePending, known>>

WriteMessage(message, thread) ==
  WriteRefused(message) \/ WriteAtOnce(message) \/ StopWaiting(message, thread)

-----------------------------------------------------------------------------
(* The listen thread.                                                      *)

Top == [at |-> "top", todo |-> << >>]
At(place) == [at |-> place, todo |-> << >>]

others == <<writer, registered, sent, environment>>

OpenPipe ==
  /\ listen.at = "top" /\ pipe = "none" /\ menuRuns
  /\ pipe' = "open" /\ incoming' = FALSE /\ reading' = "none" /\ writing' = Nothing
  /\ known' = {} /\ dropped' = FALSE
  /\ listen' = At("connected")
  /\ UNCHANGED <<event, pending, mutex, others>>

\* The flags are reset and MenuIPCConnectedToServer is called, if there is
\* anyone to call.  Nothing of this is under the mutex.
Connected ==
  /\ listen.at = "connected"
  /\ readPending' = FALSE /\ writePending' = FALSE
  /\ listen' = IF registered THEN [at |-> "dispatch", todo |-> <<"values", "names">>]
               ELSE At("cue")
  /\ UNCHANGED <<windows, mutex, known, dropped, others>>

\* MenuIPCConnectedToServer sends what has been sent before.
Dispatch ==
  /\ listen.at = "dispatch"
  /\ LET todo == listen.todo
         next == [listen EXCEPT !.todo = Tail(todo)]
     IN  \/ /\ todo = << >>
            /\ listen' = At("cue")
            /\ UNCHANGED <<windows, writePending, mutex, known, dropped>>
         \/ /\ todo # << >> /\ Head(todo) \notin sent
            /\ listen' = next
            /\ UNCHANGED <<windows, writePending, mutex, known, dropped>>
         \/ /\ todo # << >> /\ Head(todo) \in sent
            /\ WriteMessage(Head(todo), "listen") /\ listen' = next
         \/ /\ todo # << >> /\ Head(todo) \in sent
            /\ StartWaiting(Head(todo), "listen") /\ UNCHANGED listen
  /\ UNCHANGED <<readPending, others>>

FirstRead ==
  /\ listen.at = "cue"
  /\ CueRead
  /\ listen' = At("wait")
  /\ UNCHANGED <<writePending, mutex, known, dropped, others>>

\* The event, which nothing but the start of an operation resets.
WaitEnds ==
  /\ \/ listen.at = "top" /\ pipe # "none"
     \/ listen.at = "wait"
  /\ event
  /\ listen' = IF pipe = "none" THEN Top ELSE At("lock")
  /\ UNCHANGED <<windows, pending, mutex, known, dropped, others>>

\* 100 ms pass without the event.
WaitTimesOut ==
  /\ \/ listen.at = "top" /\ pipe # "none"
     \/ listen.at = "wait"
  /\ ~event
  /\ IF writePending
     THEN UNCHANGED <<windows, writePending, mutex, known, dropped>>
     ELSE WriteMessage("keepAlive", "listen")
  /\ listen' = Top
  /\ UNCHANGED <<readPending, others>>

Lock ==
  /\ listen.at = "lock" /\ mutex = "free"
  /\ mutex' = "listen"
  /\ listen' = At("read")
  /\ UNCHANGED <<windows, pending, known, dropped, others>>

\* A message is passed on to MenuIPCMessageReceived before the next read; a read
\* that failed closes the pipe.
Read ==
  /\ listen.at = "read"
  /\ IF readPending /\ (pipe = "none" \/ (reading # "done" /\ pipe = "broken"))
     THEN /\ ClosePipe /\ listen' = Top /\ mutex' = "free"
          /\ UNCHANGED readPending
     ELSE /\ readPending' = (readPending /\ reading = "waiting")
          /\ listen' = At(IF readPending' THEN "poll" ELSE "cueAgain")
          /\ UNCHANGED <<windows, mutex>>
  /\ UNCHANGED <<writePending, known, dropped, others>>

NextRead ==
  /\ listen.at = "cueAgain"
  /\ CueRead
  /\ listen' = At("poll")
  /\ UNCHANGED <<writePending, mutex, known, dropped, others>>

PollWrite ==
  /\ listen.at = "poll"
  /\ IF writePending /\ writing # Nothing /\ pipe # "open"
     THEN ClosePipe /\ UNCHANGED writePending
     ELSE /\ writePending' = (writePending /\ writing # Nothing)
          /\ UNCHANGED windows
  /\ listen' = Top /\ mutex' = "free"
  /\ UNCHANGED <<readPending, known, dropped, others>>

Listen ==
  \/ OpenPipe \/ Connected \/ Dispatch \/ FirstRead \/ WaitEnds \/ WaitTimesOut
  \/ Lock \/ Read \/ NextRead \/ PollWrite

-----------------------------------------------------------------------------
(* A thread of the application.                                            *)

beyondWriter == <<readPending, listen, environment>>

RegisterReader ==
  /\ writer.at = "register"
  /\ registered' = TRUE
  /\ writer' = [writer EXCEPT !.at = "dispatch"]
  /\ UNCHANGED <<windows, writePending, mutex, sent, known, dropped, beyondWriter>>

\* Here what is sent is not kept for the menus to come.
StartDispatchUnkept ==
  /\ writer.at = "dispatch"
  /\ writer' = IF writer.todo = << >> THEN [at |-> "write", todo |-> <<"values">>]
               ELSE [writer EXCEPT !.at = "write"]
  /\ UNCHANGED <<windows, writePending, mutex, registered, sent, known, dropped,
                 beyondWriter>>

\* The names are sent once, by DispatchMenuClientData at the start, and the values
\* then and with every frame.  What was sent is noted before it is.
StartDispatch ==
  /\ writer.at = "dispatch"
  /\ writer' = IF writer.todo = << >> THEN [at |-> "write", todo |-> <<"values">>]
               ELSE [writer EXCEPT !.at = "write"]
  /\ sent' = sent \cup {Head(writer'.todo)}
  /\ UNCHANGED <<windows, writePending, mutex, registered, known, dropped,
                 beyondWriter>>

DispatchMessage ==
  /\ writer.at = "write"
  /\ LET message == Head(writer.todo)
     IN  \/ /\ WriteMessage(message, "writer")
            /\ writer' = [at |-> "dispatch", todo |-> Tail(writer.todo)]
         \/ StartWaiting(message, "writer") /\ UNCHANGED writer
  /\ UNCHANGED <<registered, sent, beyondWriter>>

-----------------------------------------------------------------------------
(* The menu.                                                               *)

threads == <<pending, mutex, listen, writer, registered, sent, dropped>>

MenuStarts ==
  /\ ~menuRuns /\ menuRuns' = TRUE
  /\ UNCHANGED <<windows, known, breaks, messages, threads>>

\* It exits, or has the client time out: what is in progress fails.
MenuBreaks ==
  /\ breaks < MaxBreaks /\ breaks' = breaks + 1
  /\ menuRuns /\ menuRuns' \in BOOLEAN
  /\ pipe' = IF pipe = "open" THEN "broken" ELSE pipe
  /\ event' = (event \/ (pipe = "open" /\ (reading = "waiting" \/ writing # Nothing)))
  /\ UNCHANGED <<incoming, reading, writing, known, messages, threads>>

MenuReads ==
  /\ pipe = "open" /\ writing # Nothing
  /\ writing' = Nothing /\ known' = known \cup {writing} /\ event' = TRUE
  /\ UNCHANGED <<pipe, incoming, reading, environment, threads>>

MenuWrites ==
  /\ pipe = "open" /\ ~incoming /\ messages < MaxMessages
  /\ messages' = messages + 1
  /\ IF reading = "waiting"
     THEN reading' = "done" /\ event' = TRUE /\ UNCHANGED incoming
     ELSE incoming' = TRUE /\ UNCHANGED <<reading, event>>
  /\ UNCHANGED <<pipe, writing, known, menuRuns, breaks, threads>>

-----------------------------------------------------------------------------
Next ==
  \/ Listen
  \/ RegisterReader \/ StartDispatch \/ DispatchMessage
  \/ MenuStarts \/ MenuBreaks \/ MenuReads \/ MenuWrites

\* Both threads go on, also where they compete for the mutex, and a menu
\* reads.  The application need not show another frame.
Fairness ==
  /\ SF_vars(Listen) /\ WF_vars(RegisterReader) /\ SF_vars(DispatchMessage)
  /\ WF_vars(StartDispatch /\ writer.todo # << >>)
  /\ WF_vars(MenuReads)

Spec == Init /\ [][Next]_vars
LiveSpec == Spec /\ Fairness

-----------------------------------------------------------------------------
\* The menu has gone, a write has reset the event that told of it, and failed:
\* only a write that fails in the one way the code takes for the end of the
\* pipe will close it, and the client connect again.
DeadPipe == pipe = "broken" /\ ~event

\* While a menu runs, it comes to know the application: however often a menu is
\* closed and started again, whoever writes when, and whatever the event tells
\* of, the client connects to it and sends what it has to say, unless its pipe
\* is dead or it has dropped a message for the one before it.
MenuKnowsClient == <>[]menuRuns => <>[](known \cap Kinds = Kinds \/ DeadPipe \/ dropped)
=============================================================================
