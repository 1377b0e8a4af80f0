------------------------------- MODULE MenuIPC -------------------------------
(***************************************************************************)
(* The menu's end of the pipes: MenuIPCServer and what SettingsMenu keeps  *)
(* of its clients.                                                         *)
(*                                                                         *)
(* The listen thread waits on the events of all connections and serves the *)
(* first one signalled; the menu thread draws the menu and broadcasts what *)
(* the user changes.  They share m_clientConnections under                 *)
(* m_connectionStateMutex and m_clientData under m_menuWriteMutex.  Each   *)
(* connection has one event for its reads and its writes, which Windows    *)
(* resets when an operation starts and sets when one completes.            *)
(*                                                                         *)
(* Which settings are pending for the file or for a client is left open:   *)
(* each step that looks at such a flag may find it set or not.             *)
(*                                                                         *)
(* A client is one opening of the pipe by MenuIPCClient: a layer that has  *)
(* to connect again is another client.  Indices count from 1.              *)
(***************************************************************************)
EXTENDS Integers, Sequences, SequencesExt, FiniteSets

CONSTANTS
  Clients,      \* the openings of the pipe
  Early,        \* those that may find a pipe before ConnectNamedPipe
  Nobody,       \* not a client
  MaxMessages,  \* the messages of a client, which then falls silent
  MaxCalls      \* the broadcasts of one change of the settings

ASSUME MenuIPCAssumption ==
  /\ Nobody \notin Clients /\ Early \subseteq Clients
  /\ MaxMessages \in Nat
  /\ MaxCalls \in Nat \ {0}

VARIABLES
  connections,     \* m_clientConnections, with the events and the pipes
  numIdlePipes,    \* m_numIdlePipes
  connectionLock,  \* the thread that holds m_connectionStateMutex: the listen
                   \* thread alone, the menu thread shared
  listen,          \* where the listen thread is, and the index it works on
  registered,      \* m_callback is set
  rows,            \* m_clientData
  menuLock,        \* the thread that holds m_menuWriteMutex
  menu,            \* where the menu thread is
  arrived          \* the clients that have opened a pipe

locks == <<connectionLock, menuLock>>
vars == <<connections, numIdlePipes, listen, registered, rows, menu, locks, arrived>>

\* A connection has at most one message on its way from the client, incoming,
\* and one write to it that has not completed, writing: it completes when the
\* client reads.  Whether a write finds room in the pipe is left open.
Connection ==
  [pipe : {"listening", "open", "closed"}, client : Clients \cup {Nobody},
   counted : BOOLEAN, connected : BOOLEAN, shuttingDown : BOOLEAN,
   readPending : BOOLEAN, writePending : BOOLEAN, signalled : BOOLEAN,
   incoming : BOOLEAN, writing : BOOLEAN, left : 0 .. MaxMessages]

NewPipe ==
  [pipe |-> "listening", client |-> Nobody, counted |-> TRUE,
   connected |-> FALSE, shuttingDown |-> FALSE, readPending |-> FALSE,
   writePending |-> FALSE, signalled |-> FALSE,
   incoming |-> FALSE, writing |-> FALSE, left |-> MaxMessages]

OpenedBy(c, client) ==
  [c EXCEPT !.pipe = "open", !.client = client, !.signalled = TRUE]

\* The client whose values a row shows.
Row == Clients \cup {Nobody}

At(place, i) == [at |-> place, i |-> i]
Waiting == At("wait", 0)

Init ==
  /\ connections = << >>
  /\ numIdlePipes = 0
  /\ connectionLock = "free"
  /\ listen = At("add", 0)
  /\ registered = FALSE
  /\ rows = << >>
  /\ menuLock = "free"
  /\ menu = [at |-> "start", i |-> 0, left |-> 0]
  /\ arrived = {}

-----------------------------------------------------------------------------
(* The calls of Windows on a connection.  An operator named after another  *)
(* one with a suffix is that one with a slip: the properties are stated so *)
(* that each slip breaks one of them.                                      *)

\* The connection is given up, and nothing of it matters any more; the event
\* makes the listen thread remove it.
Lost(c) ==
  [NewPipe EXCEPT !.pipe = c.pipe, !.client = c.client, !.shuttingDown = TRUE,
                  !.signalled = TRUE, !.left = 0]

\* Here a write that fails does not set the event again.
WriteFileUnsignalled(c) ==
  LET pending == [c EXCEPT !.writing = TRUE, !.writePending = TRUE,
                           !.signalled = FALSE]
  IN IF c.pipe = "closed" THEN {[Lost(c) EXCEPT !.signalled = FALSE]}
     ELSE IF c.writing THEN {pending} ELSE {pending, [c EXCEPT !.signalled = TRUE]}

\* What WriteFile makes of a connection: the message is in the pipe, or the
\* write is pending, or the client has gone; the event is reset before that.
WriteFile(c) ==
  LET pending == [c EXCEPT !.writing = TRUE, !.writePending = TRUE,
                           !.signalled = FALSE]
  IN IF c.pipe = "closed" THEN {Lost(c)}
     ELSE IF c.writing THEN {pending} ELSE {pending, [c EXCEPT !.signalled = TRUE]}

\* MenuIPCServer::WriteMessage to the connection at i.
WriteMessage(i) ==
  IF /\ i \in DOMAIN connections
     /\ connections[i].connected /\ ~connections[i].writePending
  THEN \E c \in WriteFile(connections[i]) :
         connections' = [connections EXCEPT ![i] = c]
  ELSE UNCHANGED connections

CueRead(c) ==
  IF c.incoming THEN [c EXCEPT !.readPending = TRUE, !.signalled = TRUE]
  ELSE IF c.pipe = "closed" THEN Lost(c)
  ELSE [c EXCEPT !.readPending = TRUE, !.signalled = FALSE]

\* What is done about a read that brings nothing: still waiting, the client
\* has gone, or none was started.
PollRead(c) ==
  IF ~c.readPending THEN CueRead(c)
  ELSE IF c.pipe = "closed" THEN Lost(c) ELSE c

\* What is done about a pending write: it has completed, the client has gone,
\* or it goes on.
PollWrite(c) ==
  IF ~c.writePending THEN c
  ELSE IF ~c.writing THEN [c EXCEPT !.writePending = FALSE]
  ELSE IF c.pipe = "closed" THEN Lost(c) ELSE c

-----------------------------------------------------------------------------
(* The listen thread.                                                      *)

Signalled == {i \in DOMAIN connections : connections[i].signalled}
Woken == listen.at = "wait" /\ Signalled # {}

\* WaitForMultipleObjects gives the first event signalled.
Served == Min(Signalled)
Serving == connections[Served]

\* A connection from which nothing came for CLIENT_TIMEOUT_MS is given up,
\* without setting its event, whichever event it is that woke the thread.
TimeOut(i) ==
  /\ Woken /\ connections[i].connected
  /\ connections' = [connections EXCEPT ![i].connected = FALSE,
                                        ![i].shuttingDown = TRUE]
  /\ UNCHANGED <<numIdlePipes, listen, locks, registered, rows, menu, arrived>>

\* The callback about a new client comes last, if there is one to call.
ConnectedCallback(i) ==
  IF registered /\ i # 0 THEN At("connected", i) ELSE Waiting

\* ConnectNamedPipe, where a client may have come before it.
AddPipe ==
  /\ listen.at = "add" /\ connectionLock = "free"
  /\ \/ /\ connections' = Append(connections, NewPipe)
        /\ numIdlePipes' = numIdlePipes + 1
        /\ UNCHANGED arrived
     \/ \E client \in Early \ arrived :
          /\ connections' =
               Append(connections,
                      [OpenedBy(NewPipe, client) EXCEPT !.counted = FALSE])
          /\ arrived' = arrived \cup {client}
          /\ UNCHANGED numIdlePipes
  /\ listen' = ConnectedCallback(listen.i)
  /\ UNCHANGED <<locks, registered, rows, menu>>

\* A pipe is added where none is left to connect to.
KeepPipe(idle, i) == IF idle < 1 THEN At("add", i) ELSE ConnectedCallback(i)

\* Here a client that has connected is still counted as idle.
AcceptClientUncounted ==
  /\ Woken /\ ~Serving.shuttingDown /\ ~Serving.connected
  /\ connections' =
       [connections EXCEPT
          ![Served] = CueRead([@ EXCEPT !.connected = TRUE, !.counted = TRUE])]
  /\ listen' = KeepPipe(numIdlePipes - 1, Served)
  /\ UNCHANGED <<numIdlePipes, locks, registered, rows, menu, arrived>>

AcceptClient ==
  /\ Woken /\ ~Serving.shuttingDown /\ ~Serving.connected
  /\ connections' =
       [connections EXCEPT
          ![Served] = CueRead([@ EXCEPT !.connected = TRUE, !.counted = TRUE])]
  /\ numIdlePipes' = numIdlePipes - 1
  /\ listen' = KeepPipe(numIdlePipes', Served)
  /\ UNCHANGED <<locks, registered, rows, menu, arrived>>

\* A pipe that was connected before ConnectNamedPipe has no operation whose
\* result could be had: that may count as an error.
RejectClient ==
  /\ Woken /\ ~Serving.shuttingDown /\ ~Serving.connected /\ ~Serving.counted
  /\ connections' = [connections EXCEPT ![Served] = Lost(@)]
  /\ UNCHANGED <<numIdlePipes, listen, locks, registered, rows, menu,
                 arrived>>

\* A message has been read, and the next read follows.  A keep-alive is answered
\* before that, unless a write is pending; values are for the menu, if it has a
\* row for the client; the pending write is looked at last.
ReadMessage ==
  /\ Woken /\ Serving.connected /\ Serving.readPending /\ Serving.incoming
  /\ LET c == [Serving EXCEPT !.readPending = FALSE, !.incoming = FALSE]
         become(d, place) == /\ connections' = [connections EXCEPT ![Served] = d]
                             /\ listen' = At(place, Served)
     IN \E type \in {"KeepAlive", "SetClientDataValues"} :
          IF type = "KeepAlive" /\ ~c.writePending
          THEN \E d \in WriteFile(c) : become(d, "replied")
          ELSE IF /\ type = "SetClientDataValues"
                  /\ registered /\ Served <= Len(rows)
          THEN become(c, "message")
          ELSE /\ connections' =
                    [connections EXCEPT ![Served] = PollWrite(CueRead(c))]
               /\ UNCHANGED listen
  /\ UNCHANGED <<numIdlePipes, locks, registered, rows, menu, arrived>>

\* The event was set for something else than a message, or is still set.
PollConnection ==
  /\ Woken /\ Serving.connected
  /\ ~(Serving.readPending /\ Serving.incoming)
  /\ connections' = [connections EXCEPT ![Served] = PollWrite(PollRead(@))]
  /\ UNCHANGED <<numIdlePipes, listen, locks, registered, rows, menu,
                 arrived>>

ReadAfterReply ==
  /\ listen.at = "replied"
  /\ connections' = [connections EXCEPT ![listen.i] = CueRead(@)]
  /\ listen' = Waiting
  /\ UNCHANGED <<numIdlePipes, locks, registered, rows, menu, arrived>>

\* MenuIPCMessageReceived, and the rest of the work on the connection.
MessageReceived ==
  /\ listen.at = "message" /\ menuLock = "free"
  /\ rows' = [rows EXCEPT ![listen.i] = connections[listen.i].client]
  /\ connections' = [connections EXCEPT ![listen.i] = PollWrite(CueRead(@))]
  /\ listen' = Waiting
  /\ UNCHANGED <<numIdlePipes, locks, registered, menu, arrived>>

StartRemoval ==
  /\ Woken /\ Serving.shuttingDown
  /\ listen' = At("remove", Served)
  /\ UNCHANGED <<connections, numIdlePipes, locks, registered, rows, menu, arrived>>

\* RemovePipe calls MenuIPCClientDisconnected with the lock held.
RemovePipe ==
  /\ listen.at = "remove" /\ connectionLock = "free"
  /\ connections' = RemoveAt(connections, listen.i)
  /\ IF registered
     THEN connectionLock' = "listen" /\ listen' = At("disconnected", listen.i)
     ELSE listen' = KeepPipe(numIdlePipes, 0) /\ UNCHANGED connectionLock
  /\ UNCHANGED <<numIdlePipes, registered, rows, menuLock, menu, arrived>>

\* Here the row that goes is the last.
ClientDisconnectedLast ==
  /\ listen.at = "disconnected" /\ menuLock = "free"
  /\ rows' = IF listen.i <= Len(rows) THEN RemoveAt(rows, Len(rows)) ELSE rows
  /\ connectionLock' = "free"
  /\ listen' = KeepPipe(numIdlePipes, 0)
  /\ UNCHANGED <<connections, numIdlePipes, registered, menuLock, menu, arrived>>

\* MenuIPCClientDisconnected, and the end of RemovePipe.
ClientDisconnected ==
  /\ listen.at = "disconnected" /\ menuLock = "free"
  /\ rows' = IF listen.i <= Len(rows) THEN RemoveAt(rows, listen.i) ELSE rows
  /\ connectionLock' = "free"
  /\ listen' = KeepPipe(numIdlePipes, 0)
  /\ UNCHANGED <<connections, numIdlePipes, registered, menuLock, menu, arrived>>

\* MenuIPCClientConnected: rows up to the client's, and then perhaps word that
\* the file has changed.
ClientConnected ==
  /\ listen.at = "connected" /\ menuLock = "free"
  /\ rows' = rows \o [j \in 1 .. listen.i - Len(rows) |-> Nobody]
  /\ \E updated \in BOOLEAN :
       listen' = IF updated THEN At("reload", listen.i) ELSE Waiting
  /\ UNCHANGED <<connections, numIdlePipes, locks, registered, menu, arrived>>

InformReload ==
  /\ listen.at = "reload"
  /\ WriteMessage(listen.i)
  /\ listen' = Waiting
  /\ UNCHANGED <<numIdlePipes, locks, registered, rows, menu, arrived>>

Listen ==
  \/ AddPipe \/ AcceptClient \/ RejectClient \/ ReadMessage \/ PollConnection
  \/ ReadAfterReply \/ MessageReceived \/ StartRemoval \/ RemovePipe
  \/ ClientDisconnected \/ ClientConnected \/ InformReload

-----------------------------------------------------------------------------
(* The menu thread.                                                        *)

RegisterReader ==
  /\ menu.at = "start"
  /\ registered' = TRUE
  /\ menu' = [menu EXCEPT !.at = "tick"]
  /\ UNCHANGED <<connections, numIdlePipes, listen, rows, locks, arrived>>

\* TickMenu first sends settings to the clients that have connected since it last
\* did so; it goes through the rows without a lock, but for that in WriteMessage.
DispatchTransientClientUpdate ==
  /\ menu.at = "tick" /\ connectionLock # "listen"
  /\ \E i \in DOMAIN rows : WriteMessage(i)
  /\ UNCHANGED <<numIdlePipes, listen, registered, rows, menu, locks, arrived>>

\* DrawMenu, where the user changes a setting or gives a command: one message or
\* several are broadcast before the lock is given back.  The menu is drawn many
\* times without that, and with no trace.
DrawMenu ==
  /\ menu.at = "tick" /\ menuLock = "free"
  /\ \E calls \in 1 .. MaxCalls :
       menu' = [at |-> "broadcast", i |-> 0, left |-> calls]
  /\ menuLock' = "menu"
  /\ UNCHANGED <<connections, numIdlePipes, connectionLock, listen, registered,
                 rows, arrived>>

BroadcastMessage ==
  /\ menu.at = "broadcast" /\ connectionLock = "free"
  /\ connectionLock' = "menu"
  /\ menu' = [at |-> "check", i |-> 1, left |-> menu.left - 1]
  /\ UNCHANGED <<connections, numIdlePipes, listen, registered, rows, menuLock, arrived>>

Checking == menu.at = "check" /\ menu.i <= Len(connections)

\* A connection that is not connected is passed over, and so is one with a
\* write pending, which is waited for 10 times a millisecond.
SkipConnection ==
  /\ Checking
  /\ ~connections[menu.i].connected \/ connections[menu.i].writePending
  /\ menu' = [menu EXCEPT !.i = @ + 1]
  /\ UNCHANGED <<connections, numIdlePipes, listen, registered, rows, locks, arrived>>

CheckConnection ==
  /\ Checking
  /\ connections[menu.i].connected /\ ~connections[menu.i].writePending
  /\ menu' = [menu EXCEPT !.at = "write"]
  /\ UNCHANGED <<connections, numIdlePipes, listen, registered, rows, locks, arrived>>

WriteConnection ==
  /\ menu.at = "write"
  /\ \E c \in WriteFile(connections[menu.i]) :
       connections' = [connections EXCEPT ![menu.i] = c]
  /\ menu' = [menu EXCEPT !.at = "check", !.i = @ + 1]
  /\ UNCHANGED <<numIdlePipes, listen, registered, rows, locks, arrived>>

\* BroadcastMessage returns, and DrawMenu after the last one.
EndBroadcast ==
  /\ menu.at = "check" /\ menu.i > Len(connections)
  /\ connectionLock' = "free"
  /\ IF menu.left > 0
     THEN menu' = [menu EXCEPT !.at = "broadcast", !.i = 0] /\ UNCHANGED menuLock
     ELSE menu' = [menu EXCEPT !.at = "tick", !.i = 0] /\ menuLock' = "free"
  /\ UNCHANGED <<connections, numIdlePipes, listen, registered, rows,
                 arrived>>

Menu ==
  \/ RegisterReader \/ DispatchTransientClientUpdate \/ DrawMenu
  \/ BroadcastMessage \/ SkipConnection \/ CheckConnection \/ WriteConnection
  \/ EndBroadcast

-----------------------------------------------------------------------------
(* The clients, and time.                                                  *)

beyondConnections ==
  <<numIdlePipes, listen, registered, rows, menu, locks, arrived>>

\* OpenPipe connects to the first pipe that listens.
OpenPipe(client) ==
  LET listening == {i \in DOMAIN connections : connections[i].pipe = "listening"}
  IN
  /\ client \notin arrived /\ listening # {}
  /\ connections' = [connections EXCEPT ![Min(listening)] = OpenedBy(@, client)]
  /\ arrived' = arrived \cup {client}
  /\ UNCHANGED <<numIdlePipes, listen, registered, rows, menu, locks>>

\* The client at i writes a message: a read that was waiting completes.
ClientWrites(i) ==
  LET c == connections[i] IN
  /\ c.pipe = "open" /\ ~c.incoming /\ c.left > 0
  /\ connections' = [connections EXCEPT ![i] =
       [c EXCEPT !.incoming = TRUE, !.left = @ - 1,
                 !.signalled = c.signalled \/ c.readPending]]
  /\ UNCHANGED beyondConnections

\* The client at i reads: a write that was not completed is.
ClientReads(i) ==
  LET c == connections[i] IN
  /\ c.pipe = "open" /\ c.writing
  /\ connections' =
       [connections EXCEPT ![i].writing = FALSE, ![i].signalled = TRUE]
  /\ UNCHANGED beyondConnections

\* The client at i closes its end, exits or crashes: what was pending fails.
ClosePipe(i) ==
  LET c == connections[i] IN
  /\ c.pipe = "open"
  /\ connections' = [connections EXCEPT ![i] =
       [c EXCEPT !.pipe = "closed", !.left = 0,
                 !.signalled = c.signalled \/ c.readPending \/ c.writing]]
  /\ UNCHANGED beyondConnections

Next ==
  \/ Listen \/ Menu \/ \E client \in Clients : OpenPipe(client)
  \/ \E i \in DOMAIN connections :
       TimeOut(i) \/ ClientWrites(i) \/ ClientReads(i) \/ ClosePipe(i)

Reads(client) ==
  \E i \in DOMAIN connections : connections[i].client = client /\ ClientReads(i)
TimesOut(client) ==
  \E i \in DOMAIN connections : connections[i].client = client /\ TimeOut(i)

\* Both threads go on, the listen thread also where it competes for a lock with
\* a user who never rests; time passes, and a client reads while it is open.
Fairness ==
  /\ SF_vars(Listen) /\ WF_vars(Menu)
  /\ \A client \in Clients : WF_vars(Reads(client)) /\ WF_vars(TimesOut(client))

Spec == Init /\ [][Next]_vars
LiveSpec == Spec /\ Fairness

-----------------------------------------------------------------------------
(* Properties.                                                             *)

\* Type invariant; the locks are held where the threads hold them.
TypeOK ==
  /\ connections \in Seq(Connection)
  /\ numIdlePipes \in Int
  /\ rows \in Seq(Row)
  /\ registered \in BOOLEAN
  /\ connectionLock =
       IF listen.at = "disconnected" THEN "listen"
       ELSE IF menu.at \in {"check", "write"} THEN "menu" ELSE "free"
  /\ menuLock = IF menu.at \in {"broadcast", "check", "write"} THEN "menu" ELSE "free"

\* What a row shows came from the client whose connection has the row's index:
\* connections are removed at any index, rows of clients that never sent
\* anything and of pipes nobody opened included, and each time the row of that
\* connection goes with it.
RowsAreOfTheirConnections ==
  listen.at # "disconnected" =>
    \A i \in DOMAIN rows :
      rows[i] # Nobody =>
        i \in DOMAIN connections /\ connections[i].client = rows[i]

\* The count of idle pipes, which decides whether to add one, is never higher
\* than the number of pipes a client may still come through: otherwise the menu
\* would stop listening.
IdlePipesNotOvercounted ==
  numIdlePipes <= Cardinality({i \in DOMAIN connections :
                                 ~connections[i].connected
                                   /\ ~connections[i].shuttingDown})

\* The listen thread holds the lock of the connections and wants that of the
\* rows, the menu thread the other way round.
Stuck == listen.at = "disconnected" /\ menu.at = "broadcast"

\* The connection of the client waits for the listen thread: there is a message
\* in it, or the client has closed it.
Wants(client) ==
  \E i \in DOMAIN connections :
    /\ connections[i].client = client
    /\ connections[i].incoming \/ connections[i].pipe = "closed"

\* What a client sent is read and a client that has gone is removed: no event of
\* it is lost to the writes that reset the event, and no other client keeps the
\* listen thread from it, as long as the threads do not wait for each other.
ClientsAreAttended ==
  \A client \in Clients : Wants(client) ~> (Stuck \/ ~Wants(client))

\* A broadcast returns: it waits no longer than its time for a client that is
\* busy.
BroadcastsReturn == menu.at = "broadcast" ~> menu.at = "tick"
=============================================================================
