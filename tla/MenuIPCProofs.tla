---------------------------- MODULE MenuIPCProofs ----------------------------
(***************************************************************************)
(* Proofs about the menu's end of the pipes, for any number of clients:    *)
(* each row of the menu is that of the connection with its index, and the  *)
(* count of idle pipes never keeps the menu from listening.                *)
(*                                                                         *)
(* Both threads and all the clients change connections in place; the       *)
(* listen thread alone adds and removes them.  What holds one index over   *)
(* several steps is either the listen thread itself or the menu thread     *)
(* with the lock, and the invariant says which connections these may be.   *)
(***************************************************************************)
EXTENDS MenuIPC, SequenceTheorems, FiniteSetTheorems, WellFoundedInduction, TLAPS

\* The connection has a client or is being given up.
Taken(c) == c.connected \/ c.shuttingDown

\* A pipe that numIdlePipes counts.
Idle(c) == ~Taken(c) /\ c.counted

IdlePipes(list) == {i \in DOMAIN list : Idle(list[i])}

\* Nobody has come yet through a pipe that listens.
PipesListen ==
  \A i \in DOMAIN connections :
    connections[i].pipe = "listening" => connections[i].client = Nobody

\* Where the listen thread is, and the connection it is busy with.
ListenPlace ==
  /\ listen \in [at : {"wait", "add", "connected", "replied", "message", "remove",
                       "disconnected", "reload"}, i : Nat]
  /\ listen.at = "add" => listen.i <= Len(connections)
  /\ listen.at \in {"connected", "replied", "message", "remove", "reload"} =>
       listen.i \in DOMAIN connections
  /\ listen.at \in {"replied", "message", "remove"} => Taken(connections[listen.i])
  /\ listen.at = "message" => listen.i <= Len(rows)
  /\ listen.at = "disconnected" => listen.i >= 1
  /\ listen.at \in {"connected", "message", "disconnected"} => registered

\* The same of the menu thread, which keeps the other from removing.
MenuPlace ==
  /\ menu \in [at : {"start", "tick", "broadcast", "check", "write"}, i : Nat,
               left : Int]
  /\ menu.at = "check" => menu.i >= 1
  /\ menu.at = "write" => menu.i \in DOMAIN connections /\ Taken(connections[menu.i])
  /\ menu.at \in {"check", "write"} => listen.at # "disconnected"

\* The connection of a row, which while a row is about to go is one lower from
\* that row on.
OfRow(j) ==
  IF listen.at = "disconnected" /\ j > listen.i THEN j - 1 ELSE j

RowsMatch ==
  /\ ~registered => rows = << >>
  /\ \A j \in DOMAIN rows :
       /\ rows[j] # Nobody
       /\ ~(listen.at = "disconnected" /\ j = listen.i)
       => OfRow(j) \in DOMAIN connections /\ connections[OfRow(j)].client = rows[j]

Counted == numIdlePipes <= Cardinality(IdlePipes(connections))

IInv == TypeOK /\ PipesListen /\ ListenPlace /\ MenuPlace /\ RowsMatch /\ Counted

-----------------------------------------------------------------------------
(* What may happen to connections in place.                                *)

\* One connection: its client stays, and so does that it is taken.
Kept(c, d) ==
  /\ d \in Connection
  /\ d.client = c.client
  /\ d.pipe = "listening" => c.pipe = "listening"
  /\ Taken(c) => Taken(d)

\* The list: no connection goes, and none loses its client.
ListKept ==
  /\ connections' \in Seq(Connection)
  /\ Len(connections) <= Len(connections')
  /\ PipesListen'
  /\ \A i \in DOMAIN connections :
       /\ connections[i].client # Nobody =>
            connections'[i].client = connections[i].client
       /\ Taken(connections[i]) => Taken(connections'[i])

\* No idle pipe is lost.
IdleKept == IdlePipes(connections) \subseteq IdlePipes(connections')

LEMMA KeptTwice ==
  ASSUME NEW c, NEW d, NEW e, Kept(c, d), Kept(d, e) PROVE Kept(c, e)
BY DEF Kept

\* The calls of Windows keep a connection that is taken.
LEMMA LostKept ==
  ASSUME NEW c \in Connection
  PROVE  Kept(c, Lost(c)) /\ Taken(Lost(c))
<1> DEFINE e == [NewPipe EXCEPT !.pipe = c.pipe, !.client = c.client]
<1>1. NewPipe \in Connection
  BY MenuIPCAssumption DEF NewPipe, Connection
<1>2. c.pipe \in {"listening", "open", "closed"} /\ c.client \in Clients \cup {Nobody}
  BY DEF Connection
<1>3. e \in Connection /\ e.pipe = c.pipe /\ e.client = c.client
  BY <1>1, <1>2 DEF Connection
<1>4. Lost(c) = [e EXCEPT !.shuttingDown = TRUE, !.signalled = TRUE, !.left = 0]
  BY Zenon DEF Lost
<1>5. 0 \in 0 .. MaxMessages
  BY MenuIPCAssumption
<1> HIDE DEF e
<1>6. Lost(c) \in Connection /\ Lost(c).pipe = e.pipe /\ Lost(c).client = e.client
      /\ Lost(c).shuttingDown
  BY <1>3, <1>4, <1>5 DEF Connection
<1> QED BY <1>3, <1>6 DEF Kept, Taken

LEMMA CueReadKept ==
  ASSUME NEW c \in Connection
  PROVE  Kept(c, CueRead(c))
<1>1. CASE c.incoming
  BY <1>1 DEF Kept, CueRead, Connection, Taken
<1>2. CASE ~c.incoming /\ c.pipe = "closed"
  BY <1>2, LostKept DEF CueRead
<1>3. CASE ~c.incoming /\ c.pipe # "closed"
  BY <1>3 DEF Kept, CueRead, Connection, Taken
<1> QED BY <1>1, <1>2, <1>3

LEMMA PollReadKept ==
  ASSUME NEW c \in Connection
  PROVE  Kept(c, PollRead(c))
<1>1. CASE ~c.readPending
  BY <1>1, CueReadKept DEF PollRead
<1>2. CASE c.readPending /\ c.pipe = "closed"
  BY <1>2, LostKept DEF PollRead
<1>3. CASE c.readPending /\ c.pipe # "closed"
  BY <1>3 DEF Kept, PollRead
<1> QED BY <1>1, <1>2, <1>3

LEMMA PollWriteKept ==
  ASSUME NEW c \in Connection
  PROVE  Kept(c, PollWrite(c))
<1>1. CASE ~c.writePending
  BY <1>1 DEF Kept, PollWrite
<1>2. CASE c.writePending /\ ~c.writing
  BY <1>2 DEF Kept, PollWrite, Connection, Taken
<1>3. CASE c.writePending /\ c.writing /\ c.pipe = "closed"
  BY <1>3, LostKept DEF PollWrite
<1>4. CASE c.writePending /\ c.writing /\ c.pipe # "closed"
  BY <1>4 DEF Kept, PollWrite
<1> QED BY <1>1, <1>2, <1>3, <1>4

LEMMA WriteFileKept ==
  ASSUME NEW c \in Connection, NEW d \in WriteFile(c)
  PROVE  Kept(c, d)
<1> DEFINE pending == [c EXCEPT !.writing = TRUE, !.writePending = TRUE,
                                !.signalled = FALSE]
           done == [c EXCEPT !.signalled = TRUE]
<1>1. Kept(c, pending) /\ Kept(c, done)
  BY DEF Kept, Connection, Taken
<1>2. d = Lost(c) \/ d = pending \/ d = done
  BY DEF WriteFile
<1> QED BY <1>1, <1>2, LostKept

\* Replacing a connection by one that is so kept.
LEMMA Replaced ==
  ASSUME IInv, NEW k \in DOMAIN connections, NEW d, Kept(connections[k], d),
         connections' = [connections EXCEPT ![k] = d]
  PROVE  /\ ListKept /\ Len(connections') = Len(connections)
         /\ IdlePipes(connections) \ {k} \subseteq IdlePipes(connections')
         /\ (Idle(connections[k]) => Idle(d)) => IdleKept
<1>1. connections \in Seq(Connection) /\ d \in Connection
  BY DEF IInv, TypeOK, Kept
<1>2. /\ connections' \in Seq(Connection)
      /\ Len(connections') = Len(connections)
      /\ DOMAIN connections' = DOMAIN connections
      /\ \A i \in DOMAIN connections :
           connections'[i] = IF i = k THEN d ELSE connections[i]
  BY <1>1
<1>3. ListKept
  BY <1>1, <1>2 DEF ListKept, IInv, PipesListen, Kept
<1>4. IdlePipes(connections) \ {k} \subseteq IdlePipes(connections')
  BY <1>2 DEF IdlePipes
<1>5. (Idle(connections[k]) => Idle(d)) => IdleKept
  BY <1>2 DEF IdlePipes, IdleKept
<1> QED BY <1>2, <1>3, <1>4, <1>5

-----------------------------------------------------------------------------
(* What follows from that, whoever takes the step.                         *)

LEMMA IdleFinite ==
  ASSUME NEW list \in Seq(Connection)
  PROVE  /\ IsFiniteSet(IdlePipes(list))
         /\ Cardinality(IdlePipes(list)) \in Nat
<1>1. DOMAIN list = 1 .. Len(list) /\ Len(list) \in Nat
  OBVIOUS
<1>2. IsFiniteSet(1 .. Len(list))
  BY <1>1, FS_Interval
<1>3. IdlePipes(list) \in SUBSET (1 .. Len(list))
  BY <1>1 DEF IdlePipes
<1>4. IsFiniteSet(IdlePipes(list))
  BY <1>2, <1>3, FS_Subset
<1> QED BY <1>4, FS_CardinalityType

LEMMA CountKept ==
  ASSUME IInv, ListKept, IdleKept, numIdlePipes' = numIdlePipes
  PROVE  Counted'
<1>1. /\ IsFiniteSet(IdlePipes(connections'))
      /\ Cardinality(IdlePipes(connections')) \in Nat
      /\ Cardinality(IdlePipes(connections)) \in Nat
  BY IdleFinite DEF IInv, TypeOK, ListKept
<1>2. Cardinality(IdlePipes(connections)) <= Cardinality(IdlePipes(connections'))
  BY <1>1, FS_Subset DEF IdleKept
<1> QED BY <1>1, <1>2 DEF IInv, TypeOK, Counted

LEMMA RowsKept ==
  ASSUME IInv, ListKept, UNCHANGED rows, registered => registered',
         \/ UNCHANGED listen
         \/ listen.at # "disconnected" /\ listen'.at # "disconnected"
  PROVE  RowsMatch'
<1>1. ASSUME NEW j \in DOMAIN rows, rows[j] # Nobody,
             ~(listen'.at = "disconnected" /\ j = listen'.i)
      PROVE  OfRow(j)' \in DOMAIN connections'
               /\ connections'[OfRow(j)'].client = rows[j]
  <2>1. OfRow(j)' = OfRow(j) /\ ~(listen.at = "disconnected" /\ j = listen.i)
    BY <1>1 DEF OfRow
  <2>2. /\ OfRow(j) \in DOMAIN connections
        /\ connections[OfRow(j)].client = rows[j]
    BY <1>1, <2>1 DEF IInv, RowsMatch
  <2>3. DOMAIN connections \subseteq DOMAIN connections'
    BY DEF IInv, TypeOK, ListKept
  <2> QED BY <1>1, <2>1, <2>2, <2>3 DEF ListKept
<1>2. ~registered' => rows = << >>
  BY DEF IInv, RowsMatch
<1> QED BY <1>1, <1>2 DEF RowsMatch

\* A step between the clients and Windows disturbs neither thread.
LEMMA ClientStep ==
  ASSUME IInv, ListKept, IdleKept,
         UNCHANGED <<numIdlePipes, listen, registered, rows, menu, locks>>
  PROVE  IInv'
<1>1. TypeOK'
  BY DEF IInv, TypeOK, ListKept, locks
<1>2. ListenPlace' /\ MenuPlace'
  <2>1. DOMAIN connections \subseteq DOMAIN connections'
    BY DEF IInv, TypeOK, ListKept
  <2>2. Len(connections) \in Nat /\ Len(connections') \in Nat
    BY DEF IInv, TypeOK, ListKept
  <2>3. listen.i \in Nat
    BY DEF IInv, ListenPlace, MenuPlace
  <2> QED BY <2>1, <2>2, <2>3 DEF IInv, ListenPlace, MenuPlace, ListKept
<1> QED BY <1>1, <1>2, CountKept, RowsKept DEF IInv, ListKept

\* The least of some indices is one of them.
LEMMA Least ==
  ASSUME NEW S \in SUBSET Nat, S # {}
  PROVE  Min(S) \in S /\ \A i \in S : Min(S) <= i
<1> DEFINE less == {ss \in Nat \X Nat : ss[1] < ss[2]}
<1>1. IsWellFoundedOn(less, Nat)
  BY NatLessThanWellFounded, Zenon DEF OpToRel
<1>2. PICK m \in S : \A i \in S : ~(<<i, m>> \in less)
  <2> HIDE DEF less
  <2> QED BY <1>1, WFMin, Zenon
<1>3. \A i \in S : m <= i
  <2> SUFFICES ASSUME NEW i \in S, i < m PROVE FALSE
    OBVIOUS
  <2>1. <<i, m>> \in Nat \X Nat /\ <<i, m>>[1] = i /\ <<i, m>>[2] = m
    OBVIOUS
  <2>2. <<i, m>> \in less
    BY <2>1
  <2> QED BY <1>2, <2>2
<1> QED BY <1>3 DEF Min

-----------------------------------------------------------------------------
(* The clients, and time.                                                  *)

LEMMA TimeOutStep ==
  ASSUME IInv, NEW i \in DOMAIN connections, TimeOut(i)
  PROVE  IInv'
<1> DEFINE c == connections[i]
           d == [c EXCEPT !.connected = FALSE, !.shuttingDown = TRUE]
<1>1. c \in Connection /\ connections \in Seq(Connection)
  BY DEF IInv, TypeOK
<1>2. connections' = [connections EXCEPT ![i] = d]
  BY <1>1 DEF TimeOut
<1>3. Kept(c, d)
  BY <1>1 DEF Kept, Connection, Taken
<1>4. ~Idle(c)
  BY DEF TimeOut, Idle, Taken
<1>5. ListKept /\ IdleKept
  BY <1>2, <1>3, <1>4, Replaced
<1> QED BY <1>5, ClientStep DEF TimeOut

\* The client of a pipe changes only here, from none.
LEMMA OpenPipeStep ==
  ASSUME IInv, NEW client \in Clients, OpenPipe(client)
  PROVE  IInv'
<1> DEFINE listening == {i \in DOMAIN connections : connections[i].pipe = "listening"}
           k == Min(listening)
           c == connections[k]
           d == OpenedBy(c, client)
<1>1. connections \in Seq(Connection) /\ DOMAIN connections \subseteq Nat
  BY DEF IInv, TypeOK
<1>2. k \in listening
  BY <1>1, Least DEF OpenPipe
<1>3. k \in DOMAIN connections /\ c.pipe = "listening" /\ c.client = Nobody
  BY <1>2 DEF IInv, PipesListen
<1>4. connections' = [connections EXCEPT ![k] = d]
  BY DEF OpenPipe
<1> HIDE DEF k
<1>5. c \in Connection
  BY <1>1, <1>3
<1>6. /\ d \in Connection /\ d.pipe = "open"
      /\ Taken(d) = Taken(c) /\ Idle(d) = Idle(c)
  BY <1>5 DEF OpenedBy, Connection, Taken, Idle
<1> HIDE DEF d
<1>7. /\ connections' \in Seq(Connection)
      /\ Len(connections') = Len(connections)
      /\ DOMAIN connections' = DOMAIN connections
      /\ \A i \in DOMAIN connections :
           connections'[i] = IF i = k THEN d ELSE connections[i]
  BY <1>1, <1>3, <1>4, <1>6
<1>8. ListKept
  BY <1>1, <1>3, <1>6, <1>7 DEF ListKept, IInv, PipesListen
<1>9. IdleKept
  BY <1>6, <1>7 DEF IdleKept, IdlePipes
<1> QED BY <1>8, <1>9, ClientStep DEF OpenPipe

LEMMA ClientCalls ==
  ASSUME IInv, NEW i \in DOMAIN connections,
         ClientWrites(i) \/ ClientReads(i) \/ ClosePipe(i)
  PROVE  IInv'
<1> DEFINE c == connections[i]
<1>1. c \in Connection /\ connections \in Seq(Connection)
  BY DEF IInv, TypeOK
<1>2. PICK d : /\ connections' = [connections EXCEPT ![i] = d]
               /\ Kept(c, d) /\ Idle(d) = Idle(c)
  <2>1. CASE ClientWrites(i)
    <3> DEFINE d == [c EXCEPT !.incoming = TRUE, !.left = c.left - 1,
                              !.signalled = c.signalled \/ c.readPending]
    <3>1. connections' = [connections EXCEPT ![i] = d]
      BY <2>1 DEF ClientWrites
    <3>2. c.left - 1 \in 0 .. MaxMessages
      BY <1>1, <2>1, MenuIPCAssumption DEF ClientWrites, Connection
    <3>3. (c.signalled \/ c.readPending) \in BOOLEAN
      OBVIOUS
    <3>4. Kept(c, d) /\ Idle(d) = Idle(c)
      BY <1>1, <3>2, <3>3 DEF Kept, Connection, Taken, Idle
    <3> QED BY <3>1, <3>4
  <2>2. CASE ClientReads(i)
    <3> DEFINE d == [c EXCEPT !.writing = FALSE, !.signalled = TRUE]
    <3>1. connections' = [connections EXCEPT ![i] = d]
      BY <1>1, <2>2 DEF ClientReads
    <3>2. Kept(c, d) /\ Idle(d) = Idle(c)
      BY <1>1 DEF Kept, Connection, Taken, Idle
    <3> QED BY <3>1, <3>2
  <2>3. CASE ClosePipe(i)
    <3> DEFINE d == [c EXCEPT !.pipe = "closed", !.left = 0,
                       !.signalled = c.signalled \/ c.readPending \/ c.writing]
    <3>1. connections' = [connections EXCEPT ![i] = d]
      BY <2>3 DEF ClosePipe
    <3>2. 0 \in 0 .. MaxMessages
      BY MenuIPCAssumption
    <3>3. (c.signalled \/ c.readPending \/ c.writing) \in BOOLEAN
      OBVIOUS
    <3>4. Kept(c, d) /\ Idle(d) = Idle(c)
      BY <1>1, <3>2, <3>3 DEF Kept, Connection, Taken, Idle
    <3> QED BY <3>1, <3>4
  <2> QED BY <2>1, <2>2, <2>3
<1>3. ListKept /\ IdleKept
  BY <1>2, Replaced
<1> QED
  BY <1>3, ClientStep DEF ClientWrites, ClientReads, ClosePipe, beyondConnections

-----------------------------------------------------------------------------
(* The menu thread.                                                        *)

LEMMA NothingMoves ==
  ASSUME IInv, UNCHANGED connections
  PROVE  ListKept /\ IdleKept
BY DEF IInv, TypeOK, PipesListen, ListKept, IdleKept

LEMMA WriteKept ==
  ASSUME IInv, NEW i \in DOMAIN connections, Taken(connections[i]),
         \E c \in WriteFile(connections[i]) :
           connections' = [connections EXCEPT ![i] = c]
  PROVE  ListKept /\ IdleKept
<1>1. connections[i] \in Connection
  BY DEF IInv, TypeOK
<1>2. PICK c \in WriteFile(connections[i]) :
        connections' = [connections EXCEPT ![i] = c]
  OBVIOUS
<1>3. Kept(connections[i], c)
  BY <1>1, WriteFileKept
<1>4. ~Idle(connections[i])
  BY DEF Idle
<1> QED BY <1>2, <1>3, <1>4, Replaced

LEMMA WriteMessageKept ==
  ASSUME IInv, NEW i, WriteMessage(i)
  PROVE  ListKept /\ IdleKept
<1>1. CASE i \in DOMAIN connections /\ connections[i].connected
           /\ ~connections[i].writePending
  BY <1>1, WriteKept DEF WriteMessage, Taken
<1>2. CASE UNCHANGED connections
  BY <1>2, NothingMoves
<1> QED BY <1>1, <1>2 DEF WriteMessage

\* Of what the listen thread is at, the menu thread changes nothing, as long as
\* its own place is right.
LEMMA MenuStep ==
  ASSUME IInv, ListKept, IdleKept,
         UNCHANGED <<numIdlePipes, listen, rows>>,
         registered' \in BOOLEAN, registered => registered',
         menu' \in [at : {"start", "tick", "broadcast", "check", "write"}, i : Nat,
                    left : Int],
         menu'.at = "check" => menu'.i >= 1,
         menu'.at = "write" =>
           menu'.i \in DOMAIN connections /\ Taken(connections[menu'.i]),
         menu'.at \in {"check", "write"} => listen.at # "disconnected",
         connectionLock' =
           IF listen.at = "disconnected" THEN "listen"
           ELSE IF menu'.at \in {"check", "write"} THEN "menu" ELSE "free",
         menuLock' = IF menu'.at \in {"broadcast", "check", "write"} THEN "menu"
                     ELSE "free"
  PROVE  IInv'
<1>1. TypeOK'
  BY DEF IInv, TypeOK, ListKept
<1>2. ListenPlace' /\ MenuPlace'
  <2>1. DOMAIN connections \subseteq DOMAIN connections'
    BY DEF IInv, TypeOK, ListKept
  <2>2. /\ Len(connections) \in Nat /\ Len(connections') \in Nat
        /\ Len(connections) <= Len(connections') /\ listen.i \in Nat
    BY DEF IInv, TypeOK, ListenPlace, MenuPlace, ListKept
  <2>3. \A i \in DOMAIN connections : Taken(connections[i]) => Taken(connections'[i])
    BY DEF ListKept
  <2> QED BY <2>1, <2>2, <2>3 DEF IInv, ListenPlace, MenuPlace
<1>3. RowsMatch'
  BY RowsKept
<1> QED BY <1>1, <1>2, <1>3, CountKept DEF IInv, ListKept

LEMMA MenuKeeps ==
  ASSUME IInv, Menu
  PROVE  IInv'
<1> DEFINE Spots == [at : {"start", "tick", "broadcast", "check", "write"}, i : Nat,
                     left : Int]
<1>1. /\ menu \in Spots /\ registered \in BOOLEAN
      /\ connectionLock = IF listen.at = "disconnected" THEN "listen"
                          ELSE IF menu.at \in {"check", "write"} THEN "menu" ELSE "free"
      /\ menuLock = IF menu.at \in {"broadcast", "check", "write"} THEN "menu"
                    ELSE "free"
      /\ connections \in Seq(Connection)
      /\ menu.at = "check" => menu.i >= 1
      /\ menu.at = "write" => menu.i \in DOMAIN connections /\ Taken(connections[menu.i])
      /\ menu.at \in {"check", "write"} => listen.at # "disconnected"
  BY DEF IInv, TypeOK, ListenPlace, MenuPlace
<1>2. CASE RegisterReader
  <2>1. ListKept /\ IdleKept
    BY <1>2, NothingMoves DEF RegisterReader
  <2>2. menu' = [menu EXCEPT !.at = "tick"] /\ menu.at = "start"
    BY <1>2 DEF RegisterReader
  <2>3. menu' \in Spots /\ menu'.at = "tick"
    BY <1>1, <2>2
  <2> QED BY <1>1, <1>2, <2>1, <2>2, <2>3, MenuStep DEF RegisterReader, locks
<1>3. CASE DispatchTransientClientUpdate
  <2>1. ListKept /\ IdleKept
    BY <1>3, WriteMessageKept DEF DispatchTransientClientUpdate
  <2> QED BY <1>1, <1>3, <2>1, MenuStep DEF DispatchTransientClientUpdate, locks
<1>4. CASE DrawMenu
  <2>1. ListKept /\ IdleKept
    BY <1>4, NothingMoves DEF DrawMenu
  <2>2. menu' \in Spots /\ menu'.at = "broadcast" /\ menu.at = "tick"
    BY <1>4, MenuIPCAssumption DEF DrawMenu
  <2> QED BY <1>1, <1>4, <2>1, <2>2, MenuStep DEF DrawMenu
<1>5. CASE BroadcastMessage
  <2>1. ListKept /\ IdleKept
    BY <1>5, NothingMoves DEF BroadcastMessage
  <2>2. menu' \in Spots /\ menu'.at = "check" /\ menu'.i = 1 /\ menu.at = "broadcast"
    BY <1>1, <1>5 DEF BroadcastMessage
  <2>3. listen.at # "disconnected"
    BY <1>1, <1>5 DEF BroadcastMessage
  <2> QED BY <1>1, <1>5, <2>1, <2>2, <2>3, MenuStep DEF BroadcastMessage
<1>6. CASE SkipConnection
  <2>1. ListKept /\ IdleKept
    BY <1>6, NothingMoves DEF SkipConnection
  <2>2. menu' \in Spots /\ menu'.at = "check" /\ menu'.i >= 1 /\ menu.at = "check"
    BY <1>1, <1>6 DEF SkipConnection, Checking
  <2> QED BY <1>1, <1>6, <2>1, <2>2, MenuStep DEF SkipConnection, locks
<1>7. CASE CheckConnection
  <2>1. ListKept /\ IdleKept
    BY <1>7, NothingMoves DEF CheckConnection
  <2>2. /\ menu' \in Spots /\ menu'.at = "write" /\ menu'.i = menu.i
        /\ menu.at = "check" /\ menu.i <= Len(connections)
        /\ connections[menu.i].connected
    BY <1>1, <1>7 DEF CheckConnection, Checking
  <2>3. menu'.i \in DOMAIN connections /\ Taken(connections[menu'.i])
    BY <1>1, <2>2 DEF Taken
  <2> QED BY <1>1, <1>7, <2>1, <2>2, <2>3, MenuStep DEF CheckConnection, locks
<1>8. CASE WriteConnection
  <2>1. menu.at = "write"
    BY <1>8 DEF WriteConnection
  <2>2. ListKept /\ IdleKept
    BY <1>1, <1>8, <2>1, WriteKept DEF WriteConnection
  <2>3. menu' \in Spots /\ menu'.at = "check" /\ menu'.i >= 1
    <3>1. menu' = [menu EXCEPT !.at = "check", !.i = @ + 1]
      BY <1>8 DEF WriteConnection
    <3>2. menu.i \in Nat /\ menu.i + 1 \in Nat /\ menu.i + 1 >= 1
      BY <1>1
    <3> QED BY <1>1, <3>1, <3>2
  <2> QED BY <1>1, <1>8, <2>1, <2>2, <2>3, MenuStep DEF WriteConnection, locks
<1>9. CASE EndBroadcast
  <2>1. ListKept /\ IdleKept
    BY <1>9, NothingMoves DEF EndBroadcast
  <2>2. menu.at = "check" /\ listen.at # "disconnected"
    BY <1>1, <1>9 DEF EndBroadcast
  <2>3. CASE menu.left > 0
    <3>1. menu' = [menu EXCEPT !.at = "broadcast", !.i = 0]
      BY <1>9, <2>3 DEF EndBroadcast
    <3>2. menu' \in Spots /\ menu'.at = "broadcast"
      BY <1>1, <3>1
    <3> QED BY <1>1, <1>9, <2>1, <2>2, <2>3, <3>2, MenuStep DEF EndBroadcast
  <2>4. CASE ~(menu.left > 0)
    <3>1. menu' = [menu EXCEPT !.at = "tick", !.i = 0]
      BY <1>9, <2>4 DEF EndBroadcast
    <3>2. menu' \in Spots /\ menu'.at = "tick"
      BY <1>1, <3>1
    <3> QED BY <1>1, <1>9, <2>1, <2>2, <2>4, <3>2, MenuStep DEF EndBroadcast
  <2> QED BY <2>3, <2>4
<1> QED
  BY <1>2, <1>3, <1>4, <1>5, <1>6, <1>7, <1>8, <1>9 DEF Menu

-----------------------------------------------------------------------------
(* The listen thread, where it removes nothing.                            *)

\* Of what the menu thread is at, the listen thread changes nothing, as long as
\* its own place is right and it removes nothing.
LEMMA ListenStep ==
  ASSUME IInv, ListKept, Counted', ListenPlace', numIdlePipes' \in Int,
         UNCHANGED <<rows, registered, menu, locks>>,
         listen.at # "disconnected", listen'.at # "disconnected"
  PROVE  IInv'
<1>1. TypeOK'
  BY DEF IInv, TypeOK, ListKept, locks
<1>2. MenuPlace'
  <2>1. DOMAIN connections \subseteq DOMAIN connections'
    BY DEF IInv, TypeOK, ListKept
  <2> QED BY <2>1 DEF IInv, MenuPlace, ListKept
<1>3. RowsMatch'
  BY RowsKept
<1> QED BY <1>1, <1>2, <1>3 DEF IInv, ListKept

\* The places it goes to when it is done with a connection.
LEMMA NextPlace ==
  ASSUME NEW i \in Nat, NEW n, ListKept, i <= Len(connections'),
         UNCHANGED registered,
         listen' \in {Waiting, ConnectedCallback(i), KeepPipe(n, i)}
  PROVE  ListenPlace' /\ listen'.at # "disconnected"
<1>1. Len(connections') \in Nat /\ DOMAIN connections' = 1 .. Len(connections')
  BY DEF ListKept
<1>2. \/ listen' = [at |-> "wait", i |-> 0]
      \/ listen' = [at |-> "connected", i |-> i] /\ registered /\ i # 0
      \/ listen' = [at |-> "add", i |-> i]
  BY DEF Waiting, ConnectedCallback, KeepPipe, At
<1>3. CASE listen' = [at |-> "wait", i |-> 0]
  BY <1>3 DEF ListenPlace
<1>4. CASE listen' = [at |-> "connected", i |-> i] /\ registered /\ i # 0
  BY <1>1, <1>4 DEF ListenPlace
<1>5. CASE listen' = [at |-> "add", i |-> i]
  BY <1>5 DEF ListenPlace
<1> QED BY <1>2, <1>3, <1>4, <1>5

LEMMA AddPipeStep ==
  ASSUME IInv, AddPipe
  PROVE  IInv'
<1> DEFINE n == Len(connections)
<1>1. /\ connections \in Seq(Connection) /\ n \in Nat /\ DOMAIN connections = 1 .. n
      /\ numIdlePipes \in Int
      /\ numIdlePipes <= Cardinality(IdlePipes(connections))
      /\ listen.i \in Nat /\ listen.at = "add" /\ listen.i <= n
  BY DEF IInv, TypeOK, Counted, ListenPlace, AddPipe
<1>2. NewPipe \in Connection /\ Idle(NewPipe) /\ NewPipe.client = Nobody
  BY MenuIPCAssumption DEF NewPipe, Connection, Idle, Taken
<1>3. ASSUME NEW c \in Connection, c.pipe = "listening" => c.client = Nobody,
             connections' = Append(connections, c)
      PROVE  /\ ListKept /\ Len(connections') = n + 1
             /\ Idle(c) => IdlePipes(connections') = IdlePipes(connections) \cup {n + 1}
             /\ ~Idle(c) => IdlePipes(connections') = IdlePipes(connections)
  <2>1. /\ connections' \in Seq(Connection)
        /\ Len(connections') = n + 1
        /\ DOMAIN connections' = 1 .. n + 1
        /\ \A i \in 1 .. n : connections'[i] = connections[i]
        /\ connections'[n + 1] = c
    BY <1>1, <1>3
  <2>2. ListKept
    BY <1>1, <1>3, <2>1 DEF ListKept, IInv, PipesListen
  <2>3. \A i : i \in 1 .. n + 1 <=> i \in 1 .. n \/ i = n + 1
    BY <1>1
  <2>4. n + 1 \notin 1 .. n
    BY <1>1
  <2> QED BY <1>1, <2>1, <2>2, <2>3, <2>4 DEF IdlePipes
<1>4. IsFiniteSet(IdlePipes(connections)) /\ Cardinality(IdlePipes(connections)) \in Nat
  BY <1>1, IdleFinite
<1> DEFINE i == listen.i
<1>5. listen' \in {Waiting, ConnectedCallback(i), KeepPipe(0, i)} /\ UNCHANGED registered
  BY DEF AddPipe
<1> HIDE DEF i
<1>6. i \in Nat /\ i <= n
  BY <1>1 DEF i
<1>7. CASE connections' = Append(connections, NewPipe) /\ numIdlePipes' = numIdlePipes + 1
  <2>1. ListKept /\ Len(connections') = n + 1
    BY <1>2, <1>3, <1>7
  <2>2. IdlePipes(connections') = IdlePipes(connections) \cup {n + 1}
    BY <1>2, <1>3, <1>7
  <2>3. n + 1 \notin IdlePipes(connections)
    BY <1>1 DEF IdlePipes
  <2>4. Cardinality(IdlePipes(connections')) = Cardinality(IdlePipes(connections)) + 1
    BY <1>4, <2>2, <2>3, FS_AddElement
  <2>5. Counted'
    BY <1>1, <1>4, <1>7, <2>4 DEF Counted
  <2>6. ListenPlace' /\ listen'.at # "disconnected"
    <3>1. i <= Len(connections')
      BY <1>1, <1>6, <2>1
    <3> QED BY <1>5, <1>6, <2>1, <3>1, NextPlace
  <2> QED BY <1>1, <1>7, <2>1, <2>5, <2>6, ListenStep DEF AddPipe
<1>8. ASSUME NEW client \in Clients,
             connections' = Append(connections,
                                   [OpenedBy(NewPipe, client) EXCEPT !.counted = FALSE]),
             UNCHANGED numIdlePipes
      PROVE  IInv'
  <2> DEFINE c == [OpenedBy(NewPipe, client) EXCEPT !.counted = FALSE]
  <2>1. OpenedBy(NewPipe, client) \in Connection
    BY <1>2 DEF OpenedBy, Connection
  <2>2. OpenedBy(NewPipe, client).pipe = "open"
    BY <1>2 DEF OpenedBy, Connection
  <2>3. c \in Connection /\ ~Idle(c) /\ c.pipe = "open"
    BY <2>1, <2>2 DEF Connection, Idle
  <2> HIDE DEF c
  <2>4. /\ ListKept /\ Len(connections') = n + 1
        /\ IdlePipes(connections') = IdlePipes(connections)
    BY <1>3, <1>8, <2>3 DEF c
  <2>5. Counted'
    BY <1>1, <1>8, <2>4 DEF Counted
  <2>6. ListenPlace' /\ listen'.at # "disconnected"
    <3>1. i <= Len(connections')
      BY <1>1, <1>6, <2>4
    <3> QED BY <1>5, <1>6, <2>4, <3>1, NextPlace
  <2> QED BY <1>1, <1>8, <2>4, <2>5, <2>6, ListenStep DEF AddPipe
<1> QED BY <1>7, <1>8, MenuIPCAssumption DEF AddPipe

\* The connection that is served.
LEMMA ServedOne ==
  ASSUME IInv, Woken
  PROVE  /\ Served \in DOMAIN connections /\ Served \in Nat
         /\ Served <= Len(connections)
         /\ Serving \in Connection
         /\ listen.at = "wait"
<1>1. /\ connections \in Seq(Connection)
      /\ DOMAIN connections = 1 .. Len(connections) /\ Len(connections) \in Nat
  BY DEF IInv, TypeOK
<1>2. Signalled \subseteq DOMAIN connections /\ Signalled # {}
  BY DEF Signalled, Woken
<1>3. Signalled \in SUBSET Nat
  BY <1>1, <1>2
<1>4. Min(Signalled) \in Signalled
  BY <1>2, <1>3, Least
<1>5. Served \in DOMAIN connections
  BY <1>2, <1>4 DEF Served
<1> QED BY <1>1, <1>5 DEF Serving, Woken

\* The pipe is not idle any more, and is counted so; one that was connected
\* before it could be counted makes the count lower than need be.
LEMMA AcceptClientStep ==
  ASSUME IInv, AcceptClient
  PROVE  IInv'
<1> DEFINE k == Served
           c == connections[k]
           d == [c EXCEPT !.connected = TRUE, !.counted = TRUE]
           e == CueRead(d)
           I == IdlePipes(connections)
           J == IdlePipes(connections')
<1>1. k \in DOMAIN connections /\ k \in Nat /\ k <= Len(connections) /\ c \in Connection
      /\ listen.at = "wait"
  BY ServedOne DEF AcceptClient, Serving
<1>2. d \in Connection /\ Kept(c, d) /\ Taken(d)
  BY <1>1 DEF Connection, Kept, Taken
<1>3. Kept(c, e)
  BY <1>2, CueReadKept, KeptTwice
<1>4. connections' = [connections EXCEPT ![k] = e] /\ numIdlePipes' = numIdlePipes - 1
  BY DEF AcceptClient
<1>5. ListKept /\ Len(connections') = Len(connections) /\ I \ {k} \subseteq J
  BY <1>1, <1>3, <1>4, Replaced
<1>6. /\ IsFiniteSet(I) /\ Cardinality(I) \in Nat
      /\ IsFiniteSet(J) /\ Cardinality(J) \in Nat
  BY <1>5, IdleFinite DEF IInv, TypeOK, ListKept
<1> HIDE DEF I, J
<1>7. Cardinality(I) - 1 <= Cardinality(J)
  <2>1. IsFiniteSet(I \ {k}) /\ Cardinality(I \ {k}) >= Cardinality(I) - 1
    BY <1>6, FS_RemoveElement
  <2>2. Cardinality(I \ {k}) <= Cardinality(J)
    BY <1>5, <1>6, FS_Subset
  <2>3. Cardinality(I \ {k}) \in Nat
    BY <2>1, FS_CardinalityType
  <2> QED BY <1>6, <2>1, <2>2, <2>3
<1>8. numIdlePipes \in Int /\ numIdlePipes <= Cardinality(I)
  BY DEF IInv, TypeOK, Counted, I
<1>9. numIdlePipes' \in Int /\ Counted'
  BY <1>4, <1>6, <1>7, <1>8 DEF Counted, J
<1>10. ListenPlace' /\ listen'.at # "disconnected"
  BY <1>1, <1>5, NextPlace DEF AcceptClient
<1> QED BY <1>1, <1>5, <1>9, <1>10, ListenStep DEF AcceptClient

\* A connection changed in place, and the thread where it was or done with it.
LEMMA ServeStep ==
  ASSUME IInv, NEW k \in DOMAIN connections, NEW d, Kept(connections[k], d),
         Idle(connections[k]) => Idle(d),
         connections' = [connections EXCEPT ![k] = d],
         UNCHANGED <<numIdlePipes, rows, registered, menu, locks>>,
         listen.at # "disconnected",
         \/ UNCHANGED listen
         \/ listen' = Waiting
         \/ listen' = At("replied", k) /\ Taken(d)
         \/ listen' = At("message", k) /\ Taken(d) /\ registered /\ k <= Len(rows)
  PROVE  IInv'
<1>1. ListKept /\ IdleKept /\ Len(connections') = Len(connections)
  BY Replaced
<1>2. Counted'
  BY <1>1, CountKept
<1>3. /\ DOMAIN connections' = DOMAIN connections
      /\ k \in Nat /\ connections'[k] = d
      /\ \A i \in DOMAIN connections : Taken(connections[i]) => Taken(connections'[i])
  BY <1>1 DEF IInv, TypeOK, ListKept
<1>4. numIdlePipes' \in Int
  BY DEF IInv, TypeOK
<1>5. CASE UNCHANGED listen
  <2>1. ListenPlace'
    BY <1>1, <1>3, <1>5 DEF IInv, ListenPlace
  <2> QED BY <1>1, <1>2, <1>4, <1>5, <2>1, ListenStep
<1>6. CASE listen' = [at |-> "wait", i |-> 0]
  <2>1. ListenPlace' /\ listen'.at # "disconnected"
    BY <1>6 DEF ListenPlace
  <2> QED BY <1>1, <1>2, <1>4, <2>1, ListenStep
<1>7. CASE listen' = [at |-> "replied", i |-> k] /\ Taken(d)
  <2>1. ListenPlace' /\ listen'.at # "disconnected"
    BY <1>3, <1>7 DEF ListenPlace
  <2> QED BY <1>1, <1>2, <1>4, <2>1, ListenStep
<1>8. CASE listen' = [at |-> "message", i |-> k] /\ Taken(d) /\ registered
           /\ k <= Len(rows)
  <2>1. ListenPlace' /\ listen'.at # "disconnected"
    BY <1>3, <1>8 DEF ListenPlace
  <2> QED BY <1>1, <1>2, <1>4, <2>1, ListenStep
<1> QED BY <1>5, <1>6, <1>7, <1>8 DEF Waiting, At

LEMMA RejectClientStep ==
  ASSUME IInv, RejectClient
  PROVE  IInv'
<1> DEFINE k == Served
           c == connections[k]
<1>1. k \in DOMAIN connections /\ c \in Connection /\ listen.at = "wait"
  BY ServedOne DEF RejectClient, Serving
<1>2. Kept(c, Lost(c)) /\ ~Idle(c)
  BY <1>1, LostKept DEF RejectClient, Serving, Idle
<1>3. connections' = [connections EXCEPT ![k] = Lost(c)]
  BY DEF RejectClient
<1> QED BY <1>1, <1>2, <1>3, ServeStep DEF RejectClient

LEMMA PollConnectionStep ==
  ASSUME IInv, PollConnection
  PROVE  IInv'
<1> DEFINE k == Served
           c == connections[k]
           d == PollWrite(PollRead(c))
<1>1. k \in DOMAIN connections /\ c \in Connection /\ listen.at = "wait"
  BY ServedOne DEF PollConnection, Serving
<1>2. Kept(c, PollRead(c)) /\ PollRead(c) \in Connection
  BY <1>1, PollReadKept DEF Kept
<1>3. Kept(c, d)
  BY <1>2, PollWriteKept, KeptTwice
<1>4. ~Idle(c)
  BY DEF PollConnection, Serving, Idle, Taken
<1>5. connections' = [connections EXCEPT ![k] = d]
  BY DEF PollConnection
<1> QED BY <1>1, <1>3, <1>4, <1>5, ServeStep DEF PollConnection

LEMMA ReadMessageStep ==
  ASSUME IInv, ReadMessage
  PROVE  IInv'
<1> DEFINE k == Served
           c == connections[k]
           e == [c EXCEPT !.readPending = FALSE, !.incoming = FALSE]
<1>1. k \in DOMAIN connections /\ c \in Connection /\ listen.at = "wait"
  BY ServedOne DEF ReadMessage, Serving
<1>2. Taken(c) /\ ~Idle(c)
  BY DEF ReadMessage, Serving, Idle, Taken
<1>3. e \in Connection /\ Kept(c, e)
  BY <1>1 DEF Connection, Kept, Taken
<1> HIDE DEF e
<1>4. UNCHANGED <<numIdlePipes, rows, registered, menu, locks>>
  BY DEF ReadMessage
<1>5. \/ \E d \in WriteFile(e) : /\ connections' = [connections EXCEPT ![k] = d]
                                 /\ listen' = At("replied", k)
      \/ /\ connections' = [connections EXCEPT ![k] = e]
         /\ listen' = At("message", k) /\ registered /\ k <= Len(rows)
      \/ /\ connections' = [connections EXCEPT ![k] = PollWrite(CueRead(e))]
         /\ UNCHANGED listen
  BY DEF ReadMessage, Serving, e
<1>6. ASSUME NEW d \in WriteFile(e), connections' = [connections EXCEPT ![k] = d],
             listen' = At("replied", k)
      PROVE  IInv'
  <2>1. Kept(e, d)
    BY <1>3, WriteFileKept
  <2>2. Kept(c, d)
    BY <1>3, <2>1, KeptTwice
  <2>3. Taken(d)
    BY <1>2, <2>2 DEF Kept
  <2> QED BY <1>1, <1>2, <1>4, <1>6, <2>2, <2>3, ServeStep
<1>7. CASE /\ connections' = [connections EXCEPT ![k] = e]
           /\ listen' = At("message", k) /\ registered /\ k <= Len(rows)
  <2>1. Taken(e)
    BY <1>2, <1>3 DEF Kept
  <2> QED BY <1>1, <1>2, <1>3, <1>4, <1>7, <2>1, ServeStep
<1>8. CASE /\ connections' = [connections EXCEPT ![k] = PollWrite(CueRead(e))]
           /\ UNCHANGED listen
  <2>1. Kept(e, CueRead(e)) /\ CueRead(e) \in Connection
    BY <1>3, CueReadKept DEF Kept
  <2>2. Kept(CueRead(e), PollWrite(CueRead(e)))
    BY <2>1, PollWriteKept
  <2>3. Kept(c, PollWrite(CueRead(e)))
    BY <1>3, <2>1, <2>2, KeptTwice
  <2> QED BY <1>1, <1>2, <1>4, <1>8, <2>3, ServeStep
<1> QED BY <1>5, <1>6, <1>7, <1>8

LEMMA ReadAfterReplyStep ==
  ASSUME IInv, ReadAfterReply
  PROVE  IInv'
<1> DEFINE k == listen.i
           c == connections[k]
<1>1. k \in DOMAIN connections /\ c \in Connection /\ ~Idle(c)
  BY DEF IInv, TypeOK, ListenPlace, ReadAfterReply, Idle
<1>2. Kept(c, CueRead(c))
  BY <1>1, CueReadKept
<1>3. connections' = [connections EXCEPT ![k] = CueRead(c)] /\ listen' = Waiting
  BY DEF ReadAfterReply
<1> QED BY <1>1, <1>2, <1>3, ServeStep DEF ReadAfterReply

LEMMA StartRemovalStep ==
  ASSUME IInv, StartRemoval
  PROVE  IInv'
<1>1. /\ Served \in DOMAIN connections /\ Served \in Nat /\ listen.at = "wait"
      /\ Taken(connections[Served])
  BY ServedOne DEF StartRemoval, Serving, Taken
<1>2. UNCHANGED connections /\ ListKept /\ IdleKept
  BY NothingMoves DEF StartRemoval
<1>3. listen' = [at |-> "remove", i |-> Served]
  BY DEF StartRemoval, At
<1>4. ListenPlace' /\ listen'.at # "disconnected"
  BY <1>1, <1>2, <1>3 DEF ListenPlace
<1>5. Counted' /\ numIdlePipes' \in Int
  BY <1>2, CountKept DEF StartRemoval, IInv, TypeOK
<1> QED BY <1>1, <1>2, <1>4, <1>5, ListenStep DEF StartRemoval

LEMMA InformReloadStep ==
  ASSUME IInv, InformReload
  PROVE  IInv'
<1>1. ListKept /\ IdleKept
  BY WriteMessageKept DEF InformReload
<1>2. listen' = [at |-> "wait", i |-> 0] /\ listen.at = "reload"
  BY DEF InformReload, Waiting, At
<1>3. ListenPlace' /\ listen'.at # "disconnected"
  BY <1>2 DEF ListenPlace
<1>4. Counted' /\ numIdlePipes' \in Int
  BY <1>1, CountKept DEF InformReload, IInv, TypeOK
<1> QED BY <1>1, <1>2, <1>3, <1>4, ListenStep DEF InformReload

-----------------------------------------------------------------------------
(* The listen thread, where it changes the rows or removes a connection.   *)

\* What removing an element leaves.
LEMMA Removed ==
  ASSUME NEW S, NEW s \in Seq(S), NEW k \in 1 .. Len(s)
  PROVE  /\ RemoveAt(s, k) \in Seq(S)
         /\ Len(RemoveAt(s, k)) = Len(s) - 1
         /\ \A i \in 1 .. Len(s) - 1 :
              RemoveAt(s, k)[i] = IF i < k THEN s[i] ELSE s[i + 1]
<1> DEFINE a == SubSeq(s, 1, k - 1)
           b == SubSeq(s, k + 1, Len(s))
<1>1. Len(s) \in Nat /\ k \in Nat /\ k >= 1 /\ k <= Len(s)
  OBVIOUS
<1>2. /\ a \in Seq(S) /\ Len(a) = k - 1
      /\ \A i \in 1 .. k - 1 : a[i] = s[i]
  BY <1>1
<1>3. /\ b \in Seq(S) /\ Len(b) = Len(s) - k
      /\ \A i \in 1 .. Len(s) - k : b[i] = s[k + i]
  BY <1>1
<1> HIDE DEF a, b
<1>4. /\ a \o b \in Seq(S) /\ Len(a \o b) = Len(a) + Len(b)
      /\ \A i \in 1 .. Len(a) + Len(b) :
           (a \o b)[i] = IF i <= Len(a) THEN a[i] ELSE b[i - Len(a)]
  BY <1>2, <1>3, ConcatProperties
<1>5. RemoveAt(s, k) = a \o b
  BY DEF RemoveAt, a, b
<1> HIDE DEF a, b
<1>6. Len(a) + Len(b) = Len(s) - 1
  BY <1>1, <1>2, <1>3
<1>7. ASSUME NEW i \in 1 .. Len(s) - 1
      PROVE  (a \o b)[i] = IF i < k THEN s[i] ELSE s[i + 1]
  <2>1. (a \o b)[i] = IF i <= Len(a) THEN a[i] ELSE b[i - Len(a)]
    BY <1>4, <1>6
  <2>2. CASE i < k
    <3>1. i \in 1 .. k - 1 /\ i <= Len(a)
      BY <1>1, <1>2, <2>2
    <3> QED BY <1>2, <2>1, <2>2, <3>1
  <2>3. CASE ~(i < k)
    <3>1. ~(i <= Len(a)) /\ i - Len(a) \in 1 .. Len(s) - k /\ k + (i - Len(a)) = i + 1
      BY <1>1, <1>2, <2>3
    <3> QED BY <1>3, <2>1, <2>3, <3>1
  <2> QED BY <2>2, <2>3
<1> QED BY <1>4, <1>5, <1>6, <1>7

LEMMA MessageReceivedStep ==
  ASSUME IInv, MessageReceived
  PROVE  IInv'
<1> DEFINE k == listen.i
           c == connections[k]
           d == PollWrite(CueRead(c))
<1>1. /\ k \in DOMAIN connections /\ c \in Connection /\ ~Idle(c)
      /\ k \in DOMAIN rows /\ rows \in Seq(Row) /\ c.client \in Row
      /\ listen.at = "message"
  <2>1. /\ connections \in Seq(Connection) /\ rows \in Seq(Row)
        /\ k \in DOMAIN connections /\ Taken(c) /\ k <= Len(rows)
        /\ listen.at = "message"
    BY DEF IInv, TypeOK, ListenPlace, MessageReceived
  <2>2. k \in DOMAIN rows /\ c \in Connection
    BY <2>1
  <2>3. c.client \in Row /\ ~Idle(c)
    BY <2>1, <2>2 DEF Connection, Row, Idle
  <2> QED BY <2>1, <2>2, <2>3
<1>2. Kept(c, CueRead(c)) /\ CueRead(c) \in Connection
  BY <1>1, CueReadKept DEF Kept
<1>3. Kept(c, d)
  BY <1>2, PollWriteKept, KeptTwice
<1>4. connections' = [connections EXCEPT ![k] = d]
  BY DEF MessageReceived
<1>5. ListKept /\ IdleKept /\ Len(connections') = Len(connections)
  BY <1>1, <1>3, <1>4, Replaced
<1>6. rows' = [rows EXCEPT ![k] = c.client]
  BY DEF MessageReceived
<1>7. /\ rows' \in Seq(Row) /\ DOMAIN rows' = DOMAIN rows
      /\ \A j \in DOMAIN rows : rows'[j] = IF j = k THEN c.client ELSE rows[j]
  BY <1>1, <1>6
<1>8. listen' = [at |-> "wait", i |-> 0]
  BY DEF MessageReceived, Waiting, At
<1>9. ListenPlace'
  BY <1>8 DEF ListenPlace
<1>10. UNCHANGED <<numIdlePipes, registered, menu, locks>>
  BY DEF MessageReceived
<1>11. DOMAIN connections' = DOMAIN connections
  BY <1>5 DEF IInv, TypeOK, ListKept
<1>12. MenuPlace'
  BY <1>8, <1>10, <1>11, <1>5 DEF IInv, MenuPlace, ListKept
<1>13. TypeOK'
  BY <1>1, <1>5, <1>7, <1>8, <1>10 DEF IInv, TypeOK, ListKept, locks
<1>14. RowsMatch'
  <2>1. ASSUME NEW j \in DOMAIN rows, rows'[j] # Nobody
        PROVE  j \in DOMAIN connections /\ connections'[j].client = rows'[j]
    <3>1. CASE j = k
      BY <1>1, <1>5, <1>7, <2>1, <3>1 DEF ListKept
    <3>2. CASE j # k
      BY <1>1, <1>5, <1>7, <2>1, <3>2 DEF IInv, RowsMatch, OfRow, ListKept
    <3> QED BY <3>1, <3>2
  <2>2. \A j : OfRow(j)' = j
    BY <1>8 DEF OfRow
  <2>3. registered'
    BY <1>1, <1>10 DEF IInv, ListenPlace
  <2> QED BY <1>7, <1>8, <1>11, <2>1, <2>2, <2>3 DEF RowsMatch
<1>15. Counted'
  BY <1>5, <1>10, CountKept
<1> QED BY <1>5, <1>9, <1>12, <1>13, <1>14, <1>15 DEF IInv, ListKept

\* New rows show nobody.
LEMMA ClientConnectedStep ==
  ASSUME IInv, ClientConnected
  PROVE  IInv'
<1> DEFINE k == listen.i
           more == [j \in 1 .. k - Len(rows) |-> Nobody]
           n == IF k > Len(rows) THEN k - Len(rows) ELSE 0
<1>1. /\ rows \in Seq(Row) /\ Len(rows) \in Nat /\ k \in Nat
      /\ k \in DOMAIN connections /\ registered /\ listen.at = "connected"
  BY DEF IInv, TypeOK, ListenPlace, ClientConnected
<1>2. n \in Nat /\ 1 .. k - Len(rows) = 1 .. n
  BY <1>1
<1>3. more = [j \in 1 .. n |-> Nobody]
  BY <1>2
<1>4. Nobody \in Row
  BY DEF Row
<1> HIDE DEF n
<1>5. more \in Seq(Row) /\ Len(more) = n /\ \A j \in 1 .. n : more[j] = Nobody
  <2>1. more \in [1 .. n -> Row] /\ \A j \in 1 .. n : more[j] = Nobody
    BY <1>3, <1>4, Zenon
  <2> HIDE DEF more
  <2>2. more \in Seq(Row)
    BY <1>2, <2>1, SeqDef
  <2>3. Len(more) = n
    BY <1>2, <2>1, <2>2, LenProperties
  <2> QED BY <2>1, <2>2, <2>3
<1>6. rows' = rows \o more
  BY DEF ClientConnected
<1> HIDE DEF more
<1>7. /\ rows' \in Seq(Row) /\ Len(rows') = Len(rows) + n
      /\ \A j \in 1 .. Len(rows) + n :
           rows'[j] = IF j <= Len(rows) THEN rows[j] ELSE more[j - Len(rows)]
  BY <1>1, <1>2, <1>5, <1>6, ConcatProperties
<1>8. \A j \in DOMAIN rows' :
        rows'[j] # Nobody => j \in DOMAIN rows /\ rows'[j] = rows[j]
  <2> TAKE j \in DOMAIN rows'
  <2>1. j \in 1 .. Len(rows) + n
    BY <1>7
  <2>2. CASE j <= Len(rows)
    BY <1>1, <1>7, <2>1, <2>2
  <2>3. CASE ~(j <= Len(rows))
    <3>1. j - Len(rows) \in 1 .. n
      BY <1>1, <1>2, <2>1, <2>3
    <3>2. rows'[j] = Nobody
      BY <1>5, <1>7, <2>1, <2>3, <3>1
    <3> QED BY <3>2
  <2> QED BY <2>2, <2>3
<1>9. \/ listen' = [at |-> "wait", i |-> 0] \/ listen' = [at |-> "reload", i |-> k]
  BY DEF ClientConnected, Waiting, At
<1>10. UNCHANGED <<connections, numIdlePipes, registered, menu, locks>>
  BY DEF ClientConnected
<1>11. ListKept /\ IdleKept
  BY <1>10, NothingMoves
<1>12. ListenPlace' /\ listen'.at # "disconnected"
  <2>1. CASE listen' = [at |-> "wait", i |-> 0]
    BY <2>1 DEF ListenPlace
  <2>2. CASE listen' = [at |-> "reload", i |-> k]
    BY <1>1, <1>10, <2>2 DEF ListenPlace
  <2> QED BY <1>9, <2>1, <2>2
<1>13. MenuPlace'
  BY <1>10, <1>12 DEF IInv, MenuPlace
<1>14. TypeOK'
  BY <1>1, <1>7, <1>10, <1>12 DEF IInv, TypeOK, locks
<1>15. RowsMatch'
  <2>1. \A j : OfRow(j)' = j /\ OfRow(j) = j
    BY <1>1, <1>12 DEF OfRow
  <2>2. \A j \in DOMAIN rows :
          rows[j] # Nobody => j \in DOMAIN connections /\ connections[j].client = rows[j]
    BY <1>1, <2>1 DEF IInv, RowsMatch
  <2> QED BY <1>1, <1>8, <1>10, <2>1, <2>2 DEF RowsMatch
<1>16. Counted'
  BY <1>10, <1>11, CountKept
<1> QED BY <1>11, <1>12, <1>13, <1>14, <1>15, <1>16 DEF IInv, ListKept

\* A connection that is given up is not counted, so no idle pipe goes with it;
\* the menu thread is nowhere in the list, as it would hold the lock.
LEMMA RemovePipeStep ==
  ASSUME IInv, RemovePipe
  PROVE  IInv'
<1> DEFINE k == listen.i
           n == Len(connections)
           I == IdlePipes(connections)
           J == IdlePipes(connections')
<1>1. /\ connections \in Seq(Connection) /\ n \in Nat /\ DOMAIN connections = 1 .. n
      /\ k \in 1 .. n /\ Taken(connections[k])
      /\ listen.at = "remove" /\ connectionLock = "free"
  BY DEF IInv, TypeOK, ListenPlace, RemovePipe
<1>2. connections' = RemoveAt(connections, k)
  BY DEF RemovePipe
<1>3. /\ connections' \in Seq(Connection) /\ Len(connections') = n - 1
      /\ \A i \in 1 .. n - 1 :
           connections'[i] = IF i < k THEN connections[i] ELSE connections[i + 1]
  BY <1>1, <1>2, Removed
<1>4. DOMAIN connections' = 1 .. n - 1
  BY <1>3
<1>5. PipesListen'
  <2>1. \A i \in 1 .. n - 1 : i \in 1 .. n /\ i + 1 \in 1 .. n
    BY <1>1
  <2> QED BY <1>1, <1>3, <1>4, <2>1 DEF IInv, PipesListen
<1>6. UNCHANGED <<numIdlePipes, registered, rows, menuLock, menu>>
  BY DEF RemovePipe
<1>7. menu.at \notin {"check", "write"}
  BY <1>1 DEF IInv, TypeOK
<1>8. MenuPlace'
  BY <1>6, <1>7 DEF IInv, MenuPlace
<1>9. Counted'
  <2> DEFINE f == [i \in I |-> IF i < k THEN i ELSE i - 1]
  <2>1. ASSUME NEW i \in I
        PROVE  i \in 1 .. n /\ i # k /\ (IF i < k THEN i ELSE i - 1) \in J
    <3>1. i \in 1 .. n /\ Idle(connections[i])
      BY <1>1 DEF IdlePipes
    <3>2. i # k
      BY <1>1, <3>1 DEF Idle
    <3>3. CASE i < k
      BY <1>1, <1>3, <1>4, <3>1, <3>3 DEF IdlePipes
    <3>4. CASE i > k
      <4>1. i - 1 \in 1 .. n - 1 /\ ~(i - 1 < k) /\ (i - 1) + 1 = i
        BY <1>1, <3>1, <3>4
      <4> QED BY <1>1, <1>3, <1>4, <3>1, <3>4, <4>1 DEF IdlePipes
    <3> QED BY <1>1, <3>1, <3>2, <3>3, <3>4
  <2>2. f \in Injection(I, J)
    <3>1. f \in [I -> J]
      BY <2>1
    <3>2. ASSUME NEW i \in I, NEW j \in I, f[i] = f[j] PROVE i = j
      BY <1>1, <2>1, <3>2
    <3> HIDE DEF f
    <3> QED BY <3>1, <3>2 DEF Injection, IsInjective
  <2>3. IsFiniteSet(J) /\ Cardinality(J) \in Nat /\ Cardinality(I) \in Nat
    BY <1>1, <1>3, IdleFinite
  <2>4. Cardinality(I) <= Cardinality(J)
    <3> HIDE DEF f, I, J
    <3> QED BY <2>2, <2>3, FS_Injection
  <2> QED BY <1>6, <2>3, <2>4 DEF IInv, TypeOK, Counted
<1>10. CASE registered
  <2>1. connectionLock' = "listen" /\ listen' = [at |-> "disconnected", i |-> k]
    BY <1>10 DEF RemovePipe, At
  <2>2. ListenPlace'
    BY <1>1, <1>6, <1>10, <2>1 DEF ListenPlace
  <2>3. TypeOK'
    BY <1>3, <1>6, <2>1 DEF IInv, TypeOK
  <2>4. RowsMatch'
    <3>1. ASSUME NEW j \in DOMAIN rows, rows[j] # Nobody, j # k
          PROVE  OfRow(j)' \in DOMAIN connections'
                   /\ connections'[OfRow(j)'].client = rows[j]
      <4>1. j \in 1 .. n /\ connections[j].client = rows[j]
        BY <1>1, <3>1 DEF IInv, RowsMatch, OfRow
      <4>2. CASE j < k
        BY <1>1, <1>3, <1>4, <2>1, <4>1, <4>2 DEF OfRow
      <4>3. CASE j > k
        <5>1. j - 1 \in 1 .. n - 1 /\ ~(j - 1 < k) /\ (j - 1) + 1 = j
          BY <1>1, <4>1, <4>3
        <5> QED BY <1>1, <1>3, <1>4, <2>1, <4>1, <4>3, <5>1 DEF OfRow
      <4> QED BY <1>1, <3>1, <4>1, <4>2, <4>3
    <3> QED BY <1>6, <1>10, <2>1, <3>1 DEF RowsMatch
  <2> QED BY <1>5, <1>8, <1>9, <2>2, <2>3, <2>4, <1>7, <1>6 DEF IInv, MenuPlace
<1>11. CASE ~registered
  <2>1. connectionLock' = connectionLock /\ listen' = KeepPipe(numIdlePipes, 0)
    BY <1>11 DEF RemovePipe
  <2>2. listen' = [at |-> "add", i |-> 0] \/ listen' = [at |-> "wait", i |-> 0]
    BY <1>11, <2>1 DEF KeepPipe, ConnectedCallback, Waiting, At
  <2>3. ListenPlace'
    BY <1>1, <1>3, <2>2 DEF ListenPlace
  <2>4. TypeOK'
    BY <1>1, <1>3, <1>6, <2>1, <2>2 DEF IInv, TypeOK
  <2>5. rows = << >>
    BY <1>11 DEF IInv, RowsMatch
  <2>6. RowsMatch'
    BY <1>6, <2>5 DEF RowsMatch
  <2> QED BY <1>5, <1>8, <1>9, <2>3, <2>4, <2>6 DEF IInv
<1> QED BY <1>10, <1>11

\* The row of the connection that has gone goes, and the rows above it move with
\* theirs.
LEMMA ClientDisconnectedStep ==
  ASSUME IInv, ClientDisconnected
  PROVE  IInv'
<1> DEFINE k == listen.i
           m == Len(rows)
<1>1. /\ rows \in Seq(Row) /\ m \in Nat /\ DOMAIN rows = 1 .. m
      /\ k \in Nat /\ k >= 1 /\ registered /\ listen.at = "disconnected"
      /\ connections \in Seq(Connection)
  BY DEF IInv, TypeOK, ListenPlace, ClientDisconnected
<1>2. UNCHANGED <<connections, numIdlePipes, registered, menuLock, menu>>
  BY DEF ClientDisconnected
<1>3. ListKept /\ IdleKept
  BY <1>2, NothingMoves
<1>4. listen' = [at |-> "add", i |-> 0] \/ listen' = [at |-> "wait", i |-> 0]
  BY DEF ClientDisconnected, KeepPipe, ConnectedCallback, Waiting, At
<1>5. ListenPlace' /\ listen'.at # "disconnected"
  BY <1>1, <1>2, <1>4 DEF ListenPlace
<1>6. MenuPlace'
  BY <1>2, <1>5 DEF IInv, MenuPlace
<1>7. ASSUME NEW j \in DOMAIN rows, rows[j] # Nobody, j # k
      PROVE  OfRow(j) \in DOMAIN connections /\ connections[OfRow(j)].client = rows[j]
  BY <1>7 DEF IInv, RowsMatch
<1>8. /\ rows' \in Seq(Row)
      /\ \A j \in DOMAIN rows' : rows'[j] # Nobody =>
           j \in DOMAIN connections /\ connections[j].client = rows'[j]
  <2>1. CASE k <= m
    <3>1. rows' = RemoveAt(rows, k) /\ k \in 1 .. m
      BY <1>1, <2>1 DEF ClientDisconnected
    <3>2. /\ rows' \in Seq(Row) /\ Len(rows') = m - 1
          /\ \A j \in 1 .. m - 1 :
               rows'[j] = IF j < k THEN rows[j] ELSE rows[j + 1]
      BY <1>1, <3>1, Removed
    <3>3. DOMAIN rows' = 1 .. m - 1
      BY <3>2
    <3>4. ASSUME NEW j \in 1 .. m - 1, rows'[j] # Nobody
          PROVE  j \in DOMAIN connections /\ connections[j].client = rows'[j]
      <4>1. CASE j < k
        <5>1. j \in DOMAIN rows /\ j # k /\ ~(j > listen.i)
          BY <1>1, <3>1, <4>1
        <5>2. OfRow(j) = j
          BY <5>1 DEF OfRow
        <5>3. rows'[j] = rows[j]
          BY <3>2, <4>1
        <5> QED BY <1>7, <3>4, <5>1, <5>2, <5>3
      <4>2. CASE ~(j < k)
        <5>1. j + 1 \in DOMAIN rows /\ j + 1 # k /\ j + 1 > k /\ (j + 1) - 1 = j
          BY <1>1, <4>2
        <5>2. OfRow(j + 1) = j
          BY <1>1, <5>1 DEF OfRow
        <5> QED BY <1>7, <3>2, <3>4, <4>2, <5>1, <5>2
      <4> QED BY <4>1, <4>2
    <3> QED BY <3>2, <3>3, <3>4
  <2>2. CASE ~(k <= m)
    <3>1. rows' = rows
      BY <2>2 DEF ClientDisconnected
    <3>2. \A j \in DOMAIN rows : j # k /\ OfRow(j) = j
      BY <1>1, <2>2 DEF OfRow
    <3> QED BY <1>1, <1>7, <3>1, <3>2
  <2> QED BY <2>1, <2>2
<1>9. RowsMatch'
  BY <1>1, <1>2, <1>5, <1>8 DEF RowsMatch, OfRow
<1>10. TypeOK'
  <2>1. menu.at \notin {"check", "write"} /\ connectionLock' = "free"
    BY <1>1 DEF IInv, MenuPlace, ClientDisconnected
  <2> QED BY <1>1, <1>2, <1>5, <1>8, <2>1 DEF IInv, TypeOK
<1>11. Counted'
  BY <1>2, <1>3, CountKept
<1> QED BY <1>3, <1>5, <1>6, <1>9, <1>10, <1>11 DEF IInv, ListKept

-----------------------------------------------------------------------------
\* The invariant holds at first, is kept by every step, and so always holds.
THEOREM Invariance == Spec => []IInv
<1>1. Init => IInv
  <2> SUFFICES ASSUME Init PROVE IInv
    OBVIOUS
  <2>1. /\ connections = << >> /\ numIdlePipes = 0 /\ rows = << >>
        /\ listen = [at |-> "add", i |-> 0] /\ registered = FALSE
        /\ menu = [at |-> "start", i |-> 0, left |-> 0]
        /\ connectionLock = "free" /\ menuLock = "free"
    BY DEF Init, At
  <2>2. connections \in Seq(Connection) /\ DOMAIN connections = {} /\ Len(connections) = 0
    BY <2>1
  <2>3. rows \in Seq(Row) /\ DOMAIN rows = {}
    BY <2>1
  <2>4. TypeOK
    <3>1. listen.at = "add" /\ menu.at = "start"
      BY <2>1
    <3>2. numIdlePipes = 0
      BY <2>1
    <3>3. numIdlePipes \in Int
      BY <3>2
    <3>4. registered = FALSE
      BY <2>1, Zenon
    <3>5. registered \in BOOLEAN
      BY <3>4, Zenon
    <3> QED BY <2>1, <2>2, <2>3, <3>1, <3>3, <3>5 DEF TypeOK
  <2>5. PipesListen /\ ListenPlace /\ MenuPlace
    BY <2>1, <2>2 DEF PipesListen, ListenPlace, MenuPlace
  <2>6. RowsMatch
    BY <2>1, <2>3 DEF RowsMatch
  <2>7. Cardinality(IdlePipes(connections)) \in Nat
    BY <2>2, IdleFinite
  <2> QED BY <2>1, <2>4, <2>5, <2>6, <2>7 DEF IInv, Counted
<1>2. IInv /\ [Next]_vars => IInv'
  <2> SUFFICES ASSUME IInv, [Next]_vars PROVE IInv'
    OBVIOUS
  <2>1. CASE UNCHANGED vars
    <3>1. UNCHANGED <<connections, numIdlePipes, listen, registered, rows, menu, locks>>
      BY <2>1 DEF vars
    <3> QED BY <3>1, NothingMoves, ClientStep
  <2>2. CASE Listen
    BY <2>2, AddPipeStep, AcceptClientStep, RejectClientStep, ReadMessageStep,
       PollConnectionStep, ReadAfterReplyStep, MessageReceivedStep, StartRemovalStep,
       RemovePipeStep, ClientDisconnectedStep, ClientConnectedStep, InformReloadStep
       DEF Listen
  <2>3. CASE Menu
    BY <2>3, MenuKeeps
  <2>4. CASE \E client \in Clients : OpenPipe(client)
    BY <2>4, OpenPipeStep
  <2>5. ASSUME NEW i \in DOMAIN connections,
               TimeOut(i) \/ ClientWrites(i) \/ ClientReads(i) \/ ClosePipe(i)
        PROVE  IInv'
    BY <2>5, TimeOutStep, ClientCalls
  <2> QED BY <2>1, <2>2, <2>3, <2>4, <2>5 DEF Next
<1> QED BY <1>1, <1>2, PTL DEF Spec

\* The variables hold what they may hold, and each lock is held just where its
\* thread says so.
THEOREM TypeCorrect == Spec => []TypeOK
BY Invariance, PTL DEF IInv

\* A row of the menu shows what came from the connection with its index.
THEOREM RowsBelong == Spec => []RowsAreOfTheirConnections
<1>1. IInv => RowsAreOfTheirConnections
  BY DEF IInv, RowsMatch, OfRow, RowsAreOfTheirConnections
<1> QED BY <1>1, Invariance, PTL

\* The menu goes on listening: there are at least as many pipes to come through
\* as it counts.
THEOREM IdlePipesSuffice == Spec => []IdlePipesNotOvercounted
<1>1. IInv => IdlePipesNotOvercounted
  <2> SUFFICES ASSUME IInv PROVE IdlePipesNotOvercounted
    OBVIOUS
  <2> DEFINE K == {i \in DOMAIN connections : ~connections[i].connected
                                                /\ ~connections[i].shuttingDown}
  <2>1. connections \in Seq(Connection)
    BY DEF IInv, TypeOK
  <2>2. IsFiniteSet(1 .. Len(connections)) /\ K \in SUBSET (1 .. Len(connections))
    BY <2>1, FS_Interval
  <2>3. IsFiniteSet(K)
    BY <2>2, FS_Subset
  <2>4. IdlePipes(connections) \in SUBSET K
    BY DEF IdlePipes, Idle, Taken
  <2>5. Cardinality(IdlePipes(connections)) <= Cardinality(K)
    BY <2>3, <2>4, FS_Subset
  <2>6. Cardinality(K) \in Nat /\ Cardinality(IdlePipes(connections)) \in Nat
    BY <2>1, <2>3, IdleFinite, FS_CardinalityType
  <2> HIDE DEF K
  <2>7. numIdlePipes <= Cardinality(K)
    BY <2>5, <2>6 DEF IInv, TypeOK, Counted
  <2> QED BY <2>7 DEF IdlePipesNotOvercounted, K
<1> QED BY <1>1, Invariance, PTL
=============================================================================
