------------------------------- MODULE Server -------------------------------
(***************************************************************************)
(* The server process around a connection: main reads the configuration,   *)
(* Server::run listens and starts the threads, the accept handler gives    *)
(* every connection its session, and the session lives as long as somebody *)
(* holds a shared_ptr to it.  The variables of Connection and the last     *)
(* four below are those of one session, whichever it is; the others come   *)
(* and go, send to it, and may keep the threads of the lobbies for good.   *)
(***************************************************************************)
EXTENDS Connection, Integers

CONSTANTS
    Ports,          \* what the file may have for port
    ThreadNumbers,  \* what it may have for numThreads
    Cores,          \* what std::thread::hardware_concurrency may return
    Absent,         \* the key is not there
    MaxTasks        \* bound of the model: messages read and not yet handled

ASSUME ServerAssumption ==
    /\ Ports \subseteq Int \cup {Absent}
    /\ ThreadNumbers \subseteq Int \cup {Absent}
    /\ Cores \subseteq Nat
    /\ MaxTasks \in Nat

VARIABLES
    config,    \* Server::config_, or the settings of the file before
    phase,     \* "loading", "loaded", "listening", "serving" or "down"
    accepts,   \* async_accepts that are pending
    drawing,   \* a createLobby draws for ever, with LobbyContext::mutex_
    connected, \* the peer has not left
    chain,     \* the read chain: "none" before the accept, "reading", "ended"
    tasks,     \* handlers posted to strand_ that have not returned
    listed     \* a Lobby::Player has a weak_ptr to the session

processVars == <<config, phase, accepts, drawing>>
sessionVars == <<connected, chain, tasks, listed>>
allVars == <<vars, processVars, sessionVars>>

ServerInit ==
    /\ Init
    /\ config \in [port : Ports, numThreads : ThreadNumbers, parses : BOOLEAN]
    /\ phase = "loading"
    /\ accepts = 0
    /\ drawing = FALSE
    /\ connected = TRUE
    /\ chain = "none"
    /\ tasks = 0
    /\ listed = FALSE
-----------------------------------------------------------------------------
(* main, Config::loadFromFile, Server::run                                 *)

\* The port is mandatory and fits into the two bytes of a uint16_t.
PortNumbers == 256 * 256
PortValid(port) == port # Absent /\ port >= 0 /\ port < PortNumbers

\* Config::loadFromFile; without a result main returns 1.
LoadFromFile ==
    /\ phase = "loading"
    /\ IF config.parses /\ PortValid(config.port)
       THEN /\ \E n \in Cores :
                   config' = [config EXCEPT
                       !.port = @ % PortNumbers,
                       !.numThreads = IF @ = Absent THEN n ELSE @]
            /\ phase' = "loaded"
       ELSE phase' = "down" /\ UNCHANGED config
    /\ UNCHANGED <<vars, accepts, drawing, sessionVars>>

\* Server's constructor, which throws for a vector of so many threads as a
\* negative number becomes, and the first half of Server::run.
Listen ==
    /\ phase = "loaded"
    /\ IF config.numThreads < 0
       THEN phase' = "down" /\ UNCHANGED accepts
       ELSE phase' = "listening" /\ accepts' = accepts + 1
    /\ UNCHANGED <<vars, config, drawing, sessionVars>>

\* Server::run starts the threads, LobbyContext::run its own.  Both join them,
\* so that without threads run returns, and main with it.
StartThreads ==
    /\ phase = "listening"
    /\ phase' = IF config.numThreads > 0 THEN "serving" ELSE "down"
    /\ UNCHANGED <<vars, config, accepts, drawing, sessionVars>>
-----------------------------------------------------------------------------
(* Server::accept, handleConnection                                        *)

\* Mutant of HandleConnection: accept is called for good connections only.
HandleConnectionOnly(ok) ==
    /\ phase = "serving" /\ accepts > 0
    /\ accepts' = IF ok THEN accepts ELSE accepts - 1
    /\ UNCHANGED <<config, phase, drawing>>

\* An async_accept is done and handleConnection calls accept again.
HandleConnection(ok) ==
    /\ phase = "serving" /\ accepts > 0
    /\ accepts' = (accepts - 1) + 1
    /\ UNCHANGED <<config, phase, drawing>>

\* It is the session the model follows: connection->read().
AcceptThis ==
    /\ chain = "none"
    /\ HandleConnection(TRUE)
    /\ chain' = "reading"
    /\ UNCHANGED <<vars, connected, tasks, listed>>

\* It is another one, or an error.
AcceptOther ==
    /\ \E ok \in BOOLEAN : HandleConnection(ok)
    /\ UNCHANGED <<vars, sessionVars>>

\* The peer has gone between the accept and the handler: remote_endpoint()
\* throws, nobody catches what leaves ioContext_.run(), the process ends.
RemoteEndpointThrows ==
    /\ phase = "serving" /\ accepts > 0
    /\ phase' = "down"
    /\ UNCHANGED <<vars, config, accepts, drawing, sessionVars>>
-----------------------------------------------------------------------------
(* A session and those who hold it                                         *)

\* Mutant of Held: the tasks of writeStrand_ have a plain this.
HeldByChains == chain = "reading" \/ tasks > 0 \/ writes # <<>>

\* Who has a shared_ptr: the read chain, the handlers of its messages, the tasks
\* of writeStrand_ and the writes.  When nobody has one any more the session is
\* destroyed.
Held == chain = "reading" \/ tasks > 0 \/ posted # <<>> \/ writes # <<>>
Destroyed == chain = "ended" /\ ~Held

PeerLeaves ==
    /\ phase = "serving" /\ chain = "reading"
    /\ connected' = FALSE
    /\ UNCHANGED <<vars, processVars, chain, tasks, listed>>

\* ConnectionBase::readBuf: a read returned bytes, and processReadBuf may have
\* posted a message.
ReadSome ==
    /\ phase = "serving" /\ chain = "reading"
    /\ tasks' \in {tasks, tasks + 1} /\ tasks' <= MaxTasks
    /\ UNCHANGED <<vars, processVars, connected, chain, listed>>

\* Mutant of ReadError: read() is called in any case.
ReadErrorAndRead ==
    /\ phase = "serving" /\ chain = "reading" /\ ~connected
    /\ UNCHANGED allVars

\* ConnectionBase::readBuf with an error returns without another read.
ReadError ==
    /\ phase = "serving" /\ chain = "reading" /\ ~connected
    /\ chain' = "ended"
    /\ UNCHANGED <<vars, processVars, connected, tasks, listed>>

\* processMessage returns; it may have put the session into a list of players
\* or taken it out.
HandlerReturns ==
    /\ phase = "serving" /\ tasks > 0
    /\ tasks' = tasks - 1
    /\ listed' \in BOOLEAN
    /\ UNCHANGED <<vars, processVars, connected, chain>>

\* LobbyContext::createLobby, for this session or another one, finds no name
\* that is not used.  From then on handlers that come to mutex_ wait for ever,
\* and with enough of them no thread is left for the others.
DrawForever ==
    /\ phase = "serving" /\ ~drawing
    /\ drawing' = TRUE
    /\ UNCHANGED <<vars, config, phase, accepts, sessionVars>>

\* sendMessage, by a handler of this session or by that of another one, which
\* has to lock the weak_ptr of the Player.
SessionSend ==
    /\ phase = "serving"
    /\ tasks > 0 \/ (listed /\ Held)
    /\ Send
    /\ UNCHANGED <<processVars, sessionVars>>

\* The tasks of writeStrand_ and the writes.
SessionQueues ==
    /\ phase = "serving"
    /\ QueueMessage
    /\ UNCHANGED <<processVars, sessionVars>>

SessionWrites ==
    /\ phase = "serving"
    /\ \E i \in DOMAIN writes : WritePiece(i) \/ SendDone(i)
    /\ UNCHANGED <<processVars, sessionVars>>

SessionWriteFails ==
    /\ phase = "serving"
    /\ \E i \in DOMAIN writes : FailWrite(i)
    /\ UNCHANGED <<processVars, sessionVars>>
-----------------------------------------------------------------------------
ServerNext ==
    \/ LoadFromFile
    \/ Listen
    \/ StartThreads
    \/ AcceptThis
    \/ AcceptOther
    \/ RemoteEndpointThrows
    \/ ReadSome
    \/ PeerLeaves
    \/ ReadError
    \/ HandlerReturns
    \/ DrawForever
    \/ SessionSend
    \/ SessionQueues
    \/ SessionWrites
    \/ SessionWriteFails

ServerSpec == ServerInit /\ [][ServerNext]_allVars

\* main gets on, and so do the threads of the server with the tasks of
\* writeStrand_ and the writes; the error of a socket whose peer has left is
\* reported.  The threads of the lobbies, which are others, get on with the
\* handlers as long as createLobby finds names; after that a handler may return
\* or not.  Nobody has to connect, to send or to leave.
ServerFairSpec ==
    /\ ServerSpec
    /\ WF_allVars(LoadFromFile \/ Listen \/ StartThreads)
    /\ WF_allVars(ReadError)
    /\ WF_allVars(~drawing /\ HandlerReturns)
    /\ WF_allVars(SessionQueues)
    /\ WF_allVars(SessionWrites)
-----------------------------------------------------------------------------
\* A server that serves listens on the port of the file and has as many threads
\* as the file or the machine says, at least one; and whatever connections do,
\* one async_accept is pending.
Serving ==
    phase = "serving" => /\ config.port \in Ports \ {Absent}
                         /\ config.port \in 0 .. PortNumbers - 1
                         /\ config.numThreads \in ThreadNumbers \cup Cores
                         /\ config.numThreads > 0
                         /\ accepts = 1

\* Nothing touches a session after its last shared_ptr is gone: every task and
\* every completion handler that uses it holds one, and the players' weak_ptrs
\* are locked.
NoUseAfterDestruction == [][Destroyed => UNCHANGED <<vars, sessionVars>>]_allVars

\* A session whose peer has left is destroyed, with all it holds (lobby_ is one
\* of them), unless the process ends before: no shared_ptr to a session is kept
\* by the session itself.  Only the handlers of its messages can keep it for
\* good, when the names are used up and they get no mutex or no thread.
EventuallyDestroyed ==
    ~connected ~> Destroyed \/ phase = "down" \/ (drawing /\ tasks > 0)

\* What was sent goes out, unless a write fails or the process ends, although
\* the read chain may be over long before.
ServerChannel == INSTANCE Channel WITH broken <- failed \/ phase = "down"
SentGoesOut == ServerChannel!FairSpec
=============================================================================
