--------------------------- MODULE ManagementConsole ---------------------------
(***************************************************************************)
(* The sessions of the SSH console of internal/usb/ssh.go and what they    *)
(* share: the one terminal c.term, which the newest session replaces, the  *)
(* output of the log package, and the age plugin object of                 *)
(* internal/age/plugin.go.                                                 *)
(*                                                                         *)
(* Sessions are numbered in the order in which they are opened, and the    *)
(* terminal of a session has its number; 0 is no terminal, or stdout for   *)
(* the log.  What a command does to the card or to the token is the        *)
(* subject of other modules.                                               *)
(***************************************************************************)
EXTENDS Naturals

CONSTANT MaxSessions  \* bound on the channels opened between two restarts

ASSUME ConsoleAssumption == MaxSessions \in Nat

Sessions == 1..MaxSessions

(***************************************************************************)
(* Commands by what they do with the session: end it, print a result,      *)
(* return an error that is logged, prompt on the terminal, run the age     *)
(* identity state machine or the PKCS#11 RPC over the connection.  In a    *)
(* firmware without SNVS `age-plugin identity-v1' is a "print".            *)
(***************************************************************************)
Lines == {"exit", "print", "unknown", "unlock", "identity-v1", "rpc"}

VARIABLES
    server,   \* accept loop: "accept" or "handshake"
    clients,  \* some client has authenticated
    opened,   \* channels opened so far
    conn,     \* channel of each session: "none", "open" or "closed"
    mode,     \* what it is for: "none" (yet), "shell", "exec" or "forward"
    pc,       \* the goroutine that serves the session, see below
    cmd,      \* the command it executes
    on,       \* the terminal it reads from
    term,     \* c.term
    log,      \* the terminal that log output goes to besides stdout
    io,       \* the connection that the age plugin talks to
    alone     \* history: no other session alive, nor opened, since this began

(***************************************************************************)
(* pc: "none"; "starting" (goroutine of a shell created); "next" (before   *)
(* c.term.ReadLine), "read" (in it); "command" (in handleCommand),         *)
(* "prompt" (in ReadPassword), "serve" (RPC or plugin talk to the client), *)
(* "print" (before the result is printed); "closing" (before the deferred  *)
(* log.SetOutput); "ended".                                                *)
(***************************************************************************)

mvars == <<server, clients, opened, conn, mode, pc, cmd, on, term, log, io, alone>>

At(s, there) == pc' = [pc EXCEPT ![s] = there]

Running(s) == pc[s] \notin {"none", "ended"}

Alive(s) == conn[s] = "open" \/ Running(s)

ConsoleInit ==
    /\ server = "accept" /\ clients = FALSE /\ opened = 0
    /\ conn = [s \in Sessions |-> "none"]
    /\ mode = [s \in Sessions |-> "none"]
    /\ pc = [s \in Sessions |-> "none"]
    /\ cmd = [s \in Sessions |-> "print"]
    /\ on = [s \in Sessions |-> 0]
    /\ term = 0 /\ log = 0 /\ io = 0
    /\ alone = [s \in Sessions |-> FALSE]

\* The `reboot' command, or a power cut.
Restart ==
    /\ server' = "accept" /\ clients' = FALSE /\ opened' = 0
    /\ conn' = [s \in Sessions |-> "none"]
    /\ mode' = [s \in Sessions |-> "none"]
    /\ pc' = [s \in Sessions |-> "none"]
    /\ cmd' = [s \in Sessions |-> "print"]
    /\ on' = [s \in Sessions |-> 0]
    /\ term' = 0 /\ log' = 0 /\ io' = 0
    /\ alone' = [s \in Sessions |-> FALSE]

(***************************************************************************)
(* The server                                                              *)
(***************************************************************************)

\* The accept loop itself performs the handshake with each client.
Accept ==
    /\ server = "accept"
    /\ server' = "handshake"
    /\ UNCHANGED <<clients, opened, conn, mode, pc, cmd, on, term, log, io, alone>>

\* It succeeds for the one authorized key; either way the loop goes on.
NewServerConn(ok) ==
    /\ server = "handshake"
    /\ server' = "accept"
    /\ clients' = (clients \/ ok)
    /\ UNCHANGED <<opened, conn, mode, pc, cmd, on, term, log, io, alone>>

Mut_handleSession_LocalTerm(s) ==
    /\ conn' = [conn EXCEPT ![s] = "open"]
    /\ term' = term

\* handleSession: the new terminal becomes the terminal of the console.
handleSession(s) ==
    /\ conn' = [conn EXCEPT ![s] = "open"]
    /\ term' = s

\* An authenticated client opens a session, on a connection of its own or not.
Open ==
    LET s == opened + 1 IN
    /\ clients /\ s \in Sessions
    /\ opened' = s
    /\ handleSession(s)
    /\ alone' = [r \in Sessions |->
                   r = s /\ \A q \in Sessions : mode[q] = "forward" \/ ~Alive(q)]
    /\ UNCHANGED <<server, clients, mode, pc, cmd, on, log, io>>

\* A direct-tcpip channel is `rpc' whatever it asks for, and has no terminal.
handleDirectForward ==
    LET s == opened + 1 IN
    /\ clients /\ s \in Sessions
    /\ opened' = s
    /\ conn' = [conn EXCEPT ![s] = "open"]
    /\ mode' = [mode EXCEPT ![s] = "forward"]
    /\ cmd' = [cmd EXCEPT ![s] = "rpc"]
    /\ At(s, "command")
    /\ UNCHANGED <<server, clients, on, term, log, io, alone>>

\* The client, or its connection, goes away.
Disconnect(s) ==
    /\ conn[s] = "open"
    /\ conn' = [conn EXCEPT ![s] = "closed"]
    /\ UNCHANGED <<server, clients, opened, mode, pc, cmd, on, term, log, io, alone>>

\* A "shell" request starts the goroutine of handleTerminal.
RequestShell(s) ==
    /\ conn[s] = "open" /\ mode[s] = "none"
    /\ mode' = [mode EXCEPT ![s] = "shell"]
    /\ At(s, "starting")
    /\ UNCHANGED <<server, clients, opened, conn, cmd, on, term, log, io, alone>>

\* An "exec" request executes its command; "exit" and errors make no
\* difference, the connection is closed afterwards.  Clients ask once for what a
\* channel is for, as RFC 4254 has it.
RequestExec(s, line) ==
    /\ conn[s] = "open" /\ mode[s] = "none"
    /\ mode' = [mode EXCEPT ![s] = "exec"]
    /\ cmd' = [cmd EXCEPT ![s] = line]
    /\ At(s, "command")
    /\ UNCHANGED <<server, clients, opened, conn, on, term, log, io, alone>>

(***************************************************************************)
(* handleTerminal                                                          *)
(***************************************************************************)

StartTerminal(s) ==
    /\ pc[s] = "starting"
    /\ log' = term
    /\ At(s, "next")
    /\ UNCHANGED <<server, clients, opened, conn, mode, cmd, on, term, io, alone>>

\* ReadLine is called on the terminal that c.term is now.
NextLine(s) ==
    /\ pc[s] = "next"
    /\ on' = [on EXCEPT ![s] = term]
    /\ At(s, "read")
    /\ UNCHANGED <<server, clients, opened, conn, mode, cmd, term, log, io, alone>>

\* A line typed in the session of the terminal that s reads from.
ReadLine(s, line) ==
    /\ pc[s] = "read" /\ conn[on[s]] = "open"
    /\ cmd' = [cmd EXCEPT ![s] = line]
    /\ At(s, "command")
    /\ UNCHANGED <<server, clients, opened, conn, mode, on, term, log, io, alone>>

\* Any other error of ReadLine is logged, and the loop goes on.
ReadLine_Error(s) ==
    /\ pc[s] = "read" /\ conn[on[s]] = "open"
    /\ At(s, "next")
    /\ UNCHANGED <<server, clients, opened, conn, mode, cmd, on, term, log, io, alone>>

Mut_ReadLine_EOF_Continue(s) ==
    /\ pc[s] = "read"
    /\ At(s, "next")
    /\ UNCHANGED <<server, clients, opened, conn, mode, cmd, on, term, log, io, alone>>

\* io.EOF, of a connection that is gone or for a Ctrl-C or Ctrl-D: the loop ends
\* and closes its own connection, s.
ReadLine_EOF(s) ==
    /\ pc[s] = "read"
    /\ conn' = [conn EXCEPT ![s] = "closed"]
    /\ At(s, "closing")
    /\ UNCHANGED <<server, clients, opened, mode, cmd, on, term, log, io, alone>>

Mut_CloseTerminal_KeepLog(s) ==
    /\ pc[s] = "closing"
    /\ At(s, "ended")
    /\ UNCHANGED <<server, clients, opened, conn, mode, cmd, on, term, io, alone, log>>

\* The deferred log.SetOutput(os.Stdout) comes after conn.Close.
CloseTerminal(s) ==
    /\ pc[s] = "closing"
    /\ log' = 0
    /\ At(s, "ended")
    /\ UNCHANGED <<server, clients, opened, conn, mode, cmd, on, term, io, alone>>

(***************************************************************************)
(* handleCommand                                                           *)
(***************************************************************************)

\* What follows a command: a shell reads on, an exec closes its connection.
Return(s) ==
    \/ /\ mode[s] = "shell"
       /\ At(s, "next")
       /\ UNCHANGED conn
    \/ /\ mode[s] # "shell"
       /\ At(s, "ended")
       /\ conn' = [conn EXCEPT ![s] = "closed"]

\* An unknown command returns an error and prints nothing.
CommandError(s) ==
    /\ pc[s] = "command" /\ cmd[s] = "unknown"
    /\ Return(s)
    /\ UNCHANGED <<server, clients, opened, mode, cmd, on, term, log, io, alone>>

\* Most commands leave a result, perhaps an empty one; unlock does when the card
\* cannot be initialized.
CommandResult(s) ==
    /\ pc[s] = "command"
    /\ cmd[s] \in {"exit", "print", "unlock"}
    /\ At(s, "print")
    /\ UNCHANGED <<server, clients, opened, conn, mode, cmd, on, term, log, io, alone>>

\* unlock asks for its passphrase on the terminal that c.term is now.
CommandPrompt(s) ==
    /\ pc[s] = "command" /\ cmd[s] = "unlock"
    /\ on' = [on EXCEPT ![s] = term]
    /\ At(s, "prompt")
    /\ UNCHANGED <<server, clients, opened, conn, mode, cmd, term, log, io, alone>>

\* The passphrase is typed, or the terminal is closed.
ReadPassword(s) ==
    /\ pc[s] = "prompt"
    /\ At(s, "print")
    /\ UNCHANGED <<server, clients, opened, conn, mode, cmd, on, term, log, io, alone>>

Mut_identity_NoSetIO(s) ==
    /\ pc[s] = "command" /\ cmd[s] = "identity-v1"
    /\ io' = IF io = 0 THEN s ELSE io
    /\ At(s, "serve")
    /\ UNCHANGED <<server, clients, opened, conn, mode, cmd, on, term, log, alone>>

\* The plugin, one object for all sessions, is given the connection.
identity(s) ==
    /\ pc[s] = "command" /\ cmd[s] = "identity-v1"
    /\ io' = s
    /\ At(s, "serve")
    /\ UNCHANGED <<server, clients, opened, conn, mode, cmd, on, term, log, alone>>

ServeRPC(s) ==
    /\ pc[s] = "command" /\ cmd[s] = "rpc"
    /\ At(s, "serve")
    /\ UNCHANGED <<server, clients, opened, conn, mode, cmd, on, term, log, io, alone>>

\* The protocol ends, at the latest when the connection does; rpc returns from
\* handleCommand at once, the plugin leaves a result to print.
Served(s) ==
    /\ pc[s] = "serve"
    /\ \/ cmd[s] = "rpc" /\ Return(s)
       \/ cmd[s] # "rpc" /\ At(s, "print") /\ UNCHANGED conn
    /\ UNCHANGED <<server, clients, opened, mode, cmd, on, term, log, io, alone>>

\* The result is printed to c.term; "exit" then ends the loop of a shell.
PrintResult(s) ==
    /\ pc[s] = "print"
    /\ \/ /\ cmd[s] = "exit" /\ mode[s] = "shell"
          /\ conn' = [conn EXCEPT ![s] = "closed"]
          /\ At(s, "closing")
       \/ /\ ~(cmd[s] = "exit" /\ mode[s] = "shell")
          /\ Return(s)
    /\ UNCHANGED <<server, clients, opened, mode, cmd, on, term, log, io, alone>>

-----------------------------------------------------------------------------

\* What the device does by itself in a session.
SessionStep(s) ==
    \/ StartTerminal(s) \/ NextLine(s) \/ CloseTerminal(s)
    \/ CommandError(s) \/ CommandResult(s) \/ CommandPrompt(s)
    \/ identity(s) \/ ServeRPC(s) \/ PrintResult(s)

\* What ends by itself once the client is gone.
ClientGone(s) ==
    \/ pc[s] = "read" /\ conn[on[s]] # "open" /\ ReadLine_EOF(s)
    \/ pc[s] = "prompt" /\ conn[on[s]] # "open" /\ ReadPassword(s)
    \/ pc[s] = "serve" /\ conn[s] # "open" /\ Served(s)

ConsoleNext ==
    \/ Restart
    \/ Accept \/ (\E ok \in BOOLEAN : NewServerConn(ok))
    \/ Open \/ handleDirectForward
    \/ \E s \in Sessions :
        \/ Disconnect(s)
        \/ RequestShell(s)
        \/ \E line \in Lines : RequestExec(s, line) \/ ReadLine(s, line)
        \/ ReadLine_Error(s) \/ ReadLine_EOF(s)
        \/ ReadPassword(s)
        \/ Served(s)
        \/ SessionStep(s)

ConsoleSpec == ConsoleInit /\ [][ConsoleNext]_mvars

\* Goroutines are scheduled; nothing is assumed of clients but that a closed
\* connection is noticed.
FairConsoleSpec ==
    /\ ConsoleSpec
    /\ \A s \in Sessions : WF_mvars(SessionStep(s)) /\ WF_mvars(ClientGone(s))

(***************************************************************************)
(* Properties                                                              *)
(***************************************************************************)

\* The type invariant, and that c.term is not nil once a session may use it.
ConsoleTypeOK ==
    /\ server \in {"accept", "handshake"}
    /\ clients \in BOOLEAN
    /\ opened \in 0..MaxSessions
    /\ conn \in [Sessions -> {"none", "open", "closed"}]
    /\ mode \in [Sessions -> {"none", "shell", "exec", "forward"}]
    /\ pc \in [Sessions -> {"none", "starting", "next", "read", "command",
                            "prompt", "serve", "print", "closing", "ended"}]
    /\ cmd \in [Sessions -> Lines]
    /\ on \in [Sessions -> 0..opened]
    /\ term \in 0..opened
    /\ log \in 0..opened
    /\ io \in 0..opened
    /\ alone \in [Sessions -> BOOLEAN]
    /\ \A s \in Sessions :
          /\ conn[s] # "none" /\ mode[s] # "forward" => term # 0
          /\ pc[s] \in {"read", "prompt"} => on[s] # 0

\* A session that has the console to itself, with every goroutine of earlier
\* sessions gone, is served by its own terminal: its lines and its passphrase
\* are read from it, results and log output go to it, and the age plugin talks
\* to its connection.  Forwarded channels do not disturb it.
OwnTerminal ==
    \A s \in Sessions : alone[s] /\ Running(s) =>
        /\ term = s
        /\ pc[s] \in {"read", "prompt"} => on[s] = s
        /\ mode[s] = "shell" /\ pc[s] # "starting" => log = s
        /\ pc[s] = "serve" /\ cmd[s] = "identity-v1" => io = s

\* Log output is never left on the terminal of a session that is over: when
\* the last shell has ended, in whatever order shells began and ended, it is
\* back to stdout alone.
LogReturns ==
    (\A s \in Sessions : mode[s] = "shell" => pc[s] \in {"starting", "ended"})
        => log = 0

\* Once all clients are gone every goroutine of the console ends, also those
\* that read from the terminal of another session, unless a new one comes.
LoopsEnd ==
    (\A s \in Sessions : conn[s] # "open")
        ~> \/ \A s \in Sessions : ~Running(s)
           \/ \E s \in Sessions : conn[s] = "open"

=============================================================================
