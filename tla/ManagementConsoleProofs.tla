------------------------ MODULE ManagementConsoleProofs ------------------------
(***************************************************************************)
(* Proofs about ManagementConsole, for any number of sessions.             *)
(***************************************************************************)
EXTENDS ManagementConsole, TLAPS

\* Channels that have not been opened yet.
UnopenedInv ==
    \A s \in Sessions : s > opened =>
        conn[s] = "none" /\ mode[s] = "none" /\ pc[s] = "none"

\* A session that was asked for nothing has no goroutine, and a forwarded
\* channel only serves the RPC.
ModeInv ==
    \A s \in Sessions :
        /\ conn[s] = "none" => mode[s] = "none"
        /\ mode[s] = "none" => pc[s] = "none"
        /\ mode[s] = "forward" => cmd[s] = "rpc" /\ pc[s] \in {"command", "serve", "ended"}
        /\ mode[s] # "shell" => pc[s] \notin {"starting", "next", "read", "closing"}

\* Log output that goes to a terminal is that of a shell that will end.
LogInv ==
    log # 0 => \E s \in Sessions : mode[s] = "shell" /\ pc[s] \notin {"starting", "ended"}

\* Nobody else uses the terminal of a session that has the console to itself.
AloneInv ==
    \A s \in Sessions : alone[s] =>
        /\ term = s
        /\ mode[s] # "forward"
        /\ \A q \in Sessions : q # s => mode[q] = "forward" \/ ~Alive(q)

ConsoleInv ==
    ConsoleTypeOK /\ UnopenedInv /\ ModeInv /\ LogInv /\ AloneInv /\ OwnTerminal

\* The console of a device that has just started.
LEMMA FreshConsole ==
    /\ ConsoleInit => ConsoleInv
    /\ Restart => ConsoleInv'
<1>1. "print" \in Lines
    BY DEF Lines
<1>2. ConsoleInit => ConsoleInv
    <2> SUFFICES ASSUME ConsoleInit PROVE ConsoleInv
        OBVIOUS
    <2>1. alone \in [Sessions -> BOOLEAN] /\ clients \in BOOLEAN
        BY Zenon DEF ConsoleInit
    <2>2. ConsoleTypeOK
        BY <1>1, <2>1, ConsoleAssumption DEF ConsoleInit, ConsoleTypeOK
    <2>3. UnopenedInv /\ ModeInv /\ LogInv /\ AloneInv /\ OwnTerminal
        BY DEF ConsoleInit, UnopenedInv, ModeInv, LogInv, AloneInv, OwnTerminal, Running
    <2> QED
        BY <2>2, <2>3 DEF ConsoleInv
<1>3. Restart => ConsoleInv'
    <2> SUFFICES ASSUME Restart PROVE ConsoleInv'
        OBVIOUS
    <2>1. alone' \in [Sessions -> BOOLEAN] /\ clients' \in BOOLEAN
        BY Zenon DEF Restart
    <2>2. ConsoleTypeOK'
        BY <1>1, <2>1, ConsoleAssumption DEF Restart, ConsoleTypeOK
    <2>3. UnopenedInv' /\ ModeInv' /\ LogInv' /\ AloneInv' /\ OwnTerminal'
        BY DEF Restart, UnopenedInv, ModeInv, LogInv, AloneInv, OwnTerminal, Running
    <2> QED
        BY <2>2, <2>3 DEF ConsoleInv
<1> QED
    BY <1>2, <1>3

\* A new session.
LEMMA OpenStep ==
    ASSUME ConsoleInv, Open
    PROVE  ConsoleInv'
<1> DEFINE s == opened + 1
<1>1. /\ s \in Sessions /\ opened' = s /\ term' = s
      /\ conn' = [conn EXCEPT ![s] = "open"]
      /\ alone' = [r \in Sessions |->
                    r = s /\ \A q \in Sessions : mode[q] = "forward" \/ ~Alive(q)]
      /\ UNCHANGED <<server, clients, mode, pc, cmd, on, log, io>>
    BY DEF Open, handleSession
<1>2. mode[s] = "none" /\ pc[s] = "none"
    BY <1>1, ConsoleAssumption DEF ConsoleInv, ConsoleTypeOK, UnopenedInv, Sessions
<1>3. ConsoleTypeOK'
    BY <1>1, ConsoleAssumption DEF ConsoleInv, ConsoleTypeOK, Sessions
<1>4. UnopenedInv'
    BY <1>1, ConsoleAssumption DEF ConsoleInv, ConsoleTypeOK, UnopenedInv, Sessions
<1>5. ModeInv' /\ LogInv'
    BY <1>1 DEF ConsoleInv, ConsoleTypeOK, ModeInv, LogInv
<1>6. AloneInv'
    BY <1>1, <1>2 DEF ConsoleInv, ConsoleTypeOK, AloneInv, Alive, Running
<1>7. OwnTerminal'
    BY <1>1, <1>2 DEF ConsoleInv, OwnTerminal, Running
<1> QED
    BY <1>3, <1>4, <1>5, <1>6, <1>7 DEF ConsoleInv

\* A forwarded channel.
LEMMA ForwardStep ==
    ASSUME ConsoleInv, handleDirectForward
    PROVE  ConsoleInv'
<1> DEFINE s == opened + 1
<1>1. /\ s \in Sessions /\ opened' = s
      /\ conn' = [conn EXCEPT ![s] = "open"]
      /\ mode' = [mode EXCEPT ![s] = "forward"]
      /\ cmd' = [cmd EXCEPT ![s] = "rpc"]
      /\ pc' = [pc EXCEPT ![s] = "command"]
      /\ UNCHANGED <<server, clients, on, term, log, io, alone>>
    BY DEF handleDirectForward, At
<1>2. mode[s] = "none" /\ term # s
    BY <1>1, ConsoleAssumption DEF ConsoleInv, ConsoleTypeOK, UnopenedInv, Sessions
<1>3. ConsoleTypeOK'
    BY <1>1, ConsoleAssumption DEF ConsoleInv, ConsoleTypeOK, Sessions, Lines
<1>4. UnopenedInv'
    BY <1>1, ConsoleAssumption DEF ConsoleInv, ConsoleTypeOK, UnopenedInv, Sessions
<1>5. ModeInv' /\ LogInv'
    BY <1>1, <1>2 DEF ConsoleInv, ConsoleTypeOK, ModeInv, LogInv
<1>6. AloneInv'
    BY <1>1, <1>2 DEF ConsoleInv, ConsoleTypeOK, AloneInv, Alive, Running
<1>7. OwnTerminal'
    BY <1>1, <1>2 DEF ConsoleInv, ConsoleTypeOK, OwnTerminal, AloneInv, Running
<1> QED
    BY <1>3, <1>4, <1>5, <1>6, <1>7 DEF ConsoleInv

(***************************************************************************)
(* The steps within one session                                            *)
(***************************************************************************)

\* What every one of them has in common: it concerns a session that is alive,
\* changes nothing of the others, and reads from, or gives the log to, no
\* terminal but the one of the console.
Within(s) ==
    /\ Alive(s)
    /\ UNCHANGED <<server, clients, opened, term, alone>>
    /\ \A q \in Sessions : q # s =>
          /\ conn'[q] = conn[q] /\ mode'[q] = mode[q] /\ pc'[q] = pc[q]
          /\ cmd'[q] = cmd[q] /\ on'[q] = on[q]
    /\ mode'[s] # mode[s] => mode[s] = "none" /\ mode'[s] # "forward"
    /\ conn'[s] = "none" => mode'[s] = "none"
    /\ mode'[s] = "none" => pc'[s] = "none"
    /\ mode'[s] = "forward" => cmd'[s] = "rpc" /\ pc'[s] \in {"command", "serve", "ended"}
    /\ mode'[s] # "shell" =>
          log' = log /\ pc'[s] \notin {"starting", "next", "read", "closing"}
    /\ log' = log \/ log' = 0 \/ (log' = term /\ pc'[s] = "next")
    /\ mode'[s] = "shell" =>
          \/ pc'[s] = "starting" /\ mode[s] = "none" /\ log' = log
          \/ pc'[s] = "ended" /\ log' = 0
          \/ pc'[s] \notin {"starting", "ended"} /\ log' = term
          \/ /\ pc'[s] \notin {"starting", "ended"} /\ log' = log
             /\ mode[s] = "shell" /\ pc[s] # "starting" /\ Running(s)
    /\ pc'[s] \in {"read", "prompt"} => on'[s] = term
    /\ pc'[s] = "serve" /\ cmd'[s] = "identity-v1" => io' = s
    /\ io' = io \/ (io' = s /\ mode[s] # "forward")

\* Such a step keeps the invariant.
LEMMA WithinStep ==
    ASSUME ConsoleInv, ConsoleTypeOK', NEW s \in Sessions, Within(s)
    PROVE  ConsoleInv'
<1>1. s <= opened
    BY ConsoleAssumption DEF Within, ConsoleInv, ConsoleTypeOK, UnopenedInv, Alive, Running, Sessions
<1>2. UnopenedInv'
    BY <1>1, ConsoleAssumption DEF Within, ConsoleInv, ConsoleTypeOK, UnopenedInv, Sessions
<1>3. ModeInv'
    BY DEF Within, ConsoleInv, ModeInv
<1>4. LogInv'
    BY DEF Within, ConsoleInv, LogInv, ConsoleTypeOK
<1>5. \A r \in Sessions : alone[r] => r = s \/ mode[s] = "forward"
    BY DEF Within, ConsoleInv, AloneInv
<1>6. AloneInv'
    BY <1>5 DEF Within, ConsoleInv, AloneInv, Alive, Running
<1>7. OwnTerminal'
    BY <1>5 DEF Within, ConsoleInv, AloneInv, OwnTerminal, Running
<1> QED
    BY <1>2, <1>3, <1>4, <1>6, <1>7 DEF ConsoleInv

\* Every step of a session but the end of its connection is of that kind.
LEMMA SessionWithin ==
    ASSUME ConsoleInv, NEW s \in Sessions,
           \/ RequestShell(s) \/ ReadLine_Error(s) \/ ReadLine_EOF(s)
           \/ ReadPassword(s) \/ Served(s) \/ SessionStep(s)
           \/ \E line \in Lines : RequestExec(s, line) \/ ReadLine(s, line)
    PROVE  ConsoleTypeOK' /\ Within(s)
<1> USE DEF ConsoleInv, ConsoleTypeOK, ModeInv, Within, Alive, Running, At
<1>1. CASE StartTerminal(s)
    BY <1>1 DEF StartTerminal
<1>2. CASE NextLine(s)
    BY <1>2 DEF NextLine
<1>3. CASE ReadLine_Error(s)
    BY <1>3 DEF ReadLine_Error
<1>4. CASE ReadLine_EOF(s)
    BY <1>4 DEF ReadLine_EOF
<1>5. CASE CloseTerminal(s)
    BY <1>5 DEF CloseTerminal
<1>6. CASE CommandError(s)
    BY <1>6 DEF CommandError, Return
<1>7. CASE CommandResult(s)
    BY <1>7 DEF CommandResult
<1>8. CASE CommandPrompt(s)
    BY <1>8 DEF CommandPrompt
<1>9. CASE ReadPassword(s)
    BY <1>9 DEF ReadPassword
<1>10. CASE identity(s)
    <2>1. s \in 0..opened
        BY <1>10, ConsoleAssumption DEF identity, UnopenedInv, Sessions
    <2> QED
        BY <1>10, <2>1 DEF identity
<1>11. CASE ServeRPC(s)
    BY <1>11 DEF ServeRPC
<1>12. CASE Served(s)
    BY <1>12 DEF Served, Return
<1>13. CASE PrintResult(s)
    BY <1>13 DEF PrintResult, Return
<1>14. CASE RequestShell(s)
    BY <1>14 DEF RequestShell
<1>15. ASSUME NEW line \in Lines, RequestExec(s, line)
      PROVE  ConsoleTypeOK' /\ Within(s)
    BY <1>15 DEF RequestExec
<1>16. ASSUME NEW line \in Lines, ReadLine(s, line)
      PROVE  ConsoleTypeOK' /\ Within(s)
    BY <1>16 DEF ReadLine
<1> QED
    BY <1>1, <1>2, <1>3, <1>4, <1>5, <1>6, <1>7, <1>8, <1>9, <1>10, <1>11, <1>12, <1>13, <1>14, <1>15, <1>16 DEF SessionStep

\* A connection ends; nothing else changes.
LEMMA DisconnectStep ==
    ASSUME ConsoleInv, NEW s \in Sessions, Disconnect(s)
    PROVE  ConsoleInv'
<1>1. /\ conn[s] = "open" /\ conn' = [conn EXCEPT ![s] = "closed"]
      /\ UNCHANGED <<server, clients, opened, mode, pc, cmd, on, term, log, io, alone>>
    BY DEF Disconnect
<1>2. ConsoleTypeOK' /\ UnopenedInv'
    BY <1>1 DEF ConsoleInv, ConsoleTypeOK, UnopenedInv
<1>3. ModeInv' /\ LogInv' /\ OwnTerminal'
    BY <1>1 DEF ConsoleInv, ConsoleTypeOK, ModeInv, LogInv, OwnTerminal, Running
<1>4. AloneInv'
    BY <1>1 DEF ConsoleInv, ConsoleTypeOK, AloneInv, Alive, Running
<1> QED
    BY <1>2, <1>3, <1>4 DEF ConsoleInv

\* The accept loop has nothing to do with the sessions.
LEMMA AcceptStep ==
    ASSUME ConsoleInv,
           \/ Accept \/ UNCHANGED mvars
           \/ \E ok \in BOOLEAN : NewServerConn(ok)
    PROVE  ConsoleInv'
<1>1. UNCHANGED <<opened, conn, mode, pc, cmd, on, term, log, io, alone>>
    BY DEF Accept, NewServerConn, mvars
<1>2. server' \in {"accept", "handshake"}
    BY DEF Accept, NewServerConn, mvars, ConsoleInv, ConsoleTypeOK
<1>3. clients' \in BOOLEAN
    <2>1. CASE Accept \/ UNCHANGED mvars
        BY <2>1, Zenon DEF Accept, mvars, ConsoleInv, ConsoleTypeOK
    <2>2. CASE \E ok \in BOOLEAN : NewServerConn(ok)
        BY <2>2, Zenon DEF NewServerConn
    <2> QED
        BY <2>1, <2>2
<1>4. ConsoleTypeOK' /\ UnopenedInv'
    BY <1>1, <1>2, <1>3 DEF ConsoleInv, ConsoleTypeOK, UnopenedInv
<1>5. ModeInv' /\ LogInv' /\ AloneInv' /\ OwnTerminal'
    BY <1>1 DEF ConsoleInv, ModeInv, LogInv, AloneInv, OwnTerminal, Alive, Running
<1> QED
    BY <1>4, <1>5 DEF ConsoleInv

\* Every step keeps the invariant.
LEMMA NextConsole ==
    ASSUME ConsoleInv, [ConsoleNext]_mvars
    PROVE  ConsoleInv'
<1>1. CASE Restart
    BY <1>1, FreshConsole
<1>2. CASE \/ Accept \/ UNCHANGED mvars
           \/ \E ok \in BOOLEAN : NewServerConn(ok)
    BY <1>2, AcceptStep
<1>3. CASE Open
    BY <1>3, OpenStep
<1>4. CASE handleDirectForward
    BY <1>4, ForwardStep
<1>5. ASSUME NEW s \in Sessions, Disconnect(s) PROVE ConsoleInv'
    BY <1>5, DisconnectStep
<1>6. ASSUME NEW s \in Sessions,
             \/ RequestShell(s) \/ ReadLine_Error(s) \/ ReadLine_EOF(s)
             \/ ReadPassword(s) \/ Served(s) \/ SessionStep(s)
             \/ \E line \in Lines : RequestExec(s, line) \/ ReadLine(s, line)
      PROVE  ConsoleInv'
    BY <1>6, SessionWithin, WithinStep
<1> QED
    BY <1>1, <1>2, <1>3, <1>4, <1>5, <1>6 DEF ConsoleNext

\* The invariant holds of every reachable state.
LEMMA ConsoleInvariant == ConsoleSpec => []ConsoleInv
    BY FreshConsole, NextConsole, PTL DEF ConsoleSpec

\* The variables keep the ranges that the code gives them, and c.term is not nil
\* where handleTerminal, lockCommand and the requests of a session use it.
THEOREM ConsoleTypes == ConsoleSpec => []ConsoleTypeOK
<1>1. ConsoleInv => ConsoleTypeOK
    BY DEF ConsoleInv
<1> QED
    BY <1>1, ConsoleInvariant, PTL

\* Of any number of sessions (internal/usb/ssh.go), one that is alone with the
\* console has its own terminal for its lines, its passphrases, its results
\* and the log, and its own connection for the age plugin.
THEOREM AloneOwnsTerminal == ConsoleSpec => []OwnTerminal
<1>1. ConsoleInv => OwnTerminal
    BY DEF ConsoleInv
<1> QED
    BY <1>1, ConsoleInvariant, PTL

\* The deferred log.SetOutput(os.Stdout) of handleTerminal: once the last shell
\* has ended, of any number and in any order, no terminal gets log output.
THEOREM LogIsReturned == ConsoleSpec => []LogReturns
<1>1. ConsoleInv => LogReturns
    BY DEF ConsoleInv, LogInv, LogReturns
<1> QED
    BY <1>1, ConsoleInvariant, PTL

================================================================================
