------------------------------ MODULE U2FToken ------------------------------
(***************************************************************************)
(* The U2F token of internal/u2f and the console commands that act on it:  *)
(* token initialization, the user presence test and the signature counter. *)
(*                                                                         *)
(* The USB stack handles one U2F request at a time, in a goroutine of its  *)
(* own; the console sessions run concurrently with it.  A request tests    *)
(* for presence, then increments the counter, then answers with its value. *)
(***************************************************************************)
EXTENDS Integers

CONSTANTS
    TokenBuilds,  \* firmware configurations to consider
    Consoles,     \* console sessions
    MaxChannels,  \* bound on presence channels made between two restarts
    MaxCounter    \* bound on the stored counter, a uint32 in the code

(***************************************************************************)
(* model     : what usbarmory.Model() reports: BETA has an ATECC608A, the  *)
(*             later boards count on the eMMC                              *)
(* keys      : U2F keys are bundled, so that initToken is called           *)
(* ssh       : a console is configured                                     *)
(* initAtBoot: false only when bundled with SNVS=ssh                       *)
(***************************************************************************)
TokenBuild == [model: {"BETA", "GAMMA", "unknown"}, keys: BOOLEAN,
               ssh: BOOLEAN, initAtBoot: BOOLEAN]

ASSUME TokenAssumption ==
    /\ TokenBuilds \subseteq TokenBuild
    /\ \A b \in TokenBuilds : ~b.initAtBoot => b.ssh
    /\ MaxChannels \in Nat
    /\ MaxCounter \in Nat

VARIABLES
    build,
    stored,       \* the hardware counter, which survives restarts
    up,           \* the firmware runs
    initialized,
    Presence,     \* token.Presence, 0 for nil
    channels,     \* channels made since the restart, named 1..channels
    current,      \* presence channel of the Counter in use
    initializing, \* Init() in progress by session, with the channel it took
    pc,           \* progress of the U2F request
    channel,      \* presence channel of the Counter serving the request
    present,      \* result of the presence test
    cnt,          \* counter value of the request
    blinking,     \* the goroutine that blinks the white LED exists
    sent,         \* history: the last counter value a request answered with
    confirmed     \* history: `p' was accepted since the request began

request == <<pc, channel, present, cnt, blinking, confirmed>>
token   == <<initialized, Presence, channels, current, initializing>>
uvars   == <<build, stored, up, token, request, sent>>

None == -1      \* no Init() in progress

TokenInit ==
    /\ build \in TokenBuilds
    /\ stored = 0
    /\ up = FALSE
    /\ initialized = FALSE
    /\ Presence = 0
    /\ channels = 0
    /\ current = 0
    /\ initializing = [s \in Consoles |-> None]
    /\ pc = "idle"
    /\ channel = 0
    /\ present = FALSE
    /\ cnt = 0
    /\ blinking = FALSE
    /\ sent = 0
    /\ confirmed = FALSE

\* token.Init succeeds: keyring and token take the new Counter.
Publish(ch) ==
    /\ current' = ch
    /\ initialized' = TRUE

\* main(): with initAtBoot the token is initialized without a channel.  ok
\* tells whether the counter hardware and the key derivation respond.
Boot(ok) ==
    /\ ~up
    /\ up' = TRUE
    /\ \/ /\ build.keys /\ build.initAtBoot /\ ok
          /\ Publish(0)
       \/ /\ ~(build.keys /\ build.initAtBoot /\ ok)
          /\ UNCHANGED <<current, initialized>>
    /\ UNCHANGED <<build, stored, Presence, channels, initializing, request,
                   sent>>

\* The `reboot' command or a power cut, at any point.
Restart ==
    /\ up
    /\ up' = FALSE
    /\ initialized' = FALSE
    /\ Presence' = 0
    /\ channels' = 0
    /\ current' = 0
    /\ initializing' = [s \in Consoles |-> None]
    /\ pc' = "idle"
    /\ channel' = 0
    /\ present' = FALSE
    /\ cnt' = 0
    /\ blinking' = FALSE
    /\ confirmed' = FALSE
    /\ UNCHANGED <<build, stored, sent>>

(***************************************************************************)
(* Console commands                                                        *)
(***************************************************************************)

Console(s) == up /\ build.ssh /\ initializing[s] = None

\* Init() takes token.Presence and then waits for the counter hardware; it
\* fails at once without a keyring.
BeginInit(s, ch) ==
    initializing' = IF build.keys THEN [initializing EXCEPT ![s] = ch]
                    ELSE initializing

\* `u2f'
u2f(s) ==
    /\ Console(s)
    /\ channels < MaxChannels
    /\ channels' = channels + 1
    /\ Presence' = channels + 1
    /\ BeginInit(s, channels + 1)
    /\ UNCHANGED <<build, stored, up, initialized, current, request, sent>>

\* `u2f !test'
u2f_NoTest(s) ==
    /\ Console(s)
    /\ Presence' = 0
    /\ BeginInit(s, 0)
    /\ UNCHANGED <<build, stored, up, initialized, channels, current, request,
                   sent>>

\* The counter hardware or the key derivation may fail; an unknown board model
\* does not count as a failure.
EndInit(s) ==
    /\ up
    /\ initializing[s] # None
    /\ initializing' = [initializing EXCEPT ![s] = None]
    /\ \/ Publish(initializing[s])
       \/ UNCHANGED <<current, initialized>>
    /\ UNCHANGED <<build, stored, up, Presence, channels, request, sent>>

\* `p' sends without blocking: unless a request waits on the very channel
\* that token.Presence holds now, it only prints that it is not expected.
Waits(ch) == pc = "select" /\ channel = ch

p(s) ==
    /\ Console(s)
    /\ initialized /\ Presence # 0
    /\ Waits(Presence)
    /\ present' = TRUE
    /\ confirmed' = TRUE
    /\ pc' = "join"
    /\ UNCHANGED <<build, stored, up, token, channel, cnt, blinking, sent>>

(***************************************************************************)
(* A U2F request                                                           *)
(***************************************************************************)

Mut_BeginRequest_StalePresence ==
    /\ up /\ initialized /\ pc = "idle"
    /\ channel' = current
    /\ confirmed' = FALSE
    /\ present' = (present \/ current = 0)
    /\ pc' = IF current = 0 THEN "increment" ELSE "prompt"
    /\ blinking' = (current # 0)
    /\ UNCHANGED <<build, stored, up, token, cnt, sent>>

\* UserPresence() is called on the Counter in use; without a channel presence
\* is assumed, otherwise the LED starts blinking and a prompt is logged.
BeginRequest ==
    /\ up /\ initialized /\ pc = "idle"
    /\ channel' = current
    /\ confirmed' = FALSE
    /\ present' = (current = 0)
    /\ pc' = IF current = 0 THEN "increment" ELSE "prompt"
    /\ blinking' = (current # 0)
    /\ UNCHANGED <<build, stored, up, token, cnt, sent>>

\* The prompt has been written to the console; the select begins.
Prompted ==
    /\ pc = "prompt"
    /\ pc' = "select"
    /\ UNCHANGED <<build, stored, up, token, channel, present, cnt, blinking,
                   sent, confirmed>>

Mut_Timeout_NoJoin ==
    /\ pc = "select"
    /\ pc' = "idle"
    /\ UNCHANGED <<build, stored, up, token, channel, present, cnt, blinking,
                   sent, confirmed>>

Mut_Timeout_Never == FALSE /\ UNCHANGED uvars

\* time.After(timeout) fires.
Timeout ==
    /\ pc = "select"
    /\ pc' = "join"
    /\ UNCHANGED <<build, stored, up, token, channel, present, cnt, blinking,
                   sent, confirmed>>

\* done <- true: the blinking goroutine turns the LED off and returns.
Join ==
    /\ pc = "join"
    /\ blinking
    /\ blinking' = FALSE
    /\ pc' = IF present THEN "increment" ELSE "idle"
    /\ UNCHANGED <<build, stored, up, token, channel, present, cnt, sent,
                   confirmed>>

\* The ATECC608A counts by itself; its answer may be lost.
IncrementATECC(ok) ==
    /\ pc = "increment"
    /\ build.model # "GAMMA"
    /\ stored < MaxCounter
    /\ \/ /\ ok
          /\ stored' = stored + 1
          /\ cnt' = stored + 1
          /\ pc' = "answer"
       \/ /\ ~ok
          /\ stored' \in {stored, stored + 1}
          /\ pc' = "idle"
          /\ UNCHANGED cnt
    /\ UNCHANGED <<build, up, token, channel, present, blinking, sent,
                   confirmed>>

\* The eMMC counter is read, incremented in memory and written back.
ReadBlocks(ok) ==
    /\ pc = "increment"
    /\ build.model = "GAMMA"
    /\ stored < MaxCounter
    /\ \/ ok /\ cnt' = stored + 1 /\ pc' = "write"
       \/ ~ok /\ pc' = "idle" /\ UNCHANGED cnt
    /\ UNCHANGED <<build, stored, up, token, channel, present, blinking, sent,
                   confirmed>>

Mut_WriteBlocks_IgnoreError(ok) ==
    /\ pc = "write"
    /\ stored' \in {stored, cnt}
    /\ pc' = "answer"
    /\ UNCHANGED <<build, up, token, channel, present, cnt, blinking, sent,
                   confirmed>>

\* A write that fails may have reached the block or not.
WriteBlocks(ok) ==
    /\ pc = "write"
    /\ \/ ok /\ stored' = cnt /\ pc' = "answer"
       \/ ~ok /\ stored' \in {stored, cnt} /\ pc' = "idle"
    /\ UNCHANGED <<build, up, token, channel, present, cnt, blinking, sent,
                   confirmed>>

\* The signed answer carries the value that Increment returned.
Answer ==
    /\ pc = "answer"
    /\ sent' = cnt
    /\ pc' = "idle"
    /\ UNCHANGED <<build, stored, up, token, channel, present, cnt, blinking,
                   confirmed>>

-----------------------------------------------------------------------------

\* What the request goroutine does by itself.
RequestStep ==
    \/ Prompted
    \/ Join
    \/ \E ok \in BOOLEAN : IncrementATECC(ok) \/ ReadBlocks(ok) \/ WriteBlocks(ok)
    \/ Answer

TokenNext ==
    \/ \E ok \in BOOLEAN : Boot(ok)
    \/ Restart
    \/ \E s \in Consoles : u2f(s) \/ u2f_NoTest(s) \/ EndInit(s) \/ p(s)
    \/ BeginRequest
    \/ Timeout
    \/ RequestStep

TokenSpec == TokenInit /\ [][TokenNext]_uvars

\* The goroutine of a request and the one that blinks are scheduled, and the
\* timer of the presence test fires.
FairTokenSpec == TokenSpec /\ WF_uvars(RequestStep) /\ WF_uvars(Timeout)

(***************************************************************************)
(* Properties                                                              *)
(***************************************************************************)

\* The type invariant.
TokenTypeOK ==
    /\ build \in TokenBuilds
    /\ stored \in 0..MaxCounter
    /\ up \in BOOLEAN /\ initialized \in BOOLEAN
    /\ channels \in 0..MaxChannels
    /\ Presence \in 0..channels
    /\ current \in 0..channels
    /\ initializing \in [Consoles -> {None} \cup 0..channels]
    /\ pc \in {"idle", "prompt", "select", "join", "increment", "write", "answer"}
    /\ channel \in 0..channels
    /\ present \in BOOLEAN /\ blinking \in BOOLEAN /\ confirmed \in BOOLEAN
    /\ cnt \in 0..MaxCounter
    /\ sent \in 0..MaxCounter

\* Increment is reached only with a presence confirmed by a `p' typed during
\* this very request, unless the request was accepted without a presence test.
PresenceConfirmed ==
    pc \in {"increment", "write", "answer"} /\ channel # 0 => confirmed

\* The blinking goroutine lives exactly as long as the presence test: none is
\* left behind, and `done <- true' always meets its receiver.
BlinkerJoined == blinking <=> pc \in {"prompt", "select", "join"}

\* The counter never falls behind what was answered, and a value about to be
\* answered is already stored and not yet used: with the properties above and
\* the progress of a request, the inductive invariant of the token.
TokenInv ==
    /\ TokenTypeOK /\ PresenceConfirmed /\ BlinkerJoined
    /\ pc \in {"prompt", "select", "join"} /\ present => confirmed
    /\ sent <= stored
    /\ pc = "write" => cnt = stored + 1
    /\ pc = "answer" => sent < cnt /\ cnt <= stored

\* Each answer carries a counter value above the one before, over failed
\* writes, power cuts and reinitializations.
CounterIncreases == [][Answer => sent' > sent]_uvars

\* A presence test ends, by `p' or by its timeout.
PresenceTestEnds == pc \in {"prompt", "select", "join"} ~> ~blinking

=============================================================================
