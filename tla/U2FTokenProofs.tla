--------------------------- MODULE U2FTokenProofs ---------------------------
(***************************************************************************)
(* Proofs about U2FToken: the inductive invariant TokenInv, and from it    *)
(* the properties of the presence test and of the counter.                 *)
(***************************************************************************)
EXTENDS U2FToken, TLAPS

\* TokenInv splits into the flags, the progress of a request, the presence
\* channels and the counter.
FlagsTyped ==
    /\ up \in BOOLEAN /\ initialized \in BOOLEAN
    /\ present \in BOOLEAN /\ blinking \in BOOLEAN /\ confirmed \in BOOLEAN

Progress ==
    /\ build \in TokenBuilds
    /\ pc \in {"idle", "prompt", "select", "join", "increment", "write", "answer"}
    /\ PresenceConfirmed /\ BlinkerJoined
    /\ pc \in {"prompt", "select", "join"} /\ present => confirmed

ChannelsTyped ==
    /\ channels \in 0..MaxChannels
    /\ Presence \in 0..channels
    /\ current \in 0..channels
    /\ initializing \in [Consoles -> {None} \cup 0..channels]
    /\ channel \in 0..channels

CounterOK ==
    /\ stored \in 0..MaxCounter
    /\ cnt \in 0..MaxCounter
    /\ sent \in 0..MaxCounter
    /\ sent <= stored
    /\ pc = "write" => cnt = stored + 1
    /\ pc = "answer" => sent < cnt /\ cnt <= stored

\* The parts make up the inductive invariant.
LEMMA TokenInvParts ==
    TokenInv <=> FlagsTyped /\ Progress /\ ChannelsTyped /\ CounterOK
BY DEF TokenInv, TokenTypeOK, FlagsTyped, Progress, ChannelsTyped, CounterOK

\* The token starts in the invariant.
LEMMA TokenInitInv == TokenInit => TokenInv
<1> SUFFICES ASSUME TokenInit PROVE TokenInv
    OBVIOUS
<1>1. FlagsTyped
    BY DEF TokenInit, FlagsTyped
<1>2. Progress
    BY DEF TokenInit, Progress, PresenceConfirmed, BlinkerJoined
<1>3. ChannelsTyped
    BY TokenAssumption DEF TokenInit, ChannelsTyped, None
<1>4. CounterOK
    BY TokenAssumption DEF TokenInit, CounterOK
<1> QED
    BY <1>1, <1>2, <1>3, <1>4, TokenInvParts

\* The flags stay Boolean.
LEMMA NextTokenFlags ==
    ASSUME FlagsTyped, [TokenNext]_uvars
    PROVE  FlagsTyped'
<1> USE DEF FlagsTyped, token, request, uvars
<1>1. ASSUME NEW ok \in BOOLEAN, Boot(ok) PROVE FlagsTyped'
    BY <1>1, Zenon DEF Boot, Publish
<1>2. CASE Restart
    BY <1>2, Zenon DEF Restart
<1>3. ASSUME NEW s \in Consoles, u2f(s) \/ u2f_NoTest(s) \/ EndInit(s) \/ p(s)
      PROVE  FlagsTyped'
    BY <1>3, Zenon DEF u2f, u2f_NoTest, EndInit, Publish, p
<1>4. CASE BeginRequest
    BY <1>4, Zenon DEF BeginRequest
<1>5. CASE Timeout
    BY <1>5, Zenon DEF Timeout
<1>6. CASE RequestStep
    BY <1>6, Zenon DEF RequestStep, Prompted, Join, IncrementATECC, ReadBlocks,
                       WriteBlocks, Answer
<1>7. CASE UNCHANGED uvars
    BY <1>7, Zenon
<1> QED
    BY <1>1, <1>2, <1>3, <1>4, <1>5, <1>6, <1>7, Zenon DEF TokenNext

\* A request reaches the counter by the presence test only, and the blinking
\* goroutine keeps to it.
LEMMA NextTokenProgress ==
    ASSUME FlagsTyped, Progress, [TokenNext]_uvars
    PROVE  Progress'
<1> USE DEF Progress, PresenceConfirmed, BlinkerJoined, token, request, uvars
<1>1. ASSUME NEW ok \in BOOLEAN, Boot(ok) PROVE Progress'
    BY <1>1, Zenon DEF Boot
<1>2. CASE Restart
    BY <1>2 DEF Restart
<1>3. ASSUME NEW s \in Consoles, u2f(s) \/ u2f_NoTest(s) \/ EndInit(s)
      PROVE  Progress'
    <2>1. UNCHANGED <<build, request>>
        BY <1>3, Zenon DEF u2f, u2f_NoTest, EndInit
    <2> QED
        BY <2>1, Zenon
<1>4. ASSUME NEW s \in Consoles, p(s) PROVE Progress'
    <2>1. blinking' = blinking /\ blinking = TRUE
        BY <1>4, Zenon DEF p, Waits, FlagsTyped
    <2> QED
        BY <1>4, <2>1 DEF p, Waits
<1>5. CASE BeginRequest
    <2>1. CASE current = 0
        BY <1>5, <2>1 DEF BeginRequest
    <2>2. CASE current # 0
        BY <1>5, <2>2 DEF BeginRequest
    <2> QED
        BY <2>1, <2>2
<1>6. CASE Timeout
    BY <1>6 DEF Timeout, FlagsTyped
<1>7. CASE RequestStep
    <2>1. CASE Prompted
        BY <1>7, <2>1 DEF Prompted, FlagsTyped
    <2>2. CASE Join
        <3>1. CASE present
            BY <2>2, <3>1 DEF Join, FlagsTyped
        <3>2. CASE ~present
            BY <2>2, <3>2 DEF Join, FlagsTyped
        <3> QED
            BY <3>1, <3>2
    <2>3. ASSUME NEW ok \in BOOLEAN,
                 IncrementATECC(ok) \/ ReadBlocks(ok) \/ WriteBlocks(ok)
          PROVE  Progress'
        <3>1. /\ pc \in {"increment", "write"}
              /\ pc' \in {"idle", "write", "answer"}
              /\ UNCHANGED <<build, channel, present, blinking, confirmed>>
            BY <2>3 DEF IncrementATECC, ReadBlocks, WriteBlocks
        <3> QED
            BY <3>1 DEF FlagsTyped
    <2>4. CASE Answer
        BY <2>4 DEF Answer, FlagsTyped
    <2> QED
        BY <1>7, <2>1, <2>2, <2>3, <2>4, Zenon DEF RequestStep
<1>8. CASE UNCHANGED uvars
    BY <1>8, Zenon
<1> QED
    BY <1>1, <1>2, <1>3, <1>4, <1>5, <1>6, <1>7, <1>8, Zenon DEF TokenNext

\* Every channel in use was made since the restart.
LEMMA NextTokenChannels ==
    ASSUME ChannelsTyped, [TokenNext]_uvars
    PROVE  ChannelsTyped'
<1> USE TokenAssumption DEF ChannelsTyped, None, token, request, uvars
<1>1. ASSUME NEW ok \in BOOLEAN, Boot(ok) PROVE ChannelsTyped'
    BY <1>1 DEF Boot, Publish
<1>2. CASE Restart
    BY <1>2 DEF Restart
<1>3. ASSUME NEW s \in Consoles, u2f(s) PROVE ChannelsTyped'
    BY <1>3 DEF u2f, BeginInit
<1>4. ASSUME NEW s \in Consoles, u2f_NoTest(s) PROVE ChannelsTyped'
    BY <1>4 DEF u2f_NoTest, BeginInit
<1>5. ASSUME NEW s \in Consoles, EndInit(s) PROVE ChannelsTyped'
    BY <1>5 DEF EndInit, Publish
<1>6. ASSUME NEW s \in Consoles, p(s) PROVE ChannelsTyped'
    BY <1>6 DEF p
<1>7. CASE BeginRequest
    BY <1>7 DEF BeginRequest
<1>8. CASE Timeout \/ RequestStep
    BY <1>8 DEF Timeout, RequestStep, Prompted, Join, IncrementATECC,
                ReadBlocks, WriteBlocks, Answer
<1>9. CASE UNCHANGED uvars
    BY <1>9
<1> QED
    BY <1>1, <1>2, <1>3, <1>4, <1>5, <1>6, <1>7, <1>8, <1>9 DEF TokenNext

\* The counter stays ahead of the answers.
LEMMA NextTokenCounter ==
    ASSUME CounterOK, [TokenNext]_uvars
    PROVE  CounterOK'
<1> USE TokenAssumption DEF CounterOK, token, request, uvars
<1>1. ASSUME NEW ok \in BOOLEAN, Boot(ok) PROVE CounterOK'
    BY <1>1 DEF Boot
<1>2. CASE Restart
    BY <1>2 DEF Restart
<1>3. ASSUME NEW s \in Consoles, u2f(s) \/ u2f_NoTest(s) \/ EndInit(s) \/ p(s)
      PROVE  CounterOK'
    BY <1>3 DEF u2f, u2f_NoTest, EndInit, p
<1>4. CASE BeginRequest \/ Timeout \/ Prompted \/ Join
    BY <1>4 DEF BeginRequest, Timeout, Prompted, Join
<1>5. ASSUME NEW ok \in BOOLEAN, IncrementATECC(ok) PROVE CounterOK'
    BY <1>5 DEF IncrementATECC
<1>6. ASSUME NEW ok \in BOOLEAN, ReadBlocks(ok) PROVE CounterOK'
    BY <1>6 DEF ReadBlocks
<1>7. ASSUME NEW ok \in BOOLEAN, WriteBlocks(ok) PROVE CounterOK'
    BY <1>7 DEF WriteBlocks
<1>8. CASE Answer
    BY <1>8 DEF Answer
<1>9. CASE UNCHANGED uvars
    BY <1>9
<1> QED
    BY <1>1, <1>2, <1>3, <1>4, <1>5, <1>6, <1>7, <1>8, <1>9
    DEF TokenNext, RequestStep

\* The inductive invariant holds throughout, for every set of sessions and
\* firmware builds, every number of channels and every counter.
THEOREM TokenInvariant == TokenSpec => []TokenInv
<1>1. TokenInit => TokenInv
    BY TokenInitInv
<1>2. TokenInv /\ [TokenNext]_uvars => TokenInv'
    <2> SUFFICES ASSUME TokenInv, [TokenNext]_uvars PROVE TokenInv'
        OBVIOUS
    <2>1. FlagsTyped /\ Progress /\ ChannelsTyped /\ CounterOK
        BY TokenInvParts
    <2>2. (FlagsTyped /\ Progress /\ ChannelsTyped /\ CounterOK)'
        BY <2>1, NextTokenFlags, NextTokenProgress, NextTokenChannels,
           NextTokenCounter
    <2> QED
        BY <2>2, TokenInvParts, PTL
<1> QED
    BY <1>1, <1>2, PTL DEF TokenSpec

\* Type correctness of the token.
THEOREM TokenTypes == TokenSpec => []TokenTypeOK
BY TokenInvariant, PTL DEF TokenInv

\* No signature is counted without a presence confirmed during its own
\* request, however many sessions reinitialize the token meanwhile.
THEOREM PresenceSafe == TokenSpec => []PresenceConfirmed
BY TokenInvariant, PTL DEF TokenInv

\* The blinking goroutine lives exactly as long as the presence test.
THEOREM BlinkerSafe == TokenSpec => []BlinkerJoined
BY TokenInvariant, PTL DEF TokenInv

\* The counter values answered increase, over failed writes and power cuts.
THEOREM CounterMonotonic == TokenSpec => CounterIncreases
<1>1. TokenInv /\ [TokenNext]_uvars => [Answer => sent' > sent]_uvars
    BY DEF Answer, TokenInv, TokenTypeOK
<1> QED
    BY <1>1, TokenInvariant, PTL DEF TokenSpec, CounterIncreases

=============================================================================
