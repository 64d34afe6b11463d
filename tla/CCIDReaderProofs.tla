--------------------------- MODULE CCIDReaderProofs ---------------------------
(***************************************************************************)
(* Proofs about CCIDReader: the host identifies its responses, Wake arms   *)
(* one timer, and the reader implements ReaderLink.                        *)
(***************************************************************************)
EXTENDS CCIDReader, Integers, FiniteSetTheorems, SequenceTheorems,
        TLAPS

\* Two numbers that are less than M apart have different remainders.
LEMMA RemainderInjective ==
    ASSUME NEW M \in Nat \ {0}, NEW a \in Nat, NEW b \in Nat,
           a <= b, b - a < M, a % M = b % M
    PROVE  a = b
<1>1. a = M * (a \div M) + (a % M) /\ a \div M \in Int
    OBVIOUS
<1>2. b = M * (b \div M) + (b % M) /\ b \div M \in Int
    OBVIOUS
<1>3. M * ((b \div M) - (a \div M)) = b - a
    BY <1>1, <1>2
<1>4. CASE (b \div M) - (a \div M) >= 1
    BY <1>1, <1>2, <1>3, <1>4
<1>5. CASE (b \div M) - (a \div M) <= -1
    BY <1>1, <1>2, <1>3, <1>5
<1>6. CASE b \div M = a \div M
    BY <1>1, <1>2, <1>6
<1> QED
    BY <1>1, <1>2, <1>4, <1>5, <1>6

(***************************************************************************)
(* The timer of Wake                                                       *)
(***************************************************************************)

\* The timers, as a set with at most one element.
TimerInv ==
    /\ awake \in BOOLEAN
    /\ awake => \E t \in Int : timers = {t}
    /\ ~awake => timers = {}
    /\ freq = "low" => ~awake

\* Wake arms a timer only if there is none.
LEMMA WakeTimer ==
    ASSUME TimerInv, Wake
    PROVE  TimerInv'
<1>1. CASE awake /\ UNCHANGED cpu
    BY <1>1 DEF TimerInv, cpu
<1>2. CASE ~awake /\ freq' = "max" /\ awake' = TRUE
             /\ timers' = timers \cup {SleepTimeout}
    <2>1. timers' = {SleepTimeout} /\ SleepTimeout \in Int
        BY <1>2, ReaderAssumption DEF TimerInv
    <2> QED
        BY <1>2, <2>1 DEF TimerInv
<1> QED
    BY <1>1, <1>2 DEF Wake

\* Every step keeps the timers.
LEMMA NextTimer ==
    ASSUME TimerInv, [ReaderNext]_rvars
    PROVE  TimerInv'
<1> USE DEF TimerInv, cpu
<1>1. CASE PowerCycle
    BY <1>1 DEF PowerCycle
<1>2. ASSUME NEW t \in timers, Sleep(t) PROVE TimerInv'
    BY <1>2 DEF Sleep
<1>3. CASE Tick
    <2>1. awake /\ UNCHANGED <<awake, freq>>
        BY <1>3 DEF Tick
    <2>2. PICK t \in Int : timers = {t}
        BY <2>1
    <2>3. timers' = {t - 1}
        BY <1>3, <2>2 DEF Tick
    <2> QED
        BY <2>1, <2>3
<1>4. CASE AcceptSSH
    BY <1>4, WakeTimer DEF AcceptSSH
<1>5. CASE CCIDRx
    BY <1>5, WakeTimer DEF CCIDRx
<1>6. CASE CCIDRx_Handled \/ CCIDTx \/ HostRead \/ HostGiveUp
           \/ (\E m \in Messages : HostWrite(m)) \/ UNCHANGED rvars
    BY <1>6 DEF CCIDRx_Handled, CCIDTx, HostRead, HostGiveUp, HostWrite, rvars
<1> QED
    BY <1>1, <1>2, <1>3, <1>4, <1>5, <1>6 DEF ReaderNext

\* Wake and its timer never leave two timers, nor a raised frequency without
\* one (internal/icc/wake.go), for any timeout and any sequence of calls.
THEOREM TimerSafe == ReaderSpec => []OneTimer
<1>1. ReaderInit => TimerInv
    BY DEF ReaderInit, TimerInv
<1>2. TimerInv => OneTimer
    <2> SUFFICES ASSUME TimerInv PROVE OneTimer
        OBVIOUS
    <2>1. CASE awake
        <3>1. PICK t \in Int : timers = {t}
            BY <2>1 DEF TimerInv
        <3>2. Cardinality(timers) = 1
            BY <3>1, FS_Singleton
        <3> QED
            BY <2>1, <3>1, <3>2 DEF TimerInv, OneTimer
    <2>2. CASE ~awake
        BY <2>2, FS_EmptySet DEF TimerInv, OneTimer
    <2> QED
        BY <2>1, <2>2 DEF TimerInv
<1> QED
    BY <1>1, <1>2, NextTimer, PTL DEF ReaderSpec

(***************************************************************************)
(* The answers                                                             *)
(***************************************************************************)

\* The commands that can be in the device.
DeviceCommands == [msg: Messages, n: 0..MaxCommands]

\* The handlers answer exactly the answerable commands, as the table of the
\* CCID specification has it.
LEMMA HandlersAnswer ==
    ASSUME NEW c \in DeviceCommands
    PROVE  /\ c \in AnswerableCommands => Rx(c) = Assigned[c] /\ Rx(c) # NoResponse
           /\ c \notin AnswerableCommands => Rx(c) = NoResponse
<1>1. /\ c.msg \in Message
      /\ c.msg.type # "XFR_BLOCK" => c.msg.level /\ c.msg.apdu
    BY DEF DeviceCommands, Messages
<1>2. c \in AnswerableCommands <=>
        /\ c.msg.whole
        /\ c.msg.type \notin {"unsupported", "empty"}
        /\ c.msg.type = "XFR_BLOCK" => (c.msg.level => c.msg.apdu)
    BY DEF AnswerableCommands, DeviceCommands
<1>3. ASSUME c \in AnswerableCommands
      PROVE  Rx(c) = Assigned[c] /\ Rx(c) # NoResponse
    BY <1>1, <1>2, <1>3 DEF Message, Types, Rx, IccPowerOn, IccPowerOff, GetSlotStatus,
        GetParameters, XfrBlock, Reply, bSeq, Assigned, NoResponse
<1>4. ASSUME c \notin AnswerableCommands
      PROVE  Rx(c) = NoResponse
    <2>1. CASE c.msg.type \in {"unsupported", "empty"} \/ ~c.msg.whole
        BY <2>1 DEF Rx
    <2>2. CASE c.msg.whole /\ c.msg.type \notin {"unsupported", "empty"}
        <3>1. c.msg.type = "XFR_BLOCK" /\ c.msg.level /\ ~c.msg.apdu
            BY <1>2, <1>4, <2>2
        <3>2. Rx(c) = XfrBlock(c)
            BY <2>2, <3>1 DEF Rx
        <3> QED
            BY <3>1, <3>2 DEF XfrBlock
    <2> QED
        BY <2>1, <2>2
<1> QED
    BY <1>3, <1>4

(***************************************************************************)
(* The commands in progress                                                *)
(***************************************************************************)

\* How far a command of the device lies behind the last one: no further than
\* the host has given up, and not even that once it waits for the last one.
Recent(n) ==
    /\ n <= sent
    /\ host = "idle" => sent < givenUp + n
    /\ host # "idle" => sent <= givenUp + n
    /\ host = "writing" => n < sent

HostInv ==
    /\ host \in {"idle", "writing", "reading"}
    /\ sent \in 0..MaxCommands
    /\ msg \in Messages
    /\ givenUp \in 0..MaxGiveUps
    /\ last \in Response \cup {NoResponse}

OutInv ==
    /\ out \in {"rx", "handling", "queue"}
    /\ outCmd \in DeviceCommands
    /\ out = "queue" => outCmd \in AnswerableCommands /\ outRes = Assigned[outCmd]
    /\ out # "rx" => Recent(outCmd.n)

InInv ==
    /\ in \in {"poll", "tx"}
    /\ inCmd \in DeviceCommands
    /\ in = "tx" => inCmd \in AnswerableCommands /\ inRes = Assigned[inCmd]
    /\ in = "tx" => Recent(inCmd.n)
    /\ in = "tx" /\ out # "rx" => inCmd.n < outCmd.n

ReaderInv == HostInv /\ OutInv /\ InInv

\* The command of no command can be in the device.
LEMMA NoCommandInDevice == NoCommand \in DeviceCommands
<1>1. NoMessage \in Messages
    BY DEF NoMessage, Messages, Message, Types
<1> QED
    BY <1>1, ReaderAssumption DEF NoCommand, DeviceCommands

\* The assigned answers are responses with the Seq of their command.
LEMMA AssignedResponse ==
    ASSUME NEW c \in AnswerableCommands
    PROVE  Assigned[c] \in Response /\ Assigned[c].Seq = bSeq(c.n)
<1>1. c.n \in Nat /\ c.n % SeqModulus \in 0..(SeqModulus - 1)
    BY ReaderAssumption DEF AnswerableCommands
<1> QED
    BY <1>1 DEF Assigned, Response, bSeq

\* Between the last command and one still in the device lie fewer commands
\* than bSeq has values.
LEMMA ReadsOwn ==
    ASSUME ReaderInv
    PROVE  SeqIdentifies
<1> SUFFICES ASSUME host = "reading", in = "tx", Matches
             PROVE  inCmd.n = sent
    BY DEF SeqIdentifies
<1>1. inCmd.n \in Nat /\ sent \in Nat /\ inCmd.n <= sent /\ sent - inCmd.n < SeqModulus
    BY ReaderAssumption DEF ReaderInv, HostInv, InInv, Recent, DeviceCommands
<1>2. inCmd.n % SeqModulus = sent % SeqModulus
    BY AssignedResponse DEF ReaderInv, InInv, Matches, bSeq
<1> QED
    BY <1>1, <1>2, RemainderInjective, ReaderAssumption

\* A device that has just started.
LEMMA FreshReader ==
    /\ ReaderInit => ReaderInv
    /\ PowerCycle => ReaderInv'
<1>1. ReaderInit => ReaderInv
    BY NoCommandInDevice, ReaderAssumption
       DEF ReaderInit, ReaderInv, HostInv, OutInv, InInv, NoCommand, DeviceCommands
<1>2. PowerCycle => ReaderInv'
    BY NoCommandInDevice, ReaderAssumption
       DEF PowerCycle, ReaderInv, HostInv, OutInv, InInv, NoCommand, DeviceCommands
<1> QED
    BY <1>1, <1>2

\* Every step keeps the invariant.
LEMMA NextReader ==
    ASSUME ReaderInv, [ReaderNext]_rvars
    PROVE  ReaderInv'
<1> USE DEF ReaderInv, hostVars, outVars, inVars
<1>1. CASE PowerCycle
    BY <1>1, FreshReader
<1>2. CASE \/ \E t \in timers : Sleep(t)
           \/ Tick \/ AcceptSSH \/ UNCHANGED rvars
    BY <1>2 DEF Sleep, Tick, AcceptSSH, rvars, HostInv, OutInv, InInv, Recent
<1>3. CASE CCIDRx
    <2>1. HostInv'
        BY <1>3 DEF CCIDRx, HostInv
    <2>2. OutInv'
        BY <1>3, ReaderAssumption DEF CCIDRx, HostInv, OutInv, Recent, DeviceCommands
    <2>3. InInv'
        BY <1>3 DEF CCIDRx, HostInv, InInv, Recent, DeviceCommands
    <2> QED
        BY <2>1, <2>2, <2>3
<1>4. CASE CCIDRx_Handled
    <2>1. HostInv'
        BY <1>4 DEF CCIDRx_Handled, HostInv
    <2>2. OutInv' /\ (out' # "rx" => outCmd' = outCmd)
        BY <1>4, HandlersAnswer, NoCommandInDevice DEF CCIDRx_Handled, OutInv, Recent
    <2>3. InInv'
        BY <1>4, <2>2 DEF CCIDRx_Handled, InInv, Recent
    <2> QED
        BY <2>1, <2>2, <2>3
<1>5. CASE CCIDTx
    BY <1>5, NoCommandInDevice DEF CCIDTx, HostInv, OutInv, InInv, Recent
<1>6. ASSUME NEW m \in Messages, HostWrite(m) PROVE ReaderInv'
    <2>1. HostInv'
        BY <1>6, ReaderAssumption DEF HostWrite, HostInv
    <2>2. OutInv'
        BY <1>6, ReaderAssumption DEF HostWrite, HostInv, OutInv, Recent, DeviceCommands
    <2>3. InInv'
        BY <1>6, ReaderAssumption DEF HostWrite, HostInv, InInv, Recent, DeviceCommands
    <2> QED
        BY <2>1, <2>2, <2>3
<1>7. CASE HostRead
    <2>1. inRes \in Response /\ inRes.Seq = bSeq(inCmd.n)
        BY <1>7, AssignedResponse DEF HostRead, InInv
    <2>2. HostInv'
        BY <1>7, <2>1, ReaderAssumption DEF HostRead, HostInv
    <2>3. InInv'
        BY <1>7, NoCommandInDevice DEF HostRead, InInv
    <2>4. CASE Matches
        <3>1. inCmd.n = sent
            BY <1>7, <2>4, ReadsOwn DEF HostRead, SeqIdentifies
        <3>2. out = "rx"
            BY <1>7, <3>1 DEF HostRead, HostInv, OutInv, InInv, Recent, DeviceCommands
        <3> QED
            BY <1>7, <2>2, <2>3, <3>2 DEF HostRead, OutInv
    <2>5. CASE ~Matches
        BY <1>7, <2>2, <2>3, <2>5 DEF HostRead, OutInv, Recent
    <2> QED
        BY <2>4, <2>5
<1>8. CASE HostGiveUp
    <2>1. HostInv'
        BY <1>8, ReaderAssumption DEF HostGiveUp, HostInv
    <2>2. OutInv'
        BY <1>8, ReaderAssumption DEF HostGiveUp, HostInv, OutInv, Recent, DeviceCommands
    <2>3. InInv'
        BY <1>8, ReaderAssumption DEF HostGiveUp, HostInv, InInv, Recent, DeviceCommands
    <2> QED
        BY <2>1, <2>2, <2>3
<1> QED
    BY <1>1, <1>2, <1>3, <1>4, <1>5, <1>6, <1>7, <1>8 DEF ReaderNext

\* The invariant holds of every reachable state.
LEMMA ReaderInvariant == ReaderSpec => []ReaderInv
    BY FreshReader, NextReader, PTL DEF ReaderSpec

\* A host that counts bSeq up and gives up fewer commands in a row than bSeq
\* has values never takes a late response (a blocked queue <- in of CCIDRx, or
\* one on the IN endpoint) for the one it waits for.
THEOREM OwnResponse == ReaderSpec => []SeqIdentifies
    BY ReaderInvariant, ReadsOwn, PTL

(***************************************************************************)
(* Types                                                                   *)
(***************************************************************************)

\* The conjuncts of the type invariant that ReaderInv does not have.
RestInv ==
    /\ outRes \in Response \cup {NoResponse}
    /\ inRes \in Response \cup {NoResponse}
    /\ freq \in {"max", "low"}
    /\ timers \subseteq 0..SleepTimeout

\* Wake arms a timer of SleepTimeout.
LEMMA WakeRest ==
    ASSUME Wake, timers \subseteq 0..SleepTimeout, freq \in {"max", "low"}
    PROVE  timers' \subseteq 0..SleepTimeout /\ freq' \in {"max", "low"}
<1>1. CASE UNCHANGED cpu
    BY <1>1 DEF cpu
<1>2. CASE freq' = "max" /\ timers' = timers \cup {SleepTimeout}
    <2>1. SleepTimeout \in 0..SleepTimeout
        BY ReaderAssumption
    <2> QED
        BY <1>2, <2>1
<1> QED
    BY <1>1, <1>2 DEF Wake

\* Every step keeps the types.
LEMMA NextRest ==
    ASSUME ReaderInv, RestInv, [ReaderNext]_rvars
    PROVE  RestInv'
<1> USE DEF RestInv, outVars, inVars, cpu
<1>1. CASE PowerCycle
    BY <1>1 DEF PowerCycle
<1>2. ASSUME NEW t \in timers, Sleep(t) PROVE RestInv'
    BY <1>2 DEF Sleep
<1>3. CASE Tick
    <2>1. \A t \in timers : t - 1 \in 0..SleepTimeout
        BY <1>3, ReaderAssumption DEF Tick
    <2> QED
        BY <1>3, <2>1 DEF Tick
<1>4. CASE AcceptSSH
    BY <1>4, WakeRest DEF AcceptSSH
<1>5. CASE CCIDRx
    BY <1>5, WakeRest DEF CCIDRx
<1>6. CASE CCIDRx_Handled
    <2>1. outRes' \in Response \cup {NoResponse}
        BY <1>6, HandlersAnswer, AssignedResponse DEF CCIDRx_Handled, ReaderInv, OutInv
    <2> QED
        BY <1>6, <2>1 DEF CCIDRx_Handled
<1>7. CASE CCIDTx \/ HostRead \/ HostGiveUp
           \/ (\E m \in Messages : HostWrite(m)) \/ UNCHANGED rvars
    BY <1>7 DEF CCIDTx, HostRead, HostGiveUp, HostWrite, rvars
<1> QED
    BY <1>1, <1>2, <1>3, <1>4, <1>5, <1>6, <1>7 DEF ReaderNext

\* The variables keep the ranges that their declarations in the code give them.
THEOREM ReaderTypes == ReaderSpec => []ReaderTypeOK
<1>1. ReaderInit => TimerInv /\ RestInv
    BY DEF ReaderInit, TimerInv, RestInv
<1>2. ReaderInv /\ RestInv /\ TimerInv => ReaderTypeOK
    BY ReaderAssumption DEF ReaderInv, HostInv, OutInv, InInv, RestInv, TimerInv,
       ReaderTypeOK, Messages, DeviceCommands, Command
<1> QED
    BY <1>1, <1>2, ReaderInvariant, NextTimer, NextRest, PTL DEF ReaderSpec

(***************************************************************************)
(* The reader implements the link                                          *)
(***************************************************************************)

\* The commands in progress, by what the two goroutines hold; the same holds
\* after a step.
LEMMA TwoInDevice ==
    /\ in = "tx" /\ out # "rx"   => inDevice = <<inCmd, outCmd>>
    /\ in = "tx" /\ out = "rx"   => inDevice = <<inCmd>>
    /\ in = "poll" /\ out # "rx" => inDevice = <<outCmd>>
    /\ in = "poll" /\ out = "rx" => inDevice = <<>>
    /\ in' = "tx" /\ out' = "rx"   => inDevice' = <<inCmd'>>
    /\ in' = "poll" /\ out' # "rx" => inDevice' = <<outCmd'>>
    /\ in' = "poll" /\ out' = "rx" => inDevice' = <<>>
<1>1. ASSUME NEW a, NEW b PROVE <<a>> \o <<b>> = <<a, b>>
    <2>1. <<a>> \in Seq({a, b}) /\ <<b>> \in Seq({a, b}) /\ <<a, b>> \in Seq({a, b})
        OBVIOUS
    <2>2. Len(<<a>> \o <<b>>) = 2 /\ Len(<<a, b>>) = 2
        BY <2>1
    <2>3. (<<a>> \o <<b>>)[1] = a /\ (<<a>> \o <<b>>)[2] = b
        BY <2>1
    <2>4. <<a>> \o <<b>> \in Seq({a, b})
        BY <2>1
    <2>5. \A i \in 1..2 : (<<a>> \o <<b>>)[i] = <<a, b>>[i]
        BY <2>3
    <2> QED
        BY <2>1, <2>2, <2>4, <2>5, SeqEqual, Zenon
<1>2. ASSUME NEW a PROVE <<a>> \o <<>> = <<a>> /\ <<>> \o <<a>> = <<a>>
    OBVIOUS
<1>3. <<>> \o <<>> = <<>>
    OBVIOUS
<1> QED
    BY <1>1, <1>2, <1>3, Zenon DEF inDevice

\* A step of the reader is a step of the link, or leaves it alone.
LEMMA StepOfLink ==
    ASSUME ReaderInv, [ReaderNext]_rvars
    PROVE  [Link!LinkNext]_(Link!lvars)
<1> USE DEF ReaderInv, hostVars, outVars, inVars, Link!lvars
<1>1. CASE PowerCycle
    BY <1>1 DEF PowerCycle, inDevice, Link!LinkNext, Link!Unplug
<1>2. CASE \/ \E t \in timers : Sleep(t)
           \/ Tick \/ AcceptSSH \/ UNCHANGED rvars
           \/ HostGiveUp \/ \E m \in Messages : HostWrite(m)
    BY <1>2 DEF Sleep, Tick, AcceptSSH, rvars, HostGiveUp, HostWrite, inDevice
<1>3. CASE CCIDRx
    <2> DEFINE c == [msg |-> msg, n |-> sent]
    <2>1. c \in [msg: Messages, n: 0..MaxCommands]
        BY DEF HostInv
    <2>2. Len(inDevice) < 2 /\ inDevice' = Append(inDevice, c)
        BY <1>3, <2>1 DEF CCIDRx, inDevice, InInv
    <2>3. last' = last
        BY <1>3 DEF CCIDRx
    <2> QED
        BY <2>1, <2>2, <2>3 DEF Link!LinkNext, Link!Take
<1>4. CASE CCIDRx_Handled
    <2>1. CASE outCmd \in AnswerableCommands
        BY <1>4, <2>1, HandlersAnswer DEF CCIDRx_Handled, OutInv, inDevice
    <2>2. CASE outCmd \notin AnswerableCommands
        <3>1. out = "handling" /\ out' = "rx" /\ UNCHANGED <<in, inCmd, last>>
            BY <1>4, <2>2, HandlersAnswer DEF CCIDRx_Handled, OutInv
        <3>2. /\ inDevice # <<>>
              /\ inDevice[Len(inDevice)] = outCmd
              /\ inDevice' = SubSeq(inDevice, 1, Len(inDevice) - 1)
            <4>1. CASE in = "tx"
                <5>1. inDevice = <<inCmd, outCmd>> /\ inDevice' = <<inCmd>>
                    BY <3>1, <4>1, TwoInDevice
                <5> QED
                    BY <5>1 DEF InInv, OutInv
            <4>2. CASE in = "poll"
                <5>1. inDevice = <<outCmd>> /\ inDevice' = <<>>
                    BY <3>1, <4>2, TwoInDevice
                <5> QED
                    BY <5>1 DEF OutInv
            <4> QED
                BY <4>1, <4>2 DEF InInv
        <3> QED
            BY <2>2, <3>1, <3>2 DEF Link!LinkNext, Link!Drop
    <2> QED
        BY <2>1, <2>2
<1>5. CASE CCIDTx
    BY <1>5 DEF CCIDTx, inDevice
<1>6. CASE HostRead
    <2>1. /\ in = "tx" /\ in' = "poll" /\ UNCHANGED <<out, outCmd>>
          /\ inCmd \in AnswerableCommands /\ last' = Assigned[inCmd]
        BY <1>6 DEF HostRead, InInv
    <2>2. inDevice # <<>> /\ Head(inDevice) = inCmd /\ inDevice' = Tail(inDevice)
        <3>1. CASE out = "rx"
            <4>1. inDevice = <<inCmd>> /\ inDevice' = <<>>
                BY <2>1, <3>1, TwoInDevice
            <4> QED
                BY <4>1
        <3>2. CASE out # "rx"
            <4>1. inDevice = <<inCmd, outCmd>> /\ inDevice' = <<outCmd>>
                BY <2>1, <3>2, TwoInDevice
            <4> QED
                BY <4>1
        <3> QED
            BY <3>1, <3>2
    <2> QED
        BY <2>1, <2>2 DEF Link!LinkNext, Link!Deliver
<1> QED
    BY <1>1, <1>2, <1>3, <1>4, <1>5, <1>6 DEF ReaderNext

\* CCIDRx, the unbuffered queue and CCIDTx together are a link of capacity two:
\* commands are answered in their order, each with the answer that belongs to
\* it, and the ones that end in an error are dropped without an answer.
THEOREM ReaderImplementsLink == ReaderSpec => RefinesLink
<1>1. ReaderInit => Link!LinkInit
    BY DEF ReaderInit, Link!LinkInit, inDevice
<1> QED
    BY <1>1, ReaderInvariant, StepOfLink, PTL DEF ReaderSpec, RefinesLink, Link!LinkSpec

=============================================================================
