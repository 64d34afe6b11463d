------------------------------ MODULE CCIDReader ------------------------------
(***************************************************************************)
(* The USB smart card reader: internal/ccid between the two CCID endpoints *)
(* of internal/usb/smartcard.go, and the CPU frequency that its commands   *)
(* raise (internal/icc/wake.go).                                           *)
(*                                                                         *)
(* The USB stack runs one goroutine per endpoint.  The OUT goroutine takes *)
(* a message from the host and calls CCIDRx, which hands its response over *)
(* through an unbuffered channel; the IN goroutine polls CCIDTx and        *)
(* transmits what it gets, until the host has read it.  While the OUT      *)
(* goroutine is in CCIDRx the host's next message waits on the bus.        *)
(***************************************************************************)
EXTENDS Naturals, Sequences, FiniteSets

CONSTANTS
    MaxCommands,  \* bound on the commands a host sends between power cycles
    SeqModulus,   \* bSeq is a byte that the host counts up: 256
    MaxGiveUps,   \* commands a host gives up in a row before it stops trying
    SleepTimeout  \* in ticks of the model's clock, 60 s in the code

ASSUME ReaderAssumption ==
    /\ MaxCommands \in Nat
    /\ SeqModulus \in Nat \ {0}
    /\ MaxGiveUps \in Nat
    /\ MaxGiveUps < SeqModulus
    /\ SleepTimeout \in Nat \ {0}

(***************************************************************************)
(* A CCID message, by what Rx and the handlers tell apart.                 *)
(* type : bMessageType, with the three parameter commands as one           *)
(* whole: it has all the bytes of its command structure                    *)
(* level: wLevelParameter is zero (for XFR_BLOCK)                          *)
(* apdu : RawCommand returns a response, not an error (for XFR_BLOCK)      *)
(***************************************************************************)
Types == {"ICC_POWER_ON", "ICC_POWER_OFF", "GET_SLOT_STATUS", "XFR_BLOCK",
          "GET_PARAMETERS", "unsupported", "empty"}

Message == [type: Types, whole: BOOLEAN, level: BOOLEAN, apdu: BOOLEAN]

\* The messages a host sends: only an XFR_BLOCK has the last two choices, and
\* ICC_POWER_ON stands for the commands that may lack bytes.
Messages ==
    {m \in Message : /\ m.type # "XFR_BLOCK" => m.level /\ m.apdu
                     /\ ~m.whole => m.type = "ICC_POWER_ON"}

\* A command is a message with its place in the order of sending.
Command == [msg: Message, n: Nat]
NoMessage == [type |-> "empty", whole |-> TRUE, level |-> TRUE, apdu |-> TRUE]
NoCommand == [msg |-> NoMessage, n |-> 0]

\* The host numbers its commands with a byte; bSlot is always that of the one
\* slot and left out.
bSeq(n) == n % SeqModulus

Response == [type: {"DATA_BLOCK", "SLOT_STATUS", "PARAMETERS"},
             Seq: 0..(SeqModulus - 1), Status: {"ok", "FAILED"}]
NoResponse == [type |-> "none", Seq |-> 0, Status |-> "ok"]

VARIABLES
    host,     \* "idle", "writing" or "reading"
    sent,     \* commands the host has begun to send
    msg,      \* the message of the last one
    givenUp,  \* history: commands given up since the last good response
    out,      \* OUT goroutine: "rx", "handling" or "queue" (blocked sending)
    outCmd, outRes,
    in,       \* IN goroutine: "poll" or "tx"
    inCmd, inRes,
    last,     \* the response the host read last
    freq,     \* ARM frequency, "max" or "low"
    awake,    \* card.awake
    timers    \* timers armed by Wake, as the ticks they have left

hostVars == <<host, sent, msg, givenUp>>
outVars  == <<out, outCmd, outRes>>
inVars   == <<in, inCmd, inRes>>
cpu      == <<freq, awake, timers>>
rvars    == <<hostVars, outVars, inVars, last, cpu>>

\* gokey_imx6.go sets the highest frequency at boot without calling Wake.
ReaderInit ==
    /\ host = "idle" /\ sent = 0 /\ msg = NoMessage /\ givenUp = 0
    /\ out = "rx" /\ outCmd = NoCommand /\ outRes = NoResponse
    /\ in = "poll" /\ inCmd = NoCommand /\ inRes = NoResponse
    /\ last = NoResponse
    /\ freq = "max" /\ awake = FALSE /\ timers = {}

\* The device is unplugged and started again, by a host that starts over.
PowerCycle ==
    /\ host' = "idle" /\ sent' = 0 /\ msg' = NoMessage /\ givenUp' = 0
    /\ out' = "rx" /\ outCmd' = NoCommand /\ outRes' = NoResponse
    /\ in' = "poll" /\ inCmd' = NoCommand /\ inRes' = NoResponse
    /\ last' = NoResponse
    /\ freq' = "max" /\ awake' = FALSE /\ timers' = {}

(***************************************************************************)
(* Wake, under the mutex of the card                                       *)
(***************************************************************************)

Mut_Wake_NoCheck ==
    /\ freq' = "max"
    /\ awake' = TRUE
    /\ timers' = timers \cup {SleepTimeout}

Wake ==
    \/ /\ awake
       /\ UNCHANGED cpu
    \/ /\ ~awake
       /\ freq' = "max"
       /\ awake' = TRUE
       /\ timers' = timers \cup {SleepTimeout}

Mut_Sleep_KeepAwake(t) ==
    /\ t = 0
    /\ timers' = timers \ {0}
    /\ freq' = "low"
    /\ UNCHANGED <<awake, hostVars, outVars, inVars, last>>

\* The function given to time.AfterFunc.
Sleep(t) ==
    /\ t = 0
    /\ timers' = timers \ {0}
    /\ freq' = "low"
    /\ awake' = FALSE
    /\ UNCHANGED <<hostVars, outVars, inVars, last>>

\* Time passes; a timer that is due runs before the next tick.
Tick ==
    /\ timers # {} /\ 0 \notin timers
    /\ timers' = {t - 1 : t \in timers}
    /\ UNCHANGED <<freq, awake, hostVars, outVars, inVars, last>>

\* The SSH server wakes the card on every connection.
AcceptSSH ==
    /\ Wake
    /\ UNCHANGED <<hostVars, outVars, inVars, last>>

(***************************************************************************)
(* CCID.Rx and the handlers of the commands                                *)
(***************************************************************************)

Mut_Reply_NoSeq(type, cmd, status) ==
    [type |-> type, Seq |-> 0, Status |-> status]

Mut_Reply_WideSeq(type, cmd, status) ==
    [type |-> type, Seq |-> cmd.n, Status |-> status]

\* Every response copies bSeq from its command.
Reply(type, cmd, status) ==
    [type |-> type, Seq |-> bSeq(cmd.n), Status |-> status]

IccPowerOn(cmd) == Reply("DATA_BLOCK", cmd, "ok")

IccPowerOff(cmd) == Reply("SLOT_STATUS", cmd, "ok")

GetSlotStatus(cmd) == Reply("SLOT_STATUS", cmd, "ok")

GetParameters(cmd) == Reply("PARAMETERS", cmd, "ok")

\* An error of RawCommand leaves the command without response.
XfrBlock(cmd) ==
    CASE ~cmd.msg.level -> Reply("DATA_BLOCK", cmd, "FAILED")
      [] cmd.msg.level /\ cmd.msg.apdu -> Reply("DATA_BLOCK", cmd, "ok")
      [] OTHER -> NoResponse

\* NoResponse stands for an error.
Rx(cmd) ==
    IF cmd.msg.type \in {"unsupported", "empty"} \/ ~cmd.msg.whole
    THEN NoResponse
    ELSE CASE cmd.msg.type = "ICC_POWER_ON"    -> IccPowerOn(cmd)
           [] cmd.msg.type = "ICC_POWER_OFF"   -> IccPowerOff(cmd)
           [] cmd.msg.type = "GET_SLOT_STATUS" -> GetSlotStatus(cmd)
           [] cmd.msg.type = "XFR_BLOCK"       -> XfrBlock(cmd)
           [] cmd.msg.type = "GET_PARAMETERS"  -> GetParameters(cmd)

(***************************************************************************)
(* The OUT endpoint                                                        *)
(***************************************************************************)

\* CCIDRx is called with the message the host is writing: Rx wakes the card
\* and then executes the command.
CCIDRx ==
    /\ host = "writing" /\ out = "rx"
    /\ host' = "reading"
    /\ out' = "handling"
    /\ outCmd' = [msg |-> msg, n |-> sent]
    /\ outRes' = NoResponse
    /\ IF msg.type \in {"GET_SLOT_STATUS", "empty"} THEN UNCHANGED cpu ELSE Wake
    /\ UNCHANGED <<sent, msg, givenUp, inVars, last>>

\* The handler returns: with an error CCIDRx returns too, otherwise it blocks
\* in queue <- in.
CCIDRx_Handled ==
    /\ out = "handling"
    /\ outRes' = Rx(outCmd)
    /\ out' = IF outRes' = NoResponse THEN "rx" ELSE "queue"
    /\ outCmd' = IF outRes' = NoResponse THEN NoCommand ELSE outCmd
    /\ UNCHANGED <<hostVars, inVars, last, cpu>>

(***************************************************************************)
(* The IN endpoint                                                         *)
(***************************************************************************)

Mut_CCIDTx_Overwrite ==
    /\ out = "queue"
    /\ in' = "tx"
    /\ inCmd' = outCmd /\ inRes' = outRes
    /\ out' = "rx"
    /\ outCmd' = NoCommand /\ outRes' = NoResponse
    /\ UNCHANGED <<hostVars, last, cpu>>

Mut_CCIDTx_Never == FALSE /\ UNCHANGED rvars

\* CCIDTx receives from a sender that is blocked, else it returns nothing and
\* is called again; the endpoint then holds the response until it is read.
CCIDTx ==
    /\ in = "poll" /\ out = "queue"
    /\ in' = "tx"
    /\ inCmd' = outCmd /\ inRes' = outRes
    /\ out' = "rx"
    /\ outCmd' = NoCommand /\ outRes' = NoResponse
    /\ UNCHANGED <<hostVars, last, cpu>>

(***************************************************************************)
(* The host, external.  It writes a command, then reads until it finds the *)
(* response with the Seq of that command or nothing more comes; it may     *)
(* give up a command that the device does not take or does not answer, and *)
(* goes on with the next one.                                              *)
(***************************************************************************)

HostWrite(m) ==
    /\ host = "idle"
    /\ sent < MaxCommands
    /\ host' = "writing"
    /\ sent' = sent + 1
    /\ msg' = m
    /\ UNCHANGED <<givenUp, outVars, inVars, last, cpu>>

Matches == inRes.Seq = bSeq(sent)

HostRead ==
    /\ host = "reading" /\ in = "tx"
    /\ in' = "poll"
    /\ inCmd' = NoCommand /\ inRes' = NoResponse
    /\ last' = inRes
    /\ host' = IF Matches THEN "idle" ELSE "reading"
    /\ givenUp' = IF Matches THEN 0 ELSE givenUp
    /\ UNCHANGED <<sent, msg, outVars, cpu>>

\* A read ends without a response only while there is nothing to read.
HostGiveUp ==
    /\ host = "writing" \/ (host = "reading" /\ in = "poll")
    /\ givenUp < MaxGiveUps
    /\ givenUp' = givenUp + 1
    /\ host' = "idle"
    /\ UNCHANGED <<sent, msg, outVars, inVars, last, cpu>>

-----------------------------------------------------------------------------

ReaderNext ==
    \/ PowerCycle
    \/ \E t \in timers : Sleep(t)
    \/ Tick
    \/ AcceptSSH
    \/ CCIDRx
    \/ CCIDRx_Handled
    \/ CCIDTx
    \/ \E m \in Messages : HostWrite(m)
    \/ HostRead
    \/ HostGiveUp

ReaderSpec == ReaderInit /\ [][ReaderNext]_rvars

\* The goroutines of both endpoints are scheduled, time passes and due timers
\* run, and a host that waits reads what there is to read.
FairReaderSpec ==
    /\ ReaderSpec
    /\ WF_rvars(CCIDRx) /\ WF_rvars(CCIDRx_Handled) /\ WF_rvars(CCIDTx)
    /\ WF_rvars(Tick) /\ WF_rvars(\E t \in timers : Sleep(t))
    /\ WF_rvars(HostRead)

(***************************************************************************)
(* Properties                                                              *)
(***************************************************************************)

\* The type invariant.
ReaderTypeOK ==
    /\ host \in {"idle", "writing", "reading"}
    /\ sent \in 0..MaxCommands
    /\ msg \in Message
    /\ givenUp \in 0..MaxGiveUps
    /\ out \in {"rx", "handling", "queue"}
    /\ outCmd \in Command
    /\ outRes \in Response \cup {NoResponse}
    /\ in \in {"poll", "tx"}
    /\ inCmd \in Command
    /\ inRes \in Response \cup {NoResponse}
    /\ last \in Response \cup {NoResponse}
    /\ freq \in {"max", "low"}
    /\ awake \in BOOLEAN
    /\ timers \subseteq 0..SleepTimeout

\* The response that a waiting host takes for its own, by its Seq, is the
\* response to the command it sent last, also after commands it gave up and
\* whose late responses are still in the device.
SeqIdentifies ==
    host = "reading" /\ in = "tx" /\ Matches => inCmd.n = sent

\* Wake arms one timer when it raises the frequency and none before that one
\* has run, so that the CPU slows down only once nothing is pending.
OneTimer ==
    /\ Cardinality(timers) <= 1
    /\ awake <=> timers # {}
    /\ freq = "low" => timers = {}

\* Commands of the device, oldest first.
inDevice ==
    (IF in = "tx" THEN <<inCmd>> ELSE <<>>)
      \o (IF out # "rx" THEN <<outCmd>> ELSE <<>>)

(***************************************************************************)
(* The answers that CCID Rev1.1, Table 6.2-1, assigns to the commands; the *)
(* reference that the handlers are compared with.                          *)
(***************************************************************************)
AnswerableCommands ==
    {c \in [msg: Messages, n: 0..MaxCommands] :
        /\ c.msg.whole
        /\ c.msg.type \notin {"unsupported", "empty"}
        /\ c.msg.type = "XFR_BLOCK" => (c.msg.level => c.msg.apdu)}

Assigned ==
    [c \in AnswerableCommands |->
        [type   |-> CASE c.msg.type \in {"ICC_POWER_ON", "XFR_BLOCK"} -> "DATA_BLOCK"
                      [] c.msg.type = "GET_PARAMETERS" -> "PARAMETERS"
                      [] OTHER -> "SLOT_STATUS",
         Seq    |-> c.n % SeqModulus,
         Status |-> IF c.msg.level THEN "ok" ELSE "FAILED"]]

Link == INSTANCE ReaderLink WITH
            Commands <- [msg: Messages, n: 0..MaxCommands],
            Answerable <- AnswerableCommands, AnswerOf <- Assigned,
            NoAnswer <- NoResponse, Capacity <- 2,
            pending <- inDevice, delivered <- last

\* The reader is a link of capacity two: every command that CCIDRx takes and
\* that deserves an answer gets the assigned one, in order, with its own Seq.
RefinesLink == Link!LinkSpec

\* A host that waits for the answer to an answerable command does not wait
\* forever, whatever late responses it has to read first.
Answered ==
    (host = "reading" /\ [msg |-> msg, n |-> sent] \in AnswerableCommands)
        ~> host # "reading"

\* A card that was woken goes back to low power, or is unplugged.
FallsAsleep == awake ~> ~awake

=============================================================================
