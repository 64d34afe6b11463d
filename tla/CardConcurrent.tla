---------------------------- MODULE CardConcurrent ----------------------------
(***************************************************************************)
(* The inside of the calls into the card of internal/icc.  OpenPGPCard     *)
(* takes each call as one step; here a call is cut where the goroutine     *)
(* that runs it lets others run: while the coprocessor derives a key or    *)
(* the hardware makes random numbers, and while log output is written,     *)
(* which with a console session open goes to the SSH terminal.  Nothing    *)
(* but Wake takes the mutex of the card.                                   *)
(*                                                                         *)
(* The callers are the OUT endpoint of the reader, which executes one APDU *)
(* after the other, and the console sessions.  The card is one bundled     *)
(* with SNVS=ssh whose signature and decryption keys are distinct, present *)
(* and have a passphrase; OpenPGPCard covers the other shapes of keys.     *)
(***************************************************************************)
EXTENDS Integers, Sequences, FiniteSets

CONSTANTS
    Sessions,                  \* console sessions
    usb,                       \* the OUT endpoint of the reader
    DEFAULT_PW1_ERROR_COUNTER

ASSUME ConcurrentAssumption ==
    /\ IsFiniteSet(Sessions)
    /\ usb \notin Sessions
    /\ DEFAULT_PW1_ERROR_COUNTER \in 1..255

Callers == Sessions \cup {usb}

PWs == {"PW1_CDS", "PW1"}

\* A Verify call to come: PW_LOCK, or PW_VERIFY with a passphrase.
Call == [pw: PWs, act: {"lock", "right", "wrong"}]

VARIABLES
    ArmoredKey,       \* "wrapped", "plain" or "nil"
    initialized,
    open,             \* password references whose key is not Encrypted
    errorCounterPW1,
    blue, white,      \* LEDs
    blinking,         \* a U2F presence test blinks the white LED
    pc,               \* where each caller is
    todo,             \* Verify calls that it has left
    arg,              \* ArmoredKey as Init passed it to snvs.Decrypt
    wrong,            \* history: wrong passphrases tried, with no right one
    inits,            \* history: times the card was personalised
    uses,             \* history: uses of Sig since it was last unlocked
    cds               \* history: signatures among them

(***************************************************************************)
(* pc: "idle"; "derive" (Init waits for the coprocessor), "personalised"   *)
(* (Init logs), "prompt"; "verify" (before a Verify call), "verified" (it  *)
(* logs); "using" (between the check of the signature key and the deferred *)
(* PW_LOCK), "spent" (that PW_LOCK logs).                                  *)
(***************************************************************************)

leds    == <<blue, white, blinking>>
history == <<wrong, inits, uses, cds>>
cvars   == <<ArmoredKey, initialized, open, errorCounterPW1, leds, pc, todo,
             arg, history>>

At(c, there) == pc' = [pc EXCEPT ![c] = there]

ConcurrentInit ==
    /\ ArmoredKey = "wrapped"
    /\ initialized = FALSE
    /\ open = {}
    /\ errorCounterPW1 = 0
    /\ blue = TRUE /\ white = TRUE /\ blinking = FALSE
    /\ pc = [c \in Callers |-> "idle"]
    /\ todo = [c \in Callers |-> <<>>]
    /\ arg = [c \in Callers |-> "nil"]
    /\ wrong = 0 /\ inits = 0 /\ uses = 0 /\ cds = 0

\* signalVerificationStatus
Signal == blue' = (open # {})

(***************************************************************************)
(* Init                                                                    *)
(***************************************************************************)

Mut_BeginInit_Again(s) ==
    /\ At(s, "derive")
    /\ arg' = [arg EXCEPT ![s] = "wrapped"]

\* Init up to the key derivation; snvs.Decrypt has got its argument.
BeginInit(s) ==
    /\ ~initialized
    /\ At(s, "derive")
    /\ arg' = [arg EXCEPT ![s] = ArmoredKey]

\* The key is unwrapped and decoded and the card personalised, without looking
\* at initialized again; or the derivation fails.
Derived(s, dcp) ==
    /\ pc[s] = "derive"
    /\ \/ /\ dcp /\ arg[s] = "wrapped"
          /\ ArmoredKey' = "plain"
          /\ open' = {}
          /\ errorCounterPW1' = DEFAULT_PW1_ERROR_COUNTER
          /\ initialized' = TRUE
          /\ inits' = inits + 1
          /\ uses' = 0 /\ cds' = 0
          /\ At(s, "personalised")
          /\ UNCHANGED todo
       \/ /\ ~(dcp /\ arg[s] = "wrapped")
          /\ ArmoredKey' = "nil"
          /\ At(s, "idle")
          /\ todo' = [todo EXCEPT ![s] = <<>>]
          /\ UNCHANGED <<open, errorCounterPW1, initialized, inits, uses, cds>>
    /\ arg' = [arg EXCEPT ![s] = "nil"]
    /\ UNCHANGED <<leds, wrong>>

Mut_InitLogged_NoSignal(s) ==
    /\ pc[s] = "personalised"
    /\ white' = FALSE
    /\ blue' = FALSE
    /\ At(s, IF todo[s] = <<>> THEN "idle" ELSE "prompt")
    /\ UNCHANGED <<ArmoredKey, initialized, open, errorCounterPW1, blinking,
                   todo, arg, history>>

\* Init has logged its status and sets the LEDs.
InitLogged(s) ==
    /\ pc[s] = "personalised"
    /\ white' = FALSE
    /\ Signal
    /\ At(s, IF todo[s] = <<>> THEN "idle" ELSE "prompt")
    /\ UNCHANGED <<ArmoredKey, initialized, open, errorCounterPW1, blinking,
                   todo, arg, history>>

(***************************************************************************)
(* Verify                                                                  *)
(***************************************************************************)

\* PW_VERIFY with the right passphrase on a key that is encrypted.
Unlock(pw) ==
    /\ open' = open \cup {pw}
    /\ errorCounterPW1' = DEFAULT_PW1_ERROR_COUNTER
    /\ wrong' = 0
    /\ uses' = IF pw = "PW1_CDS" THEN 0 ELSE uses
    /\ cds' = IF pw = "PW1_CDS" THEN 0 ELSE cds

Mut_Verify_NoBlock(pw, act) ==
    \/ /\ initialized /\ act = "right" /\ pw \notin open
       /\ Unlock(pw)
    \/ /\ initialized /\ act = "wrong" /\ pw \notin open
       /\ errorCounterPW1' = (errorCounterPW1 - 1) % 256
       /\ wrong' = wrong + 1
       /\ UNCHANGED <<open, uses, cds>>
    \/ /\ act = "lock"
       /\ open' = open \ {pw}
       /\ UNCHANGED <<errorCounterPW1, wrong, uses, cds>>
    \/ /\ act # "lock" /\ pw \in open
       /\ UNCHANGED <<open, errorCounterPW1, wrong, uses, cds>>

\* The switch of Verify, which nothing interrupts.
Verify(pw, act) ==
    \/ /\ initialized /\ act = "right" /\ pw \notin open /\ errorCounterPW1 # 0
       /\ Unlock(pw)
    \/ /\ initialized /\ act = "wrong" /\ pw \notin open /\ errorCounterPW1 # 0
       /\ errorCounterPW1' = errorCounterPW1 - 1
       /\ wrong' = wrong + 1
       /\ UNCHANGED <<open, uses, cds>>
    \/ /\ initialized /\ act = "lock"
       /\ open' = open \ {pw}
       /\ UNCHANGED <<errorCounterPW1, wrong, uses, cds>>
    \/ /\ \/ ~initialized
          \/ act # "lock" /\ (pw \in open \/ errorCounterPW1 = 0)
       /\ UNCHANGED <<open, errorCounterPW1, wrong, uses, cds>>

\* The next Verify call of a command; it ends in its log output.
VerifyCall(c) ==
    /\ pc[c] = "verify"
    /\ Verify(Head(todo[c]).pw, Head(todo[c]).act)
    /\ todo' = [todo EXCEPT ![c] = Tail(todo[c])]
    /\ At(c, "verified")
    /\ UNCHANGED <<ArmoredKey, initialized, leds, arg, inits>>

\* Verify returns and runs its deferred signalVerificationStatus.
VerifyLogged(c) ==
    /\ pc[c] = "verified"
    /\ Signal
    /\ At(c, IF todo[c] = <<>> THEN "idle" ELSE "verify")
    /\ UNCHANGED <<ArmoredKey, initialized, open, errorCounterPW1, white,
                   blinking, todo, arg, history>>

(***************************************************************************)
(* Uses of the signature key                                               *)
(***************************************************************************)

\* PSO:CDS; a card that is not ready for it answers at once.
ComputeDigitalSignature ==
    /\ pc[usb] = "idle"
    /\ \/ /\ "PW1_CDS" \in open
          /\ At(usb, "using")
          /\ white' = TRUE
          /\ uses' = uses + 1 /\ cds' = cds + 1
       \/ /\ "PW1_CDS" \notin open
          /\ white' = FALSE
          /\ UNCHANGED <<pc, uses, cds>>
    /\ UNCHANGED <<ArmoredKey, initialized, open, errorCounterPW1, blue,
                   blinking, todo, arg, wrong, inits>>

\* The PKCS#11 export of an RPC session.
getObjects(s) ==
    /\ pc[s] = "idle"
    /\ "PW1_CDS" \in open
    /\ At(s, "using")
    /\ uses' = uses + 1
    /\ UNCHANGED <<ArmoredKey, initialized, open, errorCounterPW1, leds, todo,
                   arg, wrong, inits, cds>>

Mut_Spend_NoLock(c) ==
    /\ pc[c] = "using"
    /\ At(c, "spent")
    /\ UNCHANGED <<ArmoredKey, initialized, open, errorCounterPW1, leds, todo,
                   arg, history>>

\* The switch of the deferred Verify(PW_LOCK, PW1_CDS).
Spend(c) ==
    /\ pc[c] = "using"
    /\ open' = open \ {"PW1_CDS"}
    /\ At(c, "spent")
    /\ UNCHANGED <<ArmoredKey, initialized, errorCounterPW1, leds, todo, arg,
                   history>>

\* That Verify signals the status, and a PSO turns its LED off.
SpendLogged(c) ==
    /\ pc[c] = "spent"
    /\ Signal
    /\ white' = (white /\ c # usb)
    /\ At(c, "idle")
    /\ UNCHANGED <<ArmoredKey, initialized, open, errorCounterPW1, blinking,
                   todo, arg, history>>

(***************************************************************************)
(* Commands that call Verify, and the console                              *)
(***************************************************************************)

Calls(c, seq, there) ==
    /\ pc[c] = "idle"
    /\ At(c, there)
    /\ todo' = [todo EXCEPT ![c] = seq]

ForEach(pws, act) ==
    (IF "PW1_CDS" \in pws THEN <<[pw |-> "PW1_CDS", act |-> act]>> ELSE <<>>)
      \o (IF "PW1" \in pws THEN <<[pw |-> "PW1", act |-> act]>> ELSE <<>>)

\* VERIFY, or SELECT of another application, which locks both.
VerifyOrSelect ==
    /\ \/ \E call \in Call : Calls(usb, <<call>>, "verify")
       \/ Calls(usb, ForEach(PWs, "lock"), "verify")
    /\ UNCHANGED <<ArmoredKey, initialized, open, errorCounterPW1, leds, arg,
                   history>>

\* `init'
ConsoleInit(s) ==
    /\ pc[s] = "idle"
    /\ BeginInit(s)
    /\ UNCHANGED <<ArmoredKey, initialized, open, errorCounterPW1, leds, todo,
                   history>>

\* `lock'
lockCommand_lock(s, pws) ==
    /\ initialized
    /\ Calls(s, ForEach(pws, "lock"), "verify")
    /\ UNCHANGED <<ArmoredKey, initialized, open, errorCounterPW1, leds, arg,
                   history>>

\* `unlock': the passphrase is only known after the prompt.
lockCommand_unlock(s, pws) ==
    /\ pc[s] = "idle"
    /\ todo' = [todo EXCEPT ![s] = ForEach(pws, "right")]
    /\ \/ initialized /\ At(s, "prompt") /\ UNCHANGED arg
       \/ BeginInit(s)
    /\ UNCHANGED <<ArmoredKey, initialized, open, errorCounterPW1, leds,
                   history>>

ReadPassword(s, act) ==
    /\ pc[s] = "prompt"
    /\ todo' = [todo EXCEPT ![s] =
                   [i \in 1..Len(todo[s]) |-> [todo[s][i] EXCEPT !.act = act]]]
    /\ At(s, "verify")
    /\ UNCHANGED <<ArmoredKey, initialized, open, errorCounterPW1, leds, arg,
                   history>>

\* The session is closed at the prompt.
ReadPassword_Error(s) ==
    /\ pc[s] = "prompt"
    /\ todo' = [todo EXCEPT ![s] = <<>>]
    /\ At(s, "idle")
    /\ UNCHANGED <<ArmoredKey, initialized, open, errorCounterPW1, leds, arg,
                   history>>

(***************************************************************************)
(* The blinking goroutine of a U2F presence test, on the same white LED.   *)
(***************************************************************************)

BlinkStart ==
    /\ ~blinking
    /\ blinking' = TRUE
    /\ UNCHANGED <<ArmoredKey, initialized, open, errorCounterPW1, blue, white,
                   pc, todo, arg, history>>

\* blink() alternates a variable of its own.
blink ==
    /\ blinking
    /\ white' \in BOOLEAN
    /\ UNCHANGED <<ArmoredKey, initialized, open, errorCounterPW1, blue,
                   blinking, pc, todo, arg, history>>

BlinkStop ==
    /\ blinking
    /\ blinking' = FALSE
    /\ white' = FALSE
    /\ UNCHANGED <<ArmoredKey, initialized, open, errorCounterPW1, blue, pc,
                   todo, arg, history>>

-----------------------------------------------------------------------------

\* sig, dec, all
PWS == {{"PW1_CDS"}, {"PW1"}, PWs}

SessionNext(s) ==
    \/ ConsoleInit(s)
    \/ \E dcp \in BOOLEAN : Derived(s, dcp)
    \/ InitLogged(s)
    \/ \E pws \in PWS : lockCommand_lock(s, pws) \/ lockCommand_unlock(s, pws)
    \/ \E act \in {"right", "wrong"} : ReadPassword(s, act)
    \/ ReadPassword_Error(s)
    \/ getObjects(s)

ConcurrentNext ==
    \/ VerifyOrSelect
    \/ ComputeDigitalSignature
    \/ \E c \in Callers :
        VerifyCall(c) \/ VerifyLogged(c) \/ Spend(c) \/ SpendLogged(c)
    \/ \E s \in Sessions : SessionNext(s)
    \/ BlinkStart \/ blink \/ BlinkStop

ConcurrentSpec == ConcurrentInit /\ [][ConcurrentNext]_cvars

(***************************************************************************)
(* Properties                                                              *)
(***************************************************************************)

\* The type invariant.
ConcurrentTypeOK ==
    /\ ArmoredKey \in {"wrapped", "plain", "nil"}
    /\ initialized \in BOOLEAN
    /\ open \subseteq PWs
    /\ errorCounterPW1 \in 0..DEFAULT_PW1_ERROR_COUNTER
    /\ blue \in BOOLEAN /\ white \in BOOLEAN /\ blinking \in BOOLEAN
    /\ pc \in [Callers -> {"idle", "derive", "personalised", "prompt",
                            "verify", "verified", "using", "spent"}]
    /\ todo \in [Callers -> Seq(Call)]
    /\ arg \in [Callers -> {"wrapped", "plain", "nil"}]
    /\ wrong \in Nat /\ inits \in Nat /\ uses \in Nat /\ cds \in Nat

Deriving == {s \in Sessions : pc[s] = "derive"}
Using    == {c \in Callers : pc[c] = "using"}

\* Init looks at initialized before it waits for the coprocessor and not after,
\* so each session that overlaps another one in Init may personalise the card
\* once more and grant the retries again: once per session and no more, and
\* in between the retries are bounded as ever.
RetriesPerInit ==
    /\ wrong <= DEFAULT_PW1_ERROR_COUNTER * inits
    /\ inits <= Cardinality(Sessions)

\* A verification pays for one signature, although the key stays open until
\* the deferred PW_LOCK; an export may take from the same verification only
\* while that signature is in progress, at most one by each session.
SharedVerification ==
    /\ cds <= 1
    /\ uses <= Cardinality(Callers)
    /\ "PW1_CDS" \in open => uses <= Cardinality(Using)

\* Whenever no call is between its change of a key and its deferred LED
\* update, the blue LED is on exactly while a key is open.
BlueSettles ==
    initialized /\ (\A c \in Callers :
                       pc[c] \notin {"personalised", "verified", "spent"})
        => (blue <=> open # {})

\* The white LED is shared by PSO, Init and the presence test; with none of
\* them in progress it is off, in whatever order they ended.
WhiteSettles ==
    initialized /\ ~blinking /\ pc[usb] \notin {"using", "spent"}
      /\ (\A s \in Sessions : pc[s] # "personalised")
        => ~white

\* Calls may overlap in their changes of the card and of the LEDs, but once
\* they have ended both LEDs tell the state that is left.
LEDsSettle == BlueSettles /\ WhiteSettles

=============================================================================
