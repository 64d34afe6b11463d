------------------------- MODULE CardConcurrentProofs -------------------------
(***************************************************************************)
(* Proofs about CardConcurrent, for any finite number of sessions and any  *)
(* number of retries.                                                      *)
(***************************************************************************)
EXTENDS CardConcurrent, FiniteSetTheorems, SequenceTheorems, TLAPS

Places == {"idle", "derive", "personalised", "prompt", "verify", "verified",
           "using", "spent"}

\* The type invariant, without the callers and what they have left to do.
CardTypes ==
    /\ ArmoredKey \in {"wrapped", "plain", "nil"}
    /\ initialized \in BOOLEAN
    /\ open \subseteq PWs
    /\ errorCounterPW1 \in 0..DEFAULT_PW1_ERROR_COUNTER
    /\ wrong \in Nat /\ inits \in Nat /\ uses \in Nat /\ cds \in Nat

LedTypes == blue \in BOOLEAN /\ white \in BOOLEAN /\ blinking \in BOOLEAN

\* A caller that is to call Verify has a call left.
CallerInv ==
    /\ pc \in [Callers -> Places]
    /\ todo \in [Callers -> Seq(Call)]
    /\ arg \in [Callers -> {"wrapped", "plain", "nil"}]
    /\ \A c \in Callers : pc[c] \in {"prompt", "verify"} => todo[c] # <<>>
    /\ pc[usb] # "derive"

(***************************************************************************)
(* Sequences of Verify calls                                               *)
(***************************************************************************)

\* The calls for one or both passwords.
LEMMA ForEachCalls ==
    ASSUME NEW pws \in PWS, NEW act \in {"lock", "right", "wrong"}
    PROVE  ForEach(pws, act) \in Seq(Call) /\ ForEach(pws, act) # <<>>
<1> DEFINE a == IF "PW1_CDS" \in pws THEN <<[pw |-> "PW1_CDS", act |-> act]>> ELSE <<>>
           b == IF "PW1" \in pws THEN <<[pw |-> "PW1", act |-> act]>> ELSE <<>>
<1>1. a \in Seq(Call) /\ b \in Seq(Call)
    <2>1. [pw |-> "PW1_CDS", act |-> act] \in Call /\ [pw |-> "PW1", act |-> act] \in Call
        BY DEF Call, PWs
    <2>2. \A x \in Call : <<x>> \in Seq(Call)
        OBVIOUS
    <2>3. <<>> \in Seq(Call)
        OBVIOUS
    <2> QED
        BY <2>1, <2>2, <2>3
<1>2. Len(a) + Len(b) > 0
    BY DEF PWS, PWs
<1>3. ForEach(pws, act) = a \o b
    BY DEF ForEach
<1> HIDE DEF a, b
<1> QED
    BY <1>1, <1>2, <1>3

\* A passphrase is filled into the calls.
LEMMA FilledCalls ==
    ASSUME NEW calls \in Seq(Call), calls # <<>>, NEW act \in {"right", "wrong"}
    PROVE  LET filled == [i \in 1..Len(calls) |-> [calls[i] EXCEPT !.act = act]]
           IN  filled \in Seq(Call) /\ filled # <<>>
<1> DEFINE filled == [i \in 1..Len(calls) |-> [calls[i] EXCEPT !.act = act]]
<1>1. ASSUME NEW i \in 1..Len(calls) PROVE [calls[i] EXCEPT !.act = act] \in Call
    <2>1. calls[i] \in Call
        OBVIOUS
    <2> QED
        BY <2>1 DEF Call
<1>2. filled \in [1..Len(calls) -> Call] /\ Len(calls) \in Nat /\ Len(calls) # 0
    BY <1>1
<1>3. filled \in Seq(Call) /\ Len(filled) = Len(calls)
    BY <1>2
<1> QED
    BY <1>2, <1>3

(***************************************************************************)
(* Callers in a place                                                      *)
(***************************************************************************)

\* There are finitely many of them.
LEMMA Counts ==
    /\ IsFiniteSet(Sessions) /\ IsFiniteSet(Callers)
    /\ IsFiniteSet(Deriving) /\ IsFiniteSet(Using)
    /\ Cardinality(Sessions) \in Nat /\ Cardinality(Callers) \in Nat
    /\ Cardinality(Deriving) \in Nat /\ Cardinality(Deriving) <= Cardinality(Sessions)
    /\ Cardinality(Using) \in Nat /\ Cardinality(Using) <= Cardinality(Callers)
<1>1. IsFiniteSet(Sessions) /\ IsFiniteSet(Callers)
    BY ConcurrentAssumption, FS_AddElement DEF Callers
<1>2. Deriving \in SUBSET Sessions /\ Using \in SUBSET Callers
    BY DEF Deriving, Using
<1> QED
    BY <1>1, <1>2, FS_Subset, FS_CardinalityType

\* One caller goes from one place to another.
LEMMA Moved ==
    ASSUME CallerInv, NEW c \in Callers, NEW there, At(c, there)
    PROVE  /\ there # "derive" =>
                Deriving' = Deriving \ {c} /\ Cardinality(Deriving') <= Cardinality(Deriving)
           /\ there # "derive" /\ pc[c] = "derive" =>
                Cardinality(Deriving') = Cardinality(Deriving) - 1
           /\ there # "using" /\ pc[c] # "using" => Using' = Using
           /\ there = "using" /\ pc[c] # "using" =>
                Cardinality(Using') = Cardinality(Using) + 1
           /\ Cardinality(Deriving') \in Nat /\ Cardinality(Deriving') <= Cardinality(Sessions)
           /\ Cardinality(Using') \in Nat /\ Cardinality(Using') <= Cardinality(Callers)
<1>1. there # "derive" => Deriving' = Deriving \ {c}
    BY DEF At, CallerInv, Deriving, Callers
<1>2. pc[c] = "derive" => c \in Deriving
    BY DEF CallerInv, Deriving, Callers
<1>3. there # "derive" =>
        /\ Cardinality(Deriving') <= Cardinality(Deriving)
        /\ pc[c] = "derive" => Cardinality(Deriving') = Cardinality(Deriving) - 1
    <2>1. Cardinality(Deriving \ {c}) =
             IF c \in Deriving THEN Cardinality(Deriving) - 1 ELSE Cardinality(Deriving)
        BY Counts, FS_RemoveElement
    <2> QED
        BY <1>1, <1>2, <2>1, Counts
<1>4. there # "using" /\ pc[c] # "using" => Using' = Using
    BY DEF At, CallerInv, Using
<1>5. there = "using" /\ pc[c] # "using" => Using' = Using \cup {c} /\ c \notin Using
    BY DEF At, CallerInv, Using
<1>6. there = "using" /\ pc[c] # "using" => Cardinality(Using') = Cardinality(Using) + 1
    BY <1>5, Counts, FS_AddElement
<1>7. Deriving' \in SUBSET Sessions /\ Using' \in SUBSET Callers
    BY DEF Deriving, Using
<1>8. /\ Cardinality(Deriving') \in Nat /\ Cardinality(Deriving') <= Cardinality(Sessions)
      /\ Cardinality(Using') \in Nat /\ Cardinality(Using') <= Cardinality(Callers)
    BY <1>7, Counts, FS_Subset, FS_CardinalityType
<1> QED
    BY <1>1, <1>3, <1>4, <1>6, <1>8

(***************************************************************************)
(* The invariant                                                           *)
(***************************************************************************)

\* Retries that were used and that are left were granted by an Init, and every
\* session in Init may grant them once more.
RetryInv ==
    /\ wrong + errorCounterPW1 <= DEFAULT_PW1_ERROR_COUNTER * inits
    /\ initialized => inits >= 1
    /\ ~initialized => inits = 0
    /\ inits + Cardinality(Deriving) <= Cardinality(Sessions)

\* A key that is open has signed only if that signature is in progress.
UseInv ==
    /\ SharedVerification
    /\ "PW1_CDS" \in open /\ pc[usb] # "using" => cds = 0

ConcurrentInv ==
    CardTypes /\ LedTypes /\ CallerInv /\ RetryInv /\ UseInv /\ LEDsSettle

\* The card after a start.
LEMMA FirstConcurrent == ConcurrentInit => ConcurrentInv
<1> SUFFICES ASSUME ConcurrentInit PROVE ConcurrentInv
    OBVIOUS
<1>1. CardTypes
    <2>1. initialized \in BOOLEAN /\ ~initialized
        BY Zenon DEF ConcurrentInit
    <2>2. 0 \in 0..DEFAULT_PW1_ERROR_COUNTER
        BY ConcurrentAssumption
    <2> QED
        BY <2>1, <2>2 DEF ConcurrentInit, CardTypes
<1>2. LedTypes
    BY DEF ConcurrentInit, LedTypes
<1>3. CallerInv
    BY DEF ConcurrentInit, CallerInv, Places, Callers
<1>4. Deriving = {}
    BY DEF ConcurrentInit, Deriving, Callers
<1>5. RetryInv
    BY <1>4, Counts, FS_EmptySet, ConcurrentAssumption DEF ConcurrentInit, RetryInv
<1>6. UseInv
    BY Counts DEF ConcurrentInit, UseInv, SharedVerification
<1>7. LEDsSettle
    BY DEF ConcurrentInit, LEDsSettle, BlueSettles, WhiteSettles
<1> QED
    BY <1>1, <1>2, <1>3, <1>5, <1>6, <1>7 DEF ConcurrentInv

(***************************************************************************)
(* Steps of a caller that touch neither the keys nor the LEDs              *)
(***************************************************************************)

\* It waits, prompts or is about to call Verify; or begins Init.
LEMMA QuietStep ==
    ASSUME ConcurrentInv, NEW c \in Callers,
           NEW there \in {"idle", "derive", "prompt", "verify"}, At(c, there),
           pc[c] \in {"idle", "prompt"}, there = "derive" => ~initialized,
           CallerInv',
           UNCHANGED <<ArmoredKey, initialized, open, errorCounterPW1, leds, history>>
    PROVE  ConcurrentInv'
<1> USE DEF leds, history
<1>1. CardTypes' /\ LedTypes'
    <2>1. initialized' \in BOOLEAN /\ LedTypes'
        BY Zenon DEF ConcurrentInv, CardTypes, LedTypes
    <2> QED
        BY <2>1 DEF ConcurrentInv, CardTypes
<1>2. RetryInv'
    <2>1. CallerInv /\ inits \in Nat
        BY DEF ConcurrentInv, CardTypes
    <2>2. inits + Cardinality(Deriving') <= Cardinality(Sessions)
        <3>1. CASE there = "derive"
            BY <2>1, <3>1, Moved DEF ConcurrentInv, RetryInv
        <3>2. CASE there # "derive"
            <4>1. /\ Cardinality(Deriving') <= Cardinality(Deriving)
                  /\ Cardinality(Deriving') \in Nat
                BY <2>1, <3>2, Moved
            <4> QED
                BY <2>1, <4>1, Counts DEF ConcurrentInv, RetryInv
        <3> QED
            BY <3>1, <3>2
    <2> QED
        BY <2>2 DEF ConcurrentInv, RetryInv
<1>3. UseInv'
    <2>1. Using' = Using
        BY Moved DEF ConcurrentInv
    <2>2. pc'[usb] = "using" <=> pc[usb] = "using"
        BY DEF ConcurrentInv, CallerInv, At, Callers
    <2> QED
        BY <2>1, <2>2 DEF ConcurrentInv, UseInv, SharedVerification
<1>4. LEDsSettle'
    BY DEF ConcurrentInv, CallerInv, At, Callers, LEDsSettle, BlueSettles, WhiteSettles
<1> QED
    BY <1>1, <1>2, <1>3, <1>4 DEF ConcurrentInv

\* The commands that end in such a step.
LEMMA QuietCommands ==
    ASSUME ConcurrentInv,
           \/ VerifyOrSelect
           \/ \E s \in Sessions :
                \/ ConsoleInit(s)
                \/ \E pws \in PWS : lockCommand_lock(s, pws) \/ lockCommand_unlock(s, pws)
                \/ \E act \in {"right", "wrong"} : ReadPassword(s, act)
                \/ ReadPassword_Error(s)
    PROVE  ConcurrentInv'
<1> USE DEF Places
<1>0. usb \in Callers /\ usb \notin Sessions /\ Sessions \subseteq Callers
    BY ConcurrentAssumption DEF Callers
<1>1. ASSUME NEW call \in Call, Calls(usb, <<call>>, "verify"), VerifyOrSelect
      PROVE  ConcurrentInv'
    <2>1. CallerInv'
        BY <1>0, <1>1 DEF VerifyOrSelect, Calls, At, ConcurrentInv, CallerInv
    <2> QED
        BY <1>0, <1>1, <2>1, QuietStep DEF VerifyOrSelect, Calls
<1>2. ASSUME Calls(usb, ForEach(PWs, "lock"), "verify"), VerifyOrSelect
      PROVE  ConcurrentInv'
    <2>1. ForEach(PWs, "lock") \in Seq(Call) /\ ForEach(PWs, "lock") # <<>>
        BY ForEachCalls DEF PWS
    <2>2. CallerInv'
        BY <1>0, <1>2, <2>1 DEF VerifyOrSelect, Calls, At, ConcurrentInv, CallerInv
    <2> QED
        BY <1>0, <1>2, <2>2, QuietStep DEF VerifyOrSelect, Calls
<1>3. ASSUME NEW s \in Sessions, ConsoleInit(s) PROVE ConcurrentInv'
    <2>1. CallerInv'
        BY <1>0, <1>3 DEF ConsoleInit, BeginInit, At, ConcurrentInv, CallerInv, CardTypes
    <2> QED
        BY <1>0, <1>3, <2>1, QuietStep DEF ConsoleInit, BeginInit
<1>4. ASSUME NEW s \in Sessions, NEW pws \in PWS, lockCommand_lock(s, pws)
      PROVE  ConcurrentInv'
    <2>1. ForEach(pws, "lock") \in Seq(Call) /\ ForEach(pws, "lock") # <<>>
        BY ForEachCalls
    <2>2. CallerInv'
        BY <1>0, <1>4, <2>1 DEF lockCommand_lock, Calls, At, ConcurrentInv, CallerInv
    <2> QED
        BY <1>0, <1>4, <2>2, QuietStep DEF lockCommand_lock, Calls
<1>5. ASSUME NEW s \in Sessions, NEW pws \in PWS, lockCommand_unlock(s, pws)
      PROVE  ConcurrentInv'
    <2>1. ForEach(pws, "right") \in Seq(Call) /\ ForEach(pws, "right") # <<>>
        BY ForEachCalls
    <2>2. CASE initialized /\ At(s, "prompt") /\ UNCHANGED arg
        <3>1. CallerInv'
            BY <1>0, <1>5, <2>1, <2>2 DEF lockCommand_unlock, At, ConcurrentInv, CallerInv
        <3> QED
            BY <1>0, <1>5, <2>2, <3>1, QuietStep DEF lockCommand_unlock
    <2>3. CASE BeginInit(s)
        <3>1. CallerInv'
            BY <1>0, <1>5, <2>1, <2>3 DEF lockCommand_unlock, BeginInit, At, ConcurrentInv,
               CallerInv, CardTypes
        <3> QED
            BY <1>0, <1>5, <2>3, <3>1, QuietStep DEF lockCommand_unlock, BeginInit
    <2> QED
        BY <1>5, <2>2, <2>3 DEF lockCommand_unlock
<1>6. ASSUME NEW s \in Sessions, NEW act \in {"right", "wrong"}, ReadPassword(s, act)
      PROVE  ConcurrentInv'
    <2> DEFINE filled == [i \in 1..Len(todo[s]) |-> [todo[s][i] EXCEPT !.act = act]]
    <2>1. todo[s] \in Seq(Call) /\ todo[s] # <<>>
        BY <1>0, <1>6 DEF ReadPassword, ConcurrentInv, CallerInv
    <2>2. filled \in Seq(Call) /\ filled # <<>>
        BY <2>1, FilledCalls
    <2>3. todo' = [todo EXCEPT ![s] = filled] /\ At(s, "verify") /\ UNCHANGED arg
        BY <1>6 DEF ReadPassword
    <2> HIDE DEF filled
    <2>4. CallerInv'
        BY <1>0, <2>2, <2>3 DEF At, ConcurrentInv, CallerInv
    <2> QED
        BY <1>0, <1>6, <2>3, <2>4, QuietStep DEF ReadPassword
<1>7. ASSUME NEW s \in Sessions, ReadPassword_Error(s) PROVE ConcurrentInv'
    <2>1. CallerInv'
        BY <1>0, <1>7 DEF ReadPassword_Error, At, ConcurrentInv, CallerInv
    <2> QED
        BY <1>0, <1>7, <2>1, QuietStep DEF ReadPassword_Error
<1> QED
    BY <1>1, <1>2, <1>3, <1>4, <1>5, <1>6, <1>7 DEF VerifyOrSelect

(***************************************************************************)
(* Steps that change the keys or the LEDs                                  *)
(***************************************************************************)

\* A Verify call.
LEMMA VerifyStep ==
    ASSUME ConcurrentInv, NEW c \in Callers, VerifyCall(c)
    PROVE  ConcurrentInv'
<1> DEFINE pw == Head(todo[c]).pw
           act == Head(todo[c]).act
<1>1. /\ pc[c] = "verify" /\ Verify(pw, act) /\ At(c, "verified")
      /\ todo' = [todo EXCEPT ![c] = Tail(todo[c])]
      /\ UNCHANGED <<ArmoredKey, initialized, blue, white, blinking, arg, inits>>
    BY DEF VerifyCall, leds
<1>2. todo[c] \in Seq(Call) /\ todo[c] # <<>>
    BY <1>1 DEF ConcurrentInv, CallerInv
<1>3. pw \in PWs /\ Tail(todo[c]) \in Seq(Call)
    <2>1. Head(todo[c]) \in Call
        BY <1>2
    <2> QED
        BY <1>2, <2>1 DEF Call
<1> HIDE DEF pw, act
<1>4. \/ UNCHANGED <<open, errorCounterPW1, wrong, uses, cds>>
      \/ /\ initialized
         /\ open' = open \cup {pw} /\ pw \notin open
         /\ errorCounterPW1' = DEFAULT_PW1_ERROR_COUNTER /\ wrong' = 0
         /\ uses' = (IF pw = "PW1_CDS" THEN 0 ELSE uses)
         /\ cds' = (IF pw = "PW1_CDS" THEN 0 ELSE cds)
      \/ /\ errorCounterPW1 # 0 /\ errorCounterPW1' = errorCounterPW1 - 1
         /\ wrong' = wrong + 1
         /\ UNCHANGED <<open, uses, cds>>
      \/ /\ open' = open \ {pw}
         /\ UNCHANGED <<errorCounterPW1, wrong, uses, cds>>
    BY <1>1 DEF Verify, Unlock
<1>5. CallerInv'
    BY <1>1, <1>3 DEF At, ConcurrentInv, CallerInv, Places
<1>6. CardTypes' /\ LedTypes'
    <2>1. initialized' \in BOOLEAN /\ LedTypes'
        BY <1>1, Zenon DEF ConcurrentInv, CardTypes, LedTypes
    <2>2. errorCounterPW1' \in 0..DEFAULT_PW1_ERROR_COUNTER /\ wrong' \in Nat
        BY <1>4, ConcurrentAssumption DEF ConcurrentInv, CardTypes
    <2>3. open' \subseteq PWs /\ uses' \in Nat /\ cds' \in Nat
        BY <1>3, <1>4 DEF ConcurrentInv, CardTypes
    <2> QED
        BY <1>1, <2>1, <2>2, <2>3 DEF ConcurrentInv, CardTypes
<1>7. RetryInv'
    <2>1. Cardinality(Deriving') <= Cardinality(Deriving) /\ Cardinality(Deriving') \in Nat
        BY <1>1, Moved DEF ConcurrentInv
    <2>2. inits' + Cardinality(Deriving') <= Cardinality(Sessions)
        BY <1>1, <2>1, Counts DEF ConcurrentInv, RetryInv, CardTypes
    <2>3. initialized => DEFAULT_PW1_ERROR_COUNTER <= DEFAULT_PW1_ERROR_COUNTER * inits
        BY ConcurrentAssumption DEF ConcurrentInv, RetryInv, CardTypes
    <2>4. wrong' + errorCounterPW1' <= DEFAULT_PW1_ERROR_COUNTER * inits
        BY <1>4, <2>3, ConcurrentAssumption DEF ConcurrentInv, RetryInv, CardTypes
    <2> QED
        BY <1>1, <2>2, <2>4 DEF ConcurrentInv, RetryInv
<1>8. UseInv'
    <2>1. Using' = Using
        BY <1>1, Moved DEF ConcurrentInv
    <2>2. pc'[usb] = "using" <=> pc[usb] = "using"
        BY <1>1 DEF ConcurrentInv, CallerInv, At, Callers
    <2> QED
        BY <1>4, <2>1, <2>2, Counts DEF ConcurrentInv, UseInv, SharedVerification, CardTypes
<1>9. LEDsSettle'
    <2>1. pc'[c] = "verified" /\ \A d \in Callers : d # c => pc'[d] = pc[d]
        BY <1>1 DEF At, ConcurrentInv, CallerInv
    <2>2. BlueSettles'
        BY <2>1 DEF BlueSettles
    <2>3. WhiteSettles'
        BY <1>1, <2>1 DEF ConcurrentInv, LEDsSettle, WhiteSettles, Callers
    <2> QED
        BY <2>2, <2>3 DEF LEDsSettle
<1> QED
    BY <1>5, <1>6, <1>7, <1>8, <1>9 DEF ConcurrentInv

\* A caller passes a place where it only sets the LEDs: the end of a Verify
\* call, of a use of the signature key, or of Init.
LEMMA LoggedStep ==
    ASSUME ConcurrentInv, NEW c \in Callers,
           VerifyLogged(c) \/ SpendLogged(c) \/ InitLogged(c)
    PROVE  ConcurrentInv'
<1>1. PICK there \in {"idle", "verify", "prompt"} :
        At(c, there) /\ (there # "idle" => todo[c] # <<>>)
    BY DEF VerifyLogged, SpendLogged, InitLogged
<1>2. /\ pc[c] \in {"verified", "spent", "personalised"}
      /\ blue' = (open # {})
      /\ UNCHANGED <<ArmoredKey, initialized, open, errorCounterPW1, blinking, todo, arg, history>>
    BY DEF VerifyLogged, SpendLogged, InitLogged, Signal
<1>3. /\ white' \in {white, FALSE}
      /\ pc[c] = "personalised" \/ (pc[c] = "spent" /\ c = usb) => white' = FALSE
    BY DEF VerifyLogged, SpendLogged, InitLogged, ConcurrentInv, LedTypes
<1>4. CallerInv'
    BY <1>1, <1>2 DEF At, ConcurrentInv, CallerInv, Places
<1>5. CardTypes'
    <2>1. initialized' \in BOOLEAN
        BY <1>2, Zenon DEF ConcurrentInv, CardTypes
    <2> QED
        BY <1>2, <2>1 DEF ConcurrentInv, CardTypes, history
<1>6. LedTypes'
    <2>1. blue' \in BOOLEAN /\ blinking' \in BOOLEAN
        BY <1>2, Zenon DEF ConcurrentInv, LedTypes
    <2>2. white' \in BOOLEAN
        BY <1>3, Zenon DEF ConcurrentInv, LedTypes
    <2> QED
        BY <2>1, <2>2 DEF LedTypes
<1>7. RetryInv'
    <2>1. Cardinality(Deriving') <= Cardinality(Deriving) /\ Cardinality(Deriving') \in Nat
        BY <1>1, Moved DEF ConcurrentInv
    <2>2. inits' + Cardinality(Deriving') <= Cardinality(Sessions)
        BY <1>2, <2>1, Counts DEF ConcurrentInv, RetryInv, CardTypes, history
    <2> QED
        BY <1>2, <2>2 DEF ConcurrentInv, RetryInv, history
<1>8. UseInv'
    <2>1. Using' = Using
        BY <1>1, <1>2, Moved DEF ConcurrentInv
    <2>2. pc'[usb] = "using" <=> pc[usb] = "using"
        BY <1>1, <1>2 DEF ConcurrentInv, CallerInv, At, Callers
    <2> QED
        BY <1>2, <2>1, <2>2 DEF ConcurrentInv, UseInv, SharedVerification, history
<1>9. LEDsSettle'
    <2>1. pc'[c] \in {"idle", "verify", "prompt"} /\ \A d \in Callers : d # c => pc'[d] = pc[d]
        BY <1>1 DEF At, ConcurrentInv, CallerInv
    <2>2. BlueSettles'
        BY <1>2 DEF BlueSettles
    <2>3. WhiteSettles'
        BY <1>2, <1>3, <2>1 DEF ConcurrentInv, LEDsSettle, WhiteSettles, Callers
    <2> QED
        BY <2>2, <2>3 DEF LEDsSettle
<1> QED
    BY <1>4, <1>5, <1>6, <1>7, <1>8, <1>9 DEF ConcurrentInv

\* The signature key is used: by PSO:CDS, or by an export.
LEMMA UseStep ==
    ASSUME ConcurrentInv, NEW c \in Callers, pc[c] = "idle", "PW1_CDS" \in open,
           At(c, "using"), uses' = uses + 1,
           c = usb => cds' = cds + 1,
           c # usb => UNCHANGED <<white, cds>>,
           white' \in BOOLEAN,
           UNCHANGED <<ArmoredKey, initialized, open, errorCounterPW1, blue, blinking,
                       todo, arg, wrong, inits>>
    PROVE  ConcurrentInv'
<1>1. CallerInv'
    BY DEF At, ConcurrentInv, CallerInv, Places
<1>2. LedTypes' /\ initialized' \in BOOLEAN
    BY Zenon DEF ConcurrentInv, LedTypes, CardTypes
<1>3. CardTypes'
    BY <1>2 DEF ConcurrentInv, CardTypes
<1>4. RetryInv'
    <2>1. Cardinality(Deriving') <= Cardinality(Deriving) /\ Cardinality(Deriving') \in Nat
        BY Moved DEF ConcurrentInv
    <2>2. inits' + Cardinality(Deriving') <= Cardinality(Sessions)
        BY <2>1, Counts DEF ConcurrentInv, RetryInv, CardTypes
    <2> QED
        BY <2>2 DEF ConcurrentInv, RetryInv
<1>5. UseInv'
    <2>1. /\ Cardinality(Using') = Cardinality(Using) + 1
          /\ Cardinality(Using') <= Cardinality(Callers)
        BY Moved DEF ConcurrentInv
    <2>2. uses' <= Cardinality(Using') /\ uses' <= Cardinality(Callers)
        BY <2>1, Counts DEF ConcurrentInv, UseInv, SharedVerification, CardTypes
    <2>3. CASE c = usb
        <3>1. pc'[usb] = "using" /\ cds' = 1
            BY <2>3 DEF At, ConcurrentInv, CallerInv, UseInv
        <3> QED
            BY <2>2, <3>1 DEF UseInv, SharedVerification
    <2>4. CASE c # usb
        <3>1. pc'[usb] = pc[usb] /\ cds' = cds
            BY <2>4 DEF At, ConcurrentInv, CallerInv
        <3> QED
            BY <2>2, <3>1 DEF ConcurrentInv, UseInv, SharedVerification
    <2> QED
        BY <2>3, <2>4
<1>6. LEDsSettle'
    <2>1. pc'[c] = "using" /\ \A d \in Callers : d # c => pc'[d] = pc[d]
        BY DEF At, ConcurrentInv, CallerInv
    <2>2. BlueSettles'
        BY <2>1 DEF ConcurrentInv, LEDsSettle, BlueSettles
    <2>3. WhiteSettles'
        BY <2>1 DEF ConcurrentInv, LEDsSettle, WhiteSettles, Callers
    <2> QED
        BY <2>2, <2>3 DEF LEDsSettle
<1> QED
    BY <1>1, <1>2, <1>3, <1>4, <1>5, <1>6 DEF ConcurrentInv

\* The deferred lock of the signature key.
LEMMA SpendStep ==
    ASSUME ConcurrentInv, NEW c \in Callers, Spend(c)
    PROVE  ConcurrentInv'
<1>1. /\ pc[c] = "using" /\ At(c, "spent") /\ open' = open \ {"PW1_CDS"}
      /\ UNCHANGED <<ArmoredKey, initialized, errorCounterPW1, blue, white, blinking,
                     todo, arg, wrong, inits, uses, cds>>
    BY DEF Spend, leds, history
<1>2. CallerInv'
    BY <1>1 DEF At, ConcurrentInv, CallerInv, Places
<1>3. LedTypes' /\ initialized' \in BOOLEAN
    BY <1>1, Zenon DEF ConcurrentInv, LedTypes, CardTypes
<1>4. CardTypes'
    BY <1>1, <1>3 DEF ConcurrentInv, CardTypes
<1>5. RetryInv'
    <2>1. Cardinality(Deriving') <= Cardinality(Deriving) /\ Cardinality(Deriving') \in Nat
        BY <1>1, Moved DEF ConcurrentInv
    <2>2. inits' + Cardinality(Deriving') <= Cardinality(Sessions)
        BY <1>1, <2>1, Counts DEF ConcurrentInv, RetryInv, CardTypes
    <2> QED
        BY <1>1, <2>2 DEF ConcurrentInv, RetryInv
<1>6. UseInv'
    BY <1>1 DEF ConcurrentInv, UseInv, SharedVerification
<1>7. LEDsSettle'
    <2>1. pc'[c] = "spent" /\ \A d \in Callers : d # c => pc'[d] = pc[d]
        BY <1>1 DEF At, ConcurrentInv, CallerInv
    <2>2. BlueSettles'
        BY <2>1 DEF BlueSettles
    <2>3. WhiteSettles'
        BY <1>1, <2>1 DEF ConcurrentInv, LEDsSettle, WhiteSettles, Callers
    <2> QED
        BY <2>2, <2>3 DEF LEDsSettle
<1> QED
    BY <1>2, <1>3, <1>4, <1>5, <1>6, <1>7 DEF ConcurrentInv

\* The end of a derivation.
LEMMA DerivedStep ==
    ASSUME ConcurrentInv, NEW s \in Sessions, NEW dcp \in BOOLEAN, Derived(s, dcp)
    PROVE  ConcurrentInv'
<1>1. /\ pc[s] = "derive" /\ s \in Callers /\ s # usb
      /\ arg' = [arg EXCEPT ![s] = "nil"]
      /\ UNCHANGED <<blue, white, blinking, wrong>>
    BY ConcurrentAssumption DEF Derived, leds, Callers
<1>2. LedTypes'
    BY <1>1, Zenon DEF ConcurrentInv, LedTypes
<1>3. /\ Cardinality(Deriving) \in Nat /\ Cardinality(Deriving') \in Nat
      /\ At(s, "personalised") \/ At(s, "idle")
            => Cardinality(Deriving') = Cardinality(Deriving) - 1
    BY <1>1, Moved, Counts DEF ConcurrentInv, Derived
<1>4. CASE /\ ArmoredKey' = "plain" /\ open' = {}
           /\ errorCounterPW1' = DEFAULT_PW1_ERROR_COUNTER
           /\ initialized' = TRUE /\ inits' = inits + 1
           /\ uses' = 0 /\ cds' = 0 /\ At(s, "personalised") /\ UNCHANGED todo
    <2>1. CallerInv'
        BY <1>1, <1>4 DEF At, ConcurrentInv, CallerInv, Places
    <2>2. initialized' \in BOOLEAN /\ initialized'
        BY <1>4, Zenon
    <2>3. CardTypes'
        BY <1>1, <1>4, <2>2, ConcurrentAssumption DEF ConcurrentInv, CardTypes
    <2>4. RetryInv'
        <3>1. inits' + Cardinality(Deriving') <= Cardinality(Sessions) /\ inits' >= 1
            BY <1>3, <1>4, Counts DEF ConcurrentInv, RetryInv, CardTypes
        <3>2. DEFAULT_PW1_ERROR_COUNTER * (inits + 1)
                = DEFAULT_PW1_ERROR_COUNTER * inits + DEFAULT_PW1_ERROR_COUNTER
            BY ConcurrentAssumption DEF ConcurrentInv, CardTypes
        <3>3. wrong' + errorCounterPW1' <= DEFAULT_PW1_ERROR_COUNTER * inits'
            BY <1>1, <1>4, <3>2, ConcurrentAssumption DEF ConcurrentInv, RetryInv, CardTypes
        <3> QED
            BY <2>2, <3>1, <3>3 DEF RetryInv
    <2>5. UseInv'
        <3>1. Cardinality(Callers) >= 0
            BY Counts
        <3> QED
            BY <1>4, <3>1 DEF UseInv, SharedVerification
    <2>6. LEDsSettle'
        <3>1. pc'[s] = "personalised"
            BY <1>1, <1>4 DEF At, ConcurrentInv, CallerInv
        <3> QED
            BY <1>1, <3>1 DEF LEDsSettle, BlueSettles, WhiteSettles
    <2> QED
        BY <1>2, <2>1, <2>3, <2>4, <2>5, <2>6 DEF ConcurrentInv
<1>5. CASE /\ ArmoredKey' = "nil" /\ At(s, "idle") /\ todo' = [todo EXCEPT ![s] = <<>>]
           /\ UNCHANGED <<open, errorCounterPW1, initialized, inits, uses, cds>>
    <2>1. CallerInv'
        BY <1>1, <1>5 DEF At, ConcurrentInv, CallerInv, Places
    <2>2. initialized' \in BOOLEAN
        BY <1>5, Zenon DEF ConcurrentInv, CardTypes
    <2>3. CardTypes'
        BY <1>1, <1>5, <2>2 DEF ConcurrentInv, CardTypes
    <2>4. RetryInv'
        <3>1. inits' + Cardinality(Deriving') <= Cardinality(Sessions)
            BY <1>3, <1>5, Counts DEF ConcurrentInv, RetryInv, CardTypes
        <3> QED
            BY <1>1, <1>5, <3>1 DEF ConcurrentInv, RetryInv
    <2>5. UseInv'
        <3>1. Using' = Using
            BY <1>1, <1>5, Moved DEF ConcurrentInv
        <3>2. pc'[usb] = pc[usb]
            BY <1>1, <1>5 DEF ConcurrentInv, CallerInv, At, Callers
        <3> QED
            BY <1>5, <3>1, <3>2 DEF ConcurrentInv, UseInv, SharedVerification
    <2>6. LEDsSettle'
        <3>1. pc'[s] = "idle" /\ \A d \in Callers : d # s => pc'[d] = pc[d]
            BY <1>1, <1>5 DEF At, ConcurrentInv, CallerInv
        <3>2. BlueSettles'
            BY <1>1, <1>5, <3>1 DEF ConcurrentInv, LEDsSettle, BlueSettles
        <3>3. WhiteSettles'
            BY <1>1, <1>5, <3>1 DEF ConcurrentInv, LEDsSettle, WhiteSettles, Callers
        <3> QED
            BY <3>2, <3>3 DEF LEDsSettle
    <2> QED
        BY <1>2, <2>1, <2>3, <2>4, <2>5, <2>6 DEF ConcurrentInv
<1> QED
    BY <1>4, <1>5 DEF Derived

\* The white LED alone: a command that finds the key locked, and the blinking
\* of the presence test.
LEMMA WhiteStep ==
    ASSUME ConcurrentInv, white' \in BOOLEAN, blinking' \in BOOLEAN,
           white' = FALSE \/ blinking' \/ (white' = white /\ blinking' = blinking),
           UNCHANGED <<ArmoredKey, initialized, open, errorCounterPW1, blue, pc, todo,
                       arg, history>>
    PROVE  ConcurrentInv'
<1> USE DEF history
<1>1. LedTypes' /\ initialized' \in BOOLEAN
    BY Zenon DEF ConcurrentInv, LedTypes, CardTypes
<1>2. CardTypes'
    BY <1>1 DEF ConcurrentInv, CardTypes
<1>3. CallerInv'
    BY DEF ConcurrentInv, CallerInv
<1>4. Deriving' = Deriving /\ Using' = Using
    BY DEF Deriving, Using
<1>5. RetryInv' /\ UseInv'
    BY <1>4 DEF ConcurrentInv, RetryInv, UseInv, SharedVerification
<1>6. LEDsSettle'
    BY DEF ConcurrentInv, LEDsSettle, BlueSettles, WhiteSettles
<1> QED
    BY <1>1, <1>2, <1>3, <1>5, <1>6 DEF ConcurrentInv

\* Every step keeps the invariant.
LEMMA NextConcurrent ==
    ASSUME ConcurrentInv, [ConcurrentNext]_cvars
    PROVE  ConcurrentInv'
<1>0. usb \in Callers /\ usb \notin Sessions /\ Sessions \subseteq Callers
    BY ConcurrentAssumption DEF Callers
<1>1. CASE \/ VerifyOrSelect
           \/ \E s \in Sessions :
                \/ ConsoleInit(s)
                \/ \E pws \in PWS : lockCommand_lock(s, pws) \/ lockCommand_unlock(s, pws)
                \/ \E act \in {"right", "wrong"} : ReadPassword(s, act)
                \/ ReadPassword_Error(s)
    BY <1>1, QuietCommands
<1>2. CASE ComputeDigitalSignature
    <2>1. CASE "PW1_CDS" \in open
        <3>1. white' \in BOOLEAN
            BY <1>2, <2>1, Zenon DEF ComputeDigitalSignature
        <3> QED
            BY <1>0, <1>2, <2>1, <3>1, UseStep DEF ComputeDigitalSignature
    <2>2. CASE "PW1_CDS" \notin open
        <3>1. white' \in BOOLEAN /\ white' = FALSE /\ blinking' \in BOOLEAN
            BY <1>2, <2>2, Zenon DEF ComputeDigitalSignature, ConcurrentInv, LedTypes
        <3> QED
            BY <1>2, <2>2, <3>1, WhiteStep DEF ComputeDigitalSignature, history
    <2> QED
        BY <2>1, <2>2
<1>3. ASSUME NEW c \in Callers,
             VerifyCall(c) \/ VerifyLogged(c) \/ Spend(c) \/ SpendLogged(c)
      PROVE  ConcurrentInv'
    BY <1>3, VerifyStep, LoggedStep, SpendStep
<1>4. ASSUME NEW s \in Sessions, InitLogged(s) PROVE ConcurrentInv'
    BY <1>0, <1>4, LoggedStep
<1>5. ASSUME NEW s \in Sessions, NEW dcp \in BOOLEAN, Derived(s, dcp) PROVE ConcurrentInv'
    BY <1>5, DerivedStep
<1>6. ASSUME NEW s \in Sessions, getObjects(s) PROVE ConcurrentInv'
    <2>1. white' \in BOOLEAN
        BY <1>6, Zenon DEF getObjects, leds, ConcurrentInv, LedTypes
    <2> QED
        BY <1>0, <1>6, <2>1, UseStep DEF getObjects, leds
<1>7. CASE BlinkStart \/ blink \/ BlinkStop \/ UNCHANGED cvars
    <2>1. white' \in BOOLEAN /\ blinking' \in BOOLEAN
        BY <1>7, Zenon DEF BlinkStart, blink, BlinkStop, cvars, leds, ConcurrentInv, LedTypes
    <2>2. white' = FALSE \/ blinking' \/ (white' = white /\ blinking' = blinking)
        <3>1. CASE BlinkStart
            BY <3>1 DEF BlinkStart
        <3>2. CASE blink
            <4>1. blinking /\ blinking' = blinking
                BY <3>2 DEF blink
            <4> QED
                BY <4>1, Zenon
        <3>3. CASE BlinkStop
            BY <3>3 DEF BlinkStop
        <3>4. CASE UNCHANGED cvars
            BY <3>4 DEF cvars, leds
        <3> QED
            BY <1>7, <3>1, <3>2, <3>3, <3>4
    <2>3. UNCHANGED <<ArmoredKey, initialized, open, errorCounterPW1, blue, pc, todo,
                      arg, history>>
        BY <1>7 DEF BlinkStart, blink, BlinkStop, cvars, leds
    <2> QED
        BY <2>1, <2>2, <2>3, WhiteStep
<1> QED
    BY <1>1, <1>2, <1>3, <1>4, <1>5, <1>6, <1>7 DEF ConcurrentNext, SessionNext

\* The invariant holds of every reachable state.
LEMMA ConcurrentInvariant == ConcurrentSpec => []ConcurrentInv
    BY FirstConcurrent, NextConcurrent, PTL DEF ConcurrentSpec

\* The variables keep the ranges that the code gives them.
THEOREM ConcurrentTypes == ConcurrentSpec => []ConcurrentTypeOK
<1>1. ConcurrentInv => ConcurrentTypeOK
    BY DEF ConcurrentInv, CardTypes, LedTypes, CallerInv, Places, ConcurrentTypeOK
<1> QED
    BY <1>1, ConcurrentInvariant, PTL

\* Sessions that overlap in Init (internal/icc/interface.go) can personalise the
\* card once each, for any number of them, and the wrong passphrases tried
\* never exceed the retries that so many personalisations grant.
THEOREM RetriesBounded == ConcurrentSpec => []RetriesPerInit
<1>1. ASSUME ConcurrentInv PROVE RetriesPerInit
    <2>1. inits <= Cardinality(Sessions)
        BY <1>1, Counts DEF ConcurrentInv, RetryInv, CardTypes
    <2>2. wrong <= DEFAULT_PW1_ERROR_COUNTER * inits
        BY <1>1, ConcurrentAssumption DEF ConcurrentInv, RetryInv, CardTypes
    <2> QED
        BY <2>1, <2>2 DEF RetriesPerInit
<1> QED
    BY <1>1, ConcurrentInvariant, PTL

\* A verification of PW1_CDS pays for one signature, and for no more exports
\* than there are sessions that take theirs before the deferred PW_LOCK
\* (internal/icc/crypto.go), for any number of sessions.
THEOREM VerificationShared == ConcurrentSpec => []SharedVerification
<1>1. ConcurrentInv => SharedVerification
    BY DEF ConcurrentInv, UseInv
<1> QED
    BY <1>1, ConcurrentInvariant, PTL

\* Whatever calls overlap, the LEDs tell the state of the card once the calls
\* have ended (signalVerificationStatus and the white LED of PSO, Init and u2f).
THEOREM LEDsTell == ConcurrentSpec => []LEDsSettle
<1>1. ConcurrentInv => LEDsSettle
    BY DEF ConcurrentInv
<1> QED
    BY <1>1, ConcurrentInvariant, PTL

=============================================================================
