------------------------ MODULE OpenPGPCardRefinement ------------------------
(***************************************************************************)
(* The action properties of OpenPGPCard, the blue LED, and the proof that  *)
(* the card implements CardholderAuth.                                     *)
(***************************************************************************)
EXTENDS OpenPGPCardProofs

(***************************************************************************)
(* Action properties                                                       *)
(***************************************************************************)

\* No VERIFY opens a key of a blocked card, and nothing else opens one.
LEMMA OpeningNeedsRetry ==
    ASSUME CardInv, Next, Blocked, power' # "off",
           NEW i \in 1..Len(entity), encrypted[i]
    PROVE  encrypted'[i]
<1> USE DEF fixed, roles, keys, pwVars, Blocked
<1>0. ASSUME UNCHANGED encrypted PROVE encrypted'[i]
  BY <1>0
<1>l. ASSUME NEW I, VerifyLock(I) PROVE encrypted'[i]
  BY <1>l DEF VerifyLock, Relocked, Unlocked
<1>u. ASSUME NEW j, NEW pass, VerifyUnlock(j, pass) PROVE encrypted'[i]
  BY <1>0, <1>u DEF VerifyUnlock
<1>1. CASE PowerOn
  BY <1>1 DEF PowerOn, CardInv, RolesConsistent
<1>2. ASSUME NEW dcp, Main(dcp) PROVE FALSE
  BY <1>2 DEF Main, CardInv, RolesConsistent
<1>3. CASE PowerOff
  BY <1>3 DEF PowerOff
<1>4. CASE Select
  BY <1>0, <1>l, <1>4 DEF Select, SelectOpenPGP, SelectOther
<1>5. ASSUME NEW do, GetData(do) PROVE encrypted'[i]
  BY <1>0, <1>5 DEF GetData
<1>6. CASE Verify
  BY <1>0, <1>l, <1>u, <1>6
     DEF Verify, VerifyRefused, VerifyStatus, VerifyPWLock, VerifyPassphrase
<1>7. ASSUME NEW crt, GenerateAsymmetricKeyPair(crt) PROVE encrypted'[i]
  BY <1>0, <1>7 DEF GenerateAsymmetricKeyPair
<1>8. CASE Command_Other
  BY <1>0, <1>8 DEF Command_Other
<1>9. CASE SecurityOperation
  BY <1>0, <1>l, <1>9
     DEF SecurityOperation, PSO, PSO_Unsupported, ComputeDigitalSignature, UseSig,
         Decipher, Encipher
<1>10. ASSUME NEW ok, getObjects(ok) PROVE encrypted'[i]
  BY <1>0, <1>l, <1>10 DEF getObjects, UseSig
<1>11. ASSUME NEW s, ConsoleInit(s) PROVE FALSE
  BY <1>11 DEF ConsoleInit, Init_Begin
<1>12. CASE lockCommand
  BY <1>0, <1>l, <1>u, <1>12
     DEF lockCommand, lockCommand_lock, lockCommand_unlock, ReadPassword,
         ReadPassword_Error, lockCommand_Verify, ConsoleQuiet
<1>13. ASSUME NEW s \in Sessions, NEW dcp, Init_End(s, dcp) PROVE FALSE
  BY <1>13 DEF Init_End
<1> QED
  BY <1>1, <1>2, <1>3, <1>4, <1>5, <1>6, <1>7, <1>8, <1>9, <1>10, <1>11, <1>12,
     <1>13 DEF Next, Command

\* Only an Init that was waiting for the DCP would fill the counter again.
LEMMA CounterStaysZero ==
    ASSUME CardInv, Next, Blocked, power' # "off"
    PROVE  initialized' /\ errorCounterPW1' = 0
<1> USE DEF fixed, roles, keys, pwVars, Blocked
<1>u. ASSUME NEW j, NEW pass, VerifyUnlock(j, pass) PROVE errorCounterPW1' = 0
  BY <1>u DEF VerifyUnlock
<1>1. CASE PowerOn
  BY <1>1 DEF PowerOn, CardInv, RolesConsistent
<1>2. ASSUME NEW dcp, Main(dcp) PROVE FALSE
  BY <1>2 DEF Main, CardInv, RolesConsistent
<1>3. CASE PowerOff
  BY <1>3 DEF PowerOff
<1>4. CASE Select
  BY <1>4 DEF Select, SelectOpenPGP, SelectOther
<1>5. ASSUME NEW do, GetData(do) PROVE initialized' /\ errorCounterPW1' = 0
  BY <1>5 DEF GetData
<1>6. CASE Verify
  BY <1>u, <1>6
     DEF Verify, VerifyRefused, VerifyStatus, VerifyPWLock, VerifyPassphrase
<1>7. ASSUME NEW crt, GenerateAsymmetricKeyPair(crt) PROVE initialized' /\ errorCounterPW1' = 0
  BY <1>7 DEF GenerateAsymmetricKeyPair
<1>8. CASE Command_Other
  BY <1>8 DEF Command_Other
<1>9. CASE SecurityOperation
  BY <1>9
     DEF SecurityOperation, PSO, PSO_Unsupported, ComputeDigitalSignature, UseSig,
         Decipher, Encipher
<1>10. ASSUME NEW ok, getObjects(ok) PROVE initialized' /\ errorCounterPW1' = 0
  BY <1>10 DEF getObjects, UseSig
<1>11. ASSUME NEW s, ConsoleInit(s) PROVE FALSE
  BY <1>11 DEF ConsoleInit, Init_Begin
<1>12. CASE lockCommand
  BY <1>u, <1>12
     DEF lockCommand, lockCommand_lock, lockCommand_unlock, ReadPassword,
         ReadPassword_Error, lockCommand_Verify, ConsoleQuiet
<1>13. ASSUME NEW s \in Sessions, NEW dcp, Init_End(s, dcp) PROVE FALSE
  BY <1>13 DEF Init_End
<1> QED
  BY <1>1, <1>2, <1>3, <1>4, <1>5, <1>6, <1>7, <1>8, <1>9, <1>10, <1>11, <1>12,
     <1>13 DEF Next, Command

\* Nobody enters Init on an initialized card.
LEMMA NobodyEnters ==
    ASSUME CardInv, Next, Blocked, power' # "off", NEW s \in Sessions
    PROVE  todo'[s].op # "derive"
<1> USE DEF Blocked
<1>0. todo \in [Sessions -> Todo]
  BY CardInvParts DEF ControlInv
<1>1. CASE todo' = todo
  BY <1>1
<1>2. ASSUME NEW r \in Sessions, NEW op, op # "derive", NEW pws, NEW pass, NEW arg,
             Work(r, op, pws, pass, arg)
      PROVE  todo'[s].op # "derive"
  BY <1>0, <1>2 DEF Work
<1>3. ASSUME NEW r \in Sessions, todo' = [todo EXCEPT ![r] = NoWork]
      PROVE  todo'[s].op # "derive"
  BY <1>0, <1>3 DEF NoWork
<1>4. CASE Command
  <2>1. todo' = todo
    BY <1>4 DEF Command, Select, SelectOpenPGP, SelectOther, GetData, Verify,
         VerifyRefused, VerifyStatus, VerifyPWLock, VerifyPassphrase,
         GenerateAsymmetricKeyPair, Command_Other, SecurityOperation, PSO,
         PSO_Unsupported, ComputeDigitalSignature, Decipher, Encipher
  <2> QED
    BY <1>1, <2>1
<1>5. ASSUME NEW r \in Sessions, ConsoleInit(r) PROVE FALSE
  BY <1>5 DEF ConsoleInit, Init_Begin
<1>6. ASSUME NEW r \in Sessions, NEW dcp, Init_End(r, dcp) PROVE FALSE
  BY <1>6 DEF Init_End
<1>7. CASE lockCommand
  <2>1. ASSUME NEW r \in Sessions, lockCommand_Verify(r)
        PROVE  todo'[s].op # "derive"
    BY <1>0, <2>1 DEF lockCommand_Verify, NoWork, Todo
  <2> QED
    BY <1>2, <1>3, <1>7, <2>1
       DEF lockCommand, lockCommand_lock, lockCommand_unlock, Init_Begin,
           ReadPassword, ReadPassword_Error
<1> QED
  BY <1>1, <1>4, <1>5, <1>6, <1>7
     DEF Next, PowerOn, Main, PowerOff, getObjects

\* A card whose error counter is zero, with no Init under way, stays blocked
\* and opens no key before it restarts.
THEOREM BlockedCard == Spec => BlockedUntilRestart
<1>1. CardInv /\ [Next]_vars
        => [(Blocked /\ power' # "off")
              => /\ Blocked'
                 /\ \A i \in 1..Len(entity) : encrypted[i] => encrypted'[i]]_vars
  <2> SUFFICES ASSUME CardInv, Next, Blocked, power' # "off"
               PROVE  /\ Blocked'
                      /\ \A i \in 1..Len(entity) : encrypted[i] => encrypted'[i]
    OBVIOUS
  <2> QED
    BY OpeningNeedsRetry, CounterStaysZero, NobodyEnters DEF Blocked
<1> QED
  BY <1>1, CardInvariant, PTL DEF Spec, BlockedUntilRestart

\* Only a SELECT away from OpenPGP and a restart clear the selection.
LEMMA Deselecting ==
    ASSUME KeyInv, Next, selected, ~selected', initialized'
    PROVE  SelectOther
<1> USE DEF fixed, roles
<1>1. CASE PowerOff
  BY <1>1 DEF PowerOff, Reset
<1>2. CASE Select
  BY <1>2 DEF Select, SelectOpenPGP
<1>3. CASE SecurityOperation
  BY <1>3 DEF SecurityOperation, PSO_Unsupported, ComputeDigitalSignature,
              Decipher, Encipher, PSO
<1>4. CASE Verify
  BY <1>4 DEF Verify, VerifyRefused, VerifyStatus, VerifyPWLock, VerifyPassphrase
<1>5. CASE lockCommand
  BY <1>5 DEF lockCommand, lockCommand_lock, lockCommand_unlock, ReadPassword,
              ReadPassword_Error, lockCommand_Verify, ConsoleQuiet
<1> QED
  BY <1>1, <1>2, <1>3, <1>4, <1>5
     DEF Next, Command, PowerOn, Main, GetData, GenerateAsymmetricKeyPair,
         Command_Other, getObjects, ConsoleInit, ConsoleQuiet, Init_End

\* Selecting another application ends every verification.
THEOREM Deselect == Spec => DeselectLocks
<1>1. CardInv /\ [Next]_vars
        => [(selected /\ ~selected' /\ initialized')
              => \A i \in {Sig, Dec} \ {0} : Protected(i) => encrypted'[i]]_vars
  <2> SUFFICES ASSUME KeyInv, Next, selected, ~selected', initialized',
                      NEW i \in {Sig, Dec}, i # 0, Protected(i)
               PROVE  encrypted'[i]
    BY CardInvParts
  <2>1. SelectOther
    BY Deselecting
  <2>2. i \in 1..Len(entity)
    BY Indices DEF KeyInv, KeyTypes
  <2>3. VerifyLock({Sig, Dec})
    BY <2>1 DEF SelectOther
  <2>4. CASE i \in Relocked({Sig, Dec})
    <3>1. encrypted'[i] = Protected(i)
      BY <2>2, <2>3, <2>4 DEF VerifyLock
    <3> QED
      BY <3>1, Zenon
  <2>5. CASE i \notin Relocked({Sig, Dec})
    <3>1. encrypted[i]
      BY <2>5 DEF Relocked, Unlocked, Present, Protected
    <3> QED
      BY <3>1, <2>2, <2>3, <2>5 DEF VerifyLock
  <2> QED
    BY <2>4, <2>5
<1> QED
  BY <1>1, CardInvariant, PTL DEF Spec, DeselectLocks

(***************************************************************************)
(* The blue LED                                                            *)
(***************************************************************************)

\* A Verify call ends with the LED showing the state of the keys.
LEMMA SignalBlue ==
    ASSUME Signal, UNCHANGED <<fixed, roles>>
    PROVE  BlueLED'
  BY DEF Signal, signalVerificationStatus, LED, BlueLED, Clear, IMX6, fixed, roles

\* So does the initialization.
LEMMA InitBlue ==
    ASSUME BlueLED, ~initialized \/ Ready, NEW c, NEW arg, NEW dcp,
           CardInit(c, arg, dcp), UNCHANGED fixed
    PROVE  BlueLED'
  BY DEF CardInit, Init_Personalize, signalVerificationStatus, LED, BlueLED,
         Ready, Clear, IMX6, fixed, roles, keys

\* A step that leaves keys, roles and the LED alone keeps them in agreement.
LEMMA BlueFrame ==
    ASSUME BlueLED, Ready, UNCHANGED <<fixed, roles, keys, blue>>
    PROVE  BlueLED'
  BY DEF BlueLED, Ready, Clear, IMX6, fixed, roles, keys

\* Every action of the card leaves the LED in agreement with the keys.
LEMMA NextBlue == CardInv /\ BlueLED /\ Next => BlueLED'
<1> SUFFICES ASSUME CardInv, BlueLED, Next PROVE BlueLED'
  OBVIOUS
<1>1. CASE PowerOn
  BY <1>1 DEF PowerOn, BlueLED, Ready
<1>2. ASSUME NEW dcp \in BOOLEAN, Main(dcp) PROVE BlueLED'
  <2>1. ~initialized
    BY <1>2 DEF Main, CardInv, RolesConsistent
  <2> QED
    BY <1>2, <2>1, InitBlue DEF Main, BlueLED, Ready, roles, fixed
<1>3. CASE PowerOff
  BY <1>3 DEF PowerOff, BlueLED, Ready
<1>4. CASE Select
  BY <1>4, SignalBlue, BlueFrame DEF Select, SelectOpenPGP, SelectOther
<1>5. ASSUME NEW do, GetData(do) PROVE BlueLED'
  BY <1>5, BlueFrame DEF GetData
<1>6. CASE Verify
  BY <1>6, SignalBlue
     DEF Verify, VerifyRefused, VerifyStatus, VerifyPWLock, VerifyPassphrase
<1>7. ASSUME NEW crt, GenerateAsymmetricKeyPair(crt) PROVE BlueLED'
  BY <1>7, BlueFrame DEF GenerateAsymmetricKeyPair
<1>8. CASE Command_Other
  BY <1>8, BlueFrame DEF Command_Other
<1>9. CASE SecurityOperation
  BY <1>9, SignalBlue, BlueFrame
     DEF SecurityOperation, PSO, PSO_Unsupported, ComputeDigitalSignature, UseSig,
         Decipher, Encipher
<1>10. ASSUME NEW ok, getObjects(ok) PROVE BlueLED'
  BY <1>10, SignalBlue, BlueFrame DEF getObjects, UseSig
<1>11. ASSUME NEW s, ConsoleInit(s) PROVE BlueLED'
  BY <1>11, BlueFrame DEF ConsoleInit, Console, ConsoleQuiet
<1>12. CASE lockCommand
  BY <1>12, SignalBlue, BlueFrame
     DEF lockCommand, lockCommand_lock, lockCommand_unlock, Console, ReadPassword,
         ReadPassword_Error, lockCommand_Verify, ConsoleQuiet
<1>13. ASSUME NEW s, NEW dcp, Init_End(s, dcp) PROVE BlueLED'
  BY <1>13, InitBlue DEF Init_End
<1> QED
  BY <1>1, <1>2, <1>3, <1>4, <1>5, <1>6, <1>7, <1>8, <1>9, <1>10, <1>11, <1>12,
     <1>13 DEF Next, Command

\* Between calls the blue LED shows whether a private key is in the clear.
THEOREM Blue == Spec => []BlueLED
<1>1. Init => BlueLED
  BY DEF Init, BlueLED, Ready
<1>2. CardInv /\ BlueLED /\ [Next]_vars => BlueLED'
  <2>1. BlueLED /\ UNCHANGED vars => BlueLED'
    BY DEF vars, BlueLED, Ready, Clear, IMX6, fixed, roles, keys
  <2> QED
    BY <2>1, NextBlue
<1> QED
  BY <1>1, <1>2, CardInvariant, PTL DEF Spec

(***************************************************************************)
(* Implementation of CardholderAuth: what the building blocks of the       *)
(* actions are in the abstract specification, answers aside.               *)
(***************************************************************************)

Quiet == UNCHANGED <<fixed, roles, keys, pwVars, inInit>>

\* A step that leaves keys, roles and counters alone is invisible above.
LEMMA QuietIdle == Quiet => Auth!Idle
  BY DEF Quiet, Auth!Idle, openPWs, freePWs, Unlocked, Present, Protected, PWSubkey,
         fixed, roles, keys, pwVars

\* The abstract steps.
Step == \/ \E F \in SUBSET Auth!PW : Auth!Start(F)
        \/ \E s \in Sessions : Auth!Begin(s) \/ Auth!GiveUp(s)
        \/ Auth!Stop
        \/ \E P \in SUBSET Auth!PW : Auth!Right(P) \/ Auth!Close(P) \/ Auth!Use(P)
        \/ Auth!Wrong
        \/ Auth!Idle

\* A VERIFY with a passphrase is a Right, a Wrong or an invisible step above.
LEMMA UnlockStep ==
    ASSUME KeyInv, NEW i \in {Sig, Dec}, Present(i), NEW pass,
           VerifyUnlock(i, pass), UNCHANGED <<fixed, roles, inInit>>
    PROVE  Step
<1>1. CASE UNCHANGED <<keys, pwVars>>
  BY <1>1, QuietIdle DEF Quiet, Step
<1> USE Indices DEF KeyInv, fixed, roles
<1>i. i \in 1..Len(entity) /\ initialized
  BY DEF KeyTypes, KeyRoles, Present
<1>2. CASE /\ encrypted[i] /\ errorCounterPW1 # 0 /\ Decrypts(i, pass)
           /\ Unlock(i)
  <2> DEFINE P == {pw \in Auth!PW : PWSubkey(pw) = i}
  <2>1. P \in SUBSET Auth!PW /\ P # {}
    BY DEF PWSubkey, Auth!PW
  <2>2. P \cap openPWs = {}
    BY <1>2 DEF openPWs, Unlocked
  <2>3. openPWs' = openPWs \cup P
    BY <1>i, <1>2 DEF Unlock, openPWs, Unlocked, Present, PWSubkey, KeyTypes, Auth!PW
  <2>4. freePWs' = freePWs
    BY DEF freePWs, Present, Protected, PWSubkey
  <2>5. "PW1_CDS" \in P <=> i = Sig
    BY DEF PWSubkey, Auth!PW
  <2>6. Auth!Right(P)
    <3> HIDE DEF P
    <3> QED
      BY <1>i, <1>2, <2>1, <2>2, <2>3, <2>4, <2>5 DEF Auth!Right, Unlock, KeyTypes
  <2> QED
    BY <2>1, <2>6 DEF Step
<1>3. CASE /\ encrypted[i] /\ errorCounterPW1 # 0 /\ ~Decrypts(i, pass)
           /\ errorCounterPW1' = errorCounterPW1 - 1
           /\ wrong' = wrong + 1
           /\ UNCHANGED <<keys, uses>>
  <2>1. openPWs' = openPWs /\ freePWs' = freePWs
    BY <1>3 DEF openPWs, freePWs, Unlocked, Present, Protected, PWSubkey, keys
  <2>2. Auth!Wrong
    BY <1>i, <1>3, <2>1 DEF Auth!Wrong, KeyTypes
  <2> QED
    BY <2>2 DEF Step
<1> QED
  BY <1>1, <1>2, <1>3 DEF VerifyUnlock

\* PW_LOCK of the subkeys I closes the states that they serve.
LEMMA LockedStates ==
    ASSUME KeyInv, NEW I, VerifyLock(I), UNCHANGED <<fixed, roles>>
    PROVE  /\ freePWs' = freePWs
           /\ openPWs' = openPWs \ ({pw \in Auth!PW : PWSubkey(pw) \in I} \ freePWs)
<1> USE Indices DEF KeyInv, fixed, roles
<1>1. freePWs' = freePWs
  BY DEF freePWs, Present, Protected, PWSubkey
<1>2. ASSUME NEW pw \in Auth!PW
      PROVE  pw \in openPWs' <=> pw \in openPWs /\ (PWSubkey(pw) \in I => pw \in freePWs)
  <2> DEFINE k == PWSubkey(pw)
  <2>1. k' = k /\ k \in 0..Len(entity)
    BY DEF PWSubkey, KeyTypes
  <2>2. /\ pw \in openPWs <=> Present(k) /\ ~encrypted[k]
        /\ pw \in openPWs' <=> Present(k) /\ ~encrypted'[k]
        /\ pw \in freePWs <=> Present(k) /\ ~Protected(k)
    BY <2>1 DEF openPWs, freePWs, Auth!PW, Unlocked, Present
  <2> HIDE DEF k
  <2>3. CASE ~Present(k)
    BY <2>2, <2>3
  <2>4. CASE Present(k) /\ k \in Relocked(I)
    <3>1. k \in 1..Len(entity) /\ k \in I /\ ~encrypted[k]
      BY <2>1, <2>4 DEF Present, Relocked, Unlocked
    <3>2. encrypted'[k] = Protected(k)
      BY <2>4, <3>1 DEF VerifyLock
    <3> QED
      BY <2>2, <2>4, <3>1, <3>2, Zenon DEF k
  <2>5. CASE Present(k) /\ k \notin Relocked(I)
    <3>1. k \in 1..Len(entity)
      BY <2>1, <2>5 DEF Present
    <3>2. encrypted'[k] = encrypted[k]
      BY <2>5, <3>1 DEF VerifyLock
    <3>3. k \in I => encrypted[k]
      BY <2>5 DEF Relocked, Unlocked
    <3> QED
      BY <2>2, <2>5, <3>2, <3>3, Zenon DEF k
  <2> QED
    BY <2>3, <2>4, <2>5
<1>3. openPWs \subseteq Auth!PW /\ openPWs' \subseteq Auth!PW
  BY DEF openPWs, Auth!PW
<1> QED
  BY <1>1, <1>2, <1>3

\* PW_LOCK is a Close above.
LEMMA LockStep ==
    ASSUME KeyInv, NEW I, VerifyLock(I), UNCHANGED <<fixed, roles, pwVars, inInit>>
    PROVE  Step
<1> DEFINE P == {pw \in Auth!PW : PWSubkey(pw) \in I}
<1>1. freePWs' = freePWs /\ openPWs' = openPWs \ (P \ freePWs)
  BY LockedStates
<1>2. P \in SUBSET Auth!PW
  OBVIOUS
<1> HIDE DEF P
<1>3. CASE initialized
  <2>1. Auth!Close(P)
    BY <1>1, <1>3 DEF Auth!Close, roles, pwVars
  <2> QED
    BY <1>2, <2>1 DEF Step
<1>4. CASE ~initialized
  <2>1. openPWs = {}
    BY <1>4 DEF KeyInv, KeyRoles, openPWs, Unlocked, Present, PWSubkey
  <2>2. Auth!Idle
    BY <1>1, <2>1 DEF Auth!Idle, roles, pwVars
  <2> QED
    BY <2>2 DEF Step
<1> QED
  BY <1>3, <1>4

\* A use of the signature key is a Use above, or changes nothing when the
\* key has no passphrase.
LEMMA UseSigStep ==
    ASSUME KeyInv, UseSig, UNCHANGED <<fixed, roles, inInit>>
    PROVE  Step
<1> DEFINE P == {pw \in Auth!PW : PWSubkey(pw) \in {Sig}}
<1>1. freePWs' = freePWs /\ openPWs' = openPWs \ (P \ freePWs)
  BY LockedStates DEF UseSig
<1>2. P \in SUBSET Auth!PW /\ "PW1_CDS" \in P
  BY DEF Auth!PW, PWSubkey
<1>3. "PW1_CDS" \in openPWs
  BY DEF openPWs, PWSubkey, UseSig
<1>4. initialized
  BY DEF UseSig, Unlocked, Present, KeyInv, KeyRoles
<1>5. "PW1_CDS" \in freePWs <=> ~Protected(Sig)
  BY DEF freePWs, PWSubkey, UseSig, Unlocked
<1>6. \A pw \in P : pw \in freePWs <=> ~Protected(Sig)
  BY DEF freePWs, UseSig, Unlocked, Auth!PW
<1> HIDE DEF P
<1>7. CASE Protected(Sig)
  <2>1. Auth!Use(P)
    BY <1>1, <1>2, <1>3, <1>4, <1>5, <1>7 DEF Auth!Use, UseSig, roles
  <2> QED
    BY <1>2, <2>1 DEF Step
<1>8. CASE ~Protected(Sig)
  <2>1. openPWs' = openPWs
    BY <1>1, <1>6, <1>8
  <2>2. Auth!Idle
    BY <1>1, <1>8, <2>1 DEF Auth!Idle, UseSig, roles
  <2> QED
    BY <2>2 DEF Step
<1> QED
  BY <1>7, <1>8

\* The personalisation gives the card its keys, each protected one closed.
LEMMA PersonalizeStep ==
    ASSUME KeyInv, NEW c, Init_Personalize(c), UNCHANGED fixed
    PROVE  /\ freePWs' \in SUBSET Auth!PW /\ openPWs' = freePWs'
           /\ initialized' /\ errorCounterPW1' = DEFAULT_PW1_ERROR_COUNTER /\ uses' = 0
<1> USE Indices DEF KeyInv, fixed, Init_Personalize
<1>1. {Sig', Dec'} \subseteq 0..Len(entity)
  BY DecodeSubkeys
<1>2. openPWs' = freePWs'
  <2>1. \A k \in 1..Len(entity) : encrypted'[k] = Protected(k)' /\ Present(k)' = Present(k)
    BY DEF Protected, Present
  <2>2. ASSUME NEW pw \in Auth!PW
        PROVE  Unlocked(PWSubkey(pw))'
                  <=> Present(PWSubkey(pw))' /\ ~Protected(PWSubkey(pw))'
    <3> DEFINE k == PWSubkey(pw)'
    <3>1. k \in 0..Len(entity)
      BY <1>1 DEF PWSubkey
    <3>2. CASE k = 0
      BY <3>2 DEF Unlocked, Present
    <3>3. CASE k \in 1..Len(entity)
      BY <2>1, <3>3, Zenon DEF Unlocked, Present, Protected
    <3> QED
      BY <3>1, <3>2, <3>3
  <2> QED
    BY <2>2 DEF openPWs, freePWs, Auth!PW
<1>3. freePWs' \in SUBSET Auth!PW
  BY DEF freePWs, Auth!PW
<1> QED
  BY <1>2, <1>3

\* main()'s card.Init is a Start above, or an invisible step when it fails.
LEMMA InitStep ==
    ASSUME KeyInv, ~initialized, inInit = {}, UNCHANGED inInit, NEW c, NEW arg, NEW dcp,
           CardInit(c, arg, dcp), UNCHANGED fixed
    PROVE  Step
<1>1. CASE UNCHANGED <<roles, keys, pwVars>>
  BY <1>1, QuietIdle DEF Quiet, Step
<1>2. CASE Init_Personalize(c)
  <2>1. freePWs' \in SUBSET Auth!PW
    BY <1>2, PersonalizeStep
  <2>2. Auth!Start(freePWs')
    BY <1>2, PersonalizeStep DEF Auth!Start, Init_Personalize
  <2> QED
    BY <2>1, <2>2 DEF Step
<1> QED
  BY <1>1, <1>2 DEF CardInit

\* The end of a session's card.Init is a Start above, or a GiveUp.
LEMMA InitEndStep ==
    ASSUME KeyInv, ControlInv, NEW s \in Sessions, NEW dcp, Init_End(s, dcp)
    PROVE  Step
<1>1. s \in inInit
  BY DEF Init_End, inInit
<1>2. todo \in [Sessions -> Todo]
  BY DEF ControlInv
<1>3. /\ todo'[s].op # "derive"
      /\ \A r \in Sessions \ {s} : todo'[r] = todo[r]
  BY <1>2 DEF Init_End, Work, NoWork
<1>4. inInit' = inInit \ {s}
  BY <1>3 DEF inInit
<1>5. UNCHANGED fixed
  BY DEF Init_End
<1>6. CASE UNCHANGED <<roles, keys, pwVars>>
  <2>1. freePWs' = freePWs /\ openPWs' = openPWs
    BY <1>5, <1>6 DEF openPWs, freePWs, Unlocked, Present, Protected, PWSubkey,
                      fixed, roles, keys
  <2>2. Auth!GiveUp(s)
    BY <1>1, <1>4, <1>6, <2>1 DEF Auth!GiveUp, roles, pwVars
  <2> QED
    BY <2>2 DEF Step
<1>7. CASE Init_Personalize(s)
  <2>1. freePWs' \in SUBSET Auth!PW
    BY <1>5, <1>7, PersonalizeStep
  <2>2. Auth!Start(freePWs')
    BY <1>1, <1>4, <1>5, <1>7, PersonalizeStep DEF Auth!Start, Init_Personalize
  <2> QED
    BY <2>1, <2>2 DEF Step
<1> QED
  BY <1>6, <1>7 DEF Init_End, CardInit

\* The beginning of a session's card.Init is a Begin above.
LEMMA InitBeginStep ==
    ASSUME ControlInv, NEW s \in Sessions, NEW pws, Init_Begin(s, pws), ConsoleQuiet
    PROVE  Step
<1>1. todo \in [Sessions -> Todo]
  BY DEF ControlInv
<1>2. /\ todo'[s].op = "derive"
      /\ \A r \in Sessions \ {s} : todo'[r] = todo[r]
  BY <1>1 DEF Init_Begin, Work
<1>3. inInit' = inInit \cup {s}
  BY <1>2 DEF inInit
<1>4. freePWs' = freePWs /\ openPWs' = openPWs
  BY DEF ConsoleQuiet, openPWs, freePWs, Unlocked, Present, Protected, PWSubkey,
         fixed, roles, keys
<1>5. Auth!Begin(s)
  BY <1>3, <1>4 DEF Auth!Begin, Init_Begin, ConsoleQuiet, roles, pwVars
<1> QED
  BY <1>5 DEF Step

\* Other work of a session is not seen above.
LEMMA WorkStep ==
    ASSUME ControlInv, NEW s \in Sessions, todo[s].op # "derive",
           NEW w, w.op # "derive", todo' = [todo EXCEPT ![s] = w]
    PROVE  inInit' = inInit
<1>1. todo \in [Sessions -> Todo]
  BY DEF ControlInv
<1> QED
  BY <1>1 DEF inInit

\* A restart is a Stop above.
LEMMA ResetStep ==
    ASSUME Reset
    PROVE  Step
<1>1. openPWs' = {} /\ freePWs' = {} /\ inInit' = {}
  BY DEF Reset, NoWork, inInit, openPWs, freePWs, Unlocked, Present, PWSubkey
<1> QED
  BY <1>1 DEF Reset, Auth!Stop, Step

(***************************************************************************)
(* Every step of the card is an abstract step.                             *)
(***************************************************************************)

\* Every action of the card is a step of CardholderAuth, answers apart.
LEMMA NextStep == CardInv /\ Next => Step
<1> SUFFICES ASSUME CardInv, Next PROVE Step
  OBVIOUS
<1>0. KeyInv /\ ControlInv /\ GrantInv
  BY CardInvParts
<1> USE <1>0
<1>t. todo' = todo => inInit' = inInit
  BY DEF inInit
<1> USE <1>t
<1>q. Quiet => Step
  BY QuietIdle DEF Step
<1>1. CASE PowerOn
  BY <1>q, <1>1 DEF PowerOn, Quiet
<1>2. ASSUME NEW dcp \in BOOLEAN, Main(dcp) PROVE Step
  <2>1. ~initialized /\ inInit = {}
    BY <1>2 DEF Main, CardInv, RolesConsistent, GrantInv, inInit
  <2> QED
    BY <1>q, <1>2, <2>1, InitStep DEF Main, Quiet
<1>3. CASE PowerOff
  BY <1>3, ResetStep DEF PowerOff
<1>4. CASE Select
  BY <1>q, <1>4, LockStep DEF Select, SelectOpenPGP, SelectOther, Quiet
<1>5. ASSUME NEW do, GetData(do) PROVE Step
  BY <1>q, <1>5 DEF GetData, Quiet
<1>6. CASE Verify
  <2>1. CASE VerifyRefused
    BY <1>q, <2>1 DEF VerifyRefused, Quiet
  <2>2. ASSUME NEW pw, VerifyStatus(pw) PROVE Step
    BY <1>q, <2>2 DEF VerifyStatus, Quiet
  <2>3. ASSUME NEW pw, VerifyPWLock(pw) PROVE Step
    BY <2>3, LockStep DEF VerifyPWLock
  <2>4. ASSUME NEW pw, NEW pass, VerifyPassphrase(pw, pass) PROVE Step
    BY <2>4, PWSubkeyRole, UnlockStep DEF VerifyPassphrase
  <2> QED
    BY <1>6, <2>1, <2>2, <2>3, <2>4 DEF Verify
<1>7. ASSUME NEW crt, GenerateAsymmetricKeyPair(crt) PROVE Step
  BY <1>q, <1>7 DEF GenerateAsymmetricKeyPair, Quiet
<1>8. CASE Command_Other
  BY <1>q, <1>8 DEF Command_Other, Quiet
<1>9. CASE SecurityOperation
  <2>1. CASE PSO_Unsupported
    BY <1>q, <2>1 DEF PSO_Unsupported, PSO, Quiet
  <2>2. ASSUME NEW data, NEW ok, ComputeDigitalSignature(data, ok) PROVE Step
    BY <1>q, <2>2, UseSigStep DEF ComputeDigitalSignature, PSO, Quiet
  <2>3. ASSUME NEW data, NEW ok, Decipher(data, ok) PROVE Step
    BY <1>q, <2>3 DEF Decipher, PSO, Quiet
  <2>4. ASSUME NEW data, NEW ok, Encipher(data, ok) PROVE Step
    BY <1>q, <2>4 DEF Encipher, PSO, Quiet
  <2> QED
    BY <1>9, <2>1, <2>2, <2>3, <2>4 DEF SecurityOperation
<1>10. ASSUME NEW ok, getObjects(ok) PROVE Step
  BY <1>q, <1>10, UseSigStep DEF getObjects, Quiet
<1>w. ASSUME NEW s \in Sessions, todo[s].op # "derive", NEW op, op # "derive",
             NEW pws, NEW pass, NEW arg, Work(s, op, pws, pass, arg), ConsoleQuiet
      PROVE  Step
  <2>1. inInit' = inInit
    <3> DEFINE w == [op |-> op, pws |-> pws, pass |-> pass, arg |-> arg]
    <3>1. w.op # "derive" /\ todo' = [todo EXCEPT ![s] = w]
      BY <1>w DEF Work
    <3> HIDE DEF w
    <3> QED
      BY <1>w, <3>1, WorkStep
  <2> QED
    BY <1>q, <1>w, <2>1 DEF Quiet, ConsoleQuiet
<1>11. ASSUME NEW s \in Sessions, ConsoleInit(s) PROVE Step
  BY <1>11, InitBeginStep DEF ConsoleInit
<1>12. ASSUME NEW s \in Sessions, NEW pws, lockCommand_lock(s, pws) PROVE Step
  BY <1>w, <1>12 DEF lockCommand_lock, Console, NoWork
<1>13. ASSUME NEW s \in Sessions, NEW pws, lockCommand_unlock(s, pws) PROVE Step
  BY <1>w, <1>13, InitBeginStep DEF lockCommand_unlock, Console, NoWork
<1>14. ASSUME NEW s \in Sessions, NEW pass, ReadPassword(s, pass) PROVE Step
  BY <1>w, <1>14 DEF ReadPassword
<1>15. ASSUME NEW s \in Sessions, ReadPassword_Error(s) PROVE Step
  <2>1. inInit' = inInit
    BY <1>15, WorkStep DEF ReadPassword_Error, NoWork
  <2> QED
    BY <1>q, <1>15, <2>1 DEF ReadPassword_Error, ConsoleQuiet, Quiet
<1>16. ASSUME NEW s \in Sessions, lockCommand_Verify(s) PROVE Step
  <2>1. todo[s].op # "derive" /\ todo \in [Sessions -> Todo]
    BY <1>16 DEF lockCommand_Verify, ControlInv
  <2>2. inInit' = inInit
    <3>1. todo'[s].op # "derive" /\ \A r \in Sessions \ {s} : todo'[r] = todo[r]
      BY <1>16, <2>1 DEF lockCommand_Verify, NoWork, Todo
    <3> QED
      BY <2>1, <3>1 DEF inInit
  <2> QED
    BY <1>q, <1>16, <2>2, LockStep, PWSubkeyRole, UnlockStep
       DEF lockCommand_Verify, Quiet
<1>17. ASSUME NEW s \in Sessions, NEW dcp, Init_End(s, dcp) PROVE Step
  BY <1>17, InitEndStep
<1> QED
  BY <1>1, <1>2, <1>3, <1>4, <1>5, <1>6, <1>7, <1>8, <1>9, <1>10, <1>11, <1>12,
     <1>13, <1>14, <1>15, <1>16, <1>17 DEF Next, Command, lockCommand

\* Only PSO:DECIPHER and PSO:ENCIPHER answer with what PW1 protects: they check
\* the decryption key first, and leave it open.
LEMMA NextAnswer == Next => Auth!Answer
<1> SUFFICES ASSUME Next PROVE Auth!Answer
  OBVIOUS
<1>0. ASSUME NoAnswer PROVE Auth!Answer
  BY <1>0 DEF NoAnswer, NoResponse, Auth!Answer, lastOut
<1>d. ASSUME Unlocked(Dec), UNCHANGED <<fixed, roles, keys>>
      PROVE  "PW1" \in openPWs /\ "PW1" \in openPWs'
  BY <1>d DEF openPWs, PWSubkey, Unlocked, Present, fixed, roles, keys
<1>r. ASSUME NEW ins, NEW sw, NEW n, Reply(ins, sw, n),
             ins \notin {"DEC", "ENC"} \/ sw # "9000"
      PROVE  Auth!Answer
  BY <1>r DEF Auth!Answer, Reply, lastOut
<1>p. ASSUME NEW ins, NEW sw, NEW n, Reply(ins, sw, n), Unlocked(Dec),
             UNCHANGED <<fixed, roles, keys>>
      PROVE  Auth!Answer
  BY <1>d, <1>p DEF Auth!Answer, Reply, lastOut
<1>1. CASE PowerOn \/ PowerOff \/ \E dcp \in BOOLEAN : Main(dcp)
  BY <1>0, <1>1 DEF PowerOn, PowerOff, Main, Reset, NoAnswer
<1>2. CASE Select
  BY <1>r, <1>2 DEF Select, SelectOpenPGP, SelectOther
<1>3. ASSUME NEW do, GetData(do) PROVE Auth!Answer
  BY <1>r, <1>3 DEF GetData
<1>4. CASE Verify
  BY <1>r, <1>4
     DEF Verify, VerifyRefused, VerifyStatus, VerifyPWLock, VerifyPassphrase
<1>5. ASSUME NEW crt, GenerateAsymmetricKeyPair(crt) PROVE Auth!Answer
  BY <1>r, <1>5 DEF GenerateAsymmetricKeyPair, Fails
<1>6. CASE Command_Other
  BY <1>r, <1>6 DEF Command_Other, Fails
<1>7. CASE SecurityOperation
  <2>1. CASE PSO_Unsupported
    BY <1>r, <2>1 DEF PSO_Unsupported
  <2>2. ASSUME NEW data, NEW ok, ComputeDigitalSignature(data, ok) PROVE Auth!Answer
    BY <1>r, <2>2 DEF ComputeDigitalSignature
  <2>3. ASSUME NEW data, NEW ok, Decipher(data, ok) PROVE Auth!Answer
    <3>1. UNCHANGED <<fixed, roles, keys>>
      BY <2>3 DEF Decipher, PSO
    <3> QED
      BY <1>r, <1>p, <2>3, <3>1 DEF Decipher, AES, Fails
  <2>4. ASSUME NEW data, NEW ok, Encipher(data, ok) PROVE Auth!Answer
    <3>1. UNCHANGED <<fixed, roles, keys>>
      BY <2>4 DEF Encipher, PSO
    <3> QED
      BY <1>r, <1>p, <2>4, <3>1 DEF Encipher, AES, Fails
  <2> QED
    BY <1>7, <2>1, <2>2, <2>3, <2>4 DEF SecurityOperation
<1>8. ASSUME NEW ok, getObjects(ok) PROVE Auth!Answer
  BY <1>r, <1>8 DEF getObjects
<1>9. ASSUME NEW s, NEW dcp, ConsoleInit(s) \/ Init_End(s, dcp) PROVE Auth!Answer
  BY <1>0, <1>9 DEF ConsoleInit, ConsoleQuiet, Init_End
<1>10. CASE lockCommand
  BY <1>0, <1>10
     DEF lockCommand, lockCommand_lock, lockCommand_unlock, ReadPassword,
         ReadPassword_Error, lockCommand_Verify, ConsoleQuiet
<1> QED
  BY <1>1, <1>2, <1>3, <1>4, <1>5, <1>6, <1>7, <1>8, <1>9, <1>10 DEF Next, Command

\* The card implements CardholderAuth.
THEOREM Refinement == Spec => RefinesAuth
<1>1. Init => Auth!AuthInit
  BY DEF Init, Fresh, NoResponse, NoWork, Auth!AuthInit, openPWs, freePWs, Unlocked,
         Present, PWSubkey, lastOut, inInit
<1>2. CardInv /\ [Next]_vars => [Auth!AuthNext]_(Auth!authVars)
  <2>1. CardInv /\ Next => Auth!AuthNext
    BY NextStep, NextAnswer DEF Step, Auth!AuthNext
  <2>2. UNCHANGED vars => UNCHANGED Auth!authVars
    BY DEF vars, Auth!authVars, openPWs, freePWs, lastOut, inInit, Unlocked, Present,
           Protected, PWSubkey, fixed, roles, keys, pwVars
  <2> QED
    BY <2>1, <2>2
<1> QED
  BY <1>1, <1>2, CardInvariant, PTL DEF Spec, RefinesAuth, Auth!AuthSpec
=============================================================================
