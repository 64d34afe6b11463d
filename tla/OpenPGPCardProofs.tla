-------------------------- MODULE OpenPGPCardProofs --------------------------
(***************************************************************************)
(* Proofs about OpenPGPCard for every set of builds, keys, passphrases and *)
(* sessions and every size of the two counters.                            *)
(***************************************************************************)
EXTENDS OpenPGPCard, TLAPS, WellFoundedInduction, FiniteSetTheorems

(***************************************************************************)
(* The subkey decodeSubkeys picks exists: bounded sets of naturals have a  *)
(* maximum.                                                                *)
(***************************************************************************)

\* A non-empty set of naturals has a least element.
LEMMA LeastNatural ==
    ASSUME NEW S, S \subseteq Nat, S # {}
    PROVE  \E x \in S : \A y \in S : x <= y
<1> DEFINE R == {ss \in Nat \X Nat : ss[1] < ss[2]}
<1>1. IsWellFoundedOn(R, Nat)
  BY NatLessThanWellFounded DEF OpToRel
<1>2. \A x, y \in Nat : <<y, x>> \notin R => x <= y
  OBVIOUS
<1> HIDE DEF R
<1>3. \E x \in S : \A y \in S : <<y, x>> \notin R
  BY <1>1, WFMin
<1> QED
  BY <1>2, <1>3

\* A non-empty set of naturals up to n has a greatest element.
LEMMA GreatestNatural ==
    ASSUME NEW n \in Nat, NEW S, S \subseteq 1..n, S # {}
    PROVE  \E x \in S : \A y \in S : y <= x
<1> DEFINE D == {k \in Nat : n - k \in S}
<1>1. \A x \in S : n - x \in D
  OBVIOUS
<1>2. D \subseteq Nat /\ D # {}
  BY <1>1
<1>3. PICK d \in D : \A e \in D : d <= e
  <2> HIDE DEF D
  <2> QED
    BY <1>2, LeastNatural
<1>4. \A y \in S : d <= n - y
  BY <1>1, <1>3
<1> QED
  BY <1>3, <1>4

\* decodeSubkeys returns nil or a subkey of the entity with the flags asked for.
LEMMA DecodeSubkeys ==
    ASSUME entity \in Seq(Subkey), NEW F
    PROVE  /\ decodeSubkeys(F) \in 0..Len(entity)
           /\ decodeSubkeys(F) # 0 => F \subseteq entity[decodeSubkeys(F)].flags
<1> DEFINE M == {i \in 1..Len(entity) : F \subseteq entity[i].flags}
<1>1. CASE M = {}
  BY <1>1 DEF decodeSubkeys
<1>2. CASE M # {}
  <2>1. Len(entity) \in Nat /\ M \subseteq 1..Len(entity)
    OBVIOUS
  <2>2. \E x \in M : \A y \in M : y <= x
    <3> HIDE DEF M
    <3> QED
      BY <1>2, <2>1, GreatestNatural
  <2>3. decodeSubkeys(F) = CHOOSE i \in M : \A j \in M : j <= i
    BY <1>2 DEF decodeSubkeys
  <2>4. decodeSubkeys(F) \in M
    <3> HIDE DEF M
    <3> QED
      BY <2>2, <2>3
  <2> QED
    BY <2>4
<1> QED
  BY <1>1, <1>2

\* The firmware image determines well formed subkeys.
LEMMA EntityTyped == entity \in Entities => entity \in Seq(Subkey)
  BY CardAssumption

(***************************************************************************)
(* CardInv by the state it is about: the keys with their counters, the     *)
(* flags, and the rest.                                                    *)
(***************************************************************************)

KeyTypes ==
    /\ build \in Builds
    /\ entity \in Entities
    /\ {Sig, Dec, Aut} \subseteq 0..Len(entity)
    /\ encrypted \in [1..Len(entity) -> BOOLEAN]
    /\ cached \subseteq 1..Len(entity)
    /\ errorCounterPW1 \in 0..255
    /\ wrong \in Nat
    /\ uses \in Nat

KeyRoles ==
    /\ ~initialized => /\ Sig = 0 /\ Dec = 0 /\ Aut = 0
                       /\ errorCounterPW1 = 0 /\ wrong = 0 /\ uses = 0
                       /\ granted = {}
    /\ {i \in {Sig, Dec, Aut} : Present(i)} \subseteq cached
    /\ \A i \in 1..Len(entity) : encrypted[i] => Protected(i)
    /\ IsFiniteSet(granted)
    /\ initialized => granted # {}

KeyInv == KeyTypes /\ KeyRoles /\ RetryBudget /\ UseBudget

FlagTypes ==
    /\ initialized \in BOOLEAN /\ selected \in BOOLEAN
    /\ autEncrypted \in BOOLEAN /\ autShared \in BOOLEAN
    /\ blue \in BOOLEAN /\ white \in BOOLEAN

Todo == [op  : {"none", "derive", "prompt", "lock", "unlock"},
         pws : SUBSET {"PW1_CDS", "PW1"},
         pass: Passphrases \cup {NoPassphrase},
         arg : {"wrapped", "plain", "nil"}]

ControlInv ==
    /\ power \in {"off", "starting", "up", "panic", "exit"}
    /\ armored \in {"wrapped", "plain", "nil"}
    /\ digitalSignatureCounter \in 0..(DSCModulus - 1)
    /\ todo \in [Sessions -> Todo]
    /\ power \in {"off", "starting"} => ~initialized

\* Who has been granted retries, and who may still be.
GrantInv ==
    /\ granted \subseteq Sessions \cup {"boot"}
    /\ \A s \in Sessions : todo[s].op = "derive" => s \notin granted
    /\ power \in {"off", "starting"} => \A s \in Sessions : todo[s].op # "derive"

\* The parts make up the inductive invariant.
LEMMA CardInvParts == CardInv <=> KeyInv /\ FlagTypes /\ ControlInv /\ GrantInv
  BY DEF CardInv, TypeOK, RolesConsistent, GrantsOnce, KeyInv, KeyTypes, KeyRoles,
         FlagTypes, ControlInv, GrantInv, Todo

\* The subkeys of a well formed entity are records.
LEMMA Indices ==
    ASSUME KeyTypes
    PROVE  /\ entity \in Seq(Subkey)
           /\ Len(entity) \in Nat
           /\ \A i \in 1..Len(entity) : entity[i] \in Subkey
  BY EntityTyped DEF KeyTypes

(***************************************************************************)
(* The initial state                                                       *)
(***************************************************************************)

\* A card that is off satisfies the invariant.
LEMMA InitInv == Init => CardInv
<1> SUFFICES ASSUME Init PROVE CardInv
  OBVIOUS
<1> USE DEF Init, Fresh
<1>1. entity \in Seq(Subkey) /\ Len(entity) \in Nat
  BY EntityTyped
<1>2. KeyTypes
  <2>1. encrypted \in [1..Len(entity) -> BOOLEAN]
    BY DEF Protected
  <2> QED
    BY <1>1, <2>1 DEF KeyTypes
<1>3. KeyRoles /\ RetryBudget /\ UseBudget
  BY <1>1, FS_EmptySet DEF KeyRoles, Present, RetryBudget, UseBudget, Unlocked
<1>4. FlagTypes
  BY DEF FlagTypes, IMX6
<1>5. ControlInv
  <2>1. NoWork \in Todo
    BY DEF NoWork, Todo
  <2>2. todo \in [Sessions -> Todo]
    BY <2>1
  <2> QED
    BY <2>2, CardAssumption DEF ControlInv
<1>6. GrantInv
  BY DEF GrantInv, NoWork
<1> QED
  BY <1>2, <1>3, <1>4, <1>5, <1>6, CardInvParts DEF KeyInv

(***************************************************************************)
(* What the building blocks of the actions do to the keys                  *)
(***************************************************************************)

\* A step that leaves keys, roles and counters alone keeps their invariant.
LEMMA KeyFrame ==
    KeyInv /\ UNCHANGED <<fixed, roles, keys, pwVars>> => KeyInv'
  BY DEF KeyInv, KeyTypes, KeyRoles, RetryBudget, UseBudget, Unlocked, Present,
         Protected, fixed, roles, keys, pwVars

\* An initialized card has been granted its retries once at least.
LEMMA SomeGrant ==
    ASSUME KeyInv, initialized
    PROVE  /\ DEFAULT_PW1_ERROR_COUNTER * Cardinality(granted) \in Nat
           /\ DEFAULT_PW1_ERROR_COUNTER
                 <= DEFAULT_PW1_ERROR_COUNTER * Cardinality(granted)
<1>1. IsFiniteSet(granted) /\ granted # {}
  BY DEF KeyInv, KeyRoles
<1>2. Cardinality(granted) \in Nat /\ Cardinality(granted) # 0
  BY <1>1, FS_CardinalityType, FS_EmptySet
<1>3. \A d, n \in Nat : d * n \in Nat /\ (n # 0 => d <= d * n)
  OBVIOUS
<1> QED
  BY <1>2, <1>3, CardAssumption

\* Another caller of Init adds its retries to what was granted.
LEMMA OneMoreGrant ==
    ASSUME KeyInv, NEW c, c \notin granted, granted' = granted \cup {c},
           UNCHANGED wrong
    PROVE  /\ IsFiniteSet(granted)'
           /\ DEFAULT_PW1_ERROR_COUNTER + wrong'
                 <= DEFAULT_PW1_ERROR_COUNTER * Cardinality(granted)'
<1> DEFINE n == Cardinality(granted)
<1>1. /\ IsFiniteSet(granted) /\ n \in Nat
      /\ IsFiniteSet(granted \cup {c})
      /\ Cardinality(granted \cup {c}) = n + 1
  BY FS_CardinalityType, FS_AddElement DEF KeyInv, KeyRoles
<1>2. wrong \in Nat
  BY DEF KeyInv, KeyTypes
<1>3. \A d, k \in Nat : d * k \in Nat /\ d * (k + 1) = d * k + d
  OBVIOUS
<1>4. /\ DEFAULT_PW1_ERROR_COUNTER \in Nat
      /\ DEFAULT_PW1_ERROR_COUNTER * n \in Nat
      /\ DEFAULT_PW1_ERROR_COUNTER * (n + 1)
            = DEFAULT_PW1_ERROR_COUNTER * n + DEFAULT_PW1_ERROR_COUNTER
  BY <1>1, <1>3, CardAssumption
<1>5. wrong <= DEFAULT_PW1_ERROR_COUNTER * n
  <2>1. CASE initialized
    <3>1. errorCounterPW1 + wrong <= DEFAULT_PW1_ERROR_COUNTER * n
      BY <2>1 DEF KeyInv, RetryBudget
    <3>2. errorCounterPW1 \in Nat
      BY DEF KeyInv, KeyTypes
    <3> HIDE DEF n
    <3> QED
      BY <1>2, <1>4, <3>1, <3>2
  <2>2. CASE ~initialized
    <3>1. wrong = 0
      BY <2>2 DEF KeyInv, KeyRoles
    <3> HIDE DEF n
    <3> QED
      BY <1>4, <3>1
  <2> QED
    BY <2>1, <2>2
<1>6. granted' = granted \cup {c} /\ wrong' = wrong
  OBVIOUS
<1>7. /\ IsFiniteSet(granted)'
      /\ DEFAULT_PW1_ERROR_COUNTER * Cardinality(granted)'
            = DEFAULT_PW1_ERROR_COUNTER * (n + 1)
  BY <1>1, <1>6
<1> HIDE DEF n
<1> QED
  BY <1>2, <1>4, <1>5, <1>6, <1>7

\* A VERIFY with a passphrase, right or wrong, keeps the key invariant: a
\* wrong one moves a unit from the counter to the history, a right one resets both.
LEMMA UnlockKeys ==
    ASSUME KeyInv, NEW i \in {Sig, Dec}, Present(i), NEW pass,
           VerifyUnlock(i, pass), UNCHANGED <<fixed, roles>>
    PROVE  KeyInv'
<1>1. CASE UNCHANGED <<keys, pwVars>>
  BY <1>1, KeyFrame
<1> USE Indices DEF KeyInv, fixed, roles
<1>i. i \in 1..Len(entity)
  BY DEF KeyTypes, Present
<1>2. CASE /\ encrypted[i] /\ errorCounterPW1 # 0 /\ Decrypts(i, pass)
           /\ Unlock(i)
  <2> USE <1>i, <1>2 DEF Unlock
  <2>1. KeyTypes'
    BY CardAssumption DEF KeyTypes
  <2>2. KeyRoles'
    BY DEF KeyRoles, KeyTypes, Present, Protected
  <2>3. RetryBudget'
    BY SomeGrant, CardAssumption DEF RetryBudget
  <2>4. UseBudget'
    BY DEF UseBudget, KeyTypes, Unlocked, Present, Protected
  <2> QED
    BY <2>1, <2>2, <2>3, <2>4
<1>3. CASE /\ encrypted[i] /\ errorCounterPW1 # 0 /\ ~Decrypts(i, pass)
           /\ errorCounterPW1' = errorCounterPW1 - 1
           /\ wrong' = wrong + 1
           /\ UNCHANGED <<keys, uses>>
  <2> USE <1>3 DEF keys
  <2>1. KeyTypes'
    BY DEF KeyTypes
  <2>0. initialized
    BY DEF KeyRoles, Present
  <2>2. KeyRoles'
    BY <2>0 DEF KeyRoles, KeyTypes, Present, Protected
  <2>3. RetryBudget'
    <3>1. DEFAULT_PW1_ERROR_COUNTER * Cardinality(granted) \in Nat
      BY <2>0, SomeGrant
    <3>2. /\ granted' = granted /\ initialized' = initialized
          /\ wrong \in Nat /\ errorCounterPW1 \in Nat /\ errorCounterPW1 # 0
          /\ DEFAULT_PW1_ERROR_COUNTER \in Nat
      BY CardAssumption DEF KeyTypes
    <3> QED
      BY <2>0, <3>1, <3>2 DEF RetryBudget
  <2>4. UseBudget'
    BY DEF UseBudget, KeyTypes, Unlocked, Present, Protected
  <2> QED
    BY <2>1, <2>2, <2>3, <2>4
<1> QED
  BY <1>1, <1>2, <1>3 DEF VerifyUnlock

\* PW_LOCK keeps the key invariant: it restores keys from their cached copies.
LEMMA LockKeys ==
    ASSUME KeyInv, NEW I, VerifyLock(I), UNCHANGED <<fixed, roles, pwVars>>
    PROVE  KeyInv'
<1> USE Indices DEF KeyInv, fixed, roles, pwVars, VerifyLock
<1>1. KeyTypes'
  BY DEF KeyTypes, Protected
<1>2. KeyRoles'
  BY DEF KeyRoles, KeyTypes, Present, Protected
<1>3. RetryBudget'
  BY DEF RetryBudget
<1>4. UseBudget'
  BY DEF UseBudget, KeyTypes, KeyRoles, Relocked, Unlocked, Present, Protected
<1> QED
  BY <1>1, <1>2, <1>3, <1>4

\* A use of the signature key spends its verification and locks it again.
LEMMA UseSigKeys ==
    ASSUME KeyInv, UseSig, UNCHANGED <<fixed, roles>>
    PROVE  KeyInv'
<1> USE Indices DEF KeyInv, fixed, roles, UseSig, VerifyLock
<1>1. Sig \in 1..Len(entity) /\ Sig \in Relocked({Sig})
  BY DEF KeyTypes, Unlocked, Present, Relocked
<1>2. encrypted' \in [1..Len(entity) -> BOOLEAN]
  BY DEF KeyTypes, Protected
<1>3. encrypted'[Sig] = Protected(Sig)
  BY <1>1
<1>4. Protected(Sig)' = Protected(Sig)
  BY DEF Protected
<1>5. uses' \in Nat /\ uses' <= 1 /\ (~Protected(Sig) \/ encrypted'[Sig])
  <2>1. CASE Protected(Sig)
    <3>1. uses = 0
      BY <2>1 DEF UseBudget
    <3>2. uses' = 1
      BY <2>1, <3>1
    <3>3. encrypted'[Sig]
      BY <2>1, <1>3, Zenon
    <3> QED
      BY <3>2, <3>3
  <2>2. CASE ~Protected(Sig)
    BY <2>2 DEF UseBudget, KeyTypes
  <2> QED
    BY <2>1, <2>2
<1>6. KeyTypes'
  BY <1>2, <1>5 DEF KeyTypes
<1>7. initialized
  BY <1>1 DEF KeyRoles
<1>8. KeyRoles'
  BY <1>7 DEF KeyRoles, KeyTypes, Present, Protected
<1>9. RetryBudget'
  BY DEF RetryBudget
<1>10. UseBudget'
  BY <1>4, <1>5 DEF UseBudget, Unlocked, Present
<1> QED
  BY <1>6, <1>8, <1>9, <1>10

\* card.Init establishes the roles, their cached copies and a full counter.
LEMMA InitKeys ==
    ASSUME KeyInv, NEW c, c \notin granted, NEW arg, NEW dcp,
           CardInit(c, arg, dcp), UNCHANGED fixed
    PROVE  KeyInv'
<1>1. CASE UNCHANGED <<roles, keys, pwVars>>
  BY <1>1, KeyFrame
<1>2. CASE Init_Personalize(c)
  <2> USE Indices, <1>2 DEF KeyInv, fixed, Init_Personalize
  <2>1. {Sig', Dec', Aut'} \subseteq 0..Len(entity)
    BY DecodeSubkeys
  <2>2. encrypted' \in [1..Len(entity) -> BOOLEAN]
    BY DEF Protected
  <2>3. cached' \subseteq 1..Len(entity)
    BY <2>1 DEF Caches, Present
  <2>4. KeyTypes'
    BY <2>1, <2>2, <2>3, CardAssumption DEF KeyTypes
  <2>5. KeyRoles'
    BY <2>1, OneMoreGrant DEF KeyRoles, Caches, Present, Protected
  <2>6. RetryBudget'
    <3>1. errorCounterPW1' = DEFAULT_PW1_ERROR_COUNTER /\ wrong' = wrong
      OBVIOUS
    <3>2. wrong \in Nat /\ DEFAULT_PW1_ERROR_COUNTER \in Nat
      BY CardAssumption DEF KeyTypes
    <3>3. DEFAULT_PW1_ERROR_COUNTER + wrong'
             <= DEFAULT_PW1_ERROR_COUNTER * Cardinality(granted)'
      BY OneMoreGrant
    <3> QED
      BY <3>1, <3>2, <3>3 DEF RetryBudget
  <2>7. UseBudget'
    BY DEF UseBudget
  <2> QED
    BY <2>4, <2>5, <2>6, <2>7
<1> QED
  BY <1>1, <1>2 DEF CardInit

\* A restart forgets roles, copies and counters together.
LEMMA ResetKeys ==
    ASSUME KeyInv, Reset, UNCHANGED fixed
    PROVE  KeyInv'
<1> USE Indices DEF KeyInv, fixed, Reset
<1>1. encrypted' \in [1..Len(entity) -> BOOLEAN]
  BY DEF Protected
<1>2. KeyTypes'
  BY <1>1 DEF KeyTypes
<1>3. KeyRoles'
  BY FS_EmptySet DEF KeyRoles, Present, Protected
<1>4. RetryBudget' /\ UseBudget'
  BY DEF RetryBudget, UseBudget, Unlocked, Present
<1> QED
  BY <1>2, <1>3, <1>4

(***************************************************************************)
(* Every step keeps KeyInv                                                 *)
(***************************************************************************)

\* The subkey a password reference stands for is the signature or the
\* decryption key.
LEMMA PWSubkeyRole ==
    ASSUME NEW pw, Present(PWSubkey(pw))
    PROVE  PWSubkey(pw) \in {Sig, Dec}
  BY DEF PWSubkey, Present

\* Every action of the card keeps the key invariant.
LEMMA NextKeys == KeyInv /\ ControlInv /\ GrantInv /\ Next => KeyInv'
<1> SUFFICES ASSUME KeyInv, ControlInv, GrantInv, Next PROVE KeyInv'
  OBVIOUS
<1> USE DEF fixed, roles, keys, pwVars
<1>1. CASE PowerOn
  BY <1>1, KeyFrame DEF PowerOn
<1>2. ASSUME NEW dcp \in BOOLEAN, Main(dcp) PROVE KeyInv'
  <2>1. granted = {}
    BY <1>2 DEF Main, ControlInv, KeyInv, KeyRoles
  <2> QED
    BY <1>2, <2>1, KeyFrame, InitKeys DEF Main
<1>3. CASE PowerOff
  BY <1>3, ResetKeys DEF PowerOff
<1>4. CASE Select
  <2>1. CASE SelectOpenPGP
    BY <2>1, KeyFrame DEF SelectOpenPGP
  <2>2. CASE SelectOther
    BY <2>2, KeyFrame, LockKeys DEF SelectOther
  <2> QED
    BY <1>4, <2>1, <2>2 DEF Select
<1>5. ASSUME NEW do, GetData(do) PROVE KeyInv'
  BY <1>5, KeyFrame DEF GetData
<1>6. CASE Verify
  <2>1. CASE VerifyRefused
    BY <2>1, KeyFrame DEF VerifyRefused
  <2>2. ASSUME NEW pw, VerifyStatus(pw) PROVE KeyInv'
    BY <2>2, KeyFrame DEF VerifyStatus
  <2>3. ASSUME NEW pw, VerifyPWLock(pw) PROVE KeyInv'
    BY <2>3, LockKeys DEF VerifyPWLock
  <2>4. ASSUME NEW pw, NEW pass, VerifyPassphrase(pw, pass) PROVE KeyInv'
    BY <2>4, PWSubkeyRole, UnlockKeys DEF VerifyPassphrase
  <2> QED
    BY <1>6, <2>1, <2>2, <2>3, <2>4 DEF Verify
<1>7. ASSUME NEW crt, GenerateAsymmetricKeyPair(crt) PROVE KeyInv'
  BY <1>7, KeyFrame DEF GenerateAsymmetricKeyPair
<1>8. CASE Command_Other
  BY <1>8, KeyFrame DEF Command_Other
<1>9. CASE SecurityOperation
  <2> USE DEF PSO
  <2>1. CASE PSO_Unsupported
    BY <2>1, KeyFrame DEF PSO_Unsupported
  <2>2. ASSUME NEW data, NEW ok, ComputeDigitalSignature(data, ok) PROVE KeyInv'
    BY <2>2, KeyFrame, UseSigKeys DEF ComputeDigitalSignature
  <2>3. ASSUME NEW data, NEW ok, Decipher(data, ok) PROVE KeyInv'
    BY <2>3, KeyFrame DEF Decipher
  <2>4. ASSUME NEW data, NEW ok, Encipher(data, ok) PROVE KeyInv'
    BY <2>4, KeyFrame DEF Encipher
  <2> QED
    BY <1>9, <2>1, <2>2, <2>3, <2>4 DEF SecurityOperation
<1>10. ASSUME NEW ok, getObjects(ok) PROVE KeyInv'
  BY <1>10, KeyFrame, UseSigKeys DEF getObjects
<1> USE DEF ConsoleQuiet
<1>11. ASSUME NEW s, ConsoleInit(s) PROVE KeyInv'
  BY <1>11, KeyFrame DEF ConsoleInit
<1>12. ASSUME NEW s \in Sessions, NEW pws, lockCommand_lock(s, pws) PROVE KeyInv'
  BY <1>12, KeyFrame DEF lockCommand_lock
<1>13. ASSUME NEW s \in Sessions, NEW pws, lockCommand_unlock(s, pws)
       PROVE  KeyInv'
  BY <1>13, KeyFrame DEF lockCommand_unlock
<1>14. ASSUME NEW s \in Sessions, NEW pass, ReadPassword(s, pass) PROVE KeyInv'
  BY <1>14, KeyFrame DEF ReadPassword
<1>15. ASSUME NEW s \in Sessions, ReadPassword_Error(s) PROVE KeyInv'
  BY <1>15, KeyFrame DEF ReadPassword_Error
<1>16. ASSUME NEW s \in Sessions, lockCommand_Verify(s) PROVE KeyInv'
  BY <1>16, KeyFrame, LockKeys, PWSubkeyRole, UnlockKeys DEF lockCommand_Verify
<1>17. ASSUME NEW s \in Sessions, NEW dcp, Init_End(s, dcp) PROVE KeyInv'
  <2>1. s \notin granted
    BY <1>17 DEF Init_End, GrantInv
  <2> QED
    BY <1>17, <2>1, InitKeys DEF Init_End
<1> QED
  BY <1>1, <1>2, <1>3, <1>4, <1>5, <1>6, <1>7, <1>8, <1>9, <1>10, <1>11, <1>12,
     <1>13, <1>14, <1>15, <1>16, <1>17 DEF Next, Command, lockCommand

(***************************************************************************)
(* Every step keeps the flags Boolean                                      *)
(***************************************************************************)

\* LED() leaves an LED on or off.
LEMMA LEDFlag == ASSUME NEW old \in BOOLEAN, NEW on \in BOOLEAN
                 PROVE  LED(old, on) \in BOOLEAN
  BY DEF LED

\* signalVerificationStatus leaves the LED on or off.
LEMMA SignalFlag == ASSUME FlagTypes, NEW sig, NEW dec, NEW enc
                    PROVE  signalVerificationStatus(sig, dec, enc) \in BOOLEAN
<1>1. (\E i \in {sig, dec} : i # 0 /\ entity[i].priv = "key" /\ ~enc[i]) \in BOOLEAN
  OBVIOUS
<1> QED
  BY <1>1, LEDFlag DEF FlagTypes, signalVerificationStatus

\* card.Init leaves the flags Boolean.
LEMMA CardInitFlags ==
    ASSUME FlagTypes, NEW c, NEW arg, NEW dcp, CardInit(c, arg, dcp)
    PROVE  /\ initialized' \in BOOLEAN /\ autEncrypted' \in BOOLEAN
           /\ autShared' \in BOOLEAN /\ blue' \in BOOLEAN /\ white' \in BOOLEAN
<1>1. CASE Init_Personalize(c)
  BY <1>1, LEDFlag, SignalFlag, Zenon DEF Init_Personalize, FlagTypes
<1> QED
  BY <1>1, Zenon DEF CardInit, FlagTypes, roles, keys

\* PW_LOCK leaves the flags of the authentication key Boolean.
LEMMA LockFlags ==
    ASSUME FlagTypes, NEW I, VerifyLock(I)
    PROVE  autEncrypted' \in BOOLEAN /\ autShared' \in BOOLEAN
  BY Zenon DEF VerifyLock, FlagTypes

\* PW_VERIFY leaves the flags of the authentication key Boolean.
LEMMA UnlockFlags ==
    ASSUME FlagTypes, NEW i, NEW pass, VerifyUnlock(i, pass)
    PROVE  autEncrypted' \in BOOLEAN /\ autShared' \in BOOLEAN
  BY Zenon DEF VerifyUnlock, Unlock, FlagTypes, keys

\* Every action of the card leaves the flags Boolean.
LEMMA NextFlags == FlagTypes /\ Next => FlagTypes'
<1> SUFFICES ASSUME FlagTypes, Next PROVE FlagTypes'
  OBVIOUS
<1> USE DEF fixed, roles, keys, pwVars
<1>0. ASSUME Signal PROVE blue' \in BOOLEAN
  BY <1>0, SignalFlag, Zenon DEF Signal
<1>w. LED(white, FALSE) \in BOOLEAN
  BY LEDFlag DEF FlagTypes
<1>1. CASE PowerOn
  BY <1>1, Zenon DEF PowerOn, FlagTypes
<1>2. ASSUME NEW dcp \in BOOLEAN, Main(dcp) PROVE FlagTypes'
  BY <1>2, CardInitFlags, Zenon DEF Main, FlagTypes
<1>3. CASE PowerOff
  BY <1>3, Zenon DEF PowerOff, Reset, FlagTypes, IMX6
<1>4. CASE Select
  BY <1>0, <1>4, LockFlags, Zenon DEF Select, SelectOpenPGP, SelectOther, FlagTypes
<1>5. ASSUME NEW do, GetData(do) PROVE FlagTypes'
  BY <1>5, Zenon DEF GetData, FlagTypes
<1>6. CASE Verify
  <2>1. CASE VerifyRefused
    BY <1>0, <2>1, Zenon DEF VerifyRefused, FlagTypes
  <2>2. ASSUME NEW pw, VerifyStatus(pw) PROVE FlagTypes'
    BY <1>0, <2>2, Zenon DEF VerifyStatus, FlagTypes
  <2>3. ASSUME NEW pw, VerifyPWLock(pw) PROVE FlagTypes'
    BY <1>0, <2>3, LockFlags, Zenon DEF VerifyPWLock, FlagTypes
  <2>4. ASSUME NEW pw, NEW pass, VerifyPassphrase(pw, pass) PROVE FlagTypes'
    BY <1>0, <2>4, UnlockFlags, Zenon DEF VerifyPassphrase, FlagTypes
  <2> QED
    BY <1>6, <2>1, <2>2, <2>3, <2>4 DEF Verify
<1>7. ASSUME NEW crt, GenerateAsymmetricKeyPair(crt) PROVE FlagTypes'
  BY <1>7, Zenon DEF GenerateAsymmetricKeyPair, FlagTypes
<1>8. CASE Command_Other
  BY <1>8, Zenon DEF Command_Other, FlagTypes
<1>9. CASE SecurityOperation
  <2> USE <1>w DEF PSO
  <2>1. CASE PSO_Unsupported
    BY <2>1, Zenon DEF PSO_Unsupported, FlagTypes
  <2>2. ASSUME NEW data, NEW ok, ComputeDigitalSignature(data, ok) PROVE FlagTypes'
    BY <1>0, <2>2, LockFlags, Zenon DEF ComputeDigitalSignature, UseSig, FlagTypes
  <2>3. ASSUME NEW data, NEW ok, Decipher(data, ok) PROVE FlagTypes'
    BY <2>3, Zenon DEF Decipher, FlagTypes
  <2>4. ASSUME NEW data, NEW ok, Encipher(data, ok) PROVE FlagTypes'
    BY <2>4, Zenon DEF Encipher, FlagTypes
  <2> QED
    BY <1>9, <2>1, <2>2, <2>3, <2>4 DEF SecurityOperation
<1>10. ASSUME NEW ok, getObjects(ok) PROVE FlagTypes'
  BY <1>0, <1>10, LockFlags, Zenon DEF getObjects, UseSig, FlagTypes
<1> USE DEF ConsoleQuiet
<1>11. ASSUME NEW s, ConsoleInit(s) PROVE FlagTypes'
  BY <1>11, Zenon DEF ConsoleInit, FlagTypes
<1>12. ASSUME NEW s, NEW pws, lockCommand_lock(s, pws) PROVE FlagTypes'
  BY <1>12, Zenon DEF lockCommand_lock, FlagTypes
<1>13. ASSUME NEW s, NEW pws, lockCommand_unlock(s, pws) PROVE FlagTypes'
  BY <1>13, Zenon DEF lockCommand_unlock, FlagTypes
<1>14. ASSUME NEW s, NEW pass, ReadPassword(s, pass) PROVE FlagTypes'
  BY <1>14, Zenon DEF ReadPassword, FlagTypes
<1>15. ASSUME NEW s, ReadPassword_Error(s) PROVE FlagTypes'
  BY <1>15, Zenon DEF ReadPassword_Error, FlagTypes
<1>16. ASSUME NEW s, lockCommand_Verify(s) PROVE FlagTypes'
  BY <1>0, <1>16, LockFlags, UnlockFlags, Zenon DEF lockCommand_Verify, FlagTypes
<1>17. ASSUME NEW s, NEW dcp, Init_End(s, dcp) PROVE FlagTypes'
  BY <1>17, CardInitFlags, Zenon DEF Init_End, FlagTypes
<1> QED
  BY <1>1, <1>2, <1>3, <1>4, <1>5, <1>6, <1>7, <1>8, <1>9, <1>10, <1>11, <1>12,
     <1>13, <1>14, <1>15, <1>16, <1>17 DEF Next, Command, lockCommand

(***************************************************************************)
(* Every step keeps the rest of the state                                  *)
(***************************************************************************)

\* The signature counter stays within its width, read or incremented.
LEMMA DSCRange ==
    ASSUME digitalSignatureCounter \in 0..(DSCModulus - 1)
    PROVE  /\ DigitalSignatureCounter \in 0..(DSCModulus - 1)
           /\ (digitalSignatureCounter + 1) % DSCModulus \in 0..(DSCModulus - 1)
  BY CardAssumption DEF DigitalSignatureCounter

\* A console command records well formed work for its session.
LEMMA WorkTyped ==
    ASSUME ControlInv, NEW s \in Sessions, NEW pws \in SUBSET {"PW1_CDS", "PW1"},
           NEW op \in {"none", "derive", "prompt", "lock", "unlock"},
           NEW pass \in Passphrases \cup {NoPassphrase},
           NEW arg \in {"wrapped", "plain", "nil"}, Work(s, op, pws, pass, arg)
    PROVE  todo' \in [Sessions -> Todo]
<1>1. [op |-> op, pws |-> pws, pass |-> pass, arg |-> arg] \in Todo
  BY DEF Todo
<1> QED
  BY <1>1 DEF ControlInv, Work

\* Every action keeps the control state, and roles exist only after main().
LEMMA NextControl == ControlInv /\ Next => ControlInv'
<1> SUFFICES ASSUME ControlInv, Next PROVE ControlInv'
  OBVIOUS
<1> USE DEF fixed, roles, Ready, PanicIf, Fails
<1>0. NoWork \in Todo
  BY DEF NoWork, Todo
<1>1. CASE PowerOn
  BY <1>1 DEF PowerOn, ControlInv
<1>2. ASSUME NEW dcp \in BOOLEAN, Main(dcp) PROVE ControlInv'
  BY <1>2 DEF Main, CardInit, Unwrap, ControlInv
<1>3. CASE PowerOff
  <2>1. todo' \in [Sessions -> Todo]
    BY <1>0, <1>3 DEF PowerOff, Reset
  <2> QED
    BY <1>3, <2>1, CardAssumption DEF PowerOff, Reset, ControlInv
<1>4. CASE Select
  BY <1>4 DEF Select, SelectOpenPGP, SelectOther, ControlInv
<1>5. ASSUME NEW do, GetData(do) PROVE ControlInv'
  BY <1>5, DSCRange DEF GetData, ControlInv
<1>6. CASE Verify
  BY <1>6 DEF Verify, VerifyRefused, VerifyStatus, VerifyPWLock, VerifyPassphrase,
              ControlInv
<1>7. ASSUME NEW crt, GenerateAsymmetricKeyPair(crt) PROVE ControlInv'
  BY <1>7 DEF GenerateAsymmetricKeyPair, ControlInv
<1>8. CASE Command_Other
  BY <1>8 DEF Command_Other, ControlInv
<1>9. CASE SecurityOperation
  <2> USE DEF PSO
  <2>1. CASE PSO_Unsupported
    BY <2>1 DEF PSO_Unsupported, ControlInv
  <2>2. ASSUME NEW data, NEW ok, ComputeDigitalSignature(data, ok) PROVE ControlInv'
    BY <2>2, DSCRange DEF ComputeDigitalSignature, UseSig, ControlInv
  <2>3. ASSUME NEW data, NEW ok, Decipher(data, ok) PROVE ControlInv'
    BY <2>3 DEF Decipher, AES, ControlInv
  <2>4. ASSUME NEW data, NEW ok, Encipher(data, ok) PROVE ControlInv'
    BY <2>4 DEF Encipher, AES, ControlInv
  <2> QED
    BY <1>9, <2>1, <2>2, <2>3, <2>4 DEF SecurityOperation
<1>10. ASSUME NEW ok, getObjects(ok) PROVE ControlInv'
  BY <1>10 DEF getObjects, UseSig, ControlInv
<1> USE DEF ConsoleQuiet
<1>i. ASSUME NEW s \in Sessions, NEW pws \in SUBSET {"PW1_CDS", "PW1"}, Init_Begin(s, pws)
      PROVE  todo' \in [Sessions -> Todo]
  <2>1. armored \in {"wrapped", "plain", "nil"}
    BY DEF ControlInv
  <2> QED
    BY <1>i, <2>1, WorkTyped DEF Init_Begin
<1>11. ASSUME NEW s \in Sessions, ConsoleInit(s) PROVE ControlInv'
  BY <1>i, <1>11 DEF ConsoleInit, ControlInv
<1>12. ASSUME NEW s \in Sessions, NEW pws \in PWS, lockCommand_lock(s, pws)
       PROVE  ControlInv'
  BY <1>12, WorkTyped DEF lockCommand_lock, Console, PWS, ControlInv
<1>13. ASSUME NEW s \in Sessions, NEW pws \in PWS, lockCommand_unlock(s, pws)
       PROVE  ControlInv'
  <2>1. pws \in SUBSET {"PW1_CDS", "PW1"}
    BY DEF PWS
  <2>2. todo' \in [Sessions -> Todo]
    BY <1>i, <1>13, <2>1, WorkTyped DEF lockCommand_unlock
  <2> QED
    BY <1>13, <2>2 DEF lockCommand_unlock, ControlInv
<1>14. ASSUME NEW s \in Sessions, NEW pass \in Passphrases \cup {NoPassphrase},
              ReadPassword(s, pass)
       PROVE  ControlInv'
  <2>1. todo[s].pws \in SUBSET {"PW1_CDS", "PW1"}
    BY DEF ControlInv, Todo
  <2> QED
    BY <1>14, <2>1, WorkTyped DEF ReadPassword, ControlInv
<1>15. ASSUME NEW s \in Sessions, ReadPassword_Error(s) PROVE ControlInv'
  BY <1>0, <1>15 DEF ReadPassword_Error, ControlInv
<1>16. ASSUME NEW s \in Sessions, lockCommand_Verify(s) PROVE ControlInv'
  <2>1. ASSUME NEW pws \in SUBSET todo[s].pws
        PROVE  [todo[s] EXCEPT !.pws = pws] \in Todo
    BY <2>1 DEF ControlInv, Todo
  <2>2. todo' \in [Sessions -> Todo]
    BY <1>0, <1>16, <2>1 DEF lockCommand_Verify, ControlInv
  <2> QED
    BY <1>16, <2>2 DEF lockCommand_Verify, ControlInv
<1>17. ASSUME NEW s \in Sessions, NEW dcp, Init_End(s, dcp) PROVE ControlInv'
  <2>1. todo[s].pws \in SUBSET {"PW1_CDS", "PW1"} /\ todo[s].arg \in {"wrapped", "plain", "nil"}
    BY DEF ControlInv, Todo
  <2>2. todo' \in [Sessions -> Todo]
    <3>1. CASE todo' = [todo EXCEPT ![s] = NoWork]
      BY <1>0, <3>1 DEF ControlInv
    <3>2. CASE Work(s, "prompt", todo[s].pws, NoPassphrase, "nil")
      BY <2>1, <3>2, WorkTyped
    <3> QED
      BY <1>17, <3>1, <3>2 DEF Init_End
  <2>3. armored' \in {"wrapped", "plain", "nil"}
    BY <1>17, <2>1 DEF Init_End, CardInit, Unwrap
  <2> QED
    BY <1>17, <2>2, <2>3 DEF Init_End, ControlInv
<1> QED
  BY <1>1, <1>2, <1>3, <1>4, <1>5, <1>6, <1>7, <1>8, <1>9, <1>10, <1>11, <1>12,
     <1>13, <1>14, <1>15, <1>16, <1>17 DEF Next, Command, lockCommand

(***************************************************************************)
(* Every step keeps the account of who was granted retries                 *)
(***************************************************************************)

\* A step in which no session enters Init and nobody is granted anything.
LEMMA GrantFrame ==
    ASSUME GrantInv, granted' = granted, power' \in {"off", "starting"} => power' = power,
           \A s \in Sessions : todo'[s].op = "derive" => todo[s].op = "derive"
    PROVE  GrantInv'
  BY DEF GrantInv

\* Every action keeps the account: a session enters Init while nobody has
\* been granted anything, and leaves it with its grant.
LEMMA NextGrants == KeyInv /\ ControlInv /\ GrantInv /\ Next => GrantInv'
<1> SUFFICES ASSUME KeyInv, ControlInv, GrantInv, Next PROVE GrantInv'
  OBVIOUS
<1> USE DEF roles, Ready, PanicIf, Fails
<1>1. CASE PowerOn
  BY <1>1 DEF PowerOn, GrantInv
<1>2. ASSUME NEW dcp \in BOOLEAN, Main(dcp) PROVE GrantInv'
  <2>1. granted = {} /\ \A s \in Sessions : todo[s].op # "derive"
    BY <1>2 DEF Main, ControlInv, KeyInv, KeyRoles, GrantInv
  <2>2. granted' \subseteq {"boot"} /\ todo' = todo
    BY <1>2, <2>1 DEF Main, CardInit, Init_Personalize
  <2> QED
    BY <2>1, <2>2 DEF GrantInv
<1>3. CASE PowerOff
  BY <1>3 DEF PowerOff, Reset, NoWork, GrantInv
<1>4. CASE Select
  BY <1>4, GrantFrame DEF Select, SelectOpenPGP, SelectOther
<1>5. ASSUME NEW do, GetData(do) PROVE GrantInv'
  BY <1>5, GrantFrame DEF GetData
<1>6. CASE Verify
  BY <1>6, GrantFrame DEF Verify, VerifyRefused, VerifyStatus, VerifyPWLock,
                          VerifyPassphrase
<1>7. ASSUME NEW crt, GenerateAsymmetricKeyPair(crt) PROVE GrantInv'
  BY <1>7, GrantFrame DEF GenerateAsymmetricKeyPair
<1>8. CASE Command_Other
  BY <1>8, GrantFrame DEF Command_Other
<1>9. CASE SecurityOperation
  BY <1>9, GrantFrame
     DEF SecurityOperation, PSO, PSO_Unsupported, ComputeDigitalSignature, UseSig,
         Decipher, Encipher, AES
<1>10. ASSUME NEW ok, getObjects(ok) PROVE GrantInv'
  BY <1>10, GrantFrame DEF getObjects, UseSig
<1>11. ASSUME NEW s \in Sessions, NEW pws, Init_Begin(s, pws), ConsoleQuiet, Ready
       PROVE  GrantInv'
  <2>1. granted = {}
    BY <1>11 DEF Init_Begin, KeyInv, KeyRoles
  <2> QED
    BY <1>11, <2>1 DEF ConsoleQuiet, GrantInv
<1>12. ASSUME NEW s \in Sessions, NEW op, op # "derive", NEW pws, NEW pass, NEW arg,
              Work(s, op, pws, pass, arg), ConsoleQuiet
       PROVE  GrantInv'
  BY <1>12, GrantFrame DEF Work, ConsoleQuiet, ControlInv
<1>13. ASSUME NEW s \in Sessions, NEW pws, \/ ConsoleInit(s)
                                            \/ lockCommand_lock(s, pws)
                                            \/ lockCommand_unlock(s, pws)
       PROVE  GrantInv'
  BY <1>11, <1>12, <1>13 DEF ConsoleInit, lockCommand_lock, lockCommand_unlock, Console
<1>14. ASSUME NEW s \in Sessions, NEW pass, ReadPassword(s, pass) PROVE GrantInv'
  BY <1>12, <1>14 DEF ReadPassword
<1>15. ASSUME NEW s \in Sessions, ReadPassword_Error(s) PROVE GrantInv'
  BY <1>15, GrantFrame DEF ReadPassword_Error, ConsoleQuiet, NoWork, ControlInv
<1>16. ASSUME NEW s \in Sessions, lockCommand_Verify(s) PROVE GrantInv'
  <2>1. todo[s].op # "derive" /\ todo \in [Sessions -> Todo]
    BY <1>16 DEF lockCommand_Verify, ControlInv
  <2>2. \A r \in Sessions : todo'[r].op = "derive" => todo[r].op = "derive"
    BY <1>16, <2>1 DEF lockCommand_Verify, NoWork, Todo
  <2> QED
    BY <1>16, <2>2, GrantFrame DEF lockCommand_Verify
<1>17. ASSUME NEW s \in Sessions, NEW dcp, Init_End(s, dcp) PROVE GrantInv'
  <2>1. granted' \subseteq granted \cup {s}
    BY <1>17 DEF Init_End, CardInit, Init_Personalize
  <2>2. todo \in [Sessions -> Todo]
    BY DEF ControlInv
  <2>3. /\ todo'[s].op # "derive"
        /\ \A r \in Sessions \ {s} : todo'[r] = todo[r]
    BY <1>17, <2>2 DEF Init_End, Work, NoWork
  <2> QED
    BY <1>17, <2>1, <2>3 DEF GrantInv, Init_End
<1> QED
  BY <1>1, <1>2, <1>3, <1>4, <1>5, <1>6, <1>7, <1>8, <1>9, <1>10, <1>13, <1>14,
     <1>15, <1>16, <1>17 DEF Next, Command, lockCommand

(***************************************************************************)
(* Invariants                                                              *)
(***************************************************************************)

\* The invariant is inductive.
LEMMA StepInv == CardInv /\ [Next]_vars => CardInv'
<1> SUFFICES ASSUME CardInv, [Next]_vars PROVE CardInv'
  OBVIOUS
<1>1. KeyInv /\ FlagTypes /\ ControlInv /\ GrantInv
  BY CardInvParts
<1>2. CASE Next
  <2>1. KeyInv' /\ FlagTypes' /\ ControlInv' /\ GrantInv'
    BY <1>1, <1>2, NextKeys, NextFlags, NextControl, NextGrants
  <2> QED
    BY <2>1, CardInvParts, PTL
<1>3. CASE UNCHANGED vars
  <2>1. KeyInv'
    BY <1>1, <1>3, KeyFrame DEF vars
  <2>2. FlagTypes'
    BY <1>1, <1>3, Zenon DEF vars, FlagTypes, fixed, roles, keys
  <2>3. ControlInv'
    BY <1>1, <1>3 DEF vars, ControlInv, roles
  <2>4. GrantInv'
    BY <1>1, <1>3 DEF vars, GrantInv, roles
  <2> QED
    BY <2>1, <2>2, <2>3, <2>4, CardInvParts, PTL
<1> QED
  BY <1>2, <1>3

\* The inductive invariant holds of every behaviour of the card.
THEOREM CardInvariant == Spec => []CardInv
  BY InitInv, StepInv, PTL DEF Spec

\* Every variable of the card keeps its type.
THEOREM TypeCorrect == Spec => []TypeOK
<1>1. CardInv => TypeOK
  BY DEF CardInv
<1> QED
  BY <1>1, CardInvariant, PTL

\* VERIFY commands and console unlocks in any order, and sessions that overlap
\* in Init included, compare at most DEFAULT_PW1_ERROR_COUNTER wrong passphrases
\* in a row with the keys for each caller whose Init succeeded.
THEOREM BruteForce == Spec => []BruteForceBound
<1>1. CardInv => BruteForceBound
  <2> SUFFICES ASSUME CardInv PROVE BruteForceBound
    OBVIOUS
  <2>1. KeyInv
    BY CardInvParts
  <2>2. IsFiniteSet(granted) /\ Cardinality(granted) \in Nat
    BY <2>1, FS_CardinalityType DEF KeyInv, KeyRoles
  <2>3. CASE initialized
    <3>1. DEFAULT_PW1_ERROR_COUNTER * Cardinality(granted) \in Nat
      BY <2>2, CardAssumption
    <3> QED
      BY <2>1, <2>3, <3>1 DEF KeyInv, KeyTypes, RetryBudget, BruteForceBound
  <2>4. CASE ~initialized
    <3>1. wrong = 0 /\ Cardinality(granted) = 0
      BY <2>1, <2>4, FS_EmptySet DEF KeyInv, KeyRoles
    <3> QED
      BY <3>1, CardAssumption DEF BruteForceBound
  <2> QED
    BY <2>3, <2>4
<1> QED
  BY <1>1, CardInvariant, PTL

\* One PW1_CDS verification pays for one use of the signature key, be it by
\* PSO:CDS or by the PKCS#11 export.
THEOREM OneUse == Spec => []OneUsePerVerification
<1>1. CardInv => OneUsePerVerification
  BY DEF CardInv, UseBudget, OneUsePerVerification
<1> QED
  BY <1>1, CardInvariant, PTL

\* PW_LOCK never dereferences a nil result of Restore.
THEOREM LockSafe == Spec => []LockFindsCache
<1>1. CardInv => LockFindsCache
  BY DEF CardInv, RolesConsistent, LockFindsCache, RestorePanics, Relocked, Unlocked
<1> QED
  BY <1>1, CardInvariant, PTL
=============================================================================
